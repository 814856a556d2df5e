----------------------------- MODULE Multipart -----------------------------
(***************************************************************************)
(* MultipartFormDataParser of server/httplib.h: a body of several parts    *)
(* that arrives in pieces.  A part's headers are lines that are read over; *)
(* its content is what the content callback got.                           *)
(***************************************************************************)
EXTENDS HttpText

Dashes == <<Dash, Dash>>

\* The parser: where it is, what it has of the text, what it found, and whether it
\* wants to go on.
Parser(state, buf, parts, valid, going) ==
    [state |-> state, buf |-> buf, parts |-> parts, valid |-> valid, going |-> going]

Fresh == Parser("first", <<>>, <<>>, FALSE, TRUE)

\* parse() returns true, to be called with more text, or false, for ever.
Stop(p)  == Parser(p.state, p.buf, p.parts, p.valid, FALSE)
Fails(p) == Parser("failed", p.buf, p.parts, FALSE, FALSE)

\* n bytes of the buffer are used up, which leads to a state.
Erase(p, n, state) == Parser(state, From(p.buf, n + 1), p.parts, p.valid, p.going)

\* The content callback, with the first n bytes of the buffer, which go.
Content(p, n) ==
    LET longer == [p.parts EXCEPT ![Len(p.parts)] = @ \o SubSeq(p.buf, 1, n)]
    IN  Parser(p.state, From(p.buf, n + 1), longer, p.valid, p.going)

Lacks(p, pattern) == Len(p.buf) < Len(pattern)
Starts(p, pattern) == Find(p.buf, pattern) = 1

FirstBoundary(p, boundary) ==
    LET pattern == Dashes \o boundary \o CRLF IN
    CASE Lacks(p, pattern)                       -> Stop(p)
      [] ~Lacks(p, pattern) /\ Starts(p, pattern) ->
            Erase(p, Len(pattern), "entry")
      [] OTHER                                   -> Fails(p)

Header(p) ==
    LET end == Find(p.buf, CRLF) IN
    CASE end = 0 -> Stop(p)
      [] end = 1 -> Parser("body", From(p.buf, 3), Append(p.parts, <<>>), p.valid, p.going)
      [] OTHER   -> Erase(p, end + 1, "headers")

\* Mutant of Sure: takes the whole buffer for content.
SureAll(buf) == IF Find(buf, CRLF \o Dashes) # 0 THEN Find(buf, CRLF \o Dashes) - 1 ELSE Len(buf)

\* How much of the buffer is content for sure: all before CRLF and two dashes; if
\* they are not there, all but what may be a beginning of them.
Sure(buf) ==
    LET kept == {i \in DOMAIN buf : buf[i] \notin {CR, LF, Dash}}
    IN  IF Find(buf, CRLF \o Dashes) # 0 THEN Find(buf, CRLF \o Dashes) - 1
        ELSE IF kept = {} THEN 0 ELSE CHOOSE i \in kept : \A j \in kept : j <= i

Body(p, boundary) ==
    LET pattern == CRLF \o Dashes \o boundary
        q       == Content(p, Sure(p.buf))
        end     == Find(q.buf, pattern)
    IN  CASE Lacks(p, CRLF \o Dashes) -> Stop(p)
          [] ~Lacks(p, CRLF \o Dashes) /\ Lacks(q, pattern) -> Stop(q)
          [] ~Lacks(p, CRLF \o Dashes) /\ ~Lacks(q, pattern) /\ end = 0 ->
                Content(q, Len(pattern))
          [] OTHER -> Erase(Content(q, end - 1), Len(pattern), "boundary")

AfterBoundary(p) ==
    LET last == Dashes \o CRLF IN
    CASE Starts(p, CRLF) -> Erase(p, 2, "entry")
      [] Starts(p, last) -> Parser("done", From(p.buf, 5), p.parts, TRUE, p.going)
      [] OTHER           -> Stop(p)

\* One round of the loop.
Step(p, boundary) ==
    CASE p.state = "first"    -> FirstBoundary(p, boundary)
      [] p.state = "entry"    -> Erase(p, 0, "headers")
      [] p.state = "headers"  -> Header(p)
      [] p.state = "body"     -> Body(p, boundary)
      [] p.state = "boundary" -> AfterBoundary(p)
      [] OTHER                -> Fails(p)

\* The loop, which ends when nothing is left to do.  (Of two rounds in a row, one uses
\* up a byte or stops.)
RunRound(boundary, p, n) == IF p.buf = <<>> \/ ~p.going THEN p ELSE Step(p, boundary)
Parsing == INSTANCE Loops WITH Round <- RunRound
Run(p, boundary) == Parsing!Loop(boundary, p, 2 * Len(p.buf) + 2)

\* parse(): one more piece; a parser that has stopped for lack of text goes on.
Parse(p, piece, boundary) ==
    Run(Parser(p.state, p.buf \o piece, p.parts, p.valid, TRUE), boundary)

ParseNext(q, p, i) == Parse(p, q.pieces[i], q.boundary)
Arriving == INSTANCE Loops WITH Round <- ParseNext
ParseAll(pieces, boundary) ==
    Arriving!Loop([pieces |-> pieces, boundary |-> boundary], Fresh, Len(pieces))

\* parse_multipart_boundary: what follows boundary=, without quotes around it.
BoundaryOf(value, key) ==
    LET b == From(value, Find(value, key) + Len(key))
        quoted == Len(b) >= 2 /\ b[1] = Quotes /\ b[Len(b)] = Quotes
    IN  IF quoted THEN SubSeq(b, 2, Len(b) - 1) ELSE b

\* The text a client sends for some contents.
Form(contents, header, boundary) ==
    FlattenSeq([k \in DOMAIN contents |->
                   Dashes \o boundary \o CRLF \o header \o CRLF \o CRLF \o contents[k] \o CRLF])
    \o Dashes \o boundary \o Dashes \o CRLF
=============================================================================
