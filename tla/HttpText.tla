------------------------------ MODULE HttpText ------------------------------
(***************************************************************************)
(* How server/httplib.h takes the text of a request apart: the characters  *)
(* of a path, of a query and of a header, and the chunks of a body.  A     *)
(* text is a sequence of bytes.                                            *)
(***************************************************************************)
EXTENDS Integers, SequencesExt

LF     == 10
CR     == 13
Space  == 32
Quotes == 34
Percent == 37
Amp    == 38
Quote  == 39
Plus   == 43
Comma  == 44
Dash   == 45
Dot    == 46
Slash  == 47
Zero   == 48
Nine   == 57
Colon  == 58
Semi   == 59
Equals == 61
UpperA == 65
UpperF == 70
LowerA == 97
LowerF == 102
LowerU == 117

CRLF == <<CR, LF>>
None == -1

\* The place of p in s, the first one; 0 if there is none (std::string::find).
Find(s, p) ==
    LET at == {i \in 1..(Len(s) - Len(p) + 1) : SubSeq(s, i, i + Len(p) - 1) = p}
    IN  IF at = {} THEN 0 ELSE CHOOSE i \in at : \A j \in at : i <= j

From(s, i) == SubSeq(s, i, Len(s))

-----------------------------------------------------------------------------
(* Numbers.                                                                *)

\* is_hex
Hex(c) == CASE Zero <= c /\ c <= Nine       -> c - Zero
            [] UpperA <= c /\ c <= UpperF   -> c - UpperA + 10
            [] LowerA <= c /\ c <= LowerF   -> c - LowerA + 10
            [] OTHER                        -> None

\* The number that the digits s write.
NumberRound(p, n, i) == (p.base * n) + Hex(p.digits[i])
Reading == INSTANCE Loops WITH Round <- NumberRound
Number(s, base) == Reading!Loop([digits |-> s, base |-> base], 0, Len(s))
HexNumber(s) == Number(s, 16)

\* from_hex_to_i: cnt digits from place i, or None.
FromHex(s, i, cnt) ==
    IF i + cnt - 1 <= Len(s) /\ \A j \in i..(i + cnt - 1) : Hex(s[j]) # None
    THEN HexNumber(SubSeq(s, i, i + cnt - 1)) ELSE None

Digit(d, ten) == IF d < 10 THEN Zero + d ELSE ten + (d - 10)

\* The digits that write n.
Digits(n, base) ==
    LET text[k \in 0..n] ==
            IF k < base THEN <<Digit(k, LowerA)>>
            ELSE Append(text[k \div base], Digit(k % base, LowerA))
    IN  text[n]

\* from_i_to_hex
ToHex(n) == Digits(n, 16)

\* One byte of a longer code: six bits of it.
Tail6(code) == 128 + (code % 64)

Between(code, low, high) == low <= code /\ code < high

\* The codes that stand for halves of others.
Half(code) == Between(code, 55296, 57344)

\* Mutant of ToUtf8: the first limit is one off.
ToUtf8Late(code) ==
    CASE code <= 128                    -> <<code>>
      [] Between(code, 129, 2048)       -> <<192 + (code \div 64), Tail6(code)>>
      [] Half(code)                     -> <<>>
      [] Between(code, 2048, 55296) \/ Between(code, 57344, 65536)
                                        -> <<224 + (code \div 4096), Tail6(code \div 64),
                                             Tail6(code)>>
      [] OTHER                          -> <<>>

\* to_utf8
ToUtf8(code) ==
    CASE code < 128                     -> <<code>>
      [] Between(code, 128, 2048)       -> <<192 + (code \div 64), Tail6(code)>>
      [] Half(code)                     -> <<>>
      [] Between(code, 2048, 55296) \/ Between(code, 57344, 65536)
                                        -> <<224 + (code \div 4096), Tail6(code \div 64),
                                             Tail6(code)>>
      [] Between(code, 65536, 1114112)  -> <<240 + (code \div 262144), Tail6(code \div 4096),
                                             Tail6(code \div 64), Tail6(code)>>
      [] OTHER                          -> <<>>

-----------------------------------------------------------------------------
(* Paths and queries.                                                      *)

Escaped(c) == c \in {Space, Plus, CR, LF, Quote, Comma, Semi} \/ c >= 128

Escape(c) == <<Percent, Digit(c \div 16, UpperA), Digit(c % 16, UpperA)>>

\* encode_url: up to a 0.
EncodeUrl(s) ==
    LET zero == Find(s, <<0>>)
    IN  FlattenSeq([i \in 1..(IF zero = 0 THEN Len(s) ELSE zero - 1) |->
                       IF Escaped(s[i]) THEN Escape(s[i]) ELSE <<s[i]>>])

\* Mutant of DecodeRound: an escape is two characters long.
DecodeRoundAgain(p, x, n) ==
    LET s == p.text
        c == s[x.at]
    IN  CASE x.at > Len(s) -> x
          [] x.at <= Len(s) /\ c = Percent /\ FromHex(s, x.at + 1, 2) # None ->
                [at |-> x.at + 2, out |-> Append(x.out, FromHex(s, x.at + 1, 2))]
          [] OTHER ->
                [at |-> x.at + 1, out |-> Append(x.out, IF p.plus /\ c = Plus THEN Space ELSE c)]

\* One round of the loop of decode_url: it reads on from place x.at, if that is in the
\* text, and has written x.out.
DecodeRound(p, x, n) ==
    LET s     == p.text
        c     == s[x.at]
        wide  == x.at < Len(s) /\ s[x.at + 1] = LowerU
        value == IF c # Percent THEN None
                 ELSE IF wide THEN FromHex(s, x.at + 2, 4) ELSE FromHex(s, x.at + 1, 2)
    IN  IF x.at > Len(s) THEN x
        ELSE IF value = None
        THEN [at |-> x.at + 1, out |-> Append(x.out, IF p.plus /\ c = Plus THEN Space ELSE c)]
        ELSE IF wide THEN [at |-> x.at + 6, out |-> x.out \o ToUtf8(value)]
        ELSE [at |-> x.at + 3, out |-> Append(x.out, value)]
Decoding == INSTANCE Loops WITH Round <- DecodeRound

\* decode_url
DecodeUrl(s, plus) ==
    Decoding!Loop([text |-> s, plus |-> plus], [at |-> 1, out |-> <<>>], Len(s)).out

\* The pieces of s between the ds; no piece if s is empty.
PieceRound(p, pieces, i) ==
    IF p.text[i] = p.d THEN Append(pieces, <<>>)
    ELSE [pieces EXCEPT ![Len(pieces)] = Append(@, p.text[i])]
Cutting == INSTANCE Loops WITH Round <- PieceRound
Pieces(s, d) ==
    IF s = <<>> THEN <<>> ELSE Cutting!Loop([text |-> s, d |-> d], << <<>> >>, Len(s))

\* trim: the spaces around a piece go.
Trim(s) ==
    LET kept == {i \in DOMAIN s : s[i] # Space}
    IN  IF kept = {} THEN <<>>
        ELSE SubSeq(s, CHOOSE i \in kept : \A j \in kept : i <= j,
                       CHOOSE i \in kept : \A j \in kept : i >= j)

\* split
Split(s, d) == LET p == Pieces(s, d) IN [k \in DOMAIN p |-> Trim(p[k])]

\* A piece of spaces only: each end of it that trim moves passes the other one.
Blank(s) == s # <<>> /\ \A i \in 1..Len(s) : s[i] = Space
Crossed(s, d) == LET p == Pieces(s, d) IN \E k \in DOMAIN p : Blank(p[k])

\* parse_query_text: for each part of the query, the key is the first part of it
\* that is not empty, the value the last one after it.  None if a piece ends before it
\* begins: of such a part the loop runs past its end, such a string cannot be built.
ParseQuery(s) ==
    LET parts    == Split(s, Amp)
        first(q) == SelectInSeq(q, LAMBDA x : x # <<>>)
        key(q)   == IF first(q) = 0 THEN <<>> ELSE q[first(q)]
        value(q) == IF first(q) \in {0, Len(q)} THEN <<>> ELSE q[Len(q)]
    IN  IF Crossed(s, Amp) \/ \E k \in DOMAIN parts : Crossed(parts[k], Equals) THEN None
        ELSE [k \in DOMAIN parts |->
                 LET q == Split(parts[k], Equals)
                 IN  <<DecodeUrl(key(q), TRUE), DecodeUrl(value(q), TRUE)>>]

\* Mutant of ValidPath: looks at the end only.
ValidPathAtEnd(path) ==
    LET up == <<Dot, Dot>>
        names == SelectSeq(Pieces(path, Slash), LAMBDA n : n \notin {<<>>, <<Dot>>})
        ups == SelectSeq(names, LAMBDA n : n = up)
    IN  2 * Len(ups) <= Len(names)

\* One component of a path: the level after it, or None once it was below 0.
LevelRound(names, level, i) ==
    CASE level = None \/ names[i] \in {<<>>, <<Dot>>}       -> level
      [] level # None /\ names[i] = <<Dot, Dot>>            -> level - 1
      [] OTHER                                              -> level + 1
Climbing == INSTANCE Loops WITH Round <- LevelRound

\* is_valid_path: the level never goes below 0.
ValidPath(path) ==
    LET names == Pieces(path, Slash)
    IN  Climbing!Loop(names, 0, Len(names)) # None

\* parse_header: what stands before the first colon, and what follows it without
\* leading spaces; nothing if nothing follows.
ParseHeader(s) ==
    LET colon == Find(s, <<Colon>>)
        rest  == {i \in DOMAIN s : i > colon /\ s[i] \notin {Space, 9}}
        start == CHOOSE i \in rest : \A j \in rest : i <= j
    IN  IF colon = 0 \/ rest = {} THEN <<>>
        ELSE <<SubSeq(s, 1, colon - 1), DecodeUrl(From(s, start), TRUE)>>

-----------------------------------------------------------------------------
(* Bodies in chunks.                                                       *)

\* write_content_chunked: what a provider writes goes out as one chunk each;
\* writing nothing ends the loop, and done() writes the marker.
WriteChunked(payloads) ==
    LET chunk(p) == IF p = <<>> THEN <<>> ELSE ToHex(Len(p)) \o CRLF \o p \o CRLF
    IN  FlattenSeq([k \in DOMAIN payloads |-> chunk(payloads[k])]) \o <<Zero>> \o CRLF \o CRLF

\* The line at the head of s: up to LF, or all of s.
LineOf(s) == IF Find(s, <<LF>>) = 0 THEN s ELSE SubSeq(s, 1, Find(s, <<LF>>))

\* The digits at its head, for strtoul.
HexPrefix(s) ==
    LET n == SelectInSeq(s, LAMBDA c : Hex(c) = None)
    IN  IF n = 0 THEN s ELSE SubSeq(s, 1, n - 1)

Failed == [more |-> FALSE, ok |-> FALSE, body |-> <<>>, rest |-> <<>>]
Got(more, body, rest) == [more |-> more, ok |-> TRUE, body |-> body, rest |-> rest]

\* Mutant of ChunkRound: leaves the line after the last chunk unread.
ChunkRoundShort(p, x, n) ==
    LET line  == LineOf(x.rest)
        rest  == From(x.rest, Len(line) + 1)
        size  == HexNumber(HexPrefix(line))
        after == From(rest, size + 1)
    IN  IF ~x.more THEN x
        ELSE IF HexPrefix(line) = <<>> \/ Len(rest) < size THEN Failed
        ELSE IF size = 0 THEN Got(FALSE, x.body, rest)
        ELSE IF LineOf(after) # CRLF THEN Failed
        ELSE Got(TRUE, x.body \o SubSeq(rest, 1, size), From(after, 3))

\* One round of the loop of read_content_chunked: x.rest is what the connection holds,
\* x.body what was read before.
ChunkRound(p, x, n) ==
    LET line  == LineOf(x.rest)
        rest  == From(x.rest, Len(line) + 1)
        size  == HexNumber(HexPrefix(line))
        after == From(rest, size + 1)      \* what follows the chunk
        body  == x.body \o SubSeq(rest, 1, size)
    IN  IF ~x.more THEN x
        ELSE CASE HexPrefix(line) = <<>> \/ Len(rest) < size -> Failed
               [] size = 0 /\ LineOf(rest) = CRLF -> Got(FALSE, x.body, From(rest, 3))
               [] size = 0 /\ LineOf(rest) # CRLF -> Failed
               [] size > 0 /\ after = <<>> -> Failed
               [] size > 0 /\ after # <<>> /\ LineOf(after) # CRLF ->
                     Got(FALSE, body, From(after, Len(LineOf(after)) + 1))
               [] OTHER -> Got(TRUE, body, From(after, 3))
Receiving == INSTANCE Loops WITH Round <- ChunkRound

\* read_content_chunked: the body, and what the connection holds after it.  (No chunk
\* is shorter than a byte.)
ReadChunked(s) ==
    LET x == Receiving!Loop(<<>>, Got(TRUE, <<>>, s), Len(s))
    IN  [ok |-> x.ok, body |-> x.body, rest |-> x.rest]
=============================================================================
