----------------------------- MODULE WebServer -----------------------------
(***************************************************************************)
(* The web server of server/httplib.h below the request handlers: the      *)
(* thread in Server::listen accepts connections and gives them to a        *)
(* ThreadPool, whose workers read requests from them, run handlers and     *)
(* write answers, until a connection has had its number of requests, says  *)
(* nothing for too long, or is closed.                                     *)
(*                                                                         *)
(* What a client sends arrives in pieces: the request line, the headers,   *)
(* and as many pieces of body as the headers announce.  A piece is there   *)
(* when its last byte is; while a worker reads it byte by byte the model   *)
(* does not move, and a timeout or an end may come before the rest.        *)
(* Clients wait for an answer before they send the next request on the     *)
(* same connection.                                                        *)
(***************************************************************************)
EXTENDS Integers, FiniteSets, ThreadPool

CONSTANTS
    Requests,      \* records: the route, the length of the body, and whether
                   \* the client asks for "Connection: close"
    KeepAliveMax,  \* CPPHTTPLIB_KEEPALIVE_MAX_COUNT
    MaxRequests    \* bound: requests clients begin, in all

Routes == {"file",   \* a file under a mount point, or nothing
           "api",    \* a handler of server.cpp
           "stop"}   \* start or reset: joins the simulation, stops the server

ASSUME WebAssumption ==
    /\ \A r \in Requests : r.route = "file" => r.length = 0
    /\ Requests \subseteq [route : Routes, length : Nat, close : BOOLEAN]
    /\ KeepAliveMax \in Nat \ {0} /\ MaxRequests \in Nat

Conns == Tasks

VARIABLES
    svr_sock,   \* the listening socket: open, closed after an error, invalid
    listener,   \* where listen_internal is
    joined,     \* a handler has joined the simulation thread
    conn,       \* each connection: new, in the backlog, accepted or closed
    sent,       \* how many requests its client has begun
    todo,       \* the pieces of the last one that are still to be sent
    net,        \* the pieces on their way, or waiting to be read
    fin,        \* the client has closed its side, or the connection is gone
    answers,    \* the answers it got
    at          \* each worker's place and locals

listenVars == <<svr_sock, listener>>
clientVars == <<sent, todo, fin>>
vars == <<poolVars, listenVars, joined, conn, clientVars, net, answers, at>>

Piece  == [part : {"line", "headers", "body"}, n : Nat, req : Requests]
Answers == [n : Nat, bad : BOOLEAN, close : BOOLEAN]   \* bad: status 400
NoRequest == [route |-> "file", length |-> 0, close |-> FALSE]
Before(s, k) == [step |-> s, left |-> k, n |-> 0, req |-> NoRequest, need |-> 0, bad |-> FALSE]
Idle == Before("none", 0)

Asked == {"line", "headers", "body", "handle", "stop_call", "write"}   \* a request is there
Places == [step : Asked \cup {"none", "alive", "close"}, left : 0..KeepAliveMax, n : Nat,
           req : Requests \cup {NoRequest}, need : Nat, bad : BOOLEAN]

TypeOK ==
    /\ PoolTypeOK
    /\ svr_sock \in {"open", "closed", "invalid"}
    /\ listener \in {"accept", "drain"}
    /\ joined \in BOOLEAN
    /\ conn \in [Conns -> {"new", "backlog", "accepted", "closed"}]
    /\ sent \in [Conns -> Nat] /\ fin \in [Conns -> BOOLEAN]
    /\ todo \in [Conns -> Seq(Piece)] /\ net \in [Conns -> Seq(Piece)]
    /\ answers \in [Conns -> Seq(Answers)]
    /\ at \in [Workers -> Places]
    /\ \A w \in Workers : worker[w] = "run" <=> at[w].step # "none"

Init ==
    /\ PoolInit
    /\ svr_sock = "open" /\ listener = "accept"
    /\ joined = FALSE
    /\ conn = [c \in Conns |-> "new"]
    /\ sent = [c \in Conns |-> 0] /\ fin = [c \in Conns |-> FALSE]
    /\ todo = [c \in Conns |-> <<>>] /\ net = [c \in Conns |-> <<>>]
    /\ answers = [c \in Conns |-> <<>>]
    /\ at = [w \in Workers |-> Idle]

-----------------------------------------------------------------------------
(* Clients.                                                                *)

Pieces(k, r) ==
    [i \in 1..(2 + r.length) |->
        [part |-> CASE i = 1 -> "line" [] i = 2 -> "headers" [] OTHER -> "body",
         n |-> k, req |-> r]]

Begun == FoldFunction(+, 0, sent)

\* A client has its next request to send.
Asks(c) ==
    /\ Begun < MaxRequests
    /\ \E r \in Requests : todo' = [todo EXCEPT ![c] = Pieces(sent[c] + 1, r)]
    /\ sent' = [sent EXCEPT ![c] = @ + 1]
    /\ UNCHANGED <<poolVars, listenVars, joined, fin, net, answers, at>>

\* It connects for its first one.
Connect(c) ==
    /\ conn[c] = "new" /\ svr_sock = "open"
    /\ conn' = [conn EXCEPT ![c] = "backlog"]
    /\ Asks(c)

Usable(c) == conn[c] \in {"backlog", "accepted"} /\ ~fin[c]

\* It asks again once it has its answer, on a connection that goes on.
Ask(c) ==
    /\ Usable(c) /\ todo[c] = <<>>
    /\ sent[c] <= Len(answers[c])
    /\ \A i \in DOMAIN answers[c] : ~answers[c][i].close
    /\ Asks(c) /\ UNCHANGED conn

\* The next piece arrives.
Send(c) ==
    /\ Usable(c) /\ todo[c] # <<>>
    /\ net' = [net EXCEPT ![c] = Append(@, Head(todo[c]))]
    /\ todo' = [todo EXCEPT ![c] = Tail(@)]
    /\ UNCHANGED <<poolVars, listenVars, joined, conn, sent, fin, answers, at>>

Hangup(c) ==
    /\ Usable(c)
    /\ fin' = [fin EXCEPT ![c] = TRUE]
    /\ UNCHANGED <<poolVars, listenVars, joined, conn, sent, todo, net, answers, at>>

-----------------------------------------------------------------------------
(* listen_internal.                                                        *)

\* Connections the kernel still holds when the listening socket is closed.
Refused == [c \in Conns |-> IF conn[c] = "backlog" THEN "closed" ELSE conn[c]]

\* A connection is accepted and given to the pool.
Accept ==
    /\ listener = "accept" /\ svr_sock = "open"
    /\ \E c \in Conns : /\ conn[c] = "backlog"
                        /\ conn' = [conn EXCEPT ![c] = "accepted"]
                        /\ Enqueue(c)
    /\ UNCHANGED <<listenVars, joined, clientVars, net, answers, at>>

\* accept fails.  If stop() has invalidated the socket, or for most errors, the
\* server listens no more; svr_sock_ keeps its value in the second case.  (If the
\* process has too many files open, it is tried again.)
AcceptFails ==
    /\ listener = "accept"
    /\ listener' = "drain"
    /\ IF svr_sock = "invalid" THEN UNCHANGED <<svr_sock, conn>>
       ELSE svr_sock' = "closed" /\ conn' = Refused
    /\ UNCHANGED <<poolVars, joined, clientVars, net, answers, at>>

Drain ==
    /\ listener = "drain"
    /\ SetShutdown \/ NotifyAll \/ JoinWorkers
    /\ UNCHANGED <<listenVars, joined, conn, clientVars, net, answers, at>>

-----------------------------------------------------------------------------
(* A worker with its connection.                                           *)

Pool(w) ==
    /\ Waits(w) \/ Leaves(w) \/ Wakes(w)
    /\ UNCHANGED <<listenVars, joined, conn, clientVars, net, answers, at>>

Begin(w) ==
    /\ Takes(w)
    /\ at' = [at EXCEPT ![w] = Before("alive", KeepAliveMax)]
    /\ UNCHANGED <<listenVars, joined, conn, clientVars, net, answers>>

Is(w, s) == at[w].step = s

\* The worker reads on, or answers: nothing but its own place and, as the caller
\* says, what is left to read changes.
Goes(w, place) ==
    /\ at' = [at EXCEPT ![w] = place]
    /\ UNCHANGED <<poolVars, listenVars, joined, conn, clientVars, answers>>

Goto(w, s) == Goes(w, [at[w] EXCEPT !.step = s])
Fails(w)   == Goes(w, [at[w] EXCEPT !.step = "write", !.bad = TRUE])   \* 400

\* One more piece is read.
Reads(c) == net[c] # <<>> /\ net' = [net EXCEPT ![c] = Tail(@)]

\* Nothing to read: a timeout, or the end of the connection.
NoMore(c) == net[c] = <<>> /\ UNCHANGED net

\* Mutant of Alive: no limit to the silence.
AliveForEver(w) ==
    /\ Is(w, "alive")
    /\ \/ at[w].left > 0 /\ (net[fn[w]] # <<>> \/ fin[fn[w]]) /\ Goto(w, "line")
       \/ at[w].left = 0 /\ Goto(w, "close")
    /\ UNCHANGED net

\* Mutant of Alive: no limit to the number of requests.
AliveUncounted(w) ==
    /\ Is(w, "alive")
    /\ \/ (net[fn[w]] # <<>> \/ fin[fn[w]]) /\ Goto(w, "line")
       \/ net[fn[w]] = <<>> /\ ~fin[fn[w]] /\ Goto(w, "close")
    /\ UNCHANGED net

\* keep_alive(): waits for the next request or the end, but not for ever, and
\* not once the connection has had its number of requests.
Alive(w) ==
    /\ Is(w, "alive")
    /\ \/ at[w].left > 0 /\ (net[fn[w]] # <<>> \/ fin[fn[w]]) /\ Goto(w, "line")
       \/ at[w].left > 0 /\ net[fn[w]] = <<>> /\ ~fin[fn[w]] /\ Goto(w, "close")
       \/ at[w].left = 0 /\ Goto(w, "close")
    /\ UNCHANGED net

\* How much getline takes: all up to the end of a line, which a piece of body has
\* not; at the end of the connection, what is there.
LineEnds(c) ==
    LET whole == {i \in DOMAIN net[c] : net[c][i].part # "body"}
    IN  IF whole # {} THEN {i \in whole : \A j \in whole : i <= j}
        ELSE {i \in {Len(net[c])} : fin[c] /\ i > 0}

\* What is gone then: a block of headers has more than one line, and the others stay.
Gone(c, i) == {i} \cup {k \in {i - 1} : net[c][i].part = "headers"}

\* The client has closed its side in the middle of a request.
Broken(c) == fin[c] /\ net[c] = <<>> /\ todo[c] # <<>>

\* parse_request_line
IsRequestLine(p) == p.part = "line"

\* The request line, or what stands in its place.  The beginning of a line counts as
\* one at the end of the connection, not after a timeout.
Line(w) ==
    LET c == fn[w] IN
    /\ Is(w, "line")
    /\ \/ \E i \in LineEnds(c) : \E k \in Gone(c, i) :
             /\ net' = [net EXCEPT ![c] = SubSeq(@, k + 1, Len(@))]
             /\ IF i = 1 /\ IsRequestLine(net[c][1])
                THEN Goes(w, [at[w] EXCEPT !.step = "headers", !.n = net[c][1].n])
                ELSE Fails(w)
       \/ LineEnds(c) = {} /\ Goto(w, "close") /\ UNCHANGED net
       \/ /\ Broken(c) /\ UNCHANGED net
          /\ Goes(w, [at[w] EXCEPT !.step = "write", !.bad = TRUE, !.n = Head(todo[c]).n])

\* handle_file_request: answered with a file, or with a 404.
IsFileRequest(r) == r.route = "file"

\* A request that has been read goes to its handler, if it has one.
Route(w, r) ==
    Goes(w, [at[w] EXCEPT !.req = r,
                          !.step = IF IsFileRequest(r) THEN "write" ELSE "handle"])

\* read_content: the body, if there is one, is read before the request is handled.
\* (Its length is announced; the page sends none in chunks or up to the end.)
ReadContent(w, r) ==
    IF r.length = 0 THEN Route(w, r)
    ELSE Goes(w, [at[w] EXCEPT !.step = "body", !.req = r, !.need = r.length])

\* The headers.
Headers(w) ==
    LET c == fn[w]
        r == net[c][1].req
    IN
    /\ Is(w, "headers")
    /\ \/ Reads(c) /\ ReadContent(w, r)
       \/ NoMore(c) /\ Fails(w)

\* Mutant of Body: an end or a timeout ends the body.
BodyCutShort(w) ==
    LET c == fn[w] IN
    /\ Is(w, "body")
    /\ \/ /\ Reads(c)
          /\ IF at[w].need = 1 THEN Route(w, at[w].req)
             ELSE Goes(w, [at[w] EXCEPT !.need = @ - 1])
       \/ NoMore(c) /\ Route(w, at[w].req)

\* read_content_with_length: reads go on until the length is reached; an end or
\* a timeout before that is an error, and what comes later stays unread.
Body(w) ==
    LET c == fn[w] IN
    /\ Is(w, "body")
    /\ \/ /\ Reads(c)
          /\ IF at[w].need = 1 THEN Route(w, at[w].req)
             ELSE Goes(w, [at[w] EXCEPT !.need = @ - 1])
       \/ NoMore(c) /\ Fails(w)

\* Mutant of Handle: joins without looking whether someone has.
HandleAgain(w) ==
    /\ Is(w, "handle")
    /\ IF at[w].req.route = "stop"
       THEN joined' = TRUE /\ at' = [at EXCEPT ![w].step = "stop_call"]
       ELSE at' = [at EXCEPT ![w].step = "write"] /\ UNCHANGED joined
    /\ UNCHANGED <<poolVars, listenVars, conn, clientVars, net, answers>>

\* The handler runs; an exception becomes a 500.  start and reset join the
\* simulation thread, which only one of them can, and go on to stop the server.
Handle(w) ==
    /\ Is(w, "handle")
    /\ IF at[w].req.route = "stop" /\ ~joined
       THEN joined' = TRUE /\ at' = [at EXCEPT ![w].step = "stop_call"]
       ELSE at' = [at EXCEPT ![w].step = "write"] /\ UNCHANGED joined
    /\ UNCHANGED <<poolVars, listenVars, conn, clientVars, net, answers>>

\* Server::stop()
Stop(w) ==
    /\ Is(w, "stop_call")
    /\ svr_sock' = "invalid" /\ conn' = Refused
    /\ at' = [at EXCEPT ![w].step = "write"]
    /\ UNCHANGED <<poolVars, listener, joined, clientVars, net, answers>>

\* Mutant of LastOne: one request too late.
LastOneLate(w) == at[w].left = 0

\* close_connection: this is the last request the connection may have.
LastOne(w) == at[w].left = 1

\* write_response, and back to keep_alive.  Whether the client got it is not looked
\* at; a request's own "Connection: close" reaches the loop as a copy only, so it is
\* answered and the loop goes on all the same.
Write(w) ==
    /\ Is(w, "write")
    /\ answers' = [answers EXCEPT ![fn[w]] =
           Append(@, [n |-> at[w].n, bad |-> at[w].bad,
                      close |-> LastOne(w) \/ at[w].req.close])]
    /\ at' = [at EXCEPT ![w] = Before("alive", at[w].left - 1)]
    /\ UNCHANGED <<poolVars, listenVars, joined, conn, clientVars, net>>

\* The socket is closed: what was not read is lost.
Close(w) ==
    /\ Is(w, "close")
    /\ Returns(w)
    /\ conn' = [conn EXCEPT ![fn[w]] = "closed"]
    /\ net' = [net EXCEPT ![fn[w]] = <<>>]
    /\ todo' = [todo EXCEPT ![fn[w]] = <<>>]
    /\ fin' = [fin EXCEPT ![fn[w]] = TRUE]
    /\ at' = [at EXCEPT ![w] = Idle]
    /\ UNCHANGED <<listenVars, joined, sent, answers>>

Serve(w) == \/ Begin(w) \/ Alive(w) \/ Line(w) \/ Headers(w) \/ Body(w)
            \/ Handle(w) \/ Stop(w) \/ Write(w) \/ Close(w)

Listen == Accept \/ AcceptFails \/ Drain

\* listen() has returned.
Over == owner = "joined" /\ UNCHANGED vars

Next ==
    \/ Listen \/ Over
    \/ \E w \in Workers : Pool(w) \/ Serve(w)
    \/ \E c \in Conns : Connect(c) \/ Ask(c) \/ Send(c) \/ Hangup(c)

Spec == Init /\ [][Next]_vars

\* The operating system runs every thread, and every select, write and handler comes
\* back.  This asks something of the clients too.  A read times out when not even a
\* byte comes, but getline, read_headers and the reading of the body begin the next
\* one whatever has come before, without a limit to their number or time: a client
\* that sends a byte now and then keeps its worker in Line, Headers or Body for ever.
\* Here each client sends the rest in the end, or hangs up, or falls silent, and then
\* the read times out.
Fairness ==
    /\ WF_vars(Listen)
    /\ \A w \in Workers : WF_vars(Serve(w) \/ (Leaves(w) /\ Pool(w)))

FairSpec == Spec /\ Fairness

-----------------------------------------------------------------------------
(* Properties.                                                             *)

\* What the workers rely on: a connection is enqueued once, a request that is read is
\* one of those the connection may have, and its body is not over.
WorkInv ==
    /\ \A c \in Conns : conn[c] \in {"new", "backlog"} => c \notin Range(taken \o jobs_)
    /\ \A w \in Workers : /\ at[w].step \in Asked => at[w].left > 0
                          /\ Is(w, "body") => at[w].need > 0

\* What the client of a connection has begun to send and no worker has read.
Stream(c) == net[c] \o todo[c]

\* All but the first k of these pieces are of requests after the n-th.
Later(s, k, n) == \A i \in DOMAIN s : i > k => s[i].n > n

\* A handler sees a request only when nothing of it is still on its way, whatever
\* timeouts and hang-ups came before (routing, read_content).
WholeRequests == \A w \in Workers : Is(w, "handle") => Later(Stream(fn[w]), 0, at[w].n)

\* Why: the rest of a request follows its line, as many pieces as its headers say,
\* and no piece is of a request after the k-th;
InOrder(s, k) ==
    \A i \in DOMAIN s :
        /\ s[i].n <= k
        /\ s[i].part = "line" => /\ i < Len(s) /\ s[i + 1].req = s[i].req
                                /\ Later(s, i + 1 + s[i].req.length, s[i].n)

StreamInv ==
    \A c \in Conns : /\ conn[c] = "new" => Stream(c) = <<>>
                     /\ InOrder(Stream(c), sent[c])

\* and a worker knows how many of them it has still to read.
Unread(w) == CASE Is(w, "headers") -> 1 + Stream(fn[w])[1].req.length
               [] Is(w, "body")    -> at[w].need
               [] OTHER            -> 0

InRequest == Asked \ {"line"}   \* the request line has been read

ReadInv ==
    \A w \in Workers :
        /\ at[w].bad => Is(w, "write")
        /\ at[w].step \in InRequest /\ ~at[w].bad =>
              /\ at[w].n <= sent[fn[w]]
              /\ Stream(fn[w]) # <<>> => Later(Stream(fn[w]), Unread(w), at[w].n)

\* Until an answer says 400, a client's i-th answer is the answer to its i-th
\* request; after one, what was left unread may be answered too (process_request).
AnswersMatch ==
    \A c \in Conns : \A i \in DOMAIN answers[c] :
        (\A j \in 1..(i - 1) : ~answers[c][j].bad) => answers[c][i].n = i

\* Why: until then, client and server agree on which request it is.  Before the worker
\* reads its line, the client has sent nothing of it, or waits with all of it unread;
Clean(c) == \A i \in DOMAIN answers[c] : ~answers[c][i].bad
Agrees(c) ==
    IF Stream(c) = <<>> THEN sent[c] = Len(answers[c])
    ELSE /\ sent[c] = Len(answers[c]) + 1
         /\ Stream(c)[1].part = "line" /\ Stream(c)[1].n = sent[c]

\* from its line to its answer, it is the last the client has begun.
MatchInv ==
    /\ \A c \in Conns : c \in Range(jobs_) \/ conn[c] \in {"new", "backlog"} =>
          (Clean(c) => Agrees(c))
    /\ \A w \in Workers : worker[w] = "run" /\ Clean(fn[w]) =>
          /\ at[w].step \in {"alive", "line"} => Agrees(fn[w])
          /\ at[w].step \in InRequest => /\ sent[fn[w]] = Len(answers[fn[w]]) + 1
                                        /\ at[w].n = sent[fn[w]]

\* A connection gets no more answers than its number, and a client that gets the
\* last one is told so: it never asks where nobody will read
\* (process_server_socket_core, write_response).
LastAnswerSaysClose ==
    \A c \in Conns :
        /\ Len(answers[c]) <= KeepAliveMax
        /\ Len(answers[c]) = KeepAliveMax => answers[c][KeepAliveMax].close

\* Why: a connection in the queue has had no answer, and the number of answers and
\* of those still to come is always the same.
CountInv ==
    /\ \A c \in Conns : c \in Range(jobs_) \/ conn[c] \in {"new", "backlog"} => answers[c] = <<>>
    /\ \A w \in Workers : worker[w] = "run" =>
          at[w].left + Len(answers[fn[w]]) = KeepAliveMax

\* stop() is called while the server still has its socket: the assertion in it
\* holds, even with two requests that stop the server (Server::stop).
StopAsserts == \A w \in Workers : Is(w, "stop_call") => svr_sock # "invalid"

\* Why: one handler joins the simulation thread, and only that one calls stop().
StopInv ==
    /\ svr_sock = "invalid" => joined
    /\ \A w \in Workers : Is(w, "stop_call") => joined /\ svr_sock # "invalid"
    /\ \A v, w \in Workers : Is(v, "stop_call") /\ Is(w, "stop_call") => v = w

\* Every connection the server takes is closed in the end, whether its client goes on,
\* hangs up or falls silent, between requests or in the middle of one, provided that it
\* does not send a request byte by byte for ever and that the handlers return (Fairness;
\* process_and_close_socket, keep_alive, getline).  The specification treats all
\* connections alike, so that one of them stands for each.
ConnectionEnds(c) == conn[c] = "accepted" ~> conn[c] = "closed"
ConnectionsEnd == ConnectionEnds(CHOOSE c \in Conns : TRUE)

\* Once stop() was called, listen() returns, if clients and handlers let the workers
\* come back as above (listen_internal, ThreadPool::shutdown).
ListenReturns == svr_sock = "invalid" ~> owner = "joined"

\* What the request handlers are told of the server that calls them.
Service == INSTANCE HttpService WITH
    Threads <- Workers,
    busy <- {w \in Workers : at[w].step \in {"handle", "stop_call"}},
    accepting <- svr_sock = "open",
    up <- owner # "joined"

\* The web server is such a service (listen_internal, dispatch_request).
ImplementsHttpService == Service!ServiceSpec
=============================================================================
