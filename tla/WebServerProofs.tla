--------------------------- MODULE WebServerProofs ---------------------------
(***************************************************************************)
(* Proofs about ThreadPool and WebServer, for any numbers of workers,      *)
(* tasks, connections and requests.  The steps of WebServer are steps of   *)
(* the pool or leave the pool alone, so what holds of the pool holds of    *)
(* it; then its own invariants; and then what a worker reads of a          *)
(* connection and which request it answers, whatever the lengths of the    *)
(* bodies and whatever silence or end comes in between.                    *)
(***************************************************************************)
EXTENDS WebServer, SequenceTheorems, TLAPS

-----------------------------------------------------------------------------
(* The pool.                                                               *)

\* What the threads of the pool do keeps types.
LEMMA PoolTypes ==
    ASSUME PoolTypeOK, [PoolNext]_poolVars
    PROVE  PoolTypeOK'
<1> USE DEF PoolTypeOK
<1>1. CASE \E t \in Tasks \ Range(taken \o jobs_) : Enqueue(t)
  <2> PICK t \in Tasks : Enqueue(t)
    BY <1>1
  <2> QED
    BY DEF Enqueue, Waiting
<1>2. CASE SetShutdown
  BY <1>2 DEF SetShutdown
<1>3. CASE NotifyAll
  BY <1>3 DEF NotifyAll
<1>4. CASE JoinWorkers
  BY <1>4 DEF JoinWorkers
<1>5. ASSUME NEW w \in Workers, Waits(w) \/ Leaves(w) \/ Wakes(w) \/ Returns(w)
      PROVE  PoolTypeOK'
  BY <1>5 DEF Waits, Leaves, Wakes, Returns
<1>6. ASSUME NEW w \in Workers, Takes(w)
      PROVE  PoolTypeOK'
  <2> jobs_ # <<>>
    BY <1>6 DEF Takes
  <2>1. Head(jobs_) \in Tasks /\ Tail(jobs_) \in Seq(Tasks)
    BY HeadTailProperties
  <2> QED
    BY <1>6, <2>1 DEF Takes
<1>7. CASE UNCHANGED poolVars
  BY <1>7 DEF poolVars
<1> QED
  BY <1>1, <1>2, <1>3, <1>4, <1>5, <1>6, <1>7 DEF PoolNext

\* A new pool.
LEMMA PoolInitially == PoolInit => PoolTypeOK /\ TasksRunOnce /\ PoolInv
<1>1. PoolInit => PoolTypeOK
  BY EmptySeq DEF PoolInit, PoolTypeOK
<1>2. PoolInit => TasksRunOnce
  BY PoolAssumption DEF PoolInit, TasksRunOnce, IsInjective
<1>3. PoolInit => PoolInv
  BY DEF PoolInit, PoolInv, Waiting
<1> QED
  BY <1>1, <1>2, <1>3

\* The pool's variables keep their types (ThreadPool).
THEOREM PoolTypeCorrect == PoolSpec => []PoolTypeOK
BY PoolInitially, PoolTypes, PTL DEF PoolSpec

-----------------------------------------------------------------------------
(* The tasks: those taken and those waiting, in order.                     *)

\* A new task is at the end of them.
LEMMA EnqueueAppends ==
    ASSUME PoolTypeOK, NEW t \in Tasks, Enqueue(t)
    PROVE  taken' \o jobs_' = Append(taken \o jobs_, t)
<1> taken \in Seq(Tasks) /\ jobs_ \in Seq(Tasks)
  BY DEF PoolTypeOK
<1> taken' = taken /\ jobs_' = Append(jobs_, t)
  BY DEF Enqueue
<1> QED
  OBVIOUS

\* Taking one changes nothing about them.
LEMMA TakeKeepsOrder ==
    ASSUME PoolTypeOK, NEW w \in Workers, Takes(w)
    PROVE  taken' \o jobs_' = taken \o jobs_
<1> taken \in Seq(Tasks) /\ jobs_ \in Seq(Tasks)
  BY DEF PoolTypeOK
<1> taken' = Append(taken, Head(jobs_)) /\ jobs_' = Tail(jobs_) /\ jobs_ # <<>>
  BY DEF Takes
<1> QED
  OBVIOUS

\* A sequence without repetition keeps that if something new is appended.
LEMMA AppendNew ==
    ASSUME NEW S, NEW s \in Seq(S), IsInjective(s), NEW x \in S, x \notin Range(s)
    PROVE  IsInjective(Append(s, x))
BY DEF IsInjective, Range

\* What is appended is all that a sequence has more.
LEMMA RangeOfAppend ==
    ASSUME NEW S, NEW s \in Seq(S), NEW x \in S
    PROVE  Range(Append(s, x)) = Range(s) \cup {x}
<1>1. /\ DOMAIN Append(s, x) = 1..(Len(s) + 1) /\ DOMAIN s = 1..Len(s) /\ Len(s) \in Nat
      /\ \A i \in 1..Len(s) : Append(s, x)[i] = s[i]
      /\ Append(s, x)[Len(s) + 1] = x
  OBVIOUS
<1>2. \A i \in 1..(Len(s) + 1) : i \in 1..Len(s) \/ i = Len(s) + 1
  BY <1>1
<1>3. Len(s) + 1 \in 1..(Len(s) + 1) /\ \A i \in 1..Len(s) : i \in 1..(Len(s) + 1)
  BY <1>1
<1> HIDE <1>1
<1> QED
  BY <1>1, <1>2, <1>3, Zenon DEF Range

\* What is waiting has not been taken.
LEMMA HeadIsNew ==
    ASSUME PoolTypeOK, IsInjective(taken \o jobs_), jobs_ # <<>>
    PROVE  Head(jobs_) \notin Range(taken)
<1> DEFINE all == taken \o jobs_
<1> taken \in Seq(Tasks) /\ jobs_ \in Seq(Tasks)
  BY DEF PoolTypeOK
<1>1. /\ Len(taken) \in Nat /\ Len(jobs_) \in Nat \ {0}
      /\ DOMAIN taken = 1..Len(taken)
      /\ DOMAIN all = 1..(Len(taken) + Len(jobs_))
  BY LenProperties, EmptySeq, ConcatProperties
<1>2. all[Len(taken) + 1] = Head(jobs_)
  BY <1>1
<1>3. \A i \in 1..Len(taken) : all[i] = taken[i]
  BY <1>1
<1> SUFFICES ASSUME NEW i \in 1..Len(taken), taken[i] = Head(jobs_)
             PROVE  FALSE
  BY <1>1 DEF Range
<1> QED
  BY <1>1, <1>2, <1>3 DEF IsInjective

\* No step of the pool makes a task run twice.
LEMMA TasksKept ==
    ASSUME PoolTypeOK, TasksRunOnce, [PoolNext]_poolVars
    PROVE  TasksRunOnce'
<1> USE PoolAssumption DEF PoolTypeOK
<1>1. CASE \E t \in Tasks \ Range(taken \o jobs_) : Enqueue(t)
  <2> PICK t \in Tasks \ Range(taken \o jobs_) : Enqueue(t)
    BY <1>1
  <2> taken \o jobs_ \in Seq(Tasks)
    BY ConcatProperties
  <2> IsInjective(taken \o jobs_)
    BY DEF TasksRunOnce
  <2> HIDE DEF PoolTypeOK
  <2>1. IsInjective(taken' \o jobs_')
    <3>1. IsInjective(Append(taken \o jobs_, t))
      BY AppendNew
    <3> QED
      BY <3>1, EnqueueAppends
  <2> USE DEF PoolTypeOK
  <2>2. UNCHANGED <<taken, fn>>
    BY DEF Enqueue
  <2>3. \A w \in Workers : worker'[w] = "run" <=> worker[w] = "run"
    BY DEF Enqueue, Waiting
  <2> QED
    BY <2>1, <2>2, <2>3 DEF TasksRunOnce
<1>2. CASE SetShutdown \/ NotifyAll \/ JoinWorkers
  BY <1>2 DEF SetShutdown, NotifyAll, JoinWorkers, TasksRunOnce
<1>3. ASSUME NEW w \in Workers, Waits(w) \/ Leaves(w) \/ Wakes(w) \/ Returns(w)
      PROVE  TasksRunOnce'
  BY <1>3 DEF Waits, Leaves, Wakes, Returns, TasksRunOnce
<1>4. ASSUME NEW w \in Workers, Takes(w)
      PROVE  TasksRunOnce'
  <2> DEFINE t == Head(jobs_)
  <2>1. jobs_ # <<>> /\ worker' = [worker EXCEPT ![w] = "run"] /\ fn' = [fn EXCEPT ![w] = t]
        /\ taken' = Append(taken, t)
    BY <1>4 DEF Takes
  <2>2. t \in Tasks /\ t \notin Range(taken)
    BY <2>1, HeadIsNew, HeadTailProperties DEF TasksRunOnce
  <2>3. IsInjective(taken' \o jobs_')
    BY <1>4, TakeKeepsOrder DEF TasksRunOnce
  <2>4. Range(taken') = Range(taken) \cup {t}
    BY <2>1, <2>2, RangeOfAppend
  <2>5. \A v \in Workers : fn[v] # t
    BY <2>2 DEF TasksRunOnce
  <2> HIDE DEF t
  <2> QED
    BY <2>1, <2>2, <2>3, <2>4, <2>5 DEF TasksRunOnce
<1>5. CASE UNCHANGED poolVars
  BY <1>5 DEF poolVars, TasksRunOnce
<1> QED
  BY <1>1, <1>2, <1>3, <1>4, <1>5 DEF PoolNext

\* Every task is run by one worker, once (the workers' loop).
THEOREM EachTaskRunsOnce == PoolSpec => []TasksRunOnce
BY PoolInitially, TasksKept, PoolTypeCorrect, PTL DEF PoolSpec

-----------------------------------------------------------------------------
(* shutdown().                                                             *)

\* Workers leave in time, and none of them too early.
LEMMA PoolInvKept ==
    ASSUME PoolTypeOK, PoolInv, [PoolNext]_poolVars
    PROVE  PoolInv'
<1> USE DEF PoolTypeOK, PoolInv, Waiting
<1>1. CASE \E t \in Tasks \ Range(taken \o jobs_) : Enqueue(t)
  BY <1>1 DEF Enqueue
<1>2. CASE SetShutdown
  BY <1>2 DEF SetShutdown
<1>3. CASE NotifyAll
  BY <1>3 DEF NotifyAll
<1>4. CASE JoinWorkers
  BY <1>4 DEF JoinWorkers
<1>5. ASSUME NEW w \in Workers, Waits(w) \/ Leaves(w) \/ Wakes(w) \/ Returns(w)
      PROVE  PoolInv'
  BY <1>5 DEF Waits, Leaves, Wakes, Returns
<1>6. ASSUME NEW w \in Workers, Takes(w)
      PROVE  PoolInv'
  BY <1>6 DEF Takes
<1>7. CASE UNCHANGED poolVars
  BY <1>7 DEF poolVars
<1> QED
  BY <1>1, <1>2, <1>3, <1>4, <1>5, <1>6, <1>7 DEF PoolNext

\* A worker is over only once no task can follow, and the owner joins none that
\* sleeps (worker::operator(), ThreadPool::shutdown).
THEOREM WorkersLeaveLast == PoolSpec => []PoolInv
BY PoolInitially, PoolInvKept, PoolTypeCorrect, PTL DEF PoolSpec

\* When shutdown() returns, every task has been run (ThreadPool::shutdown).
THEOREM ShutdownLosesNothing == PoolSpec => []ShutdownDrains
<1>1. PoolTypeOK /\ TasksRunOnce /\ PoolInv => ShutdownDrains
  <2> SUFFICES ASSUME PoolTypeOK, TasksRunOnce, PoolInv, owner = "joined"
               PROVE  jobs_ = <<>> /\ \A w \in Workers : fn[w] = NoTask
    BY DEF ShutdownDrains
  <2> QED
    BY PoolAssumption DEF PoolInv, TasksRunOnce
<1> QED
  BY <1>1, PoolTypeCorrect, EachTaskRunsOnce, WorkersLeaveLast, PTL

-----------------------------------------------------------------------------
(* The web server.                                                         *)

\* The pieces of a request are pieces.
LEMMA PiecesType ==
    ASSUME NEW k \in Nat, NEW r \in Requests
    PROVE  Pieces(k, r) \in Seq(Piece)
<1> DEFINE n == 2 + r.length
<1> r.length \in Nat
  BY WebAssumption
<1>1. \A i \in 1..n : [part |-> CASE i = 1 -> "line" [] i = 2 -> "headers" [] OTHER -> "body",
                       n |-> k, req |-> r] \in Piece
  BY DEF Piece
<1> n \in Nat
  OBVIOUS
<1>2. Pieces(k, r) \in [1..n -> Piece]
  BY <1>1 DEF Pieces
<1> QED
  BY <1>2

\* A place with another step is a place.
LEMMA PlaceStep ==
    ASSUME NEW place \in Places, NEW s \in Asked \cup {"none", "alive", "close"}
    PROVE  [place EXCEPT !.step = s] \in Places
BY DEF Places

\* Reading takes the first piece, or none.
LEMMA ReadsTypes ==
    ASSUME TypeOK, NEW c \in Conns, Reads(c) \/ NoMore(c) \/ UNCHANGED net
    PROVE  net' \in [Conns -> Seq(Piece)]
<1>1. CASE Reads(c)
  <2> net[c] \in Seq(Piece) /\ net[c] # <<>>
    BY <1>1 DEF Reads, TypeOK
  <2> Tail(net[c]) \in Seq(Piece)
    BY HeadTailProperties
  <2> QED
    BY <1>1 DEF Reads, TypeOK
<1> QED
  BY <1>1 DEF NoMore, TypeOK

\* Where a worker goes on from, when it has read or waited for something.
Further(w, p) ==
    /\ p \in Places /\ Goes(w, p)
    /\ p.left = at[w].left
    /\ p.step \notin {"none", "stop_call"}
    /\ p.step \in Asked => p.left > 0
    /\ p.step = "body" => p.need > 0

LEMMA Reading ==
    ASSUME TypeOK, TasksRunOnce, WorkInv, NEW w \in Workers,
           Alive(w) \/ Line(w) \/ Headers(w) \/ Body(w)
    PROVE  /\ worker[w] = "run" /\ net' \in [Conns -> Seq(Piece)]
           /\ \E p : Further(w, p)
<1> DEFINE c == fn[w]
<1>1. /\ at[w] \in Places /\ at[w].step # "none" /\ worker[w] = "run"
      /\ at[w].step = "alive" \/ at[w].left > 0
  BY DEF TypeOK, WorkInv, Alive, Line, Headers, Body, Is, Asked
<1> SUFFICES net' \in [Conns -> Seq(Piece)] /\ \E p : Further(w, p)
  BY <1>1
<1>2. c \in Conns
  BY <1>1 DEF TasksRunOnce, TypeOK, PoolTypeOK, Conns
<1> HIDE DEF c
<1>3. net[c] \in Seq(Piece)
  BY <1>2 DEF TypeOK
<1>4. ASSUME Reads(c)
      PROVE  net[c][1] \in Piece
  BY <1>3, <1>4, EmptySeq, ElementOfSeq DEF Reads
<1>5. ASSUME NEW p \in Places, Goes(w, p), p.left = at[w].left,
             p.step \notin {"none", "stop_call"}, p.step \in Asked => p.left > 0,
             p.step = "body" => p.need > 0,
             Reads(c) \/ NoMore(c) \/ UNCHANGED net
      PROVE  net' \in [Conns -> Seq(Piece)] /\ \E q : Further(w, q)
  BY <1>2, <1>5, ReadsTypes DEF Further
<1>6. ASSUME at[w].left > 0
      PROVE  LET p == [at[w] EXCEPT !.step = "write", !.bad = TRUE]
             IN  p \in Places /\ p.left = at[w].left /\ p.step = "write"
  BY <1>1, <1>6 DEF Places, Asked
<1>7. ASSUME Fails(w), at[w].left > 0, Reads(c) \/ NoMore(c)
      PROVE  net' \in [Conns -> Seq(Piece)] /\ \E q : Further(w, q)
  BY <1>5, <1>6, <1>7 DEF Fails
<1>8. ASSUME NEW r \in Requests \cup {NoRequest}, Route(w, r), at[w].left > 0, Reads(c)
      PROVE  net' \in [Conns -> Seq(Piece)] /\ \E q : Further(w, q)
  <2> DEFINE p == [at[w] EXCEPT !.req = r,
                                !.step = IF IsFileRequest(r) THEN "write" ELSE "handle"]
  <2>1. p \in Places /\ p.left = at[w].left /\ p.step \in {"write", "handle"}
    BY <1>1 DEF Places, Asked
  <2>2. Goes(w, p)
    BY <1>8 DEF Route
  <2> HIDE DEF p
  <2> QED
    BY <1>5, <1>8, <2>1, <2>2
<1>9. CASE Alive(w)
  <2>1. ASSUME NEW s \in {"line", "close"}, s = "line" => at[w].left > 0, Goto(w, s), UNCHANGED net
        PROVE  net' \in [Conns -> Seq(Piece)] /\ \E q : Further(w, q)
    <3> DEFINE p == [at[w] EXCEPT !.step = s]
    <3>1. p \in Places /\ p.left = at[w].left /\ p.step = s
      BY <1>1 DEF Places, Asked
    <3>2. Goes(w, p)
      BY <2>1 DEF Goto
    <3> HIDE DEF p
    <3> QED
      BY <1>5, <2>1, <3>1, <3>2 DEF Asked
  <2> QED
    BY <1>1, <1>9, <2>1 DEF Alive
<1>10. CASE Line(w)
  <2>1. at[w].left > 0
    BY <1>1, <1>10 DEF Line, Is
  <2>2. CASE LineEnds(c) = {} /\ Goto(w, "close") /\ UNCHANGED net
    <3>1. LET p == [at[w] EXCEPT !.step = "close"]
          IN  p \in Places /\ p.left = at[w].left /\ p.step = "close"
      BY <1>1 DEF Places, Asked
    <3> QED
      BY <1>5, <2>2, <3>1 DEF Goto, Asked
  <2>3. CASE /\ Broken(c) /\ UNCHANGED net
             /\ Goes(w, [at[w] EXCEPT !.step = "write", !.bad = TRUE, !.n = Head(todo[c]).n])
    <3> DEFINE p == [at[w] EXCEPT !.step = "write", !.bad = TRUE, !.n = Head(todo[c]).n]
    <3>1. todo[c] \in Seq(Piece) /\ todo[c] # <<>>
      BY <1>2, <2>3 DEF TypeOK, Broken
    <3>2. Head(todo[c]).n \in Nat
      <4>1. Head(todo[c]) \in Piece
        BY <3>1, HeadTailProperties
      <4> QED
        BY <4>1 DEF Piece
    <3>3. p \in Places /\ p.left = at[w].left /\ p.step = "write"
      BY <1>1, <3>2 DEF Places, Asked
    <3>4. Goes(w, p)
      BY <2>3
    <3> HIDE DEF p
    <3> QED
      BY <1>5, <2>1, <2>3, <3>3, <3>4
  <2>4. ASSUME NEW i \in LineEnds(c), NEW k \in Gone(c, i),
               net' = [net EXCEPT ![c] = SubSeq(@, k + 1, Len(@))],
               IF i = 1 /\ IsRequestLine(net[c][1])
               THEN Goes(w, [at[w] EXCEPT !.step = "headers", !.n = net[c][1].n])
               ELSE Fails(w)
        PROVE  net' \in [Conns -> Seq(Piece)] /\ \E q : Further(w, q)
    <3>1. i \in 1..Len(net[c]) /\ net[c][1] \in Piece
      BY <1>3, <2>4 DEF LineEnds
    <3>2. net' \in [Conns -> Seq(Piece)]
      <4> k \in 0..Len(net[c])
        BY <1>3, <2>4, <3>1 DEF Gone
      <4>1. \A j \in (k + 1)..Len(net[c]) : net[c][j] \in Piece
        BY <1>3
      <4>2. k + 1 \in Int /\ Len(net[c]) \in Int
        BY <1>3
      <4>3. SubSeq(net[c], k + 1, Len(net[c])) \in Seq(Piece)
        BY <4>1, <4>2, SubSeqProperties
      <4> QED
        BY <2>4, <4>3 DEF TypeOK
    <3>3. LET p == [at[w] EXCEPT !.step = "headers", !.n = net[c][1].n]
          IN  p \in Places /\ p.left = at[w].left /\ p.step = "headers"
      BY <1>1, <3>1 DEF Places, Asked, Piece
    <3> QED
      BY <1>6, <2>1, <2>4, <3>2, <3>3 DEF Fails, Further
  <2> QED
    BY <1>1, <1>10, <2>2, <2>3, <2>4 DEF Line, c
<1>11. CASE Headers(w)
  <2> DEFINE r == net[c][1].req
             p == [at[w] EXCEPT !.step = "body", !.req = r, !.need = r.length]
  <2>1. at[w].left > 0
    BY <1>1, <1>11 DEF Headers, Is
  <2>2. CASE NoMore(c) /\ Fails(w)
    BY <1>7, <2>1, <2>2
  <2>3. CASE Reads(c) /\ r.length = 0 /\ Route(w, r)
    <3> r \in Requests
      BY <1>4, <2>3 DEF Piece
    <3> QED
      BY <1>8, <2>1, <2>3
  <2>4. CASE Reads(c) /\ r.length # 0 /\ Goes(w, p)
    <3>1. r \in Requests /\ r.length \in Nat
      BY <1>4, <2>4, WebAssumption DEF Piece
    <3>2. p \in Places /\ p.left = at[w].left /\ p.step = "body" /\ p.need = r.length
      BY <1>1, <3>1 DEF Places, Asked
    <3>3. r.length > 0
      BY <2>4, <3>1
    <3> HIDE DEF p, r
    <3> QED
      BY <1>5, <2>1, <2>4, <3>2, <3>3
  <2> QED
    BY <1>1, <1>11, <2>2, <2>3, <2>4 DEF Headers, ReadContent, c
<1>12. CASE Body(w)
  <2> DEFINE p == [at[w] EXCEPT !.need = @ - 1]
  <2>1. at[w].left > 0 /\ at[w].step = "body" /\ at[w].need \in Nat /\ at[w].need > 0
    BY <1>1, <1>12 DEF Body, Is, WorkInv, Places
  <2>2. CASE NoMore(c) /\ Fails(w)
    BY <1>7, <2>1, <2>2
  <2>3. CASE Reads(c) /\ Route(w, at[w].req)
    BY <1>1, <1>8, <2>1, <2>3 DEF Places
  <2>4. CASE Reads(c) /\ at[w].need # 1 /\ Goes(w, p)
    <3>1. at[w].need - 1 \in Nat /\ at[w].need - 1 > 0
      BY <2>1, <2>4
    <3>2. p \in Places /\ p.left = at[w].left /\ p.step = "body" /\ p.need = at[w].need - 1
      BY <1>1, <2>1, <3>1 DEF Places
    <3> HIDE DEF p
    <3> QED
      BY <1>5, <2>1, <2>4, <3>1, <3>2
  <2> QED
    BY <1>1, <1>12, <2>2, <2>3, <2>4 DEF Body, c
<1> QED
  BY <1>1, <1>9, <1>10, <1>11, <1>12

-----------------------------------------------------------------------------
(* The pool.                                                               *)

\* A step of the web server is a step of its pool, or leaves it as it is.
LEMMA PoolSteps ==
    ASSUME WorkInv, [Next]_vars
    PROVE  [PoolNext]_poolVars
<1>1. CASE Accept
  <2> PICK c \in Conns : conn[c] = "backlog" /\ Enqueue(c)
    BY <1>1 DEF Accept
  <2> c \in Tasks \ Range(taken \o jobs_)
    BY DEF WorkInv, Conns
  <2> QED
    BY DEF PoolNext
<1>2. CASE AcceptFails
  BY <1>2 DEF AcceptFails
<1>3. CASE Drain
  BY <1>3 DEF Drain, PoolNext
<1>4. ASSUME NEW w \in Workers, Pool(w) \/ Begin(w) \/ Close(w)
      PROVE  [PoolNext]_poolVars
  BY <1>4 DEF Pool, Begin, Close, PoolNext
<1>5. ASSUME NEW w \in Workers,
             \/ Alive(w) \/ Line(w) \/ Headers(w) \/ Body(w)
             \/ Handle(w) \/ Stop(w) \/ Write(w)
      PROVE  UNCHANGED poolVars
  BY <1>5 DEF Alive, Line, Headers, Body, Handle, Stop, Write, Route, ReadContent, Goto, Fails, Goes
<1>6. ASSUME NEW c \in Conns, Connect(c) \/ Ask(c) \/ Send(c) \/ Hangup(c)
      PROVE  UNCHANGED poolVars
  BY <1>6 DEF Connect, Ask, Send, Hangup, Asks
<1>7. CASE UNCHANGED vars
  BY <1>7 DEF vars
<1> QED
  BY <1>1, <1>2, <1>3, <1>4, <1>5, <1>6, <1>7 DEF Next, Listen, Over, Serve

-----------------------------------------------------------------------------
(* Types.                                                                  *)

\* The place of a worker that waits for a request, or for a connection.
LEMMA BeforeIsPlace ==
    ASSUME NEW s \in {"none", "alive"}, NEW k \in 0..KeepAliveMax
    PROVE  Before(s, k) \in Places /\ Before(s, k).step = s /\ Before(s, k).left = k
BY DEF Before, Places

\* The steps of a worker.
LEMMA WorkerTypes ==
    ASSUME TypeOK, TasksRunOnce, WorkInv, PoolTypeOK', NEW w \in Workers, Pool(w) \/ Serve(w)
    PROVE  TypeOK'
<1> USE DEF listenVars, clientVars, poolVars
<1>1. Idle \in Places /\ Idle.step = "none"
  BY WebAssumption, BeforeIsPlace DEF Idle
<1>3. CASE Pool(w)
  BY <1>3 DEF Pool, Waits, Leaves, Wakes, TypeOK, PoolTypeOK
<1>4. CASE Begin(w)
  <2> DEFINE p == Before("alive", KeepAliveMax)
  <2>1. p \in Places /\ p.step # "none"
    BY WebAssumption, BeforeIsPlace
  <2>2. at' = [at EXCEPT ![w] = p] /\ worker' = [worker EXCEPT ![w] = "run"]
    BY <1>4 DEF Begin, Takes
  <2> HIDE DEF p
  <2> QED
    BY <1>4, <2>1, <2>2 DEF Begin, TypeOK, PoolTypeOK
<1>2. ASSUME NEW s \in Asked, at[w].step \in Asked, at' = [at EXCEPT ![w].step = s]
      PROVE  /\ at' \in [Workers -> Places]
             /\ \A v \in Workers : at'[v].step = "none" <=> at[v].step = "none"
  <2>1. [at[w] EXCEPT !.step = s] \in Places /\ [at[w] EXCEPT !.step = s].step = s
    BY PlaceStep DEF TypeOK, Places
  <2>2. at' = [at EXCEPT ![w] = [at[w] EXCEPT !.step = s]]
    BY <1>2
  <2> QED
    BY <1>2, <2>1, <2>2 DEF TypeOK, Asked
<1>5. CASE Handle(w)
  <2>1. at[w].step \in Asked /\ \E s \in Asked : at' = [at EXCEPT ![w].step = s]
    BY <1>5 DEF Handle, Is, Asked
  <2> QED
    BY <1>5, <1>2, <2>1 DEF Handle, TypeOK
<1>6. CASE Stop(w)
  <2>1. at[w].step \in Asked /\ \E s \in Asked : at' = [at EXCEPT ![w].step = s]
    BY <1>6 DEF Stop, Is, Asked
  <2>2. conn' \in [Conns -> {"new", "backlog", "accepted", "closed"}]
    BY <1>6 DEF Stop, Refused, TypeOK
  <2> QED
    BY <1>6, <1>2, <2>1, <2>2 DEF Stop, TypeOK
<1>7. CASE Write(w)
  <2> DEFINE p == Before("alive", at[w].left - 1)
             a == [n |-> at[w].n, bad |-> at[w].bad, close |-> LastOne(w) \/ at[w].req.close]
  <2>1. at[w] \in Places /\ at[w].left > 0 /\ at[w].step = "write" /\ worker[w] = "run"
    BY <1>7 DEF Write, TypeOK, Is, WorkInv, Asked
  <2>2. p \in Places /\ p.step # "none"
    <3> at[w].left - 1 \in 0..KeepAliveMax
      BY <2>1, WebAssumption DEF Places
    <3> QED
      BY BeforeIsPlace
  <2>3. a \in Answers
    BY <2>1, WebAssumption DEF Places, Answers, NoRequest, LastOne
  <2>4. answers' = [answers EXCEPT ![fn[w]] = Append(@, a)] /\ at' = [at EXCEPT ![w] = p]
    BY <1>7 DEF Write
  <2> HIDE DEF p, a
  <2>5. answers' \in [Conns -> Seq(Answers)]
    <3> fn[w] \in Conns
      BY <2>1 DEF TasksRunOnce, TypeOK, PoolTypeOK, Conns
    <3> QED
      BY <2>3, <2>4 DEF TypeOK
  <2> QED
    BY <1>7, <2>1, <2>2, <2>4, <2>5 DEF Write, TypeOK, PoolTypeOK
<1>8. CASE Close(w)
  <2>1. worker' = [worker EXCEPT ![w] = "test"]
    BY <1>8 DEF Close, Returns
  <2>2. /\ conn' \in [Conns -> {"new", "backlog", "accepted", "closed"}]
        /\ net' \in [Conns -> Seq(Piece)] /\ todo' \in [Conns -> Seq(Piece)]
    BY <1>8, EmptySeq DEF Close, TypeOK
  <2>3. /\ at' \in [Workers -> Places]
        /\ \A v \in Workers : worker'[v] = "run" <=> at'[v].step # "none"
    BY <1>1, <1>8, <2>1 DEF Close, TypeOK, PoolTypeOK
  <2> QED
    BY <1>8, <2>2, <2>3 DEF Close, TypeOK
<1>9. CASE Alive(w) \/ Line(w) \/ Headers(w) \/ Body(w)
  <2>1. worker[w] = "run" /\ net' \in [Conns -> Seq(Piece)] /\ \E p : Further(w, p)
    BY <1>9, Reading
  <2>2. PICK p : Further(w, p)
    BY <2>1
  <2> QED
    BY <2>1, <2>2 DEF Further, Goes, TypeOK, PoolTypeOK
<1> QED
  BY <1>3, <1>4, <1>5, <1>6, <1>7, <1>8, <1>9 DEF Serve

\* The steps of the listener and of the clients.
LEMMA OtherTypes ==
    ASSUME TypeOK, PoolTypeOK',
           \/ Listen
           \/ \E c \in Conns : Connect(c) \/ Ask(c) \/ Send(c) \/ Hangup(c)
    PROVE  TypeOK'
<1> USE DEF listenVars, clientVars, poolVars
<1>1. CASE Accept
  BY <1>1 DEF Accept, Enqueue, Waiting, TypeOK, PoolTypeOK
<1>2. CASE AcceptFails
  BY <1>2 DEF AcceptFails, Refused, TypeOK
<1>3. CASE Drain
  BY <1>3 DEF Drain, SetShutdown, NotifyAll, JoinWorkers, TypeOK, PoolTypeOK
<1>4. ASSUME NEW c \in Conns, Asks(c), conn' \in [Conns -> {"new", "backlog", "accepted", "closed"}]
      PROVE  TypeOK'
  <2> PICK r \in Requests : todo' = [todo EXCEPT ![c] = Pieces(sent[c] + 1, r)]
    BY <1>4 DEF Asks
  <2> Pieces(sent[c] + 1, r) \in Seq(Piece)
    BY PiecesType DEF TypeOK
  <2> QED
    BY <1>4 DEF Asks, TypeOK
<1>5. ASSUME NEW c \in Conns, Connect(c) \/ Ask(c)
      PROVE  TypeOK'
  <2> Asks(c) /\ conn' \in [Conns -> {"new", "backlog", "accepted", "closed"}]
    BY <1>5 DEF Connect, Ask, TypeOK
  <2> QED
    BY <1>4
<1>6. ASSUME NEW c \in Conns, Send(c)
      PROVE  TypeOK'
  <2>1. todo[c] \in Seq(Piece) /\ todo[c] # <<>>
    BY <1>6 DEF Send, TypeOK
  <2>2. Head(todo[c]) \in Piece /\ Tail(todo[c]) \in Seq(Piece)
    BY <2>1, HeadTailProperties
  <2> QED
    BY <1>6, <2>2 DEF Send, TypeOK
<1>7. ASSUME NEW c \in Conns, Hangup(c)
      PROVE  TypeOK'
  BY <1>7 DEF Hangup, TypeOK
<1> QED
  BY <1>1, <1>2, <1>3, <1>5, <1>6, <1>7 DEF Listen

LEMMA TypesKept ==
    ASSUME TypeOK, TasksRunOnce, WorkInv, [Next]_vars
    PROVE  TypeOK'
<1>1. PoolTypeOK'
  BY PoolSteps, PoolTypes DEF TypeOK
<1>2. CASE UNCHANGED vars
  BY <1>2 DEF vars, poolVars, listenVars, clientVars, TypeOK, PoolTypeOK
<1> QED
  BY <1>1, <1>2, WorkerTypes, OtherTypes DEF Next, Over

-----------------------------------------------------------------------------
(* What the workers rely on.                                               *)

\* No connection becomes new, and none comes back into the backlog.
LEMMA ConnSteps ==
    ASSUME TypeOK, [Next]_vars, NEW c \in Conns, conn'[c] \in {"new", "backlog"}
    PROVE  conn[c] \in {"new", "backlog"}
<1> USE DEF TypeOK
<1>1. CASE Listen
  BY <1>1 DEF Listen, Accept, AcceptFails, Drain, Refused
<1>2. ASSUME NEW w \in Workers, Pool(w) \/ Begin(w) \/ Handle(w) \/ Stop(w) \/ Write(w) \/ Close(w)
      PROVE  conn[c] \in {"new", "backlog"}
  BY <1>2 DEF Pool, Begin, Handle, Stop, Write, Close, Refused
<1>3. ASSUME NEW w \in Workers, Alive(w) \/ Line(w) \/ Headers(w) \/ Body(w)
      PROVE  UNCHANGED conn
  BY <1>3 DEF Alive, Line, Headers, Body, Route, ReadContent, Goto, Fails, Goes
<1>4. ASSUME NEW d \in Conns, Connect(d) \/ Ask(d) \/ Send(d) \/ Hangup(d)
      PROVE  conn[c] \in {"new", "backlog"}
  BY <1>4 DEF Connect, Ask, Send, Hangup
<1>5. CASE UNCHANGED vars
  BY <1>5 DEF vars
<1> QED
  BY <1>1, <1>2, <1>3, <1>4, <1>5 DEF Next, Over, Serve

\* The tasks there are, taken or waiting, only change when one is accepted.
LEMMA AllTasks ==
    ASSUME TypeOK, WorkInv, [Next]_vars
    PROVE  \/ taken' \o jobs_' = taken \o jobs_
           \/ \E c \in Conns : conn'[c] = "accepted"
                              /\ Range(taken' \o jobs_') = Range(taken \o jobs_) \cup {c}
<1>1. CASE Accept
  <2> PICK c \in Conns : Enqueue(c) /\ conn' = [conn EXCEPT ![c] = "accepted"]
    BY <1>1 DEF Accept
  <2>1. taken \o jobs_ \in Seq(Tasks) /\ c \in Tasks
    BY ConcatProperties DEF TypeOK, PoolTypeOK, Conns
  <2>2. Range(taken' \o jobs_') = Range(taken \o jobs_) \cup {c}
    <3>1. taken' \o jobs_' = Append(taken \o jobs_, c)
      BY <2>1, EnqueueAppends DEF TypeOK
    <3>2. ASSUME NEW all \in Seq(Tasks)
          PROVE  Range(Append(all, c)) = Range(all) \cup {c}
      BY <2>1, RangeOfAppend
    <3> QED
      BY <2>1, <3>1, <3>2
  <2> QED
    BY <2>2 DEF TypeOK
<1>2. ASSUME NEW w \in Workers, Takes(w)
      PROVE  taken' \o jobs_' = taken \o jobs_
  BY <1>2, TakeKeepsOrder DEF TypeOK
<1>3. CASE AcceptFails \/ Drain
  BY <1>3 DEF AcceptFails, Drain, poolVars, SetShutdown, NotifyAll, JoinWorkers
<1>4. ASSUME NEW w \in Workers, Pool(w) \/ Handle(w) \/ Stop(w) \/ Write(w) \/ Close(w)
      PROVE  UNCHANGED <<taken, jobs_>>
  BY <1>4 DEF Pool, Waits, Leaves, Wakes, Handle, Stop, Write, Close, Returns, poolVars
<1>5. ASSUME NEW w \in Workers, Alive(w) \/ Line(w) \/ Headers(w) \/ Body(w)
      PROVE  UNCHANGED <<taken, jobs_>>
  BY <1>5 DEF Alive, Line, Headers, Body, Route, ReadContent, Goto, Fails, Goes, poolVars
<1>6. ASSUME NEW d \in Conns, Connect(d) \/ Ask(d) \/ Send(d) \/ Hangup(d)
      PROVE  UNCHANGED <<taken, jobs_>>
  BY <1>6 DEF Connect, Ask, Send, Hangup, Asks, poolVars
<1>7. CASE UNCHANGED vars
  BY <1>7 DEF vars, poolVars
<1> QED
  BY <1>1, <1>2, <1>3, <1>4, <1>5, <1>6, <1>7 DEF Next, Listen, Over, Serve, Begin

LEMMA WorkInvKept ==
    ASSUME TypeOK, TasksRunOnce, WorkInv, [Next]_vars
    PROVE  WorkInv'
<1>1. \A c \in Conns : conn'[c] \in {"new", "backlog"} => c \notin Range(taken' \o jobs_')
  <2>1. CASE taken' \o jobs_' = taken \o jobs_
    BY <2>1, ConnSteps DEF WorkInv
  <2>2. ASSUME NEW d \in Conns, conn'[d] = "accepted",
               Range(taken' \o jobs_') = Range(taken \o jobs_) \cup {d}
        PROVE  \A c \in Conns : conn'[c] \in {"new", "backlog"} => c \notin Range(taken' \o jobs_')
    BY <2>2, ConnSteps DEF WorkInv
  <2> QED
    BY <2>1, <2>2, AllTasks
<1> DEFINE Right(v) == /\ at'[v].step \in Asked => at'[v].left > 0
                       /\ at'[v].step = "body" => at'[v].need > 0
<1> SUFFICES \A v \in Workers : Right(v)
  BY <1>1 DEF WorkInv, Is
<1>2. ASSUME UNCHANGED at
      PROVE  \A v \in Workers : Right(v)
  BY <1>2 DEF WorkInv, Is
<1>3. CASE Listen \/ Over
  BY <1>2, <1>3 DEF Listen, Accept, AcceptFails, Drain, Over, vars
<1>4. ASSUME NEW c \in Conns, Connect(c) \/ Ask(c) \/ Send(c) \/ Hangup(c)
      PROVE  UNCHANGED at
  BY <1>4 DEF Connect, Ask, Send, Hangup, Asks
<1>5. ASSUME NEW w \in Workers, NEW p \in Places, at' = [at EXCEPT ![w] = p],
             p.step \in Asked => p.left > 0, p.step = "body" => p.need > 0
      PROVE  \A v \in Workers : Right(v)
  BY <1>5 DEF WorkInv, TypeOK, Is
<1>6. ASSUME NEW w \in Workers, Serve(w) \/ Pool(w)
      PROVE  \A v \in Workers : Right(v)
  <2>1. CASE Pool(w)
    BY <1>2, <2>1 DEF Pool
  <2>2. ASSUME NEW s \in {"none", "alive"}, NEW k \in 0..KeepAliveMax,
               at' = [at EXCEPT ![w] = Before(s, k)]
        PROVE  \A v \in Workers : Right(v)
    BY <1>5, <2>2, BeforeIsPlace DEF Asked
  <2>3. CASE Begin(w) \/ Close(w)
    BY <2>2, <2>3, WebAssumption DEF Begin, Close, Idle
  <2>4. CASE Write(w)
    <3> at[w].left \in 0..KeepAliveMax /\ at[w].left > 0
      BY <2>4 DEF Write, Is, WorkInv, TypeOK, Places, Asked
    <3> at[w].left - 1 \in 0..KeepAliveMax
      BY WebAssumption
    <3> QED
      BY <2>2, <2>4 DEF Write
  <2>5. CASE Handle(w) \/ Stop(w)
    <3>1. at[w] \in Places /\ at[w].left > 0
      BY <2>5 DEF Handle, Stop, Is, WorkInv, TypeOK, Asked
    <3>2. PICK s \in {"stop_call", "write"} : at' = [at EXCEPT ![w].step = s]
      BY <2>5 DEF Handle, Stop
    <3>3. LET p == [at[w] EXCEPT !.step = s] IN p \in Places /\ p.step = s /\ p.left = at[w].left
      BY <3>1 DEF Places, Asked
    <3> QED
      BY <1>5, <3>1, <3>2, <3>3
  <2>6. CASE Alive(w) \/ Line(w) \/ Headers(w) \/ Body(w)
    BY <1>5, <2>6, Reading DEF Further, Goes
  <2> QED
    BY <1>6, <2>1, <2>3, <2>4, <2>5, <2>6 DEF Serve
<1>7. CASE UNCHANGED vars
  BY <1>2, <1>7 DEF vars
<1> QED
  BY <1>2, <1>3, <1>4, <1>6, <1>7 DEF Next

\* What holds of every state so far.
WebInv == TypeOK /\ TasksRunOnce /\ WorkInv

LEMMA WebInvariant == Spec => []WebInv
<1>1. Init => WebInv
  <2> SUFFICES ASSUME Init PROVE WebInv
    OBVIOUS
  <2>1. PoolTypeOK /\ TasksRunOnce
    BY PoolInitially DEF Init
  <2>2. Idle \in Places /\ Idle.step = "none"
    BY WebAssumption, BeforeIsPlace DEF Idle
  <2>3. TypeOK
    BY <2>1, <2>2, EmptySeq DEF Init, PoolInit, TypeOK, Conns
  <2>4. WorkInv
    BY <2>2 DEF Init, PoolInit, WorkInv, Is, Range, Asked
  <2> QED
    BY <2>1, <2>3, <2>4 DEF WebInv
<1>2. WebInv /\ [Next]_vars => WebInv'
  BY TypesKept, PoolSteps, TasksKept, WorkInvKept DEF WebInv, TypeOK
<1> QED
  BY <1>1, <1>2, PTL DEF Spec

\* The web server's variables keep their types, whatever clients send and when.
THEOREM WebTypeCorrect == Spec => []TypeOK
BY WebInvariant, PTL DEF WebInv

\* The thread that listens and the threads that serve are such a thread pool
\* (listen_internal).
THEOREM WebServerUsesPool == Spec => PoolSpec
<1>1. Init => PoolInit
  BY DEF Init
<1>2. WebInv /\ [Next]_vars => [PoolNext]_poolVars
  BY PoolSteps DEF WebInv
<1> QED
  BY <1>1, <1>2, WebInvariant, PTL DEF Spec, PoolSpec

\* Every accepted connection is served by one worker, once (listen_internal).
THEOREM EachConnectionServedOnce == Spec => []TasksRunOnce
BY WebServerUsesPool, EachTaskRunsOnce, PTL

\* When listen() returns, every connection it accepted has been served to its end
\* (listen_internal, ThreadPool::shutdown).
THEOREM ListenLosesNothing == Spec => []ShutdownDrains
BY WebServerUsesPool, ShutdownLosesNothing, PTL

-----------------------------------------------------------------------------
(* stop().                                                                 *)

\* Only a step of Handle takes a worker to stop_call.
LEMMA StopCalls ==
    ASSUME WebInv, [Next]_vars, NEW v \in Workers,
           at'[v].step = "stop_call", at[v].step # "stop_call"
    PROVE  Handle(v) /\ ~joined /\ joined' /\ at' = [at EXCEPT ![v].step = "stop_call"]
<1> USE DEF WebInv
<1>1. ~UNCHANGED at
  OBVIOUS
<1>2. ASSUME NEW w \in Workers, NEW p \in Places, at' = [at EXCEPT ![w] = p], p.step # "stop_call"
      PROVE  FALSE
  BY <1>2 DEF TypeOK
<1>3. ASSUME NEW w \in Workers, Serve(w) \/ Pool(w)
      PROVE  Handle(v) /\ ~joined /\ joined' /\ at' = [at EXCEPT ![v].step = "stop_call"]
  <2>1. ~Pool(w)
    BY <1>1 DEF Pool
  <2>2. ~(Alive(w) \/ Line(w) \/ Headers(w) \/ Body(w))
    BY <1>2, Reading DEF Further, Goes
  <2>3. ASSUME NEW s \in {"none", "alive"}, NEW k \in 0..KeepAliveMax,
               at' = [at EXCEPT ![w] = Before(s, k)]
        PROVE  FALSE
    BY <1>2, <2>3, BeforeIsPlace
  <2>4. ~(Begin(w) \/ Close(w))
    BY <2>3, WebAssumption DEF Begin, Close, Idle
  <2>5. ~Write(w)
    <3> SUFFICES ASSUME Write(w) PROVE FALSE
      OBVIOUS
    <3> at[w].left \in 0..KeepAliveMax /\ at[w].left > 0
      BY DEF Write, Is, WorkInv, TypeOK, Places, Asked
    <3> at[w].left - 1 \in 0..KeepAliveMax
      BY WebAssumption
    <3> QED
      BY <2>3 DEF Write
  <2>6. ASSUME NEW s \in {"write", "stop_call"}, at' = [at EXCEPT ![w].step = s]
        PROVE  v = w /\ s = "stop_call"
    BY <2>6 DEF TypeOK, Places
  <2>7. ~Stop(w)
    BY <2>6 DEF Stop
  <2> QED
    BY <1>3, <2>1, <2>2, <2>4, <2>5, <2>6, <2>7 DEF Serve, Handle
<1>4. ~(Listen \/ Over)
  BY <1>1 DEF Listen, Accept, AcceptFails, Drain, Over, vars
<1>5. ASSUME NEW c \in Conns
      PROVE  ~(Connect(c) \/ Ask(c) \/ Send(c) \/ Hangup(c))
  BY <1>1 DEF Connect, Ask, Send, Hangup, Asks
<1>6. ~UNCHANGED vars
  BY <1>1 DEF vars
<1> QED
  BY <1>3, <1>4, <1>5, <1>6 DEF Next

\* A worker that was at stop_call and is there no more has called stop().
LEMMA StopInvKept ==
    ASSUME WebInv, StopInv, [Next]_vars
    PROVE  StopInv'
<1>1. joined => joined'
  <2>1. ASSUME NEW w \in Workers, Serve(w) \/ Pool(w)
        PROVE  joined => joined'
    BY <2>1 DEF Pool, Serve, Begin, Alive, Line, Headers, Body, Handle, Stop, Write, Close,
                Route, ReadContent, Goto, Fails, Goes
  <2>2. ASSUME NEW c \in Conns, Connect(c) \/ Ask(c) \/ Send(c) \/ Hangup(c)
        PROVE  joined => joined'
    BY <2>2 DEF Connect, Ask, Send, Hangup, Asks
  <2> QED
    BY <2>1, <2>2 DEF Next, Listen, Accept, AcceptFails, Drain, Over, vars
<1>2. ASSUME svr_sock' = "invalid", svr_sock # "invalid"
      PROVE  \E w \in Workers : Stop(w)
  <2>1. ASSUME NEW w \in Workers, Serve(w) \/ Pool(w), ~Stop(w)
        PROVE  UNCHANGED svr_sock
    BY <2>1 DEF Pool, Serve, Begin, Alive, Line, Headers, Body, Handle, Write, Close,
                Route, ReadContent, Goto, Fails, Goes, listenVars
  <2>2. ASSUME NEW c \in Conns, Connect(c) \/ Ask(c) \/ Send(c) \/ Hangup(c)
        PROVE  UNCHANGED svr_sock
    BY <2>2 DEF Connect, Ask, Send, Hangup, Asks, listenVars
  <2>3. ~(Listen \/ Over \/ UNCHANGED vars)
    BY <1>2 DEF Listen, Accept, AcceptFails, Drain, Over, vars, listenVars
  <2> QED
    BY <1>2, <2>1, <2>2, <2>3 DEF Next
<1>3. CASE \E w \in Workers : Stop(w)
  <2> PICK w \in Workers : Stop(w)
    BY <1>3
  <2>1. at[w].step = "stop_call" /\ at' = [at EXCEPT ![w].step = "write"] /\ joined' = joined
    BY DEF Stop, Is
  <2>2. \A v \in Workers : at'[v].step # "stop_call"
    BY <2>1 DEF StopInv, Is, WebInv, TypeOK, Places
  <2> QED
    BY <2>1, <2>2 DEF StopInv, Is
<1>4. CASE \A w \in Workers : ~Stop(w)
  <2>1. svr_sock' = "invalid" => svr_sock = "invalid"
    BY <1>2, <1>4
  <2>2. ASSUME NEW v \in Workers, at'[v].step = "stop_call"
        PROVE  joined' /\ svr_sock' # "invalid"
    BY <1>1, <2>1, <2>2, StopCalls DEF StopInv, Is
  <2>3. ASSUME NEW v \in Workers, NEW w \in Workers,
               at'[v].step = "stop_call", at'[w].step = "stop_call"
        PROVE  v = w
    <3>1. CASE at[v].step = "stop_call" /\ at[w].step = "stop_call"
      BY <3>1 DEF StopInv, Is
    <3>2. ASSUME NEW u \in Workers, NEW t \in Workers,
                 at'[u].step = "stop_call", at'[t].step = "stop_call", at[u].step # "stop_call"
          PROVE  u = t
      <4>1. ~joined /\ at' = [at EXCEPT ![u].step = "stop_call"]
        BY <3>2, StopCalls
      <4>2. at[t].step # "stop_call"
        BY <4>1 DEF StopInv, Is
      <4> QED
        BY <3>2, <4>1, <4>2
    <3> QED
      BY <2>3, <3>1, <3>2
  <2> QED
    BY <1>1, <2>1, <2>2, <2>3 DEF StopInv, Is
<1> QED
  BY <1>3, <1>4

\* stop() is called at most once, and the assertion in it holds, for any number of
\* requests that stop the server at once (Server::stop).
THEOREM StopAssertionHolds == Spec => []StopAsserts
<1>1. Init => StopInv
  BY DEF Init, StopInv, Is, Idle, Before
<1>2. WebInv /\ StopInv /\ [Next]_vars => StopInv'
  BY StopInvKept
<1>3. StopInv => StopAsserts
  BY DEF StopInv, StopAsserts
<1> QED
  BY <1>1, <1>2, <1>3, WebInvariant, PTL DEF Spec
-----------------------------------------------------------------------------
(* The number of answers.                                                  *)

\* A task that was taken is one of the tasks, and waits no longer.
LEMMA TakenOnce ==
    ASSUME PoolTypeOK, TasksRunOnce, NEW t \in Range(taken)
    PROVE  t \in Range(taken \o jobs_) /\ t \notin Range(jobs_)
<1> DEFINE all == taken \o jobs_
<1>1. taken \in Seq(Tasks) /\ jobs_ \in Seq(Tasks)
  BY DEF PoolTypeOK
<1>2. /\ DOMAIN all = 1..(Len(taken) + Len(jobs_))
      /\ \A i \in 1..Len(taken) : all[i] = taken[i]
      /\ \A i \in 1..Len(jobs_) : all[Len(taken) + i] = jobs_[i]
  BY <1>1, LenProperties, ConcatProperties
<1>3. PICK i \in 1..Len(taken) : taken[i] = t
  BY <1>1, LenProperties DEF Range
<1>4. i \in DOMAIN all /\ all[i] = t
  BY <1>1, <1>2, <1>3, LenProperties
<1>5. ASSUME NEW j \in 1..Len(jobs_), jobs_[j] = t
      PROVE  FALSE
  <2>1. Len(taken) + j \in DOMAIN all /\ all[Len(taken) + j] = t /\ Len(taken) + j # i
    BY <1>1, <1>2, <1>3, <1>5, LenProperties
  <2> QED
    BY <1>4, <2>1 DEF TasksRunOnce, IsInjective
<1>6. DOMAIN jobs_ = 1..Len(jobs_)
  BY <1>1, LenProperties
<1> QED
  BY <1>4, <1>5, <1>6 DEF Range

\* Only Write answers.
LEMMA OnlyWriteAnswers ==
    ASSUME [Next]_vars, \A w \in Workers : ~Write(w)
    PROVE  UNCHANGED answers
<1>1. ASSUME NEW w \in Workers, Serve(w) \/ Pool(w), ~Write(w)
      PROVE  UNCHANGED answers
  BY <1>1 DEF Pool, Serve, Begin, Alive, Line, Headers, Body, Handle, Stop, Close,
              Route, ReadContent, Goto, Fails, Goes
<1>2. ASSUME NEW c \in Conns, Connect(c) \/ Ask(c) \/ Send(c) \/ Hangup(c)
      PROVE  UNCHANGED answers
  BY <1>2 DEF Connect, Ask, Send, Hangup, Asks
<1> QED
  BY <1>1, <1>2 DEF Next, Listen, Accept, AcceptFails, Drain, Over, vars

\* What comes into the queue was in the backlog.
LEMMA QueueSteps ==
    ASSUME TypeOK, [Next]_vars, NEW c \in Range(jobs_')
    PROVE  c \in Range(jobs_) \/ conn[c] = "backlog"
<1> jobs_ \in Seq(Tasks)
  BY DEF TypeOK, PoolTypeOK
<1>1. CASE Accept
  <2> PICK d \in Tasks : conn[d] = "backlog" /\ jobs_' = Append(jobs_, d)
    BY <1>1 DEF Accept, Enqueue, Conns
  <2>1. ASSUME NEW s \in Seq(Tasks)
        PROVE  Range(Append(s, d)) = Range(s) \cup {d}
    BY RangeOfAppend
  <2> QED
    BY <2>1
<1>2. ASSUME NEW w \in Workers, Takes(w)
      PROVE  c \in Range(jobs_)
  <2>1. jobs_ # <<>> /\ jobs_' = Tail(jobs_)
    BY <1>2 DEF Takes
  <2>2. PICK i \in DOMAIN jobs_' : c = jobs_'[i]
    BY DEF Range
  <2>3. i + 1 \in DOMAIN jobs_ /\ jobs_[i + 1] = c
    BY <2>1, <2>2, EmptySeq, HeadTailProperties, LenProperties
  <2> QED
    BY <2>3 DEF Range
<1>3. CASE AcceptFails \/ Drain
  BY <1>3 DEF AcceptFails, Drain, poolVars, SetShutdown, NotifyAll, JoinWorkers
<1>4. ASSUME NEW w \in Workers, Pool(w) \/ Handle(w) \/ Stop(w) \/ Write(w) \/ Close(w)
      PROVE  UNCHANGED jobs_
  BY <1>4 DEF Pool, Waits, Leaves, Wakes, Handle, Stop, Write, Close, Returns, poolVars
<1>5. ASSUME NEW w \in Workers, Alive(w) \/ Line(w) \/ Headers(w) \/ Body(w)
      PROVE  UNCHANGED jobs_
  BY <1>5 DEF Alive, Line, Headers, Body, Route, ReadContent, Goto, Fails, Goes, poolVars
<1>6. ASSUME NEW d \in Conns, Connect(d) \/ Ask(d) \/ Send(d) \/ Hangup(d)
      PROVE  UNCHANGED jobs_
  BY <1>6 DEF Connect, Ask, Send, Hangup, Asks, poolVars
<1>7. CASE UNCHANGED vars
  BY <1>7 DEF vars, poolVars
<1> QED
  BY <1>1, <1>2, <1>3, <1>4, <1>5, <1>6, <1>7 DEF Next, Listen, Over, Serve, Begin

\* A worker counts on for the connection it serves, and starts with one that has had
\* no answer; a connection that waits has had none.
LEMMA CountInvKept ==
    ASSUME WebInv, CountInv, [Next]_vars, \A w \in Workers : ~Write(w)
    PROVE  CountInv'
<1> USE DEF WebInv
<1>1. UNCHANGED answers
  BY OnlyWriteAnswers
<1>2. ASSUME NEW c \in Conns, c \in Range(jobs_') \/ conn'[c] \in {"new", "backlog"}
      PROVE  answers'[c] = <<>>
  BY <1>1, <1>2, QueueSteps, ConnSteps DEF CountInv
<1> DEFINE Counts(v) == worker'[v] = "run" => at'[v].left + Len(answers'[fn'[v]]) = KeepAliveMax
<1> SUFFICES ASSUME NEW v \in Workers PROVE Counts(v)
  BY <1>2 DEF CountInv
<1>3. ASSUME worker'[v] = "run" => worker[v] = "run", UNCHANGED fn[v], at'[v].left = at[v].left
      PROVE  Counts(v)
  BY <1>1, <1>3 DEF CountInv
<1>4. CASE Listen \/ Over \/ UNCHANGED vars
  <2>1. UNCHANGED <<at, fn>>
    BY <1>4 DEF Listen, Accept, AcceptFails, Drain, Over, vars, poolVars, Enqueue,
                SetShutdown, NotifyAll, JoinWorkers
  <2>2. worker'[v] = "run" => worker[v] = "run"
    BY <1>4 DEF Listen, Accept, AcceptFails, Drain, Over, vars, poolVars, Enqueue, Waiting,
                SetShutdown, NotifyAll, JoinWorkers, TypeOK, PoolTypeOK
  <2> QED
    BY <1>3, <2>1, <2>2
<1>5. ASSUME NEW c \in Conns, Connect(c) \/ Ask(c) \/ Send(c) \/ Hangup(c)
      PROVE  Counts(v)
  BY <1>3, <1>5 DEF Connect, Ask, Send, Hangup, Asks, poolVars
<1>6. ASSUME NEW w \in Workers, Pool(w)
      PROVE  Counts(v)
  BY <1>3, <1>6 DEF Pool, Waits, Leaves, Wakes, TypeOK, PoolTypeOK
<1>7. ASSUME NEW w \in Workers, Begin(w)
      PROVE  Counts(v)
  <2>1. CASE v # w
    BY <1>3, <1>7, <2>1 DEF Begin, Takes, TypeOK, PoolTypeOK
  <2>2. CASE v = w
    <3>1. /\ at' = [at EXCEPT ![v] = Before("alive", KeepAliveMax)]
          /\ fn' = [fn EXCEPT ![v] = Head(jobs_)]
          /\ jobs_ \in Seq(Tasks) /\ jobs_ # <<>>
      BY <1>7, <2>2 DEF Begin, Takes, TypeOK, PoolTypeOK
    <3>2. at'[v].left = KeepAliveMax /\ fn'[v] = Head(jobs_)
      BY <3>1 DEF TypeOK, PoolTypeOK, Before
    <3>3. Head(jobs_) \in Range(jobs_) /\ Head(jobs_) \in Conns
      <4>1. 1 \in DOMAIN jobs_ /\ Head(jobs_) = jobs_[1]
        BY <3>1, EmptySeq, LenProperties
      <4> QED
        BY <3>1, <4>1, HeadTailProperties DEF Range, Conns
    <3>4. answers[Head(jobs_)] = <<>>
      BY <3>3 DEF CountInv
    <3> QED
      BY <1>1, <3>2, <3>4, WebAssumption, EmptySeq
  <2> QED
    BY <2>1, <2>2
<1>8. ASSUME NEW w \in Workers, Handle(w) \/ Stop(w)
      PROVE  Counts(v)
  <2>1. UNCHANGED <<worker, fn>> /\ \E s \in Asked : at' = [at EXCEPT ![w].step = s]
    BY <1>8 DEF Handle, Stop, poolVars, Asked
  <2>2. at'[v].left = at[v].left
    BY <2>1 DEF TypeOK, Places
  <2> QED
    BY <1>3, <2>1, <2>2
<1>9. ASSUME NEW w \in Workers, Close(w)
      PROVE  Counts(v)
  <2>1. CASE v # w
    BY <1>3, <1>9, <2>1 DEF Close, Returns, TypeOK, PoolTypeOK
  <2>2. CASE v = w
    BY <1>9, <2>2 DEF Close, Returns, TypeOK, PoolTypeOK
  <2> QED
    BY <2>1, <2>2
<1>10. ASSUME NEW w \in Workers, Alive(w) \/ Line(w) \/ Headers(w) \/ Body(w)
       PROVE  Counts(v)
  <2> PICK p : Further(w, p)
    BY <1>10, Reading
  <2>1. at'[v].left = at[v].left /\ UNCHANGED <<worker, fn>>
    BY DEF Further, Goes, poolVars, TypeOK
  <2> QED
    BY <1>3, <2>1
<1> QED
  BY <1>4, <1>5, <1>6, <1>7, <1>8, <1>9, <1>10 DEF Next, Serve

\* With an answer the worker counts down, and says so when it is the last.
LEMMA WriteCounts ==
    ASSUME WebInv, CountInv, LastAnswerSaysClose, NEW w \in Workers, Write(w)
    PROVE  CountInv' /\ LastAnswerSaysClose'
<1> USE DEF WebInv
<1> DEFINE c == fn[w]
           a == [n |-> at[w].n, bad |-> at[w].bad, close |-> LastOne(w) \/ at[w].req.close]
<1>1. /\ UNCHANGED <<jobs_, conn, worker, fn>>
      /\ answers' = [answers EXCEPT ![c] = Append(@, a)]
      /\ at' = [at EXCEPT ![w] = Before("alive", at[w].left - 1)]
  BY DEF Write, poolVars
<1>2. /\ worker[w] = "run" /\ at[w].left > 0 /\ at[w].left \in Nat
      /\ at[w].bad \in BOOLEAN /\ at[w].n \in Nat
  BY WebAssumption DEF Write, Is, TypeOK, WorkInv, Asked, Places
<1>3. c \in Conns /\ c \in Range(taken)
  BY <1>2 DEF TasksRunOnce, TypeOK, PoolTypeOK, Conns
<1>4. c \notin Range(jobs_) /\ conn[c] \notin {"new", "backlog"}
  BY <1>3, TakenOnce DEF WorkInv, TypeOK
<1>5. answers[c] \in Seq(Answers) /\ at[w].left + Len(answers[c]) = KeepAliveMax
  BY <1>2, <1>3 DEF CountInv, TypeOK
<1>6. a.close = (at[w].left = 1 \/ at[w].req.close)
  BY DEF LastOne
<1>7. at'[w].left = at[w].left - 1
  BY <1>1 DEF TypeOK, Before
<1>8. \A d \in Conns \ {c} : answers'[d] = answers[d]
  BY <1>1 DEF TypeOK
<1>9. answers'[c] = Append(answers[c], a)
  BY <1>1, <1>3 DEF TypeOK
<1> HIDE DEF c, a
<1>10. /\ Len(answers'[c]) = Len(answers[c]) + 1
       /\ answers'[c][Len(answers[c]) + 1] = a
  BY <1>5, <1>9
<1>11. \A d \in Conns : d \in Range(jobs_') \/ conn'[d] \in {"new", "backlog"} => answers'[d] = <<>>
  BY <1>1, <1>4, <1>8 DEF CountInv
<1>12. ASSUME NEW v \in Workers, worker'[v] = "run"
       PROVE  at'[v].left + Len(answers'[fn'[v]]) = KeepAliveMax
  <2>1. CASE v = w
    <3>1. fn'[v] = c
      BY <1>1, <2>1 DEF c
    <3>2. at[w].left - 1 + (Len(answers[c]) + 1) = KeepAliveMax
      BY <1>2, <1>5, LenProperties
    <3> QED
      BY <1>7, <1>10, <2>1, <3>1, <3>2
  <2>2. CASE v # w
    <3>1. fn[v] # c /\ fn[v] \in Conns
      BY <1>1, <1>12, <2>2 DEF c, TasksRunOnce, TypeOK, PoolTypeOK, Conns
    <3>2. at'[v] = at[v]
      BY <1>1, <2>2 DEF TypeOK
    <3> QED
      BY <1>1, <1>8, <1>12, <3>1, <3>2 DEF CountInv
  <2> QED
    BY <2>1, <2>2
<1>13. ASSUME NEW d \in Conns
       PROVE  /\ Len(answers'[d]) <= KeepAliveMax
              /\ Len(answers'[d]) = KeepAliveMax => answers'[d][KeepAliveMax].close
  <2>1. CASE d = c
    <3>1. Len(answers[c]) \in Nat /\ KeepAliveMax \in Nat
      BY <1>5, WebAssumption, LenProperties
    <3>2. Len(answers'[c]) <= KeepAliveMax
      BY <1>2, <1>5, <1>10, <3>1
    <3>3. ASSUME Len(answers'[c]) = KeepAliveMax
          PROVE  answers'[c][KeepAliveMax] = a /\ at[w].left = 1
      BY <1>2, <1>5, <1>10, <3>1, <3>3
    <3> QED
      BY <1>6, <2>1, <3>2, <3>3
  <2>2. CASE d # c
    BY <1>8, <2>2 DEF LastAnswerSaysClose
  <2> QED
    BY <2>1, <2>2
<1> QED
  BY <1>11, <1>12, <1>13 DEF CountInv, LastAnswerSaysClose

\* A connection gets no more answers than its number, and the last one says so, for any
\* number of workers, connections and requests (process_server_socket_core).
THEOREM LastAnswerCloses == Spec => []LastAnswerSaysClose
<1> DEFINE Inv == CountInv /\ LastAnswerSaysClose
<1>1. Init => Inv
  <2> SUFFICES ASSUME Init PROVE Inv
    OBVIOUS
  <2>1. CountInv
    BY DEF Init, PoolInit, CountInv
  <2>2. LastAnswerSaysClose
    BY WebAssumption, EmptySeq DEF Init, LastAnswerSaysClose
  <2> QED
    BY <2>1, <2>2
<1>2. WebInv /\ Inv /\ [Next]_vars => Inv'
  <2> SUFFICES ASSUME WebInv, Inv, [Next]_vars PROVE Inv'
    OBVIOUS
  <2>1. CASE \E w \in Workers : Write(w)
    BY <2>1, WriteCounts
  <2>2. CASE \A w \in Workers : ~Write(w)
    BY <2>2, CountInvKept, OnlyWriteAnswers DEF LastAnswerSaysClose
  <2> QED
    BY <2>1, <2>2
<1> QED
  BY <1>1, <1>2, WebInvariant, PTL DEF Spec

-----------------------------------------------------------------------------
(* What the handlers are told.                                             *)

\* listen_internal leaves its loop before it shuts the pool down, and with the socket
\* closed.
ListenInv ==
    /\ listener = "accept" => owner = "enqueue"
    /\ listener = "drain" => svr_sock # "open"

LEMMA ListenInvKept ==
    ASSUME ListenInv, [Next]_vars
    PROVE  ListenInv'
<1> USE DEF listenVars, poolVars
<1>1. CASE Listen
  BY <1>1 DEF Listen, Accept, AcceptFails, Drain, Enqueue, ListenInv
<1>2. ASSUME NEW w \in Workers, Serve(w) \/ Pool(w)
      PROVE  UNCHANGED <<listener, owner>> /\ svr_sock' \in {svr_sock, "invalid"}
  BY <1>2 DEF Pool, Waits, Leaves, Wakes, Serve, Begin, Takes, Alive, Line, Headers, Body,
              Handle, Stop, Write, Close, Returns, Route, ReadContent, Goto, Fails, Goes
<1>3. ASSUME NEW c \in Conns, Connect(c) \/ Ask(c) \/ Send(c) \/ Hangup(c)
      PROVE  UNCHANGED <<listener, owner, svr_sock>>
  BY <1>3 DEF Connect, Ask, Send, Hangup, Asks
<1>4. CASE UNCHANGED vars
  BY <1>4 DEF ListenInv, vars
<1> QED
  BY <1>1, <1>2, <1>3, <1>4 DEF ListenInv, Next, Over

Busy == {w \in Workers : at[w].step \in {"handle", "stop_call"}}

\* One worker's step makes it busy or not.
LEMMA BusySteps ==
    ASSUME TypeOK, NEW w \in Workers, NEW p, at' = [at EXCEPT ![w] = p]
    PROVE  /\ p.step \in {"handle", "stop_call"} => Busy' = Busy \cup {w}
           /\ p.step \notin {"handle", "stop_call"} => Busy' = Busy \ {w}
BY DEF TypeOK, Busy

\* A worker that serves a connection keeps listen() from returning.
LEMMA ServesWhileUp ==
    ASSUME WebInv, ShutdownDrains, NEW w \in Workers, worker[w] = "run"
    PROVE  owner # "joined"
BY DEF WebInv, TasksRunOnce, ShutdownDrains

\* A step of a worker is a call, a return, or nothing to the handlers.
LEMMA WorkerIsThread ==
    ASSUME WebInv, ShutdownDrains, NEW w \in Workers, Serve(w) \/ Pool(w)
    PROVE  [Service!ServiceNext]_(Service!serviceVars)
<1> USE DEF WebInv, listenVars, poolVars, Is
<1> DEFINE up == owner # "joined"
           accepting == svr_sock = "open"
<1>1. at[w] \in Places /\ (worker[w] = "run" <=> at[w].step # "none")
  BY DEF TypeOK
<1>2. ASSUME UNCHANGED <<owner, svr_sock>>, Busy' = Busy
      PROVE  [Service!ServiceNext]_(Service!serviceVars)
  BY <1>2 DEF Service!serviceVars, Busy
<1>3. ASSUME UNCHANGED <<owner, svr_sock>>, w \notin Busy, Busy' = Busy \cup {w}, up
      PROVE  [Service!ServiceNext]_(Service!serviceVars)
  BY <1>3 DEF Service!ServiceNext, Service!Call, Busy
<1>4. ASSUME UNCHANGED owner, accepting' \in {accepting, FALSE}, w \in Busy, Busy' = Busy \ {w}, up
      PROVE  [Service!ServiceNext]_(Service!serviceVars)
  BY <1>4 DEF Service!ServiceNext, Service!Return, Busy
<1>5. CASE Pool(w)
  BY <1>2, <1>5 DEF Pool, Waits, Leaves, Wakes, Busy
<1>6. ASSUME NEW p, at' = [at EXCEPT ![w] = p], UNCHANGED <<owner, svr_sock>>,
             w \notin Busy, p.step # "stop_call", worker[w] = "run"
      PROVE  [Service!ServiceNext]_(Service!serviceVars)
  <2>1. CASE p.step = "handle"
    BY <1>3, <1>6, <2>1, BusySteps, ServesWhileUp
  <2>2. CASE p.step # "handle"
    BY <1>2, <1>6, <2>2, BusySteps
  <2> QED
    BY <2>1, <2>2
<1>7. CASE Begin(w)
  <2>1. w \notin Busy /\ at' = [at EXCEPT ![w] = Before("alive", KeepAliveMax)]
    BY <1>1, <1>7 DEF Begin, Takes, Busy
  <2>2. Before("alive", KeepAliveMax).step = "alive"
    BY DEF Before
  <2>3. Busy' = Busy \ {w}
    BY <2>1, <2>2, BusySteps
  <2> QED
    BY <1>2, <1>7, <2>1, <2>3 DEF Begin, Takes
<1>8. CASE Alive(w) \/ Line(w) \/ Headers(w) \/ Body(w)
  <2>1. PICK p : Further(w, p)
    BY <1>8, Reading
  <2>2. w \notin Busy /\ worker[w] = "run"
    BY <1>1, <1>8 DEF Alive, Line, Headers, Body, Busy
  <2> QED
    BY <1>6, <2>1, <2>2 DEF Further, Goes
<1>9. CASE Handle(w)
  <2>1. w \in Busy /\ worker[w] = "run" /\ UNCHANGED <<owner, svr_sock>>
    BY <1>1, <1>9 DEF Handle, Busy
  <2>2. PICK s \in {"write", "stop_call"} : at' = [at EXCEPT ![w].step = s]
    BY <1>9 DEF Handle
  <2>3. [at[w] EXCEPT !.step = s].step = s
    BY <1>1 DEF Places
  <2>4. Busy' = IF s = "stop_call" THEN Busy ELSE Busy \ {w}
    BY <2>1, <2>2, <2>3, BusySteps
  <2> QED
    BY <1>2, <1>4, <2>1, <2>4, ServesWhileUp
<1>10. CASE Stop(w)
  <2>1. /\ w \in Busy /\ worker[w] = "run" /\ UNCHANGED owner /\ ~accepting'
        /\ at' = [at EXCEPT ![w].step = "write"]
    BY <1>1, <1>10 DEF Stop, Busy
  <2>2. [at[w] EXCEPT !.step = "write"].step = "write"
    BY <1>1 DEF Places
  <2> QED
    BY <1>4, <2>1, <2>2, BusySteps, ServesWhileUp
<1>11. CASE Write(w)
  <2>1. /\ w \notin Busy /\ worker[w] = "run" /\ UNCHANGED <<owner, svr_sock>>
        /\ at' = [at EXCEPT ![w] = Before("alive", at[w].left - 1)]
    BY <1>1, <1>11 DEF Write, Busy
  <2>2. Before("alive", at[w].left - 1).step = "alive"
    BY DEF Before
  <2> QED
    BY <1>6, <2>1, <2>2
<1>12. CASE Close(w)
  <2>1. /\ w \notin Busy /\ worker[w] = "run" /\ UNCHANGED <<owner, svr_sock>>
        /\ at' = [at EXCEPT ![w] = Idle]
    BY <1>1, <1>12 DEF Close, Returns, Busy
  <2>2. Idle.step = "none"
    BY DEF Idle, Before
  <2> QED
    BY <1>6, <2>1, <2>2
<1> QED
  BY <1>5, <1>7, <1>8, <1>9, <1>10, <1>11, <1>12 DEF Serve

\* A step of the listener stops or takes down the service, or is nothing to the handlers.
LEMMA ListenerIsService ==
    ASSUME WebInv, ListenInv, Listen
    PROVE  [Service!ServiceNext]_(Service!serviceVars)
<1> USE DEF listenVars, poolVars
<1>1. UNCHANGED at
  BY DEF Listen, Accept, AcceptFails, Drain
<1>2. CASE Accept
  BY <1>1, <1>2 DEF Accept, Enqueue, Service!serviceVars
<1>3. CASE AcceptFails
  BY <1>1, <1>3 DEF AcceptFails, ListenInv, Service!ServiceNext, Service!StopAccepting,
                    Service!serviceVars
<1>4. CASE Drain
  <2>1. CASE SetShutdown \/ NotifyAll
    BY <1>1, <1>4, <2>1 DEF Drain, SetShutdown, NotifyAll, Service!serviceVars
  <2>2. CASE JoinWorkers
    <3>1. /\ owner = "join" /\ owner' = "joined" /\ svr_sock # "open" /\ UNCHANGED svr_sock
          /\ \A w \in Workers : worker[w] = "over"
      BY <1>4, <2>2 DEF Drain, JoinWorkers, ListenInv
    <3>2. \A w \in Workers : at[w].step = "none"
      BY <3>1 DEF WebInv, TypeOK
    <3> QED
      BY <1>1, <3>1, <3>2 DEF Service!ServiceNext, Service!TakeDown
  <2> QED
    BY <1>4, <2>1, <2>2 DEF Drain
<1> QED
  BY <1>2, <1>3, <1>4 DEF Listen

\* The web server calls handlers, stops and goes down as the service it promises to be,
\* for any number of workers, connections and requests (listen_internal,
\* dispatch_request).
THEOREM WebServerIsService == Spec => ImplementsHttpService
<1> DEFINE Inv == WebInv /\ ShutdownDrains /\ ListenInv
<1>1. Init => Service!ServiceInit
  BY DEF Init, PoolInit, Idle, Before, Service!ServiceInit
<1>2. Init => ListenInv
  BY DEF Init, PoolInit, ListenInv
<1>3. ListenInv /\ [Next]_vars => ListenInv'
  BY ListenInvKept
<1>4. Inv /\ [Next]_vars => [Service!ServiceNext]_(Service!serviceVars)
  <2> SUFFICES ASSUME Inv, [Next]_vars
               PROVE  [Service!ServiceNext]_(Service!serviceVars)
    OBVIOUS
  <2>1. ASSUME NEW c \in Conns, Connect(c) \/ Ask(c) \/ Send(c) \/ Hangup(c)
        PROVE  UNCHANGED Service!serviceVars
    BY <2>1 DEF Connect, Ask, Send, Hangup, Asks, listenVars, poolVars, Service!serviceVars
  <2>2. CASE UNCHANGED vars
    BY <2>2 DEF vars, listenVars, poolVars, Service!serviceVars
  <2> QED
    BY <2>1, <2>2, WorkerIsThread, ListenerIsService DEF Next, Over
<1>5. Spec => []ListenInv
  BY <1>2, <1>3, PTL DEF Spec
<1> QED
  BY <1>1, <1>4, <1>5, WebInvariant, ListenLosesNothing, PTL
  DEF Spec, ImplementsHttpService, Service!ServiceSpec

-----------------------------------------------------------------------------
(* Pieces in a row.                                                        *)

\* t is what is left of s without its first k pieces.
IsCut(t, s, k) ==
    /\ k \in 0..Len(s) /\ Len(t) = Len(s) - k
    /\ \A i \in 1..Len(t) : t[i] = s[i + k]

LEMMA CutLater ==
    ASSUME NEW s \in Seq(Piece), NEW t \in Seq(Piece), NEW k, IsCut(t, s, k),
           NEW j \in Nat, NEW n \in Nat, Later(s, j + k, n)
    PROVE  Later(t, j, n)
<1>1. DOMAIN s = 1..Len(s) /\ DOMAIN t = 1..Len(t) /\ Len(s) \in Nat /\ Len(t) \in Nat
  BY LenProperties
<1> SUFFICES ASSUME NEW i \in 1..Len(t), i > j PROVE t[i].n > n
  BY <1>1 DEF Later
<1>2. i + k \in 1..Len(s) /\ i + k > j + k /\ t[i] = s[i + k]
  BY <1>1 DEF IsCut
<1> QED
  BY <1>1, <1>2 DEF Later

\* Reading from the front leaves pieces in order.
LEMMA CutInOrder ==
    ASSUME NEW s \in Seq(Piece), NEW t \in Seq(Piece), NEW k, IsCut(t, s, k),
           NEW m \in Nat, InOrder(s, m)
    PROVE  InOrder(t, m)
<1>1. DOMAIN s = 1..Len(s) /\ DOMAIN t = 1..Len(t) /\ Len(s) \in Nat /\ Len(t) \in Nat /\ k \in Nat
  BY LenProperties DEF IsCut
<1> SUFFICES ASSUME NEW i \in 1..Len(t)
             PROVE  /\ t[i].n <= m
                    /\ t[i].part = "line" => /\ i < Len(t) /\ t[i + 1].req = t[i].req
                                            /\ Later(t, i + 1 + t[i].req.length, t[i].n)
  BY <1>1 DEF InOrder
<1>2. i + k \in DOMAIN s /\ t[i] = s[i + k]
  BY <1>1 DEF IsCut
<1>3. /\ t[i].n <= m
      /\ t[i].part = "line" => /\ i + k < Len(s) /\ s[i + k + 1].req = t[i].req
                              /\ Later(s, i + k + 1 + t[i].req.length, t[i].n)
  BY <1>2 DEF InOrder
<1> SUFFICES ASSUME t[i].part = "line"
             PROVE  i < Len(t) /\ t[i + 1].req = t[i].req
                    /\ Later(t, i + 1 + t[i].req.length, t[i].n)
  BY <1>3
<1>4. i < Len(t)
  BY <1>1, <1>3 DEF IsCut
<1>5. t[i + 1] = s[i + k + 1]
  <2>1. i + 1 \in 1..Len(t) /\ i + 1 + k = i + k + 1
    BY <1>1, <1>4
  <2> QED
    BY <2>1 DEF IsCut
<1>6. Later(t, i + 1 + t[i].req.length, t[i].n)
  <2>1. t[i] \in Piece
    BY <1>1
  <2>2. t[i].req.length \in Nat /\ t[i].n \in Nat
    BY <2>1, WebAssumption DEF Piece
  <2>3. i + k + 1 + t[i].req.length = i + 1 + t[i].req.length + k
    BY <1>1, <2>2
  <2>4. i + 1 + t[i].req.length \in Nat
    BY <1>1, <2>2
  <2> QED
    BY <1>3, <2>2, <2>3, <2>4, CutLater
<1> QED
  BY <1>3, <1>4, <1>5, <1>6

\* The pieces of a request, one by one.
LEMMA PiecesFacts ==
    ASSUME NEW k \in Nat, NEW r \in Requests
    PROVE  LET p == Pieces(k, r) IN
           /\ p \in Seq(Piece) /\ Len(p) = 2 + r.length /\ r.length \in Nat
           /\ \A i \in 1..Len(p) : /\ p[i].n = k /\ p[i].req = r
                                   /\ p[i].part = "line" <=> i = 1
<1>1. r.length \in Nat
  BY WebAssumption
<1>2. DOMAIN Pieces(k, r) = 1..(2 + r.length) /\ Pieces(k, r) \in Seq(Piece)
  BY PiecesType DEF Pieces
<1>3. Len(Pieces(k, r)) = 2 + r.length
  BY <1>1, <1>2, LenProperties
<1>4. \A i \in 1..(2 + r.length) :
         /\ Pieces(k, r)[i].n = k /\ Pieces(k, r)[i].req = r
         /\ Pieces(k, r)[i].part = "line" <=> i = 1
  BY DEF Pieces
<1> QED
  BY <1>1, <1>2, <1>3, <1>4

\* One sequence after the other.
LEMMA Joined ==
    ASSUME NEW s \in Seq(Piece), NEW p \in Seq(Piece)
    PROVE  /\ s \o p \in Seq(Piece) /\ Len(s \o p) = Len(s) + Len(p)
           /\ DOMAIN (s \o p) = 1..(Len(s) + Len(p))
           /\ \A i \in 1..(Len(s) + Len(p)) :
                 (s \o p)[i] = IF i <= Len(s) THEN s[i] ELSE p[i - Len(s)]
<1>1. s \o p \in Seq(Piece) /\ Len(s \o p) = Len(s) + Len(p)
  BY ConcatProperties
<1>2. DOMAIN (s \o p) = 1..(Len(s) + Len(p))
  BY <1>1, LenProperties
<1>3. \A i \in 1..(Len(s) + Len(p)) :
         (s \o p)[i] = IF i <= Len(s) THEN s[i] ELSE p[i - Len(s)]
  BY ConcatProperties
<1> QED
  BY <1>1, <1>2, <1>3

\* Both are empty when the one after the other is.
LEMMA NothingLeft ==
    ASSUME NEW s \in Seq(Piece), NEW p \in Seq(Piece), s \o p = <<>>
    PROVE  s = <<>> /\ p = <<>>
<1>1. Len(s \o p) = Len(s) + Len(p) /\ Len(s) \in Nat /\ Len(p) \in Nat
  BY Joined, LenProperties
<1>2. Len(s \o p) = 0
  BY EmptySeq
<1>3. Len(s) = 0 /\ Len(p) = 0
  BY <1>1, <1>2
<1> QED
  BY <1>3, EmptySeq

\* The first piece stays the first.
LEMMA FirstOfJoined ==
    ASSUME NEW s \in Seq(Piece), NEW p \in Seq(Piece), s # <<>>
    PROVE  /\ s \o p # <<>> /\ (s \o p)[1] = s[1] /\ s[1] \in Piece
           /\ 1 \in DOMAIN (s \o p)
<1>1. Len(s) \in Nat \ {0} /\ Len(p) \in Nat
  BY EmptySeq, LenProperties
<1>2. 1 \in 1..(Len(s) + Len(p)) /\ 1 <= Len(s) /\ 1 \in 1..Len(s)
  BY <1>1
<1>3. (s \o p)[1] = s[1] /\ 1 \in DOMAIN (s \o p)
  BY <1>2, Joined
<1>4. s \o p # <<>>
  <2>1. Len(s \o p) # 0
    BY <1>1, Joined
  <2> QED
    BY <2>1, EmptySeq
<1>5. s[1] \in Piece
  BY <1>2, ElementOfSeq
<1> QED
  BY <1>3, <1>4, <1>5

\* What comes before the next request stays as it is.
LEMMA GrowLater ==
    ASSUME NEW s \in Seq(Piece), NEW m \in Nat, NEW r \in Requests,
           NEW j, NEW n \in Nat, n <= m, Later(s, j, n)
    PROVE  Later(s \o Pieces(m + 1, r), j, n)
<1> DEFINE p == Pieces(m + 1, r)
<1>1. /\ p \in Seq(Piece) /\ \A i \in 1..Len(p) : p[i].n = m + 1
      /\ Len(s) \in Nat /\ Len(p) \in Nat /\ DOMAIN s = 1..Len(s)
  <2>1. m + 1 \in Nat
    OBVIOUS
  <2>2. p \in Seq(Piece) /\ \A i \in 1..Len(p) : p[i].n = m + 1
    BY <2>1, PiecesFacts
  <2> HIDE DEF p
  <2> QED
    BY <2>2, LenProperties
<1> HIDE DEF p
<1>2. /\ DOMAIN (s \o p) = 1..(Len(s) + Len(p))
      /\ \A i \in 1..(Len(s) + Len(p)) :
            (s \o p)[i] = IF i <= Len(s) THEN s[i] ELSE p[i - Len(s)]
  BY <1>1, Joined
<1> SUFFICES ASSUME NEW i \in 1..(Len(s) + Len(p)), i > j PROVE (s \o p)[i].n > n
  BY <1>2 DEF Later, p
<1>3. CASE i <= Len(s)
  BY <1>1, <1>2, <1>3 DEF Later
<1>4. CASE i > Len(s)
  <2>1. i - Len(s) \in 1..Len(p) /\ (s \o p)[i] = p[i - Len(s)]
    BY <1>1, <1>2, <1>4
  <2> QED
    BY <1>1, <2>1
<1> QED
  BY <1>1, <1>3, <1>4

\* A request that follows comes in order.
LEMMA GrowInOrder ==
    ASSUME NEW s \in Seq(Piece), NEW m \in Nat, NEW r \in Requests, InOrder(s, m)
    PROVE  InOrder(s \o Pieces(m + 1, r), m + 1)
<1> DEFINE p == Pieces(m + 1, r)
<1>1. /\ p \in Seq(Piece) /\ Len(p) = 2 + r.length /\ r.length \in Nat
      /\ \A i \in 1..Len(p) : /\ p[i].n = m + 1 /\ p[i].req = r
                              /\ p[i].part = "line" <=> i = 1
      /\ Len(s) \in Nat /\ Len(p) \in Nat /\ DOMAIN s = 1..Len(s)
  <2>1. m + 1 \in Nat
    OBVIOUS
  <2>2. /\ p \in Seq(Piece) /\ Len(p) = 2 + r.length /\ r.length \in Nat
        /\ \A i \in 1..Len(p) : /\ p[i].n = m + 1 /\ p[i].req = r
                                /\ p[i].part = "line" <=> i = 1
    BY <2>1, PiecesFacts
  <2> HIDE DEF p
  <2> QED
    BY <2>2, LenProperties
<1>2. \A j, n : n \in Nat /\ n <= m /\ Later(s, j, n) => Later(s \o p, j, n)
  BY GrowLater
<1> HIDE DEF p
<1>3. /\ DOMAIN (s \o p) = 1..(Len(s) + Len(p)) /\ Len(s \o p) = Len(s) + Len(p)
      /\ \A i \in 1..(Len(s) + Len(p)) :
            (s \o p)[i] = IF i <= Len(s) THEN s[i] ELSE p[i - Len(s)]
  BY <1>1, Joined
<1> DEFINE sp == s \o p
<1> HIDE DEF sp
<1> SUFFICES ASSUME NEW i \in 1..(Len(s) + Len(p))
             PROVE  /\ sp[i].n <= m + 1
                    /\ sp[i].part = "line" =>
                          /\ i < Len(sp) /\ sp[i + 1].req = sp[i].req
                          /\ Later(sp, i + 1 + sp[i].req.length, sp[i].n)
  BY <1>3 DEF InOrder, p, sp
<1>4. CASE i <= Len(s)
  <2>1. i \in DOMAIN s /\ sp[i] = s[i]
    BY <1>1, <1>3, <1>4 DEF sp
  <2>2. s[i] \in Piece
    BY <1>1, <2>1
  <2>3. s[i].n \in Nat /\ s[i].n <= m
    BY <2>1, <2>2 DEF InOrder, Piece
  <2>4. ASSUME s[i].part = "line"
        PROVE  /\ i < Len(sp) /\ sp[i + 1].req = sp[i].req
               /\ Later(sp, i + 1 + sp[i].req.length, sp[i].n)
    <3>1. /\ i < Len(s) /\ s[i + 1].req = s[i].req
          /\ Later(s, i + 1 + s[i].req.length, s[i].n)
      BY <2>1, <2>4 DEF InOrder
    <3>2. i + 1 \in 1..(Len(s) + Len(p)) /\ i + 1 <= Len(s) /\ i < Len(sp)
      BY <1>1, <1>3, <3>1 DEF sp
    <3>3. sp[i + 1] = s[i + 1]
      BY <1>3, <3>2 DEF sp
    <3>4. Later(sp, i + 1 + s[i].req.length, s[i].n)
      BY <1>2, <2>3, <3>1 DEF sp
    <3> QED
      BY <2>1, <3>1, <3>2, <3>3, <3>4
  <2> QED
    BY <2>1, <2>3, <2>4
<1>5. CASE i > Len(s)
  <2>1. i - Len(s) \in 1..Len(p) /\ sp[i] = p[i - Len(s)]
    BY <1>1, <1>3, <1>5 DEF sp
  <2>2. sp[i].n = m + 1 /\ sp[i].req = r
    BY <1>1, <2>1
  <2>3. ASSUME sp[i].part = "line"
        PROVE  /\ i < Len(sp) /\ sp[i + 1].req = sp[i].req
               /\ Later(sp, i + 1 + sp[i].req.length, sp[i].n)
    <3>1. i = Len(s) + 1
      BY <1>1, <2>1, <2>3
    <3>2. i + 1 \in 1..(Len(s) + Len(p)) /\ i + 1 - Len(s) = 2 /\ 2 \in 1..Len(p)
          /\ i < Len(sp)
      BY <1>1, <1>3, <3>1 DEF sp
    <3>3. sp[i + 1] = p[2]
      BY <1>1, <1>3, <3>1, <3>2 DEF sp
    <3>4. Later(sp, i + 1 + r.length, m + 1)
      <4>1. \A j \in DOMAIN sp : ~ (j > i + 1 + r.length)
        BY <1>1, <1>3, <3>1 DEF sp
      <4> QED
        BY <4>1 DEF Later
    <3> QED
      BY <1>1, <2>2, <3>2, <3>3, <3>4
  <2> QED
    BY <2>2, <2>3
<1> QED
  BY <1>1, <1>4, <1>5


-----------------------------------------------------------------------------
(* What happens to the pieces of one connection.                           *)

LEMMA StreamType ==
    ASSUME TypeOK, NEW c \in Conns
    PROVE  /\ net[c] \in Seq(Piece) /\ todo[c] \in Seq(Piece) /\ Stream(c) \in Seq(Piece)
           /\ sent[c] \in Nat
BY Joined DEF TypeOK, Stream

\* Reading from what has arrived cuts the front off.
LEMMA CutSub ==
    ASSUME NEW n \in Seq(Piece), NEW i \in 0..Len(n)
    PROVE  LET r == SubSeq(n, i + 1, Len(n)) IN r \in Seq(Piece) /\ IsCut(r, n, i)
<1> DEFINE r == SubSeq(n, i + 1, Len(n))
<1>1. Len(n) \in Nat /\ i \in Nat
  BY LenProperties
<1>2. \A j \in (i + 1)..Len(n) : n[j] \in Piece
  BY <1>1
<1>3. /\ r \in Seq(Piece)
      /\ Len(r) = IF i + 1 <= Len(n) THEN Len(n) - (i + 1) + 1 ELSE 0
      /\ \A j \in 1..(Len(n) - (i + 1) + 1) : r[j] = n[i + 1 + j - 1]
  BY <1>1, <1>2, SubSeqProperties
<1>4. Len(r) = Len(n) - i
  BY <1>1, <1>3
<1>5. ASSUME NEW j \in 1..Len(r) PROVE r[j] = n[j + i]
  <2>1. j \in 1..(Len(n) - (i + 1) + 1) /\ i + 1 + j - 1 = j + i
    BY <1>1, <1>4
  <2> QED
    BY <1>3, <2>1
<1> QED
  BY <1>3, <1>4, <1>5 DEF IsCut

LEMMA CutTail ==
    ASSUME NEW n \in Seq(Piece), n # <<>>
    PROVE  Tail(n) \in Seq(Piece) /\ IsCut(Tail(n), n, 1)
<1>1. /\ Tail(n) \in Seq(Piece) /\ Len(Tail(n)) = Len(n) - 1 /\ Len(n) \in Nat \ {0}
      /\ \A j \in 1..Len(Tail(n)) : Tail(n)[j] = n[j + 1]
  BY HeadTailProperties, EmptySeq
<1> QED
  BY <1>1 DEF IsCut

LEMMA CutJoined ==
    ASSUME NEW n \in Seq(Piece), NEW t \in Seq(Piece), NEW r \in Seq(Piece), NEW i,
           IsCut(r, n, i)
    PROVE  IsCut(r \o t, n \o t, i)
<1>1. Len(n) \in Nat /\ Len(t) \in Nat /\ i \in Nat /\ i <= Len(n)
  BY LenProperties DEF IsCut
<1>2. Len(r) = Len(n) - i /\ \A j \in 1..Len(r) : r[j] = n[j + i]
  BY DEF IsCut
<1>3. /\ Len(r \o t) = Len(r) + Len(t) /\ Len(n \o t) = Len(n) + Len(t)
      /\ \A j \in 1..(Len(r) + Len(t)) : (r \o t)[j] = IF j <= Len(r) THEN r[j] ELSE t[j - Len(r)]
      /\ \A j \in 1..(Len(n) + Len(t)) : (n \o t)[j] = IF j <= Len(n) THEN n[j] ELSE t[j - Len(n)]
  BY Joined
<1>4. ASSUME NEW j \in 1..(Len(r) + Len(t))
      PROVE  (r \o t)[j] = (n \o t)[j + i]
  <2>1. j + i \in 1..(Len(n) + Len(t))
    BY <1>1, <1>2
  <2>2. CASE j <= Len(r)
    <3>1. j \in 1..Len(r) /\ j + i <= Len(n)
      BY <1>1, <1>2, <2>2
    <3> QED
      BY <1>2, <1>3, <2>1, <2>2, <3>1
  <2>3. CASE j > Len(r)
    <3>1. PICK m \in 1..(Len(n) + Len(t)) : m = j + i
      BY <2>1
    <3>2. ~(j <= Len(r)) /\ ~(m <= Len(n)) /\ j - Len(r) = m - Len(n)
      BY <1>1, <1>2, <2>3, <3>1
    <3>3. (n \o t)[m] = t[m - Len(n)]
      BY <1>3, <3>2
    <3>4. (r \o t)[j] = t[j - Len(r)]
      BY <1>3, <3>2
    <3> QED
      BY <3>1, <3>2, <3>3, <3>4
  <2> QED
    BY <1>1, <1>2, <2>2, <2>3
<1>5. i \in 0..(Len(n) + Len(t)) /\ Len(r) + Len(t) = Len(n) + Len(t) - i
  BY <1>1, <1>2
<1> QED
  BY <1>3, <1>4, <1>5 DEF IsCut

\* A piece on its way is the same piece.
LEMMA SendKeeps ==
    ASSUME NEW n \in Seq(Piece), NEW t \in Seq(Piece), t # <<>>
    PROVE  Append(n, Head(t)) \o Tail(t) = n \o t
<1>1. /\ Head(t) \in Piece /\ Tail(t) \in Seq(Piece) /\ Len(Tail(t)) = Len(t) - 1
      /\ Head(t) = t[1] /\ Len(n) \in Nat /\ Len(t) \in Nat /\ Len(t) > 0
      /\ \A j \in 1..Len(Tail(t)) : Tail(t)[j] = t[j + 1]
  BY HeadTailProperties, LenProperties, EmptySeq
<1> DEFINE a == Append(n, Head(t))
           b == Tail(t)
<1>2. /\ a \in Seq(Piece) /\ Len(a) = Len(n) + 1 /\ a[Len(n) + 1] = t[1]
      /\ \A j \in 1..Len(n) : a[j] = n[j]
  BY <1>1, AppendProperties
<1> HIDE DEF a, b
<1>3. b \in Seq(Piece) /\ Len(b) = Len(t) - 1 /\ \A j \in 1..Len(b) : b[j] = t[j + 1]
  BY <1>1 DEF b
<1>4. /\ DOMAIN (a \o b) = 1..(Len(a) + Len(b)) /\ DOMAIN (n \o t) = 1..(Len(n) + Len(t))
      /\ \A j \in 1..(Len(a) + Len(b)) : (a \o b)[j] = IF j <= Len(a) THEN a[j] ELSE b[j - Len(a)]
      /\ \A j \in 1..(Len(n) + Len(t)) : (n \o t)[j] = IF j <= Len(n) THEN n[j] ELSE t[j - Len(n)]
      /\ a \o b \in Seq(Piece) /\ n \o t \in Seq(Piece)
      /\ Len(a \o b) = Len(a) + Len(b) /\ Len(n \o t) = Len(n) + Len(t)
  BY <1>2, <1>3, Joined
<1>5. Len(a) + Len(b) = Len(n) + Len(t)
  BY <1>1, <1>2, <1>3
<1>6. ASSUME NEW j \in 1..(Len(n) + Len(t))
      PROVE  (a \o b)[j] = (n \o t)[j]
  <2>1. CASE j <= Len(n)
    BY <1>1, <1>2, <1>4, <1>5, <2>1
  <2>2. CASE j = Len(n) + 1
    <3>1. j <= Len(a) /\ ~(j <= Len(n)) /\ j - Len(n) = 1
      BY <1>1, <1>2, <2>2
    <3> QED
      BY <1>2, <1>4, <1>5, <2>2, <3>1
  <2>3. CASE j > Len(n) + 1
    <3>1. /\ ~(j <= Len(a)) /\ ~(j <= Len(n)) /\ j - Len(a) + 1 = j - Len(n)
          /\ j - Len(a) \in 1..Len(b)
      BY <1>1, <1>2, <1>3, <2>3
    <3> QED
      BY <1>3, <1>4, <1>5, <3>1
  <2>4. j \in Nat /\ (j <= Len(n) \/ j = Len(n) + 1 \/ j > Len(n) + 1)
    BY <1>1
  <2> QED
    BY <2>1, <2>2, <2>3, <2>4
<1> QED
  BY <1>4, <1>5, <1>6 DEF a, b

\* Between the client and the worker nothing changes, or the client begins a request.
Keeps(c) == Stream(c)' = Stream(c) /\ sent'[c] = sent[c]

Grows(c) ==
    /\ \E r \in Requests : Stream(c)' = Stream(c) \o Pieces(sent[c] + 1, r)
    /\ sent'[c] = sent[c] + 1
    /\ sent[c] <= Len(answers[c]) \/ conn[c] = "new"
    /\ conn'[c] # "new"

LEMMA ClientSteps ==
    ASSUME TypeOK, StreamInv, NEW d \in Conns,
           Connect(d) \/ Ask(d) \/ Send(d) \/ Hangup(d)
    PROVE  /\ UNCHANGED <<at, fn, worker, taken, jobs_, answers>>
           /\ \A c \in Conns : Keeps(c) \/ Grows(c)
<1>1. UNCHANGED <<at, fn, worker, taken, jobs_, answers>>
  BY DEF Connect, Ask, Send, Hangup, Asks, poolVars
<1>2. ASSUME NEW c \in Conns, c # d
      PROVE  Keeps(c)
  <2>1. UNCHANGED <<net[c], todo[c], sent[c]>>
    BY <1>2 DEF Connect, Ask, Send, Hangup, Asks, TypeOK
  <2> QED
    BY <2>1 DEF Keeps, Stream
<1>3. net[d] \in Seq(Piece) /\ todo[d] \in Seq(Piece)
  BY StreamType
<1> SUFFICES Keeps(d) \/ Grows(d)
  BY <1>1, <1>2
<1>4. CASE Hangup(d)
  BY <1>4 DEF Hangup, Keeps, Stream
<1>5. CASE Send(d)
  <2>1. /\ todo[d] # <<>> /\ net'[d] = Append(net[d], Head(todo[d])) /\ todo'[d] = Tail(todo[d])
        /\ sent'[d] = sent[d]
    BY <1>5 DEF Send, TypeOK
  <2> QED
    BY <1>3, <2>1, SendKeeps DEF Keeps, Stream
<1>6. CASE Connect(d) \/ Ask(d)
  <2>1. todo[d] = <<>>
    <3>1. CASE Connect(d)
      <4>1. net[d] \o todo[d] = <<>>
        BY <3>1 DEF Connect, StreamInv, Stream
      <4> QED
        BY <1>3, <4>1, NothingLeft
    <3> QED
      BY <1>6, <3>1 DEF Ask
  <2>2. Stream(d) = net[d]
    BY <1>3, <2>1 DEF Stream
  <2>3. Asks(d) /\ (sent[d] <= Len(answers[d]) \/ conn[d] = "new") /\ conn'[d] # "new"
    BY <1>6 DEF Connect, Ask, Usable, TypeOK
  <2>4. PICK r \in Requests : todo' = [todo EXCEPT ![d] = Pieces(sent[d] + 1, r)]
    BY <2>3 DEF Asks
  <2>5. /\ todo'[d] = Pieces(sent[d] + 1, r) /\ sent'[d] = sent[d] + 1 /\ net'[d] = net[d]
    BY <2>3, <2>4 DEF Asks, TypeOK
  <2> QED
    BY <2>2, <2>3, <2>5 DEF Grows, Stream
<1> QED
  BY <1>4, <1>5, <1>6

-----------------------------------------------------------------------------
(* Connections and workers a step leaves alone.                            *)

\* What ReadInv and MatchInv say of one worker, and of one connection that waits.
ReadsRight(w) ==
    /\ at[w].bad => Is(w, "write")
    /\ at[w].step \in InRequest /\ ~at[w].bad =>
          /\ at[w].n <= sent[fn[w]]
          /\ Stream(fn[w]) # <<>> => Later(Stream(fn[w]), Unread(w), at[w].n)

Fits(w) ==
    worker[w] = "run" /\ Clean(fn[w]) =>
        /\ at[w].step \in {"alive", "line"} => Agrees(fn[w])
        /\ at[w].step \in InRequest => /\ sent[fn[w]] = Len(answers[fn[w]]) + 1
                                      /\ at[w].n = sent[fn[w]]

StreamsInv == WebInv /\ StreamInv /\ ReadInv /\ MatchInv

LEMMA Parts ==
    /\ ReadInv <=> \A w \in Workers : ReadsRight(w)
    /\ MatchInv <=> /\ \A c \in Conns : c \in Range(jobs_) \/ conn[c] \in {"new", "backlog"} =>
                           (Clean(c) => Agrees(c))
                    /\ \A w \in Workers : Fits(w)
BY DEF ReadInv, MatchInv, ReadsRight, Fits

\* Client and server go on to agree when the client alone does something.
LEMMA AgreesKept ==
    ASSUME TypeOK, StreamInv, NEW c \in Conns, Keeps(c) \/ Grows(c),
           answers'[c] = answers[c], Clean(c) => Agrees(c)
    PROVE  Clean(c)' => Agrees(c)'
<1> SUFFICES ASSUME Clean(c)' PROVE Agrees(c)'
  OBVIOUS
<1>1. Agrees(c)
  BY DEF Clean
<1>2. CASE Keeps(c)
  BY <1>1, <1>2 DEF Keeps, Agrees
<1>3. CASE Grows(c)
  <2>1. sent[c] \in Nat /\ Len(answers[c]) \in Nat /\ answers[c] \in Seq(Answers)
    BY LenProperties DEF TypeOK
  <2>2. Stream(c) = <<>> /\ sent[c] = Len(answers[c])
    BY <1>1, <1>3, <2>1 DEF Grows, Agrees, StreamInv
  <2>3. PICK r \in Requests : Stream(c)' = Stream(c) \o Pieces(sent[c] + 1, r)
    BY <1>3 DEF Grows
  <2> DEFINE p == Pieces(sent[c] + 1, r)
  <2>4. /\ p \in Seq(Piece) /\ Len(p) = 2 + r.length /\ r.length \in Nat
        /\ p[1].n = sent[c] + 1 /\ p[1].part = "line"
    <3>1. sent[c] + 1 \in Nat
      BY <2>1
    <3>2. /\ p \in Seq(Piece) /\ Len(p) = 2 + r.length /\ r.length \in Nat
          /\ \A i \in 1..Len(p) : p[i].n = sent[c] + 1 /\ (p[i].part = "line" <=> i = 1)
      BY <3>1, PiecesFacts
    <3>3. 1 \in 1..Len(p)
      BY <3>2
    <3> QED
      BY <3>2, <3>3
  <2>5. Stream(c)' = p
    BY <2>2, <2>3, <2>4, ConcatEmptySeq
  <2>6. p # <<>>
    BY <2>4, EmptySeq
  <2>7. sent'[c] = sent[c] + 1
    BY <1>3 DEF Grows
  <2> HIDE DEF p
  <2> QED
    BY <2>1, <2>2, <2>4, <2>5, <2>6, <2>7 DEF Agrees
<1> QED
  BY <1>2, <1>3

\* And a worker that does nothing is where it should be.
LEMMA WorkerKept ==
    ASSUME StreamsInv, TypeOK', NEW v \in Workers, at'[v] = at[v],
           worker'[v] = "run" => /\ worker[v] = "run" /\ fn'[v] = fn[v]
                                 /\ Keeps(fn[v]) \/ Grows(fn[v])
                                 /\ answers'[fn[v]] = answers[fn[v]]
    PROVE  ReadsRight(v)' /\ Fits(v)'
<1> USE DEF StreamsInv, WebInv
<1>1. CASE worker'[v] # "run"
  <2>1. at'[v].step = "none"
    BY <1>1 DEF TypeOK
  <2> QED
    BY <1>1, <2>1, Parts DEF ReadsRight, Fits, Is, InRequest, Asked
<1>2. CASE worker'[v] = "run"
  <2>1. /\ worker[v] = "run" /\ fn'[v] = fn[v] /\ fn[v] \in Conns /\ fn[v] \in Range(taken)
        /\ Keeps(fn[v]) \/ Grows(fn[v])
        /\ answers'[fn[v]] = answers[fn[v]]
    BY <1>2 DEF TasksRunOnce, TypeOK, PoolTypeOK, Conns
  <2> DEFINE c == fn[v]
  <2>2. /\ Stream(c) \in Seq(Piece) /\ sent[c] \in Nat /\ at[v] \in Places
        /\ at[v].n \in Nat /\ Len(answers[c]) \in Nat
    BY <2>1, StreamType, LenProperties DEF TypeOK, Places
  <2>3. conn[c] # "new"
    BY <2>1, TakenOnce DEF WorkInv, TypeOK
  <2>4. ReadsRight(v) /\ Fits(v)
    BY Parts
  <2>5. CASE Keeps(c)
    <3>1. Fits(v)'
      BY <2>1, <2>4, <2>5 DEF Keeps, Fits, Clean, Agrees
    <3>2. Unread(v)' = Unread(v)
      BY <2>1, <2>5 DEF Keeps, Unread, Is
    <3>3. ReadsRight(v)'
      BY <2>1, <2>4, <2>5, <3>2 DEF Keeps, ReadsRight, Is
    <3> QED
      BY <3>1, <3>3
  <2>6. CASE Grows(c)
    <3>1. Fits(v)'
      <4>1. Clean(c)' => Clean(c)
        BY <2>1 DEF Clean
      <4>2. Clean(c)' /\ at[v].step \in {"alive", "line"} => Agrees(c)'
        BY <2>1, <2>4, <2>6, <4>1, AgreesKept DEF Fits
      <4>3. ~(Clean(c) /\ at[v].step \in InRequest)
        BY <2>1, <2>2, <2>3, <2>4, <2>6 DEF Fits, Grows
      <4> QED
        BY <2>1, <4>1, <4>2, <4>3 DEF Fits
    <3>2. PICK r \in Requests : Stream(c)' = Stream(c) \o Pieces(sent[c] + 1, r)
      BY <2>6 DEF Grows
    <3> DEFINE s == Stream(c)
               p == Pieces(sent[c] + 1, r)
    <3>3. ASSUME at[v].step \in InRequest, ~at[v].bad
          PROVE  at[v].n <= sent'[c] /\ Later(s \o p, Unread(v)', at[v].n)
      <4>1. at[v].n <= sent[c] /\ sent'[c] = sent[c] + 1
        BY <2>4, <2>6, <3>3 DEF ReadsRight, Grows
      <4>2. CASE s = <<>>
        <5>1. Later(s, Unread(v)', at[v].n)
          BY <4>2 DEF Later
        <5> QED
          BY <2>2, <4>1, <5>1, GrowLater
      <4>3. CASE s # <<>>
        <5>1. Later(s, Unread(v), at[v].n)
          BY <2>4, <3>3, <4>3 DEF ReadsRight
        <5>2. Unread(v)' = Unread(v)
          <6>1. sent[c] + 1 \in Nat
            BY <2>2
          <6>2. p \in Seq(Piece)
            BY <6>1, PiecesFacts
          <6>3. (s \o p)[1] = s[1]
            BY <2>2, <4>3, <6>2, FirstOfJoined
          <6> QED
            BY <2>1, <3>2, <6>3 DEF Unread, Is
        <5> QED
          BY <2>2, <4>1, <5>1, <5>2, GrowLater
      <4> QED
        BY <2>2, <4>1, <4>2, <4>3
    <3>4. ReadsRight(v)'
      BY <2>1, <2>4, <3>2, <3>3 DEF ReadsRight, Is
    <3> QED
      BY <3>1, <3>4
  <2> QED
    BY <2>1, <2>5, <2>6
<1> QED
  BY <1>1, <1>2

\* Pieces in order stay in order.
LEMMA OrderKept ==
    ASSUME TypeOK, StreamInv, NEW c \in Conns, conn'[c] = "new" => conn[c] = "new",
           Keeps(c) \/ Grows(c)
    PROVE  (conn'[c] = "new" => Stream(c)' = <<>>) /\ InOrder(Stream(c)', sent'[c])
<1>1. CASE Keeps(c)
  BY <1>1 DEF Keeps, StreamInv
<1>2. CASE Grows(c)
  <2>1. PICK r \in Requests : Stream(c)' = Stream(c) \o Pieces(sent[c] + 1, r)
    BY <1>2 DEF Grows
  <2>2. InOrder(Stream(c) \o Pieces(sent[c] + 1, r), sent[c] + 1)
    BY StreamType, GrowInOrder DEF StreamInv
  <2> QED
    BY <1>2, <2>1, <2>2 DEF Grows
<1> QED
  BY <1>1, <1>2

\* No connection becomes new.
LEMMA NewIsNew ==
    ASSUME TypeOK, [Next]_vars, NEW c \in Conns, conn'[c] = "new"
    PROVE  conn[c] = "new"
<1> USE DEF TypeOK
<1>1. CASE Listen
  BY <1>1 DEF Listen, Accept, AcceptFails, Drain, Refused
<1>2. ASSUME NEW w \in Workers, Pool(w) \/ Begin(w) \/ Handle(w) \/ Stop(w) \/ Write(w) \/ Close(w)
      PROVE  conn[c] = "new"
  BY <1>2 DEF Pool, Begin, Handle, Stop, Write, Close, Refused
<1>3. ASSUME NEW w \in Workers, Alive(w) \/ Line(w) \/ Headers(w) \/ Body(w)
      PROVE  UNCHANGED conn
  BY <1>3 DEF Alive, Line, Headers, Body, Route, ReadContent, Goto, Fails, Goes
<1>4. ASSUME NEW d \in Conns, Connect(d) \/ Ask(d) \/ Send(d) \/ Hangup(d)
      PROVE  conn[c] = "new"
  BY <1>4 DEF Connect, Ask, Send, Hangup
<1>5. CASE UNCHANGED vars
  BY <1>5 DEF vars
<1> QED
  BY <1>1, <1>2, <1>3, <1>4, <1>5 DEF Next, Over, Serve

\* A step is right when it is right for the workers W that make it and for the
\* connections C that those serve.
LEMMA StepKeeps ==
    ASSUME StreamsInv, WebInv', [Next]_vars, NEW W \in SUBSET Workers, NEW C \in SUBSET Conns,
           \A c \in Conns \ C : (Keeps(c) \/ Grows(c)) /\ answers'[c] = answers[c],
           \A c \in C : c \in Range(taken) /\ InOrder(Stream(c)', sent'[c]),
           \A v \in Workers \ W : /\ at'[v] = at[v]
                                  /\ worker'[v] = "run" => /\ worker[v] = "run" /\ fn'[v] = fn[v]
                                                           /\ fn[v] \notin C,
           \A v \in W : ReadsRight(v)' /\ Fits(v)'
    PROVE  StreamsInv'
<1> USE DEF StreamsInv, WebInv
<1>1. ASSUME NEW c \in Conns, c \in Range(jobs_') \/ conn'[c] \in {"new", "backlog"}
      PROVE  c \notin C /\ (c \in Range(jobs_) \/ conn[c] \in {"new", "backlog"})
  <2>1. c \in Range(jobs_) \/ conn[c] \in {"new", "backlog"}
    BY <1>1, QueueSteps, ConnSteps
  <2>2. c \notin Range(taken)
    BY <2>1, TakenOnce DEF WorkInv, TypeOK
  <2> QED
    BY <2>1, <2>2
<1>2. ASSUME NEW c \in Conns, c \in Range(jobs_') \/ conn'[c] \in {"new", "backlog"}
      PROVE  Clean(c)' => Agrees(c)'
  <2>1. c \notin C /\ (Clean(c) => Agrees(c))
    BY <1>1, <1>2, Parts
  <2> QED
    BY <2>1, AgreesKept
<1>3. ASSUME NEW c \in Conns
      PROVE  (conn'[c] = "new" => Stream(c)' = <<>>) /\ InOrder(Stream(c)', sent'[c])
  <2>1. conn'[c] = "new" => conn[c] = "new"
    BY NewIsNew
  <2>2. CASE c \in C
    BY <1>1, <1>3, <2>2
  <2>3. CASE c \notin C
    BY <2>1, <2>3, OrderKept
  <2> QED
    BY <2>2, <2>3
<1>4. ASSUME NEW v \in Workers
      PROVE  ReadsRight(v)' /\ Fits(v)'
  <2>1. CASE v \in W
    BY <2>1
  <2>2. CASE v \notin W
    <3>1. ASSUME worker'[v] = "run"
          PROVE  /\ worker[v] = "run" /\ fn'[v] = fn[v]
                 /\ Keeps(fn[v]) \/ Grows(fn[v])
                 /\ answers'[fn[v]] = answers[fn[v]]
      <4>1. worker[v] = "run" /\ fn'[v] = fn[v] /\ fn[v] \notin C
        BY <2>2, <3>1
      <4>2. fn[v] \in Conns
        BY <4>1 DEF TasksRunOnce, TypeOK, PoolTypeOK, Conns
      <4> QED
        BY <4>1, <4>2
    <3> QED
      BY <2>2, <3>1, WorkerKept
  <2> QED
    BY <2>1, <2>2
<1>5. StreamInv'
  BY <1>3 DEF StreamInv
<1>6. ReadInv' /\ MatchInv'
  <2>1. ReadInv'
    BY <1>4 DEF ReadInv, ReadsRight
  <2>2. MatchInv'
    BY <1>2, <1>4 DEF MatchInv, Fits
  <2> QED
    BY <2>1, <2>2
<1> QED
  BY <1>5, <1>6

\* A worker serves its own connection, and no other.
LEMMA ServesOwn ==
    ASSUME StreamsInv, NEW w \in Workers,
           \/ Alive(w) \/ Line(w) \/ Headers(w) \/ Body(w)
           \/ Handle(w) \/ Stop(w) \/ Write(w) \/ Close(w)
    PROVE  /\ worker[w] = "run" /\ fn[w] \in Conns /\ fn[w] \in Range(taken)
           /\ \A c \in Conns \ {fn[w]} : Keeps(c) /\ answers'[c] = answers[c]
           /\ \A v \in Workers \ {w} :
                 /\ at'[v] = at[v]
                 /\ worker'[v] = "run" => /\ worker[v] = "run" /\ fn'[v] = fn[v]
                                          /\ fn[v] # fn[w]
<1> USE DEF StreamsInv, WebInv
<1>1. worker[w] = "run" /\ fn[w] \in Conns /\ fn[w] \in Range(taken)
  <2>1. worker[w] = "run"
    BY DEF Alive, Line, Headers, Body, Handle, Stop, Write, Close, Is, TypeOK
  <2> QED
    BY <2>1 DEF TasksRunOnce, TypeOK, PoolTypeOK, Conns
<1>2. CASE Alive(w) \/ Line(w) \/ Headers(w) \/ Body(w)
  <2> PICK p : Goes(w, p)
    BY <1>2, Reading DEF Further
  <2>1. \A c \in Conns \ {fn[w]} : net'[c] = net[c]
    BY <1>2 DEF Alive, Line, Headers, Body, Reads, NoMore, TypeOK
  <2>2. UNCHANGED <<sent, todo, answers, worker, fn>> /\ \A v \in Workers \ {w} : at'[v] = at[v]
    BY DEF Goes, poolVars, clientVars, TypeOK
  <2>3. \A c \in Conns \ {fn[w]} : Keeps(c) /\ answers'[c] = answers[c]
    BY <2>1, <2>2 DEF Keeps, Stream
  <2>4. \A v \in Workers \ {w} : worker'[v] = "run" => fn[v] # fn[w]
    BY <1>1, <2>2 DEF TasksRunOnce
  <2> QED
    BY <1>1, <2>2, <2>3, <2>4
<1>3. CASE Handle(w) \/ Stop(w) \/ Write(w)
  <2>1. UNCHANGED <<sent, todo, net, worker, fn>> /\ \A v \in Workers \ {w} : at'[v] = at[v]
    BY <1>3 DEF Handle, Stop, Write, poolVars, clientVars, TypeOK
  <2>2. \A c \in Conns \ {fn[w]} : answers'[c] = answers[c]
    BY <1>3 DEF Handle, Stop, Write, TypeOK
  <2>3. \A c \in Conns : Keeps(c)
    BY <2>1 DEF Keeps, Stream
  <2>4. \A v \in Workers \ {w} : worker'[v] = "run" => fn[v] # fn[w]
    BY <1>1, <2>1 DEF TasksRunOnce
  <2> QED
    BY <1>1, <2>1, <2>2, <2>3, <2>4
<1>4. CASE Close(w)
  <2>1. /\ UNCHANGED <<sent, answers>>
        /\ \A v \in Workers \ {w} : at'[v] = at[v] /\ worker'[v] = worker[v] /\ fn'[v] = fn[v]
        /\ \A c \in Conns \ {fn[w]} : net'[c] = net[c] /\ todo'[c] = todo[c]
    BY <1>4 DEF Close, Returns, TypeOK, PoolTypeOK
  <2>2. \A c \in Conns \ {fn[w]} : Keeps(c)
    BY <2>1 DEF Keeps, Stream
  <2>3. \A v \in Workers \ {w} : worker'[v] = "run" => fn[v] # fn[w]
    BY <1>1, <2>1 DEF TasksRunOnce
  <2> QED
    BY <1>1, <2>1, <2>2, <2>3
<1> QED
  BY <1>2, <1>3, <1>4

-----------------------------------------------------------------------------
(* What a worker reads.                                                    *)


\* It takes the first i pieces that have come.
LEMMA ReadCuts ==
    ASSUME TypeOK, NEW c \in Conns, net[c] # <<>>, NEW r \in Seq(Piece), NEW i,
           IsCut(r, net[c], i), net' = [net EXCEPT ![c] = r], UNCHANGED todo
    PROVE  /\ Stream(c)' \in Seq(Piece) /\ IsCut(Stream(c)', Stream(c), i)
           /\ Stream(c) # <<>> /\ 1 \in DOMAIN Stream(c)
           /\ Stream(c)[1] = net[c][1] /\ Stream(c)[1] \in Piece
<1>1. net[c] \in Seq(Piece) /\ todo[c] \in Seq(Piece)
  BY StreamType
<1>2. Stream(c)' = r \o todo[c] /\ Stream(c) = net[c] \o todo[c]
  BY DEF TypeOK, Stream
<1>3. r \o todo[c] \in Seq(Piece) /\ IsCut(r \o todo[c], net[c] \o todo[c], i)
  BY <1>1, CutJoined, Joined
<1>4. LET s == net[c] \o todo[c]
      IN  s # <<>> /\ 1 \in DOMAIN s /\ s[1] = net[c][1] /\ net[c][1] \in Piece
  BY <1>1, FirstOfJoined
<1> QED
  BY <1>2, <1>3, <1>4

LEMMA ReadsFirst ==
    ASSUME TypeOK, NEW c \in Conns, Reads(c), UNCHANGED todo
    PROVE  /\ Stream(c)' \in Seq(Piece) /\ IsCut(Stream(c)', Stream(c), 1)
           /\ Stream(c) # <<>> /\ 1 \in DOMAIN Stream(c)
           /\ Stream(c)[1] = net[c][1] /\ Stream(c)[1] \in Piece
<1>1. net[c] \in Seq(Piece) /\ net[c] # <<>> /\ net' = [net EXCEPT ![c] = Tail(@)]
  BY StreamType DEF Reads
<1> QED
  BY <1>1, CutTail, ReadCuts

\* Without the first piece, one piece less is to come.
LEMMA OneLess ==
    ASSUME NEW s \in Seq(Piece), NEW t \in Seq(Piece), IsCut(t, s, 1),
           NEW k \in Nat, NEW j, j = k + 1, NEW n \in Nat, Later(s, j, n)
    PROVE  Later(t, k, n)
BY CutLater

\* What is to be shown of the worker that makes a step, and of its connection.
Right(w, c) == ReadsRight(w)' /\ Fits(w)' /\ InOrder(Stream(c)', sent'[c])

LEMMA StillInOrder ==
    ASSUME StreamsInv, NEW c \in Conns, UNCHANGED sent,
           \/ Stream(c)' = Stream(c)
           \/ Stream(c)' \in Seq(Piece) /\ \E k : IsCut(Stream(c)', Stream(c), k)
    PROVE  InOrder(Stream(c)', sent'[c])
<1>1. InOrder(Stream(c), sent[c]) /\ sent[c] \in Nat /\ Stream(c) \in Seq(Piece)
  BY StreamType DEF StreamsInv, WebInv, StreamInv
<1>2. ASSUME NEW k, Stream(c)' \in Seq(Piece), IsCut(Stream(c)', Stream(c), k)
      PROVE  InOrder(Stream(c)', sent[c])
  BY <1>1, <1>2, CutInOrder
<1> QED
  BY <1>1, <1>2

\* A worker that reads or waits, or answers 400.
LEMMA GoesRight ==
    ASSUME StreamsInv, NEW w \in Workers, NEW c \in Conns, c = fn[w], NEW p, Goes(w, p),
           \/ Stream(c)' = Stream(c)
           \/ Stream(c)' \in Seq(Piece) /\ \E k : IsCut(Stream(c)', Stream(c), k),
           p.bad => p.step = "write",
           p.step \in InRequest /\ ~p.bad =>
              /\ p.n <= sent[c]
              /\ Stream(c)' # <<>> => Later(Stream(c)', Unread(w)', p.n),
           Clean(c) =>
              /\ p.step \in {"alive", "line"} => Agrees(c)'
              /\ p.step \in InRequest => sent[c] = Len(answers[c]) + 1 /\ p.n = sent[c]
    PROVE  Right(w, c)
<1>1. /\ at'[w] = p /\ fn'[w] = c /\ UNCHANGED <<worker, sent, answers>>
  BY DEF StreamsInv, WebInv, Goes, TypeOK, poolVars, clientVars
<1>2. ReadsRight(w)'
  BY <1>1 DEF ReadsRight, Is
<1>3. Fits(w)'
  BY <1>1 DEF Fits, Clean
<1> QED
  BY <1>1, <1>2, <1>3, StillInOrder DEF Right

\* keep_alive
LEMMA AliveRight ==
    ASSUME StreamsInv, NEW w \in Workers, NEW c \in Conns, c = fn[w], worker[w] = "run",
           Alive(w)
    PROVE  Right(w, c)
<1>1. UNCHANGED <<sent, answers, net, todo>>
  BY DEF Alive, Goto, Goes, clientVars
<1>2. Stream(c)' = Stream(c)
  BY <1>1 DEF Stream
<1>3. PICK s \in {"line", "close"} : Goes(w, [at[w] EXCEPT !.step = s])
  BY DEF Alive, Goto
<1> DEFINE p == [at[w] EXCEPT !.step = s]
<1>4. at[w] \in Places /\ at[w].step = "alive" /\ ~at[w].bad
  BY Parts DEF StreamsInv, WebInv, TypeOK, Alive, Is, ReadsRight
<1>5. p.step = s /\ ~p.bad
  BY <1>4 DEF Places
<1>6. Clean(c) => Agrees(c)
  BY <1>4, Parts DEF StreamsInv, Fits
<1>7. Clean(c) => Agrees(c)'
  BY <1>1, <1>2, <1>6 DEF Agrees
<1> HIDE DEF p
<1> QED
  BY <1>2, <1>3, <1>5, <1>7, GoesRight DEF InRequest, Asked, p

\* The request line: while the two agree, it is there, or nothing is.
LEMMA LineRight ==
    ASSUME StreamsInv, NEW w \in Workers, NEW c \in Conns, c = fn[w], worker[w] = "run",
           Line(w)
    PROVE  Right(w, c)
<1> USE DEF StreamsInv, WebInv
<1>1. at[w] \in Places /\ at[w].step = "line" /\ ~at[w].bad
  BY Parts DEF TypeOK, Line, Is, ReadsRight
<1>2. Clean(c) => Agrees(c)
  BY <1>1, Parts DEF Fits
<1>3. Stream(c) \in Seq(Piece) /\ net[c] \in Seq(Piece) /\ sent[c] \in Nat
  BY StreamType
<1>4. DOMAIN net[c] = 1..Len(net[c]) /\ Len(net[c]) \in Nat
  BY <1>3, LenProperties
<1>5. CASE Goto(w, "close") /\ UNCHANGED net
  <2> DEFINE p == [at[w] EXCEPT !.step = "close"]
  <2>1. Goes(w, p) /\ p.step = "close" /\ ~p.bad
    BY <1>1, <1>5 DEF Goto, Places
  <2>2. UNCHANGED <<net, todo>>
    BY <1>5 DEF Goto, Goes, clientVars
  <2>3. Stream(c)' = Stream(c)
    BY <2>2 DEF Stream
  <2> HIDE DEF p
  <2> QED
    BY <2>1, <2>3, GoesRight DEF InRequest, Asked
<1>6. CASE /\ Broken(c) /\ UNCHANGED net
           /\ Goes(w, [at[w] EXCEPT !.step = "write", !.bad = TRUE, !.n = Head(todo[c]).n])
  <2> DEFINE p == [at[w] EXCEPT !.step = "write", !.bad = TRUE, !.n = Head(todo[c]).n]
  <2>1. Goes(w, p) /\ p.step = "write" /\ p.bad /\ p.n = Head(todo[c]).n
    BY <1>1, <1>6 DEF Places
  <2>2. UNCHANGED <<net, todo>>
    BY <1>6 DEF Goes, clientVars
  <2>3. Stream(c)' = Stream(c)
    BY <2>2 DEF Stream
  <2>4. todo[c] \in Seq(Piece) /\ todo[c] # <<>> /\ net[c] = <<>>
    BY <1>6, StreamType DEF Broken
  <2>5. Stream(c) = todo[c]
    BY <2>4 DEF Stream
  <2>6. Clean(c) => sent[c] = Len(answers[c]) + 1 /\ p.n = sent[c]
    BY <1>2, <2>1, <2>4, <2>5 DEF Agrees
  <2> HIDE DEF p
  <2> QED
    BY <2>1, <2>3, <2>6, GoesRight
<1>7. ASSUME NEW i \in LineEnds(c), NEW k \in Gone(c, i),
             net' = [net EXCEPT ![c] = SubSeq(@, k + 1, Len(@))],
             IF i = 1 /\ IsRequestLine(net[c][1])
             THEN Goes(w, [at[w] EXCEPT !.step = "headers", !.n = net[c][1].n])
             ELSE Fails(w)
      PROVE  Right(w, c)
  <2>1. i \in DOMAIN net[c]
    BY <1>4 DEF LineEnds
  <2>2. UNCHANGED todo
    BY <1>7 DEF Goes, Fails, clientVars
  <2> DEFINE cut == SubSeq(net[c], k + 1, Len(net[c]))
             s == Stream(c)
  <2>3. cut \in Seq(Piece) /\ IsCut(cut, net[c], k)
    <3>1. k \in 0..Len(net[c])
      BY <1>4, <2>1 DEF Gone
    <3> QED
      BY <1>3, <3>1, CutSub
  <2>4. net[c] # <<>> /\ net' = [net EXCEPT ![c] = cut]
    BY <1>4, <1>7, <2>1, EmptySeq
  <2> HIDE DEF cut
  <2>5. /\ Stream(c)' \in Seq(Piece) /\ IsCut(Stream(c)', Stream(c), k)
        /\ Stream(c) # <<>> /\ 1 \in DOMAIN Stream(c)
        /\ Stream(c)[1] = net[c][1] /\ Stream(c)[1] \in Piece
    BY <2>2, <2>3, <2>4, ReadCuts
  <2>6. CASE i = 1 /\ IsRequestLine(net[c][1])
    <3>0. k = 1
      BY <2>6 DEF Gone, IsRequestLine
    <3> DEFINE p == [at[w] EXCEPT !.step = "headers", !.n = net[c][1].n]
    <3>1. Goes(w, p) /\ p.step = "headers" /\ ~p.bad /\ p.n = Stream(c)[1].n
      BY <1>1, <1>7, <2>5, <2>6 DEF Places
    <3>2. PICK r : r = Stream(c)[1].req
      OBVIOUS
    <3>3. PICK n : n = Stream(c)[1].n
      OBVIOUS
    <3>4. r.length \in Nat /\ n \in Nat
      BY <2>5, <3>2, <3>3, WebAssumption DEF Piece
    <3>5. /\ Stream(c)[1].part = "line" /\ n <= sent[c]
          /\ 1 < Len(Stream(c)) /\ Stream(c)[1 + 1].req = r
          /\ Later(Stream(c), 1 + 1 + r.length, n)
      BY <2>5, <2>6, <3>2, <3>3 DEF StreamInv, InOrder, IsRequestLine
    <3>6. Stream(c)'[1] = Stream(c)[1 + 1]
      <4>1. Len(Stream(c)) \in Nat /\ Len(Stream(c)') \in Nat
        BY <1>3, <2>5, LenProperties
      <4>2. 1 \in 1..Len(Stream(c)')
        BY <2>5, <3>5, <3>0, <4>1 DEF IsCut
      <4> QED
        BY <2>5, <3>0, <4>2 DEF IsCut
    <3>7. Unread(w)' = 1 + r.length
      <4>1. at'[w].step = "headers" /\ fn'[w] = c
        BY <3>1 DEF Goes, poolVars, TypeOK
      <4> QED
        BY <3>5, <3>6, <4>1 DEF Unread, Is
    <3>8. Later(Stream(c)', 1 + r.length, n)
      <4>1. 1 + 1 + r.length = 1 + r.length + 1 /\ 1 + r.length \in Nat
        BY <3>4
      <4> QED
        BY <1>3, <2>5, <3>4, <3>5, <3>0, <4>1, OneLess
    <3>9. Clean(c) => sent[c] = Len(answers[c]) + 1 /\ n = sent[c]
      BY <1>2, <2>5, <3>3 DEF Agrees
    <3> HIDE DEF p
    <3> QED
      BY <2>5, <3>1, <3>3, <3>5, <3>7, <3>8, <3>9, GoesRight
  <2>7. CASE ~(i = 1 /\ IsRequestLine(net[c][1]))
    <3> DEFINE p == [at[w] EXCEPT !.step = "write", !.bad = TRUE]
    <3>1. Goes(w, p) /\ p.step = "write" /\ p.bad
      BY <1>1, <1>7, <2>7 DEF Fails, Places
    <3>2. ~Clean(c)
      <4> SUFFICES ASSUME Clean(c) PROVE FALSE
        OBVIOUS
      <4>1. net[c][1].part = "line"
        BY <1>2, <2>5 DEF Agrees
      <4>2. 1 \in {j \in DOMAIN net[c] : net[c][j].part # "body"}
        BY <1>4, <2>1, <4>1
      <4>3. i <= 1
        BY <4>2 DEF LineEnds
      <4> QED
        BY <1>4, <2>1, <2>7, <4>1, <4>3 DEF IsRequestLine
    <3> HIDE DEF p
    <3> QED
      BY <2>5, <3>1, <3>2, GoesRight
  <2> QED
    BY <2>6, <2>7
<1> QED
  BY <1>5, <1>6, <1>7 DEF Line

\* Once a request has been read, nothing of it is to come: its handler may run.
LEMMA RouteRight ==
    ASSUME StreamsInv, NEW w \in Workers, NEW c \in Conns, c = fn[w],
           NEW r, Route(w, r), at[w] \in Places, ~at[w].bad, at[w].n <= sent[c],
           Stream(c)' \in Seq(Piece), IsCut(Stream(c)', Stream(c), 1),
           Later(Stream(c)', 0, at[w].n),
           Clean(c) => sent[c] = Len(answers[c]) + 1 /\ at[w].n = sent[c]
    PROVE  Right(w, c)
<1> DEFINE p == [at[w] EXCEPT !.req = r,
                              !.step = IF IsFileRequest(r) THEN "write" ELSE "handle"]
<1>1. Goes(w, p) /\ p.step \in {"write", "handle"} /\ ~p.bad /\ p.n = at[w].n
  BY DEF Route, Places
<1>2. Unread(w)' = 0
  <2>1. at'[w].step \in {"write", "handle"}
    BY <1>1 DEF Goes, StreamsInv, WebInv, TypeOK
  <2> QED
    BY <2>1 DEF Unread, Is
<1> HIDE DEF p
<1> QED
  BY <1>1, <1>2, GoesRight

\* A request whose rest does not come is answered 400.
LEMMA FailsRight ==
    ASSUME StreamsInv, NEW w \in Workers, NEW c \in Conns, c = fn[w], worker[w] = "run",
           at[w].step \in InRequest, UNCHANGED net, Fails(w)
    PROVE  Right(w, c)
<1> DEFINE p == [at[w] EXCEPT !.step = "write", !.bad = TRUE]
<1>1. at[w] \in Places
  BY DEF StreamsInv, WebInv, TypeOK
<1>2. Goes(w, p) /\ p.step = "write" /\ p.bad /\ p.n = at[w].n
  BY <1>1 DEF Fails, Places
<1>3. Clean(c) => sent[c] = Len(answers[c]) + 1 /\ at[w].n = sent[c]
  BY Parts DEF StreamsInv, Fits
<1>4. Stream(c)' = Stream(c)
  <2>1. UNCHANGED todo
    BY <1>2 DEF Goes, clientVars
  <2> QED
    BY <2>1 DEF Stream
<1> HIDE DEF p
<1> QED
  BY <1>2, <1>3, <1>4, GoesRight

\* The headers.
LEMMA HeadersRight ==
    ASSUME StreamsInv, NEW w \in Workers, NEW c \in Conns, c = fn[w], worker[w] = "run",
           Headers(w)
    PROVE  Right(w, c)
<1>1. at[w] \in Places /\ at[w].step = "headers" /\ ~at[w].bad /\ at[w].n \in Nat
  BY Parts DEF StreamsInv, WebInv, TypeOK, Headers, Is, ReadsRight, Places
<1>2. Stream(c) \in Seq(Piece)
  BY StreamType DEF StreamsInv, WebInv
<1>3. /\ at[w].n <= sent[c]
      /\ Stream(c) # <<>> => Later(Stream(c), 1 + Stream(c)[1].req.length, at[w].n)
  BY <1>1, Parts DEF StreamsInv, ReadsRight, Unread, Is, InRequest, Asked
<1>4. Clean(c) => sent[c] = Len(answers[c]) + 1 /\ at[w].n = sent[c]
  BY <1>1, Parts DEF StreamsInv, Fits, InRequest, Asked
<1>5. CASE NoMore(c) /\ Fails(w)
  BY <1>1, <1>5, FailsRight DEF NoMore, InRequest, Asked
<1>6. CASE Reads(c) /\ ReadContent(w, net[c][1].req)
  <2>1. UNCHANGED todo
    BY <1>6 DEF ReadContent, Route, Goes, clientVars
  <2>2. /\ Stream(c)' \in Seq(Piece) /\ IsCut(Stream(c)', Stream(c), 1)
        /\ Stream(c) # <<>> /\ Stream(c)[1] = net[c][1] /\ Stream(c)[1] \in Piece
    BY <1>6, <2>1, ReadsFirst DEF StreamsInv, WebInv
  <2>3. PICK r : r = net[c][1].req
    OBVIOUS
  <2>4. r.length \in Nat /\ 1 + r.length = r.length + 1
    BY <2>2, <2>3, WebAssumption DEF Piece
  <2>5. Later(Stream(c)', r.length, at[w].n)
    BY <1>1, <1>2, <1>3, <2>2, <2>3, <2>4, OneLess
  <2>6. CASE r.length = 0
    <3>1. Route(w, r) /\ Later(Stream(c)', 0, at[w].n)
      BY <1>6, <2>3, <2>5, <2>6 DEF ReadContent
    <3> QED
      BY <1>1, <1>3, <1>4, <2>2, <3>1, RouteRight
  <2>7. CASE r.length # 0
    <3> DEFINE p == [at[w] EXCEPT !.step = "body", !.req = r, !.need = r.length]
    <3>1. Goes(w, p) /\ p.step = "body" /\ ~p.bad /\ p.n = at[w].n /\ p.need = r.length
      BY <1>1, <1>6, <2>3, <2>7 DEF ReadContent, Places
    <3>2. Unread(w)' = r.length
      <4>1. at'[w].step = "body" /\ at'[w].need = r.length
        BY <3>1 DEF Goes, StreamsInv, WebInv, TypeOK
      <4> QED
        BY <4>1 DEF Unread, Is
    <3> HIDE DEF p
    <3> QED
      BY <1>3, <1>4, <2>2, <2>5, <3>1, <3>2, GoesRight DEF InRequest, Asked
  <2> QED
    BY <2>6, <2>7
<1> QED
  BY <1>5, <1>6 DEF Headers

\* read_content_with_length
LEMMA BodyRight ==
    ASSUME StreamsInv, NEW w \in Workers, NEW c \in Conns, c = fn[w], worker[w] = "run",
           Body(w)
    PROVE  Right(w, c)
<1>1. /\ at[w] \in Places /\ at[w].step = "body" /\ ~at[w].bad /\ at[w].n \in Nat
      /\ at[w].need \in Nat /\ at[w].need > 0
  BY Parts DEF StreamsInv, WebInv, TypeOK, WorkInv, Body, Is, ReadsRight, Places
<1>2. Stream(c) \in Seq(Piece)
  BY StreamType DEF StreamsInv, WebInv
<1>3. at[w].n <= sent[c] /\ (Stream(c) # <<>> => Later(Stream(c), at[w].need, at[w].n))
  BY <1>1, Parts DEF StreamsInv, ReadsRight, Unread, Is, InRequest, Asked
<1>4. Clean(c) => sent[c] = Len(answers[c]) + 1 /\ at[w].n = sent[c]
  BY <1>1, Parts DEF StreamsInv, Fits, InRequest, Asked
<1>5. CASE NoMore(c) /\ Fails(w)
  BY <1>1, <1>5, FailsRight DEF NoMore, InRequest, Asked
<1>6. CASE /\ Reads(c)
           /\ IF at[w].need = 1 THEN Route(w, at[w].req)
              ELSE Goes(w, [at[w] EXCEPT !.need = @ - 1])
  <2>1. UNCHANGED todo
    BY <1>6 DEF Route, Goes, clientVars
  <2>2. /\ Stream(c)' \in Seq(Piece) /\ IsCut(Stream(c)', Stream(c), 1)
        /\ Stream(c) # <<>>
    BY <1>6, <2>1, ReadsFirst DEF StreamsInv, WebInv
  <2>3. PICK k : k = at[w].need - 1
    OBVIOUS
  <2>4. k \in Nat /\ at[w].need = k + 1
    BY <1>1, <2>3
  <2>5. Later(Stream(c)', k, at[w].n)
    BY <1>1, <1>2, <1>3, <2>2, <2>4, OneLess
  <2>6. CASE at[w].need = 1
    <3>1. Route(w, at[w].req) /\ k = 0
      BY <1>6, <2>3, <2>6
    <3> QED
      BY <1>1, <1>3, <1>4, <2>2, <2>5, <3>1, RouteRight
  <2>7. CASE at[w].need # 1
    <3> DEFINE p == [at[w] EXCEPT !.need = @ - 1]
    <3>1. Goes(w, p) /\ p.step = "body" /\ ~p.bad /\ p.n = at[w].n /\ p.need = k
      BY <1>1, <1>6, <2>3, <2>7 DEF Places
    <3>2. Unread(w)' = k
      <4>1. at'[w].step = "body" /\ at'[w].need = k
        BY <3>1 DEF Goes, StreamsInv, WebInv, TypeOK
      <4> QED
        BY <4>1 DEF Unread, Is
    <3> HIDE DEF p
    <3> QED
      BY <1>3, <1>4, <2>2, <2>5, <3>1, <3>2, GoesRight DEF InRequest, Asked
  <2> QED
    BY <2>6, <2>7
<1> QED
  BY <1>5, <1>6 DEF Body

\* The handlers run, and start or reset stops the server; nothing is read.
LEMMA HandleRight ==
    ASSUME StreamsInv, NEW w \in Workers, NEW c \in Conns, c = fn[w], worker[w] = "run",
           Handle(w) \/ Stop(w)
    PROVE  Right(w, c)
<1>1. at[w] \in Places /\ at[w].step \in {"handle", "stop_call"}
  BY DEF StreamsInv, WebInv, TypeOK, Handle, Stop, Is
<1>2. ~at[w].bad /\ at[w].n <= sent[c]
      /\ (Stream(c) # <<>> => Later(Stream(c), 0, at[w].n))
  BY <1>1, Parts DEF StreamsInv, ReadsRight, Unread, Is, InRequest, Asked
<1>3. Clean(c) => sent[c] = Len(answers[c]) + 1 /\ at[w].n = sent[c]
  BY <1>1, Parts DEF StreamsInv, Fits, InRequest, Asked
<1>4. UNCHANGED <<net, todo, sent, answers, fn, worker>>
  BY DEF Handle, Stop, poolVars, clientVars
<1>5. PICK s \in {"stop_call", "write"} : at' = [at EXCEPT ![w].step = s]
  BY DEF Handle, Stop
<1>6. at'[w].step = s /\ ~at'[w].bad /\ at'[w].n = at[w].n
  BY <1>1, <1>2, <1>5 DEF StreamsInv, WebInv, TypeOK, Places
<1>7. Stream(c)' = Stream(c)
  BY <1>4 DEF Stream
<1>8. Unread(w)' = 0
  BY <1>6 DEF Unread, Is
<1>9. fn'[w] = c /\ sent'[c] = sent[c] /\ answers'[c] = answers[c]
  BY <1>4
<1>10. ReadsRight(w)'
  BY <1>2, <1>6, <1>7, <1>8, <1>9 DEF ReadsRight
<1>11. Fits(w)'
  BY <1>3, <1>6, <1>9 DEF Fits, Clean
<1> QED
  BY <1>4, <1>7, <1>10, <1>11, StillInOrder DEF Right

\* A client's i-th answer, while none says 400.
AnswersFit(c) ==
    \A i \in DOMAIN answers[c] :
        (\A j \in 1..(i - 1) : ~answers[c][j].bad) => answers[c][i].n = i

\* The answer is to the last request the client has begun; all of it has been read, so
\* that the client and the worker agree again.
LEMMA WriteRight ==
    ASSUME StreamsInv, NEW w \in Workers, NEW c \in Conns, c = fn[w], worker[w] = "run",
           Write(w), AnswersFit(c)
    PROVE  Right(w, c) /\ AnswersFit(c)'
<1>1. at[w] \in Places /\ at[w].step = "write" /\ at[w].n \in Nat /\ at[w].bad \in BOOLEAN
  BY DEF StreamsInv, WebInv, TypeOK, Write, Is, Places
<1>2. ~at[w].bad => /\ at[w].n <= sent[c]
                    /\ Stream(c) # <<>> => Later(Stream(c), 0, at[w].n)
  BY <1>1, Parts DEF StreamsInv, ReadsRight, Unread, Is, InRequest, Asked
<1>3. Clean(c) => sent[c] = Len(answers[c]) + 1 /\ at[w].n = sent[c]
  BY <1>1, Parts DEF StreamsInv, Fits, InRequest, Asked
<1>4. PICK a : /\ answers' = [answers EXCEPT ![c] = Append(@, a)]
               /\ a = [n |-> at[w].n, bad |-> at[w].bad, close |-> LastOne(w) \/ at[w].req.close]
  BY DEF Write
<1>5. a.n = at[w].n /\ a.bad = at[w].bad
  BY <1>4
<1>6. answers[c] \in Seq(Answers) /\ answers'[c] = Append(answers[c], a)
  BY <1>4 DEF StreamsInv, WebInv, TypeOK
<1>7. PICK len : len = Len(answers[c])
  OBVIOUS
<1>8. /\ len \in Nat /\ DOMAIN answers[c] = 1..len /\ DOMAIN answers'[c] = 1..(len + 1)
      /\ Len(answers'[c]) = len + 1
      /\ answers'[c][len + 1] = a /\ \A i \in 1..len : answers'[c][i] = answers[c][i]
  BY <1>6, <1>7
<1>9. UNCHANGED <<net, todo, sent, fn, worker>> /\ at'[w] = Before("alive", at[w].left - 1)
  BY DEF Write, poolVars, clientVars, StreamsInv, WebInv, TypeOK
<1>10. at'[w].step = "alive" /\ ~at'[w].bad
  BY <1>9 DEF Before
<1>11. Stream(c)' = Stream(c) /\ fn'[w] = c
  BY <1>9 DEF Stream
<1>12. ReadsRight(w)'
  BY <1>10 DEF ReadsRight, InRequest, Asked, Is
<1>13. Clean(c)' => Clean(c) /\ ~at[w].bad
  <2> SUFFICES ASSUME Clean(c)' PROVE Clean(c) /\ ~at[w].bad
    OBVIOUS
  <2>1. \A i \in 1..(len + 1) : ~answers'[c][i].bad
    BY <1>8 DEF Clean
  <2>2. len + 1 \in 1..(len + 1) /\ \A i \in 1..len : i \in 1..(len + 1)
    BY <1>8
  <2> QED
    BY <1>5, <1>8, <2>1, <2>2 DEF Clean
<1>14. Clean(c)' => Agrees(c)'
  <2> SUFFICES ASSUME Clean(c)' PROVE Agrees(c)'
    OBVIOUS
  <2>1. sent[c] = len + 1 /\ at[w].n = sent[c] /\ ~at[w].bad
    BY <1>3, <1>7, <1>13
  <2>2. Stream(c) = <<>>
    <3> SUFFICES ASSUME Stream(c) # <<>> PROVE FALSE
      OBVIOUS
    <3>1. Stream(c) \in Seq(Piece) /\ InOrder(Stream(c), sent[c])
      BY StreamType DEF StreamsInv, WebInv, StreamInv
    <3>2. 1 \in DOMAIN Stream(c) /\ Stream(c)[1] \in Piece
      <4>1. Len(Stream(c)) \in Nat \ {0}
        BY <3>1, EmptySeq
      <4>2. 1 \in 1..Len(Stream(c)) /\ DOMAIN Stream(c) = 1..Len(Stream(c))
        BY <3>1, <4>1, LenProperties
      <4> QED
        BY <3>1, <4>2, ElementOfSeq
    <3>3. Stream(c)[1].n <= sent[c] /\ Stream(c)[1].n \in Nat
      BY <3>1, <3>2 DEF InOrder, Piece
    <3>4. Stream(c)[1].n > at[w].n
      BY <1>2, <2>1, <3>2 DEF Later
    <3> QED
      BY <1>1, <2>1, <3>3, <3>4
  <2> QED
    BY <1>8, <1>9, <1>11, <2>1, <2>2 DEF Agrees
<1>15. Fits(w)'
  BY <1>10, <1>11, <1>14 DEF Fits, InRequest, Asked
<1>16. AnswersFit(c)'
  <2> SUFFICES ASSUME NEW i \in 1..(len + 1), \A j \in 1..(i - 1) : ~answers'[c][j].bad
               PROVE  answers'[c][i].n = i
    BY <1>8 DEF AnswersFit
  <2>1. \A j \in 1..(i - 1) : j \in 1..len
    BY <1>8
  <2>2. \A j \in 1..(i - 1) : ~answers[c][j].bad
    BY <1>8, <2>1
  <2>3. CASE i \in 1..len
    BY <1>8, <2>2, <2>3 DEF AnswersFit
  <2>4. CASE i = len + 1
    <3>1. i - 1 = len
      BY <1>8, <2>4
    <3>2. Clean(c)
      BY <1>8, <2>2, <3>1 DEF Clean
    <3> QED
      BY <1>3, <1>5, <1>7, <1>8, <2>4, <3>2
  <2> QED
    BY <1>8, <2>3, <2>4
<1> QED
  BY <1>9, <1>11, <1>12, <1>15, <1>16, StillInOrder DEF Right

\* The connection ends, with what was not read.
LEMMA CloseRight ==
    ASSUME StreamsInv, NEW w \in Workers, NEW c \in Conns, c = fn[w], worker[w] = "run",
           Close(w)
    PROVE  Right(w, c)
<1>1. at'[w] = Idle /\ worker'[w] = "test" /\ net'[c] = <<>> /\ todo'[c] = <<>>
  BY DEF Close, Returns, StreamsInv, WebInv, TypeOK, PoolTypeOK
<1>2. ReadsRight(w)' /\ Fits(w)'
  BY <1>1 DEF ReadsRight, Fits, Idle, Before, InRequest, Asked, Is
<1>3. Stream(c)' = <<>>
  BY <1>1, EmptySeq, ConcatEmptySeq DEF Stream
<1>4. InOrder(Stream(c)', sent'[c])
  BY <1>3, EmptySeq, LenProperties DEF InOrder
<1> QED
  BY <1>2, <1>4 DEF Right

-----------------------------------------------------------------------------
(* All steps.                                                              *)

\* A worker that takes a connection takes one whose client it agrees with.
LEMMA BeginKeeps ==
    ASSUME StreamsInv, WebInv', [Next]_vars, NEW w \in Workers, Begin(w)
    PROVE  StreamsInv'
<1> USE DEF StreamsInv, WebInv
<1>1. /\ jobs_ # <<>> /\ fn' = [fn EXCEPT ![w] = Head(jobs_)]
      /\ worker' = [worker EXCEPT ![w] = "run"]
      /\ at' = [at EXCEPT ![w] = Before("alive", KeepAliveMax)]
      /\ UNCHANGED <<net, todo, sent, answers>>
  BY DEF Begin, Takes, clientVars
<1>2. \A c \in Conns : Keeps(c) /\ answers'[c] = answers[c]
  BY <1>1 DEF Keeps, Stream
<1>3. jobs_ \in Seq(Tasks)
  BY DEF TypeOK, PoolTypeOK
<1>4. PICK c : c = Head(jobs_)
  OBVIOUS
<1>5. c \in Range(jobs_) /\ c \in Conns
  <2>1. c \in Tasks /\ c = jobs_[1]
    BY <1>1, <1>3, <1>4, HeadTailProperties
  <2>2. 1 \in DOMAIN jobs_
    BY <1>1, <1>3, EmptySeq, LenProperties
  <2> QED
    BY <2>1, <2>2 DEF Range, Conns
<1>6. Clean(c)' => Agrees(c)'
  <2>1. Clean(c) => Agrees(c)
    BY <1>5, Parts
  <2> QED
    BY <1>2, <1>5, <2>1 DEF Keeps, Clean, Agrees
<1>7. at'[w].step = "alive" /\ ~at'[w].bad /\ fn'[w] = c
  BY <1>1, <1>4 DEF TypeOK, PoolTypeOK, Before
<1>8. ReadsRight(w)' /\ Fits(w)'
  BY <1>6, <1>7 DEF ReadsRight, Fits, InRequest, Asked, Is
<1>9. \A v \in Workers \ {w} : at'[v] = at[v] /\ fn'[v] = fn[v] /\ worker'[v] = worker[v]
  BY <1>1 DEF TypeOK, PoolTypeOK
<1>10. {w} \in SUBSET Workers /\ {} \in SUBSET Conns
  OBVIOUS
<1> QED
  BY <1>2, <1>8, <1>9, <1>10, StepKeeps

\* A worker with its connection.
LEMMA ServeKeeps ==
    ASSUME StreamsInv, AnswersMatch, WebInv', [Next]_vars, NEW w \in Workers,
           \/ Alive(w) \/ Line(w) \/ Headers(w) \/ Body(w)
           \/ Handle(w) \/ Stop(w) \/ Write(w) \/ Close(w)
    PROVE  StreamsInv' /\ AnswersMatch'
<1>1. /\ worker[w] = "run" /\ fn[w] \in Conns /\ fn[w] \in Range(taken)
      /\ \A c \in Conns \ {fn[w]} : Keeps(c) /\ answers'[c] = answers[c]
      /\ \A v \in Workers \ {w} :
            /\ at'[v] = at[v]
            /\ worker'[v] = "run" => /\ worker[v] = "run" /\ fn'[v] = fn[v]
                                     /\ fn[v] # fn[w]
  BY ServesOwn
<1>2. PICK c \in Conns : c = fn[w]
  BY <1>1
<1>3. Right(w, c)
  BY <1>1, <1>2, AliveRight, LineRight, HeadersRight, BodyRight, HandleRight, WriteRight,
     CloseRight DEF AnswersFit, AnswersMatch
<1>4. StreamsInv'
  <2>1. {w} \in SUBSET Workers /\ {c} \in SUBSET Conns
    OBVIOUS
  <2>2. \A d \in {c} : d \in Range(taken) /\ InOrder(Stream(d)', sent'[d])
    BY <1>1, <1>2, <1>3 DEF Right
  <2>3. \A v \in {w} : ReadsRight(v)' /\ Fits(v)'
    BY <1>3 DEF Right
  <2> QED
    BY <1>1, <1>2, <2>1, <2>2, <2>3, StepKeeps
<1>5. ASSUME NEW d \in Conns
      PROVE  AnswersFit(d)'
  <2>1. AnswersFit(d)
    BY DEF AnswersMatch, AnswersFit
  <2>2. CASE answers'[d] = answers[d]
    BY <2>1, <2>2 DEF AnswersFit
  <2>3. CASE d = c /\ Write(w)
    BY <1>1, <1>2, <2>1, <2>3, WriteRight
  <2>4. CASE d = c /\ ~Write(w)
    <3>1. UNCHANGED answers
      BY <2>4 DEF Alive, Line, Headers, Body, Handle, Stop, Close, Route, ReadContent,
                  Goto, Fails, Goes
    <3> QED
      BY <2>2, <3>1
  <2> QED
    BY <1>1, <1>2, <2>2, <2>3, <2>4
<1> QED
  BY <1>4, <1>5 DEF AnswersMatch, AnswersFit

\* The clients, the thread that listens, and workers without a connection.
LEMMA OthersKeep ==
    ASSUME StreamsInv, WebInv', [Next]_vars,
           \/ \E d \in Conns : Connect(d) \/ Ask(d) \/ Send(d) \/ Hangup(d)
           \/ \E w \in Workers : Pool(w)
           \/ Listen \/ UNCHANGED vars
    PROVE  StreamsInv' /\ UNCHANGED answers
<1> USE DEF StreamsInv, WebInv
<1>1. ASSUME UNCHANGED <<at, fn, answers>>,
             \A v \in Workers : worker'[v] = "run" => worker[v] = "run",
             \A c \in Conns : Keeps(c) \/ Grows(c)
      PROVE  StreamsInv' /\ UNCHANGED answers
  <2>1. {} \in SUBSET Workers /\ {} \in SUBSET Conns
    OBVIOUS
  <2>2. \A c \in Conns \ {} : (Keeps(c) \/ Grows(c)) /\ answers'[c] = answers[c]
    BY <1>1
  <2>3. \A v \in Workers \ {} : /\ at'[v] = at[v]
                                /\ worker'[v] = "run" => /\ worker[v] = "run" /\ fn'[v] = fn[v]
                                                         /\ fn[v] \notin {}
    BY <1>1
  <2> QED
    BY <1>1, <2>1, <2>2, <2>3, StepKeeps
<1>2. ASSUME NEW d \in Conns, Connect(d) \/ Ask(d) \/ Send(d) \/ Hangup(d)
      PROVE  StreamsInv' /\ UNCHANGED answers
  BY <1>1, <1>2, ClientSteps
<1>3. ASSUME UNCHANGED <<net, todo, sent>>
      PROVE  \A c \in Conns : Keeps(c)
  BY <1>3 DEF Keeps, Stream
<1>4. ASSUME NEW w \in Workers, Pool(w)
      PROVE  StreamsInv' /\ UNCHANGED answers
  <2>1. UNCHANGED <<at, fn, answers, net, todo, sent>>
    BY <1>4 DEF Pool, Waits, Leaves, Wakes, clientVars
  <2>2. \A v \in Workers : worker'[v] = "run" => worker[v] = "run"
    BY <1>4 DEF Pool, Waits, Leaves, Wakes, TypeOK, PoolTypeOK
  <2> QED
    BY <1>1, <1>3, <2>1, <2>2
<1>5. CASE Listen \/ UNCHANGED vars
  <2>1. UNCHANGED <<at, fn, answers, net, todo, sent>>
    BY <1>5 DEF Listen, Accept, AcceptFails, Drain, vars, poolVars, clientVars, Enqueue,
                SetShutdown, NotifyAll, JoinWorkers
  <2>2. \A v \in Workers : worker'[v] = "run" => worker[v] = "run"
    BY <1>5 DEF Listen, Accept, AcceptFails, Drain, vars, poolVars, Enqueue, Waiting,
                SetShutdown, NotifyAll, JoinWorkers, TypeOK, PoolTypeOK
  <2> QED
    BY <1>1, <1>3, <2>1, <2>2
<1> QED
  BY <1>2, <1>4, <1>5

LEMMA StreamsInvariant == Spec => [](StreamsInv /\ AnswersMatch)
<1>1. Init /\ WebInv => StreamsInv /\ AnswersMatch
  <2> SUFFICES ASSUME Init, WebInv PROVE StreamsInv /\ AnswersMatch
    OBVIOUS
  <2>1. \A c \in Conns : /\ net[c] = <<>> /\ todo[c] = <<>> /\ sent[c] = 0
                         /\ answers[c] = <<>>
    BY DEF Init
  <2>2. \A w \in Workers : at[w].step = "none" /\ ~at[w].bad /\ worker[w] = "test"
    BY DEF Init, PoolInit, Idle, Before
  <2>3. \A c \in Conns : Stream(c) = <<>>
    BY <2>1, EmptySeq, ConcatEmptySeq DEF Stream
  <2>4. Len(<<>>) = 0 /\ DOMAIN <<>> = {}
    BY EmptySeq, LenProperties
  <2>5. StreamInv
    BY <2>3, <2>4 DEF StreamInv, InOrder
  <2>6. ReadInv
    BY <2>2 DEF ReadInv, InRequest, Asked
  <2>7. MatchInv
    BY <2>1, <2>2, <2>3, <2>4 DEF MatchInv, Agrees
  <2>8. AnswersMatch
    BY <2>1, <2>4 DEF AnswersMatch
  <2> QED
    BY <2>5, <2>6, <2>7, <2>8 DEF StreamsInv
<1>2. StreamsInv /\ AnswersMatch /\ WebInv' /\ [Next]_vars => (StreamsInv /\ AnswersMatch)'
  <2> SUFFICES ASSUME StreamsInv, AnswersMatch, WebInv', [Next]_vars
               PROVE  StreamsInv' /\ AnswersMatch'
    OBVIOUS
  <2>1. ASSUME StreamsInv' /\ UNCHANGED answers
        PROVE  StreamsInv' /\ AnswersMatch'
    BY <2>1 DEF AnswersMatch
  <2>2. CASE \/ \E d \in Conns : Connect(d) \/ Ask(d) \/ Send(d) \/ Hangup(d)
             \/ \E w \in Workers : Pool(w)
             \/ Listen \/ UNCHANGED vars
    BY <2>1, <2>2, OthersKeep
  <2>3. ASSUME NEW w \in Workers, Begin(w)
        PROVE  StreamsInv' /\ AnswersMatch'
    BY <2>1, <2>3, BeginKeeps DEF Begin
  <2>4. ASSUME NEW w \in Workers, Serve(w), ~Begin(w)
        PROVE  StreamsInv' /\ AnswersMatch'
    BY <2>4, ServeKeeps DEF Serve
  <2> QED
    BY <2>2, <2>3, <2>4 DEF Next, Over
<1> QED
  BY <1>1, <1>2, WebInvariant, PTL DEF Spec

\* A handler sees a request only when it has been read to its end, whatever its client
\* sends, however slowly, and wherever it stops (routing, read_content).
THEOREM HandlersSeeWholeRequests == Spec => []WholeRequests
<1>1. StreamsInv => WholeRequests
  <2> SUFFICES ASSUME StreamsInv, NEW w \in Workers, Is(w, "handle")
               PROVE  Later(Stream(fn[w]), 0, at[w].n)
    BY DEF WholeRequests
  <2>1. Stream(fn[w]) # <<>> => Later(Stream(fn[w]), 0, at[w].n)
    BY Parts DEF StreamsInv, ReadsRight, Unread, Is, InRequest, Asked
  <2>2. Stream(fn[w]) = <<>> => Later(Stream(fn[w]), 0, at[w].n)
    BY DEF Later
  <2> QED
    BY <2>1, <2>2
<1> QED
  BY <1>1, StreamsInvariant, PTL

\* Until it gets a 400, a client's answers are the answers to its requests, one for each
\* and in their order, for any number of workers (process_request).
THEOREM AnswersMatchRequests == Spec => []AnswersMatch
BY StreamsInvariant, PTL
=============================================================================
