--------------------------- MODULE SessionProofs ---------------------------
(***************************************************************************)
(* Proofs about Session, for any numbers of connections, requests, seconds *)
(* and resets.                                                             *)
(***************************************************************************)
EXTENDS Session, TLAPS

\* Why the page keeps one timer: it only awaits an answer where it asked for one, and
\* the timer is set where the page becomes ready and nowhere else.
PageInv ==
    /\ fetching["page"] # "none" <=> pc \in Awaits
    /\ pc # "ready" => timers = 0

SessionInv == TypeOK /\ PageInv /\ OneTimer

\* A fiber that fetches has a connection, and another request.
LEMMA FetchTypes ==
    ASSUME TypeOK, NEW f \in Fibers, NEW route \in {"start", "reset", "query"}, Fetch(f, route)
    PROVE  /\ fetching' = [fetching EXCEPT ![f] = route]
           /\ on' \in [Fibers -> Conns \cup {NoConn}]
           /\ UNCHANGED <<left, idle>>
           /\ fetching' \in [Fibers -> {"none", "start", "reset", "query"}]
           /\ \A g \in Fibers : fetching'[g] = "none" <=> on'[g] = NoConn
<1> DEFINE ready == {c \in Conns : Open(c) /\ ~InUse(c)}
           new   == {c \in Conns : ~Open(c) /\ ~InUse(c)}
<1> PICK c \in IF ready # {} THEN ready ELSE new : on' = [on EXCEPT ![f] = c]
  BY DEF Fetch
<1> c \in Conns /\ c # NoConn
  BY SessionAssumption
<1> QED
  BY DEF Fetch, TypeOK

\* A fiber whose request is settled has neither.
LEMMA SettleTypes ==
    ASSUME TypeOK, NEW f \in Fibers, Settle(f)
    PROVE  /\ fetching' = [fetching EXCEPT ![f] = "none"]
           /\ on' \in [Fibers -> Conns \cup {NoConn}]
           /\ fetching' \in [Fibers -> {"none", "start", "reset", "query"}]
           /\ \A g \in Fibers : fetching'[g] = "none" <=> on'[g] = NoConn
BY DEF Settle, TypeOK

\* What the server does with a request.
LEMMA ServedTypes ==
    ASSUME TypeOK, NEW f \in Fibers, Served(f)
    PROVE  /\ fetching[f] # "none"
           /\ left' \in [Conns -> 0..KeepAliveMax] /\ idle' \in [Conns -> 0..KeepAlive]
           /\ process' \in {"booting", "up", "stopping"}
           /\ incarnation' \in Nat /\ since' \in Nat /\ met' \in Nat /\ old' \in Nat
<1> DEFINE c == on[f]
<1>1. c \in Conns /\ fetching[f] # "none"
  BY DEF Served, TypeOK
<1>2. (IF Open(c) THEN left[c] ELSE KeepAliveMax) - 1 \in 0..KeepAliveMax
  BY <1>1, SessionAssumption DEF Open, TypeOK
<1>3. left' \in [Conns -> 0..KeepAliveMax] /\ idle' \in [Conns -> 0..KeepAlive]
  BY <1>1, <1>2, SessionAssumption DEF Served, TypeOK
<1> QED
  BY <1>1, <1>3 DEF Served, TypeOK

LEMMA PollKeeps ==
    ASSUME SessionInv, Poll
    PROVE  SessionInv'
<1> USE DEF SessionInv, pageVars, serverVars, Fibers
<1>1. CASE SendPoll
  <2> /\ Fetch("poll", "query") /\ due' = FALSE
      /\ UNCHANGED <<serverVars, pc, wait, trial, timers, error, resets, met, old>>
    BY <1>1 DEF SendPoll
  <2> /\ fetching' = [fetching EXCEPT !["poll"] = "query"]
      /\ on' \in [Fibers -> Conns \cup {NoConn}] /\ UNCHANGED <<left, idle>>
      /\ fetching' \in [Fibers -> {"none", "start", "reset", "query"}]
      /\ \A g \in Fibers : fetching'[g] = "none" <=> on'[g] = NoConn
    BY FetchTypes
  <2>1. TypeOK'
    BY DEF TypeOK
  <2>2. PageInv' /\ OneTimer'
    BY DEF TypeOK, PageInv, OneTimer
  <2> QED
    BY <2>1, <2>2
<1>2. ASSUME Settle("poll")
      PROVE  /\ UNCHANGED fetching["page"]
             /\ on' \in [Fibers -> Conns \cup {NoConn}]
             /\ fetching' \in [Fibers -> {"none", "start", "reset", "query"}]
             /\ \A g \in Fibers : fetching'[g] = "none" <=> on'[g] = NoConn
  BY <1>2, SettleTypes DEF TypeOK
<1>3. CASE PollAnswered
  <2> Served("poll") /\ Settle("poll") /\ UNCHANGED pageVars
    BY <1>3 DEF PollAnswered
  <2> QED
    BY <1>2, ServedTypes DEF TypeOK, PageInv, OneTimer
<1>4. CASE PollFails
  <2>1. /\ Settle("poll") /\ UNCHANGED <<serverVars, left, idle, met, old>>
        /\ error' = TRUE /\ timers' = 0 /\ due' = FALSE
        /\ UNCHANGED <<pc, wait, trial, resets>>
    BY <1>4 DEF PollFails, Refused
  <2>2. TypeOK'
    BY <1>2, <2>1 DEF TypeOK
  <2>3. PageInv' /\ OneTimer'
    BY <1>2, <2>1 DEF PageInv, OneTimer
  <2> QED
    BY <2>2, <2>3
<1> QED
  BY <1>1, <1>3, <1>4 DEF Poll

LEMMA PageKeeps ==
    ASSUME SessionInv, Click \/ Page
    PROVE  SessionInv'
<1> USE DEF SessionInv, pageVars, serverVars, connVars, Fibers
<1>1. ASSUME NEW route \in {"start", "reset"}, Fetch("page", route)
      PROVE  /\ on' \in [Fibers -> Conns \cup {NoConn}] /\ UNCHANGED <<left, idle>>
             /\ fetching' \in [Fibers -> {"none", "start", "reset", "query"}]
             /\ \A g \in Fibers : fetching'[g] = "none" <=> on'[g] = NoConn
             /\ fetching'["page"] # "none"
  BY <1>1, FetchTypes DEF TypeOK
<1>2. ASSUME Settle("page")
      PROVE  /\ on' \in [Fibers -> Conns \cup {NoConn}]
             /\ fetching' \in [Fibers -> {"none", "start", "reset", "query"}]
             /\ \A g \in Fibers : fetching'[g] = "none" <=> on'[g] = NoConn
             /\ fetching'["page"] = "none"
  BY <1>2, SettleTypes DEF TypeOK
<1>3. CASE Click
  <2> /\ resets' = resets + 1 /\ timers' = 0 /\ due' = FALSE /\ pc' = "reset"
      /\ Fetch("page", "reset")
      /\ UNCHANGED <<serverVars, wait, trial, error, met, old>>
    BY <1>3 DEF Click
  <2> /\ on' \in [Fibers -> Conns \cup {NoConn}] /\ UNCHANGED <<left, idle>>
      /\ fetching' \in [Fibers -> {"none", "start", "reset", "query"}]
      /\ \A g \in Fibers : fetching'[g] = "none" <=> on'[g] = NoConn
      /\ fetching'["page"] # "none"
    BY <1>1
  <2> pc' \in Asleep \cup Awaits \cup {"ready", "stuck"}
    BY DEF Awaits
  <2>1. /\ process' \in {"booting", "up", "stopping"} /\ incarnation' \in Nat /\ since' \in Nat
        /\ left' \in [Conns -> 0..KeepAliveMax] /\ idle' \in [Conns -> 0..KeepAlive]
    BY DEF TypeOK
  <2>2. wait' \in 0..5 /\ trial' \in 0..9 /\ timers' \in Nat /\ resets' \in Nat
    BY DEF TypeOK
  <2>3. met' \in Nat /\ old' \in Nat
    BY DEF TypeOK
  <2>4. due' \in BOOLEAN /\ error' \in BOOLEAN
    BY DEF TypeOK
  <2>5. TypeOK'
    BY <2>1, <2>2, <2>3, <2>4 DEF TypeOK
  <2>6. PageInv' /\ OneTimer'
    BY DEF PageInv, OneTimer, Awaits
  <2> QED
    BY <2>5, <2>6
<1>4. CASE PageAnswered
  <2>1. Served("page") /\ Settle("page") /\ UNCHANGED <<trial, error, resets>>
    BY <1>4 DEF PageAnswered
  <2>2. pc \in Awaits /\ timers = 0
    BY <2>1, ServedTypes DEF PageInv, Awaits
  <2>3. /\ pc' \in Asleep \cup {"ready"} /\ wait' \in 0..5 /\ UNCHANGED due
        /\ timers' = IF pc' = "ready" THEN 1 ELSE 0
    <3>1. CASE pc = "try"
      BY <1>4, <2>2, <3>1 DEF PageAnswered, Ready
    <3>2. CASE pc \in {"main", "reset", "retry"}
      <4> /\ UNCHANGED <<timers, due>>
          /\ pc' \in {"main_sleep", "reset_sleep", "retry_sleep"} /\ wait' \in {1, 4, 5}
        BY <1>4, <3>2 DEF PageAnswered, Sleeps
      <4> QED
        BY <2>2 DEF Asleep
    <3> QED
      BY <2>2, <3>1, <3>2 DEF Awaits
  <2> QED
    BY <1>2, <2>1, <2>3, ServedTypes DEF TypeOK, PageInv, OneTimer, Awaits, Asleep
<1>5. CASE PageFails
  <2>1. /\ fetching["page"] # "none" /\ UNCHANGED <<serverVars, left, idle, met, old>>
        /\ UNCHANGED <<wait, trial, timers, due, error, resets>>
    BY <1>5 DEF PageFails, Refused
  <2>2. pc \in Awaits /\ timers = 0
    BY <2>1 DEF PageInv, Awaits
  <2>3. CASE pc = "try"
    <3> PICK c \in Conns : on' = [on EXCEPT !["page"] = c]
      BY <1>5, <2>3 DEF PageFails
    <3> c # NoConn
      BY SessionAssumption
    <3> UNCHANGED fetching /\ pc' = "retry"
      BY <1>5, <2>3 DEF PageFails
    <3> QED
      BY <2>1, <2>2 DEF TypeOK, PageInv, OneTimer, Awaits
  <2>4. CASE pc # "try"
    <3> Settle("page") /\ pc' = "stuck"
      BY <1>5, <2>4 DEF PageFails
    <3> QED
      BY <1>2, <2>1, <2>2 DEF TypeOK, PageInv, OneTimer, Awaits
  <2> QED
    BY <2>3, <2>4
<1>6. CASE WakeUp
  <2>1. /\ pc \in Asleep /\ timers = 0 /\ fetching["page"] = "none"
        /\ UNCHANGED <<serverVars, error, resets, met, old>>
    BY <1>6 DEF WakeUp, PageInv, Awaits, Asleep
  <2>2. CASE Ready /\ UNCHANGED <<connVars, trial>>
    BY <2>1, <2>2 DEF Ready, TypeOK, PageInv, OneTimer, Awaits
  <2>3. CASE /\ trial' = IF pc = "reset_sleep" THEN 1 ELSE trial + 1
             /\ ~(pc = "main_sleep" \/ (pc = "retry_sleep" /\ trial = 9))
             /\ pc' = "try" /\ Fetch("page", "start")
             /\ UNCHANGED <<wait, timers, due>>
    <3>1. trial' \in 0..9
      BY <2>1, <2>3 DEF TypeOK, Asleep
    <3> QED
      BY <1>1, <2>1, <2>3, <3>1 DEF TypeOK, PageInv, OneTimer, Awaits
  <2> QED
    BY <1>6, <2>2, <2>3 DEF WakeUp
<1> QED
  BY <1>3, <1>4, <1>5, <1>6 DEF Page

LEMMA OtherKeeps ==
    ASSUME SessionInv, Server \/ Tick \/ UNCHANGED vars
    PROVE  SessionInv'
<1> USE DEF SessionInv, pageVars, serverVars, connVars
<1>1. CASE Exit \/ Listens
  BY <1>1 DEF Exit, Listens, TypeOK, PageInv, OneTimer
<1>2. ASSUME NEW c \in Conns, CloseIdle(c)
      PROVE  SessionInv'
  BY <1>2, SessionAssumption DEF CloseIdle, TypeOK, PageInv, OneTimer
<1>3. CASE Tick
  <2>1. idle' \in [Conns -> 0..KeepAlive]
    BY <1>3, SessionAssumption DEF Tick, TypeOK
  <2>2. since' \in Nat /\ wait' \in 0..5 /\ due' \in BOOLEAN
    BY <1>3 DEF Tick, TypeOK
  <2> QED
    BY <1>3, <2>1, <2>2 DEF Tick, TypeOK, PageInv, OneTimer
<1>4. CASE UNCHANGED vars
  BY <1>4 DEF vars, TypeOK, PageInv, OneTimer
<1> QED
  BY <1>1, <1>2, <1>3, <1>4 DEF Server

LEMMA SessionInvariant == Spec => []SessionInv
<1>1. Init => SessionInv
  <2> SUFFICES ASSUME Init PROVE SessionInv
    OBVIOUS
  <2> PICK c \in Conns : on = [f \in Fibers |-> IF f = "page" THEN c ELSE NoConn]
    BY DEF Init
  <2>1. TypeOK
    <3>1. /\ fetching \in [Fibers -> {"none", "start", "reset", "query"}]
          /\ on \in [Fibers -> Conns \cup {NoConn}]
          /\ \A f \in Fibers : fetching[f] = "none" <=> on[f] = NoConn
      BY SessionAssumption DEF Init
    <3>2. left \in [Conns -> 0..KeepAliveMax] /\ idle \in [Conns -> 0..KeepAlive]
      BY SessionAssumption DEF Init
    <3>3. pc \in Asleep \cup Awaits \cup {"ready", "stuck"}
      BY DEF Init, Awaits
    <3>4. process \in {"booting", "up", "stopping"} /\ incarnation \in Nat /\ since \in Nat
      BY DEF Init
    <3>5. wait \in 0..5 /\ trial \in 0..9 /\ timers \in Nat /\ resets \in Nat
      BY DEF Init
    <3>6. met \in Nat /\ old \in Nat
      BY DEF Init
    <3>7. due \in BOOLEAN /\ error \in BOOLEAN
      BY DEF Init
    <3> QED
      BY <3>1, <3>2, <3>3, <3>4, <3>5, <3>6, <3>7 DEF TypeOK
  <2>2. PageInv /\ OneTimer
    BY DEF Init, PageInv, OneTimer, Fibers, Awaits
  <2> QED
    BY <2>1, <2>2 DEF SessionInv
<1>2. SessionInv /\ [Next]_vars => SessionInv'
  BY PollKeeps, PageKeeps, OtherKeeps DEF Next
<1> QED
  BY <1>1, <1>2, PTL DEF Spec

\* The page, its connections and the server keep their types; in particular there are
\* never more than nine trials of a reset (resetSimulation).
THEOREM SessionTypeCorrect == Spec => []TypeOK
BY SessionInvariant, PTL DEF SessionInv

\* However many resets there are, and whatever fails, one timer polls while the terminal
\* is there and none during a reset (main, resetSimulation).
THEOREM OneTimerAlways == Spec => []OneTimer
BY SessionInvariant, PTL DEF SessionInv


-----------------------------------------------------------------------------
(* The server that was told to stop.                                       *)

LEMMA Products ==
    ASSUME NEW a \in Nat, NEW b \in Nat, NEW k \in Nat, a < b
    PROVE  a * k \in Nat /\ (a + 1) * k = a * k + k /\ a * k + k <= b * k
<1>1. a * k \in Nat /\ (a + 1) * k = a * k + k
  OBVIOUS
<1>2. PICK d \in Nat : b = a + 1 + d
  <2>1. b - a - 1 \in Nat /\ b = a + 1 + (b - a - 1)
    OBVIOUS
  <2> QED
    BY <2>1
<1>3. b * k = (a + 1) * k + d * k /\ d * k \in Nat
  BY <1>2
<1> QED
  BY <1>1, <1>3

\* A connection's requests and the silences before them leave it no more time.
LEMMA OpenInvKept ==
    ASSUME TypeOK, TypeOK', OpenInv, [Next]_vars
    PROVE  OpenInv'
<1> USE DEF serverVars, pageVars, connVars
<1> SUFFICES ASSUME process' = "stopping", NEW c \in Conns, left'[c] > 0
             PROVE  since' <= ((KeepAliveMax - left'[c]) * KeepAlive) + idle'[c]
  BY DEF OpenInv, Open
<1>1. KeepAliveMax \in Nat /\ KeepAlive \in Nat
  BY SessionAssumption
<1>2. /\ left[c] \in 0..KeepAliveMax /\ left'[c] \in 0..KeepAliveMax
      /\ idle[c] \in 0..KeepAlive /\ idle'[c] \in 0..KeepAlive /\ since \in Nat
  BY DEF TypeOK
<1>3. (KeepAliveMax - left'[c]) * KeepAlive \in Nat
  <2>1. KeepAliveMax - left'[c] \in Nat
    BY <1>1, <1>2
  <2> QED
    BY <1>1, <2>1
<1>4. CASE since' = 0
  BY <1>2, <1>3, <1>4
<1>5. CASE UNCHANGED <<process, since>> /\ left'[c] = left[c] /\ idle'[c] = idle[c]
  BY <1>5 DEF OpenInv, Open
<1>6. ASSUME NEW f \in Fibers, Served(f)
      PROVE  since' <= ((KeepAliveMax - left'[c]) * KeepAlive) + idle'[c]
  <2>1. CASE c # on[f]
    <3>1. left'[c] = left[c] /\ idle'[c] = idle[c]
      BY <1>6, <2>1 DEF Served, TypeOK
    <3> QED
      BY <1>4, <1>5, <1>6, <3>1 DEF Served
  <2>2. CASE c = on[f] /\ process = "stopping"
    <3>1. /\ left[c] > 0 /\ left'[c] = left[c] - 1 /\ since' = since
      BY <1>6, <2>2 DEF Served, Open, TypeOK
    <3>2. PICK a \in Nat : a = KeepAliveMax - left[c]
      BY <1>1, <1>2
    <3>3. KeepAliveMax - left'[c] = a + 1 /\ a < a + 1 /\ a + 1 \in Nat
      BY <1>1, <1>2, <3>1, <3>2
    <3>4. (a + 1) * KeepAlive = a * KeepAlive + KeepAlive /\ a * KeepAlive \in Nat
      BY <1>1, <3>3, Products
    <3>5. since <= a * KeepAlive + idle[c]
      BY <2>2, <3>1, <3>2 DEF OpenInv, Open
    <3> QED
      BY <1>1, <1>2, <3>1, <3>3, <3>4, <3>5
  <2>3. CASE process # "stopping"
    BY <1>4, <1>6, <2>3 DEF Served
  <2> QED
    BY <2>1, <2>2, <2>3
<1>7. CASE Click \/ PageFails \/ WakeUp \/ SendPoll \/ PollFails
  <2>1. UNCHANGED <<process, since, left, idle>>
    BY <1>7 DEF Click, PageFails, WakeUp, SendPoll, PollFails, Refused, Fetch, Ready
  <2> QED
    BY <1>5, <2>1
<1>8. CASE PageAnswered \/ PollAnswered
  BY <1>6, <1>8 DEF PageAnswered, PollAnswered, Fibers
<1>9. CASE Exit \/ Listens
  BY <1>9 DEF Exit, Listens
<1>10. ASSUME NEW d \in Conns, CloseIdle(d)
       PROVE  since' <= ((KeepAliveMax - left'[c]) * KeepAlive) + idle'[c]
  <2>1. c # d
    BY <1>10 DEF CloseIdle, TypeOK
  <2> QED
    BY <1>5, <1>10, <2>1 DEF CloseIdle, TypeOK
<1>11. CASE Tick
  <2>1. /\ process = "stopping" /\ left'[c] = left[c] /\ since' = since + 1
        /\ idle'[c] = idle[c] + 1
    BY <1>11 DEF Tick, Open
  <2>2. since <= ((KeepAliveMax - left[c]) * KeepAlive) + idle[c]
    BY <2>1 DEF OpenInv, Open
  <2> QED
    BY <1>2, <1>3, <2>1, <2>2
<1>12. CASE UNCHANGED vars
  BY <1>5, <1>12 DEF vars
<1> QED
  BY <1>7, <1>8, <1>9, <1>10, <1>11, <1>12 DEF Next, Page, Poll, Server

\* The last silence included, that is never more than all of them.
LEMMA StopsKept ==
    ASSUME TypeOK, TypeOK', OpenInv, StopsInTime, [Next]_vars
    PROVE  StopsInTime'
<1> USE DEF serverVars, pageVars, connVars
<1>1. /\ KeepAliveMax \in Nat \ {0} /\ KeepAlive \in Nat \ {0}
      /\ KeepAliveMax * KeepAlive \in Nat
  BY SessionAssumption
<1>2. CASE since' = 0
  BY <1>1, <1>2 DEF StopsInTime
<1>3. CASE UNCHANGED <<process, since>>
  BY <1>3 DEF StopsInTime
<1>4. CASE Tick
  <2> SUFFICES ASSUME process = "stopping" PROVE since + 1 <= KeepAliveMax * KeepAlive
    BY <1>4 DEF Tick, StopsInTime
  <2>1. PICK c \in Conns : left[c] > 0 /\ idle[c] < KeepAlive
    BY <1>4 DEF Tick, Open
  <2>2. left[c] \in 0..KeepAliveMax /\ idle[c] \in 0..KeepAlive /\ since \in Nat
    BY DEF TypeOK
  <2>3. PICK a \in Nat : a = KeepAliveMax - left[c] /\ a < KeepAliveMax
    BY <1>1, <2>1, <2>2
  <2>4. a * KeepAlive \in Nat /\ a * KeepAlive + KeepAlive <= KeepAliveMax * KeepAlive
    BY <1>1, <2>3, Products
  <2>5. since <= a * KeepAlive + idle[c]
    BY <2>1, <2>3 DEF OpenInv, Open
  <2> QED
    BY <1>1, <2>1, <2>2, <2>4, <2>5
<1>5. CASE Click \/ Page \/ Poll
  <2>1. since' = 0 \/ UNCHANGED <<process, since>>
    BY <1>5 DEF Click, Page, Poll, PageAnswered, PageFails, WakeUp, SendPoll, PollAnswered,
                PollFails, Served, Refused
  <2> QED
    BY <1>2, <1>3, <2>1
<1>6. CASE Server
  BY <1>2, <1>3, <1>6 DEF Server, Exit, Listens, CloseIdle
<1>7. CASE UNCHANGED vars
  BY <1>3, <1>7 DEF vars
<1> QED
  BY <1>4, <1>5, <1>6, <1>7 DEF Next

\* A server that was told to stop is gone in time, for any numbers of connections,
\* requests and seconds, however often the page polls or resets it meanwhile
\* (process_server_socket_core, keep_alive).
THEOREM StoppedServerIsGone == Spec => []StopsInTime
<1>1. Init => OpenInv /\ StopsInTime
  BY DEF Init, OpenInv, StopsInTime
<1>2. TypeOK /\ TypeOK' /\ OpenInv /\ StopsInTime /\ [Next]_vars => OpenInv' /\ StopsInTime'
  BY OpenInvKept, StopsKept
<1> QED
  BY <1>1, <1>2, SessionTypeCorrect, PTL DEF Spec

-----------------------------------------------------------------------------
(* The first poll.                                                         *)

\* The server a start met is no later one, a poll asks and does nothing else, and only a
\* page that sleeps has something left of its sleep.
HistoryInv ==
    /\ met <= incarnation
    /\ fetching["poll"] \in {"none", "query"}
    /\ pc \notin Asleep => wait = 0

LEMMA HistoryKept ==
    ASSUME SessionInv, HistoryInv, [Next]_vars
    PROVE  HistoryInv'
<1> USE DEF serverVars, pageVars, connVars, SessionInv, HistoryInv
<1>1. /\ met \in Nat /\ incarnation \in Nat
      /\ fetching \in [Fibers -> {"none", "start", "reset", "query"}]
  BY DEF TypeOK
<1>2. CASE Click
  BY <1>1, <1>2 DEF Click, Fetch, Fibers, Asleep
<1>3. CASE PageAnswered
  <2>1. met' <= incarnation' /\ fetching'["poll"] = fetching["poll"]
    BY <1>1, <1>3 DEF PageAnswered, Served, Settle, Fibers
  <2>2. pc \in Awaits
    BY <1>3 DEF PageAnswered, Served, PageInv
  <2>3. pc' \notin Asleep => wait' = 0
    BY <1>3, <2>2 DEF PageAnswered, Sleeps, Ready, Asleep, Awaits
  <2> QED
    BY <2>1, <2>3
<1>4. CASE PageFails
  <2>1. pc \in Awaits /\ UNCHANGED <<met, incarnation, wait>> /\ pc' \notin Asleep
    BY <1>4 DEF PageFails, Refused, PageInv, Asleep
  <2>2. fetching'["poll"] = fetching["poll"]
    BY <1>1, <1>4 DEF PageFails, Settle, Fibers
  <2> QED
    BY <2>1, <2>2 DEF Asleep, Awaits
<1>5. CASE WakeUp
  <2>1. UNCHANGED <<met, incarnation>> /\ wait = 0 /\ wait' = 0
    BY <1>5 DEF WakeUp, Ready
  <2>2. fetching'["poll"] = fetching["poll"]
    BY <1>1, <1>5 DEF WakeUp, Fetch, Fibers
  <2> QED
    BY <2>1, <2>2
<1>6. CASE Poll
  <2>1. met' <= incarnation' /\ UNCHANGED <<pc, wait>>
    BY <1>1, <1>6 DEF Poll, SendPoll, PollAnswered, PollFails, Served, Refused
  <2>2. fetching'["poll"] \in {"none", "query"}
    BY <1>1, <1>6 DEF Poll, SendPoll, PollAnswered, PollFails, Fetch, Settle, Fibers
  <2> QED
    BY <2>1, <2>2
<1>7. CASE Server
  BY <1>1, <1>7 DEF Server, Exit, Listens, CloseIdle
<1>8. CASE Tick
  BY <1>8 DEF Tick
<1>9. CASE UNCHANGED vars
  BY <1>9 DEF vars
<1> QED
  BY <1>2, <1>3, <1>4, <1>5, <1>6, <1>7, <1>8, <1>9 DEF Next, Page

\* main's 5 seconds are enough when the server's silence is no longer than that.
LEMMA PollInvKept ==
    ASSUME KeepAlive <= 5, SessionInv, SessionInv', HistoryInv, PollInv, [Next]_vars
    PROVE  PollInv'
<1> USE DEF serverVars, pageVars, connVars, SessionInv
<1> SUFFICES ASSUME resets' = 0 PROVE PollInv'
  BY DEF PollInv
<1> DEFINE First == /\ pc = "main" /\ Quiet
                    /\ process = "up" /\ met < incarnation /\ \A c \in Conns : ~Open(c)
           Old   == /\ process = "stopping" /\ Quiet
                    /\ \A c \in Conns : Open(c) => idle[c] + wait >= 5
           Then == pc \in {"main_sleep", "ready"} /\ (met < incarnation \/ Old)
<1>1. resets = 0
  <2>1. resets' = resets \/ resets' = resets + 1
    BY DEF Next, Click, Page, Poll, Server, Tick, PageAnswered, PageFails, WakeUp, SendPoll,
           PollAnswered, PollFails, Exit, Listens, CloseIdle, vars
  <2> QED
    BY <2>1 DEF TypeOK
<1>2. First \/ Then
  BY <1>1 DEF PollInv
<1> SUFFICES First' \/ Then'
  BY DEF PollInv
<1>3. ~Click
  BY <1>1 DEF Click
<1>4. met \in Nat /\ incarnation \in Nat /\ wait \in 0..5
  BY DEF TypeOK
<1>5. CASE Page
  <2>1. CASE PageFails
    <3>1. pc \in Awaits /\ process # "up"
      BY <2>1 DEF PageFails, Refused, PageInv
    <3> QED
      BY <1>2, <3>1 DEF Awaits
  <2>2. CASE PageAnswered
    <3>1. pc = "main"
      BY <1>2, <2>2, ServedTypes DEF PageAnswered, PageInv, Awaits, Fibers
    <3>2. PICK d : d = on["page"]
      OBVIOUS
    <3>3. /\ First
          /\ process' = "stopping" \/ fetching["page"] = "query"
          /\ pc' = "main_sleep" /\ wait' = 5
          /\ UNCHANGED due /\ fetching' = [fetching EXCEPT !["page"] = "none"]
          /\ idle' = [idle EXCEPT ![d] = 0]
      BY <1>2, <2>2, <3>1, <3>2 DEF PageAnswered, Sleeps, Served, Settle, TypeOK, Fibers
    <3>4. idle' \in [Conns -> 0..KeepAlive]
      BY DEF TypeOK
    <3>5. Quiet'
      <4>1. fetching'["poll"] = fetching["poll"]
        BY <3>3 DEF TypeOK, Fibers
      <4> QED
        BY <3>3, <4>1 DEF Quiet
    <3>6. CASE fetching["page"] = "query"
      <4>1. UNCHANGED <<met, incarnation>>
        BY <2>2, <3>6 DEF PageAnswered, Served
      <4> QED
        BY <3>3, <4>1
    <3>7. CASE process' = "stopping"
      <4>1. ASSUME NEW c \in Conns
            PROVE  idle'[c] + wait' >= 5
        BY <3>3, <3>4
      <4> QED
        BY <3>3, <3>5, <3>7, <4>1
    <3> QED
      BY <3>3, <3>6, <3>7
  <2>3. CASE WakeUp
    <3>1. pc = "main_sleep" /\ wait = 0 /\ Then
      BY <1>2, <2>3 DEF WakeUp, Asleep
    <3>2. /\ pc' = "ready" /\ wait' = 0 /\ UNCHANGED due /\ UNCHANGED connVars
          /\ UNCHANGED <<serverVars, met>>
      BY <2>3, <3>1 DEF WakeUp, Ready
    <3> QED
      BY <3>1, <3>2 DEF Quiet, Open
  <2> QED
    BY <1>5, <2>1, <2>2, <2>3 DEF Page
<1>6. CASE Poll
  <2>1. ~Quiet
    BY <1>6 DEF Poll, SendPoll, PollAnswered, PollFails, Served, Refused, Quiet
  <2>2. pc \in {"main_sleep", "ready"} /\ met < incarnation
    BY <1>2, <2>1
  <2>3. UNCHANGED <<pc, incarnation>>
    BY <1>6 DEF Poll, SendPoll, PollAnswered, PollFails, Served, Refused
  <2>4. met' = met
    <3>1. fetching["poll"] # "start"
      BY <2>2 DEF HistoryInv
    <3> QED
      BY <1>6, <3>1 DEF Poll, SendPoll, PollAnswered, PollFails, Served, Refused
  <2> QED
    BY <2>2, <2>3, <2>4
<1>7. CASE Server
  <2>1. CASE Exit
    <3>1. pc \in {"main_sleep", "ready"} /\ incarnation' = incarnation + 1 /\ UNCHANGED <<met, pc>>
      BY <1>2, <2>1 DEF Exit
    <3>2. met <= incarnation
      BY DEF HistoryInv
    <3> QED
      BY <1>4, <3>1, <3>2
  <2>2. CASE Listens
    BY <1>2, <2>2 DEF Listens
  <2>3. ASSUME NEW c \in Conns, CloseIdle(c)
        PROVE  First' \/ Then'
    <3>1. /\ UNCHANGED <<serverVars, fetching, pageVars, met>>
          /\ \A d \in Conns : Open(d)' => Open(d) /\ idle'[d] = idle[d]
      BY <2>3 DEF CloseIdle, Open, TypeOK
    <3> QED
      BY <1>2, <3>1 DEF Quiet
  <2> QED
    BY <1>7, <2>1, <2>2, <2>3 DEF Server
<1>8. CASE Tick
  <2>1. pc # "main" /\ UNCHANGED <<pc, met, incarnation, process, left, fetching>>
    BY <1>8 DEF Tick, Nothing, PageInv, Awaits, Fibers
  <2>2. CASE met < incarnation
    BY <1>2, <2>1, <2>2
  <2>3. CASE Old
    <3>1. PICK c \in Conns : Open(c)
      BY <1>8, <2>3 DEF Tick
    <3>2. idle[c] < KeepAlive /\ idle[c] + wait >= 5 /\ idle[c] \in Nat /\ KeepAlive \in Nat
      BY <1>8, <2>3, <3>1, SessionAssumption DEF Tick, TypeOK
    <3>3. wait > 0 /\ wait' = wait - 1
      BY <1>4, <1>8, <3>2 DEF Tick
    <3>4. pc = "main_sleep" /\ timers = 0
      BY <1>2, <2>1, <3>3 DEF HistoryInv, PageInv, Asleep
    <3>5. Quiet'
      <4>1. ~(timers > 0)
        BY <3>4
      <4>2. ~due'
        BY <1>8, <4>1 DEF Tick
      <4> QED
        BY <2>1, <2>3, <4>2 DEF Quiet
    <3>6. ASSUME NEW d \in Conns, Open(d)'
          PROVE  idle'[d] + wait' >= 5
      <4>1. Open(d) /\ idle'[d] = idle[d] + 1 /\ idle[d] \in Nat
        BY <1>8, <3>6 DEF Tick, Open, TypeOK
      <4> QED
        BY <1>4, <2>3, <3>3, <4>1
    <3> QED
      BY <2>1, <2>3, <3>4, <3>5, <3>6
  <2> QED
    BY <1>2, <2>1, <2>2, <2>3
<1>9. CASE UNCHANGED vars
  BY <1>2, <1>9 DEF vars, Quiet, Open
<1> QED
  BY <1>3, <1>5, <1>6, <1>7, <1>8, <1>9 DEF Next

\* When a page is loaded, and until its user resets, no poll reaches the server that the
\* page's start has stopped, if the server's silence is no longer than main's sleep, as in
\* the code (main, keep_alive).  Nothing is said of the polls after a reset.
THEOREM FirstPollIsLate ==
    ASSUME KeepAlive <= 5
    PROVE  Spec => []FirstPollMeetsNewServer
<1>1. Init => HistoryInv /\ PollInv
  BY DEF Init, HistoryInv, PollInv, Quiet, Open, Fibers, Asleep
<1>2. SessionInv /\ SessionInv' /\ HistoryInv /\ PollInv /\ [Next]_vars => HistoryInv' /\ PollInv'
  BY HistoryKept, PollInvKept
<1>3. PollInv => FirstPollMeetsNewServer
  BY DEF PollInv, Quiet, FirstPollMeetsNewServer
<1> QED
  BY <1>1, <1>2, <1>3, SessionInvariant, PTL DEF Spec
=============================================================================
