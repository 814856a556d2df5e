------------------------------ MODULE Session ------------------------------
(***************************************************************************)
(* A page, its connections, and the server processes that follow each      *)
(* other: client/index.js starts, polls and resets the server in seconds,  *)
(* the web server keeps connections for seconds, and the main process      *)
(* forks a new server when one ended with a reset.                         *)
(*                                                                         *)
(* Time passes in seconds.  What is due happens before the next second, in *)
(* any order.  A request is answered within the second it is sent in.      *)
(***************************************************************************)
EXTENDS Integers, FiniteSets

CONSTANTS
    Conns,         \* the connections a browser opens to one server
    NoConn,        \* none of them
    KeepAliveMax,  \* CPPHTTPLIB_KEEPALIVE_MAX_COUNT
    KeepAlive,     \* CPPHTTPLIB_KEEPALIVE_TIMEOUT_SECOND
    MaxBoot,       \* bound: seconds a new process needs to listen
    MaxResets      \* bound: resets the user asks for

ASSUME SessionAssumption ==
    /\ NoConn \notin Conns /\ IsFiniteSet(Conns)
    /\ KeepAliveMax \in Nat \ {0} /\ KeepAlive \in Nat \ {0}
    /\ MaxBoot \in Nat /\ MaxResets \in Nat

Fibers == {"page", "poll"}   \* main and resetSimulation; updateClockAndQueryServer

VARIABLES
    process,      \* the server: booting, up, or stopping: it listens no more
    incarnation,  \* how many there have been
    since,        \* seconds since it was forked, or began to stop
    left, idle,   \* each connection: requests it may still have (0: not open),
                  \* seconds without one
    fetching,     \* each fiber: the request it awaits
    on,           \* and the connection
    pc, wait,     \* where the page is; how long it still sleeps
    trial,        \* of resetSimulation
    timers, due,  \* intervals that are set; one has fired
    error,        \* the page says that there is a server error
    resets,       \* how many resets there were
    met, old      \* history: the server that answered the last start, the last reset

serverVars == <<process, incarnation, since>>
connVars   == <<left, idle, fetching, on>>
pageVars   == <<pc, wait, trial, timers, due, error, resets>>
vars == <<serverVars, connVars, pageVars, met, old>>

Asleep == {"main_sleep", "reset_sleep", "retry_sleep"}
Awaits == {"main", "reset", "try", "retry"}

TypeOK ==
    /\ process \in {"booting", "up", "stopping"}
    /\ incarnation \in Nat /\ since \in Nat
    /\ left \in [Conns -> 0..KeepAliveMax] /\ idle \in [Conns -> 0..KeepAlive]
    /\ fetching \in [Fibers -> {"none", "start", "reset", "query"}]
    /\ on \in [Fibers -> Conns \cup {NoConn}]
    /\ \A f \in Fibers : fetching[f] = "none" <=> on[f] = NoConn
    /\ pc \in Asleep \cup Awaits \cup {"ready", "stuck"}
    /\ wait \in 0..5 /\ trial \in 0..9 /\ timers \in Nat
    /\ due \in BOOLEAN /\ error \in BOOLEAN
    /\ resets \in Nat /\ met \in Nat /\ old \in Nat

\* The page has been loaded, and main() sends its start.
Init ==
    /\ process = "up" /\ incarnation = 1 /\ since = 0
    /\ left = [c \in Conns |-> 0] /\ idle = [c \in Conns |-> 0]
    /\ \E c \in Conns : on = [f \in Fibers |-> IF f = "page" THEN c ELSE NoConn]
    /\ fetching = [f \in Fibers |-> IF f = "page" THEN "start" ELSE "none"]
    /\ pc = "main" /\ wait = 0 /\ trial = 0
    /\ timers = 0 /\ due = FALSE /\ error = FALSE
    /\ resets = 0 /\ met = 0 /\ old = 0

-----------------------------------------------------------------------------
(* Requests.                                                               *)

InUse(c) == \E f \in Fibers : on[f] = c
Open(c)  == left[c] > 0

\* fetch: on a connection that is open and idle, or else on a new one.
Fetch(f, route) ==
    LET ready == {c \in Conns : Open(c) /\ ~InUse(c)}
        new   == {c \in Conns : ~Open(c) /\ ~InUse(c)}
    IN  /\ fetching' = [fetching EXCEPT ![f] = route]
        /\ \E c \in IF ready # {} THEN ready ELSE new : on' = [on EXCEPT ![f] = c]
        /\ UNCHANGED <<left, idle>>

\* Its answer, or its failure: fiber and connection are free.
Settle(f) ==
    /\ fetching' = [fetching EXCEPT ![f] = "none"]
    /\ on' = [on EXCEPT ![f] = NoConn]

\* Mutant of Served: the number of requests is not counted.
ServedForEver(f) ==
    LET c == on[f] IN
    /\ fetching[f] # "none"
    /\ Open(c) \/ process = "up"
    /\ left' = [left EXCEPT ![c] = KeepAliveMax]
    /\ idle' = [idle EXCEPT ![c] = 0]
    /\ IF fetching[f] \in {"start", "reset"} /\ process = "up"
       THEN process' = "stopping" /\ since' = 0
       ELSE UNCHANGED <<process, since>>
    /\ met' = IF fetching[f] = "start" THEN incarnation ELSE met
    /\ old' = IF fetching[f] = "reset" THEN incarnation ELSE old
    /\ UNCHANGED incarnation

\* The server takes the request: on a connection it has, or on a new one if it
\* still listens.  start and reset end it; one that is ending answers 500.
Served(f) ==
    LET c == on[f] IN
    /\ fetching[f] # "none"
    /\ Open(c) \/ process = "up"
    /\ left' = [left EXCEPT ![c] = (IF Open(c) THEN @ ELSE KeepAliveMax) - 1]
    /\ idle' = [idle EXCEPT ![c] = 0]
    /\ IF fetching[f] \in {"start", "reset"} /\ process = "up"
       THEN process' = "stopping" /\ since' = 0
       ELSE UNCHANGED <<process, since>>
    /\ met' = IF fetching[f] = "start" THEN incarnation ELSE met
    /\ old' = IF fetching[f] = "reset" THEN incarnation ELSE old
    /\ UNCHANGED incarnation

\* Nobody listens: fetch throws.
Refused(f) ==
    /\ fetching[f] # "none"
    /\ ~Open(on[f]) /\ process # "up"
    /\ UNCHANGED <<serverVars, left, idle, met, old>>

-----------------------------------------------------------------------------
(* updateClockAndQueryServer                                               *)

SendPoll ==
    /\ due
    /\ due' = FALSE
    /\ Fetch("poll", "query")
    /\ UNCHANGED <<serverVars, pc, wait, trial, timers, error, resets, met, old>>

PollAnswered ==
    /\ Served("poll") /\ Settle("poll")
    /\ UNCHANGED pageVars

\* The page is replaced by an error; clearInterval, of the timer that is set now.
PollFails ==
    /\ Refused("poll") /\ Settle("poll")
    /\ error' = TRUE
    /\ timers' = 0 /\ due' = FALSE
    /\ UNCHANGED <<left, idle, pc, wait, trial, resets>>

-----------------------------------------------------------------------------
(* main and resetSimulation                                                *)

Sleeps(place, seconds) == pc' = place /\ wait' = seconds

\* setInterval, and the terminal is there.
Ready ==
    /\ pc' = "ready" /\ timers' = timers + 1
    /\ wait' = 0 /\ UNCHANGED due

\* Mutant of Click: the timer goes on.
ClickAndPoll ==
    /\ pc = "ready" /\ ~error /\ resets < MaxResets
    /\ resets' = resets + 1
    /\ pc' = "reset" /\ Fetch("page", "reset")
    /\ UNCHANGED <<serverVars, wait, trial, timers, due, error, met, old>>

\* The reset button: no more polls, and a reset.
Click ==
    /\ pc = "ready" /\ ~error /\ resets < MaxResets
    /\ resets' = resets + 1
    /\ timers' = 0 /\ due' = FALSE
    /\ pc' = "reset" /\ Fetch("page", "reset")
    /\ UNCHANGED <<serverVars, wait, trial, error, met, old>>

\* Mutant of PageAnswered: main sleeps as long as resetSimulation.
PageAnsweredSoon ==
    /\ Served("page") /\ Settle("page")
    /\ CASE pc \in {"main", "reset"} ->
                Sleeps(IF pc = "main" THEN "main_sleep" ELSE "reset_sleep", 4)
                /\ UNCHANGED <<timers, due>>
         [] pc = "try"   -> Ready
         [] pc = "retry" -> Sleeps("retry_sleep", 1) /\ UNCHANGED <<timers, due>>
    /\ UNCHANGED <<trial, error, resets>>

\* An answer, whatever its status.
PageAnswered ==
    /\ Served("page") /\ Settle("page")
    /\ CASE pc = "main"  -> Sleeps("main_sleep", 5)  /\ UNCHANGED <<timers, due>>
         [] pc = "reset" -> Sleeps("reset_sleep", 4) /\ UNCHANGED <<timers, due>>
         [] pc = "try"   -> Ready
         [] pc = "retry" -> Sleeps("retry_sleep", 1) /\ UNCHANGED <<timers, due>>
    /\ UNCHANGED <<trial, error, resets>>

\* The first start of a trial is caught; nothing else is.
PageFails ==
    /\ Refused("page")
    /\ IF pc = "try"
       THEN /\ pc' = "retry"
            /\ \E c \in {d \in Conns : ~Open(d) /\ (~InUse(d) \/ on["page"] = d)} :
                  on' = [on EXCEPT !["page"] = c]
            /\ UNCHANGED fetching
       ELSE pc' = "stuck" /\ Settle("page")
    /\ UNCHANGED <<wait, trial, timers, due, error, resets>>

\* A sleep is over: the page is ready, or another trial begins.
WakeUp ==
    /\ pc \in Asleep /\ wait = 0
    /\ IF pc = "main_sleep" \/ (pc = "retry_sleep" /\ trial = 9)
       THEN Ready /\ UNCHANGED <<connVars, trial>>
       ELSE /\ trial' = IF pc = "reset_sleep" THEN 1 ELSE trial + 1
            /\ pc' = "try" /\ Fetch("page", "start")
            /\ UNCHANGED <<wait, timers, due>>
    /\ UNCHANGED <<serverVars, error, resets, met, old>>

-----------------------------------------------------------------------------
(* The server.                                                             *)

\* keep_alive() gives up.
CloseIdle(c) ==
    /\ Open(c) /\ ~InUse(c) /\ idle[c] = KeepAlive
    /\ left' = [left EXCEPT ![c] = 0]
    /\ idle' = [idle EXCEPT ![c] = 0]
    /\ UNCHANGED <<serverVars, fetching, on, pageVars, met, old>>

\* Mutant of Exit: only a reset, not a start, sets simulation_reset.
ExitAfterStart ==
    /\ process = "stopping" /\ \A c \in Conns : ~Open(c)
    /\ process' = IF old = incarnation THEN "booting" ELSE "over"
    /\ since' = 0
    /\ incarnation' = incarnation + 1
    /\ UNCHANGED <<connVars, pageVars, met, old>>

\* listen() returns when every connection is closed, the process exits with
\* SIMULATION_RESET, and main() forks the next one.
Exit ==
    /\ process = "stopping" /\ \A c \in Conns : ~Open(c)
    /\ process' = "booting" /\ since' = 0
    /\ incarnation' = incarnation + 1
    /\ UNCHANGED <<connVars, pageVars, met, old>>

Listens ==
    /\ process = "booting"
    /\ process' = "up" /\ since' = 0
    /\ UNCHANGED <<incarnation, connVars, pageVars, met, old>>

-----------------------------------------------------------------------------
(* Time.                                                                   *)

Nothing == \A f \in Fibers : fetching[f] = "none"

\* Nothing is due any more: a second passes.
Tick ==
    /\ Nothing /\ ~due /\ ~(pc \in Asleep /\ wait = 0)
    /\ \A c \in Conns : idle[c] < KeepAlive
    /\ process = "stopping" => \E c \in Conns : Open(c)
    /\ process = "booting" => since < MaxBoot
    /\ since' = IF process \in {"booting", "stopping"} THEN since + 1 ELSE 0
    /\ idle' = [c \in Conns |-> IF Open(c) THEN idle[c] + 1 ELSE 0]
    /\ wait' = IF wait > 0 THEN wait - 1 ELSE 0
    /\ due' = (timers > 0)
    /\ UNCHANGED <<process, incarnation, left, fetching, on, pc, trial, timers, error,
                   resets, met, old>>

Page == PageAnswered \/ PageFails \/ WakeUp
Poll == SendPoll \/ PollAnswered \/ PollFails
Server == Exit \/ Listens \/ \E c \in Conns : CloseIdle(c)

Next == Click \/ Page \/ Poll \/ Server \/ Tick

Spec == Init /\ [][Next]_vars

\* Timers fire, requests are answered, the server's threads run and time passes;
\* the user need not do anything.
FairSpec == Spec /\ WF_vars(Page \/ Poll \/ Server \/ Tick)

-----------------------------------------------------------------------------
(* Properties.                                                             *)

\* There is one timer while the terminal is there, and none while a reset is under
\* way, so that a reset leaves no second poll behind; a page that shows an error
\* may poll again after a reset it was in the middle of (resetSimulation, main).
OneTimer ==
    /\ timers = 1 => pc = "ready"
    /\ pc = "ready" /\ ~error => timers = 1
    /\ timers <= 1

\* A server that was told to stop is gone in time, although the page may go on
\* polling it, or reset it again: a connection takes so many requests, each after so
\* much silence at most, and none is new (process_server_socket_core, keep_alive).
StopsInTime == process = "stopping" => since <= KeepAliveMax * KeepAlive

\* Why: a connection that is still open has had its time for each request it has taken.
OpenInv ==
    process = "stopping" =>
        \A c \in Conns : Open(c) => since <= ((KeepAliveMax - left[c]) * KeepAlive) + idle[c]

\* A server that was told to stop is followed by one that listens, whatever the page
\* sends meanwhile (process_server_socket_core, main of server.cpp).
ServerReturns == process = "stopping" ~> process = "up"

\* The first poll of main(), while the user has not reset, never reaches the server
\* that main()'s start has stopped: main sleeps long enough for its connections to be
\* closed (main, keep_alive).  After a reset that does not hold: see StartMeetsNewServer.
FirstPollMeetsNewServer ==
    fetching["poll"] # "none" /\ resets = 0 => incarnation > met

\* Why: until the server is another one, the page has not polled, and the silence on the
\* connections and what is left of main's sleep make up the 5 seconds.
Quiet == ~due /\ fetching["poll"] = "none"

PollInv ==
    resets = 0 =>
        \/ /\ pc = "main" /\ Quiet
           /\ process = "up" /\ met < incarnation /\ \A c \in Conns : ~Open(c)
        \/ /\ pc \in {"main_sleep", "ready"}
           /\ \/ met < incarnation
              \/ /\ process = "stopping" /\ Quiet
                 /\ \A c \in Conns : Open(c) => idle[c] + wait >= 5

\* What the comment on resetSimulation's sleep says: 4 seconds are enough for the
\* server to restart, so the start that follows meets a new one.
StartMeetsNewServer == pc = "ready" /\ resets > 0 => met > old
=============================================================================
