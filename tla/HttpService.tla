---------------------------- MODULE HttpService ----------------------------
(***************************************************************************)
(* What the request handlers of server/server.cpp and the library that     *)
(* calls them agree on: at most one request per thread at a time, a server *)
(* that accepts connections until it is stopped and never again, and that  *)
(* is taken down when no handler runs any more, or by a crash.             *)
(***************************************************************************)
CONSTANT Threads

VARIABLES
    accepting,  \* connections are accepted
    busy,       \* the threads in a handler
    up          \* listen() has not returned

serviceVars == <<accepting, busy, up>>

ServiceInit == accepting = TRUE /\ busy = {} /\ up = TRUE

Call(t) ==
    /\ up /\ t \notin busy
    /\ busy' = busy \cup {t}
    /\ UNCHANGED <<accepting, up>>

Return(t) ==
    /\ up /\ t \in busy
    /\ busy' = busy \ {t}
    /\ UNCHANGED up
    /\ accepting' \in {accepting, FALSE}

StopAccepting ==
    /\ up /\ accepting
    /\ accepting' = FALSE
    /\ UNCHANGED <<busy, up>>

\* listen() returns.
TakeDown ==
    /\ up /\ ~accepting /\ busy = {}
    /\ up' = FALSE
    /\ UNCHANGED <<accepting, busy>>

ServiceNext == \/ \E t \in Threads : Call(t) \/ Return(t)
               \/ StopAccepting \/ TakeDown

ServiceSpec == ServiceInit /\ [][ServiceNext]_serviceVars
=============================================================================
