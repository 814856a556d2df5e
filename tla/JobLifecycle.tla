---------------------------- MODULE JobLifecycle ----------------------------
(***************************************************************************)
(* What the server promises about the jobs its users submit: a job that    *)
(* sbatch accepted is run, and its end is reported exactly once; only the  *)
(* user who cancels a job (scancel answered success) may find it           *)
(* terminated, or may never hear of its end.  SlurmServer implements it    *)
(* as long as requests are served one at a time.                           *)
(***************************************************************************)
CONSTANT Jobs

VARIABLES
    life,      \* life[j]: how far job j is
    quits      \* the jobs whose cancellation was answered success

lifeVars == <<life, quits>>

Life == {"unknown", "queued", "batched", "ended", "reported", "forgotten", "terminated"}

Init ==
    /\ life = [j \in Jobs |-> "unknown"]
    /\ quits = {}

Become(j, from, to) == life[j] = from /\ life' = [life EXCEPT ![j] = to]

\* sbatch queues a job, the simulation hands it to the batch service, it ends,
\* a client is told.
Queue(j)  == Become(j, "unknown", "queued") /\ UNCHANGED quits
Batch(j)  == Become(j, "queued", "batched") /\ UNCHANGED quits
End(j)    == Become(j, "batched", "ended") /\ UNCHANGED quits
Report(j) == Become(j, "ended", "reported") /\ UNCHANGED quits

\* A user may cancel any job that was queued and not yet reported; the
\* cancellation may come too early or too late to have an effect.
Cancel(j) ==
    /\ life[j] \notin {"unknown", "reported"}
    /\ quits' = quits \cup {j}
    /\ UNCHANGED life

Terminate(j) == j \in quits /\ Become(j, "batched", "terminated") /\ UNCHANGED quits
Forget(j)    == j \in quits /\ Become(j, "ended", "forgotten") /\ UNCHANGED quits

Next == \E j \in Jobs :
    Queue(j) \/ Batch(j) \/ End(j) \/ Report(j) \/ Cancel(j) \/ Terminate(j) \/ Forget(j)

Spec == Init /\ [][Next]_lifeVars
=============================================================================
