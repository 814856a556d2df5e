----------------------------- MODULE ThreadPool -----------------------------
(***************************************************************************)
(* The ThreadPool of server/httplib.h: workers that wait on a condition    *)
(* variable for tasks, and their owner, which enqueues tasks and in the    *)
(* end shuts the pool down.  A critical section is one action; waking up   *)
(* and leaving the lock are apart, as they are in the code.                *)
(***************************************************************************)
EXTENDS Sequences, SequencesExt

CONSTANTS
    Workers,   \* the threads of the pool
    Tasks,     \* what may be enqueued, each at most once
    NoTask     \* what a worker that runs nothing has

ASSUME PoolAssumption == NoTask \notin Tasks /\ Workers # {}

VARIABLES
    jobs_,      \* the queue
    shutdown_,  \* no task will follow
    owner,      \* where the owner is
    worker,     \* where each worker is
    fn,         \* the task it runs
    taken       \* history: the tasks workers took, in order

poolVars == <<jobs_, shutdown_, owner, worker, fn, taken>>

PoolTypeOK ==
    /\ jobs_ \in Seq(Tasks) /\ taken \in Seq(Tasks)
    /\ shutdown_ \in BOOLEAN
    /\ owner \in {"enqueue", "notify", "join", "joined"}
    /\ worker \in [Workers -> {"test", "wait", "run", "over"}]
    /\ fn \in [Workers -> Tasks \cup {NoTask}]

PoolInit ==
    /\ jobs_ = <<>> /\ taken = <<>>
    /\ shutdown_ = FALSE
    /\ owner = "enqueue"
    /\ worker = [w \in Workers |-> "test"]
    /\ fn = [w \in Workers |-> NoTask]

Waiting == {w \in Workers : worker[w] = "wait"}

-----------------------------------------------------------------------------
(* The owner.                                                              *)

\* enqueue(): push, and notify_one while the lock is held.
Enqueue(t) ==
    /\ owner = "enqueue"
    /\ jobs_' = Append(jobs_, t)
    /\ IF Waiting = {}
       THEN UNCHANGED worker
       ELSE \E w \in Waiting : worker' = [worker EXCEPT ![w] = "test"]
    /\ UNCHANGED <<shutdown_, owner, fn, taken>>

\* shutdown(): the flag, set under the lock ...
SetShutdown ==
    /\ owner = "enqueue"
    /\ owner' = "notify"
    /\ shutdown_' = TRUE
    /\ UNCHANGED <<jobs_, worker, fn, taken>>

\* ... notify_all, without it ...
NotifyAll ==
    /\ owner = "notify"
    /\ owner' = "join"
    /\ worker' = [w \in Workers |-> IF worker[w] = "wait" THEN "test" ELSE worker[w]]
    /\ UNCHANGED <<jobs_, shutdown_, fn, taken>>

\* Mutant of JoinWorkers: joins one of them.
JoinWorker ==
    /\ owner = "join"
    /\ \E w \in Workers : worker[w] = "over"
    /\ owner' = "joined"
    /\ UNCHANGED <<jobs_, shutdown_, worker, fn, taken>>

\* ... and join every thread.
JoinWorkers ==
    /\ owner = "join"
    /\ \A w \in Workers : worker[w] = "over"
    /\ owner' = "joined"
    /\ UNCHANGED <<jobs_, shutdown_, worker, fn, taken>>

-----------------------------------------------------------------------------
(* A worker.                                                               *)

Waits(w) ==
    /\ worker[w] = "test" /\ jobs_ = <<>> /\ ~shutdown_
    /\ worker' = [worker EXCEPT ![w] = "wait"]
    /\ UNCHANGED <<jobs_, shutdown_, owner, fn, taken>>

\* Mutant of Leaves: does not look at the queue.
LeavesEarly(w) ==
    /\ worker[w] = "test" /\ shutdown_
    /\ worker' = [worker EXCEPT ![w] = "over"]
    /\ UNCHANGED <<jobs_, shutdown_, owner, fn, taken>>

Leaves(w) ==
    /\ worker[w] = "test" /\ shutdown_ /\ jobs_ = <<>>
    /\ worker' = [worker EXCEPT ![w] = "over"]
    /\ UNCHANGED <<jobs_, shutdown_, owner, fn, taken>>

\* Mutant of Takes: looks at the front and leaves it there.
TakesNothing(w) ==
    /\ worker[w] = "test" /\ jobs_ # <<>>
    /\ worker' = [worker EXCEPT ![w] = "run"]
    /\ fn' = [fn EXCEPT ![w] = Head(jobs_)]
    /\ taken' = Append(taken, Head(jobs_))
    /\ UNCHANGED <<jobs_, shutdown_, owner>>

Takes(w) ==
    /\ worker[w] = "test" /\ jobs_ # <<>>
    /\ worker' = [worker EXCEPT ![w] = "run"]
    /\ fn' = [fn EXCEPT ![w] = Head(jobs_)]
    /\ jobs_' = Tail(jobs_)
    /\ taken' = Append(taken, Head(jobs_))
    /\ UNCHANGED <<shutdown_, owner>>

\* cond_.wait may return without a notification; it tests again.
Wakes(w) ==
    /\ worker[w] = "wait"
    /\ worker' = [worker EXCEPT ![w] = "test"]
    /\ UNCHANGED <<jobs_, shutdown_, owner, fn, taken>>

\* fn() returns.
Returns(w) ==
    /\ worker[w] = "run"
    /\ worker' = [worker EXCEPT ![w] = "test"]
    /\ fn' = [fn EXCEPT ![w] = NoTask]
    /\ UNCHANGED <<jobs_, shutdown_, owner, taken>>

PoolNext ==
    \/ \E t \in Tasks \ Range(taken \o jobs_) : Enqueue(t)
    \/ SetShutdown \/ NotifyAll \/ JoinWorkers
    \/ \E w \in Workers : Waits(w) \/ Leaves(w) \/ Takes(w) \/ Wakes(w) \/ Returns(w)

PoolSpec == PoolInit /\ [][PoolNext]_poolVars

-----------------------------------------------------------------------------
(* Properties.                                                             *)

\* Every task is taken by one worker, once, and two workers never run the same
\* task (the workers' loop: front, pop, run).
TasksRunOnce ==
    /\ IsInjective(taken \o jobs_)
    /\ \A w \in Workers : worker[w] = "run" <=> fn[w] # NoTask
    /\ \A w \in Workers : fn[w] # NoTask => fn[w] \in Range(taken)
    /\ \A v, w \in Workers : fn[v] = fn[w] /\ fn[v] # NoTask => v = w

\* shutdown() returns when no task is left, waiting or running: what was
\* enqueued before it is not dropped (ThreadPool::shutdown, worker::operator()).
ShutdownDrains ==
    owner = "joined" => jobs_ = <<>> /\ \A w \in Workers : fn[w] = NoTask

\* Why: a worker leaves only once no task can follow, and none sleeps through
\* the notification.
PoolInv ==
    /\ shutdown_ <=> owner # "enqueue"
    /\ \A w \in Workers : worker[w] = "over" => shutdown_ /\ jobs_ = <<>>
    /\ owner \in {"join", "joined"} => Waiting = {}
    /\ owner = "joined" => \A w \in Workers : worker[w] = "over"
=============================================================================
