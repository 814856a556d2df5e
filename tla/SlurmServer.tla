----------------------------- MODULE SlurmServer -----------------------------
(***************************************************************************)
(* One server process: the HTTP request handlers of server/server.cpp,     *)
(* which cpp-httplib runs on a pool of threads, next to the simulation     *)
(* thread of WorkflowManager.  A handler is modelled from one access of    *)
(* shared state to the next.                                               *)
(*                                                                         *)
(* An access the C++ standard leaves undefined (a null pointer, front() of *)
(* an empty queue, an unsynchronised access to a container) may do what    *)
(* its author meant, or end the process (Die).                             *)
(***************************************************************************)
EXTENDS FiniteSets, WorkflowManager

CONSTANTS
    Handlers,      \* threads of the web server's pool
    Sleepers,      \* those of them that may serve /api/addTime
    Routes,        \* the requests clients send
    NodeCount,     \* nodes of the cluster
    RequestSizes,  \* numbers of nodes clients ask for
    Increments,    \* ticks a sleep skips: whole seconds
    MaxNow,        \* bound: ticks of real time
    MaxSkip,       \* bound: ticks skipped in all
    MaxCancels,    \* bound: cancellations waiting when one more is sent
    MaxLate,       \* bound: requests that kept-alive connections still bring
                   \* once the server accepts no more connections
    NoJob          \* not a job

AllRoutes == {"query", "addTime", "addJob", "cancelJob", "getQueue",
              "start", "stop", "reset"}

ASSUME ServerAssumption ==
    /\ Sleepers \subseteq Handlers
    /\ Routes \subseteq AllRoutes
    /\ NodeCount \in Nat /\ RequestSizes \subseteq Int
    /\ Increments \subseteq {i \in Nat : i % Second = 0}
    /\ MaxNow \in Nat /\ MaxSkip \in Nat /\ MaxCancels \in Nat /\ MaxLate \in Nat
    /\ NoJob \notin Jobs

VARIABLES
    process,           \* the child process main() forked
    listening,         \* the server accepts connections
    simulation_reset,  \* the exit code asks for a new server
    joined,            \* the simulation thread has been joined
    late,              \* requests taken since the server stopped listening
    now,               \* get_time()
    time_start,        \* get_time() at which the clients' clock is 0
    pc, op, job, arg,  \* each handler: where it is, its route, its locals
    created,           \* history: jobs that have an identifier
    cancelled,         \* history: jobs whose cancellation was answered success
    reported,          \* history: jobs whose end was sent to a client, in order
    asked              \* history: ticks that the skips taken up ask for

processVars == <<process, listening, simulation_reset, joined, late>>
clockVars   == <<now, time_start>>
handlerVars == <<pc, op, job, arg>>
historyVars == <<created, cancelled, reported, asked>>
vars == <<batchVars, wmsVars, processVars, clockVars, handlerVars, historyVars>>

Clock == now - time_start

\* Mutant of Whole: rounds up.
WholeUp(t) == t - (t % Second) + Second

\* The ticks of the whole seconds in t: what dividing by 1000 keeps of a time.
Whole(t) == t - (t % Second)

Label == {"idle",
          "skip_read", "skip_write",                  \* addTime
          "ev_arg", "ev_test", "ev_take", "ev_time",  \* query and addTime
          "catch_up",                                 \* addTime
          "add_create", "add_push", "add_map",        \* addJob
          "cancel_check", "cancel_push",              \* cancelJob
          "queue_call",                               \* getQueue
          "start_clock", "stop_call",                 \* start, stop and reset
          "join_call", "join_wait"}

\* The first step of a route's handler.
Entry == [query |-> "ev_arg", addTime |-> "skip_read",
          addJob |-> "add_create", cancelJob |-> "cancel_check",
          getQueue |-> "queue_call",
          start |-> "start_clock", stop |-> "stop_call", reset |-> "stop_call"]

\* Labels at which a handler of addJob or cancelJob knows its job.
JobLabel == {"add_push", "add_map", "cancel_check", "cancel_push"}

ProcessTypeOK ==
    /\ process \in {"running", "reset", "end", "crashed"}
    /\ listening \in BOOLEAN /\ simulation_reset \in BOOLEAN /\ joined \in BOOLEAN
    /\ late \in Nat

ClockTypeOK == now \in Nat /\ time_start \in Int

HandlerTypeOK ==
    /\ pc \in [Handlers -> Label]
    /\ op \in [Handlers -> AllRoutes \cup {"none"}]
    /\ job \in [Handlers -> Jobs \cup {NoJob}]
    /\ arg \in [Handlers -> Int]
    /\ \A h \in Handlers : pc[h] \in JobLabel => job[h] \in Jobs

HistoryTypeOK ==
    /\ created \subseteq Jobs /\ cancelled \subseteq Jobs
    /\ reported \in Seq(Jobs) /\ asked \in Int

TypeOK ==
    BatchTypeOK /\ WmsTypeOK /\ ProcessTypeOK /\ ClockTypeOK /\ HandlerTypeOK /\ HistoryTypeOK

Init ==
    /\ BatchInit
    /\ WmsInit
    /\ process = "running"
    /\ listening = TRUE /\ simulation_reset = FALSE /\ joined = FALSE
    /\ late = 0
    /\ now = 0 /\ time_start = 0
    /\ pc = [h \in Handlers |-> "idle"]
    /\ op = [h \in Handlers |-> "none"]
    /\ job = [h \in Handlers |-> NoJob]
    /\ arg = [h \in Handlers |-> 0]
    /\ created = {} /\ cancelled = {} /\ reported = <<>> /\ asked = 0

-----------------------------------------------------------------------------
(* Steps of a handler.                                                     *)

At(h, label) == process = "running" /\ pc[h] = label

\* The handler goes on ...
GoOn(h, label) == pc' = [pc EXCEPT ![h] = label] /\ UNCHANGED <<op, job>>

\* ... or answers, and its thread is free.
Answer(h) ==
    /\ pc' = [pc EXCEPT ![h] = "idle"]
    /\ op' = [op EXCEPT ![h] = "none"]
    /\ job' = [job EXCEPT ![h] = NoJob]
    /\ arg' = [arg EXCEPT ![h] = 0]

\* simulation_thread_state->wms is set.
WmsReady == wmsPc # "boot"

\* A connection brings a request.  One that was accepted keeps its thread and
\* may bring some more once the server has stopped listening.
Connected ==
    /\ listening \/ late < MaxLate
    /\ late' = IF listening THEN late ELSE late + 1
    /\ UNCHANGED <<process, listening, simulation_reset, joined>>

\* A request arrives at a free thread, with what its body says (and, so that
\* none waits for lack of a job, no more sbatch requests than jobs are left).
Request(h, r) ==
    /\ At(h, "idle") /\ Connected
    /\ pc' = [pc EXCEPT ![h] = Entry[r]]
    /\ op' = [op EXCEPT ![h] = r]
    /\ UNCHANGED <<batchVars, wmsVars, clockVars, historyVars>>

Arrive(h) ==
    \/ \E r \in Routes \ {"addTime", "addJob", "cancelJob"} :
          Request(h, r) /\ UNCHANGED <<job, arg>>
    \/ /\ "addTime" \in Routes /\ h \in Sleepers
       /\ Request(h, "addTime") /\ UNCHANGED job
       /\ \E i \in Increments : /\ asked + i <= MaxSkip
                                /\ arg' = [arg EXCEPT ![h] = i]
    \/ /\ "addJob" \in Routes
       /\ Cardinality({g \in Handlers : pc[g] = "add_create"}) < Cardinality(Jobs \ created)
       /\ Request(h, "addJob") /\ UNCHANGED job
       /\ \E n \in RequestSizes : arg' = [arg EXCEPT ![h] = n]
    \/ /\ "cancelJob" \in Routes /\ Len(cancelJobs) < MaxCancels
       /\ Request(h, "cancelJob") /\ UNCHANGED arg
       /\ \E j \in Jobs : job' = [job EXCEPT ![h] = j]

-----------------------------------------------------------------------------
(* /api/addTime and /api/query                                             *)

\* Mutant of SkipRead: adds the increment.
SkipReadBack(h) ==
    /\ At(h, "skip_read")
    /\ GoOn(h, "skip_write")
    /\ arg' = [arg EXCEPT ![h] = time_start + arg[h]]
    /\ asked' = asked + arg[h]
    /\ UNCHANGED <<batchVars, wmsVars, processVars, clockVars, created, cancelled, reported>>

\* time_start -= increment * 1000: a load ...
SkipRead(h) ==
    /\ At(h, "skip_read")
    /\ GoOn(h, "skip_write")
    /\ arg' = [arg EXCEPT ![h] = time_start - arg[h]]
    /\ asked' = asked + arg[h]
    /\ UNCHANGED <<batchVars, wmsVars, processVars, clockVars, created, cancelled, reported>>

\* ... and a store, with nothing to keep another thread's store away.
SkipWrite(h) ==
    /\ At(h, "skip_write")
    /\ GoOn(h, "ev_arg")
    /\ time_start' = arg[h]
    /\ arg' = [arg EXCEPT ![h] = 0]
    /\ UNCHANGED <<batchVars, wmsVars, processVars, now, historyVars>>

\* (get_time() - time_start) / 1000, before getEventStatuses is called
ReadClock(h) ==
    /\ At(h, "ev_arg")
    /\ GoOn(h, "ev_test")
    /\ arg' = [arg EXCEPT ![h] = Whole(Clock)]
    /\ UNCHANGED <<batchVars, wmsVars, processVars, clockVars, historyVars>>

\* Mutant of TestEvents: leaves the last event in the queue.
TestEventsButOne(h) ==
    /\ At(h, "ev_test") /\ WmsReady
    /\ GoOn(h, IF Len(events) <= 1 THEN "ev_time" ELSE "ev_take")
    /\ UNCHANGED <<arg, batchVars, wmsVars, processVars, clockVars, historyVars>>

\* while (!events.empty()): tested without the mutex.
TestEvents(h) ==
    /\ At(h, "ev_test") /\ WmsReady
    /\ GoOn(h, IF events = <<>> THEN "ev_time" ELSE "ev_take")
    /\ UNCHANGED <<arg, batchVars, wmsVars, processVars, clockVars, historyVars>>

\* The loop's critical section: the end of a job still in job_list is told to
\* the client.
TakeStatus(h) ==
    /\ At(h, "ev_take") /\ events # <<>>
    /\ TakeEvent
    /\ reported' = IF Head(events).job \in job_list
                   THEN Append(reported, Head(events).job)
                   ELSE reported
    /\ GoOn(h, "ev_test")
    /\ UNCHANGED <<arg, batchVars, stop, timeVars, wmsPc, wmsEvent, processVars,
                   clockVars, created, cancelled, asked>>

\* server_time = time.  A query answers, addTime lets the simulation catch up.
SetServerTime(h) ==
    /\ At(h, "ev_time")
    /\ server_time' = arg[h]
    /\ \/ op[h] = "query" /\ Answer(h)
       \/ op[h] = "addTime" /\ GoOn(h, "catch_up") /\ UNCHANGED arg
    /\ UNCHANGED <<batchVars, stop, queueVars, simulationTime, wmsPc, wmsEvent,
                   processVars, clockVars, historyVars>>

\* Mutant of CaughtUp: waits for the simulation to be ahead.
CaughtUpBeyond(h) ==
    /\ At(h, "catch_up")
    /\ Whole(Clock) < simulationTime
    /\ Answer(h)
    /\ UNCHANGED <<batchVars, wmsVars, processVars, clockVars, historyVars>>

\* The loop that lets the simulation catch up ends.
CaughtUp(h) ==
    /\ At(h, "catch_up")
    /\ Whole(Clock) <= simulationTime
    /\ Answer(h)
    /\ UNCHANGED <<batchVars, wmsVars, processVars, clockVars, historyVars>>

-----------------------------------------------------------------------------
(* /api/addJob and /api/cancelJob                                          *)

\* num_nodes is unsigned: a negative number of nodes is a very large one.
TooLarge(n) == n < 0 \/ n > NodeCount

RejectJob(h) ==
    /\ At(h, "add_create") /\ WmsReady
    /\ TooLarge(arg[h])
    /\ Answer(h)
    /\ UNCHANGED <<batchVars, wmsVars, processVars, clockVars, historyVars>>

\* addTask and createStandardJob: a job no one else knows of yet.
CreateJob(h) ==
    /\ At(h, "add_create") /\ wmsPc \notin {"boot", "starting"}
    /\ ~TooLarge(arg[h])
    /\ \E j \in Jobs \ created :
          /\ created' = created \cup {j}
          /\ job' = [job EXCEPT ![h] = j]
    /\ pc' = [pc EXCEPT ![h] = "add_push"]
    /\ arg' = [arg EXCEPT ![h] = 0]
    /\ UNCHANGED <<op, batchVars, wmsVars, processVars, clockVars, cancelled, reported, asked>>

\* Two threads that read task_id before either increments it ask for the same
\* task; addTask refuses the second, and its request is answered with an error.
DuplicateTask(h) ==
    /\ At(h, "add_create") /\ WmsReady
    /\ ~TooLarge(arg[h])
    /\ \E g \in Handlers \ {h} : pc[g] = "add_create" /\ ~TooLarge(arg[g])
    /\ Answer(h)
    /\ UNCHANGED <<batchVars, wmsVars, processVars, clockVars, historyVars>>

QueueJob(h) ==
    /\ At(h, "add_push")
    /\ PushJob(job[h])
    /\ GoOn(h, "add_map")
    /\ UNCHANGED <<arg, batchVars, stop, timeVars, wmsPc, wmsEvent, processVars,
                   clockVars, historyVars>>

ListJob(h) ==
    /\ At(h, "add_map")
    /\ MapJob(job[h])
    /\ Answer(h)
    /\ UNCHANGED <<batchVars, stop, timeVars, wmsPc, wmsEvent, processVars,
                   clockVars, historyVars>>

\* Mutant of CheckCancel: queues the name before it looks for it.
CheckCancelLate(h) ==
    /\ At(h, "cancel_check") /\ WmsReady
    /\ IF job[h] \in job_list
       THEN GoOn(h, "cancel_push") /\ UNCHANGED <<arg, queueVars>>
       ELSE Answer(h) /\ PushCancel(job[h])
    /\ UNCHANGED <<batchVars, stop, timeVars, wmsPc, wmsEvent, processVars,
                   clockVars, historyVars>>

\* if (job_list[job_name] != nullptr): read without the mutex.
CheckCancel(h) ==
    /\ At(h, "cancel_check") /\ WmsReady
    /\ IF job[h] \in job_list
       THEN GoOn(h, "cancel_push") /\ UNCHANGED arg
       ELSE Answer(h)
    /\ UNCHANGED <<batchVars, wmsVars, processVars, clockVars, historyVars>>

QueueCancel(h) ==
    /\ At(h, "cancel_push")
    /\ PushCancel(job[h])
    /\ cancelled' = cancelled \cup {job[h]}
    /\ Answer(h)
    /\ UNCHANGED <<batchVars, stop, timeVars, wmsPc, wmsEvent, processVars,
                   clockVars, created, reported, asked>>

\* /api/getQueue reads the queue of the batch service.
GetQueue(h) ==
    /\ At(h, "queue_call") /\ WmsReady
    /\ Answer(h)
    /\ UNCHANGED <<batchVars, wmsVars, processVars, clockVars, historyVars>>

-----------------------------------------------------------------------------
(* /api/start, /api/stop and /api/reset                                    *)

StartClock(h) ==
    /\ At(h, "start_clock")
    /\ time_start' = now
    /\ GoOn(h, "stop_call")
    /\ UNCHANGED <<arg, batchVars, wmsVars, processVars, now, historyVars>>

StopSimulation(h) ==
    /\ At(h, "stop_call") /\ WmsReady
    /\ StopServer
    /\ GoOn(h, "join_call")
    /\ UNCHANGED <<arg, batchVars, queueVars, timeVars, wmsPc, wmsEvent,
                   processVars, clockVars, historyVars>>

\* Mutant of NotJoinable: forgets the thread that is being joined.
NotJoinableAfter == joined

\* A thread that someone joins, or has joined, cannot be joined again.
NotJoinable == joined \/ \E g \in Handlers : pc[g] = "join_wait"

\* join() throws: the web server answers with an error.
JoinThrows(h) ==
    /\ At(h, "join_call") /\ NotJoinable
    /\ Answer(h)
    /\ UNCHANGED <<batchVars, wmsVars, processVars, clockVars, historyVars>>

Join(h) ==
    /\ At(h, "join_call") /\ ~NotJoinable
    /\ GoOn(h, "join_wait")
    /\ UNCHANGED <<arg, batchVars, wmsVars, processVars, clockVars, historyVars>>

\* The simulation thread is over.  stop exits; start and reset ask for a new
\* process and stop the web server.
Joined(h) ==
    /\ At(h, "join_wait") /\ wmsPc = "exit"
    /\ joined' = TRUE
    /\ \/ /\ op[h] = "stop"
          /\ process' = "end"
          /\ UNCHANGED <<listening, simulation_reset, handlerVars>>
       \/ /\ op[h] \in {"start", "reset"}
          /\ simulation_reset' = TRUE
          /\ listening' = FALSE
          /\ Answer(h)
          /\ UNCHANGED process
    /\ UNCHANGED <<batchVars, wmsVars, late, clockVars, historyVars>>

-----------------------------------------------------------------------------
(* The process                                                             *)

\* server.listen() returns once every thread of the pool is done with its
\* connection, then real_main() returns its exit code.
RealMainReturns ==
    /\ process = "running" /\ ~listening
    /\ \A h \in Handlers : pc[h] = "idle"
    /\ process' = IF simulation_reset THEN "reset" ELSE "end"
    /\ UNCHANGED <<batchVars, wmsVars, listening, simulation_reset, joined, late,
                   clockVars, handlerVars, historyVars>>

\* Labels at which a handler dereferences wms, and at which it uses job_list.
UsesWms == {"ev_test", "add_create", "cancel_check", "queue_call", "stop_call"}
UsesJobList == {"add_map", "cancel_check", "ev_take"}

NullPointer ==
    \/ wmsPc = "boot" /\ \E h \in Handlers : pc[h] \in UsesWms
    \/ wmsPc = "starting" /\ \E h \in Handlers : pc[h] = "add_create" /\ ~TooLarge(arg[h])

EmptyFront == events = <<>> /\ \E h \in Handlers : pc[h] = "ev_take"

\* Two threads use job_list, and the mutex does not keep them apart: only
\* getEventStatuses uses it under the mutex.
JobListRace ==
    \E h \in Handlers :
        /\ pc[h] \in UsesJobList
        /\ \/ wmsPc \in {"terminate", "cancel_erase"}
           \/ \E g \in Handlers \ {h} : /\ pc[g] \in UsesJobList
                                        /\ ~(pc[g] = "ev_take" /\ pc[h] = "ev_take")

DoneJobsRace == wmsPc = "clear" /\ \E h \in Handlers : pc[h] = "ev_take"

\* The workflow is a local variable of the simulation thread's function.
WorkflowGone ==
    wmsPc = "exit" /\ \E h \in Handlers : pc[h] = "add_create" /\ ~TooLarge(arg[h])

\* Two threads add a task to the workflow.
CreateRace == \E h \in Handlers, g \in Handlers :
                 g # h /\ pc[g] = "add_create" /\ pc[h] = "add_create"

\* The process dies; signal_handler turns a segmentation fault into a reset.
Die ==
    /\ process = "running"
    /\ process' \in {"crashed", "reset"}
    /\ UNCHANGED <<batchVars, wmsVars, listening, simulation_reset, joined, late,
                   clockVars, handlerVars, historyVars>>

\* A thread uses what is not there; a thread uses what is gone, or two threads
\* break a container's structure.
Segfault == (NullPointer \/ EmptyFront) /\ Die
Corrupt  == (WorkflowGone \/ JobListRace \/ DoneJobsRace \/ CreateRace) /\ Die

Tick ==
    /\ process = "running" /\ now < MaxNow
    /\ now' = now + 1
    /\ UNCHANGED <<batchVars, wmsVars, processVars, time_start, handlerVars, historyVars>>

Simulate ==
    /\ process = "running"
    /\ WmsStep \/ BatchStep
    /\ UNCHANGED <<processVars, clockVars, handlerVars, historyVars>>

Handle(h) ==
    \/ SkipRead(h) \/ SkipWrite(h)
    \/ ReadClock(h) \/ TestEvents(h) \/ TakeStatus(h) \/ SetServerTime(h) \/ CaughtUp(h)
    \/ RejectJob(h) \/ CreateJob(h) \/ DuplicateTask(h) \/ QueueJob(h) \/ ListJob(h)
    \/ CheckCancel(h) \/ QueueCancel(h) \/ GetQueue(h)
    \/ StartClock(h) \/ StopSimulation(h) \/ JoinThrows(h) \/ Join(h) \/ Joined(h)

\* The process is over.
Over == process # "running" /\ UNCHANGED vars

Next ==
    \/ Simulate \/ Tick \/ Segfault \/ Corrupt \/ RealMainReturns \/ Over
    \/ \E h \in Handlers : Arrive(h) \/ Handle(h)

Spec == Init /\ [][Next]_vars

\* The operating system runs every thread, and a client polls (index.js calls
\* /api/query every second).
Poll == \E h \in Handlers : Request(h, "query") /\ UNCHANGED <<job, arg>>

Fairness ==
    /\ WF_vars(process = "running" /\ WmsStep
               /\ UNCHANGED <<processVars, clockVars, handlerVars, historyVars>>)
    /\ \A h \in Handlers : WF_vars(Handle(h))
    /\ WF_vars(RealMainReturns) /\ WF_vars(Segfault)
    /\ SF_vars(Poll)

FairSpec == Spec /\ Fairness

-----------------------------------------------------------------------------
(* Properties: jobs on their way to the batch service.                     *)

\* The jobs queued for submission that the batch service does not have yet.
InTransit == IF wmsPc = "submit_pop" THEN Tail(toSubmitJobs) ELSE toSubmitJobs

\* All the jobs handed over to the simulation thread, in order.
Handed == submitted \o InTransit

Pushing == {h \in Handlers : pc[h] = "add_push"}

\* A job that has an identifier is in exactly one place: in the hands of one
\* addJob handler, or once in the queue or the batch service (addJob, the
\* submission loop of main(): front, submitJob, pop in three steps).
CreatedJobsAreKept ==
    /\ IsInjective(Handed)
    /\ created = {job[h] : h \in Pushing} \cup (Range(Handed) \ Background)
    /\ \A h \in Pushing : job[h] \notin Range(Handed)
    /\ \A g, h \in Pushing : job[g] = job[h] => g = h

\* Why: main() submits the background jobs before any other.
JobsInv ==
    /\ CreatedJobsAreKept
    /\ wmsPc \in {"boot", "starting", "background"} => submitted = <<>>

\* Jobs reach the batch service in the order in which addJob queued them: what
\* was handed over stays as it is, and new jobs come last.
FirstComeFirstServed ==
    [][\/ Handed' = Handed
       \/ \E j \in Jobs : Handed' = Append(Handed, j)
       \/ wmsPc = "background"]_vars

-----------------------------------------------------------------------------
(* Properties: the ends of jobs, on their way to the clients.              *)

\* The jobs whose ends were reported or are on their way; the news of background
\* jobs that are still in the mailbox are among them.
JobsOf(evs) == [i \in DOMAIN evs |-> evs[i].job]
Received    == IF wmsEvent = NoEvent THEN <<>> ELSE <<wmsEvent.job>>
Ends        == reported \o JobsOf(events) \o Received \o JobsOf(mailbox)

\* The end of a job is reported at most once, and only a job that really ended
\* (was not terminated) is reported, whichever of the threads that call
\* getEventStatuses takes it.
EndsReportedOnce ==
    /\ \A i, k \in DOMAIN Ends : Ends[i] = Ends[k] /\ Ends[i] \in Jobs => i = k
    /\ \A j \in Range(Ends) \cap Jobs : batch[j] = "ended"

\* Why: the batch service knows the jobs it was sent, and no others.
EndsInv ==
    /\ EndsReportedOnce
    /\ \A j \in Jobs : batch[j] # "unknown" <=> j \in Range(submitted)

\* Only a job whose user cancelled it, successfully, is terminated.
TerminatedOnRequest ==
    \A j \in Jobs : batch[j] = "terminated" => j \in cancelled

\* Why: main() terminates only what it finds in cancelJobs.
CancelInv == Range(cancelJobs) \subseteq cancelled /\ TerminatedOnRequest

-----------------------------------------------------------------------------
(* Properties: the clock and the simulation.                               *)

\* No start, stop or reset request has done anything yet.
Serving == /\ ~stop
           /\ \A h \in Handlers : ~(op[h] = "start" /\ pc[h] = "stop_call")

\* The simulation never runs a full second ahead of the clients' clock, however
\* queries and skips interleave: no job ends in a client's future.
SimulationBehindClock == Serving => simulationTime < Clock + Second

\* Why: nobody who is about to set server_time holds a time the clock has not
\* reached, the simulation thread waits only while it is behind the clock, and a
\* handler that is about to store time_start moves the clock forward.
BehindClock ==
    /\ server_time <= Clock
    /\ simulationTime < Clock + Second
    /\ wmsPc = "wait" => simulationTime < Clock
HandlersBehindClock ==
    \A h \in Handlers :
        /\ pc[h] \in {"ev_test", "ev_take", "ev_time"} => arg[h] <= Clock
        /\ pc[h] = "skip_read" => arg[h] >= 0
        /\ pc[h] = "skip_write" => arg[h] <= time_start
RoutesKept ==
    \A h \in Handlers :
        /\ pc[h] \in {"skip_read", "skip_write"} => h \in Sleepers
        /\ pc[h] = "start_clock" => op[h] = "start"
ClockInv == RoutesKept /\ (Serving => BehindClock /\ HandlersBehindClock)

\* What the clients' clock shows never decreases, until start sets it to 0.
StartsClock == \E h \in Handlers : pc[h] = "start_clock" /\ pc'[h] # pc[h]
ClockNeverBack == [][StartsClock \/ now' - time_start' >= now - time_start]_vars

\* However many skips are under way at once, each counts once at most: two that
\* both load time_start before either stores it lose one of them, and a store that
\* comes late lets the clock go back, but neither the clients' clock nor the
\* simulation ever gets further ahead of real time than clients asked for, and
\* the clock is not behind real time before a start.
SkipsCountOnce ==
    /\ Clock <= now + asked
    /\ simulationTime < now + asked + Second
    /\ Serving => now <= Clock

\* Why: no handler holds a time, or a time_start, that is further ahead, and the
\* simulation thread waits only while it is behind such a time.
SkipsInv ==
    /\ RoutesKept
    /\ 0 <= asked /\ 0 <= time_start + asked
    /\ server_time <= now + asked
    /\ simulationTime < now + asked + Second
    /\ wmsPc = "wait" => simulationTime < now + asked
    /\ Serving => time_start <= 0
    /\ \A h \in Handlers :
          /\ pc[h] = "skip_read" => arg[h] >= 0
          /\ pc[h] = "skip_write" => 0 <= arg[h] + asked /\ (Serving => arg[h] <= 0)
          /\ pc[h] \in {"ev_test", "ev_take", "ev_time"} => arg[h] <= now + asked

-----------------------------------------------------------------------------
(* Properties: the end of the process.                                     *)

\* The web server stops listening, and stop ends the process, only after the
\* simulation thread is over and joined; no two handlers wait for it.
EndsAfterSimulation ==
    /\ ~listening \/ process = "end" => wmsPc = "exit" /\ joined
    /\ \A g, h \in Handlers : pc[g] = "join_wait" /\ pc[h] = "join_wait" => g = h
    /\ process = "running" /\ joined => \A h \in Handlers : pc[h] # "join_wait"

-----------------------------------------------------------------------------
(* Refinement.                                                             *)

LifeOf(j) ==
    IF batch[j] = "terminated" THEN "terminated"
    ELSE IF j \in Range(reported) THEN "reported"
    ELSE CASE batch[j] = "ended" -> IF j \in Range(Ends) THEN "ended" ELSE "forgotten"
           [] batch[j] \in {"pending", "running"} -> "batched"
           [] batch[j] = "unknown" -> IF j \in Range(toSubmitJobs) THEN "queued" ELSE "unknown"

Service == INSTANCE JobLifecycle
           WITH life <- [j \in Jobs |-> LifeOf(j)], quits <- cancelled

\* Why: a job main() is about to pop was submitted; a job leaves job_list when it
\* is cancelled or reported; with one handler, a job is listed, or its cancellation
\* queued, before its end can be reported.
LifeInv ==
    /\ wmsPc = "submit_pop" => Head(toSubmitJobs) \in Range(submitted)
    /\ \A j \in created \ (job_list \cup cancelled \cup Range(reported)) :
          \E h \in Handlers : pc[h] \in {"add_push", "add_map"} /\ job[h] = j
    /\ job_list \subseteq Range(Handed) \ Range(reported)
    /\ \A h \in Handlers : pc[h] \in {"add_map", "cancel_push"}
                          => job[h] \in Range(Handed) \ Range(reported)

\* A server whose requests are served one at a time keeps the promises of
\* JobLifecycle.
ImplementsJobLifecycle == Service!Spec

-----------------------------------------------------------------------------
(* Liveness, under FairSpec.                                               *)

Stopped == process # "running"

\* A job that has an identifier reaches the batch service.
JobsAreSubmitted == \A j \in Jobs : j \in created ~> j \in Range(submitted) \/ Stopped

\* The end of a job that main() has seen is taken by some getEventStatuses.
EventsAreTaken == \A j \in Jobs : j \in Range(JobsOf(events))
                                 ~> j \notin Range(JobsOf(events)) \/ Stopped

\* addTime answers: its loop ends, because polls keep raising server_time, unless
\* a start, stop or reset stops the simulation it waits for.
AddTimeAnswers ==
    \A h \in Handlers : op[h] = "addTime" ~> op[h] = "none" \/ stop \/ Stopped

\* A start or reset request that the server took ends its process, so that
\* main() can fork a new one.
ResetRestarts == stop ~> Stopped

-----------------------------------------------------------------------------
(* What comments of the code say and the code does not do.                 *)

\* workflow_manager.cpp:230, "@return true Successfully canceled.": once main()
\* has dealt with a cancellation that was answered success, the job is neither
\* waiting nor running.
CancelledJobsAreGone ==
    \A j \in cancelled \ Range(cancelJobs) : batch[j] \notin {"pending", "running"}
=============================================================================
