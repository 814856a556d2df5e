--------------------------- MODULE WorkflowManager ---------------------------
(***************************************************************************)
(* The simulation thread: WorkflowManager::main() of                       *)
(* server/workflow_manager.cpp, one action per step between two accesses   *)
(* to state the web server's threads share, and the members those threads  *)
(* call.  A critical section under queue_mutex is one action: nothing in   *)
(* it waits, so its only visible effect is that it is indivisible.         *)
(***************************************************************************)
EXTENDS Integers, BatchService

CONSTANT Second   \* clock ticks per second of simulated time

ASSUME SecondAssumption == Second \in Nat \ {0}

VARIABLES
    stop,            \* asked to leave main()
    events,          \* ends of jobs, for the web server to report
    cancelJobs,      \* names of jobs to terminate
    doneJobs,        \* reported jobs, for main() to forget
    toSubmitJobs,    \* created jobs, for main() to submit
    job_list,        \* the jobs job_list maps to a non-null pointer
    server_time,     \* how far the clients' clock lets the simulation go
    simulationTime,  \* how far the simulation is
    wmsPc,           \* where the simulation thread is
    wmsEvent         \* the event waitForNextEvent returned

queueVars == <<events, cancelJobs, doneJobs, toSubmitJobs, job_list>>
timeVars  == <<server_time, simulationTime>>
wmsVars   == <<stop, queueVars, timeVars, wmsPc, wmsEvent>>

NoEvent == [kind |-> "none"]

WmsLabel ==
    {"boot",          \* createAndLaunchSimulation has not set this->wms yet
     "starting",      \* main() has not created the job manager yet
     "background", "submit", "submit_job", "submit_pop",
     "clear", "cancel", "terminate", "cancel_erase", "cancel_pop",
     "advance", "wait", "push_event", "check_stop",
     "exit"}          \* the thread can be joined

WmsTypeOK ==
    /\ stop \in BOOLEAN
    /\ events \in Seq(JobEvent)
    /\ cancelJobs \in Seq(Jobs)
    /\ doneJobs \subseteq Jobs
    /\ toSubmitJobs \in Seq(Jobs)
    /\ job_list \subseteq Jobs
    /\ server_time \in Int
    /\ simulationTime \in Nat
    /\ wmsPc \in WmsLabel
    /\ wmsEvent \in JobEvent \cup {NoEvent}
    /\ wmsPc = "submit_job" \/ wmsPc = "submit_pop" => toSubmitJobs # <<>>
    /\ wmsPc \in {"terminate", "cancel_erase", "cancel_pop"} => cancelJobs # <<>>
    /\ (wmsPc = "push_event") <=> (wmsEvent # NoEvent)

WmsInit ==
    /\ stop = FALSE
    /\ events = <<>>
    /\ cancelJobs = <<>>
    /\ doneJobs = {}
    /\ toSubmitJobs = <<>>
    /\ job_list = {}
    /\ server_time = 0
    /\ simulationTime = 0
    /\ wmsPc = "boot"
    /\ wmsEvent = NoEvent

-----------------------------------------------------------------------------
(* The simulation thread.                                                  *)

Goto(from, to) == wmsPc = from /\ wmsPc' = to

\* createAndLaunchSimulation adds the WMS to the simulation, then launches it.
Boot ==
    /\ Goto("boot", "starting")
    /\ UNCHANGED <<batchVars, stop, queueVars, timeVars, wmsEvent>>

\* main() creates its job manager ...
CreateJobManager ==
    /\ Goto("starting", "background")
    /\ UNCHANGED <<batchVars, stop, queueVars, timeVars, wmsEvent>>

\* ... and submits the background jobs in order.
SubmitBackground ==
    /\ Goto("background", "submit")
    /\ batch' = [j \in AllJobs |-> IF j \in Background THEN "pending" ELSE batch[j]]
    /\ submitted' = submitted \o background_jobs
    /\ UNCHANGED <<mailbox, stop, queueVars, timeVars, wmsEvent>>

\* Mutant of TestSubmit: a do-while loop.
TestSubmitLate ==
    /\ Goto("submit", "submit_job")
    /\ UNCHANGED <<batchVars, stop, queueVars, timeVars, wmsEvent>>

\* while (!toSubmitJobs.empty()): tested without the mutex.
TestSubmit ==
    /\ Goto("submit", IF toSubmitJobs = <<>> THEN "clear" ELSE "submit_job")
    /\ UNCHANGED <<batchVars, stop, queueVars, timeVars, wmsEvent>>

SubmitJob ==
    /\ Goto("submit_job", "submit_pop")
    /\ Submit(Head(toSubmitJobs))
    /\ UNCHANGED <<stop, queueVars, timeVars, wmsEvent>>

\* Mutant of PopSubmitted: empties the queue, as main() does with doneJobs.
PopAllSubmitted ==
    /\ Goto("submit_pop", "submit")
    /\ toSubmitJobs' = <<>>
    /\ UNCHANGED <<batchVars, stop, events, cancelJobs, doneJobs, job_list,
                   timeVars, wmsEvent>>

PopSubmitted ==
    /\ Goto("submit_pop", "submit")
    /\ toSubmitJobs' = Tail(toSubmitJobs)
    /\ UNCHANGED <<batchVars, stop, events, cancelJobs, doneJobs, job_list,
                   timeVars, wmsEvent>>

\* while (not doneJobs.empty()) doneJobs.pop(): without the mutex.
ClearDone ==
    /\ Goto("clear", "cancel")
    /\ doneJobs' = {}
    /\ UNCHANGED <<batchVars, stop, events, cancelJobs, toSubmitJobs, job_list,
                   timeVars, wmsEvent>>

TestCancel ==
    /\ Goto("cancel", IF cancelJobs = <<>> THEN "advance" ELSE "terminate")
    /\ UNCHANGED <<batchVars, stop, queueVars, timeVars, wmsEvent>>

\* terminateJob(job_list[job_name]): a name that is no longer in the list
\* stands for the null pointer, which terminateJob refuses.  What it throws is
\* caught.
TerminateJob ==
    /\ Goto("terminate", "cancel_erase")
    /\ IF Head(cancelJobs) \in job_list
       THEN Terminate(Head(cancelJobs))
       ELSE UNCHANGED batchVars
    /\ UNCHANGED <<stop, queueVars, timeVars, wmsEvent>>

EraseCancelled ==
    /\ Goto("cancel_erase", "cancel_pop")
    /\ job_list' = job_list \ {Head(cancelJobs)}
    /\ UNCHANGED <<batchVars, stop, events, cancelJobs, doneJobs, toSubmitJobs,
                   timeVars, wmsEvent>>

PopCancelled ==
    /\ Goto("cancel_pop", "cancel")
    /\ cancelJobs' = Tail(cancelJobs)
    /\ UNCHANGED <<batchVars, stop, events, doneJobs, toSubmitJobs, job_list,
                   timeVars, wmsEvent>>

\* Mutant of TestAdvance: goes on when the time is reached.
TestAdvanceBeyond ==
    /\ Goto("advance", IF simulationTime <= server_time THEN "wait" ELSE "check_stop")
    /\ UNCHANGED <<batchVars, stop, queueVars, timeVars, wmsEvent>>

\* while (simulationTime < server_time)
TestAdvance ==
    /\ Goto("advance", IF simulationTime < server_time THEN "wait" ELSE "check_stop")
    /\ UNCHANGED <<batchVars, stop, queueVars, timeVars, wmsEvent>>

\* waitForNextEvent(1.0) returns the next event, at most one second of
\* simulated time later.  Events of pilot jobs are ignored.
WaitEvent ==
    /\ wmsPc = "wait"
    /\ Receive
    /\ \E d \in 0..Second : simulationTime' = simulationTime + d
    /\ IF Head(mailbox) \in PilotEvent
       THEN wmsPc' = "advance" /\ UNCHANGED wmsEvent
       ELSE wmsPc' = "push_event" /\ wmsEvent' = Head(mailbox)
    /\ UNCHANGED <<stop, queueVars, server_time>>

\* waitForNextEvent(1.0) returns no event: one second has passed.
WaitTimeout ==
    /\ Goto("wait", "advance")
    /\ ReceiveNone
    /\ simulationTime' = simulationTime + Second
    /\ UNCHANGED <<stop, queueVars, server_time, wmsEvent>>

PushEvent ==
    /\ Goto("push_event", "advance")
    /\ events' = Append(events, wmsEvent)
    /\ wmsEvent' = NoEvent
    /\ UNCHANGED <<batchVars, stop, cancelJobs, doneJobs, toSubmitJobs, job_list,
                   timeVars>>

\* Mutants of CheckStop: one that never leaves, one that never looks at the
\* queues again.
CheckStopNever ==
    /\ Goto("check_stop", "submit")
    /\ UNCHANGED <<batchVars, stop, queueVars, timeVars, wmsEvent>>
CheckStopInner ==
    /\ Goto("check_stop", IF stop THEN "exit" ELSE "advance")
    /\ UNCHANGED <<batchVars, stop, queueVars, timeVars, wmsEvent>>

\* if (stop) break; usleep(100);
CheckStop ==
    /\ Goto("check_stop", IF stop THEN "exit" ELSE "submit")
    /\ UNCHANGED <<batchVars, stop, queueVars, timeVars, wmsEvent>>

\* Simulated time passes for the batch service only while the WMS waits.
BatchStep ==
    /\ wmsPc = "wait"
    /\ \E j \in AllJobs : BatchStart(j) \/ BatchEnd(j)
    /\ UNCHANGED wmsVars

WmsStep ==
    \/ Boot \/ CreateJobManager \/ SubmitBackground
    \/ TestSubmit \/ SubmitJob \/ PopSubmitted
    \/ ClearDone
    \/ TestCancel \/ TerminateJob \/ EraseCancelled \/ PopCancelled
    \/ TestAdvance \/ WaitEvent \/ WaitTimeout \/ PushEvent
    \/ CheckStop

-----------------------------------------------------------------------------
(* The members the web server's threads call: their effect on the queues.  *)
(* The time and the simulation thread's own variables are the caller's.    *)

\* stopServer()
StopServer == stop' = TRUE

\* Mutant of PushJob: a stack for a queue.
PushJobFirst(j) ==
    /\ toSubmitJobs' = <<j>> \o toSubmitJobs
    /\ UNCHANGED <<events, cancelJobs, doneJobs, job_list>>

\* addJob, under the mutex
PushJob(j) ==
    /\ toSubmitJobs' = Append(toSubmitJobs, j)
    /\ UNCHANGED <<events, cancelJobs, doneJobs, job_list>>

\* Mutant of MapJob: the job is not listed.
MapNoJob(j) == UNCHANGED queueVars

\* addJob, after the mutex: job_list[job->getName()] = job
MapJob(j) ==
    /\ job_list' = job_list \cup {j}
    /\ UNCHANGED <<events, cancelJobs, doneJobs, toSubmitJobs>>

\* cancelJob, under the mutex
PushCancel(j) ==
    /\ cancelJobs' = Append(cancelJobs, j)
    /\ UNCHANGED <<events, doneJobs, toSubmitJobs, job_list>>

\* Mutant of TakeEvent: events.pop() is missing.
TakeEventKept ==
    /\ doneJobs' = doneJobs \cup {Head(events).job}
    /\ job_list' = job_list \ {Head(events).job}
    /\ UNCHANGED <<events, cancelJobs, toSubmitJobs>>

\* getEventStatuses, under the mutex: the first event leaves the queue and its
\* job the list of jobs a user may still hear of.
TakeEvent ==
    /\ events' = Tail(events)
    /\ doneJobs' = doneJobs \cup {Head(events).job}
    /\ job_list' = job_list \ {Head(events).job}
    /\ UNCHANGED <<cancelJobs, toSubmitJobs>>
=============================================================================
