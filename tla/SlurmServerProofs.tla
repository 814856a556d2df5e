-------------------------- MODULE SlurmServerProofs --------------------------
(***************************************************************************)
(* Proofs about SlurmServer, for any number of jobs, threads and requests: *)
(* its type invariant, its clock, its cancellations and its end.           *)
(***************************************************************************)
EXTENDS SlurmServer, SequenceTheorems, TLAPS

\* No step of main() spoils a type; it takes the head of no empty queue.
LEMMA WmsTypes ==
    ASSUME BatchTypeOK, WmsTypeOK, WmsStep
    PROVE  BatchTypeOK' /\ WmsTypeOK'
<1> USE SecondAssumption, BackgroundAssumption
        DEF BatchTypeOK, WmsTypeOK, batchVars, queueVars, timeVars, Goto, WmsLabel, NoEvent
<1>1. CASE Boot
  BY <1>1 DEF Boot
<1>2. CASE CreateJobManager
  BY <1>2 DEF CreateJobManager
<1>3. CASE SubmitBackground
  BY <1>3 DEF SubmitBackground, AllJobs, BatchState
<1>4. CASE TestSubmit
  BY <1>4 DEF TestSubmit
<1>5. CASE SubmitJob
  BY <1>5 DEF SubmitJob, Submit, AllJobs, BatchState
<1>6. CASE PopSubmitted
  BY <1>6 DEF PopSubmitted
<1>7. CASE ClearDone
  BY <1>7 DEF ClearDone
<1>8. CASE TestCancel
  BY <1>8 DEF TestCancel
<1>9. CASE TerminateJob
  BY <1>9 DEF TerminateJob, Terminate, AllJobs, BatchState
<1>10. CASE EraseCancelled
  BY <1>10 DEF EraseCancelled
<1>11. CASE PopCancelled
  BY <1>11 DEF PopCancelled
<1>12. CASE TestAdvance
  BY <1>12 DEF TestAdvance
<1>13. CASE WaitEvent
  BY <1>13 DEF WaitEvent, Receive, Event, JobEvent, PilotEvent
<1>14. CASE WaitTimeout
  BY <1>14 DEF WaitTimeout, ReceiveNone
<1>15. CASE PushEvent
  BY <1>15 DEF PushEvent, JobEvent
<1>16. CASE CheckStop
  BY <1>16 DEF CheckStop
<1> QED
  BY <1>1, <1>2, <1>3, <1>4, <1>5, <1>6, <1>7, <1>8, <1>9, <1>10, <1>11, <1>12,
     <1>13, <1>14, <1>15, <1>16 DEF WmsStep

-----------------------------------------------------------------------------
(* Typing of the handlers' variables.                                      *)

LEMMA UnchangedTypes ==
    /\ BatchTypeOK /\ UNCHANGED batchVars => BatchTypeOK'
    /\ WmsTypeOK /\ UNCHANGED wmsVars => WmsTypeOK'
    /\ ProcessTypeOK /\ UNCHANGED processVars => ProcessTypeOK'
    /\ ClockTypeOK /\ UNCHANGED clockVars => ClockTypeOK'
    /\ HandlerTypeOK /\ UNCHANGED handlerVars => HandlerTypeOK'
    /\ HistoryTypeOK /\ UNCHANGED historyVars => HistoryTypeOK'
<1>1. BatchTypeOK /\ UNCHANGED batchVars => BatchTypeOK'
  BY DEF BatchTypeOK, batchVars
<1>2. WmsTypeOK /\ UNCHANGED wmsVars => WmsTypeOK'
  BY DEF WmsTypeOK, wmsVars, queueVars, timeVars
<1>3. ProcessTypeOK /\ UNCHANGED processVars => ProcessTypeOK'
  BY DEF ProcessTypeOK, processVars
<1>4. ClockTypeOK /\ UNCHANGED clockVars => ClockTypeOK'
  BY DEF ClockTypeOK, clockVars
<1>5. HandlerTypeOK /\ UNCHANGED handlerVars => HandlerTypeOK'
  BY DEF HandlerTypeOK, handlerVars
<1>6. HistoryTypeOK /\ UNCHANGED historyVars => HistoryTypeOK'
  BY DEF HistoryTypeOK, historyVars
<1> QED
  BY <1>1, <1>2, <1>3, <1>4, <1>5, <1>6

LEMMA AnswerTypes ==
    ASSUME HandlerTypeOK, NEW h \in Handlers, Answer(h)
    PROVE  HandlerTypeOK'
BY DEF HandlerTypeOK, Answer, Label, JobLabel

LEMMA GoOnTypes ==
    ASSUME HandlerTypeOK, NEW h \in Handlers, NEW label \in Label, GoOn(h, label),
           label \in JobLabel => job[h] \in Jobs,
           \/ UNCHANGED arg
           \/ \E v \in Int : arg' = [arg EXCEPT ![h] = v]
    PROVE  HandlerTypeOK'
BY DEF HandlerTypeOK, GoOn

LEMMA HandleTypes ==
    ASSUME TypeOK, NEW h \in Handlers, Handle(h)
    PROVE  TypeOK'
<1> USE UnchangedTypes DEF TypeOK
<1>1. CASE SkipRead(h)
  <2>1. time_start - arg[h] \in Int
    BY DEF HandlerTypeOK, ClockTypeOK
  <2>2. HandlerTypeOK'
    BY <1>1, <2>1, GoOnTypes DEF SkipRead, Label, JobLabel
  <2>3. HistoryTypeOK'
    BY <1>1 DEF SkipRead, HandlerTypeOK, HistoryTypeOK
  <2> QED
    BY <1>1, <2>2, <2>3 DEF SkipRead
<1>2. CASE SkipWrite(h)
  <2>1. HandlerTypeOK'
    BY <1>2, GoOnTypes, 0 \in Int DEF SkipWrite, Label, JobLabel
  <2>2. ClockTypeOK'
    BY <1>2 DEF SkipWrite, HandlerTypeOK, ClockTypeOK
  <2> QED
    BY <1>2, <2>1, <2>2 DEF SkipWrite
<1>3. CASE ReadClock(h)
  <2>1. Whole(Clock) \in Int
    BY SecondAssumption DEF Whole, Clock, ClockTypeOK
  <2>2. HandlerTypeOK'
    BY <1>3, <2>1, GoOnTypes DEF ReadClock, Label, JobLabel
  <2> QED
    BY <1>3, <2>2 DEF ReadClock
<1>4. CASE TestEvents(h)
  BY <1>4, GoOnTypes DEF TestEvents, Label, JobLabel
<1>5. CASE TakeStatus(h)
  <2>1. HandlerTypeOK'
    BY <1>5, GoOnTypes DEF TakeStatus, Label, JobLabel
  <2>2. WmsTypeOK'
    <3>1. Head(events).job \in Jobs /\ Tail(events) \in Seq(JobEvent)
      <4>1. events \in Seq(JobEvent) /\ events # <<>>
        BY <1>5 DEF TakeStatus, WmsTypeOK
      <4>2. Head(events) \in JobEvent /\ Tail(events) \in Seq(JobEvent)
        BY <4>1, HeadTailProperties
      <4> QED
        BY <4>2 DEF JobEvent
    <3> QED
      BY <1>5, <3>1 DEF TakeStatus, WmsTypeOK, TakeEvent, timeVars
  <2>3. HistoryTypeOK'
    BY <1>5 DEF TakeStatus, HistoryTypeOK, WmsTypeOK, JobEvent
  <2> QED
    BY <1>5, <2>1, <2>2, <2>3 DEF TakeStatus
<1>6. CASE SetServerTime(h)
  <2>1. HandlerTypeOK'
    BY <1>6, GoOnTypes, AnswerTypes DEF SetServerTime, Label, JobLabel
  <2>2. WmsTypeOK'
    BY <1>6 DEF SetServerTime, WmsTypeOK, HandlerTypeOK, queueVars
  <2> QED
    BY <1>6, <2>1, <2>2 DEF SetServerTime
<1>7. CASE CaughtUp(h)
  BY <1>7, AnswerTypes DEF CaughtUp
<1>8. CASE RejectJob(h)
  BY <1>8, AnswerTypes DEF RejectJob
<1>9. CASE CreateJob(h)
  <2>1. HandlerTypeOK'
    BY <1>9 DEF CreateJob, HandlerTypeOK, Label, JobLabel
  <2>2. HistoryTypeOK'
    BY <1>9 DEF CreateJob, HistoryTypeOK
  <2> QED
    BY <1>9, <2>1, <2>2 DEF CreateJob
<1>10. CASE DuplicateTask(h)
  BY <1>10, AnswerTypes DEF DuplicateTask
<1>11. CASE QueueJob(h)
  <2>1. HandlerTypeOK'
    BY <1>11, GoOnTypes DEF QueueJob, At, HandlerTypeOK, Label, JobLabel
  <2>2. WmsTypeOK'
    <3>1. job[h] \in Jobs
      BY <1>11 DEF QueueJob, HandlerTypeOK, At, JobLabel
    <3>2. Append(toSubmitJobs, job[h]) \in Seq(Jobs) /\ Append(toSubmitJobs, job[h]) # <<>>
      BY <3>1, AppendProperties DEF WmsTypeOK
    <3> QED
      BY <1>11, <3>2 DEF QueueJob, WmsTypeOK, PushJob, timeVars
  <2> QED
    BY <1>11, <2>1, <2>2 DEF QueueJob
<1>12. CASE ListJob(h)
  <2>1. HandlerTypeOK'
    BY <1>12, AnswerTypes DEF ListJob
  <2>2. WmsTypeOK'
    <3>1. job[h] \in Jobs
      BY <1>12 DEF ListJob, HandlerTypeOK, At, JobLabel
    <3> QED
      BY <1>12, <3>1 DEF ListJob, WmsTypeOK, MapJob, timeVars
  <2> QED
    BY <1>12, <2>1, <2>2 DEF ListJob
<1>13. CASE CheckCancel(h)
  BY <1>13, GoOnTypes, AnswerTypes DEF CheckCancel, At, HandlerTypeOK, Label, JobLabel
<1>14. CASE QueueCancel(h)
  <2>1. HandlerTypeOK'
    BY <1>14, AnswerTypes DEF QueueCancel
  <2>2. WmsTypeOK'
    <3>1. job[h] \in Jobs
      BY <1>14 DEF QueueCancel, HandlerTypeOK, At, JobLabel
    <3>2. Append(cancelJobs, job[h]) \in Seq(Jobs) /\ Append(cancelJobs, job[h]) # <<>>
      BY <3>1, AppendProperties DEF WmsTypeOK
    <3> QED
      BY <1>14, <3>2 DEF QueueCancel, WmsTypeOK, PushCancel, timeVars
  <2>3. HistoryTypeOK'
    BY <1>14 DEF QueueCancel, HistoryTypeOK, HandlerTypeOK, At, JobLabel
  <2> QED
    BY <1>14, <2>1, <2>2, <2>3 DEF QueueCancel
<1>15. CASE GetQueue(h)
  BY <1>15, AnswerTypes DEF GetQueue
<1>16. CASE StartClock(h)
  <2>1. HandlerTypeOK'
    BY <1>16, GoOnTypes DEF StartClock, Label, JobLabel
  <2>2. ClockTypeOK'
    BY <1>16 DEF StartClock, ClockTypeOK
  <2> QED
    BY <1>16, <2>1, <2>2 DEF StartClock
<1>17. CASE StopSimulation(h)
  <2>1. HandlerTypeOK'
    BY <1>17, GoOnTypes DEF StopSimulation, Label, JobLabel
  <2>2. WmsTypeOK'
    BY <1>17 DEF StopSimulation, WmsTypeOK, StopServer, queueVars, timeVars
  <2> QED
    BY <1>17, <2>1, <2>2 DEF StopSimulation
<1>18. CASE JoinThrows(h)
  BY <1>18, AnswerTypes DEF JoinThrows
<1>19. CASE Join(h)
  BY <1>19, GoOnTypes DEF Join, Label, JobLabel
<1>20. CASE Joined(h)
  <2>1. HandlerTypeOK'
    BY <1>20, AnswerTypes DEF Joined
  <2>2. ProcessTypeOK'
    BY <1>20 DEF Joined, ProcessTypeOK
  <2> QED
    BY <1>20, <2>1, <2>2 DEF Joined
<1> QED
  BY <1>1, <1>2, <1>3, <1>4, <1>5, <1>6, <1>7, <1>8, <1>9, <1>10, <1>11, <1>12,
     <1>13, <1>14, <1>15, <1>16, <1>17, <1>18, <1>19, <1>20 DEF Handle

LEMMA ArriveTypes ==
    ASSUME TypeOK, NEW h \in Handlers, Arrive(h)
    PROVE  TypeOK'
<1>1. BatchTypeOK' /\ WmsTypeOK' /\ ProcessTypeOK' /\ ClockTypeOK' /\ HistoryTypeOK'
  BY UnchangedTypes DEF Arrive, Request, Connected, ProcessTypeOK, TypeOK
<1>2. ASSUME NEW r \in Routes \ {"addTime", "addJob", "cancelJob"},
             Request(h, r), UNCHANGED <<job, arg>>
      PROVE  HandlerTypeOK'
  BY <1>2, ServerAssumption
     DEF TypeOK, HandlerTypeOK, Request, Entry, AllRoutes, Label, JobLabel
<1>3. ASSUME NEW i \in Increments, Request(h, "addTime"), UNCHANGED job,
             arg' = [arg EXCEPT ![h] = i]
      PROVE  HandlerTypeOK'
  BY <1>3, ServerAssumption
     DEF TypeOK, HandlerTypeOK, Request, Entry, AllRoutes, Label, JobLabel
<1>4. ASSUME NEW n \in RequestSizes, Request(h, "addJob"), UNCHANGED job,
             arg' = [arg EXCEPT ![h] = n]
      PROVE  HandlerTypeOK'
  BY <1>4, ServerAssumption
     DEF TypeOK, HandlerTypeOK, Request, Entry, AllRoutes, Label, JobLabel
<1>5. ASSUME NEW j \in Jobs, Request(h, "cancelJob"), UNCHANGED arg,
             job' = [job EXCEPT ![h] = j]
      PROVE  HandlerTypeOK'
  BY <1>5 DEF TypeOK, HandlerTypeOK, Request, Entry, AllRoutes, Label, JobLabel
<1> QED
  BY <1>1, <1>2, <1>3, <1>4, <1>5 DEF Arrive, TypeOK

LEMMA BatchStepTypes ==
    ASSUME BatchTypeOK, BatchStep
    PROVE  BatchTypeOK'
<1>1. PICK j \in AllJobs : BatchStart(j) \/ BatchEnd(j)
  BY DEF BatchStep
<1>2. batch' \in [AllJobs -> BatchState]
  BY <1>1 DEF BatchTypeOK, BatchStart, BatchEnd, BatchState
<1>3. submitted' \in Seq(AllJobs)
  BY <1>1 DEF BatchTypeOK, BatchStart, BatchEnd
<1>4. mailbox' \in Seq(Event)
  <2>1. CASE BatchStart(j)
    BY <2>1 DEF BatchTypeOK, BatchStart, Event, PilotEvent
  <2>2. CASE BatchEnd(j)
    <3>1. \E e \in Event : mailbox' = Append(mailbox, e)
      BY <2>2 DEF BatchEnd, Event, PilotEvent, JobEvent
    <3> QED
      BY <3>1 DEF BatchTypeOK
  <2> QED
    BY <1>1, <2>1, <2>2
<1> QED
  BY <1>2, <1>3, <1>4 DEF BatchTypeOK

\* Every variable keeps its type: TypeOK is inductive, because a handler of
\* addJob or cancelJob holds a job, and main() uses the head of a queue only
\* while the queue is not empty, although it tested the queue steps before.
THEOREM TypeCorrect == Spec => []TypeOK
<1>1. Init => TypeOK
  <2> SUFFICES ASSUME Init PROVE TypeOK
    OBVIOUS
  <2>1. BatchTypeOK
    BY DEF Init, BatchInit, BatchTypeOK, BatchState
  <2>2. WmsTypeOK
    <3>1. events \in Seq(JobEvent) /\ cancelJobs \in Seq(Jobs) /\ toSubmitJobs \in Seq(Jobs)
      BY EmptySeq DEF Init, WmsInit
    <3>2. stop \in BOOLEAN /\ doneJobs \subseteq Jobs /\ job_list \subseteq Jobs
      BY DEF Init, WmsInit
    <3>3. server_time \in Int /\ simulationTime \in Nat
      BY DEF Init, WmsInit
    <3>4. wmsPc = "boot" /\ wmsEvent = NoEvent
      BY DEF Init, WmsInit
    <3> QED
      BY <3>1, <3>2, <3>3, <3>4 DEF WmsTypeOK, WmsLabel
  <2>3. HandlerTypeOK
    BY DEF Init, HandlerTypeOK, Label, JobLabel
  <2>4. ProcessTypeOK
    BY DEF Init, ProcessTypeOK
  <2>5. ClockTypeOK
    BY DEF Init, ClockTypeOK
  <2>6. reported \in Seq(Jobs)
    BY EmptySeq DEF Init
  <2> QED
    BY <2>1, <2>2, <2>3, <2>4, <2>5, <2>6 DEF Init, TypeOK, HistoryTypeOK
<1>2. TypeOK /\ [Next]_vars => TypeOK'
  <2> SUFFICES ASSUME TypeOK, [Next]_vars
               PROVE  TypeOK'
    OBVIOUS
  <2>1. CASE Simulate
    <3>1. BatchTypeOK' /\ WmsTypeOK'
      BY <2>1, WmsTypes, BatchStepTypes, UnchangedTypes DEF Simulate, BatchStep, TypeOK
    <3> QED
      BY <2>1, <3>1, UnchangedTypes DEF Simulate, TypeOK
  <2>2. CASE Tick
    BY <2>2, UnchangedTypes DEF Tick, TypeOK, ClockTypeOK
  <2>3. CASE Segfault \/ Corrupt
    BY <2>3, UnchangedTypes DEF Segfault, Corrupt, Die, TypeOK, ProcessTypeOK
  <2>4. CASE RealMainReturns
    BY <2>4, UnchangedTypes DEF RealMainReturns, TypeOK, ProcessTypeOK
  <2>5. CASE Over \/ UNCHANGED vars
    BY <2>5, UnchangedTypes DEF Over, vars, TypeOK
  <2>6. ASSUME NEW h \in Handlers, Arrive(h)
        PROVE  TypeOK'
    BY <2>6, ArriveTypes
  <2>7. ASSUME NEW h \in Handlers, Handle(h)
        PROVE  TypeOK'
    BY <2>7, HandleTypes
  <2> QED
    BY <2>1, <2>2, <2>3, <2>4, <2>5, <2>6, <2>7 DEF Next
<1> QED
  BY <1>1, <1>2, PTL DEF Spec

-----------------------------------------------------------------------------
(* The simulation stays behind the clock, when one thread serves addTime.   *)

LEMMA RoutesKeptStep ==
    ASSUME TypeOK, RoutesKept, [Next]_vars
    PROVE  RoutesKept'
<1> USE DEF RoutesKept, TypeOK, HandlerTypeOK
<1>1. CASE UNCHANGED handlerVars
  BY <1>1 DEF handlerVars
<1>2. ASSUME NEW h \in Handlers, Arrive(h)
      PROVE  RoutesKept'
  BY <1>2, ServerAssumption DEF Arrive, Request, Entry, AllRoutes
<1>3. ASSUME NEW h \in Handlers, Answer(h)
      PROVE  RoutesKept'
  BY <1>3 DEF Answer
<1>4. ASSUME NEW h \in Handlers, NEW label, label \notin {"skip_read", "skip_write", "start_clock"},
             GoOn(h, label)
      PROVE  RoutesKept'
  BY <1>4 DEF GoOn
<1>5. ASSUME NEW h \in Handlers, SkipRead(h)
      PROVE  RoutesKept'
  BY <1>5 DEF SkipRead, GoOn, At
<1>6. ASSUME NEW h \in Handlers, CreateJob(h)
      PROVE  RoutesKept'
  BY <1>6 DEF CreateJob
<1>7. ASSUME NEW h \in Handlers, Handle(h)
      PROVE  RoutesKept'
  <2>1. CASE SkipWrite(h) \/ ReadClock(h) \/ TestEvents(h) \/ TakeStatus(h) \/ SetServerTime(h)
    BY <2>1, <1>3, <1>4 DEF SkipWrite, ReadClock, TestEvents, TakeStatus, SetServerTime
  <2>2. CASE \/ CaughtUp(h) \/ RejectJob(h) \/ DuplicateTask(h) \/ ListJob(h)
             \/ QueueCancel(h) \/ GetQueue(h) \/ JoinThrows(h)
    BY <2>2, <1>3 DEF CaughtUp, RejectJob, DuplicateTask, ListJob, QueueCancel, GetQueue, JoinThrows
  <2>3. CASE QueueJob(h) \/ CheckCancel(h) \/ StartClock(h) \/ StopSimulation(h) \/ Join(h)
    BY <2>3, <1>3, <1>4 DEF QueueJob, CheckCancel, StartClock, StopSimulation, Join
  <2>4. CASE Joined(h)
    BY <2>4, <1>1, <1>3 DEF Joined
  <2> QED
    BY <1>5, <1>6, <1>7, <2>1, <2>2, <2>3, <2>4 DEF Handle
<1> QED
  BY <1>1, <1>2, <1>7
     DEF Next, Simulate, Tick, Segfault, Corrupt, Die, RealMainReturns, Over, vars

\* Once a start, stop or reset request had an effect, the server never again
\* counts as serving.
LEMMA ServingBackward ==
    ASSUME TypeOK, [Next]_vars, Serving'
    PROVE  Serving
<1> USE DEF Serving, TypeOK, WmsTypeOK, HandlerTypeOK
<1>1. CASE UNCHANGED <<stop, pc, op>>
  BY <1>1
<1>2. CASE Simulate
  <2>1. UNCHANGED stop
    BY <1>2 DEF Simulate, WmsStep, BatchStep, Boot, CreateJobManager, SubmitBackground,
       TestSubmit, SubmitJob, PopSubmitted, ClearDone, TestCancel, TerminateJob,
       EraseCancelled, PopCancelled, TestAdvance, WaitEvent, WaitTimeout, PushEvent,
       CheckStop, wmsVars
  <2> QED
    BY <1>1, <1>2, <2>1 DEF Simulate, handlerVars
<1>3. ASSUME NEW h \in Handlers, Arrive(h)
      PROVE  Serving
  BY <1>3 DEF Arrive, Request, At, wmsVars
<1>4. ASSUME NEW h \in Handlers, Handle(h)
      PROVE  Serving
  <2>1. ~stop
    BY <1>4 DEF Handle, SkipRead, SkipWrite, ReadClock, TestEvents, TakeStatus, SetServerTime,
       CaughtUp, RejectJob, CreateJob, DuplicateTask, QueueJob, ListJob, CheckCancel,
       QueueCancel, GetQueue, StartClock, StopSimulation, StopServer, JoinThrows, Join,
       Joined, wmsVars
  <2>2. ~StopSimulation(h)
    BY DEF StopSimulation, StopServer
  <2>3. pc[h] # "stop_call"
    BY <1>4, <2>2
       DEF Handle, SkipRead, SkipWrite, ReadClock, TestEvents, TakeStatus, SetServerTime,
       CaughtUp, RejectJob, CreateJob, DuplicateTask, QueueJob, ListJob, CheckCancel,
       QueueCancel, GetQueue, StartClock, JoinThrows, Join, Joined, At
  <2>4. \A g \in Handlers \ {h} : op'[g] = op[g] /\ pc'[g] = pc[g]
    BY <1>4
       DEF Handle, SkipRead, SkipWrite, ReadClock, TestEvents, TakeStatus, SetServerTime,
       CaughtUp, RejectJob, CreateJob, DuplicateTask, QueueJob, ListJob, CheckCancel,
       QueueCancel, GetQueue, StartClock, StopSimulation, JoinThrows, Join,
       Joined, GoOn, Answer, handlerVars
  <2> QED
    BY <2>1, <2>3, <2>4
<1> QED
  BY <1>1, <1>2, <1>3, <1>4
     DEF Next, Tick, Segfault, Corrupt, Die, RealMainReturns, Over, vars, wmsVars, handlerVars

LEMMA EarlierStart == \A x, y, z \in Int : z <= y => x - y <= x - z
OBVIOUS

LEMMA LaterClock ==
    \A c, d, t, k \in Int :
       c <= d => (t <= c => t <= d) /\ (t < c => t < d) /\ (t < c + k => t < d + k)
OBVIOUS

\* What each kind of step does to the times.
LEMMA BehindClockStep ==
    ASSUME TypeOK, RoutesKept, BehindClock, HandlersBehindClock, [Next]_vars, Serving'
    PROVE  BehindClock'
<1> USE SecondAssumption
    DEF TypeOK, BehindClock, Clock, WmsTypeOK, ClockTypeOK
<1>1. CASE UNCHANGED <<timeVars, clockVars, wmsPc>>
  BY <1>1 DEF timeVars, clockVars
<1>2. CASE Simulate
  <2>1. CASE TestAdvance
    BY <1>2, <2>1 DEF Simulate, TestAdvance, Goto, timeVars, clockVars
  <2>2. CASE WaitEvent
    BY <1>2, <2>2 DEF Simulate, WaitEvent, clockVars
  <2>3. CASE WaitTimeout
    BY <1>2, <2>3 DEF Simulate, WaitTimeout, Goto, clockVars
  <2>4. CASE BatchStep
    BY <1>1, <1>2, <2>4 DEF Simulate, BatchStep, wmsVars
  <2>5. CASE UNCHANGED timeVars /\ wmsPc' # "wait"
    BY <1>2, <2>5 DEF Simulate, timeVars, clockVars
  <2>6. CASE \/ Boot \/ CreateJobManager \/ SubmitBackground \/ TestSubmit \/ SubmitJob
             \/ PopSubmitted \/ ClearDone \/ TestCancel \/ TerminateJob \/ EraseCancelled
             \/ PopCancelled \/ PushEvent \/ CheckStop
    BY <2>5, <2>6 DEF Boot, CreateJobManager, SubmitBackground, TestSubmit, SubmitJob,
       PopSubmitted, ClearDone, TestCancel, TerminateJob, EraseCancelled, PopCancelled,
       PushEvent, CheckStop, Goto
  <2> QED
    BY <1>2, <2>1, <2>2, <2>3, <2>4, <2>6 DEF Simulate, WmsStep
<1>3. CASE Tick
  BY <1>3 DEF Tick, wmsVars, timeVars
<1>4. ASSUME NEW h \in Handlers, Arrive(h)
      PROVE  BehindClock'
  BY <1>1, <1>4 DEF Arrive, Request, wmsVars
<1>5. ASSUME NEW h \in Handlers, SkipWrite(h)
      PROVE  BehindClock'
  <2>1. time_start' <= time_start /\ time_start' \in Int
    BY <1>5 DEF SkipWrite, At, HandlersBehindClock, HandlerTypeOK
  <2>2. UNCHANGED <<server_time, simulationTime, wmsPc, now>>
    BY <1>5 DEF SkipWrite, wmsVars, timeVars
  <2>3. Clock \in Int /\ Clock' \in Int /\ Clock <= Clock'
    <3>1. now \in Int /\ time_start \in Int
      OBVIOUS
    <3>2. now - time_start <= now - time_start'
      BY <2>1, <3>1, EarlierStart
    <3>3. Clock' = now - time_start'
      BY <2>2
    <3> HIDE DEF TypeOK, WmsTypeOK, ClockTypeOK, BehindClock
    <3>4. Clock \in Int /\ Clock' \in Int
      BY <2>1, <3>1, <3>3
    <3> QED
      BY <3>2, <3>3, <3>4
  <2>4. server_time \in Int /\ simulationTime \in Int /\ Second \in Int
    OBVIOUS
  <2> HIDE DEF Clock
  <2> HIDE DEF TypeOK, WmsTypeOK, ClockTypeOK
  <2>5. server_time <= Clock'
    BY <2>3, <2>4, LaterClock
  <2>6. simulationTime < Clock' + Second
    BY <2>3, <2>4, LaterClock
  <2>7. wmsPc = "wait" => simulationTime < Clock'
    BY <2>3, <2>4, LaterClock
  <2> QED
    BY <2>2, <2>5, <2>6, <2>7
<1>6. ASSUME NEW h \in Handlers, SetServerTime(h)
      PROVE  BehindClock'
  <2>1. server_time' <= Clock /\ server_time' \in Int
    BY <1>6 DEF SetServerTime, At, HandlersBehindClock, HandlerTypeOK
  <2>2. UNCHANGED <<simulationTime, wmsPc, clockVars>>
    BY <1>6 DEF SetServerTime
  <2> QED
    BY <2>1, <2>2 DEF clockVars
<1>7. ASSUME NEW h \in Handlers, StartClock(h)
      PROVE  FALSE
  BY <1>7 DEF StartClock, At, GoOn, RoutesKept, Serving, HandlerTypeOK
<1>8. ASSUME NEW h \in Handlers, Handle(h)
      PROVE  BehindClock'
  <2>1. CASE \/ SkipRead(h) \/ ReadClock(h) \/ TestEvents(h) \/ TakeStatus(h) \/ CaughtUp(h)
             \/ RejectJob(h) \/ CreateJob(h) \/ DuplicateTask(h) \/ QueueJob(h) \/ ListJob(h)
             \/ CheckCancel(h) \/ QueueCancel(h) \/ GetQueue(h) \/ StopSimulation(h)
             \/ JoinThrows(h) \/ Join(h) \/ Joined(h)
    BY <1>1, <2>1 DEF SkipRead, ReadClock, TestEvents, TakeStatus, CaughtUp, RejectJob,
       CreateJob, DuplicateTask, QueueJob, ListJob, CheckCancel, QueueCancel, GetQueue,
       StopSimulation, JoinThrows, Join, Joined, wmsVars
  <2> QED
    BY <1>5, <1>6, <1>7, <1>8, <2>1 DEF Handle
<1> QED
  BY <1>1, <1>2, <1>3, <1>4, <1>8
     DEF Next, Segfault, Corrupt, Die, RealMainReturns, Over, vars, wmsVars

LEMMA HandlersBehindClockStep ==
    ASSUME \A g, h \in Sleepers : g = h,
           TypeOK, RoutesKept, HandlersBehindClock, [Next]_vars, Serving'
    PROVE  HandlersBehindClock'
<1> USE DEF TypeOK, HandlersBehindClock, Clock, ClockTypeOK, HandlerTypeOK
<1>1. CASE UNCHANGED <<clockVars, handlerVars>>
  BY <1>1 DEF clockVars, handlerVars
<1>2. CASE Tick
  BY <1>2 DEF Tick, handlerVars
<1>3. ASSUME NEW h \in Handlers, Arrive(h)
      PROVE  HandlersBehindClock'
  <2>1. UNCHANGED clockVars
    BY <1>3 DEF Arrive, Request
  <2>2. pc' = [pc EXCEPT ![h] = pc'[h]]
    BY <1>3 DEF Arrive, Request
  <2>3. \A g \in Handlers \ {h} : arg'[g] = arg[g]
    BY <1>3 DEF Arrive, Request
  <2>4. pc'[h] = "skip_read" => arg'[h] >= 0
    BY <1>3, ServerAssumption DEF Arrive, Request, Entry, AllRoutes
  <2>5. pc'[h] \notin {"ev_test", "ev_take", "ev_time", "skip_write"}
    BY <1>3, ServerAssumption DEF Arrive, Request, Entry, AllRoutes
  <2> QED
    BY <2>1, <2>2, <2>3, <2>4, <2>5 DEF clockVars
<1>4. ASSUME NEW h \in Handlers, Answer(h), UNCHANGED clockVars
      PROVE  HandlersBehindClock'
  BY <1>4 DEF Answer, clockVars
<1>5. ASSUME NEW h \in Handlers, GoOn(h, pc'[h]), UNCHANGED clockVars, UNCHANGED arg,
             pc'[h] \in {"ev_test", "ev_take", "ev_time"} => arg[h] <= Clock,
             pc'[h] \notin {"skip_read", "skip_write"}
      PROVE  HandlersBehindClock'
  BY <1>5 DEF GoOn, clockVars
<1>6. ASSUME NEW h \in Handlers, SkipRead(h)
      PROVE  HandlersBehindClock'
  BY <1>6 DEF SkipRead, At, GoOn, clockVars
<1>7. ASSUME NEW h \in Handlers, SkipWrite(h)
      PROVE  HandlersBehindClock'
  <2>1. time_start' = arg[h] /\ arg[h] <= time_start /\ now' = now
    BY <1>7 DEF SkipWrite, At
  <2>2. \A g \in Handlers \ {h} : pc[g] # "skip_write"
    BY <1>7 DEF SkipWrite, At, RoutesKept
  <2>3. pc' = [pc EXCEPT ![h] = "ev_arg"] /\ arg' = [arg EXCEPT ![h] = 0]
    BY <1>7 DEF SkipWrite, GoOn
  <2> QED
    BY <2>1, <2>2, <2>3
<1>8. ASSUME NEW h \in Handlers, ReadClock(h)
      PROVE  HandlersBehindClock'
  <2>1. Whole(Clock) <= Clock
    BY SecondAssumption DEF Whole
  <2> QED
    BY <1>8, <2>1 DEF ReadClock, GoOn, clockVars
<1>9. ASSUME NEW h \in Handlers, StartClock(h)
      PROVE  FALSE
  BY <1>9 DEF StartClock, At, GoOn, RoutesKept, Serving
<1>10. ASSUME NEW h \in Handlers, CreateJob(h)
       PROVE  HandlersBehindClock'
  BY <1>10 DEF CreateJob, clockVars
<1>11. ASSUME NEW h \in Handlers, Handle(h)
       PROVE  HandlersBehindClock'
  <2>1. CASE \/ CaughtUp(h) \/ RejectJob(h) \/ DuplicateTask(h) \/ ListJob(h)
             \/ QueueCancel(h) \/ GetQueue(h) \/ JoinThrows(h)
    BY <1>4, <2>1 DEF CaughtUp, RejectJob, DuplicateTask, ListJob, QueueCancel, GetQueue,
       JoinThrows
  <2>2. CASE TestEvents(h) \/ TakeStatus(h)
    BY <1>5, <2>2 DEF TestEvents, TakeStatus, GoOn, At
  <2>3. CASE SetServerTime(h) \/ CheckCancel(h)
    BY <1>4, <1>5, <2>3 DEF SetServerTime, CheckCancel, GoOn
  <2>4. CASE QueueJob(h) \/ StopSimulation(h) \/ Join(h)
    BY <1>5, <2>4 DEF QueueJob, StopSimulation, Join, GoOn
  <2>5. CASE Joined(h)
    BY <1>1, <1>4, <2>5 DEF Joined
  <2> QED
    BY <1>6, <1>7, <1>8, <1>9, <1>10, <1>11, <2>1, <2>2, <2>3, <2>4, <2>5 DEF Handle
<1> QED
  BY <1>1, <1>2, <1>3, <1>11
     DEF Next, Simulate, Segfault, Corrupt, Die, RealMainReturns, Over, vars

\* No query and no skip lets the simulation run a full second ahead of the
\* clients' clock, if at most one thread serves addTime: server_time, and every
\* time a handler is about to store there, was read from a clock that only moves
\* forward (ClockInv).
THEOREM SimulationStaysBehindClock ==
    ASSUME \A g, h \in Sleepers : g = h
    PROVE  Spec => []SimulationBehindClock
<1>1. Init => ClockInv
  BY SecondAssumption DEF Init, WmsInit, ClockInv, RoutesKept, BehindClock, HandlersBehindClock,
     Clock
<1>2. TypeOK /\ ClockInv /\ [Next]_vars => ClockInv'
  BY RoutesKeptStep, ServingBackward, BehindClockStep, HandlersBehindClockStep DEF ClockInv
<1>3. ClockInv => SimulationBehindClock
  BY DEF ClockInv, BehindClock, SimulationBehindClock
<1> QED
  BY <1>1, <1>2, <1>3, TypeCorrect, PTL DEF Spec

-----------------------------------------------------------------------------
(* No skip counts twice, however many threads serve addTime.                *)

\* What the step of a handler does to the clock, to its place and to its times.
LEMMA HandlerTimes ==
    ASSUME TypeOK, NEW h \in Handlers, Arrive(h) \/ Handle(h)
    PROVE  /\ \A g \in Handlers \ {h} : pc'[g] = pc[g] /\ arg'[g] = arg[g]
           /\ now' = now
           /\ SkipWrite(h) \/ StartClock(h) \/ time_start' = time_start
           /\ SetServerTime(h) \/ server_time' = server_time
           /\ SkipRead(h) \/ asked' = asked
           /\ UNCHANGED <<simulationTime, wmsPc>>
           /\ pc'[h] = "skip_read" => arg'[h] >= 0 \/ (pc[h] = "skip_read" /\ arg'[h] = arg[h])
           /\ pc'[h] = "skip_write" => SkipRead(h) \/ (pc[h] = "skip_write" /\ arg'[h] = arg[h])
           /\ pc'[h] \in {"ev_test", "ev_take", "ev_time"}
                => ReadClock(h)
                   \/ (pc[h] \in {"ev_test", "ev_take", "ev_time"} /\ arg'[h] = arg[h])
<1> USE DEF TypeOK, HandlerTypeOK, At, GoOn, Answer
<1>1. CASE Arrive(h)
  <2>1. \E r \in Routes : pc' = [pc EXCEPT ![h] = Entry[r]] /\ r \in AllRoutes
    BY <1>1, ServerAssumption DEF Arrive, Request
  <2>2. /\ pc'[h] \notin {"skip_write", "ev_test", "ev_take", "ev_time"}
        /\ pc'[h] = Entry["addTime"] => arg'[h] >= 0
    <3>1. pc'[h] \notin {"skip_write", "ev_test", "ev_take", "ev_time"}
      BY <2>1 DEF Entry, AllRoutes
    <3>2. pc'[h] = Entry["addTime"] => arg'[h] >= 0
      BY <1>1, ServerAssumption DEF Arrive, Request, Entry, AllRoutes
    <3> QED
      BY <3>1, <3>2
  <2>3. \A g \in Handlers \ {h} : pc'[g] = pc[g] /\ arg'[g] = arg[g]
    BY <1>1 DEF Arrive, Request
  <2>4. UNCHANGED <<now, time_start, server_time, asked, simulationTime, wmsPc>>
    BY <1>1 DEF Arrive, Request, clockVars, wmsVars, timeVars, historyVars
  <2> QED
    BY <2>2, <2>3, <2>4 DEF Entry
<1>2. CASE \/ CaughtUp(h) \/ RejectJob(h) \/ DuplicateTask(h) \/ ListJob(h) \/ QueueCancel(h)
           \/ GetQueue(h) \/ JoinThrows(h) \/ Joined(h) \/ CheckCancel(h) \/ CreateJob(h)
  BY <1>2 DEF CaughtUp, RejectJob, DuplicateTask, ListJob, QueueCancel, GetQueue, JoinThrows,
     Joined, CheckCancel, CreateJob, clockVars, wmsVars, timeVars, handlerVars, historyVars
<1>3. CASE SkipRead(h) \/ SkipWrite(h) \/ ReadClock(h) \/ TestEvents(h) \/ TakeStatus(h)
           \/ SetServerTime(h)
  BY <1>3 DEF SkipRead, SkipWrite, ReadClock, TestEvents, TakeStatus, SetServerTime, clockVars,
     wmsVars, timeVars, historyVars
<1>4. CASE QueueJob(h) \/ StartClock(h) \/ StopSimulation(h) \/ Join(h)
  BY <1>4 DEF QueueJob, StartClock, StopSimulation, Join, clockVars, wmsVars, timeVars,
     historyVars
<1> QED
  BY <1>1, <1>2, <1>3, <1>4 DEF Handle

LEMMA OtherTimes ==
    ASSUME [Next]_vars, \A h \in Handlers : ~(Arrive(h) \/ Handle(h))
    PROVE  /\ UNCHANGED <<handlerVars, time_start, server_time, asked>>
           /\ now' = now \/ now' = now + 1
<1>1. CASE Simulate
  BY <1>1 DEF Simulate, WmsStep, BatchStep, Boot, CreateJobManager, SubmitBackground, TestSubmit,
     SubmitJob, PopSubmitted, ClearDone, TestCancel, TerminateJob, EraseCancelled, PopCancelled,
     TestAdvance, WaitEvent, WaitTimeout, PushEvent, CheckStop, wmsVars, timeVars, clockVars,
     historyVars
<1>2. CASE Tick \/ Segfault \/ Corrupt \/ RealMainReturns \/ Over \/ UNCHANGED vars
  BY <1>2 DEF Tick, Segfault, Corrupt, Die, RealMainReturns, Over,
                vars, wmsVars, timeVars, clockVars, historyVars
<1> QED
  BY <1>1, <1>2 DEF Next

\* The moment no clock of a client, and no simulation, may be past.
Horizon == now + asked

\* Adding to a time that may not be past the horizon.
LEMMA HorizonGrows ==
    \A x, k \in Int :
       \A y, z \in Int : y <= z => (x <= y => x <= z) /\ (x < y => x < z)
                                   /\ (x < y + k => x < z + k) /\ (0 <= x + y => 0 <= x + z)
OBVIOUS

LEMMA TimeTypes ==
    ASSUME TypeOK
    PROVE  /\ now \in Nat /\ time_start \in Int /\ asked \in Int /\ Horizon \in Int
           /\ server_time \in Int /\ simulationTime \in Int /\ Second \in Nat /\ Second > 0
           /\ \A h \in Handlers : arg[h] \in Int
BY SecondAssumption
   DEF TypeOK, ClockTypeOK, HistoryTypeOK, WmsTypeOK, HandlerTypeOK, Horizon

\* Neither real time nor what clients asked for decreases.
LEMMA HorizonStep ==
    ASSUME TypeOK, SkipsInv, [Next]_vars
    PROVE  /\ now' \in Int /\ asked' \in Int /\ Horizon' \in Int
           /\ now <= now' /\ asked <= asked' /\ Horizon <= Horizon'
<1> USE TimeTypes DEF Horizon
<1>1. CASE \A h \in Handlers : ~(Arrive(h) \/ Handle(h))
  BY <1>1, OtherTimes
<1>2. ASSUME NEW h \in Handlers, Arrive(h) \/ Handle(h)
      PROVE  now' = now /\ asked' \in Int /\ asked <= asked'
  <2>1. CASE SkipRead(h)
    BY <1>2, <2>1, HandlerTimes DEF SkipRead, At, SkipsInv
  <2> QED
    BY <1>2, <2>1, HandlerTimes
<1> QED
  BY <1>1, <1>2

\* The simulation thread passes no second that lies beyond the horizon.
LEMMA SimulationInHorizon ==
    ASSUME TypeOK, SkipsInv, [Next]_vars
    PROVE  /\ simulationTime' < Horizon' + Second
           /\ wmsPc' = "wait" => simulationTime' < Horizon'
<1>0. /\ simulationTime < Horizon + Second /\ server_time <= Horizon
      /\ wmsPc = "wait" => simulationTime < Horizon
  BY DEF SkipsInv, Horizon
<1>1. /\ Horizon' \in Int /\ Horizon <= Horizon'
  BY HorizonStep
<1>2. CASE UNCHANGED simulationTime /\ (wmsPc' = wmsPc \/ wmsPc' # "wait")
  <2> HIDE DEF Horizon
  <2> QED
    BY <1>0, <1>1, <1>2, TimeTypes, HorizonGrows
<1>3. CASE Simulate
  <2>1. CASE TestAdvance
    <3>1. /\ simulationTime' = simulationTime
          /\ wmsPc' = "wait" => simulationTime < server_time
      BY <2>1 DEF TestAdvance, Goto, timeVars
    <3> HIDE DEF Horizon
    <3> QED
      BY <1>0, <1>1, <3>1, TimeTypes, HorizonGrows
  <2>2. CASE WaitEvent \/ WaitTimeout
    <3>1. wmsPc = "wait" /\ wmsPc' # "wait"
      BY <2>2 DEF WaitEvent, WaitTimeout, Goto
    <3>2. simulationTime' \in Int /\ simulationTime' <= simulationTime + Second
      BY <2>2, TimeTypes DEF WaitEvent, WaitTimeout
    <3> HIDE DEF Horizon
    <3> QED
      BY <1>0, <1>1, <3>1, <3>2, TimeTypes
  <2>3. CASE \/ BatchStep
             \/ Boot \/ CreateJobManager \/ SubmitBackground \/ TestSubmit \/ SubmitJob
             \/ PopSubmitted \/ ClearDone \/ TestCancel \/ TerminateJob \/ EraseCancelled
             \/ PopCancelled \/ PushEvent \/ CheckStop
    BY <1>2, <2>3 DEF Boot, CreateJobManager, SubmitBackground, TestSubmit, SubmitJob,
       PopSubmitted, ClearDone, TestCancel, TerminateJob, EraseCancelled, PopCancelled,
       PushEvent, CheckStop, Goto, BatchStep, wmsVars, timeVars
  <2> QED
    BY <1>3, <2>1, <2>2, <2>3 DEF Simulate, WmsStep
<1>4. ASSUME NEW h \in Handlers, Arrive(h) \/ Handle(h)
      PROVE  UNCHANGED <<simulationTime, wmsPc>>
  BY <1>4, HandlerTimes
<1> QED
  BY <1>2, <1>3, <1>4
     DEF Next, Tick, Segfault, Corrupt, Die, RealMainReturns, Over, vars, wmsVars, timeVars

\* What a handler holds after one of its steps.
LEMMA HandlersInHorizon ==
    ASSUME TypeOK, SkipsInv, [Next]_vars, NEW g \in Handlers
    PROVE  /\ pc'[g] = "skip_read" => arg'[g] >= 0
           /\ pc'[g] = "skip_write" => 0 <= arg'[g] + asked' /\ (Serving' => arg'[g] <= 0)
           /\ pc'[g] \in {"ev_test", "ev_take", "ev_time"} => arg'[g] <= Horizon'
<1>0. /\ pc[g] = "skip_read" => arg[g] >= 0
      /\ pc[g] = "skip_write" => 0 <= arg[g] + asked /\ (Serving => arg[g] <= 0)
      /\ pc[g] \in {"ev_test", "ev_take", "ev_time"} => arg[g] <= Horizon
      /\ 0 <= time_start + asked /\ (Serving => time_start <= 0)
  BY DEF SkipsInv, Horizon
<1>1. /\ now' \in Int /\ asked' \in Int /\ Horizon' \in Int
      /\ asked <= asked' /\ Horizon <= Horizon'
  BY HorizonStep
<1>2. Serving' => Serving
  BY ServingBackward
<1>3. ASSUME pc'[g] \notin {"skip_write", "ev_test", "ev_take", "ev_time"}
             \/ (pc[g] = "skip_write" /\ pc'[g] = pc[g] /\ arg'[g] = arg[g])
             \/ (/\ pc[g] \in {"ev_test", "ev_take", "ev_time"}
                 /\ pc'[g] \in {"ev_test", "ev_take", "ev_time"} /\ arg'[g] = arg[g])
      PROVE  /\ pc'[g] = "skip_write" => 0 <= arg'[g] + asked' /\ (Serving' => arg'[g] <= 0)
             /\ pc'[g] \in {"ev_test", "ev_take", "ev_time"} => arg'[g] <= Horizon'
  <2>1. CASE pc'[g] \notin {"skip_write", "ev_test", "ev_take", "ev_time"}
    BY <2>1
  <2>2. CASE pc[g] = "skip_write" /\ pc'[g] = pc[g] /\ arg'[g] = arg[g]
    <3>1. 0 <= arg[g] + asked'
      BY <1>0, <1>1, <2>2, TimeTypes, HorizonGrows
    <3> QED
      BY <1>0, <1>2, <2>2, <3>1
  <2>3. CASE /\ pc[g] \in {"ev_test", "ev_take", "ev_time"}
             /\ pc'[g] \in {"ev_test", "ev_take", "ev_time"} /\ arg'[g] = arg[g]
    <3>1. arg[g] <= Horizon'
      BY <1>0, <1>1, <2>3, TimeTypes, HorizonGrows
    <3> QED
      BY <2>3, <3>1
  <2> QED
    BY <1>3, <2>1, <2>2, <2>3
<1>4. CASE pc'[g] = pc[g] /\ arg'[g] = arg[g]
  BY <1>0, <1>3, <1>4
<1>5. CASE \A h \in Handlers : ~(Arrive(h) \/ Handle(h))
  BY <1>4, <1>5, OtherTimes DEF handlerVars
<1>6. ASSUME NEW h \in Handlers, Arrive(h) \/ Handle(h), h # g
      PROVE  pc'[g] = pc[g] /\ arg'[g] = arg[g]
  BY <1>6, HandlerTimes
<1>7. CASE Arrive(g) \/ Handle(g)
  <2>1. pc'[g] = "skip_read" => arg'[g] >= 0
    BY <1>0, <1>7, HandlerTimes
  <2>2. CASE SkipRead(g)
    <3>1. /\ pc'[g] = "skip_write" /\ arg[g] >= 0
          /\ arg'[g] = time_start - arg[g] /\ asked' = asked + arg[g]
      BY <1>0, <2>2 DEF SkipRead, At, GoOn, TypeOK, HandlerTypeOK
    <3>2. 0 <= arg'[g] + asked' /\ (Serving' => arg'[g] <= 0)
      BY <1>0, <1>2, <3>1, TimeTypes
    <3> QED
      BY <3>1, <3>2
  <2>3. CASE ReadClock(g)
    <3>1. pc'[g] = "ev_test" /\ arg'[g] = Whole(Clock) /\ asked' = asked /\ now' = now
      BY <2>3 DEF ReadClock, GoOn, TypeOK, HandlerTypeOK, clockVars, historyVars
    <3>2. Whole(Clock) <= Clock /\ Whole(Clock) \in Int /\ Clock <= Horizon
      BY <1>0, TimeTypes DEF Whole, Clock, Horizon
    <3>3. Horizon' = Horizon /\ Clock \in Int
      BY <3>1, TimeTypes DEF Horizon, Clock
    <3> HIDE DEF Horizon, Clock, Whole
    <3>4. arg'[g] <= Horizon'
      BY <3>1, <3>2, <3>3, TimeTypes
    <3> QED
      BY <3>1, <3>4
  <2>4. CASE ~SkipRead(g) /\ ~ReadClock(g)
    BY <1>3, <1>7, <2>1, <2>4, HandlerTimes
  <2> QED
    BY <2>2, <2>3, <2>4
<1> QED
  BY <1>4, <1>5, <1>6, <1>7

\* Where the clients' clock starts, and how far they let the simulation go.
LEMMA ClockInHorizon ==
    ASSUME TypeOK, SkipsInv, [Next]_vars
    PROVE  /\ 0 <= time_start' + asked' /\ (Serving' => time_start' <= 0)
           /\ server_time' <= Horizon'
<1>0. /\ RoutesKept /\ 0 <= asked /\ 0 <= time_start + asked /\ (Serving => time_start <= 0)
      /\ server_time <= Horizon
  BY DEF SkipsInv, Horizon
<1>1. /\ asked' \in Int /\ Horizon' \in Int /\ asked <= asked' /\ Horizon <= Horizon'
  BY HorizonStep
<1>2. Serving' => Serving
  BY ServingBackward
<1>3. ASSUME time_start' = time_start
      PROVE  0 <= time_start' + asked' /\ (Serving' => time_start' <= 0)
  <2>1. 0 <= time_start + asked'
    BY <1>0, <1>1, TimeTypes, HorizonGrows
  <2> QED
    BY <1>0, <1>2, <1>3, <2>1
<1>4. ASSUME server_time' = server_time
      PROVE  server_time' <= Horizon'
  <2>1. server_time <= Horizon'
    BY <1>0, <1>1, TimeTypes, HorizonGrows
  <2> QED
    BY <1>4, <2>1
<1>5. CASE \A h \in Handlers : ~(Arrive(h) \/ Handle(h))
  BY <1>3, <1>4, <1>5, OtherTimes
<1>6. ASSUME NEW h \in Handlers, Arrive(h) \/ Handle(h)
      PROVE  server_time' <= Horizon'
  <2>1. CASE SetServerTime(h)
    <3>1. server_time' = arg[h] /\ arg[h] <= Horizon
      BY <2>1 DEF SetServerTime, At, SkipsInv, Horizon
    <3>2. arg[h] <= Horizon'
      BY <1>1, <3>1, TimeTypes, HorizonGrows
    <3> QED
      BY <3>1, <3>2
  <2> QED
    BY <1>4, <1>6, <2>1, HandlerTimes
<1>7. ASSUME NEW h \in Handlers, Arrive(h) \/ Handle(h)
      PROVE  0 <= time_start' + asked' /\ (Serving' => time_start' <= 0)
  <2>1. CASE SkipWrite(h)
    <3>1. /\ time_start' = arg[h] /\ asked' = asked
          /\ 0 <= arg[h] + asked /\ (Serving => arg[h] <= 0)
      BY <2>1 DEF SkipWrite, At, SkipsInv, historyVars
    <3> QED
      BY <1>2, <3>1
  <2>2. CASE StartClock(h)
    <3>1. time_start' = now /\ asked' = asked
      BY <2>2 DEF StartClock, historyVars
    <3>2. op'[h] = "start" /\ pc'[h] = "stop_call"
      BY <1>0, <2>2 DEF StartClock, At, GoOn, RoutesKept, TypeOK, HandlerTypeOK
    <3>3. ~Serving'
      BY <3>2 DEF Serving
    <3>4. 0 <= time_start' + asked'
      BY <1>0, <3>1, TimeTypes
    <3> QED
      BY <3>3, <3>4
  <2>3. CASE ~SkipWrite(h) /\ ~StartClock(h)
    BY <1>3, <1>7, <2>3, HandlerTimes
  <2> QED
    BY <2>1, <2>2, <2>3
<1> QED
  BY <1>5, <1>6, <1>7

\* Whatever skips, queries and starts interleave, in any number: neither a clock of
\* the clients nor the simulation gets further ahead of real time than the skips
\* that were asked for, each counted once; before a start no skip, even one that
\* overwrites another, sets the clock behind real time (SkipsInv).
THEOREM SkipsNeverCountTwice == Spec => []SkipsCountOnce
<1>1. Init => SkipsInv
  BY SecondAssumption DEF Init, WmsInit, SkipsInv, RoutesKept
<1>2. TypeOK /\ SkipsInv /\ [Next]_vars => SkipsInv'
  <2> SUFFICES ASSUME TypeOK, SkipsInv, [Next]_vars
               PROVE  SkipsInv'
    OBVIOUS
  <2>1. RoutesKept'
    BY RoutesKeptStep DEF SkipsInv
  <2>2. 0 <= asked'
    BY HorizonStep, TimeTypes DEF SkipsInv
  <2> QED
    BY <2>1, <2>2, ClockInHorizon, SimulationInHorizon, HandlersInHorizon DEF SkipsInv, Horizon
<1>3. TypeOK /\ SkipsInv => SkipsCountOnce
  <2> SUFFICES ASSUME TypeOK, SkipsInv
               PROVE  SkipsCountOnce
    OBVIOUS
  <2>1. /\ 0 <= time_start + asked /\ (Serving => time_start <= 0)
        /\ simulationTime < now + asked + Second
    BY DEF SkipsInv
  <2>2. Clock <= now + asked /\ (Serving => now <= Clock)
    BY <2>1, TimeTypes DEF Clock
  <2> QED
    BY <2>1, <2>2 DEF SkipsCountOnce
<1> QED
  BY <1>1, <1>2, <1>3, TypeCorrect, PTL DEF Spec

-----------------------------------------------------------------------------
(* Cancellations.                                                          *)

LEMMA CancelStep ==
    ASSUME TypeOK, CancelInv, [Next]_vars
    PROVE  CancelInv'
<1> USE DEF CancelInv, TerminatedOnRequest, TypeOK, BatchTypeOK, WmsTypeOK, AllJobs
<1>1. CASE UNCHANGED <<batch, cancelJobs, cancelled>>
  BY <1>1
<1>2. CASE Simulate
  <2>1. CASE TerminateJob
    <3>1. Head(cancelJobs) \in Range(cancelJobs)
      BY <2>1 DEF TerminateJob, Goto, Range
    <3>2. UNCHANGED <<cancelJobs, cancelled>>
      BY <1>2, <2>1 DEF Simulate, TerminateJob, queueVars, historyVars
    <3>3. batch' = batch \/ batch' = [batch EXCEPT ![Head(cancelJobs)] = "terminated"]
      BY <2>1 DEF TerminateJob, Terminate, batchVars
    <3> QED
      BY <3>1, <3>2, <3>3
  <2>2. CASE PopCancelled
    <3>1. Range(Tail(cancelJobs)) \subseteq Range(cancelJobs)
      BY <2>2 DEF PopCancelled, Goto, Range
    <3> QED
      BY <1>2, <2>2, <3>1 DEF Simulate, PopCancelled, batchVars, historyVars
  <2>3. CASE SubmitBackground
    BY <1>2, <2>3 DEF Simulate, SubmitBackground, queueVars, historyVars
  <2>4. CASE SubmitJob
    BY <1>2, <2>4 DEF Simulate, SubmitJob, Submit, queueVars, historyVars
  <2>5. CASE BatchStep
    BY <1>2, <2>5 DEF Simulate, BatchStep, BatchStart, BatchEnd, wmsVars, queueVars, historyVars
  <2>6. CASE \/ Boot \/ CreateJobManager \/ TestSubmit \/ PopSubmitted \/ ClearDone
             \/ TestCancel \/ EraseCancelled \/ TestAdvance \/ WaitEvent \/ WaitTimeout
             \/ PushEvent \/ CheckStop
    BY <1>1, <1>2, <2>6 DEF Simulate, Boot, CreateJobManager, TestSubmit, PopSubmitted,
       ClearDone, TestCancel, EraseCancelled, TestAdvance, WaitEvent, WaitTimeout,
       PushEvent, CheckStop, Receive, ReceiveNone, batchVars, queueVars, historyVars
  <2> QED
    BY <1>2, <2>1, <2>2, <2>3, <2>4, <2>5, <2>6 DEF Simulate, WmsStep
<1>3. ASSUME NEW h \in Handlers, Handle(h)
      PROVE  CancelInv'
  <2>1. CASE QueueCancel(h)
    <3>1. Range(cancelJobs') \subseteq Range(cancelJobs) \cup {job[h]}
      BY <2>1 DEF QueueCancel, PushCancel, Range, HandlerTypeOK, JobLabel, At
    <3> QED
      BY <2>1, <3>1 DEF QueueCancel, batchVars
  <2>2. CASE ~QueueCancel(h)
    BY <1>1, <1>3, <2>2
       DEF Handle, SkipRead, SkipWrite, ReadClock, TestEvents, TakeStatus, TakeEvent,
       SetServerTime, CaughtUp, RejectJob, CreateJob, DuplicateTask, QueueJob, PushJob,
       ListJob, MapJob, CheckCancel, GetQueue, StartClock, StopSimulation, JoinThrows, Join,
       Joined, batchVars, wmsVars, queueVars, historyVars
  <2> QED
    BY <2>1, <2>2
<1>4. ASSUME NEW h \in Handlers, Arrive(h)
      PROVE  CancelInv'
  BY <1>1, <1>4 DEF Arrive, Request, batchVars, wmsVars, queueVars, historyVars
<1> QED
  BY <1>1, <1>2, <1>3, <1>4
     DEF Next, Tick, Segfault, Corrupt, Die, RealMainReturns, Over, vars, batchVars,
     wmsVars, queueVars, historyVars

\* CancelInv is inductive.
LEMMA CancelInvariant == Spec => []CancelInv
<1>1. Init => CancelInv
  BY DEF Init, BatchInit, WmsInit, CancelInv, TerminatedOnRequest, Range, AllJobs
<1>2. TypeOK /\ CancelInv /\ [Next]_vars => CancelInv'
  BY CancelStep
<1> QED
  BY <1>1, <1>2, TypeCorrect, PTL DEF Spec

\* main() terminates only jobs whose cancellation was answered success: a
\* request that finds no such job leaves no name behind for main() to act on.
THEOREM OnlyCancelledTerminated == Spec => []TerminatedOnRequest
<1>1. CancelInv => TerminatedOnRequest
  BY DEF CancelInv
<1> QED
  BY <1>1, CancelInvariant, PTL

-----------------------------------------------------------------------------
(* The end of the process.                                                 *)

LEMMA EndStep ==
    ASSUME TypeOK, EndsAfterSimulation, [Next]_vars
    PROVE  EndsAfterSimulation'
<1> USE DEF EndsAfterSimulation, TypeOK, HandlerTypeOK
<1>1. CASE UNCHANGED <<process, listening, joined, wmsPc, pc>>
  BY <1>1
<1>2. CASE Simulate
  <2>1. wmsPc = "exit" => wmsPc' = "exit"
    BY <1>2 DEF Simulate, WmsStep, BatchStep, Boot, CreateJobManager, SubmitBackground,
       TestSubmit, SubmitJob, PopSubmitted, ClearDone, TestCancel, TerminateJob,
       EraseCancelled, PopCancelled, TestAdvance, WaitEvent, WaitTimeout, PushEvent,
       CheckStop, Goto
  <2> QED
    BY <1>2, <2>1 DEF Simulate, processVars, handlerVars
<1>3. ASSUME NEW h \in Handlers, UNCHANGED <<process, listening, joined, wmsPc>>,
             \A g \in Handlers \ {h} : pc'[g] = pc[g], pc'[h] # "join_wait"
      PROVE  EndsAfterSimulation'
  BY <1>3
<1>4. ASSUME NEW h \in Handlers, Arrive(h)
      PROVE  EndsAfterSimulation'
  BY <1>3, <1>4, ServerAssumption
     DEF Arrive, Request, Connected, Entry, AllRoutes, wmsVars
<1>5. ASSUME NEW h \in Handlers, Join(h)
      PROVE  EndsAfterSimulation'
  BY <1>5 DEF Join, NotJoinable, GoOn, processVars, wmsVars
<1>6. ASSUME NEW h \in Handlers, Joined(h)
      PROVE  EndsAfterSimulation'
  BY <1>6 DEF Joined, At, Answer, handlerVars, wmsVars
<1>7. ASSUME NEW h \in Handlers, Handle(h)
      PROVE  EndsAfterSimulation'
  <2>1. CASE \/ SkipRead(h) \/ SkipWrite(h) \/ ReadClock(h) \/ TestEvents(h) \/ TakeStatus(h)
             \/ SetServerTime(h) \/ CaughtUp(h)
    BY <1>3, <2>1 DEF SkipRead, SkipWrite, ReadClock, TestEvents, TakeStatus, SetServerTime,
       CaughtUp, GoOn, Answer, processVars, wmsVars
  <2>2. CASE \/ RejectJob(h) \/ CreateJob(h) \/ DuplicateTask(h) \/ QueueJob(h) \/ ListJob(h)
             \/ CheckCancel(h) \/ QueueCancel(h) \/ GetQueue(h)
    BY <1>3, <2>2 DEF RejectJob, CreateJob, DuplicateTask, QueueJob, ListJob, CheckCancel,
       QueueCancel, GetQueue, GoOn, Answer, processVars, wmsVars
  <2>3. CASE StartClock(h) \/ StopSimulation(h) \/ JoinThrows(h)
    BY <1>3, <2>3 DEF StartClock, StopSimulation, JoinThrows, GoOn, Answer, processVars, wmsVars
  <2> QED
    BY <1>5, <1>6, <1>7, <2>1, <2>2, <2>3 DEF Handle
<1> QED
  BY <1>1, <1>2, <1>4, <1>7
     DEF Next, Tick, Segfault, Corrupt, Die, RealMainReturns, Over, vars, wmsVars,
     processVars, handlerVars

\* The process ends by itself only after one handler, and no other, joined the
\* simulation thread, and that thread was over.
THEOREM EndsAfterJoin == Spec => []EndsAfterSimulation
<1>1. Init => EndsAfterSimulation
  BY DEF Init, EndsAfterSimulation
<1>2. TypeOK /\ EndsAfterSimulation /\ [Next]_vars => EndsAfterSimulation'
  BY EndStep
<1> QED
  BY <1>1, <1>2, TypeCorrect, PTL DEF Spec
=============================================================================
