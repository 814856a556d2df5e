--------------------------- MODULE SlurmJobsProofs ---------------------------
(***************************************************************************)
(* Proofs about the jobs of SlurmServer, for any number of jobs, threads   *)
(* and requests: none is lost, doubled or overtaken on its way to the      *)
(* batch service, none is reported twice, and a server whose requests come *)
(* one at a time implements JobLifecycle.                                  *)
(***************************************************************************)
EXTENDS SlurmServerProofs

-----------------------------------------------------------------------------
(* Sequences.                                                              *)

LEMMA RangeOfAppended ==
    ASSUME NEW S, NEW s \in Seq(S), NEW e \in S
    PROVE  Range(Append(s, e)) = Range(s) \cup {e}
<1> DEFINE t == Append(s, e)
<1>1. t \in Seq(S) /\ Len(t) = Len(s) + 1 /\ t[Len(s) + 1] = e
      /\ \A i \in 1..Len(s) : t[i] = s[i]
  BY AppendProperties
<1>2. DOMAIN t = 1..Len(t) /\ DOMAIN s = 1..Len(s) /\ Len(s) \in Nat
  BY <1>1, LenProperties
<1> HIDE DEF t
<1> QED
  BY <1>1, <1>2 DEF Range

LEMMA RangeOfHeadTail ==
    ASSUME NEW S, NEW s \in Seq(S), s # <<>>
    PROVE  Range(s) = {Head(s)} \cup Range(Tail(s))
<1> DEFINE t == Tail(s)
<1>1. /\ t \in Seq(S) /\ Len(t) = Len(s) - 1 /\ Head(s) = s[1] /\ Len(s) \in Nat \ {0}
      /\ \A i \in 1..Len(t) : t[i] = s[i+1]
  BY HeadTailProperties, EmptySeq
<1>2. DOMAIN s = 1..Len(s) /\ DOMAIN t = 1..(Len(s) - 1)
  BY <1>1, LenProperties
<1> HIDE DEF t
<1>3. \A i \in DOMAIN t : i + 1 \in DOMAIN s /\ s[i+1] = t[i]
  BY <1>1, <1>2
<1>4. \A i \in DOMAIN s : i = 1 \/ (i - 1 \in DOMAIN t /\ t[i-1] = s[i])
  BY <1>1, <1>2
<1>5. 1 \in DOMAIN s
  BY <1>1, <1>2
<1> QED
  BY <1>1, <1>3, <1>4, <1>5 DEF t, Range

\* Appending to the second of two sequences appends to both together ...
LEMMA AppendToConcat ==
    ASSUME NEW S, NEW s \in Seq(S), NEW t \in Seq(S), NEW e \in S
    PROVE  s \o Append(t, e) = Append(s \o t, e)
<1>1. Append(t, e) = t \o <<e>> /\ Append(s \o t, e) = (s \o t) \o <<e>>
  BY AppendIsConcat, ConcatProperties
<1>2. <<e>> \in Seq(S)
  OBVIOUS
<1> QED
  BY <1>1, <1>2, ConcatAssociative

\* ... and moving the head of the second to the end of the first moves nothing.
LEMMA MoveHead ==
    ASSUME NEW S, NEW s \in Seq(S), NEW t \in Seq(S), t # <<>>
    PROVE  Append(s, Head(t)) \o Tail(t) = s \o t
<1>1. Head(t) \in S /\ Tail(t) \in Seq(S) /\ t = <<Head(t)>> \o Tail(t)
  <2>1. Head(t) \in S /\ Tail(t) \in Seq(S) /\ Len(Tail(t)) = Len(t) - 1
        /\ \A i \in 1 .. Len(Tail(t)) : Tail(t)[i] = t[i+1]
    BY HeadTailProperties
  <2>2. Head(t) = t[1] /\ Len(t) \in Nat \ {0}
    BY EmptySeq
  <2>3. LET u == <<Head(t)>> IN u \in Seq(S) /\ Len(u) = 1 /\ u[1] = t[1]
    BY <2>1, <2>2
  <2>4. LET v == <<Head(t)>> \o Tail(t)
        IN  v \in Seq(S) /\ Len(v) = Len(t) /\ \A i \in 1..Len(t) : v[i] = t[i]
    BY <2>1, <2>2, <2>3, ConcatProperties
  <2> QED
    BY <2>1, <2>4, SeqEqual
<1>2. <<Head(t)>> \in Seq(S) /\ Append(s, Head(t)) = s \o <<Head(t)>>
  BY <1>1, AppendIsConcat
<1> QED
  BY <1>1, <1>2, ConcatAssociative

LEMMA InjectiveAppended ==
    ASSUME NEW S, NEW s \in Seq(S), NEW e \in S \ Range(s), IsInjective(s)
    PROVE  IsInjective(Append(s, e))
<1> DEFINE t == Append(s, e)
<1>1. t \in Seq(S) /\ Len(t) = Len(s) + 1 /\ t[Len(s) + 1] = e
      /\ \A i \in 1..Len(s) : t[i] = s[i]
  BY AppendProperties
<1>2. DOMAIN t = 1..Len(t) /\ DOMAIN s = 1..Len(s) /\ Len(s) \in Nat
  BY <1>1, LenProperties
<1> HIDE DEF t
<1> QED
  BY <1>1, <1>2 DEF Range, IsInjective

LEMMA InjectiveConcat ==
    ASSUME NEW S, NEW s \in Seq(S), NEW t \in Seq(S), IsInjective(s), IsInjective(t),
           Range(s) \cap Range(t) = {}
    PROVE  IsInjective(s \o t)
<1> DEFINE u == s \o t
<1>1. /\ u \in Seq(S) /\ Len(u) = Len(s) + Len(t)
      /\ \A i \in 1..Len(s) + Len(t) : u[i] = IF i <= Len(s) THEN s[i] ELSE t[i - Len(s)]
  BY ConcatProperties
<1>2. /\ DOMAIN u = 1..Len(u) /\ DOMAIN s = 1..Len(s) /\ DOMAIN t = 1..Len(t)
      /\ Len(s) \in Nat /\ Len(t) \in Nat
  BY <1>1, LenProperties
<1> SUFFICES ASSUME NEW i \in DOMAIN u, NEW k \in DOMAIN u, u[i] = u[k]
             PROVE  i = k
  BY DEF IsInjective
<1> HIDE DEF u
<1>3. CASE i <= Len(s) /\ k <= Len(s)
  BY <1>1, <1>2, <1>3 DEF IsInjective
<1>4. CASE i > Len(s) /\ k > Len(s)
  <2>1. t[i - Len(s)] = t[k - Len(s)] /\ i - Len(s) \in DOMAIN t /\ k - Len(s) \in DOMAIN t
    BY <1>1, <1>2, <1>4
  <2>2. i - Len(s) = k - Len(s)
    BY <2>1 DEF IsInjective
  <2> QED
    BY <1>2, <2>2
<1>5. /\ \A n \in 1..Len(s) : s[n] \in Range(s)
      /\ \A n \in 1..Len(t) : t[n] \in Range(t)
  BY <1>2 DEF Range
<1>6. ASSUME NEW m \in DOMAIN u, NEW n \in DOMAIN u, m <= Len(s), n > Len(s)
      PROVE  u[m] \in Range(s) /\ u[n] \in Range(t)
  <2>1. m \in 1..Len(s) /\ u[m] = s[m]
    BY <1>1, <1>2, <1>6
  <2>2. n - Len(s) \in 1..Len(t) /\ u[n] = t[n - Len(s)]
    BY <1>1, <1>2, <1>6
  <2> QED
    BY <1>5, <2>1, <2>2
<1>7. ~(i <= Len(s) /\ k > Len(s)) /\ ~(i > Len(s) /\ k <= Len(s))
  BY <1>6
<1> QED
  BY <1>2, <1>3, <1>4, <1>7

-----------------------------------------------------------------------------
(* Who changes what.                                                       *)

\* A step is one of the simulation thread, of a handler, or leaves the jobs alone.
LEMMA Steps ==
    ASSUME [Next]_vars
    PROVE  \/ UNCHANGED <<batchVars, wmsVars, handlerVars, historyVars>>
           \/ (WmsStep \/ BatchStep) /\ UNCHANGED <<handlerVars, historyVars>>
           \/ \E h \in Handlers : Arrive(h) \/ Handle(h)
BY DEF Next, Simulate, Tick, Segfault, Corrupt, Die, RealMainReturns, Over, vars

\* What the step of a handler may change, and for which route.
LEMMA HandlerChanges ==
    ASSUME NEW h \in Handlers, Arrive(h) \/ Handle(h)
    PROVE  /\ UNCHANGED <<batchVars, wmsPc, wmsEvent>>
           /\ QueueJob(h) \/ UNCHANGED toSubmitJobs
           /\ CreateJob(h) \/ UNCHANGED created
           /\ TakeStatus(h) \/ UNCHANGED <<events, reported>>
           /\ QueueCancel(h) \/ UNCHANGED <<cancelJobs, cancelled>>
           /\ TakeStatus(h) \/ ListJob(h) \/ UNCHANGED job_list
<1> USE DEF wmsVars, queueVars, timeVars, historyVars
<1>1. CASE Arrive(h)
  BY <1>1 DEF Arrive, Request
<1>2. CASE SkipRead(h) \/ SkipWrite(h) \/ ReadClock(h) \/ TestEvents(h) \/ SetServerTime(h)
           \/ CaughtUp(h) \/ RejectJob(h) \/ DuplicateTask(h) \/ CheckCancel(h) \/ GetQueue(h)
  BY <1>2 DEF SkipRead, SkipWrite, ReadClock, TestEvents, SetServerTime, CaughtUp, RejectJob,
     DuplicateTask, CheckCancel, GetQueue
<1>3. CASE StartClock(h) \/ StopSimulation(h) \/ JoinThrows(h) \/ Join(h) \/ Joined(h)
  BY <1>3 DEF StartClock, StopSimulation, JoinThrows, Join, Joined
<1>4. CASE TakeStatus(h) \/ CreateJob(h) \/ QueueJob(h) \/ ListJob(h) \/ QueueCancel(h)
  BY <1>4 DEF TakeStatus, TakeEvent, CreateJob, QueueJob, PushJob, ListJob, MapJob,
     QueueCancel, PushCancel
<1> QED
  BY <1>1, <1>2, <1>3, <1>4 DEF Handle

\* A handler moves only itself, and comes to and leaves the steps at which it
\* holds a job in one way.
LEMMA HandlerMoves ==
    ASSUME TypeOK, NEW h \in Handlers, Arrive(h) \/ Handle(h)
    PROVE  /\ \A g \in Handlers \ {h} : pc'[g] = pc[g] /\ job'[g] = job[g]
           /\ pc[h] = "add_push" <=> QueueJob(h)
           /\ pc[h] = "add_map" <=> ListJob(h)
           /\ pc'[h] = "add_push" <=> CreateJob(h)
           /\ pc'[h] = "add_map" <=> QueueJob(h)
           /\ pc'[h] = "cancel_push" => CheckCancel(h) /\ job[h] \in job_list /\ UNCHANGED job
           /\ QueueJob(h) => UNCHANGED job
<1> USE DEF TypeOK, HandlerTypeOK, At, GoOn, Answer
<1>1. CASE Arrive(h)
  <2>1. pc[h] = "idle" /\ \E r \in AllRoutes : pc' = [pc EXCEPT ![h] = Entry[r]]
    BY <1>1, ServerAssumption DEF Arrive, Request, AllRoutes
  <2>2. pc'[h] \notin {"add_push", "add_map", "cancel_push"}
    BY <2>1 DEF Entry, AllRoutes
  <2>3. \A g \in Handlers \ {h} : pc'[g] = pc[g] /\ job'[g] = job[g]
    BY <1>1, <2>1 DEF Arrive
  <2> QED
    BY <1>1, <2>1, <2>2, <2>3 DEF QueueJob, ListJob, CreateJob
<1>2. CASE SkipRead(h) \/ SkipWrite(h) \/ ReadClock(h) \/ TestEvents(h) \/ SetServerTime(h)
           \/ CaughtUp(h) \/ RejectJob(h) \/ DuplicateTask(h) \/ GetQueue(h)
  BY <1>2 DEF SkipRead, SkipWrite, ReadClock, TestEvents, SetServerTime, CaughtUp, RejectJob,
     DuplicateTask, GetQueue, QueueJob, ListJob, CreateJob
<1>3. CASE StartClock(h) \/ StopSimulation(h) \/ JoinThrows(h) \/ Join(h) \/ Joined(h)
  BY <1>3 DEF StartClock, StopSimulation, JoinThrows, Join, Joined, handlerVars, QueueJob,
     ListJob, CreateJob
<1>4. CASE TakeStatus(h) \/ CreateJob(h) \/ QueueJob(h) \/ ListJob(h) \/ QueueCancel(h)
  BY <1>4 DEF TakeStatus, CreateJob, QueueJob, ListJob, QueueCancel
<1>5. CASE CheckCancel(h)
  BY <1>5 DEF CheckCancel, QueueJob, ListJob, CreateJob
<1> QED
  BY <1>1, <1>2, <1>3, <1>4, <1>5 DEF Handle

-----------------------------------------------------------------------------
(* The way of a job to the batch service.                                  *)

LEMMA HandedTypes ==
    ASSUME TypeOK
    PROVE  /\ InTransit \in Seq(Jobs) /\ InTransit \in Seq(AllJobs)
           /\ submitted \in Seq(AllJobs) /\ toSubmitJobs \in Seq(AllJobs)
           /\ Handed \in Seq(AllJobs)
           /\ Range(Handed) = Range(submitted) \cup Range(InTransit)
<1>1. toSubmitJobs \in Seq(Jobs) /\ submitted \in Seq(AllJobs)
      /\ (wmsPc = "submit_pop" => toSubmitJobs # <<>>)
  BY DEF TypeOK, BatchTypeOK, WmsTypeOK
<1>2. Jobs \subseteq AllJobs
  BY DEF AllJobs
<1>3. InTransit \in Seq(Jobs)
  BY <1>1, HeadTailProperties DEF InTransit
<1>4. InTransit \in Seq(AllJobs) /\ toSubmitJobs \in Seq(AllJobs)
  BY <1>1, <1>2, <1>3, SeqMonotonic
<1> QED
  BY <1>1, <1>3, <1>4, ConcatProperties, RangeConcatenation DEF Handed

\* addJob puts its job behind all the others.
LEMMA QueueJobAppends ==
    ASSUME TypeOK, NEW h \in Handlers, QueueJob(h)
    PROVE  /\ job[h] \in Jobs /\ h \in Pushing
           /\ Handed' = Append(Handed, job[h])
<1>1. job[h] \in Jobs /\ h \in Pushing /\ job[h] \in AllJobs
  BY DEF QueueJob, At, TypeOK, HandlerTypeOK, JobLabel, Pushing, AllJobs
<1>2. toSubmitJobs' = Append(toSubmitJobs, job[h]) /\ UNCHANGED <<submitted, wmsPc>>
  BY DEF QueueJob, PushJob, batchVars
<1>3. InTransit' = Append(InTransit, job[h])
  <2>1. CASE wmsPc = "submit_pop"
    <3>1. toSubmitJobs \in Seq(Jobs) /\ toSubmitJobs # <<>>
      BY <2>1 DEF TypeOK, WmsTypeOK
    <3> QED
      BY <1>2, <2>1, <3>1, HeadTailAppend DEF InTransit
  <2>2. CASE wmsPc # "submit_pop"
    BY <1>2, <2>2 DEF InTransit
  <2> QED
    BY <2>1, <2>2
<1> QED
  BY <1>1, <1>2, <1>3, HandedTypes, AppendToConcat DEF Handed

\* What main() does to the jobs handed over: the background jobs go first, and
\* the submission of a job leaves them as they are.
LEMMA HandedByMain ==
    ASSUME TypeOK, WmsStep
    PROVE  Handed' = Handed \/ SubmitBackground
<1> USE DEF Handed, InTransit, Goto
<1>1. CASE UNCHANGED <<submitted, toSubmitJobs>> /\ wmsPc # "submit_pop" /\ wmsPc' # "submit_pop"
  BY <1>1
<1>2. CASE SubmitJob
  <2>1. toSubmitJobs \in Seq(AllJobs) /\ toSubmitJobs # <<>> /\ submitted \in Seq(AllJobs)
    BY <1>2, HandedTypes DEF SubmitJob, TypeOK, WmsTypeOK
  <2>2. Append(submitted, Head(toSubmitJobs)) \o Tail(toSubmitJobs) = submitted \o toSubmitJobs
    BY <2>1, MoveHead
  <2> QED
    BY <1>2, <2>2 DEF SubmitJob, Submit, queueVars
<1>3. CASE PopSubmitted
  BY <1>3 DEF PopSubmitted, batchVars
<1>4. CASE \/ Boot \/ CreateJobManager \/ TestSubmit \/ ClearDone \/ TestCancel \/ TerminateJob
           \/ EraseCancelled \/ PopCancelled \/ TestAdvance \/ WaitEvent \/ WaitTimeout
           \/ PushEvent \/ CheckStop
  BY <1>1, <1>4 DEF Boot, CreateJobManager, TestSubmit, ClearDone, TestCancel, TerminateJob,
     EraseCancelled, PopCancelled, TestAdvance, WaitEvent, WaitTimeout, PushEvent, CheckStop,
     Terminate, Receive, ReceiveNone, batchVars, queueVars
<1> QED
  BY <1>2, <1>3, <1>4 DEF WmsStep

\* Every step but addJob's and the submission of the background jobs leaves the
\* jobs handed over as they are.
LEMMA HandedStep ==
    ASSUME TypeOK, [Next]_vars
    PROVE  \/ UNCHANGED Handed
           \/ \E h \in Handlers : QueueJob(h)
           \/ SubmitBackground /\ UNCHANGED <<handlerVars, historyVars>>
<1> SUFFICES ASSUME ~SubmitBackground \/ ~UNCHANGED <<handlerVars, historyVars>>,
                    \A h \in Handlers : ~QueueJob(h)
             PROVE  UNCHANGED Handed
  OBVIOUS
<1>1. CASE UNCHANGED <<batchVars, wmsVars, handlerVars, historyVars>>
  BY <1>1 DEF batchVars, wmsVars, queueVars, Handed, InTransit
<1>2. CASE (WmsStep \/ BatchStep) /\ UNCHANGED <<handlerVars, historyVars>>
  <2>1. CASE BatchStep
    BY <2>1 DEF BatchStep, BatchStart, BatchEnd, wmsVars, queueVars, Handed, InTransit
  <2> QED
    BY <1>2, <2>1, HandedByMain
<1>3. ASSUME NEW h \in Handlers, Arrive(h) \/ Handle(h)
      PROVE  UNCHANGED Handed
  BY <1>3, HandlerChanges DEF batchVars, Handed, InTransit
<1> QED
  BY <1>1, <1>2, <1>3, Steps

\* No step but the submission of the background jobs gives the batch service a
\* job before they are there.
LEMMA NothingSubmittedStep ==
    ASSUME TypeOK, JobsInv, [Next]_vars, wmsPc' \in {"boot", "starting", "background"}
    PROVE  submitted' = <<>>
<1> USE DEF JobsInv
<1>1. CASE UNCHANGED <<submitted, wmsPc>>
  BY <1>1
<1>2. CASE WmsStep
  BY <1>2 DEF WmsStep, Boot, CreateJobManager, SubmitBackground, TestSubmit, SubmitJob,
     PopSubmitted, ClearDone, TestCancel, TerminateJob, EraseCancelled, PopCancelled,
     TestAdvance, WaitEvent, WaitTimeout, PushEvent, CheckStop, Goto, batchVars
<1>3. CASE BatchStep
  BY <1>3 DEF BatchStep, wmsVars
<1> QED
  BY <1>1, <1>2, <1>3, Steps, HandlerChanges DEF batchVars, wmsVars

LEMMA CreatedStep ==
    ASSUME TypeOK, JobsInv, [Next]_vars
    PROVE  CreatedJobsAreKept'
<1> USE DEF JobsInv, CreatedJobsAreKept
<1>1. ASSUME UNCHANGED <<Handed, created, Pushing>>, \A h \in Pushing : job'[h] = job[h]
      PROVE  CreatedJobsAreKept'
  BY <1>1
<1>2. CASE UNCHANGED <<Handed, handlerVars, historyVars>>
  BY <1>1, <1>2 DEF handlerVars, historyVars, Pushing
<1>3. CASE SubmitBackground /\ UNCHANGED <<handlerVars, historyVars>>
  <2>1. /\ submitted = <<>> /\ submitted' = submitted \o background_jobs
        /\ InTransit = toSubmitJobs /\ InTransit' = toSubmitJobs
    BY <1>3 DEF SubmitBackground, Goto, InTransit, queueVars
  <2>2. /\ toSubmitJobs \in Seq(Jobs) /\ toSubmitJobs \in Seq(AllJobs)
        /\ background_jobs \in Seq(AllJobs) /\ IsInjective(background_jobs)
        /\ Jobs \cap Background = {}
    BY HandedTypes, BackgroundAssumption, SeqMonotonic DEF AllJobs, TypeOK, WmsTypeOK
  <2>3. Handed = toSubmitJobs /\ Handed' = background_jobs \o toSubmitJobs
    BY <2>1, <2>2, ConcatEmptySeq DEF Handed
  <2>4. Range(toSubmitJobs) \subseteq Jobs /\ Range(Handed') = Background \cup Range(toSubmitJobs)
    BY <2>2, <2>3, RangeOfSeq, RangeConcatenation DEF Background
  <2>5. IsInjective(Handed')
    BY <2>2, <2>3, <2>4, InjectiveConcat DEF Background
  <2>6. \A h \in Pushing : job[h] \in Jobs
    BY DEF Pushing, TypeOK, HandlerTypeOK, JobLabel
  <2>7. UNCHANGED <<created, Pushing, job>>
    BY <1>3 DEF handlerVars, historyVars, Pushing
  <2> QED
    BY <2>2, <2>3, <2>4, <2>5, <2>6, <2>7
<1>4. ASSUME NEW h \in Handlers, QueueJob(h)
      PROVE  CreatedJobsAreKept'
  <2>1. job[h] \in Jobs /\ h \in Pushing /\ Handed' = Append(Handed, job[h])
    BY <1>4, QueueJobAppends
  <2>2. job[h] \in AllJobs /\ job[h] \notin Background /\ Handed \in Seq(AllJobs)
    BY <2>1, HandedTypes, BackgroundAssumption DEF AllJobs
  <2>3. IsInjective(Handed') /\ Range(Handed') = Range(Handed) \cup {job[h]}
    BY <2>1, <2>2, InjectiveAppended, RangeOfAppended
  <2>4. UNCHANGED <<created, job>> /\ Pushing' = Pushing \ {h}
    BY <1>4, HandlerMoves DEF Handle, Pushing, QueueJob, historyVars
  <2> QED
    BY <2>1, <2>2, <2>3, <2>4
<1>5. ASSUME NEW h \in Handlers, CreateJob(h)
      PROVE  CreatedJobsAreKept'
  <2>1. PICK j \in Jobs \ created : created' = created \cup {j} /\ job' = [job EXCEPT ![h] = j]
    BY <1>5 DEF CreateJob
  <2>2. UNCHANGED Handed
    BY <1>5 DEF CreateJob, batchVars, wmsVars, queueVars, Handed, InTransit
  <2>3. /\ Pushing' = Pushing \cup {h} /\ h \notin Pushing
        /\ job'[h] = j /\ \A g \in Pushing : job'[g] = job[g]
    BY <1>5, <2>1 DEF CreateJob, At, Pushing, TypeOK, HandlerTypeOK
  <2>4. j \notin Range(Handed) /\ \A g \in Pushing : job[g] # j
    BY <2>1, BackgroundAssumption
  <2> QED
    BY <2>1, <2>2, <2>3, <2>4
<1>6. ASSUME NEW h \in Handlers, Arrive(h) \/ Handle(h), ~QueueJob(h), ~CreateJob(h)
      PROVE  CreatedJobsAreKept'
  <2>1. UNCHANGED <<Handed, created>>
    BY <1>6, HandlerChanges DEF batchVars, Handed, InTransit
  <2>2. UNCHANGED Pushing /\ \A g \in Pushing : job'[g] = job[g]
    BY <1>6, HandlerMoves DEF Pushing
  <2> QED
    BY <1>1, <2>1, <2>2
<1>7. CASE UNCHANGED <<batchVars, wmsVars, handlerVars, historyVars>>
  BY <1>2, <1>7 DEF batchVars, wmsVars, queueVars, Handed, InTransit
<1>8. CASE (WmsStep \/ BatchStep) /\ UNCHANGED <<handlerVars, historyVars>>
  <2>1. CASE BatchStep
    BY <1>2, <1>8, <2>1 DEF BatchStep, BatchStart, BatchEnd, wmsVars, queueVars, Handed, InTransit
  <2> QED
    BY <1>2, <1>3, <1>8, <2>1, HandedByMain
<1> QED
  BY <1>4, <1>5, <1>6, <1>7, <1>8, Steps

\* JobsInv is inductive.
LEMMA JobsInvariant == Spec => []JobsInv
<1>1. Init => JobsInv
  <2> SUFFICES ASSUME Init PROVE JobsInv
    OBVIOUS
  <2>1. submitted = <<>> /\ InTransit = <<>> /\ Handed = <<>>
    BY EmptySeq, ConcatEmptySeq DEF Init, BatchInit, WmsInit, InTransit, Handed
  <2>2. DOMAIN Handed = {} /\ Range(Handed) = {} /\ Pushing = {} /\ created = {}
    BY <2>1 DEF Init, Pushing, Range
  <2> QED
    BY <2>1, <2>2 DEF JobsInv, CreatedJobsAreKept, IsInjective
<1>2. TypeOK /\ JobsInv /\ [Next]_vars => JobsInv'
  BY CreatedStep, NothingSubmittedStep DEF JobsInv
<1> QED
  BY <1>1, <1>2, TypeCorrect, PTL DEF Spec

\* A job that has an identifier is in the hands of one addJob handler, or once
\* in the queue or the batch service, whatever the interleaving of addJob with
\* the three steps in which main() submits a job: what main() pops is what it
\* submitted, and what it is about to submit is nowhere else (JobsInv).
THEOREM CreatedJobsStayKept == Spec => []CreatedJobsAreKept
<1>1. JobsInv => CreatedJobsAreKept
  BY DEF JobsInv
<1> QED
  BY <1>1, JobsInvariant, PTL

\* Jobs reach the batch service in the order in which addJob queued them: addJob
\* only appends, and what main() moves from its queue to the service keeps its
\* place.
THEOREM JobsKeepTheirOrder == Spec => FirstComeFirstServed
<1> DEFINE A == \/ Handed' = Handed
                \/ \E j \in Jobs : Handed' = Append(Handed, j)
                \/ wmsPc = "background"
<1>1. TypeOK /\ [Next]_vars => [A]_vars
  BY HandedStep, QueueJobAppends DEF SubmitBackground, Goto
<1> QED
  BY <1>1, TypeCorrect, PTL DEF Spec, FirstComeFirstServed

-----------------------------------------------------------------------------
(* The way of a job's end to the clients.                                  *)

LEMMA JobsOfProperties ==
    ASSUME NEW S, \A e \in S : e.job \in AllJobs
    PROVE  \A s \in Seq(S) : /\ JobsOf(s) \in Seq(AllJobs) /\ Len(JobsOf(s)) = Len(s)
                             /\ \A i \in 1..Len(s) : JobsOf(s)[i] = s[i].job
<1> SUFFICES ASSUME NEW s \in Seq(S)
             PROVE  /\ JobsOf(s) \in Seq(AllJobs) /\ Len(JobsOf(s)) = Len(s)
                    /\ \A i \in 1..Len(s) : JobsOf(s)[i] = s[i].job
  OBVIOUS
<1>1. DOMAIN s = 1..Len(s) /\ Len(s) \in Nat /\ \A i \in 1..Len(s) : s[i].job \in AllJobs
  BY LenProperties, ElementOfSeq
<1>2. JobsOf(s) = [i \in 1..Len(s) |-> s[i].job]
  BY <1>1 DEF JobsOf
<1> QED
  BY <1>1, <1>2

LEMMA JobsOfAppend ==
    ASSUME NEW S, NEW s \in Seq(S), NEW e \in S, \A x \in S : x.job \in AllJobs
    PROVE  e.job \in AllJobs /\ JobsOf(Append(s, e)) = Append(JobsOf(s), e.job)
<1> DEFINE u == Append(s, e)
           v == Append(JobsOf(s), e.job)
<1>0. \A r \in Seq(S) : /\ JobsOf(r) \in Seq(AllJobs) /\ Len(JobsOf(r)) = Len(r)
                        /\ \A i \in 1..Len(r) : JobsOf(r)[i] = r[i].job
  BY JobsOfProperties
<1>1. u \in Seq(S) /\ Len(u) = Len(s) + 1 /\ u[Len(s) + 1] = e
      /\ (\A i \in 1..Len(s) : u[i] = s[i]) /\ Len(s) \in Nat
  BY AppendProperties, LenProperties
<1>2. /\ JobsOf(s) \in Seq(AllJobs) /\ Len(JobsOf(s)) = Len(s)
      /\ \A i \in 1..Len(s) : JobsOf(s)[i] = s[i].job
      /\ e.job \in AllJobs
  BY <1>0
<1>3. /\ v \in Seq(AllJobs) /\ Len(v) = Len(s) + 1 /\ v[Len(s) + 1] = e.job
      /\ \A i \in 1..Len(s) : v[i] = s[i].job
  BY <1>2, AppendProperties
<1> HIDE DEF u, v
<1>4. /\ JobsOf(u) \in Seq(AllJobs) /\ Len(JobsOf(u)) = Len(u)
      /\ \A i \in 1..Len(u) : JobsOf(u)[i] = u[i].job
  BY <1>0, <1>1
<1>5. JobsOf(u) = v
  BY <1>1, <1>3, <1>4, SeqEqual
<1> QED
  BY <1>2, <1>5 DEF u, v

LEMMA JobsOfHeadTail ==
    ASSUME NEW S, NEW s \in Seq(S), s # <<>>, \A x \in S : x.job \in AllJobs
    PROVE  /\ Head(s).job \in AllJobs /\ JobsOf(Tail(s)) \in Seq(AllJobs)
           /\ JobsOf(s) = <<Head(s).job>> \o JobsOf(Tail(s))
<1> DEFINE t == JobsOf(Tail(s))
           h == <<Head(s).job>>
<1>0. \A r \in Seq(S) : /\ JobsOf(r) \in Seq(AllJobs) /\ Len(JobsOf(r)) = Len(r)
                        /\ \A i \in 1..Len(r) : JobsOf(r)[i] = r[i].job
  BY JobsOfProperties
<1>1. /\ Head(s) \in S /\ Tail(s) \in Seq(S) /\ Len(Tail(s)) = Len(s) - 1
      /\ (\A i \in 1 .. Len(Tail(s)) : Tail(s)[i] = s[i+1])
      /\ Head(s) = s[1] /\ Len(s) \in Nat \ {0}
  BY HeadTailProperties, EmptySeq
<1>2. t \in Seq(AllJobs) /\ Len(t) = Len(s) - 1 /\ \A i \in 1..(Len(s) - 1) : t[i] = s[i+1].job
  BY <1>0, <1>1
<1>3. h \in Seq(AllJobs) /\ Len(h) = 1 /\ h[1] = s[1].job
  BY <1>1
<1>4. /\ JobsOf(s) \in Seq(AllJobs) /\ Len(JobsOf(s)) = Len(s)
      /\ \A i \in 1..Len(s) : JobsOf(s)[i] = s[i].job
  BY <1>0
<1> HIDE DEF t, h
<1>5. /\ h \o t \in Seq(AllJobs) /\ Len(h \o t) = Len(h) + Len(t)
      /\ \A i \in 1..Len(h) + Len(t) :
            (h \o t)[i] = IF i <= Len(h) THEN h[i] ELSE t[i - Len(h)]
  BY <1>2, <1>3, ConcatProperties
<1>6. Len(h \o t) = Len(s) /\ \A i \in 1..Len(s) : (h \o t)[i] = s[i].job
  BY <1>1, <1>2, <1>3, <1>5
<1>7. JobsOf(s) = h \o t
  BY <1>1, <1>2, <1>4, <1>5, <1>6, SeqEqual
<1> QED
  BY <1>1, <1>2, <1>7 DEF h, t

\* Sequences of jobs, and how they are put together.
One(j) == <<j>>

LEMMA Together ==
    /\ \A s, t \in Seq(AllJobs) : s \o t \in Seq(AllJobs) /\ Range(s \o t) = Range(s) \cup Range(t)
    /\ \A s, t, u \in Seq(AllJobs) : (s \o t) \o u = s \o (t \o u)
    /\ <<>> \in Seq(AllJobs) /\ \A s \in Seq(AllJobs) : s \o <<>> = s /\ <<>> \o s = s
    /\ \A j \in AllJobs : One(j) \in Seq(AllJobs) /\ Range(One(j)) = {j}
    /\ \A s \in Seq(AllJobs), j \in AllJobs : Append(s, j) = s \o One(j)
<1>1. ASSUME NEW s \in Seq(AllJobs), NEW t \in Seq(AllJobs)
      PROVE  s \o t \in Seq(AllJobs) /\ Range(s \o t) = Range(s) \cup Range(t)
  BY ConcatProperties, RangeConcatenation
<1>2. ASSUME NEW s \in Seq(AllJobs), NEW t \in Seq(AllJobs), NEW u \in Seq(AllJobs)
      PROVE  (s \o t) \o u = s \o (t \o u)
  BY ConcatAssociative
<1>3. <<>> \in Seq(AllJobs) /\ \A s \in Seq(AllJobs) : s \o <<>> = s /\ <<>> \o s = s
  BY EmptySeq, ConcatEmptySeq
<1>4. ASSUME NEW j \in AllJobs
      PROVE  One(j) \in Seq(AllJobs) /\ Range(One(j)) = {j}
  BY DEF One, Range
<1>5. ASSUME NEW s \in Seq(AllJobs), NEW j \in AllJobs
      PROVE  Append(s, j) = s \o One(j)
  BY AppendIsConcat DEF One
<1> QED
  BY <1>1, <1>2, <1>3, <1>4, <1>5

\* The provers take the pieces of a sequence apart more easily when the operator
\* that joins them is not one they know.
Cat(s, t) == s \o t

LEMMA Joining ==
    /\ \A s, t \in Seq(AllJobs) : /\ Cat(s, t) \in Seq(AllJobs)
                                 /\ Range(Cat(s, t)) = Range(s) \cup Range(t)
    /\ \A s, t, u \in Seq(AllJobs) : Cat(Cat(s, t), u) = Cat(s, Cat(t, u))
    /\ \A s \in Seq(AllJobs) : Cat(s, <<>>) = s
    /\ \A j \in AllJobs : One(j) \in Seq(AllJobs) /\ Range(One(j)) = {j}
    /\ \A s \in Seq(AllJobs), j \in AllJobs : Append(s, j) = Cat(s, One(j))
<1>1. ASSUME NEW s \in Seq(AllJobs), NEW t \in Seq(AllJobs)
      PROVE  Cat(s, t) \in Seq(AllJobs) /\ Range(Cat(s, t)) = Range(s) \cup Range(t)
  BY Together DEF Cat
<1>2. ASSUME NEW s \in Seq(AllJobs), NEW t \in Seq(AllJobs), NEW u \in Seq(AllJobs)
      PROVE  Cat(Cat(s, t), u) = Cat(s, Cat(t, u))
  BY Together DEF Cat
<1>3. ASSUME NEW s \in Seq(AllJobs)
      PROVE  Cat(s, <<>>) = s
  BY Together DEF Cat
<1>4. ASSUME NEW s \in Seq(AllJobs), NEW j \in AllJobs
      PROVE  Append(s, j) = Cat(s, One(j))
  BY Together DEF Cat
<1>5. \A j \in AllJobs : One(j) \in Seq(AllJobs) /\ Range(One(j)) = {j}
  BY Together
<1> QED
  BY <1>1, <1>2, <1>3, <1>4, <1>5

\* Events carry jobs.
LEMMA EventJobs ==
    ASSUME NEW E, E = JobEvent \/ E = Event, NEW s \in Seq(E)
    PROVE  /\ JobsOf(s) \in Seq(AllJobs)
           /\ \A e \in E : e.job \in AllJobs /\ JobsOf(Append(s, e)) = JobsOf(s) \o One(e.job)
           /\ s # <<>> => /\ Head(s) \in E /\ Head(s).job \in AllJobs
                          /\ JobsOf(Tail(s)) \in Seq(AllJobs)
                          /\ JobsOf(s) = One(Head(s).job) \o JobsOf(Tail(s))
<1>1. \A e \in E : e.job \in AllJobs
  <2>1. (\A e \in JobEvent : e.job \in AllJobs) /\ \A e \in Event : e.job \in AllJobs
    BY DEF Event, JobEvent, PilotEvent, AllJobs
  <2> QED
    BY <2>1
<1>2. JobsOf(s) \in Seq(AllJobs)
  BY <1>1, JobsOfProperties
<1>3. ASSUME NEW e \in E
      PROVE  e.job \in AllJobs /\ JobsOf(Append(s, e)) = JobsOf(s) \o One(e.job)
  <2>1. e.job \in AllJobs /\ JobsOf(Append(s, e)) = Append(JobsOf(s), e.job)
    BY <1>1, JobsOfAppend
  <2> QED
    BY <1>2, <2>1, Together
<1>4. ASSUME s # <<>>
      PROVE  /\ Head(s) \in E /\ Head(s).job \in AllJobs
             /\ JobsOf(Tail(s)) \in Seq(AllJobs)
             /\ JobsOf(s) = One(Head(s).job) \o JobsOf(Tail(s))
  <2>1. Head(s) \in E
    BY <1>4, HeadTailProperties
  <2>2. /\ Head(s).job \in AllJobs /\ JobsOf(Tail(s)) \in Seq(AllJobs)
        /\ JobsOf(s) = <<Head(s).job>> \o JobsOf(Tail(s))
    BY <1>1, <1>4, JobsOfHeadTail
  <2> QED
    BY <2>1, <2>2 DEF One
<1> QED
  BY <1>2, <1>3, <1>4

LEMMA EndsTypes ==
    ASSUME TypeOK
    PROVE  /\ reported \in Seq(AllJobs) /\ JobsOf(events) \in Seq(AllJobs)
           /\ Received \in Seq(AllJobs) /\ JobsOf(mailbox) \in Seq(AllJobs)
           /\ Ends \in Seq(AllJobs)
           /\ events \in Seq(JobEvent) /\ mailbox \in Seq(Event)
           /\ wmsEvent # NoEvent => /\ wmsEvent \in JobEvent /\ wmsEvent.job \in AllJobs
                                    /\ Received = One(wmsEvent.job)
<1>1. reported \in Seq(AllJobs) /\ events \in Seq(JobEvent) /\ mailbox \in Seq(Event)
  BY SeqMonotonic DEF TypeOK, HistoryTypeOK, WmsTypeOK, BatchTypeOK, AllJobs
<1>2. wmsEvent # NoEvent => /\ wmsEvent \in JobEvent /\ wmsEvent.job \in AllJobs
                           /\ Received = One(wmsEvent.job)
  BY DEF TypeOK, WmsTypeOK, Received, JobEvent, AllJobs, One
<1>3. Received \in Seq(AllJobs)
  BY <1>2, Together DEF Received
<1>4. JobsOf(events) \in Seq(AllJobs) /\ JobsOf(mailbox) \in Seq(AllJobs)
  BY <1>1, EventJobs
<1> QED
  BY <1>1, <1>2, <1>3, <1>4, Together DEF Ends

\* t is s with one job left out.
LeavesOut(s, t, j) ==
    \E a, b \in Seq(AllJobs) : s = a \o (One(j) \o b) /\ t = a \o b

\* waitForNextEvent takes the end of a job out of the mailbox, for main() to put
\* in the queue; news of a background job is thrown away.
LEMMA EndReceived ==
    ASSUME TypeOK, WaitEvent, UNCHANGED <<handlerVars, historyVars>>
    PROVE  \/ UNCHANGED Ends
           \/ \E j \in Background : LeavesOut(Ends, Ends', j)
<1> DEFINE a == reported \o JobsOf(events)
           x == Head(mailbox).job
           d == JobsOf(Tail(mailbox))
<1>1. mailbox # <<>> /\ wmsEvent = NoEvent /\ mailbox' = Tail(mailbox)
      /\ UNCHANGED <<reported, events>>
  BY DEF WaitEvent, Receive, TypeOK, WmsTypeOK, queueVars, historyVars
<1>2. /\ Head(mailbox) \in Event /\ x \in AllJobs /\ d \in Seq(AllJobs)
      /\ JobsOf(mailbox) = One(x) \o d
  BY <1>1, EndsTypes, EventJobs
<1>3. a \in Seq(AllJobs) /\ One(x) \in Seq(AllJobs)
  BY <1>2, EndsTypes, Together
<1>4. Ends = a \o (One(x) \o d)
  BY <1>1, <1>2, <1>3, Together DEF Ends, Received
<1>5. CASE Head(mailbox) \in PilotEvent
  <2>1. x \in Background /\ wmsEvent' = NoEvent
    BY <1>1, <1>5 DEF WaitEvent, PilotEvent
  <2>2. Ends' = a \o d
    BY <1>1, <1>2, <1>3, <2>1, Together DEF Ends, Received
  <2> HIDE DEF a, x, d
  <2> QED
    BY <1>2, <1>3, <1>4, <2>1, <2>2 DEF LeavesOut
<1>6. CASE Head(mailbox) \notin PilotEvent
  <2>1. wmsEvent' = Head(mailbox) /\ wmsEvent' # NoEvent
    BY <1>2, <1>6 DEF WaitEvent, Event, JobEvent, NoEvent
  <2>2. Ends' = a \o One(x) \o d
    BY <1>1, <2>1 DEF Ends, Received, One
  <2> HIDE DEF a, x, d
  <2> QED
    BY <1>2, <1>3, <1>4, <2>2, Together
<1> QED
  BY <1>5, <1>6

LEMMA EndPushed ==
    ASSUME TypeOK, PushEvent, UNCHANGED <<handlerVars, historyVars>>
    PROVE  UNCHANGED Ends
<1> DEFINE a == reported
           b == JobsOf(events)
           x == wmsEvent.job
           d == JobsOf(mailbox)
<1>1. wmsEvent \in JobEvent /\ wmsEvent # NoEvent /\ wmsEvent' = NoEvent
      /\ events' = Append(events, wmsEvent) /\ UNCHANGED <<reported, mailbox>>
  BY DEF TypeOK, WmsTypeOK, PushEvent, Goto, batchVars, historyVars
<1>2. x \in AllJobs /\ JobsOf(events') = b \o One(x)
  BY <1>1, EndsTypes, EventJobs
<1>3. Received = One(x) /\ Received' = <<>>
  BY <1>1, EndsTypes DEF Received
<1>4. /\ Ends = Cat(Cat(Cat(a, b), One(x)), d)
      /\ Ends' = Cat(Cat(Cat(a, Cat(b, One(x))), <<>>), d)
  BY <1>1, <1>2, <1>3 DEF Ends, Cat
<1>5. a \in Seq(AllJobs) /\ b \in Seq(AllJobs) /\ d \in Seq(AllJobs) /\ One(x) \in Seq(AllJobs)
  BY <1>2, EndsTypes, Together
<1> HIDE DEF a, b, x, d
<1> QED
  BY <1>4, <1>5, Joining

\* getEventStatuses reports the first end in the queue, or forgets it when
\* its job is no longer listed.
LEMMA EndTaken ==
    ASSUME TypeOK, NEW h \in Handlers, TakeStatus(h)
    PROVE  LET j == Head(events).job
           IN  /\ j \in Jobs /\ j \in Range(Ends)
               /\ IF j \in job_list
                  THEN Ends' = Ends /\ reported' = Append(reported, j)
                  ELSE /\ LeavesOut(Ends, Ends', j) /\ reported' = reported
                       /\ Range(reported) \subseteq Range(Ends')
<1> DEFINE a == reported
           x == Head(events).job
           b == JobsOf(Tail(events))
           c == Received
           d == JobsOf(mailbox)
<1>1. /\ events # <<>> /\ events' = Tail(events) /\ UNCHANGED <<mailbox, wmsEvent>>
      /\ reported' = IF x \in job_list THEN Append(a, x) ELSE a
  BY DEF TakeStatus, TakeEvent, batchVars
<1>2. /\ Head(events) \in JobEvent /\ x \in AllJobs /\ b \in Seq(AllJobs)
      /\ JobsOf(events) = One(x) \o b
  BY <1>1, EndsTypes, EventJobs
<1>3. x \in Jobs
  BY <1>2 DEF JobEvent
<1>4. /\ a \in Seq(AllJobs) /\ c \in Seq(AllJobs) /\ d \in Seq(AllJobs)
      /\ One(x) \in Seq(AllJobs) /\ Range(One(x)) = {x}
  BY <1>2, EndsTypes, Together
<1> DEFINE o == One(x)
           r == Cat(b, Cat(c, d))
<1>5. /\ Ends = Cat(Cat(Cat(a, Cat(o, b)), c), d)
      /\ Ends' = Cat(Cat(Cat(reported', b), c), d)
  BY <1>1, <1>2 DEF Ends, Received, Cat
<1> SUFFICES /\ x \in Range(Ends)
             /\ IF x \in job_list
                THEN Ends' = Ends /\ reported' = Append(reported, x)
                ELSE /\ LeavesOut(Ends, Ends', x) /\ reported' = reported
                     /\ Range(reported) \subseteq Range(Ends')
  BY <1>3
<1>6. Append(a, x) = Cat(a, o)
  BY <1>2, <1>4, Joining
<1>7. o \in Seq(AllJobs) /\ Range(o) = {x}
  BY <1>4
<1> HIDE DEF a, b, c, d, x, o
<1>8. /\ r \in Seq(AllJobs) /\ Ends = Cat(a, Cat(o, r))
      /\ Cat(Cat(Cat(Cat(a, o), b), c), d) = Cat(a, Cat(o, r))
      /\ Cat(Cat(Cat(a, b), c), d) = Cat(a, r)
  <2>1. /\ Cat(c, d) \in Seq(AllJobs) /\ Cat(o, b) \in Seq(AllJobs)
        /\ Cat(a, o) \in Seq(AllJobs) /\ Cat(a, b) \in Seq(AllJobs)
    BY <1>2, <1>4, <1>7, Joining
  <2>2. r \in Seq(AllJobs)
    BY <1>2, <2>1, Joining
  <2>3. \A s \in Seq(AllJobs) : Cat(Cat(Cat(s, b), c), d) = Cat(s, r)
    <3>1. ASSUME NEW s \in Seq(AllJobs)
          PROVE  Cat(Cat(Cat(s, b), c), d) = Cat(s, r)
      <4>1. Cat(s, b) \in Seq(AllJobs)
        BY <1>2, Joining
      <4>2. Cat(Cat(Cat(s, b), c), d) = Cat(Cat(s, b), Cat(c, d))
        BY <1>4, <4>1, Joining
      <4> QED
        BY <1>2, <2>1, <4>2, Joining
    <3> QED
      BY <3>1
  <2>4. Cat(Cat(a, Cat(o, b)), c) = Cat(Cat(Cat(a, o), b), c)
    BY <1>2, <1>4, <1>7, Joining
  <2>5. Cat(Cat(a, o), r) = Cat(a, Cat(o, r))
    BY <1>4, <1>7, <2>2, Joining
  <2> HIDE DEF r
  <2>6. Cat(Cat(Cat(Cat(a, o), b), c), d) = Cat(a, Cat(o, r))
    BY <2>1, <2>3, <2>5
  <2>7. Cat(Cat(Cat(a, b), c), d) = Cat(a, r)
    BY <1>4, <2>3
  <2>8. Ends = Cat(Cat(Cat(Cat(a, o), b), c), d)
    BY <1>5, <2>4
  <2> QED
    BY <2>2, <2>6, <2>7, <2>8
<1> HIDE DEF r
<1>9. x \in Range(Ends)
  <2>1. Cat(o, r) \in Seq(AllJobs) /\ Range(Cat(o, r)) = Range(o) \cup Range(r)
    BY <1>7, <1>8, Joining
  <2>2. Range(Cat(a, Cat(o, r))) = Range(a) \cup Range(Cat(o, r))
    BY <1>4, <2>1, Joining
  <2>3. x \in Range(o)
    BY <1>7
  <2> QED
    BY <1>8, <2>1, <2>2, <2>3
<1>10. CASE x \in job_list
  <2>1. reported' = Cat(a, o) /\ reported' = Append(a, x)
    BY <1>1, <1>6, <1>10
  <2>2. Ends' = Ends
    BY <1>5, <1>8, <2>1
  <2> QED
    BY <1>9, <1>10, <2>1, <2>2 DEF a
<1>11. CASE x \notin job_list
  <2>1. reported' = a
    BY <1>1, <1>11
  <2>2. Ends = a \o (One(x) \o r) /\ Ends' = a \o r
    BY <1>5, <1>8, <2>1 DEF Cat, o
  <2>3. LeavesOut(Ends, Ends', x)
    BY <1>4, <1>8, <2>2 DEF LeavesOut
  <2>4. Range(a) \subseteq Range(Ends')
    BY <1>4, <1>5, <1>8, <2>1, Joining
  <2> QED
    BY <1>9, <1>11, <2>1, <2>3, <2>4 DEF a
<1> QED
  BY <1>10, <1>11

\* The batch service sends the end of a job, or news of a background job.
LEMMA EndSent ==
    ASSUME TypeOK, NEW j \in AllJobs, BatchStart(j) \/ BatchEnd(j),
           UNCHANGED <<wmsVars, historyVars>>
    PROVE  IF j \in Background \/ BatchEnd(j) THEN Ends' = Append(Ends, j) ELSE UNCHANGED Ends
<1>1. UNCHANGED <<reported, events, wmsEvent>>
  BY DEF wmsVars, queueVars, historyVars
<1>2. ASSUME UNCHANGED mailbox
      PROVE  UNCHANGED Ends
  BY <1>1, <1>2 DEF Ends, Received
<1>3. ASSUME NEW e \in Event, mailbox' = Append(mailbox, e)
      PROVE  Ends' = Append(Ends, e.job)
  <2> DEFINE a == reported \o JobsOf(events) \o Received
  <2>1. a \in Seq(AllJobs) /\ JobsOf(mailbox) \in Seq(AllJobs) /\ Ends \in Seq(AllJobs)
    BY EndsTypes, Together
  <2>2. e.job \in AllJobs /\ JobsOf(mailbox') = JobsOf(mailbox) \o One(e.job)
    BY <1>3, EndsTypes, EventJobs
  <2>3. Ends = a \o JobsOf(mailbox) /\ Ends' = a \o JobsOf(mailbox')
    BY <1>1 DEF Ends, Received
  <2> HIDE DEF a
  <2>4. One(e.job) \in Seq(AllJobs) /\ Append(Ends, e.job) = Ends \o One(e.job)
    BY <2>1, <2>2, Together
  <2>5. a \o (JobsOf(mailbox) \o One(e.job)) = (a \o JobsOf(mailbox)) \o One(e.job)
    BY <2>1, <2>4, Together
  <2> QED
    BY <2>2, <2>3, <2>4, <2>5
<1>5. CASE BatchStart(j) /\ j \in Background
  <2> DEFINE e == [kind |-> "started", job |-> j]
  <2>1. e \in Event /\ e.job = j /\ mailbox' = Append(mailbox, e)
    BY <1>5 DEF BatchStart, Event, PilotEvent
  <2> HIDE DEF e
  <2> QED
    BY <1>3, <1>5, <2>1
<1>6. CASE BatchEnd(j)
  <2>1. \E e \in Event : e.job = j /\ mailbox' = Append(mailbox, e)
    BY <1>6 DEF BatchEnd, Event, PilotEvent, JobEvent
  <2> QED
    BY <1>3, <1>6, <2>1
<1>7. CASE BatchStart(j) /\ j \notin Background /\ ~BatchEnd(j)
  BY <1>2, <1>7 DEF BatchStart
<1> QED
  BY <1>5, <1>6, <1>7

-----------------------------------------------------------------------------
(* No end is reported twice.                                               *)

\* No user's job occurs twice in s.
Once(s) == \A i, k \in DOMAIN s : s[i] = s[k] /\ s[i] \in Jobs => i = k

LEMMA OnceAppended ==
    ASSUME NEW s \in Seq(AllJobs), NEW j \in AllJobs, Once(s), j \notin Jobs \/ j \notin Range(s)
    PROVE  Once(Append(s, j)) /\ Range(Append(s, j)) = Range(s) \cup {j}
<1> DEFINE t == Append(s, j)
<1>1. t \in Seq(AllJobs) /\ Len(t) = Len(s) + 1 /\ t[Len(s) + 1] = j
      /\ \A i \in 1..Len(s) : t[i] = s[i]
  BY AppendProperties
<1>2. DOMAIN t = 1..Len(t) /\ DOMAIN s = 1..Len(s) /\ Len(s) \in Nat
  BY <1>1, LenProperties
<1>3. Range(t) = Range(s) \cup {j}
  BY RangeOfAppended
<1>4. \A i \in 1..Len(s) : s[i] \in Range(s)
  BY <1>2 DEF Range
<1> HIDE DEF t
<1>5. ASSUME NEW i \in DOMAIN t, NEW k \in DOMAIN t, t[i] = t[k], t[i] \in Jobs
      PROVE  i = k
  BY <1>1, <1>2, <1>4, <1>5 DEF Once
<1>6. Once(t)
  BY <1>5 DEF Once
<1> QED
  BY <1>3, <1>6 DEF t

LEMMA OnceLeftOut ==
    ASSUME NEW s, NEW t, NEW j \in AllJobs, LeavesOut(s, t, j), Once(s)
    PROVE  /\ Once(t) /\ Range(s) = Range(t) \cup {j}
           /\ j \in Jobs => j \notin Range(t)
<1>1. PICK a, b \in Seq(AllJobs) : s = a \o (One(j) \o b) /\ t = a \o b
  BY DEF LeavesOut
<1> DEFINE m == Len(a)
           n == Len(b)
           o == One(j)
           c == o \o b
<1>2. o \in Seq(AllJobs) /\ Len(o) = 1 /\ o[1] = j
  BY DEF One
<1> HIDE DEF o
<1>3. /\ c \in Seq(AllJobs) /\ Len(c) = n + 1
      /\ \A i \in 1..n+1 : c[i] = IF i <= 1 THEN o[i] ELSE b[i-1]
  <2>1. /\ o \o b \in Seq(AllJobs) /\ Len(o \o b) = Len(o) + Len(b)
        /\ \A i \in 1..Len(o)+Len(b) : (o \o b)[i] = IF i <= Len(o) THEN o[i] ELSE b[i-Len(o)]
    BY <1>2, ConcatProperties
  <2> QED
    BY <1>2, <2>1, LenProperties
<1>4. s = a \o c
  BY <1>1 DEF o
<1> HIDE DEF c
<1>5. /\ s \in Seq(AllJobs) /\ Len(s) = m + (n + 1)
      /\ \A i \in 1..m+(n+1) : s[i] = IF i <= m THEN a[i] ELSE c[i-m]
  <2>1. /\ a \o c \in Seq(AllJobs) /\ Len(a \o c) = Len(a) + Len(c)
        /\ \A i \in 1..Len(a)+Len(c) : (a \o c)[i] = IF i <= Len(a) THEN a[i] ELSE c[i-Len(a)]
    BY <1>3, ConcatProperties
  <2> QED
    BY <1>3, <1>4, <2>1
<1>6. /\ t \in Seq(AllJobs) /\ Len(t) = m + n
      /\ \A i \in 1..m+n : t[i] = IF i <= m THEN a[i] ELSE b[i-m]
  BY <1>1, ConcatProperties
<1>7. m \in Nat /\ n \in Nat /\ DOMAIN s = 1..m+n+1 /\ DOMAIN t = 1..m+n
  BY <1>5, <1>6, LenProperties
<1> HIDE DEF m, n
<1> DEFINE f(i) == IF i <= m THEN i ELSE i + 1
<1>8. s[m+1] = j /\ m+1 \in DOMAIN s
  BY <1>2, <1>3, <1>5, <1>7
<1>9. \A i \in DOMAIN t : f(i) \in DOMAIN s /\ f(i) # m+1 /\ s[f(i)] = t[i]
  <2>1. ASSUME NEW i \in DOMAIN t
        PROVE  f(i) \in DOMAIN s /\ f(i) # m+1 /\ s[f(i)] = t[i]
    <3>1. CASE i <= m
      <4>1. i \in 1..m+n /\ i \in 1..m+(n+1) /\ f(i) = i /\ i # m+1
        BY <1>7, <3>1
      <4>2. s[i] = a[i] /\ t[i] = a[i]
        BY <1>5, <1>6, <3>1, <4>1
      <4> QED
        BY <1>7, <4>1, <4>2
    <3>2. CASE i > m
      <4>1. i \in 1..m+n /\ i \in Int /\ ~(i <= m) /\ ~(i + 1 <= m) /\ i + 1 \in 1..m+(n+1)
        BY <1>7, <3>2
      <4>2. f(i) = i + 1 /\ f(i) \in DOMAIN s /\ f(i) # m + 1 /\ s[i+1] = c[i+1-m]
        BY <1>5, <1>7, <4>1
      <4>3. c[i+1-m] = b[i-m] /\ t[i] = b[i-m]
        BY <1>3, <1>6, <1>7, <3>2
      <4> QED
        BY <4>2, <4>3
    <3> QED
      BY <1>7, <3>1, <3>2
  <2> QED
    BY <2>1
<1>10. \A i, k \in DOMAIN t : f(i) = f(k) => i = k
  BY <1>7
<1>11. ASSUME NEW i \in DOMAIN s, i # m + 1
       PROVE  \E k \in DOMAIN t : f(k) = i
  <2>1. CASE i <= m
    BY <1>7, <2>1
  <2>2. CASE i > m
    <3>1. i - 1 \in DOMAIN t /\ f(i - 1) = i
      BY <1>7, <1>11, <2>2
    <3> QED
      BY <3>1
  <2> QED
    BY <1>7, <2>1, <2>2
<1> HIDE DEF f
<1>12. Once(t)
  BY <1>9, <1>10 DEF Once
<1>13. j \in Jobs => j \notin Range(t)
  BY <1>8, <1>9 DEF Once, Range
<1>14. Range(s) = Range(t) \cup {j}
  BY <1>8, <1>9, <1>11 DEF Range
<1> QED
  BY <1>12, <1>13, <1>14

\* The ends on their way: what a step may do to them.
LEMMA EndsStep ==
    ASSUME TypeOK, [Next]_vars
    PROVE  \/ UNCHANGED Ends
           \/ \E j \in Background : LeavesOut(Ends, Ends', j)
           \/ \E h \in Handlers : TakeStatus(h)
           \/ \E j \in AllJobs : Ends' = Append(Ends, j) /\ (j \in Background \/ BatchEnd(j))
<1>1. CASE UNCHANGED <<reported, events, wmsEvent, mailbox>>
  BY <1>1 DEF Ends, Received
<1>2. CASE UNCHANGED <<batchVars, wmsVars, handlerVars, historyVars>>
  BY <1>1, <1>2 DEF batchVars, wmsVars, queueVars, historyVars
<1>3. CASE (WmsStep \/ BatchStep) /\ UNCHANGED <<handlerVars, historyVars>>
  <2>1. CASE WaitEvent
    BY <1>3, <2>1, EndReceived
  <2>2. CASE PushEvent
    BY <1>3, <2>2, EndPushed
  <2>3. CASE BatchStep
    <3>1. PICK j \in AllJobs : (BatchStart(j) \/ BatchEnd(j)) /\ UNCHANGED wmsVars
      BY <2>3 DEF BatchStep
    <3>2. \/ UNCHANGED Ends
          \/ Ends' = Append(Ends, j) /\ (j \in Background \/ BatchEnd(j))
      BY <1>3, <3>1, EndSent
    <3> QED
      BY <3>2
  <2>4. CASE \/ Boot \/ CreateJobManager \/ SubmitBackground \/ TestSubmit \/ SubmitJob
             \/ PopSubmitted \/ ClearDone \/ TestCancel \/ TerminateJob \/ EraseCancelled
             \/ PopCancelled \/ TestAdvance \/ WaitTimeout \/ CheckStop
    BY <1>1, <1>3, <2>4 DEF Boot, CreateJobManager, SubmitBackground, TestSubmit, SubmitJob,
       PopSubmitted, ClearDone, TestCancel, TerminateJob, EraseCancelled, PopCancelled,
       TestAdvance, WaitTimeout, CheckStop, Submit, Terminate, ReceiveNone, batchVars,
       queueVars, historyVars
  <2> QED
    BY <1>3, <2>1, <2>2, <2>3, <2>4 DEF WmsStep
<1>4. ASSUME NEW h \in Handlers, Arrive(h) \/ Handle(h), ~TakeStatus(h)
      PROVE  UNCHANGED Ends
  <2>1. UNCHANGED <<reported, events, wmsEvent, mailbox>>
    BY <1>4, HandlerChanges DEF batchVars
  <2> QED
    BY <2>1 DEF Ends, Received
<1> QED
  BY <1>2, <1>3, <1>4, Steps

\* What a step may do to where the batch service has a user's job.
LEMMA BatchChanges ==
    ASSUME TypeOK, [Next]_vars, NEW j \in Jobs
    PROVE  \/ batch'[j] = batch[j]
           \/ SubmitJob /\ j = Head(toSubmitJobs) /\ batch'[j] = "pending"
           \/ batch[j] = "pending" /\ batch'[j] = "running"
           \/ BatchEnd(j) /\ batch'[j] = "ended"
           \/ /\ TerminateJob /\ j = Head(cancelJobs)
              /\ batch[j] \in {"pending", "running"} /\ batch'[j] = "terminated"
<1>0. batch \in [AllJobs -> BatchState] /\ j \in AllJobs /\ j \notin Background
  BY BackgroundAssumption DEF TypeOK, BatchTypeOK, AllJobs
<1>1. CASE UNCHANGED batch
  BY <1>1
<1>2. CASE WmsStep
  <2>1. CASE SubmitBackground
    BY <1>0, <2>1 DEF SubmitBackground
  <2>2. CASE SubmitJob
    BY <1>0, <2>2 DEF SubmitJob, Submit
  <2>3. CASE TerminateJob
    <3>1. CASE batch' = batch
      BY <3>1
    <3>2. CASE /\ batch[Head(cancelJobs)] \in {"pending", "running"}
               /\ batch' = [batch EXCEPT ![Head(cancelJobs)] = "terminated"]
      BY <1>0, <2>3, <3>2
    <3> QED
      BY <2>3, <3>1, <3>2 DEF TerminateJob, Terminate, batchVars
  <2>4. CASE \/ Boot \/ CreateJobManager \/ TestSubmit \/ PopSubmitted \/ ClearDone
             \/ TestCancel \/ EraseCancelled \/ PopCancelled \/ TestAdvance \/ WaitEvent
             \/ WaitTimeout \/ PushEvent \/ CheckStop
    BY <1>1, <2>4 DEF Boot, CreateJobManager, TestSubmit, PopSubmitted, ClearDone, TestCancel,
       EraseCancelled, PopCancelled, TestAdvance, WaitEvent, WaitTimeout, PushEvent, CheckStop,
       Receive, ReceiveNone, batchVars
  <2> QED
    BY <1>2, <2>1, <2>2, <2>3, <2>4 DEF WmsStep
<1>3. CASE BatchStep
  <2>1. PICK i \in AllJobs : BatchStart(i) \/ BatchEnd(i)
    BY <1>3 DEF BatchStep
  <2> QED
    BY <1>0, <2>1 DEF BatchStart, BatchEnd
<1> QED
  BY <1>1, <1>2, <1>3, Steps, HandlerChanges DEF batchVars

\* What main() submits is new to the batch service.
LEMMA SubmitsNewJob ==
    ASSUME TypeOK, JobsInv, SubmitJob
    PROVE  /\ Head(toSubmitJobs) \in Jobs /\ Head(toSubmitJobs) \notin Range(submitted)
           /\ Range(submitted') = Range(submitted) \cup {Head(toSubmitJobs)}
<1> DEFINE x == Head(toSubmitJobs)
           m == Len(submitted)
<1>1. /\ toSubmitJobs \in Seq(Jobs) /\ toSubmitJobs \in Seq(AllJobs) /\ toSubmitJobs # <<>>
      /\ submitted \in Seq(AllJobs) /\ InTransit = toSubmitJobs
      /\ submitted' = Append(submitted, x)
  BY HandedTypes DEF SubmitJob, Submit, Goto, TypeOK, WmsTypeOK, InTransit
<1>2. x \in Jobs /\ x \in AllJobs
  BY <1>1, HeadTailProperties DEF AllJobs
<1>3. Range(submitted') = Range(submitted) \cup {x}
  BY <1>1, <1>2, RangeOfAppended
<1>4. /\ Handed \in Seq(AllJobs) /\ Len(Handed) = m + Len(toSubmitJobs)
      /\ \A i \in 1..m + Len(toSubmitJobs) :
            Handed[i] = IF i <= m THEN submitted[i] ELSE toSubmitJobs[i - m]
  BY <1>1, ConcatProperties DEF Handed
<1>5. m \in Nat /\ Len(toSubmitJobs) \in Nat \ {0} /\ DOMAIN submitted = 1..m
      /\ DOMAIN Handed = 1..Len(Handed) /\ x = toSubmitJobs[1]
  BY <1>1, <1>4, LenProperties, EmptySeq
<1>6. IsInjective(Handed)
  BY DEF JobsInv, CreatedJobsAreKept
<1> HIDE DEF x, m
<1>7. m + 1 \in DOMAIN Handed /\ Handed[m + 1] = x
  <2>1. m + 1 \in 1..m + Len(toSubmitJobs) /\ ~(m + 1 <= m) /\ (m + 1) - m = 1
    BY <1>5
  <2> QED
    BY <1>4, <1>5, <2>1
<1>8. ASSUME NEW i \in DOMAIN submitted
      PROVE  submitted[i] # x
  <2>1. i \in DOMAIN Handed /\ Handed[i] = submitted[i] /\ i # m + 1
    BY <1>4, <1>5
  <2> QED
    BY <1>6, <1>7, <2>1 DEF IsInjective
<1>9. x \notin Range(submitted)
  BY <1>8 DEF Range
<1> QED
  BY <1>2, <1>3, <1>9 DEF x

\* The jobs the batch service knows are those it was sent.
Known == \A j \in Jobs : batch[j] # "unknown" <=> j \in Range(submitted)

LEMMA KnownStep ==
    ASSUME TypeOK, JobsInv, Known, [Next]_vars
    PROVE  Known'
<1> SUFFICES ASSUME NEW j \in Jobs
             PROVE  batch'[j] # "unknown" <=> j \in Range(submitted')
  BY DEF Known
<1>0. batch[j] # "unknown" <=> j \in Range(submitted)
  BY DEF Known
<1>1. CASE SubmitJob
  <2>1. CASE j = Head(toSubmitJobs)
    BY <1>1, <2>1, SubmitsNewJob DEF SubmitJob, Submit, TypeOK, BatchTypeOK, AllJobs
  <2>2. CASE j # Head(toSubmitJobs)
    BY <1>0, <1>1, <2>2, SubmitsNewJob DEF SubmitJob, Submit, TypeOK, BatchTypeOK, AllJobs
  <2> QED
    BY <2>1, <2>2
<1>2. CASE ~SubmitJob
  <2>1. batch'[j] = "unknown" <=> batch[j] = "unknown"
    BY <1>2, BatchChanges DEF BatchEnd
  <2>2. j \in Range(submitted') <=> j \in Range(submitted)
    <3>1. CASE UNCHANGED submitted
      BY <3>1
    <3>2. CASE SubmitBackground
      <4>1. submitted \in Seq(AllJobs) /\ background_jobs \in Seq(AllJobs) /\ j \notin Background
        BY BackgroundAssumption, SeqMonotonic DEF TypeOK, BatchTypeOK, AllJobs
      <4>2. Range(submitted') = Range(submitted) \cup Range(background_jobs)
        BY <3>2, <4>1, RangeConcatenation DEF SubmitBackground
      <4> QED
        BY <4>1, <4>2 DEF Background
    <3>3. CASE WmsStep
      BY <1>2, <3>1, <3>2, <3>3 DEF WmsStep, Boot, CreateJobManager, TestSubmit, PopSubmitted,
         ClearDone, TestCancel, TerminateJob, EraseCancelled, PopCancelled, TestAdvance,
         WaitEvent, WaitTimeout, PushEvent, CheckStop, Terminate, Receive, ReceiveNone, batchVars
    <3>4. CASE BatchStep
      BY <3>1, <3>4 DEF BatchStep, BatchStart, BatchEnd
    <3> QED
      BY <3>1, <3>3, <3>4, Steps, HandlerChanges DEF batchVars
  <2> QED
    BY <1>0, <2>1, <2>2
<1> QED
  BY <1>1, <1>2

LEMMA EndedStays ==
    ASSUME TypeOK, JobsInv, Known, [Next]_vars, NEW j \in Jobs, batch[j] = "ended"
    PROVE  batch'[j] = "ended"
<1>1. CASE SubmitJob /\ j = Head(toSubmitJobs)
  BY <1>1, SubmitsNewJob DEF Known
<1> QED
  BY <1>1, BatchChanges DEF BatchEnd

LEMMA EndsInvStep ==
    ASSUME TypeOK, JobsInv, EndsInv, [Next]_vars
    PROVE  EndsInv'
<1>0. EndsReportedOnce /\ Known /\ Once(Ends) /\ Ends \in Seq(AllJobs)
  BY EndsTypes DEF EndsInv, EndsReportedOnce, Known, Once
<1>1. Known'
  BY <1>0, KnownStep
<1>2. \A j \in Range(Ends) \cap Jobs : batch'[j] = "ended"
  BY <1>0, EndedStays DEF EndsReportedOnce
<1>3. ASSUME Once(Ends'), \A j \in Range(Ends') \cap Jobs : j \in Range(Ends) \/ BatchEnd(j)
      PROVE  EndsReportedOnce'
  <2>1. \A j \in Jobs : BatchEnd(j) => batch'[j] = "ended"
    BY DEF BatchEnd, TypeOK, BatchTypeOK, AllJobs
  <2> QED
    BY <1>2, <1>3, <2>1 DEF EndsReportedOnce, Once
<1>4. ASSUME UNCHANGED Ends
      PROVE  EndsReportedOnce'
  BY <1>0, <1>3, <1>4
<1>5. ASSUME NEW j \in AllJobs, LeavesOut(Ends, Ends', j)
      PROVE  EndsReportedOnce'
  <2>1. Once(Ends') /\ Range(Ends) = Range(Ends') \cup {j}
    BY <1>0, <1>5, OnceLeftOut
  <2> QED
    BY <1>3, <2>1
<1>6. ASSUME NEW h \in Handlers, TakeStatus(h)
      PROVE  EndsReportedOnce'
  <2>1. Head(events).job \in AllJobs
    BY <1>6, EndTaken DEF AllJobs
  <2>2. UNCHANGED Ends \/ LeavesOut(Ends, Ends', Head(events).job)
    BY <1>6, EndTaken
  <2> QED
    BY <1>4, <1>5, <2>1, <2>2
<1>7. ASSUME NEW j \in AllJobs, Ends' = Append(Ends, j), j \in Background \/ BatchEnd(j)
      PROVE  EndsReportedOnce'
  <2>1. j \in Jobs => BatchEnd(j)
    BY <1>7, BackgroundAssumption
  <2>2. j \notin Jobs \/ j \notin Range(Ends)
    BY <1>0, <2>1 DEF BatchEnd, EndsReportedOnce
  <2>3. Once(Ends') /\ Range(Ends') = Range(Ends) \cup {j}
    BY <1>0, <1>7, <2>2, OnceAppended
  <2> QED
    BY <1>3, <2>1, <2>3
<1>8. EndsReportedOnce'
  <2>1. Background \subseteq AllJobs
    BY DEF AllJobs
  <2> QED
    BY <1>4, <1>5, <1>6, <1>7, <2>1, EndsStep
<1> QED
  BY <1>1, <1>8 DEF EndsInv, Known

\* EndsInv is inductive.
LEMMA EndsInvariant == Spec => []EndsInv
<1>1. Init => EndsInv
  <2> SUFFICES ASSUME Init PROVE EndsInv
    OBVIOUS
  <2>1. reported = <<>> /\ events = <<>> /\ mailbox = <<>> /\ wmsEvent = NoEvent
    BY DEF Init, WmsInit, BatchInit
  <2>2. JobsOf(<<>>) = <<>>
    BY DEF JobsOf
  <2>3. Ends = <<>>
    BY <2>1, <2>2, EmptySeq, ConcatEmptySeq DEF Ends, Received
  <2>4. DOMAIN Ends = {} /\ Range(Ends) = {} /\ Range(submitted) = {}
    BY <2>3 DEF Range, Init, BatchInit
  <2> QED
    BY <2>4 DEF EndsInv, EndsReportedOnce, Init, BatchInit, AllJobs
<1>2. TypeOK /\ JobsInv /\ EndsInv /\ [Next]_vars => EndsInv'
  BY EndsInvStep
<1> QED
  BY <1>1, <1>2, TypeCorrect, JobsInvariant, PTL DEF Spec

\* The end of a job is reported at most once, and only the end of a job that was
\* not terminated, whatever the interleaving of the threads that call
\* getEventStatuses: the batch service ends a job once, because it was sent it
\* once (JobsInv), and from then on the end is in one place (EndsInv).
THEOREM EndsAreReportedOnce == Spec => []EndsReportedOnce
<1>1. EndsInv => EndsReportedOnce
  BY DEF EndsInv
<1> QED
  BY <1>1, EndsInvariant, PTL

-----------------------------------------------------------------------------
(* A server whose requests are served one at a time keeps the promises of  *)
(* JobLifecycle.                                                           *)

\* A queue of jobs as main() and addJob change it.
LEMMA QueueJobs ==
    ASSUME TypeOK, LifeInv
    PROVE  /\ Range(InTransit) \subseteq Range(toSubmitJobs)
           /\ Range(toSubmitJobs) \subseteq Range(Handed)
           /\ Range(submitted) \subseteq Range(Handed)
           /\ Range(toSubmitJobs) \subseteq Jobs
<1>0. /\ toSubmitJobs \in Seq(Jobs) /\ (wmsPc = "submit_pop" => toSubmitJobs # <<>>)
      /\ Range(Handed) = Range(submitted) \cup Range(InTransit)
  BY HandedTypes DEF TypeOK, WmsTypeOK
<1>1. Range(toSubmitJobs) \subseteq Jobs
  BY <1>0, RangeOfSeq
<1>2. CASE wmsPc = "submit_pop"
  <2>1. Range(toSubmitJobs) = {Head(toSubmitJobs)} \cup Range(Tail(toSubmitJobs))
    BY <1>0, <1>2, RangeOfHeadTail
  <2> QED
    BY <1>0, <1>1, <1>2, <2>1 DEF LifeInv, InTransit
<1>3. CASE wmsPc # "submit_pop"
  BY <1>0, <1>1, <1>3 DEF InTransit
<1> QED
  BY <1>2, <1>3


\* A job that was reported ended, so that the batch service was sent it.
LEMMA ReportedEnded ==
    ASSUME TypeOK, EndsInv
    PROVE  /\ Range(reported) \subseteq Range(Ends) \cap Jobs
           /\ \A j \in Range(Ends) \cap Jobs : batch[j] = "ended" /\ j \in Range(submitted)
<1>1. /\ reported \in Seq(Jobs) /\ reported \in Seq(AllJobs) /\ JobsOf(events) \in Seq(AllJobs)
      /\ Received \in Seq(AllJobs) /\ JobsOf(mailbox) \in Seq(AllJobs)
  BY EndsTypes DEF TypeOK, HistoryTypeOK
<1>2. Ends = Cat(Cat(Cat(reported, JobsOf(events)), Received), JobsOf(mailbox))
  BY DEF Ends, Cat
<1>3. Range(reported) \subseteq Range(Ends)
  <2>1. /\ Cat(reported, JobsOf(events)) \in Seq(AllJobs)
        /\ Range(reported) \subseteq Range(Cat(reported, JobsOf(events)))
    BY <1>1, Joining
  <2>2. /\ Cat(Cat(reported, JobsOf(events)), Received) \in Seq(AllJobs)
        /\ Range(reported) \subseteq Range(Cat(Cat(reported, JobsOf(events)), Received))
    BY <1>1, <2>1, Joining
  <2> QED
    BY <1>1, <1>2, <2>2, Joining
<1>4. Range(reported) \subseteq Jobs
  BY <1>1, RangeOfSeq
<1> QED
  BY <1>3, <1>4 DEF EndsInv, EndsReportedOnce

\* The end that getEventStatuses takes was not reported before.
LEMMA TakenOnce ==
    ASSUME TypeOK, EndsInv, LifeInv, NEW h \in Handlers, TakeStatus(h)
    PROVE  LET j == Head(events).job
           IN  /\ j \in Jobs /\ batch[j] = "ended" /\ j \in Range(submitted)
               /\ j \in Range(Ends) /\ j \notin Range(reported)
               /\ IF j \in job_list
                  THEN Ends' = Ends /\ Range(reported') = Range(reported) \cup {j}
                  ELSE /\ reported' = reported
                       /\ Range(Ends) = Range(Ends') \cup {j} /\ j \notin Range(Ends')
<1> DEFINE j == Head(events).job
<1>1. /\ j \in Jobs /\ j \in Range(Ends)
      /\ IF j \in job_list
         THEN Ends' = Ends /\ reported' = Append(reported, j)
         ELSE /\ LeavesOut(Ends, Ends', j) /\ reported' = reported
              /\ Range(reported) \subseteq Range(Ends')
  BY EndTaken
<1> HIDE DEF j
<1>2. batch[j] = "ended" /\ j \in Range(submitted)
  BY <1>1, ReportedEnded
<1>3. CASE j \in job_list
  <2>1. j \notin Range(reported)
    BY <1>3 DEF LifeInv
  <2>2. Range(reported') = Range(reported) \cup {j}
    <3>1. reported \in Seq(Jobs) /\ reported' = Append(reported, j)
      BY <1>1, <1>3 DEF TypeOK, HistoryTypeOK
    <3>2. Range(Append(reported, j)) = Range(reported) \cup {j}
      BY <1>1, <3>1, RangeOfAppended
    <3> QED
      BY <3>1, <3>2
  <2> QED
    BY <1>1, <1>2, <1>3, <2>1, <2>2 DEF j
<1>4. CASE j \notin job_list
  <2>1. Once(Ends) /\ j \in AllJobs
    BY <1>1 DEF EndsInv, EndsReportedOnce, Once, AllJobs
  <2>2. LeavesOut(Ends, Ends', j) /\ reported' = reported
    BY <1>1, <1>4
  <2>3. Range(Ends) = Range(Ends') \cup {j} /\ j \notin Range(Ends')
    BY <1>1, <2>1, <2>2, OnceLeftOut
  <2>4. Range(reported) \subseteq Range(Ends')
    BY <1>1, <1>4
  <2> QED
    BY <1>1, <1>2, <1>4, <2>2, <2>3, <2>4 DEF j
<1> QED
  BY <1>3, <1>4

-----------------------------------------------------------------------------
(* LifeInv.                                                                *)

\* What was handed over stays handed over.
LEMMA HandedStays ==
    ASSUME TypeOK, [Next]_vars
    PROVE  Range(Handed) \subseteq Range(Handed')
<1>1. CASE UNCHANGED Handed
  BY <1>1
<1>2. ASSUME NEW h \in Handlers, QueueJob(h)
      PROVE  Range(Handed) \subseteq Range(Handed')
  <2>1. job[h] \in AllJobs /\ Handed' = Append(Handed, job[h]) /\ Handed \in Seq(AllJobs)
    BY <1>2, QueueJobAppends, HandedTypes DEF AllJobs
  <2>2. Range(Append(Handed, job[h])) = Range(Handed) \cup {job[h]}
    BY <2>1, RangeOfAppended
  <2> QED
    BY <2>1, <2>2
<1>3. CASE SubmitBackground /\ UNCHANGED <<handlerVars, historyVars>>
  <2>1. /\ submitted' = submitted \o background_jobs
        /\ InTransit = toSubmitJobs /\ InTransit' = toSubmitJobs
    BY <1>3 DEF SubmitBackground, Goto, InTransit, queueVars
  <2>2. /\ submitted \in Seq(AllJobs) /\ background_jobs \in Seq(AllJobs)
        /\ toSubmitJobs \in Seq(AllJobs)
    BY HandedTypes, BackgroundAssumption, SeqMonotonic DEF AllJobs
  <2>3. /\ Handed = Cat(submitted, toSubmitJobs)
        /\ Handed' = Cat(Cat(submitted, background_jobs), toSubmitJobs)
    BY <2>1 DEF Handed, Cat
  <2>4. /\ Cat(submitted, background_jobs) \in Seq(AllJobs)
        /\ Range(submitted) \subseteq Range(Cat(submitted, background_jobs))
    BY <2>2, Joining
  <2>5. Range(Cat(submitted, toSubmitJobs)) = Range(submitted) \cup Range(toSubmitJobs)
    BY <2>2, Joining
  <2>6. Range(Cat(Cat(submitted, background_jobs), toSubmitJobs))
           = Range(Cat(submitted, background_jobs)) \cup Range(toSubmitJobs)
    BY <2>2, <2>4, Joining
  <2> QED
    BY <2>3, <2>4, <2>5, <2>6
<1> QED
  BY <1>1, <1>2, <1>3, HandedStep

\* The job that addJob queues is one nobody was told of.
LEMMA QueuesNewJob ==
    ASSUME TypeOK, JobsInv, EndsInv, LifeInv, NEW h \in Handlers, QueueJob(h)
    PROVE  /\ job[h] \in Jobs /\ job[h] \in Range(Handed') /\ job[h] \notin Range(Handed)
           /\ job[h] \notin Range(reported) /\ job[h] \notin Range(toSubmitJobs)
           /\ batch[job[h]] = "unknown"
<1>1. job[h] \in Jobs /\ job[h] \in AllJobs /\ job[h] \notin Range(Handed)
  BY QueueJobAppends DEF JobsInv, CreatedJobsAreKept, AllJobs
<1>2. Handed' = Append(Handed, job[h]) /\ Handed \in Seq(AllJobs)
  BY QueueJobAppends, HandedTypes
<1>3. Range(Append(Handed, job[h])) = Range(Handed) \cup {job[h]}
  BY <1>1, <1>2, RangeOfAppended
<1>4. job[h] \notin Range(submitted) /\ job[h] \notin Range(toSubmitJobs)
  BY <1>1, QueueJobs
<1>5. batch[job[h]] = "unknown" /\ job[h] \notin Range(reported)
  BY <1>1, <1>4, ReportedEnded DEF EndsInv
<1> QED
  BY <1>1, <1>2, <1>3, <1>4, <1>5

\* main() pops the job it submitted.
LEMMA PopStep ==
    ASSUME TypeOK, JobsInv, LifeInv, [Next]_vars, wmsPc' = "submit_pop"
    PROVE  Head(toSubmitJobs') \in Range(submitted')
<1>1. CASE UNCHANGED <<submitted, toSubmitJobs, wmsPc>>
  BY <1>1 DEF LifeInv
<1>2. CASE WmsStep
  <2>1. CASE SubmitJob
    BY <2>1, SubmitsNewJob DEF SubmitJob, queueVars
  <2> QED
    BY <1>2, <2>1 DEF WmsStep, Boot, CreateJobManager, SubmitBackground, TestSubmit,
       PopSubmitted, ClearDone, TestCancel, TerminateJob, EraseCancelled, PopCancelled,
       TestAdvance, WaitEvent, WaitTimeout, PushEvent, CheckStop, Goto
<1>3. CASE BatchStep
  BY <1>1, <1>3 DEF BatchStep, BatchStart, BatchEnd, wmsVars, queueVars
<1>4. ASSUME NEW h \in Handlers, QueueJob(h)
      PROVE  Head(toSubmitJobs') \in Range(submitted')
  <2>1. wmsPc = "submit_pop" /\ submitted' = submitted
        /\ toSubmitJobs' = Append(toSubmitJobs, job[h])
    BY <1>4 DEF QueueJob, PushJob, batchVars
  <2>2. toSubmitJobs \in Seq(Jobs) /\ toSubmitJobs # <<>> /\ job[h] \in Jobs
    BY <1>4, <2>1, QueueJobAppends DEF TypeOK, WmsTypeOK
  <2>3. Head(Append(toSubmitJobs, job[h])) = Head(toSubmitJobs)
    BY <2>2, HeadTailAppend
  <2> QED
    BY <2>1, <2>3 DEF LifeInv
<1> QED
  BY <1>1, <1>2, <1>3, <1>4, Steps, HandlerChanges DEF batchVars, wmsVars, queueVars

LEMMA MainErases ==
    ASSUME WmsStep \/ BatchStep
    PROVE  \/ UNCHANGED job_list
           \/ EraseCancelled /\ job_list' = job_list \ {Head(cancelJobs)}
BY DEF WmsStep, BatchStep, Boot, CreateJobManager, SubmitBackground, TestSubmit, SubmitJob,
   PopSubmitted, ClearDone, TestCancel, TerminateJob, EraseCancelled, PopCancelled, TestAdvance,
   WaitEvent, WaitTimeout, PushEvent, CheckStop, wmsVars, queueVars

\* A listed job was handed over, and its end not yet reported.
LEMMA ListedStep ==
    ASSUME TypeOK, JobsInv, EndsInv, LifeInv, [Next]_vars
    PROVE  job_list' \subseteq Range(Handed') \ Range(reported')
<1>0. job_list \subseteq Range(Handed) \ Range(reported) /\ Range(Handed) \subseteq Range(Handed')
  BY HandedStays DEF LifeInv
<1>1. CASE UNCHANGED <<batchVars, wmsVars, handlerVars, historyVars>>
  BY <1>0, <1>1 DEF wmsVars, queueVars, historyVars
<1>2. CASE (WmsStep \/ BatchStep) /\ UNCHANGED <<handlerVars, historyVars>>
  BY <1>0, <1>2, MainErases DEF historyVars
<1>3. ASSUME NEW h \in Handlers, Arrive(h) \/ Handle(h)
      PROVE  job_list' \subseteq Range(Handed') \ Range(reported')
  <2>1. CASE TakeStatus(h)
    <3> DEFINE j == Head(events).job
    <3>1. job_list' = job_list \ {j}
      BY <2>1 DEF TakeStatus, TakeEvent
    <3>2. Range(reported') \subseteq Range(reported) \cup {j}
      BY <2>1, TakenOnce
    <3> QED
      BY <1>0, <3>1, <3>2
  <2>2. CASE ListJob(h)
    <3>1. pc[h] = "add_map" /\ job_list' = job_list \cup {job[h]} /\ UNCHANGED reported
      BY <2>2 DEF ListJob, At, MapJob, historyVars
    <3>2. job[h] \in Range(Handed) \ Range(reported)
      BY <3>1 DEF LifeInv
    <3> QED
      BY <1>0, <3>1, <3>2
  <2>3. CASE ~TakeStatus(h) /\ ~ListJob(h)
    BY <1>0, <1>3, <2>3, HandlerChanges
  <2> QED
    BY <2>1, <2>2, <2>3
<1> QED
  BY <1>1, <1>2, <1>3, Steps

\* The job a handler is about to list, or to cancel, is one that is handed over
\* and not reported, if no other handler can report it meanwhile.
LEMMA HeldStep ==
    ASSUME \A g, h \in Handlers : g = h,
           TypeOK, JobsInv, EndsInv, LifeInv, [Next]_vars, NEW h \in Handlers,
           pc'[h] \in {"add_map", "cancel_push"}
    PROVE  job'[h] \in Range(Handed') \ Range(reported')
<1>0. Range(Handed) \subseteq Range(Handed')
  BY HandedStays
<1>1. ASSUME UNCHANGED <<handlerVars, historyVars>>
      PROVE  job'[h] \in Range(Handed') \ Range(reported')
  BY <1>0, <1>1 DEF LifeInv, handlerVars, historyVars
<1>2. ASSUME Arrive(h) \/ Handle(h)
      PROVE  job'[h] \in Range(Handed') \ Range(reported')
  <2>1. CASE QueueJob(h)
    <3>1. job'[h] = job[h] /\ reported' = reported
      BY <2>1 DEF QueueJob, GoOn, historyVars
    <3> QED
      BY <2>1, <3>1, QueuesNewJob
  <2>2. CASE ~QueueJob(h)
    <3>1. CheckCancel(h) /\ job[h] \in job_list /\ UNCHANGED job
      BY <1>2, <2>2, HandlerMoves
    <3>2. UNCHANGED reported
      BY <3>1 DEF CheckCancel, historyVars
    <3> QED
      BY <1>0, <3>1, <3>2 DEF LifeInv
  <2> QED
    BY <2>1, <2>2
<1> QED
  BY <1>1, <1>2, Steps

\* A job that left the list was cancelled or reported.
LEMMA LeftStep ==
    ASSUME TypeOK, CancelInv, EndsInv, LifeInv, [Next]_vars,
           NEW j \in created' \ (job_list' \cup cancelled' \cup Range(reported'))
    PROVE  \E h \in Handlers : pc'[h] \in {"add_push", "add_map"} /\ job'[h] = j
<1> DEFINE Held(x) == \E h \in Handlers : pc[h] \in {"add_push", "add_map"} /\ job[h] = x
<1>0. \A x \in created \ (job_list \cup cancelled \cup Range(reported)) : Held(x)
  BY DEF LifeInv
<1>1. CASE UNCHANGED <<batchVars, wmsVars, handlerVars, historyVars>>
  BY <1>0, <1>1 DEF wmsVars, queueVars, historyVars, handlerVars
<1>2. CASE (WmsStep \/ BatchStep) /\ UNCHANGED <<handlerVars, historyVars>>
  <2>1. job_list \subseteq job_list' \cup cancelled
    <3>1. CASE EraseCancelled /\ job_list' = job_list \ {Head(cancelJobs)}
      <4>1. cancelJobs \in Seq(Jobs) /\ cancelJobs # <<>>
        BY <3>1 DEF EraseCancelled, Goto, TypeOK, WmsTypeOK
      <4>2. Range(cancelJobs) = {Head(cancelJobs)} \cup Range(Tail(cancelJobs))
        BY <4>1, RangeOfHeadTail
      <4> QED
        BY <3>1, <4>2 DEF CancelInv
    <3> QED
      BY <1>2, <3>1, MainErases
  <2> QED
    BY <1>0, <1>2, <2>1 DEF historyVars, handlerVars
<1>3. ASSUME NEW h \in Handlers, Arrive(h) \/ Handle(h)
      PROVE  \E g \in Handlers : pc'[g] \in {"add_push", "add_map"} /\ job'[g] = j
  <2>1. CASE CreateJob(h)
    <3>1. PICK i \in Jobs : created' = created \cup {i} /\ job' = [job EXCEPT ![h] = i]
      BY <2>1 DEF CreateJob
    <3>2. pc[h] = "add_create" /\ pc' = [pc EXCEPT ![h] = "add_push"]
          /\ UNCHANGED <<job_list, cancelled, reported>>
      BY <2>1 DEF CreateJob, At, wmsVars, queueVars
    <3>3. pc \in [Handlers -> Label] /\ job \in [Handlers -> Jobs \cup {NoJob}]
      BY DEF TypeOK, HandlerTypeOK
    <3>4. CASE j = i
      BY <3>1, <3>2, <3>3, <3>4
    <3>5. CASE j # i
      BY <1>0, <3>1, <3>2, <3>3, <3>5
    <3> QED
      BY <3>4, <3>5
  <2>2. CASE ListJob(h)
    <3>1. job_list' = job_list \cup {job[h]} /\ UNCHANGED <<created, cancelled, reported>>
      BY <2>2 DEF ListJob, MapJob, historyVars
    <3>2. PICK g \in Handlers : pc[g] \in {"add_push", "add_map"} /\ job[g] = j
      BY <1>0, <3>1
    <3>3. g # h
      BY <3>1, <3>2
    <3> QED
      BY <1>3, <3>2, <3>3, HandlerMoves
  <2>3. CASE TakeStatus(h)
    <3>1. /\ job_list' = job_list \ {Head(events).job} /\ UNCHANGED <<created, cancelled>>
          /\ pc[h] = "ev_take"
      BY <2>3 DEF TakeStatus, TakeEvent, At
    <3>2. /\ Range(reported) \subseteq Range(reported')
          /\ Head(events).job \in job_list => Head(events).job \in Range(reported')
      BY <2>3, TakenOnce
    <3>3. PICK g \in Handlers : pc[g] \in {"add_push", "add_map"} /\ job[g] = j
      BY <1>0, <3>1, <3>2
    <3> QED
      BY <1>3, <3>1, <3>3, HandlerMoves
  <2>4. CASE QueueCancel(h)
    <3>1. /\ cancelled' = cancelled \cup {job[h]} /\ UNCHANGED <<created, reported, job_list>>
          /\ pc[h] = "cancel_push"
      BY <2>4 DEF QueueCancel, PushCancel, At
    <3>2. PICK g \in Handlers : pc[g] \in {"add_push", "add_map"} /\ job[g] = j
      BY <1>0, <3>1
    <3> QED
      BY <1>3, <3>1, <3>2, HandlerMoves
  <2>5. CASE ~CreateJob(h) /\ ~ListJob(h) /\ ~TakeStatus(h) /\ ~QueueCancel(h)
    <3>1. UNCHANGED <<created, cancelled, reported, job_list>>
      BY <1>3, <2>5, HandlerChanges
    <3>2. PICK g \in Handlers : pc[g] \in {"add_push", "add_map"} /\ job[g] = j
      BY <1>0, <3>1
    <3>3. CASE g # h
      BY <1>3, <3>2, <3>3, HandlerMoves
    <3>4. CASE g = h
      <4>1. QueueJob(h) /\ pc'[h] = "add_map" /\ UNCHANGED job
        BY <1>3, <2>5, <3>2, <3>4, HandlerMoves
      <4> QED
        BY <3>2, <3>4, <4>1
    <3> QED
      BY <3>3, <3>4
  <2> QED
    BY <2>1, <2>2, <2>3, <2>4, <2>5
<1> QED
  BY <1>1, <1>2, <1>3, Steps

\* LifeInv is inductive for a single handler.
LEMMA LifeInvStep ==
    ASSUME \A g, h \in Handlers : g = h,
           TypeOK, JobsInv, EndsInv, CancelInv, LifeInv, [Next]_vars
    PROVE  LifeInv'
<1>1. wmsPc' = "submit_pop" => Head(toSubmitJobs') \in Range(submitted')
  BY PopStep
<1>2. \A j \in created' \ (job_list' \cup cancelled' \cup Range(reported')) :
         \E h \in Handlers : pc'[h] \in {"add_push", "add_map"} /\ job'[h] = j
  BY LeftStep
<1>3. job_list' \subseteq Range(Handed') \ Range(reported')
  BY ListedStep
<1>4. \A h \in Handlers : pc'[h] \in {"add_map", "cancel_push"}
                         => job'[h] \in Range(Handed') \ Range(reported')
  BY HeldStep
<1> QED
  BY <1>1, <1>2, <1>3, <1>4 DEF LifeInv

-----------------------------------------------------------------------------
(* Refinement.                                                             *)

\* The life of a job does not change with what else changes.
LEMMA SameLife ==
    ASSUME NEW j \in Jobs, batch[j] \in BatchState,
           batch'[j] = batch[j] \/ {batch[j], batch'[j]} \subseteq {"pending", "running"},
           j \in Range(reported') <=> j \in Range(reported),
           batch[j] = "ended" => (j \in Range(Ends') <=> j \in Range(Ends)),
           batch[j] = "unknown" => (j \in Range(toSubmitJobs') <=> j \in Range(toSubmitJobs))
    PROVE  LifeOf(j)' = LifeOf(j)
BY DEF LifeOf, BatchState

\* One job lives on.
LEMMA OneLife ==
    ASSUME NEW j \in Jobs, NEW from, NEW to, LifeOf(j) = from, LifeOf(j)' = to,
           \A i \in Jobs \ {j} : LifeOf(i)' = LifeOf(i)
    PROVE  Service!Become(j, from, to)
<1> DEFINE life == [i \in Jobs |-> LifeOf(i)]
<1>1. life[j] = from /\ life' = [life EXCEPT ![j] = to]
  OBVIOUS
<1> QED
  BY <1>1 DEF Service!Become

\* Nobody's life changes.
LEMMA NoLife ==
    ASSUME \A i \in Jobs : LifeOf(i)' = LifeOf(i)
    PROVE  UNCHANGED [i \in Jobs |-> LifeOf(i)]
OBVIOUS

\* What JobLifecycle allows a step to do.
Promised == [Service!Next]_(Service!lifeVars)

LEMMA Stutters ==
    ASSUME \A i \in Jobs : LifeOf(i)' = LifeOf(i), UNCHANGED cancelled
    PROVE  Promised
BY NoLife DEF Promised, Service!lifeVars

\* addJob: Queue.
LEMMA QueueLife ==
    ASSUME TypeOK, JobsInv, EndsInv, LifeInv, NEW h \in Handlers, QueueJob(h)
    PROVE  Promised
<1>. PICK j : j = job[h]
  OBVIOUS
<1>0. /\ j \in Jobs /\ j \notin Range(reported) /\ j \notin Range(toSubmitJobs)
      /\ batch[j] = "unknown"
  BY QueuesNewJob
<1>1. /\ UNCHANGED <<batch, reported, cancelled>> /\ toSubmitJobs' = Append(toSubmitJobs, j)
      /\ UNCHANGED <<events, wmsEvent, mailbox>>
  BY DEF QueueJob, PushJob, batchVars, historyVars
<1>2. UNCHANGED Ends
  BY <1>1 DEF Ends, Received
<1>3. Range(toSubmitJobs') = Range(toSubmitJobs) \cup {j}
  <2>1. toSubmitJobs \in Seq(Jobs)
    BY DEF TypeOK, WmsTypeOK
  <2>2. Range(Append(toSubmitJobs, j)) = Range(toSubmitJobs) \cup {j}
    BY <1>0, <2>1, RangeOfAppended
  <2> QED
    BY <1>1, <2>2
<1>4. \A i \in Jobs : batch[i] \in BatchState
  BY DEF TypeOK, BatchTypeOK, AllJobs
<1>5. ASSUME NEW i \in Jobs \ {j}
      PROVE  LifeOf(i)' = LifeOf(i)
  BY <1>1, <1>2, <1>3, <1>4, SameLife
<1>6. LifeOf(j) = "unknown" /\ LifeOf(j)' = "queued"
  BY <1>0, <1>1, <1>3 DEF LifeOf
<1>7. Service!Queue(j)
  BY <1>0, <1>1, <1>5, <1>6, OneLife DEF Service!Queue
<1> QED
  BY <1>0, <1>7 DEF Promised, Service!Next

\* submitJob: Batch.
LEMMA BatchLife ==
    ASSUME TypeOK, JobsInv, EndsInv, LifeInv, SubmitJob, UNCHANGED <<handlerVars, historyVars>>
    PROVE  Promised
<1>. PICK j : j = Head(toSubmitJobs)
  OBVIOUS
<1>0. j \in Jobs /\ j \notin Range(submitted)
  BY SubmitsNewJob
<1>1. batch[j] = "unknown" /\ j \notin Range(reported)
  BY <1>0, ReportedEnded DEF EndsInv
<1>2. j \in Range(toSubmitJobs)
  BY RangeOfHeadTail DEF TypeOK, WmsTypeOK, SubmitJob, Goto
<1>3. /\ batch' = [batch EXCEPT ![j] = "pending"]
      /\ UNCHANGED <<reported, cancelled, events, wmsEvent, mailbox, toSubmitJobs>>
  BY DEF SubmitJob, Submit, queueVars, historyVars
<1>4. UNCHANGED Ends
  BY <1>3 DEF Ends, Received
<1>5. batch \in [AllJobs -> BatchState] /\ \A i \in Jobs : i \in AllJobs
  BY DEF TypeOK, BatchTypeOK, AllJobs
<1>6. ASSUME NEW i \in Jobs \ {j}
      PROVE  LifeOf(i)' = LifeOf(i)
  BY <1>3, <1>4, <1>5, SameLife
<1>7. LifeOf(j) = "queued" /\ LifeOf(j)' = "batched"
  <2>1. batch'[j] = "pending"
    BY <1>0, <1>3, <1>5
  <2> QED
    BY <1>1, <1>2, <1>3, <2>1 DEF LifeOf
<1>8. Service!Batch(j)
  BY <1>0, <1>3, <1>6, <1>7, OneLife DEF Service!Batch
<1> QED
  BY <1>0, <1>8 DEF Promised, Service!Next

\* toSubmitJobs.pop(): the job that leaves the queue is past it.
LEMMA PopLife ==
    ASSUME TypeOK, EndsInv, LifeInv, PopSubmitted, UNCHANGED <<handlerVars, historyVars>>
    PROVE  Promised
<1>. PICK j : j = Head(toSubmitJobs)
  OBVIOUS
<1>0. toSubmitJobs \in Seq(Jobs) /\ toSubmitJobs # <<>> /\ j \in Range(submitted)
  BY DEF TypeOK, WmsTypeOK, PopSubmitted, Goto, LifeInv
<1>1. Range(toSubmitJobs) = {j} \cup Range(Tail(toSubmitJobs)) /\ j \in Jobs
  BY <1>0, RangeOfHeadTail, HeadTailProperties
<1>2. batch[j] # "unknown"
  BY <1>0, <1>1 DEF EndsInv
<1>3. /\ UNCHANGED <<batch, reported, cancelled, events, wmsEvent, mailbox>>
      /\ toSubmitJobs' = Tail(toSubmitJobs)
  BY DEF PopSubmitted, batchVars, historyVars
<1>4. UNCHANGED Ends
  BY <1>3 DEF Ends, Received
<1>5. \A i \in Jobs : batch[i] \in BatchState
  BY DEF TypeOK, BatchTypeOK, AllJobs
<1>6. ASSUME NEW i \in Jobs
      PROVE  LifeOf(i)' = LifeOf(i)
  BY <1>1, <1>2, <1>3, <1>4, <1>5, SameLife
<1> QED
  BY <1>3, <1>6, Stutters

\* terminateJob: Terminate.
LEMMA TerminateLife ==
    ASSUME TypeOK, EndsInv, CancelInv, TerminateJob, UNCHANGED <<handlerVars, historyVars>>
    PROVE  Promised
<1>. PICK j : j = Head(cancelJobs)
  OBVIOUS
<1>0. cancelJobs \in Seq(Jobs) /\ cancelJobs # <<>>
  BY DEF TypeOK, WmsTypeOK, TerminateJob, Goto
<1>1. j \in Jobs /\ j \in cancelled
  <2>1. Range(cancelJobs) = {j} \cup Range(Tail(cancelJobs))
    BY <1>0, RangeOfHeadTail
  <2> QED
    BY <1>0, <2>1, HeadTailProperties DEF CancelInv
<1>2. UNCHANGED <<reported, cancelled, events, wmsEvent, mailbox, toSubmitJobs>>
  BY DEF TerminateJob, Terminate, queueVars, historyVars, batchVars
<1>3. UNCHANGED Ends
  BY <1>2 DEF Ends, Received
<1>4. batch \in [AllJobs -> BatchState] /\ \A i \in Jobs : i \in AllJobs
  BY DEF TypeOK, BatchTypeOK, AllJobs
<1>5. CASE UNCHANGED batch
  <2>1. ASSUME NEW i \in Jobs
        PROVE  LifeOf(i)' = LifeOf(i)
    BY <1>2, <1>3, <1>4, <1>5, SameLife
  <2> QED
    BY <1>2, <2>1, Stutters
<1>6. CASE batch[j] \in {"pending", "running"} /\ batch' = [batch EXCEPT ![j] = "terminated"]
  <2>1. ASSUME NEW i \in Jobs \ {j}
        PROVE  LifeOf(i)' = LifeOf(i)
    BY <1>2, <1>3, <1>4, <1>6, SameLife
  <2>2. j \notin Range(reported)
    BY <1>6, ReportedEnded
  <2>3. batch'[j] = "terminated"
    BY <1>1, <1>4, <1>6
  <2>4. LifeOf(j) = "batched" /\ LifeOf(j)' = "terminated"
    BY <1>6, <2>2, <2>3 DEF LifeOf
  <2>5. Service!Terminate(j)
    BY <1>1, <1>2, <2>1, <2>4, OneLife DEF Service!Terminate
  <2> QED
    BY <1>1, <2>5 DEF Promised, Service!Next
<1> QED
  BY <1>5, <1>6 DEF TerminateJob, Terminate, batchVars

\* A step of the batch service: End, or nothing a user hears of.
LEMMA EndLife ==
    ASSUME TypeOK, EndsInv, BatchStep, UNCHANGED <<handlerVars, historyVars>>
    PROVE  Promised
<1>0. PICK j \in AllJobs : BatchStart(j) \/ BatchEnd(j)
  BY DEF BatchStep
<1>1. UNCHANGED <<reported, cancelled, toSubmitJobs>>
  BY DEF BatchStep, wmsVars, queueVars, historyVars
<1>2. \/ UNCHANGED Ends
      \/ Ends' = Append(Ends, j) /\ (j \in Background \/ BatchEnd(j))
  BY <1>0, EndSent DEF BatchStep
<1>3. \/ UNCHANGED Ends
      \/ Range(Ends') = Range(Ends) \cup {j} /\ (j \in Background \/ BatchEnd(j))
  <2>1. Range(Append(Ends, j)) = Range(Ends) \cup {j}
    BY EndsTypes, RangeOfAppended
  <2> QED
    BY <1>2, <2>1
<1>4. /\ batch \in [AllJobs -> BatchState]
      /\ \A i \in Jobs : i \in AllJobs /\ i \notin Background
  BY BackgroundAssumption DEF TypeOK, BatchTypeOK, AllJobs
<1>5. CASE BatchEnd(j) /\ j \in Jobs
  <2>1. Ends' = Append(Ends, j)
    BY <1>0, <1>5, EndSent DEF BatchStep
  <2>2. Range(Ends') = Range(Ends) \cup {j}
    BY <2>1, EndsTypes, RangeOfAppended
  <2>3. batch[j] = "running" /\ batch' = [batch EXCEPT ![j] = "ended"] /\ batch'[j] = "ended"
    BY <1>4, <1>5 DEF BatchEnd
  <2>4. j \notin Range(reported)
    BY <2>3, ReportedEnded
  <2>5. ASSUME NEW i \in Jobs \ {j}
        PROVE  LifeOf(i)' = LifeOf(i)
    BY <1>1, <1>4, <2>2, <2>3, SameLife
  <2>6. LifeOf(j) = "batched" /\ LifeOf(j)' = "ended"
    BY <1>1, <2>2, <2>3, <2>4 DEF LifeOf
  <2>7. Service!End(j)
    BY <1>1, <1>5, <2>5, <2>6, OneLife DEF Service!End
  <2> QED
    BY <1>5, <2>7 DEF Promised, Service!Next
<1>6. CASE ~(BatchEnd(j) /\ j \in Jobs)
  <2>1. ASSUME NEW i \in Jobs
        PROVE  LifeOf(i)' = LifeOf(i)
    <3>1. batch'[i] = batch[i] \/ {batch[i], batch'[i]} \subseteq {"pending", "running"}
      BY <1>0, <1>4, <1>6 DEF BatchStart, BatchEnd
    <3>2. i \in Range(Ends') <=> i \in Range(Ends)
      BY <1>3, <1>4, <1>6
    <3> QED
      BY <1>1, <1>4, <3>1, <3>2, SameLife
  <2> QED
    BY <1>1, <2>1, Stutters
<1> QED
  BY <1>5, <1>6

\* waitForNextEvent and events.push: an end goes its way.
LEMMA MoveLife ==
    ASSUME TypeOK, EndsInv, WaitEvent \/ PushEvent, UNCHANGED <<handlerVars, historyVars>>
    PROVE  Promised
<1>1. UNCHANGED <<batch, reported, cancelled, toSubmitJobs>>
  BY DEF WaitEvent, PushEvent, Receive, queueVars, batchVars, historyVars
<1>2. \A i \in Jobs : i \in Range(Ends') <=> i \in Range(Ends)
  <2>1. UNCHANGED Ends \/ \E j \in Background : LeavesOut(Ends, Ends', j)
    BY EndReceived, EndPushed
  <2>2. ASSUME NEW j \in Background, LeavesOut(Ends, Ends', j)
        PROVE  Range(Ends) = Range(Ends') \cup {j} /\ j \notin Jobs
    <3>1. Once(Ends) /\ j \in AllJobs /\ j \notin Jobs
      BY BackgroundAssumption DEF EndsInv, EndsReportedOnce, Once, AllJobs
    <3> QED
      BY <2>2, <3>1, OnceLeftOut
  <2> QED
    BY <2>1, <2>2
<1>3. \A i \in Jobs : batch[i] \in BatchState
  BY DEF TypeOK, BatchTypeOK, AllJobs
<1>4. ASSUME NEW i \in Jobs
      PROVE  LifeOf(i)' = LifeOf(i)
  BY <1>1, <1>2, <1>3, SameLife
<1> QED
  BY <1>1, <1>4, Stutters

\* getEventStatuses: Report, or Forget when the job was cancelled.
LEMMA TakeLife ==
    ASSUME \A g, h \in Handlers : g = h,
           TypeOK, JobsInv, EndsInv, LifeInv, NEW h \in Handlers, TakeStatus(h)
    PROVE  Promised
<1>. PICK j : j = Head(events).job
  OBVIOUS
<1>0. /\ j \in Jobs /\ batch[j] = "ended" /\ j \in Range(submitted)
      /\ j \in Range(Ends) /\ j \notin Range(reported)
      /\ j \in job_list => Ends' = Ends /\ Range(reported') = Range(reported) \cup {j}
      /\ j \notin job_list => /\ reported' = reported
                              /\ Range(Ends) = Range(Ends') \cup {j} /\ j \notin Range(Ends')
  BY TakenOnce
<1>1. UNCHANGED <<batch, cancelled, toSubmitJobs>> /\ pc[h] = "ev_take"
  BY DEF TakeStatus, TakeEvent, batchVars, At
<1>2. \A i \in Jobs : batch[i] \in BatchState
  BY DEF TypeOK, BatchTypeOK, AllJobs
<1>3. ASSUME NEW i \in Jobs \ {j}
      PROVE  LifeOf(i)' = LifeOf(i)
  <2>1. /\ i \in Range(reported') <=> i \in Range(reported)
        /\ i \in Range(Ends') <=> i \in Range(Ends)
    BY <1>0
  <2> QED
    BY <1>1, <1>2, <2>1, SameLife
<1>4. LifeOf(j) = "ended"
  BY <1>0 DEF LifeOf
<1>5. CASE j \in job_list
  <2>1. LifeOf(j)' = "reported"
    BY <1>0, <1>1, <1>5 DEF LifeOf
  <2>2. Service!Report(j)
    BY <1>0, <1>1, <1>3, <1>4, <2>1, OneLife DEF Service!Report
  <2> QED
    BY <1>0, <2>2 DEF Promised, Service!Next
<1>6. CASE j \notin job_list
  <2>1. LifeOf(j)' = "forgotten"
    BY <1>0, <1>1, <1>6 DEF LifeOf
  <2>2. j \in created
    BY <1>0, QueueJobs, BackgroundAssumption DEF JobsInv, CreatedJobsAreKept
  <2>3. j \in cancelled
    BY <1>0, <1>1, <1>6, <2>2 DEF LifeInv
  <2>4. Service!Forget(j)
    BY <1>0, <1>1, <1>3, <1>4, <2>1, <2>3, OneLife DEF Service!Forget
  <2> QED
    BY <1>0, <2>4 DEF Promised, Service!Next
<1> QED
  BY <1>5, <1>6

\* cancelJob: Cancel, of a job that was queued and not reported.
LEMMA CancelLife ==
    ASSUME TypeOK, JobsInv, EndsInv, LifeInv, NEW h \in Handlers, QueueCancel(h)
    PROVE  Promised
<1>. PICK j : j = job[h]
  OBVIOUS
<1>0. j \in Range(Handed) \ Range(reported) /\ j \in Jobs
  BY DEF QueueCancel, At, LifeInv, TypeOK, HandlerTypeOK, JobLabel
<1>1. /\ UNCHANGED <<batch, reported, toSubmitJobs, events, wmsEvent, mailbox>>
      /\ cancelled' = cancelled \cup {j}
  BY DEF QueueCancel, PushCancel, batchVars
<1>2. UNCHANGED Ends
  BY <1>1 DEF Ends, Received
<1>3. \A i \in Jobs : batch[i] \in BatchState
  BY DEF TypeOK, BatchTypeOK, AllJobs
<1>4. ASSUME NEW i \in Jobs
      PROVE  LifeOf(i)' = LifeOf(i)
  BY <1>1, <1>2, <1>3, SameLife
<1>5. j \in Range(toSubmitJobs) \/ batch[j] # "unknown"
  <2>1. Range(Handed) = Range(submitted) \cup Range(InTransit)
    BY HandedTypes
  <2> QED
    BY <1>0, <2>1, QueueJobs DEF EndsInv
<1>6. LifeOf(j) \notin {"unknown", "reported"}
  BY <1>0, <1>3, <1>5 DEF LifeOf, BatchState
<1>7. Service!Cancel(j)
  <2>1. UNCHANGED [i \in Jobs |-> LifeOf(i)]
    BY <1>4, NoLife
  <2>2. [i \in Jobs |-> LifeOf(i)][j] \notin {"unknown", "reported"}
    BY <1>0, <1>6
  <2> QED
    BY <1>1, <2>1, <2>2 DEF Service!Cancel
<1> QED
  BY <1>0, <1>7 DEF Promised, Service!Next

\* Every other step leaves the lives of jobs alone.
LEMMA OtherLife ==
    ASSUME TypeOK, UNCHANGED <<reported, cancelled, toSubmitJobs, events, wmsEvent, mailbox>>,
           \A j \in Jobs : batch'[j] = batch[j]
    PROVE  Promised
<1>1. UNCHANGED Ends
  BY DEF Ends, Received
<1>2. \A i \in Jobs : batch[i] \in BatchState
  BY DEF TypeOK, BatchTypeOK, AllJobs
<1>3. ASSUME NEW i \in Jobs
      PROVE  LifeOf(i)' = LifeOf(i)
  BY <1>1, <1>2, SameLife
<1> QED
  BY <1>3, Stutters

LEMMA PromisedStep ==
    ASSUME \A g, h \in Handlers : g = h,
           TypeOK, JobsInv, EndsInv, CancelInv, LifeInv, [Next]_vars
    PROVE  Promised
<1>1. CASE UNCHANGED <<batchVars, wmsVars, handlerVars, historyVars>>
  BY <1>1, OtherLife DEF batchVars, wmsVars, queueVars, historyVars
<1>2. CASE WmsStep /\ UNCHANGED <<handlerVars, historyVars>>
  <2>1. CASE SubmitBackground
    <3>1. \A j \in Jobs : j \in AllJobs /\ j \notin Background
      BY BackgroundAssumption DEF AllJobs
    <3>2. \A j \in Jobs : batch'[j] = batch[j]
      BY <2>1, <3>1 DEF SubmitBackground
    <3> QED
      BY <1>2, <2>1, <3>2, OtherLife DEF SubmitBackground, queueVars, historyVars
  <2>2. CASE \/ Boot \/ CreateJobManager \/ TestSubmit \/ ClearDone \/ TestCancel \/ EraseCancelled
             \/ PopCancelled \/ TestAdvance \/ WaitTimeout \/ CheckStop
    <3>1. UNCHANGED <<batch, reported, cancelled, toSubmitJobs, events, wmsEvent, mailbox>>
      BY <1>2, <2>2 DEF Boot, CreateJobManager, TestSubmit, ClearDone, TestCancel,
         EraseCancelled, PopCancelled, TestAdvance, WaitTimeout, CheckStop, ReceiveNone,
         batchVars, queueVars, historyVars
    <3> QED
      BY <3>1, OtherLife
  <2>3. CASE SubmitJob
    BY <1>2, <2>3, BatchLife
  <2>4. CASE PopSubmitted
    BY <1>2, <2>4, PopLife
  <2>5. CASE TerminateJob
    BY <1>2, <2>5, TerminateLife
  <2>6. CASE WaitEvent \/ PushEvent
    BY <1>2, <2>6, MoveLife
  <2> QED
    BY <1>2, <2>1, <2>2, <2>3, <2>4, <2>5, <2>6 DEF WmsStep
<1>3. CASE BatchStep /\ UNCHANGED <<handlerVars, historyVars>>
  BY <1>3, EndLife
<1>4. ASSUME NEW h \in Handlers, Arrive(h) \/ Handle(h)
      PROVE  Promised
  <2>1. CASE QueueJob(h)
    BY <2>1, QueueLife
  <2>2. CASE TakeStatus(h)
    BY <2>2, TakeLife
  <2>3. CASE QueueCancel(h)
    BY <2>3, CancelLife
  <2>4. CASE ~QueueJob(h) /\ ~TakeStatus(h) /\ ~QueueCancel(h)
    <3>1. UNCHANGED <<batch, reported, cancelled, toSubmitJobs, events, wmsEvent, mailbox>>
      BY <1>4, <2>4, HandlerChanges DEF batchVars
    <3> QED
      BY <3>1, OtherLife
  <2> QED
    BY <2>1, <2>2, <2>3, <2>4
<1> QED
  BY <1>1, <1>2, <1>3, <1>4, Steps

LEMMA LifeInit ==
    ASSUME Init
    PROVE  LifeInv /\ Service!Init
<1>1. /\ wmsPc = "boot" /\ created = {} /\ job_list = {} /\ cancelled = {}
      /\ reported = <<>> /\ toSubmitJobs = <<>> /\ \A h \in Handlers : pc[h] = "idle"
      /\ \A j \in Jobs : batch[j] = "unknown"
  BY DEF Init, WmsInit, BatchInit, AllJobs
<1>2. Range(<<>>) = {}
  BY DEF Range
<1>3. LifeInv
  BY <1>1 DEF LifeInv
<1>4. \A j \in Jobs : LifeOf(j) = "unknown"
  BY <1>1, <1>2 DEF LifeOf
<1> QED
  BY <1>1, <1>3, <1>4 DEF Service!Init

\* A server whose requests are served one at a time keeps the promises of
\* JobLifecycle: every job sbatch accepted goes to the batch service once, its
\* end is reported once, and only a job that was cancelled is terminated or
\* forgotten.  Each step is a step of JobLifecycle for one job or none.
THEOREM SerialServerKeepsPromises ==
    ASSUME \A g, h \in Handlers : g = h
    PROVE  Spec => ImplementsJobLifecycle
<1>1. Init => LifeInv /\ Service!Init
  BY LifeInit
<1>2. TypeOK /\ JobsInv /\ EndsInv /\ CancelInv /\ LifeInv /\ [Next]_vars => LifeInv'
  BY LifeInvStep
<1>3. TypeOK /\ JobsInv /\ EndsInv /\ CancelInv /\ LifeInv /\ [Next]_vars
         => [Service!Next]_(Service!lifeVars)
  BY PromisedStep DEF Promised
<1> QED
  BY <1>1, <1>2, <1>3, TypeCorrect, JobsInvariant, EndsInvariant, CancelInvariant, PTL
     DEF Spec, ImplementsJobLifecycle, Service!Spec
=============================================================================
