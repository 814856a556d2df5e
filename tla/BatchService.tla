---------------------------- MODULE BatchService ----------------------------
(***************************************************************************)
(* The batch compute service and the mailbox of the workflow manager, as   *)
(* server/workflow_manager.cpp uses them.  Both belong to the WRENCH       *)
(* library, which is not part of this repository: this module keeps what   *)
(* the calls submitJob (lines 80, 96), terminateJob (line 116) and         *)
(* waitForNextEvent (line 136) rely on, and leaves the scheduling          *)
(* algorithm, hence the order in which jobs start and end, open.           *)
(***************************************************************************)
EXTENDS Naturals, Sequences, Functions

CONSTANTS
    Jobs,             \* the standard jobs users submit through sbatch
    background_jobs   \* the pilot jobs of the background workload, in order

Background == Range(background_jobs)

ASSUME BackgroundAssumption ==
    /\ background_jobs \in Seq(Background)
    /\ IsInjective(background_jobs)
    /\ Jobs \cap Background = {}

VARIABLES
    batch,       \* batch[j]: where the batch service has job j
    submitted,   \* the jobs in the order the batch service received them
    mailbox      \* the events the service sent, not yet received by the WMS

batchVars == <<batch, submitted, mailbox>>

AllJobs == Jobs \cup Background

BatchState == {"unknown", "pending", "running", "ended", "terminated"}

\* What waitForNextEvent returns: the end of a user's job, or news of a
\* background job.
JobEvent   == [kind : {"completed", "failed"}, job : Jobs]
PilotEvent == [kind : {"started", "expired"}, job : Background]
Event      == JobEvent \cup PilotEvent

BatchTypeOK ==
    /\ batch \in [AllJobs -> BatchState]
    /\ submitted \in Seq(AllJobs)
    /\ mailbox \in Seq(Event)

BatchInit ==
    /\ batch = [j \in AllJobs |-> "unknown"]
    /\ submitted = <<>>
    /\ mailbox = <<>>

-----------------------------------------------------------------------------
\* job_manager->submitJob(job, batch_service, args)
Submit(j) ==
    /\ batch' = [batch EXCEPT ![j] = "pending"]
    /\ submitted' = Append(submitted, j)
    /\ UNCHANGED mailbox

\* batch_service->terminateJob(job): a job the service does not hold any more,
\* or does not hold yet, makes it throw and changes nothing.  A job it
\* terminates sends no event.
Terminate(j) ==
    /\ batch' = IF batch[j] \in {"pending", "running"}
                THEN [batch EXCEPT ![j] = "terminated"]
                ELSE batch
    /\ UNCHANGED <<submitted, mailbox>>

\* The scheduler starts a job.  Only the start of a pilot job is an event.
BatchStart(j) ==
    /\ batch[j] = "pending"
    /\ batch' = [batch EXCEPT ![j] = "running"]
    /\ mailbox' = IF j \in Background
                  THEN Append(mailbox, [kind |-> "started", job |-> j])
                  ELSE mailbox
    /\ UNCHANGED submitted

\* A job ends: a pilot job expires, a user's job completes or, at the time
\* limit its sbatch asked for, fails.
BatchEnd(j) ==
    /\ batch[j] = "running"
    /\ batch' = [batch EXCEPT ![j] = "ended"]
    /\ \/ /\ j \in Background
          /\ mailbox' = Append(mailbox, [kind |-> "expired", job |-> j])
       \/ /\ j \in Jobs
          /\ \E k \in {"completed", "failed"} :
                mailbox' = Append(mailbox, [kind |-> k, job |-> j])
    /\ UNCHANGED submitted

\* waitForNextEvent(timeout) returns an event, or nothing when none came.
Receive     == mailbox # <<>> /\ mailbox' = Tail(mailbox) /\ UNCHANGED <<batch, submitted>>
ReceiveNone == mailbox = <<>> /\ UNCHANGED batchVars
=============================================================================
