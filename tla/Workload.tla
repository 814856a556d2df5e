------------------------------ MODULE Workload ------------------------------
(***************************************************************************)
(* The platform and the background jobs that server/SimulationThreadState  *)
(* .cpp makes for a new simulation.  A job is <<nodes, seconds>>; rand()   *)
(* is a sequence of numbers that is read from its place on.                *)
(***************************************************************************)
EXTENDS Integers, SequencesExt

\* write_xml: the numbers of the ComputeNodes of the platform file.
PlatformNodes(num_nodes) == 0..(num_nodes - 1)

\* createAndLaunchSimulation: those the batch service is given.
BatchNodes(num_nodes) == {0} \cup 1..(num_nodes - 1)

RandInt(r, min, max) == (r % (max - min + 1)) + min

Job(num_nodes, r, min_time, max_time) == <<num_nodes, RandInt(r, min_time, max_time)>>

\* Mutant of RightNowSizes: a size that is one off.
RightNowSizesOff == <<7, 13, 14, 21, 25>>

\* Space to leave: 4
RightNowSizes == <<7, 13, 14, 21, 26>>

\* createRightNowWorkload: a job of each size, then some of any size: first up to
\* start of them, then as many as come later.  (A job's size is drawn before its
\* time; there is no trace file, so nothing is drawn for it, and the times of
\* submission go nowhere.)
RightNow(rand, start, later) ==
    LET n == Len(RightNowSizes)
        drawn(i) == n + (2 * (i - n))      \* rand() was called so often with job i
    IN  [i \in 1..(start + later) |->
            IF i <= n THEN Job(RightNowSizes[i], rand[i], 5000, 36000)
            ELSE Job(RightNowSizes[(rand[drawn(i) - 1] % n) + 1], rand[drawn(i)], 5000, 36000)]

Hour == 3600

\* createBackfillingWorkload
BackfillingWorkload == << <<16, 10 * Hour + 100>>, <<16, 6 * Hour - 80>>,
                          <<32, 8 * Hour + 24>>, <<16, 50 * Hour + 423>> >>

\* createChoicesWorkload
ChoicesWorkload == << <<31, 10 * Hour>>, <<30, Hour \div 2>>, <<28, 8 * Hour>> >>

\* createTraceFile, and createAndLaunchSimulation, which has no use for it if there
\* is no scheme.  The process ends if the scheme is unknown, or made for another
\* number of nodes.
Ends == << <<0, 0>> >>
Workloads(scheme, num_nodes, rand) ==
    CASE scheme = "none"                          -> <<>>
      [] scheme = "rightnow" /\ num_nodes = 32    -> RightNow(rand, 15, 100)
      [] scheme = "backfilling" /\ num_nodes = 32 -> BackfillingWorkload
      [] scheme = "choices" /\ num_nodes = 32     -> ChoicesWorkload
      [] OTHER                                    -> Ends

\* WorkflowManager::main: the nodes and the minutes it asks for.
PilotJob(job) == [N |-> job[1], t |-> job[2] \div 60]
=============================================================================
