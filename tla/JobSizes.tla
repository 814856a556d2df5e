------------------------------ MODULE JobSizes ------------------------------
(***************************************************************************)
(* server/compute_rightnow_job_sizes.cpp: a brute-force search for sizes   *)
(* of background jobs that never fill the cluster, however they are packed.*)
(***************************************************************************)
EXTENDS Integers, SequencesExt

All(n, value) == [i \in 1..n |-> value]

\* Mutant of VectorIncrement: a counter starts again at 0, whatever its bound.
VectorIncrementZero(counters, lb, up, inc) ==
    LET free == {i \in DOMAIN counters : counters[i] + inc[i] <= up[i]}
        last == CHOOSE i \in free : \A j \in free : j <= i
    IN  IF free = {} THEN [done |-> TRUE, counters |-> counters]
        ELSE [done |-> FALSE,
              counters |-> [i \in DOMAIN counters |->
                                CASE i < last -> counters[i]
                                  [] i = last -> counters[i] + inc[i]
                                  [] i > last -> 0]]

\* vectorIncrement: the last counter that can go up does, and those after it, which are
\* at their bounds, start again.  It is done if none can.
VectorIncrement(counters, lb, up, inc) ==
    LET free == {i \in DOMAIN counters : counters[i] + inc[i] <= up[i]}
        last == CHOOSE i \in free : \A j \in free : j <= i
    IN  IF free = {} THEN [done |-> TRUE, counters |-> counters]
        ELSE [done |-> FALSE,
              counters |-> [i \in DOMAIN counters |->
                                CASE i < last -> counters[i]
                                  [] i = last -> counters[i] + inc[i]
                                  [] i > last -> lb[i]]]

OccupiedRound(p, sum, i) == sum + (p.num_jobs[i] * p.sizes[i])
Adding == INSTANCE Loops WITH Round <- OccupiedRound
Occupied(num_jobs, sizes) ==
    Adding!Loop([num_jobs |-> num_jobs, sizes |-> sizes], 0, Len(sizes))

\* The inner loop: whether it goes on, what it has found out, and where it is.
Trying(more, enough, num_jobs) == [more |-> more, enough |-> enough, num_jobs |-> num_jobs]

\* One round of it: x.enough says that no way to run jobs seen so far fits the cluster
\* and takes of the space to leave.
JobsRound(p, x, n) ==
    LET k     == Len(p.sizes)
        space == Occupied(x.num_jobs, p.sizes)
        next  == VectorIncrement(x.num_jobs, All(k, 0), All(k, p.nodes), All(k, 1))
    IN  IF ~x.more THEN x
        ELSE IF space <= p.nodes /\ space > p.nodes - p.space_to_leave
        THEN Trying(FALSE, FALSE, x.num_jobs)
        ELSE Trying(~next.done, x.enough, next.counters)
Packing == INSTANCE Loops WITH Round <- JobsRound

\* Whether each way to run some jobs of each size leaves the space if it fits.  (A round
\* for each way.)
EnoughSpaceLeft(sizes, nodes, space_to_leave) ==
    LET k == Len(sizes)
    IN  Packing!Loop([sizes |-> sizes, nodes |-> nodes, space_to_leave |-> space_to_leave],
                     Trying(TRUE, TRUE, All(k, 0)), Cardinality([1..k -> 0..nodes])).enough

\* A candidate is taken if its smallest size is less than a third of the nodes, rounded
\* down (of 9 nodes, sizes 3 and 4 are too large for that), if it leaves the space, and
\* if its sizes differ.
Found(candidates, nodes, space_to_leave) ==
    /\ \E i \in DOMAIN candidates : candidates[i] < nodes \div 3
    /\ EnoughSpaceLeft(candidates, nodes, space_to_leave)
    /\ IsInjective(candidates)

FirstCandidates(k) == <<2>> \o All(k - 1, 1)

\* The outer loop: whether it goes on, where it is, and what it has looked at.
Sought(more, candidates, seen) == [more |-> more, candidates |-> candidates, seen |-> seen]

SearchRound(nodes, x, n) ==
    LET k    == Len(x.candidates)
        next == VectorIncrement(x.candidates, FirstCandidates(k), All(k, nodes), All(k, 1))
    IN  IF ~x.more THEN x
        ELSE Sought(~next.done, next.counters, Append(x.seen, x.candidates))
Searching == INSTANCE Loops WITH Round <- SearchRound

\* All candidates, in order.  (A round for each; on a single node, the first counter is
\* beyond its bound in the only round.)
Candidates(nodes, num_sizes) ==
    Searching!Loop(nodes, Sought(TRUE, FirstCandidates(num_sizes), <<>>),
                   Cardinality([1..num_sizes -> 1..nodes])).seen

\* computeJobSizes: what it prints, in order.
ComputeJobSizes(nodes, num_sizes, space_to_leave) ==
    LET seen == Candidates(nodes, num_sizes)
    IN  FlattenSeq([i \in DOMAIN seen |->
                        IF Found(seen[i], nodes, space_to_leave) THEN <<seen[i]>> ELSE <<>>])
=============================================================================
