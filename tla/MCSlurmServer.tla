---------------------------- MODULE MCSlurmServer ----------------------------
(* Values of the constants of SlurmServer that a cfg cannot write. *)
EXTENDS SlurmServer, TLC

CONSTANTS b1

MCNoBackground == <<>>
MCBackground   == <<b1>>
MCSizes        == {-1, NodeCount, NodeCount + 1}
JobSymmetry    == Permutations(Jobs)
ThreadSymmetry == JobSymmetry \cup Permutations(Handlers)
=============================================================================
