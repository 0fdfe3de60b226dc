-------------------------- MODULE MCScheduledJobs --------------------------
(* Instances of ScheduledJobs for TLC.  Neither workers nor run ids are      *)
(* told apart by the invariants and action properties that are checked.     *)
EXTENDS ScheduledJobs, TLC

Symmetric == Permutations(Workers) \cup Permutations(RunIds)
=============================================================================
