---------------------------- MODULE MCTokenKeys ----------------------------
(* Instances of TokenKeys for TLC.  Neither keys nor threads are told apart. *)
EXTENDS TokenKeys, TLC

Symmetric == Permutations(Kids) \cup Permutations(Threads)
=============================================================================
