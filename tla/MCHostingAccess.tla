-------------------------- MODULE MCHostingAccess --------------------------
(* Instances of HostingAccess for TLC. *)
EXTENDS HostingAccess, TLC

(* Names, slugs and threads are alike, and every property is a safety one. *)
Symmetric == Permutations(Apps) \cup Permutations(Requests)
=============================================================================
