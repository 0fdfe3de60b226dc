--------------------------- MODULE MCDeployments ---------------------------
(* Instances of Deployments for TLC. *)
EXTENDS Deployments, TLC

CONSTANTS q1, q2, p1, p2

(* Two worker processes with one thread each, or one with both threads.    *)
TwoProcesses == q1 :> p1 @@ q2 :> p2
OneProcess   == q1 :> p1 @@ q2 :> p1

(* Deployments are interchangeable, and so are threads of one process. *)
Symmetric == Permutations(Deployments) \cup Permutations(Requests)
=============================================================================
