------------------------------ MODULE MCOutbox ------------------------------
(* Instances of Outbox for TLC. *)
EXTENDS Outbox, TLC

CONSTANTS t1, t2, j1, j2

(* One thread per run. *)
OneThreadPerRun == t1 :> j1 @@ t2 :> j2
OneThread       == t1 :> j1
=============================================================================
