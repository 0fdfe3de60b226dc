--------------------------- MODULE MCActionRules ---------------------------
(* Instances of ActionRules for TLC.  Neither URLs nor requests are told apart. *)
EXTENDS ActionRules, TLC

AllOfFirst == [r \in Rules |-> CHOOSE c \in Companies : TRUE]

Symmetric == Permutations(Urls) \cup Permutations(Requests)
=============================================================================
