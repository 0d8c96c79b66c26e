-------------------------- MODULE MCRotatingSavings --------------------------
(* Instances of RotatingSavings for TLC. *)
EXTENDS RotatingSavings, TLC

CONSTANTS u1, a1, a2, g1, c1, c2

Ids == Permutations(Accounts) \cup Permutations(Groups)
           \cup Permutations(Contributions) \cup Permutations(Slots)
=============================================================================
