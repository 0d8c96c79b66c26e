----------------------------- MODULE MCSessions ------------------------------
(* Instances of Sessions for TLC. *)
EXTENDS Sessions, TLC

CONSTANTS u1, u2, k1, k2, k3, r1, r2, e1, p1, w1, w2

Ids == Permutations(Users) \cup Permutations(Tokens) \cup Permutations(Slots)
=============================================================================
