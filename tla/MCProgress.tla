------------------------------ MODULE MCProgress ------------------------------
(* Instances of Progress for TLC. *)
EXTENDS MCRotatingSavings, Progress

CONSTANTS q1, q2, q3, q4, k1, k2, k3
=============================================================================
