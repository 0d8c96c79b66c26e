------------------------------ MODULE MCAccounts ------------------------------
(* Instances of Accounts for TLC. *)
EXTENDS Accounts, TLC

CONSTANTS u1, u2, a1, a2, a3, t1, t2

\* One account of each kind that is treated differently when it is deleted.
Kinds == [a \in Accounts |-> CASE a = a1 -> "bank"
                               [] a = a2 -> "savings"
                               [] OTHER -> "cash"]

AllOps == {"create", "create_savings", "post", "delete", "delete_savings",
           "patch_savings"}

Ids == Permutations(Users) \cup Permutations(Transactions) \cup Permutations(Slots)
=============================================================================
