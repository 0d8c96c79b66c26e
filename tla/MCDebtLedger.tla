----------------------------- MODULE MCDebtLedger -----------------------------
(* Instances of DebtLedger for TLC. *)
EXTENDS DebtLedger, TLC

CONSTANTS u1, u2, a1

\* One user who owns the only account.
OneOwner == [u \in Users |-> [a \in Accounts |-> "owner"]]

\* The account of u1 is shared with u2, who may edit it.
SharedAccount ==
    [u \in Users |-> [a \in Accounts |-> IF u = u1 THEN "owner" ELSE "editor"]]

\* A payment and one that takes back; a .cfg holds no negative numbers.
MCAmounts == {-1, 2}

Ids == Permutations(Debts) \cup Permutations(Transactions)
=============================================================================
