--------------------------- MODULE MCDebtStatements ---------------------------
(* Instances of DebtStatements for TLC. *)
EXTENDS DebtStatements, TLC

CONSTANTS u1, u2, a1, d1, d2, t1, t2

\* One user who owns the only account.
OneOwner == [u \in Users |-> [a \in Accounts |-> "owner"]]

\* Two users with whom a third, who takes no part, shares an account.
TwoEditors == [u \in Users |-> [a \in Accounts |-> "editor"]]

AllOps == {"repay", "pay", "update", "drop", "delete"}

Ids == Permutations(Debts) \cup Permutations(Transactions)
           \cup Permutations(Slots) \cup Permutations(Users)

\* A ledger u1 can have built with two shared expenses: each transaction
\* originated one debt and is free to be recorded as a payment of the other,
\* which is what it takes for two deletions to lock the debts crosswise.
CrossedInit ==
    /\ debt = (d1 :> NewDebt(u1, 2, t1) @@ d2 :> NewDebt(u1, 2, t2))
    /\ txn = [t \in Transactions |-> [state |-> "posted", account |-> a1]]
    /\ link = [t \in Transactions |-> NoLink]
    /\ AllIdle

CrossedSpec == CrossedInit /\ [][StmtNext]_allVars /\ Fairness
=============================================================================
