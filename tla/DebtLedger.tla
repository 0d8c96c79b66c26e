------------------------------ MODULE DebtLedger ------------------------------
(***************************************************************************)
(* The debts of a user, the ledger transactions that originate or repay    *)
(* them and the payment links between the two, with every request handler  *)
(* executed as one atomic step.  This is what the service promises by      *)
(* running each handler inside Postgres.WithTx; DebtStatements.tla splits  *)
(* the same handlers into their SQL statements.                            *)
(*                                                                         *)
(* Only requests that succeed are steps: a handler that returns an error   *)
(* rolls its transaction back and leaves the tables as they were.          *)
(*                                                                         *)
(* Amounts in the tables are whole cents (numeric(18,2)); amounts in       *)
(* requests are decimal strings, modelled in units of 1/Subunits cent.     *)
(* Nobody refuses a negative one but the CHECK constraints of debts.       *)
(*                                                                         *)
(* deleted_at is kept as whether it is set: a deletion of a debt that is   *)
(* deleted already sets it to a later time.                                *)
(***************************************************************************)
EXTENDS Integers, FiniteSets, FiniteSetsExt

CONSTANTS
    Users,          \* users.id
    Accounts,       \* accounts.id
    Debts,          \* debts.id
    Transactions,   \* transactions.id
    None,           \* the SQL NULL of a reference
    Perm,           \* the active user_accounts rows: Perm[user][account]
    Principals,     \* amounts of new debts, in units of 1/Subunits cent
    Amounts,        \* amounts of payments, in the same units
    Modes,          \* forms of payment: "amount" to distribute, or "split"
    Statuses,       \* statuses an update may carry
    Subunits        \* request units per cent: 1 when requests carry whole cents

Permissions == {"none", "viewer", "editor", "owner"}

\* The values of entity.DebtStatus and those of the debt_status enum of the
\* schema.  A request may carry any of them, only the latter can be stored.
AppStatus == {"active", "paid", "cancelled"}
DbStatus  == {"active", "overdue", "closed"}

ASSUME ConstantsAssumption ==
    /\ None \notin Users \cup Accounts \cup Debts \cup Transactions
    /\ Perm \in [Users -> [Accounts -> Permissions]]
    /\ Principals \cup Amounts \subseteq Int
    /\ Modes \subseteq {"amount", "split"}
    /\ Statuses \subseteq AppStatus \cup DbStatus
    /\ Subunits \in Nat \ {0}

VARIABLES
    debt,    \* the debts table, by id
    txn,     \* the transactions table, by id
    link     \* the debt_payment_links table, by its unique transaction_id

vars == <<debt, txn, link>>

-----------------------------------------------------------------------------
(* Rows *)

DebtRow == [state: {"absent", "live", "deleted"},
            user: Users \cup {None},
            principal: Nat, outstanding: Int, accrued: Int,
            status: AppStatus \cup DbStatus,
            origin: Transactions \cup {None},
            closed: BOOLEAN]

NoDebt == [state |-> "absent", user |-> None, principal |-> 0,
           outstanding |-> 0, accrued |-> 0, status |-> "active",
           origin |-> None, closed |-> FALSE]

NewDebt(u, p, t) ==
    [state |-> "live", user |-> u, principal |-> p, outstanding |-> p,
     accrued |-> 0, status |-> "active", origin |-> t, closed |-> FALSE]

TxnRow == [state: {"absent", "posted", "deleted"},
           account: Accounts \cup {None}]

NoTxn == [state |-> "absent", account |-> None]

LinkRow == [debt: Debts \cup {None}, principal: Int, interest: Int]

NoLink == [debt |-> None, principal |-> 0, interest |-> 0]

-----------------------------------------------------------------------------
(* Guards and computations the handlers share *)

\* TransactionPermissionSQL and the EXISTS of CreateDebtTx: any active share.
Member(u, a) == a \in Accounts /\ Perm[u][a] # "none"

\* requireAccountPermission.
Writer(u, a) == a \in Accounts /\ Perm[u][a] \in {"editor", "owner"}

\* The CHECK constraints and the enum of the debts table.
RowAccepted(row) ==
    /\ row.outstanding >= 0
    /\ row.accrued >= 0
    /\ row.status \in DbStatus

\* Fault: fractions of a cent are cut off.
TruncateCents(x) == x \div Subunits

\* big.Rat.FloatString(2) and the cast to numeric(18,2): to the nearest cent,
\* ties away from zero.
RoundCents(x) ==
    IF x >= 0 THEN (2 * x + Subunits) \div (2 * Subunits)
              ELSE -((Subunits - 2 * x) \div (2 * Subunits))

\* A DebtPaymentRequest: AmountPaid, to be distributed, or explicit parts.
AmountPayments == [mode: {"amount"}, amount: Amounts, interest: {0}]
SplitPayments  == [mode: {"split"}, amount: Amounts, interest: {0} \cup Amounts]
Payments == {pay \in AmountPayments \cup SplitPayments : pay.mode \in Modes}

\* How AddPaymentTx divides a payment: the interest first, then the
\* principal.  Parts given by the request are taken as they are, unrounded.
Allocation(row, pay) ==
    LET accrued == row.accrued * Subunits IN
    CASE pay.mode = "split" ->
           [principal |-> pay.amount, interest |-> pay.interest]
      [] pay.mode = "amount" /\ pay.amount >= accrued ->
           [principal |-> Subunits * RoundCents(pay.amount - accrued),
            interest |-> accrued]
      [] OTHER ->
           [principal |-> 0, interest |-> Subunits * RoundCents(pay.amount)]

\* The SET clause of the UPDATEs on debts.
SetDebt(row, outstanding, accrued, status, closed) ==
    [row EXCEPT !.outstanding = outstanding, !.accrued = accrued,
                !.status = status, !.closed = closed]

\* The row AddPaymentTx computes from the one it read.
AfterPayment(row, pay) ==
    LET part == Allocation(row, pay)
        outstanding == row.outstanding * Subunits - part.principal
        accrued == row.accrued * Subunits - part.interest
        settled == outstanding <= 0 /\ accrued <= 0
    IN  SetDebt(row, RoundCents(outstanding), RoundCents(accrued),
                IF settled THEN "paid" ELSE row.status, settled)

PaymentLink(d, row, pay) ==
    [debt |-> d,
     principal |-> RoundCents(Allocation(row, pay).principal),
     interest |-> RoundCents(Allocation(row, pay).interest)]

\* Fault: undoing a payment reopens the debt and gives nothing back.
AfterRefundOfNothing(row, l) ==
    SetDebt(row, row.outstanding, row.accrued, "active", FALSE)

\* The row CleanupTransactionLinksTx computes when a payment is undone.
AfterRefund(row, l) ==
    SetDebt(row, row.outstanding + l.principal, row.accrued + l.interest,
            "active", FALSE)

\* The row DebtService.Update computes.
AfterUpdate(row, s) ==
    SetDebt(row, row.outstanding, row.accrued, s, row.closed \/ s = "paid")

\* GetDebt finds the row.
DebtVisible(u, d) == debt[d].state = "live" /\ debt[d].user = u

\* getTransaction finds the row.
TxnVisible(u, t) == txn[t].state = "posted" /\ Member(u, txn[t].account)

TxnExists(t) == txn[t].state # "absent"

-----------------------------------------------------------------------------
(* Handlers *)

\* DebtService.Create without a ledger transaction.  The origin is whatever
\* existing transaction the request names, or none.
CreateDebt(u, a, d, p, origin) ==
    /\ Member(u, a)
    /\ debt[d].state = "absent"
    /\ origin \in {None} \cup {t \in Transactions : TxnExists(t)}
    /\ RowAccepted(NewDebt(u, RoundCents(p), origin))
    /\ debt' = [debt EXCEPT ![d] = NewDebt(u, RoundCents(p), origin)]
    /\ UNCHANGED <<txn, link>>

\* TransactionService.Create of an expense or income, with the debts of the
\* participants that share it; DebtService.Create with CreateTransaction is
\* the case of a single debt of the full amount.
CreateTransaction(u, a, t, share) ==
    /\ Writer(u, a)
    /\ txn[t].state = "absent"
    /\ \A d \in DOMAIN share : /\ debt[d].state = "absent"
                               /\ RowAccepted(NewDebt(u, RoundCents(share[d]), t))
    /\ txn' = [txn EXCEPT ![t] = [state |-> "posted", account |-> a]]
    /\ debt' = [d \in Debts |-> IF d \in DOMAIN share
                                THEN NewDebt(u, RoundCents(share[d]), t)
                                ELSE debt[d]]
    /\ UNCHANGED link

\* Fault: any status is stored.
UpdateDebtUnchecked(u, d, s) ==
    /\ DebtVisible(u, d)
    /\ debt' = [debt EXCEPT ![d] = AfterUpdate(@, s)]
    /\ UNCHANGED <<txn, link>>

\* DebtService.Update.
UpdateDebt(u, d, s) ==
    /\ DebtVisible(u, d)
    /\ RowAccepted(AfterUpdate(debt[d], s))
    /\ debt' = [debt EXCEPT ![d] = AfterUpdate(@, s)]
    /\ UNCHANGED <<txn, link>>

\* DebtService.Delete, of a debt deleted before too.
DeleteDebt(u, d) ==
    /\ debt[d].state # "absent"
    /\ debt[d].user = u
    /\ debt' = [debt EXCEPT ![d].state = "deleted"]
    /\ UNCHANGED <<txn, link>>

\* AddPaymentTx: the link and the new balances.
RecordPayment(u, d, t, pay) ==
    /\ DebtVisible(u, d)
    /\ link[t].debt = None
    /\ RowAccepted(AfterPayment(debt[d], pay))
    /\ link' = [link EXCEPT ![t] = PaymentLink(d, debt[d], pay)]
    /\ debt' = [debt EXCEPT ![d] = AfterPayment(@, pay)]

\* DebtService.AddPayment with an existing transaction.
AddPayment(u, d, t, pay) ==
    /\ TxnExists(t)
    /\ RecordPayment(u, d, t, pay)
    /\ UNCHANGED txn

\* DebtService.Repay: the ledger transaction and its payment link in one.
Repay(u, a, d, t, pay) ==
    /\ Writer(u, a)
    /\ txn[t].state = "absent"
    /\ RoundCents(pay.amount) > 0
    /\ txn' = [txn EXCEPT ![t] = [state |-> "posted", account |-> a]]
    /\ RecordPayment(u, d, t, pay)

\* Fault: the debts a transaction originated outlive it.
CleanedKeepingDebts(u, t, d) ==
    IF link[t].debt = d /\ DebtVisible(u, d)
    THEN AfterRefund(debt[d], link[t])
    ELSE debt[d]

\* CleanupTransactionLinksTx applied to one row of the debts table: undo the
\* payment t made, then delete the debt if t originated it.
Cleaned(u, t, d) ==
    LET row == IF link[t].debt = d /\ DebtVisible(u, d)
               THEN AfterRefund(debt[d], link[t])
               ELSE debt[d]
    IN  IF row.state = "live" /\ row.user = u /\ row.origin = t
        THEN [row EXCEPT !.state = "deleted"]
        ELSE row

\* TransactionService.Delete.  It fails if what the payment took may not be given
\* back: for a negative one, the debt may have too little left.
DeleteTransaction(u, t) ==
    /\ TxnVisible(u, t)
    /\ \A d \in Debts : RowAccepted(Cleaned(u, t, d))
    /\ debt' = [d \in Debts |-> Cleaned(u, t, d)]
    /\ link' = [link EXCEPT ![t] =
                   IF @.debt # None /\ debt[@.debt].user = u THEN NoLink ELSE @]
    /\ txn' = [txn EXCEPT ![t].state = "deleted"]

-----------------------------------------------------------------------------
Init ==
    /\ debt = [d \in Debts |-> NoDebt]
    /\ txn  = [t \in Transactions |-> NoTxn]
    /\ link = [t \in Transactions |-> NoLink]

\* The debts a new transaction is shared into, with their principals.
Shares == UNION {[D -> Principals] : D \in SUBSET Debts}

CreateBy(u) ==
    \E a \in Accounts :
      \/ \E d \in Debts, p \in Principals, o \in Transactions \cup {None} :
            CreateDebt(u, a, d, p, o)
      \/ \E t \in Transactions, share \in Shares :
            CreateTransaction(u, a, t, share)

CreateNext == \E u \in Users : CreateBy(u)

UpdateNext ==
    \E u \in Users, d \in Debts :
      \/ \E s \in Statuses : UpdateDebt(u, d, s)
      \/ DeleteDebt(u, d)

PaymentNext ==
    \E u \in Users, d \in Debts, t \in Transactions :
      \/ \E pay \in Payments : AddPayment(u, d, t, pay)
      \/ \E a \in Accounts, pay \in AmountPayments : Repay(u, a, d, t, pay)

DeleteNext == \E u \in Users, t \in Transactions : DeleteTransaction(u, t)

Next == CreateNext \/ UpdateNext \/ PaymentNext \/ DeleteNext

Spec == Init /\ [][Next]_vars

-----------------------------------------------------------------------------
(* Properties *)

\* The tables hold rows the schema accepts: the types of the columns, the
\* CHECK constraints and the enum of debts.
TypeOK ==
    /\ debt \in [Debts -> DebtRow]
    /\ \A d \in Debts : RowAccepted(debt[d])
    /\ txn \in [Transactions -> TxnRow]
    /\ link \in [Transactions -> LinkRow]

PaymentsOf(d) == {t \in Transactions : link[t].debt = d}

\* What the links say was paid towards d.
Paid(d) == MapThenSumSet(LAMBDA t : link[t].principal, PaymentsOf(d))
PaidInterest(d) == MapThenSumSet(LAMBDA t : link[t].interest, PaymentsOf(d))

\* The books balance: what a live debt still owes (outstanding_principal) and
\* what its payment links say was paid make up its principal, and its accrued
\* interest is what links of negative interest added to it, through every order
\* of payments, deletions of payments, edits and re-payments.
Conservation ==
    \A d \in Debts : debt[d].state = "live" =>
        /\ debt[d].outstanding + Paid(d) = debt[d].principal
        /\ debt[d].accrued + PaidInterest(d) = 0

\* With request amounts finer than a cent the two sides are rounded apart,
\* but never against the lender: AddPaymentTx never understates what is owed.
NeverUnderstated ==
    \A d \in Debts : debt[d].state = "live" =>
        debt[d].outstanding + Paid(d) >= debt[d].principal

\* No debt is ever closed: the row of a payment that leaves nothing to pay has the
\* status 'paid', which the debt_status enum lacks, and so has an update that says
\* a debt is paid.
NeverClosed == \A d \in Debts : ~debt[d].closed

\* A payment that is recorded leaves something to pay (AddPaymentTx).
NeverPaidOff ==
    [][\A d \in Debts, t \in Transactions :
         link[t].debt # d /\ link'[t].debt = d =>
           debt'[d].outstanding > 0 \/ debt'[d].accrued > 0]_vars

\* Whoever deletes a transaction keeps nothing that hangs on it: none of their
\* payment links stays on it and no debt of theirs that it originated stays live
\* (TransactionService.Delete).
DeletionCleansUp ==
    [][\A u \in Users, t \in Transactions :
         DeleteTransaction(u, t) =>
           \A d \in Debts : debt'[d].user = u =>
             /\ link'[t].debt # d
             /\ debt'[d].origin = t => debt'[d].state # "live"]_vars

\* Requests that arrive late cannot revive or change a debt that was deleted.
DeletedDebtsFrozen ==
    [][\A d \in Debts : debt[d].state = "deleted" => debt'[d] = debt[d]]_vars

\* The comment on CleanupTransactionLinksTx: all debts and payment links of a
\* transaction go when it is deleted.  They do not when the account is shared
\* and the debt belongs to another user of it.
DeletionRemovesEveryLink ==
    [][\A t \in Transactions :
         txn[t].state = "posted" /\ txn'[t].state = "deleted" =>
           link'[t].debt = None]_vars

\* The comment on AddPaymentTx: when everything has been paid the status
\* becomes 'paid'.  The row such a payment computes must then be storable.
FullPaymentStorable ==
    \A d \in Debts : debt[d].state = "live" =>
        LET payoff == [mode |-> "split",
                       amount |-> debt[d].outstanding * Subunits,
                       interest |-> debt[d].accrued * Subunits]
        IN  RowAccepted(AfterPayment(debt[d], payoff))
=============================================================================
