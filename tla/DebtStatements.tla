---------------------------- MODULE DebtStatements ----------------------------
(***************************************************************************)
(* The handlers of DebtLedger executed statement by statement, by several  *)
(* requests at once.                                                       *)
(*                                                                         *)
(* PostgreSQL runs each transaction at READ COMMITTED: a statement sees    *)
(* the committed rows and its own transaction's writes; an UPDATE or       *)
(* DELETE waits for a row another open transaction has written and then    *)
(* works on the row's latest version; an INSERT waits for the fate of a    *)
(* conflicting key.  Nothing in the code selects rows FOR UPDATE, so what  *)
(* a handler read before an UPDATE may be stale when the UPDATE runs.      *)
(*                                                                         *)
(* The tables of DebtLedger hold the committed rows.  What an open         *)
(* transaction has written and not committed is in its overlay; the rows   *)
(* of its overlay are the rows it has locked.                              *)
(***************************************************************************)
EXTENDS DebtLedger

CONSTANTS
    Slots,      \* requests the server executes at the same time
    Ops,        \* the kinds of request clients send
    Overlap     \* which requests of one user may be in flight together

\* "none": a user's client sends one request at a time, and no two users
\* delete the same transaction at once.
\* "harmless": besides, the pairs of requests Harmless describes may overlap.
\* "any": no restriction; the server enforces none.
ASSUME OverlapAssumption ==
    /\ Overlap \in {"none", "harmless", "any"}
    /\ Ops \subseteq {"repay", "pay", "update", "drop", "delete"}

VARIABLES
    pc,     \* the statement each slot executes next
    req,    \* the request each slot serves
    mem,    \* the rows the handler has read and holds in memory
    own     \* the overlay of the slot's transaction: its uncommitted writes

allVars == <<debt, txn, link, pc, req, mem, own>>

-----------------------------------------------------------------------------
(* Requests *)

Request(op, u, a, d, t, pay, s) ==
    [op |-> op, user |-> u, account |-> a, debt |-> d, txn |-> t, pay |-> pay,
     status |-> s]

NoPay == [mode |-> "split", amount |-> 0, interest |-> 0]

RepayRequests == {Request("repay", u, a, d, t, p, "none") : u \in Users,
    a \in Accounts, d \in Debts, t \in Transactions, p \in AmountPayments}
PayRequests == {Request("pay", u, None, d, t, p, "none") : u \in Users,
    d \in Debts, t \in Transactions, p \in Payments}
UpdateRequests == {Request("update", u, None, d, None, NoPay, s) : u \in Users,
    d \in Debts, s \in Statuses}
DropRequests == {Request("drop", u, None, d, None, NoPay, "none") :
    u \in Users, d \in Debts}
DeleteRequests == {Request("delete", u, None, None, t, NoPay, "none") :
    u \in Users, t \in Transactions}

Requests ==
    {q \in RepayRequests \cup PayRequests \cup UpdateRequests
           \cup DropRequests \cup DeleteRequests : q.op \in Ops}

NoRequest == Request("none", None, None, None, None, NoPay, "none")

FirstStatement == [repay |-> "repay_get", pay |-> "pay_get",
                   update |-> "update_get", drop |-> "drop",
                   delete |-> "delete_list"]

InFlight == {r \in Slots : pc[r] # "idle"}

SameDelete(q1, q2) ==
    q1.op = "delete" /\ q2.op = "delete" /\ q1.txn = q2.txn

\* Two requests of one user that leave the books right in every interleaving:
\* a delete sent twice, two edits, or anything next to the deletion of a debt.
Harmless(q1, q2) ==
    \/ SameDelete(q1, q2)
    \/ q1.op = "update" /\ q2.op = "update"
    \/ "drop" \in {q1.op, q2.op}

MayOverlap(q1, q2) ==
    \/ q1.user # q2.user /\ ~SameDelete(q1, q2)
    \/ Overlap = "harmless" /\ Harmless(q1, q2)
    \/ Overlap = "any"

\* The id utils.NewID() will give to the ledger row of a repayment in flight.
Reserved == {req[r].txn : r \in {s \in InFlight : req[s].op = "repay"}}

-----------------------------------------------------------------------------
(* What a slot sees and what it waits for *)

NoWrites == [debt |-> <<>>, txn |-> <<>>, link |-> <<>>]

One(x, row) == [y \in {x} |-> row]

\* The rows f with the writes w over them.
Over(w, f) ==
    [x \in DOMAIN w \cup DOMAIN f |-> IF x \in DOMAIN w THEN w[x] ELSE f[x]]

Seen(r) == [debt |-> Over(own[r].debt, debt),
            txn  |-> Over(own[r].txn, txn),
            link |-> Over(own[r].link, link)]

\* The WHERE clauses on debts: the caller's row, not deleted.
SeesDebt(r, d) ==
    Seen(r).debt[d].state = "live" /\ Seen(r).debt[d].user = req[r].user

DebtHolders(r, d) == {q \in Slots \ {r} : d \in DOMAIN own[q].debt}
TxnHolders(r, t)  == {q \in Slots \ {r} : t \in DOMAIN own[q].txn}
LinkHolders(r, t) == {q \in Slots \ {r} : t \in DOMAIN own[q].link}

\* The debts DeleteDebtsByOriginatingTransactionTx matches.
Originated(r) ==
    {d \in Debts : SeesDebt(r, d) /\ Seen(r).debt[d].origin = req[r].txn}

\* The slots whose locks the next statement of r has to wait for.
WaitsFor(r) ==
    LET d == req[r].debt
        t == req[r].txn
    IN  CASE pc[r] \in {"pay_update", "update_set", "drop"} -> DebtHolders(r, d)
          [] pc[r] = "pay_link" -> LinkHolders(r, t)
          [] pc[r] = "delete_refund" -> DebtHolders(r, mem[r].link.debt)
          [] pc[r] = "delete_links" /\ link[t] # NoLink -> LinkHolders(r, t)
          [] pc[r] = "delete_debts" ->
                UNION {DebtHolders(r, o) : o \in Originated(r)}
          [] pc[r] = "delete_set" -> TxnHolders(r, t)
          [] OTHER -> {}

\* The slots in a circle of waits.
Deadlocked(r) ==
    \E C \in SUBSET InFlight :
        r \in C /\ \A q \in C : WaitsFor(q) \cap C # {}

-----------------------------------------------------------------------------
(* Statements and transactions *)

Goto(r, l) == pc' = [pc EXCEPT ![r] = l]

\* The slot is free again, its transaction and its locks are gone.
Release(r) ==
    /\ pc' = [pc EXCEPT ![r] = "idle"]
    /\ req' = [req EXCEPT ![r] = NoRequest]
    /\ mem' = [mem EXCEPT ![r] = [debt |-> NoDebt, link |-> NoLink]]
    /\ own' = [own EXCEPT ![r] = NoWrites]

\* Fault: the error is returned without a rollback, the transaction stays open.
FailLeavingOpen(r) ==
    /\ pc' = [pc EXCEPT ![r] = "idle"]
    /\ req' = [req EXCEPT ![r] = NoRequest]
    /\ UNCHANGED <<mem, own, vars>>

\* A statement failed or found nothing: the handler returns the error and
\* WithTx rolls back.
Fail(r) == Release(r) /\ UNCHANGED vars

\* tx.Commit at the end of WithTx: the overlay becomes the committed rows.
Commit(r) ==
    /\ pc[r] = "commit"
    /\ debt' = Seen(r).debt
    /\ txn' = Seen(r).txn
    /\ link' = Seen(r).link
    /\ Release(r)

\* GetDebtTx: the row is read into memory, or the handler fails.
ReadDebt(r, d, next) ==
    IF SeesDebt(r, d)
    THEN /\ mem' = [mem EXCEPT ![r].debt = Seen(r).debt[d]]
         /\ Goto(r, next)
         /\ UNCHANGED <<req, own, vars>>
    ELSE Fail(r)

\* A check by SELECT that decides whether the handler goes on.
Check(r, ok, next) ==
    IF ok THEN Goto(r, next) /\ UNCHANGED <<req, mem, own, vars>>
          ELSE Fail(r)

\* A write of the transaction: w replaces its overlay.
Write(r, w, next) ==
    /\ own' = [own EXCEPT ![r] = w]
    /\ Goto(r, next)
    /\ UNCHANGED <<req, mem, vars>>

\* Fault: the table has no constraints.
StoreDebtUnchecked(r, d, new, next) ==
    IF SeesDebt(r, d)
    THEN Write(r, [own[r] EXCEPT !.debt = Over(One(d, [new EXCEPT
            !.state = "live", !.user = req[r].user]), @)], next)
    ELSE Goto(r, next) /\ UNCHANGED <<req, mem, own, vars>>

\* Fault: the UPDATE does not ask for deleted_at IS NULL.
StoreDebtDeleted(r, d, new, next) ==
    LET cur == Seen(r).debt[d] IN
    IF RowAccepted(new)
    THEN Write(r, [own[r] EXCEPT !.debt = Over(One(d, [new EXCEPT
            !.state = cur.state]), @)], next)
    ELSE Fail(r)

\* UpdateDebtTx and the UPDATE of CreatePaymentLinkTx: absolute values taken
\* from memory, for a row that is still live, if the constraints accept them.
StoreDebt(r, d, new, next) ==
    LET cur == Seen(r).debt[d]
        set == [cur EXCEPT !.principal = new.principal,
                           !.outstanding = new.outstanding,
                           !.accrued = new.accrued,
                           !.status = new.status,
                           !.closed = new.closed]
    IN  IF ~SeesDebt(r, d)
        THEN Goto(r, next) /\ UNCHANGED <<req, mem, own, vars>>
        ELSE IF RowAccepted(new)
        THEN Write(r, [own[r] EXCEPT !.debt = Over(One(d, set), @)], next)
        ELSE Fail(r)

-----------------------------------------------------------------------------
(* DebtService.Repay up to its call of AddPaymentTx *)

RepayGet(r) ==
    /\ pc[r] = "repay_get"
    /\ Check(r, SeesDebt(r, req[r].debt), "repay_txn")

\* CreateTransactionTx: nobody else can see or lock the new rows.
RepayTxn(r) ==
    /\ pc[r] = "repay_txn"
    /\ IF Writer(req[r].user, req[r].account) /\ RoundCents(req[r].pay.amount) > 0
       THEN Write(r, [own[r] EXCEPT !.txn = One(req[r].txn,
                [state |-> "posted", account |-> req[r].account])], "pay_get")
       ELSE Fail(r)

(* DebtService.AddPaymentTx and DebtRepo.CreatePaymentLinkTx *)

PayGet(r) ==
    /\ pc[r] = "pay_get"
    /\ ReadDebt(r, req[r].debt, "pay_verify")

PayVerify(r) ==
    /\ pc[r] = "pay_verify"
    /\ Check(r, SeesDebt(r, req[r].debt), "pay_link")

\* The INSERT fails on a missing transaction or a taken transaction_id.
PayLink(r) ==
    LET t == req[r].txn IN
    /\ pc[r] = "pay_link"
    /\ IF Seen(r).txn[t].state # "absent" /\ Seen(r).link[t] = NoLink
       THEN Write(r, [own[r] EXCEPT !.link = One(t,
                PaymentLink(req[r].debt, mem[r].debt, req[r].pay))], "pay_update")
       ELSE Fail(r)

PayUpdate(r) ==
    /\ pc[r] = "pay_update"
    /\ StoreDebt(r, req[r].debt, AfterPayment(mem[r].debt, req[r].pay),
                 "pay_reread")

\* Fault: the payment is answered from memory.
PayRereadSkipped(r) == pc[r] = "pay_reread" /\ Check(r, TRUE, "commit")

\* GetDebtTx for the response: a debt that is gone fails the payment.
PayReread(r) ==
    /\ pc[r] = "pay_reread"
    /\ Check(r, SeesDebt(r, req[r].debt), "commit")

(* DebtService.Update: the read is outside the transaction *)

UpdateGet(r) ==
    /\ pc[r] = "update_get"
    /\ ReadDebt(r, req[r].debt, "update_set")

UpdateSet(r) ==
    /\ pc[r] = "update_set"
    /\ StoreDebt(r, req[r].debt, AfterUpdate(mem[r].debt, req[r].status),
                 "commit")

(* DebtService.Delete: one statement, committed at once, for a debt deleted     *)
(* before too                                                                    *)

Drop(r) ==
    LET d == req[r].debt IN
    /\ pc[r] = "drop"
    /\ debt' = IF debt[d].user = req[r].user
               THEN [debt EXCEPT ![d].state = "deleted"] ELSE debt
    /\ UNCHANGED <<txn, link>>
    /\ Release(r)

(* TransactionService.Delete *)

\* ListPaymentLinksByTransactionTx joins the caller's live debts.
DeleteList(r) ==
    LET l == Seen(r).link[req[r].txn] IN
    /\ pc[r] = "delete_list"
    /\ IF l # NoLink /\ SeesDebt(r, l.debt)
       THEN mem' = [mem EXCEPT ![r].link = l] /\ Goto(r, "delete_get")
       ELSE mem' = mem /\ Goto(r, "delete_links")
    /\ UNCHANGED <<req, own, vars>>

DeleteGet(r) ==
    /\ pc[r] = "delete_get"
    /\ ReadDebt(r, mem[r].link.debt, "delete_refund")

DeleteRefund(r) ==
    /\ pc[r] = "delete_refund"
    /\ StoreDebt(r, mem[r].link.debt, AfterRefund(mem[r].debt, mem[r].link),
                 "delete_links")

\* Fault: the DELETE does not ask whose debt the link pays.
DeleteLinksOfAll(r) ==
    /\ pc[r] = "delete_links"
    /\ Write(r, [own[r] EXCEPT !.link = One(req[r].txn, NoLink)], "delete_debts")

\* DeletePaymentLinksByTransactionTx joins the caller's debts, live or not.
DeleteLinks(r) ==
    LET t == req[r].txn
        l == Seen(r).link[t]
    IN  /\ pc[r] = "delete_links"
        /\ IF l # NoLink /\ Seen(r).debt[l.debt].user = req[r].user
           THEN Write(r, [own[r] EXCEPT !.link = One(t, NoLink)], "delete_debts")
           ELSE Goto(r, "delete_debts") /\ UNCHANGED <<req, mem, own, vars>>

DeleteDebts(r) ==
    /\ pc[r] = "delete_debts"
    /\ Write(r, [own[r] EXCEPT !.debt =
            Over([d \in Originated(r) |->
                     [Seen(r).debt[d] EXCEPT !.state = "deleted"]], @)],
         "delete_check")

\* Fault: getTransaction does not ask for deleted_at IS NULL.
DeleteCheckAny(r) ==
    /\ pc[r] = "delete_check"
    /\ Check(r, Member(req[r].user, Seen(r).txn[req[r].txn].account),
             "delete_set")

\* getTransaction: the row is live and the caller has access to its account.
DeleteCheck(r) ==
    LET row == Seen(r).txn[req[r].txn] IN
    /\ pc[r] = "delete_check"
    /\ Check(r, row.state = "posted" /\ Member(req[r].user, row.account),
             "delete_set")

DeleteSet(r) ==
    LET t == req[r].txn IN
    /\ pc[r] = "delete_set"
    /\ Write(r, [own[r] EXCEPT !.txn =
            One(t, [Seen(r).txn[t] EXCEPT !.state = "deleted"])], "commit")

-----------------------------------------------------------------------------
(* The server *)

\* A request arrives at a free slot.
Begin(r) ==
    /\ pc[r] = "idle"
    /\ \E q \in Requests :
         /\ \A s \in InFlight : MayOverlap(req[s], q)
         /\ q.op = "repay" =>
                txn[q.txn].state = "absent" /\ q.txn \notin Reserved
         /\ req' = [req EXCEPT ![r] = q]
         /\ Goto(r, FirstStatement[q.op])
    /\ UNCHANGED <<mem, own, vars>>

Statement(r) ==
    /\ WaitsFor(r) = {}
    /\ \/ RepayGet(r) \/ RepayTxn(r)
       \/ PayGet(r) \/ PayVerify(r) \/ PayLink(r) \/ PayUpdate(r) \/ PayReread(r)
       \/ UpdateGet(r) \/ UpdateSet(r) \/ Drop(r)
       \/ DeleteList(r) \/ DeleteGet(r) \/ DeleteRefund(r) \/ DeleteLinks(r)
       \/ DeleteDebts(r) \/ DeleteCheck(r) \/ DeleteSet(r)
       \/ Commit(r)

\* The client goes away, the server or the connection dies: the request's
\* context is cancelled and PostgreSQL rolls the transaction back.
Abort(r) == r \in InFlight /\ Fail(r)

\* PostgreSQL breaks a circle of waits by failing one of its transactions.
BreakDeadlock(r) == Deadlocked(r) /\ Fail(r)

\* Inserting new rows concerns no other transaction until they are committed,
\* so the handlers that only insert stay single steps.
Create(u) ==
    /\ CreateBy(u)
    /\ Overlap = "any" \/ \A r \in InFlight : req[r].user # u
    /\ \A t \in Reserved : txn'[t] = txn[t]
    /\ UNCHANGED <<pc, req, mem, own>>

AllIdle ==
    /\ pc = [r \in Slots |-> "idle"]
    /\ req = [r \in Slots |-> NoRequest]
    /\ mem = [r \in Slots |-> [debt |-> NoDebt, link |-> NoLink]]
    /\ own = [r \in Slots |-> NoWrites]

StmtInit == Init /\ AllIdle

StmtNext ==
    \/ \E u \in Users : Create(u)
    \/ \E r \in Slots : Begin(r) \/ Statement(r) \/ Abort(r) \/ BreakDeadlock(r)

StmtSpec == StmtInit /\ [][StmtNext]_allVars

\* The goroutine of a request keeps running, PostgreSQL grants a lock to its
\* waiters in turn (hence strong fairness) and its deadlock detector runs.
\* No request is obliged to arrive and none to be cut off.
Fairness ==
    \A r \in Slots : SF_allVars(Statement(r)) /\ WF_allVars(BreakDeadlock(r))

FairStmtSpec == StmtSpec /\ Fairness

-----------------------------------------------------------------------------
(* Properties *)

Locals == {"repay_get", "repay_txn", "pay_get", "pay_verify", "pay_link",
           "pay_update", "pay_reread", "update_get", "update_set", "drop",
           "delete_list", "delete_get", "delete_refund", "delete_links",
           "delete_debts", "delete_check", "delete_set", "commit", "idle"}

\* Besides the tables: where each request is, and the first-writer-wins rule
\* of PostgreSQL's row locks, which keeps two overlays from sharing a row.
StmtTypeOK ==
    /\ TypeOK
    /\ pc \in [Slots -> Locals]
    /\ \A r \in Slots : /\ req[r] \in Requests \cup {NoRequest}
                        /\ mem[r].debt \in DebtRow
                        /\ mem[r].link \in LinkRow
                        /\ Seen(r).debt \in [Debts -> DebtRow]
                        /\ Seen(r).txn \in [Transactions -> TxnRow]
                        /\ Seen(r).link \in [Transactions -> LinkRow]
    /\ \A r, q \in Slots : r # q =>
          /\ DOMAIN own[r].debt \cap DOMAIN own[q].debt = {}
          /\ DOMAIN own[r].txn \cap DOMAIN own[q].txn = {}
          /\ DOMAIN own[r].link \cap DOMAIN own[q].link = {}

\* Every interleaving of the statements of requests of different users has
\* the effect of the requests executed one at a time, each at its commit.
ImplementsLedger == Spec

\* A payment never lands on a debt that has been deleted in the meantime: a
\* debt is live when a payment link to it is committed.  AddPaymentTx relies on
\* reading the debt again after its UPDATE, which reports nothing when the
\* debt is gone, and on the UPDATE's row lock to keep it there until COMMIT.
PaymentsLandOnLiveDebts ==
    [][\A t \in Transactions :
         link'[t] # link[t] /\ link'[t] # NoLink =>
            debt'[link'[t].debt].state = "live"]_allVars

\* Every request is answered, whatever it has to wait for.
EveryRequestEnds == \A r \in Slots : pc[r] # "idle" ~> pc[r] = "idle"
=============================================================================
