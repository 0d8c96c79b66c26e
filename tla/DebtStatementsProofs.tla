------------------------- MODULE DebtStatementsProofs -------------------------
(***************************************************************************)
(* Proofs about DebtStatements, for any users, accounts, ids, amounts,     *)
(* slots and kinds of request.                                             *)
(***************************************************************************)
EXTENDS DebtStatements, DebtLedgerProofs

-----------------------------------------------------------------------------
(* Overlays *)

Overlays(S, R) == UNION {[D -> R] : D \in SUBSET S}

LEMMA OverRows ==
    ASSUME NEW S, NEW R, NEW w \in Overlays(S, R), NEW f \in [S -> R]
    PROVE  /\ Over(w, f) \in [S -> R]
           /\ \A x \in S : Over(w, f)[x] = IF x \in DOMAIN w THEN w[x] ELSE f[x]
  BY DEF Over, Overlays

LEMMA NoRows ==
    ASSUME NEW S, NEW R
    PROVE  <<>> \in Overlays(S, R) /\ DOMAIN <<>> = {}
<1>1. DOMAIN <<>> = {} /\ <<>> \in [{} -> R]
  OBVIOUS
<1> QED
  BY <1>1 DEF Overlays

LEMMA OverlayRows ==
    ASSUME NEW S, NEW R, NEW w \in Overlays(S, R)
    PROVE  DOMAIN w \subseteq S /\ \A x \in DOMAIN w : w[x] \in R
  BY DEF Overlays

-----------------------------------------------------------------------------
(* What the statements of a request go by *)

StoredRow == {row \in DebtRow : RowAccepted(row)}

StoredLink == {l \in LinkRow : l = NoLink \/ l.debt \in Debts}

Memory == [debt : StoredRow, link : StoredLink]

Writes == [debt : Overlays(Debts, StoredRow),
           txn : Overlays(Transactions, TxnRow),
           link : Overlays(Transactions, StoredLink)]

\* The tables, and the shape of what requests keep.
Contents ==
    /\ debt \in [Debts -> StoredRow]
    /\ \A d \in Debts : debt[d].state = "absent" => debt[d].user = None
    /\ txn \in [Transactions -> TxnRow]
    /\ link \in [Transactions -> StoredLink]
    /\ pc \in [Slots -> Locals]
    /\ req \in [Slots -> Requests \cup {NoRequest}]
    /\ mem \in [Slots -> Memory]
    /\ own \in [Slots -> Writes]

Paying(q) == q.op \in {"repay", "pay"}

OpsAt(l) ==
    CASE l = "idle" -> {"none"}
      [] l \in {"repay_get", "repay_txn"} -> {"repay"}
      [] l \in {"pay_get", "pay_verify", "pay_link", "pay_update", "pay_reread"} ->
             {"repay", "pay"}
      [] l \in {"update_get", "update_set"} -> {"update"}
      [] l = "drop" -> {"drop"}
      [] l = "commit" -> {"repay", "pay", "update", "delete"}
      [] OTHER -> {"delete"}

\* The debts, transactions and links a request q has written when its next
\* statement is l.
DebtsAt(l, q) ==
    IF \/ Paying(q) /\ l \in {"pay_reread", "commit"}
       \/ q.op = "update" /\ l = "commit"
    THEN {q.debt}
    ELSE IF \/ l \in {"delete_links", "delete_debts", "delete_check", "delete_set"}
            \/ q.op = "delete" /\ l = "commit"
    THEN Debts ELSE {}

TxnsAt(l, q) ==
    IF \/ q.op = "repay" /\ l \notin {"repay_get", "repay_txn"}
       \/ q.op = "delete" /\ l = "commit"
    THEN {q.txn} ELSE {}

LinksAt(l, q) ==
    IF \/ Paying(q) /\ l \in {"pay_update", "pay_reread", "commit"}
       \/ /\ q.op = "delete"
          /\ l \in {"delete_debts", "delete_check", "delete_set", "commit"}
    THEN {q.txn} ELSE {}

Fits(l, q, m, w) ==
    /\ q.op \in OpsAt(l)
    /\ DOMAIN w.debt \subseteq DebtsAt(l, q)
    /\ DOMAIN w.txn = TxnsAt(l, q)
    /\ DOMAIN w.link \subseteq LinksAt(l, q)
    /\ \A d \in DOMAIN w.debt :
           /\ w.debt[d].user = q.user
           /\ \/ w.debt[d].state = "live"
              \/ q.op = "delete" /\ w.debt[d].state = "deleted"
    /\ \A t \in DOMAIN w.txn :
           w.txn[t].state = IF q.op = "repay" THEN "posted" ELSE "deleted"
    /\ Paying(q) => DOMAIN w.link = LinksAt(l, q)
    /\ \A t \in DOMAIN w.link :
           IF Paying(q) THEN w.link[t].debt = q.debt ELSE w.link[t] = NoLink
    /\ l \in {"delete_get", "delete_refund"} => m.link.debt \in Debts

\* What the tables say about the request.
Holds(l, q, w) ==
    /\ \A d \in DOMAIN w.debt : debt[d].state = "live" /\ debt[d].user = q.user
    /\ q.op = "repay" => txn[q.txn].state = "absent"
    /\ q.op = "delete" /\ l \in {"delete_set", "commit"} => txn[q.txn].state # "absent"
    /\ Paying(q) /\ l \in {"pay_verify", "pay_link", "pay_update", "pay_reread", "commit"} =>
           debt[q.debt].state # "absent" /\ debt[q.debt].user = q.user
    /\ l = "pay_reread" => q.debt \in DOMAIN w.debt \/ debt[q.debt].state = "deleted"
    /\ Paying(q) /\ l = "commit" => q.debt \in DOMAIN w.debt

\* What two requests keep apart.
Apart(q1, w1, q2, w2) ==
    /\ DOMAIN w1.debt \cap DOMAIN w2.debt = {}
    /\ DOMAIN w1.txn \cap DOMAIN w2.txn = {}
    /\ DOMAIN w1.link \cap DOMAIN w2.link = {}
    /\ q1.op = "repay" /\ q2.op = "repay" => q1.txn # q2.txn

Typed ==
    /\ Contents
    /\ \A r \in Slots : Fits(pc[r], req[r], mem[r], own[r])
    /\ \A r \in Slots : Holds(pc[r], req[r], own[r])
    /\ \A r, q \in Slots : r # q => Apart(req[r], own[r], req[q], own[q])

\* What requests carry.
LEMMA RequestFields ==
    ASSUME NEW q \in Requests
    PROVE  /\ q.op \in {"repay", "pay", "update", "drop", "delete"}
           /\ q.user \in Users
           /\ q.op \in {"repay", "pay", "update", "drop"} => q.debt \in Debts
           /\ q.op \in {"repay", "pay", "delete"} => q.txn \in Transactions
           /\ q.op = "repay" => q.account \in Accounts /\ q.pay \in AmountPayments
           /\ q.op = "pay" => q.pay \in Payments
           /\ q.op = "update" => q.status \in Statuses
<1>1. CASE q \in RepayRequests
  BY <1>1 DEF RepayRequests, Request
<1>2. CASE q \in PayRequests
  BY <1>2 DEF PayRequests, Request
<1>3. CASE q \in UpdateRequests
  BY <1>3 DEF UpdateRequests, Request
<1>4. CASE q \in DropRequests
  BY <1>4 DEF DropRequests, Request
<1>5. CASE q \in DeleteRequests
  BY <1>5 DEF DeleteRequests, Request
<1> QED
  BY <1>1, <1>2, <1>3, <1>4, <1>5 DEF Requests

LEMMA OpOfNone == NoRequest.op = "none" /\ NoRequest.user = None
  BY DEF NoRequest, Request

\* The request of a slot at work.
LEMMA AtWork ==
    ASSUME Typed, NEW r \in Slots, pc[r] # "idle"
    PROVE  /\ req[r] \in Requests /\ req[r].user \in Users
           /\ req[r].op \in OpsAt(pc[r])
           /\ req[r].op \in {"repay", "pay", "update", "drop"} => req[r].debt \in Debts
           /\ req[r].op \in {"repay", "pay", "delete"} => req[r].txn \in Transactions
           /\ Paying(req[r]) => req[r].pay \in AnyPayment
           /\ req[r].op = "repay" => req[r].account \in Accounts
           /\ req[r].op = "update" => req[r].status \in AppStatus \cup DbStatus
<1>1. req[r].op \in OpsAt(pc[r]) /\ pc[r] \in Locals
  BY DEF Typed, Fits, Contents
<1>2. req[r].op # "none"
  BY <1>1 DEF OpsAt, Locals
<1>3. req[r] \in Requests
  BY <1>2, OpOfNone DEF Typed, Contents
<1>4. Payments \subseteq AnyPayment /\ AmountPayments \subseteq AnyPayment
  BY DEF Payments, AnyPayment
<1>5. Statuses \subseteq AppStatus \cup DbStatus
  BY ConstantsAssumption
<1> QED
  BY <1>1, <1>3, <1>4, <1>5, RequestFields DEF Paying
-----------------------------------------------------------------------------
(* What statements see *)

Debt(r, d) == IF d \in DOMAIN own[r].debt THEN own[r].debt[d] ELSE debt[d]
Txn(r, t) == IF t \in DOMAIN own[r].txn THEN own[r].txn[t] ELSE txn[t]
Link(r, t) == IF t \in DOMAIN own[r].link THEN own[r].link[t] ELSE link[t]

LEMMA SeenRows ==
    ASSUME Contents, NEW r \in Slots
    PROVE  /\ Seen(r).debt \in [Debts -> StoredRow]
           /\ \A d \in Debts : Seen(r).debt[d] = Debt(r, d)
           /\ Seen(r).txn \in [Transactions -> TxnRow]
           /\ \A t \in Transactions : Seen(r).txn[t] = Txn(r, t)
           /\ Seen(r).link \in [Transactions -> StoredLink]
           /\ \A t \in Transactions : Seen(r).link[t] = Link(r, t)
<1>1. /\ own[r].debt \in Overlays(Debts, StoredRow)
      /\ own[r].txn \in Overlays(Transactions, TxnRow)
      /\ own[r].link \in Overlays(Transactions, StoredLink)
  BY DEF Contents, Writes
<1>2. /\ Seen(r).debt = Over(own[r].debt, debt)
      /\ Seen(r).txn = Over(own[r].txn, txn)
      /\ Seen(r).link = Over(own[r].link, link)
  BY DEF Seen
<1>3. /\ debt \in [Debts -> StoredRow]
      /\ txn \in [Transactions -> TxnRow]
      /\ link \in [Transactions -> StoredLink]
  BY DEF Contents
<1>4. /\ Over(own[r].debt, debt) \in [Debts -> StoredRow]
      /\ \A d \in Debts : Over(own[r].debt, debt)[d] = Debt(r, d)
  BY <1>1, <1>3, OverRows DEF Debt
<1>5. /\ Over(own[r].txn, txn) \in [Transactions -> TxnRow]
      /\ \A t \in Transactions : Over(own[r].txn, txn)[t] = Txn(r, t)
  BY <1>1, <1>3, OverRows DEF Txn
<1>6. /\ Over(own[r].link, link) \in [Transactions -> StoredLink]
      /\ \A t \in Transactions : Over(own[r].link, link)[t] = Link(r, t)
  BY <1>1, <1>3, OverRows DEF Link
<1> QED
  BY <1>2, <1>4, <1>5, <1>6

LEMMA StoredRows ==
    ASSUME NEW row \in StoredRow
    PROVE  Row(row) /\ row \in DebtRow
  BY DEF StoredRow, Row

LEMMA BlankRows ==
    /\ NoDebt \in StoredRow /\ NoLink \in StoredLink /\ NoTxn \in TxnRow
    /\ [debt |-> NoDebt, link |-> NoLink] \in Memory
    /\ NoWrites \in Writes
    /\ DOMAIN NoWrites.debt = {} /\ DOMAIN NoWrites.txn = {} /\ DOMAIN NoWrites.link = {}
<1>1. NoDebt \in StoredRow
  BY DEF StoredRow, NoDebt, DebtRow, RowAccepted, AppStatus, DbStatus
<1>2. NoLink \in StoredLink /\ NoTxn \in TxnRow
  BY DEF StoredLink, NoLink, LinkRow, NoTxn, TxnRow
<1>3. NoWrites.debt = <<>> /\ NoWrites.txn = <<>> /\ NoWrites.link = <<>>
  BY DEF NoWrites
<1>4. NoWrites \in Writes
  BY NoRows DEF Writes, NoWrites
<1> QED
  BY <1>1, <1>2, <1>3, <1>4, NoRows DEF Memory

-----------------------------------------------------------------------------
(* Steps of one slot *)

\* A slot's step that leaves the tables alone has only to show what becomes of
\* the slot itself.
LEMMA SlotStep ==
    ASSUME Typed, NEW r \in Slots, NEW l \in Locals, NEW q \in Requests \cup {NoRequest},
           NEW m \in Memory, NEW w \in Writes,
           pc' = [pc EXCEPT ![r] = l], req' = [req EXCEPT ![r] = q],
           mem' = [mem EXCEPT ![r] = m], own' = [own EXCEPT ![r] = w], UNCHANGED vars,
           Fits(l, q, m, w), Holds(l, q, w),
           \A x \in Slots \ {r} : Apart(q, w, req[x], own[x])
    PROVE  Typed'
<1>1. Contents'
  BY DEF Typed, Contents, vars
<1>2. /\ pc'[r] = l /\ req'[r] = q /\ mem'[r] = m /\ own'[r] = w
      /\ \A x \in Slots \ {r} : /\ pc'[x] = pc[x] /\ req'[x] = req[x]
                                /\ mem'[x] = mem[x] /\ own'[x] = own[x]
  BY DEF Typed, Contents
<1>3. \A x \in Slots : Fits(pc'[x], req'[x], mem'[x], own'[x])
  BY <1>2 DEF Typed
<1>4. \A x \in Slots : Holds(pc'[x], req'[x], own'[x])
  BY <1>2 DEF Typed
<1>5. ASSUME NEW x \in Slots
      PROVE  Holds(pc[x], req[x], own[x])' <=> Holds(pc'[x], req'[x], own'[x])
  BY DEF Holds, vars
<1>6. \A q1, w1, q2, w2 : Apart(q1, w1, q2, w2) <=> Apart(q2, w2, q1, w1)
  BY DEF Apart
<1>7. \A x, y \in Slots : x # y => Apart(req'[x], own'[x], req'[y], own'[y])
  BY <1>2, <1>6 DEF Typed
<1> QED
  BY <1>1, <1>3, <1>4, <1>5, <1>7 DEF Typed

LEMMA NothingHeld ==
    ASSUME Typed, NEW r \in Slots
    PROVE  /\ Fits("idle", NoRequest, [debt |-> NoDebt, link |-> NoLink], NoWrites)
           /\ Holds("idle", NoRequest, NoWrites)
           /\ \A x \in Slots \ {r} : Apart(NoRequest, NoWrites, req[x], own[x])
  BY BlankRows, OpOfNone
     DEF Fits, Holds, Apart, DebtsAt, TxnsAt, LinksAt, OpsAt, Paying

LEMMA FailKeeps ==
    ASSUME Typed, NEW r \in Slots, Fail(r)
    PROVE  Typed'
<1> DEFINE m == [debt |-> NoDebt, link |-> NoLink]
<1>1. /\ pc' = [pc EXCEPT ![r] = "idle"] /\ req' = [req EXCEPT ![r] = NoRequest]
      /\ mem' = [mem EXCEPT ![r] = m] /\ own' = [own EXCEPT ![r] = NoWrites]
      /\ UNCHANGED vars
  BY DEF Fail, Release
<1>2. m \in Memory /\ NoWrites \in Writes /\ "idle" \in Locals
  BY BlankRows DEF Locals
<1>3. /\ Fits("idle", NoRequest, m, NoWrites) /\ Holds("idle", NoRequest, NoWrites)
      /\ \A x \in Slots \ {r} : Apart(NoRequest, NoWrites, req[x], own[x])
  BY NothingHeld
<1> HIDE DEF m
<1> QED
  BY <1>1, <1>2, <1>3, SlotStep

LEMMA BeginKeeps ==
    ASSUME Typed, NEW r \in Slots, Begin(r)
    PROVE  Typed'
<1>1. PICK q \in Requests :
        /\ q.op = "repay" => txn[q.txn].state = "absent" /\ q.txn \notin Reserved
        /\ req' = [req EXCEPT ![r] = q]
        /\ Goto(r, FirstStatement[q.op])
  BY DEF Begin
<1> DEFINE l == FirstStatement[q.op]
<1>2. pc[r] = "idle" /\ UNCHANGED <<mem, own, vars>>
  BY DEF Begin
<1>3. q.op \in {"repay", "pay", "update", "drop", "delete"}
  BY RequestFields
<1>4. /\ l \in {"repay_get", "pay_get", "update_get", "drop", "delete_list"}
      /\ q.op \in OpsAt(l)
  BY <1>3 DEF FirstStatement, OpsAt
<1>5. req[r].op = "none" /\ mem[r] \in Memory /\ own[r] \in Writes
  BY <1>2 DEF Typed, Fits, OpsAt, Contents
<1>6. DOMAIN own[r].debt = {} /\ DOMAIN own[r].txn = {} /\ DOMAIN own[r].link = {}
  <2>1. /\ DOMAIN own[r].debt \subseteq DebtsAt("idle", req[r])
        /\ DOMAIN own[r].txn = TxnsAt("idle", req[r])
        /\ DOMAIN own[r].link \subseteq LinksAt("idle", req[r])
    BY <1>2 DEF Typed, Fits
  <2> QED
    BY <2>1, <1>5 DEF DebtsAt, TxnsAt, LinksAt, Paying
<1>7. l = "repay_get" <=> q.op = "repay"
  BY <1>3 DEF FirstStatement
<1>8. Fits(l, q, mem[r], own[r])
  BY <1>3, <1>4, <1>6, <1>7 DEF Fits, DebtsAt, TxnsAt, LinksAt, Paying
<1>9. Holds(l, q, own[r])
  BY <1>1, <1>4, <1>6 DEF Holds
<1>10. \A x \in Slots \ {r} : req[x].op = "repay" => req[x].txn \in Reserved
  <2>1. \A x \in Slots : req[x].op = "repay" => x \in InFlight
    BY DEF Typed, Fits, OpsAt, InFlight
  <2> QED
    BY <2>1 DEF Reserved
<1>11. \A x \in Slots \ {r} : Apart(q, own[r], req[x], own[x])
  BY <1>1, <1>6, <1>10 DEF Apart
<1>12. /\ pc' = [pc EXCEPT ![r] = l] /\ mem' = [mem EXCEPT ![r] = mem[r]]
       /\ own' = [own EXCEPT ![r] = own[r]]
  BY <1>1, <1>2 DEF Goto, Typed, Contents
<1>13. l \in Locals
  BY <1>4 DEF Locals
<1> HIDE DEF l
<1> QED
  BY <1>1, <1>2, <1>5, <1>8, <1>9, <1>11, <1>12, <1>13, SlotStep

\* A statement that does not end the request.
LEMMA StatementStep ==
    ASSUME Typed, NEW r \in Slots, NEW l \in Locals, NEW m \in Memory, NEW w \in Writes,
           Goto(r, l), UNCHANGED <<req, vars>>,
           mem' = [mem EXCEPT ![r] = m], own' = [own EXCEPT ![r] = w],
           Fits(l, req[r], m, w), Holds(l, req[r], w),
           \A x \in Slots \ {r} : Apart(req[r], w, req[x], own[x])
    PROVE  Typed'
<1>1. req' = [req EXCEPT ![r] = req[r]] /\ req[r] \in Requests \cup {NoRequest}
  BY DEF Typed, Contents
<1>2. pc' = [pc EXCEPT ![r] = l] /\ UNCHANGED vars
  BY DEF Goto
<1> QED
  BY <1>1, <1>2, SlotStep

\* One that writes nothing.
LEMMA ReadStep ==
    ASSUME Typed, NEW r \in Slots, NEW l \in Locals, NEW m \in Memory,
           Goto(r, l), UNCHANGED <<req, own, vars>>, mem' = [mem EXCEPT ![r] = m],
           Fits(l, req[r], m, own[r]), Holds(l, req[r], own[r])
    PROVE  Typed'
<1>1. own' = [own EXCEPT ![r] = own[r]] /\ own[r] \in Writes /\ UNCHANGED <<req, vars>>
  BY DEF Typed, Contents
<1>2. \A x \in Slots \ {r} : Apart(req[r], own[r], req[x], own[x])
  BY DEF Typed
<1> QED
  BY <1>1, <1>2, StatementStep

LEMMA GoStep ==
    ASSUME Typed, NEW r \in Slots, NEW l \in Locals,
           Goto(r, l), UNCHANGED <<req, mem, own, vars>>,
           Fits(l, req[r], mem[r], own[r]), Holds(l, req[r], own[r])
    PROVE  Typed'
<1>1. mem' = [mem EXCEPT ![r] = mem[r]] /\ mem[r] \in Memory
  BY DEF Typed, Contents
<1> QED
  BY <1>1, ReadStep

\* The caller's row of a debt that is there.
LEMMA SeesRow ==
    ASSUME Typed, NEW r \in Slots, NEW d \in Debts, SeesDebt(r, d)
    PROVE  /\ Debt(r, d).state = "live" /\ Debt(r, d).user = req[r].user
           /\ Debt(r, d) \in StoredRow /\ Seen(r).debt[d] = Debt(r, d)
           /\ debt[d].state # "absent" /\ debt[d].user = req[r].user
<1>1. Seen(r).debt[d] = Debt(r, d) /\ Debt(r, d) \in StoredRow
  BY SeenRows DEF Typed
<1>2. Debt(r, d).state = "live" /\ Debt(r, d).user = req[r].user
  BY <1>1 DEF SeesDebt
<1>3. CASE d \in DOMAIN own[r].debt
  BY <1>1, <1>2, <1>3 DEF Typed, Holds
<1>4. CASE d \notin DOMAIN own[r].debt
  BY <1>1, <1>2, <1>4 DEF Debt
<1> QED
  BY <1>1, <1>2, <1>3, <1>4

LEMMA RepayGetKeeps ==
    ASSUME Typed, NEW r \in Slots, RepayGet(r)
    PROVE  Typed'
<1>1. /\ pc[r] = "repay_get"
      /\ \/ Fail(r)
         \/ Goto(r, "repay_txn") /\ UNCHANGED <<req, mem, own, vars>>
  BY DEF RepayGet, Check
<1>2. Fits("repay_get", req[r], mem[r], own[r]) /\ Holds("repay_get", req[r], own[r])
  BY <1>1 DEF Typed
<1>3. req[r].op = "repay" /\ OpsAt("repay_txn") = {"repay"}
  BY <1>2 DEF Fits, OpsAt
<1>4. /\ DebtsAt("repay_txn", req[r]) = DebtsAt("repay_get", req[r])
      /\ TxnsAt("repay_txn", req[r]) = TxnsAt("repay_get", req[r])
      /\ LinksAt("repay_txn", req[r]) = LinksAt("repay_get", req[r])
  BY <1>3 DEF DebtsAt, TxnsAt, LinksAt
<1>5. Fits("repay_txn", req[r], mem[r], own[r])
  BY <1>2, <1>3, <1>4 DEF Fits
<1>6. Holds("repay_txn", req[r], own[r])
  BY <1>2, <1>3 DEF Holds, Paying
<1> QED
  BY <1>1, <1>5, <1>6, GoStep, FailKeeps DEF Locals

LEMMA PayGetKeeps ==
    ASSUME Typed, NEW r \in Slots, PayGet(r)
    PROVE  Typed'
<1> DEFINE d == req[r].debt
<1>1. pc[r] = "pay_get" /\ ReadDebt(r, d, "pay_verify")
  BY DEF PayGet
<1>2. CASE Fail(r)
  BY <1>2, FailKeeps
<1>3. CASE /\ SeesDebt(r, d) /\ mem' = [mem EXCEPT ![r].debt = Seen(r).debt[d]]
           /\ Goto(r, "pay_verify") /\ UNCHANGED <<req, own, vars>>
  <2>1. Paying(req[r]) /\ d \in Debts
    BY <1>1, AtWork DEF OpsAt, Paying
  <2>2. /\ Seen(r).debt[d] \in StoredRow
        /\ debt[d].state # "absent" /\ debt[d].user = req[r].user
    BY <2>1, <1>3, SeesRow
  <2> DEFINE m == [mem[r] EXCEPT !.debt = Seen(r).debt[d]]
  <2>3. m \in Memory /\ mem' = [mem EXCEPT ![r] = m]
    BY <1>3, <2>2 DEF Typed, Contents, Memory
  <2>4. Fits("pay_verify", req[r], m, own[r])
    BY <1>1, <2>1 DEF Typed, Fits, OpsAt, DebtsAt, TxnsAt, LinksAt, Paying
  <2>5. Holds("pay_verify", req[r], own[r])
    BY <1>1, <2>1, <2>2 DEF Typed, Holds, Paying
  <2> HIDE DEF m
  <2> QED
    BY <1>3, <2>3, <2>4, <2>5, ReadStep DEF Locals
<1> QED
  BY <1>1, <1>2, <1>3 DEF ReadDebt

LEMMA PayVerifyKeeps ==
    ASSUME Typed, NEW r \in Slots, PayVerify(r)
    PROVE  Typed'
<1>1. /\ pc[r] = "pay_verify"
      /\ \/ Fail(r)
         \/ Goto(r, "pay_link") /\ UNCHANGED <<req, mem, own, vars>>
  BY DEF PayVerify, Check
<1>2. Fits("pay_link", req[r], mem[r], own[r]) /\ Holds("pay_link", req[r], own[r])
  BY <1>1 DEF Typed, Fits, Holds, OpsAt, DebtsAt, TxnsAt, LinksAt, Paying
<1> QED
  BY <1>1, <1>2, GoStep, FailKeeps DEF Locals

\* A debt that is still seen after the UPDATE is one the UPDATE has locked.
LEMMA PayRereadKeeps ==
    ASSUME Typed, NEW r \in Slots, PayReread(r)
    PROVE  Typed'
<1> DEFINE d == req[r].debt
<1>1. /\ pc[r] = "pay_reread"
      /\ \/ Fail(r)
         \/ SeesDebt(r, d) /\ Goto(r, "commit") /\ UNCHANGED <<req, mem, own, vars>>
  BY DEF PayReread, Check
<1>2. CASE Fail(r)
  BY <1>2, FailKeeps
<1>3. CASE SeesDebt(r, d) /\ Goto(r, "commit") /\ UNCHANGED <<req, mem, own, vars>>
  <2>1. Paying(req[r]) /\ d \in Debts
    BY <1>1, AtWork DEF OpsAt, Paying
  <2>2. Debt(r, d).state = "live"
    BY <2>1, <1>3, SeesRow
  <2>3. d \in DOMAIN own[r].debt
    BY <1>1, <2>2 DEF Debt, Typed, Holds
  <2>4. Fits("commit", req[r], mem[r], own[r])
    BY <1>1, <2>1 DEF Typed, Fits, OpsAt, DebtsAt, TxnsAt, LinksAt, Paying
  <2>5. Holds("commit", req[r], own[r])
    BY <1>1, <2>1, <2>3 DEF Typed, Holds, Paying
  <2> QED
    BY <1>3, <2>4, <2>5, GoStep DEF Locals
<1> QED
  BY <1>1, <1>2, <1>3

LEMMA UpdateGetKeeps ==
    ASSUME Typed, NEW r \in Slots, UpdateGet(r)
    PROVE  Typed'
<1> DEFINE d == req[r].debt
<1>1. pc[r] = "update_get" /\ ReadDebt(r, d, "update_set")
  BY DEF UpdateGet
<1>2. CASE Fail(r)
  BY <1>2, FailKeeps
<1>3. CASE /\ SeesDebt(r, d) /\ mem' = [mem EXCEPT ![r].debt = Seen(r).debt[d]]
           /\ Goto(r, "update_set") /\ UNCHANGED <<req, own, vars>>
  <2>1. req[r].op = "update" /\ d \in Debts
    BY <1>1, AtWork DEF OpsAt
  <2>2. Seen(r).debt[d] \in StoredRow
    BY <2>1, <1>3, SeesRow
  <2> DEFINE m == [mem[r] EXCEPT !.debt = Seen(r).debt[d]]
  <2>3. m \in Memory /\ mem' = [mem EXCEPT ![r] = m]
    BY <1>3, <2>2 DEF Typed, Contents, Memory
  <2>4. Fits("update_set", req[r], m, own[r]) /\ Holds("update_set", req[r], own[r])
    BY <1>1, <2>1 DEF Typed, Fits, Holds, OpsAt, DebtsAt, TxnsAt, LinksAt, Paying
  <2> HIDE DEF m
  <2> QED
    BY <1>3, <2>3, <2>4, ReadStep DEF Locals
<1> QED
  BY <1>1, <1>2, <1>3 DEF ReadDebt

LEMMA DeleteListKeeps ==
    ASSUME Typed, NEW r \in Slots, DeleteList(r)
    PROVE  Typed'
<1> DEFINE t == req[r].txn
           l == Seen(r).link[t]
<1>1. pc[r] = "delete_list" /\ UNCHANGED <<req, own, vars>>
  BY DEF DeleteList
<1>2. req[r].op = "delete" /\ t \in Transactions
  BY <1>1, AtWork DEF OpsAt
<1>3. l \in StoredLink
  BY <1>2, SeenRows DEF Typed
<1>4. CASE l # NoLink /\ SeesDebt(r, l.debt) /\ mem' = [mem EXCEPT ![r].link = l]
           /\ Goto(r, "delete_get")
  <2> DEFINE m == [mem[r] EXCEPT !.link = l]
  <2>1. m \in Memory /\ mem' = [mem EXCEPT ![r] = m] /\ m.link = l
    BY <1>3, <1>4 DEF Typed, Contents, Memory
  <2>2. l.debt \in Debts
    BY <1>3, <1>4 DEF StoredLink
  <2>3. Fits("delete_get", req[r], m, own[r]) /\ Holds("delete_get", req[r], own[r])
    BY <1>1, <1>2, <2>1, <2>2 DEF Typed, Fits, Holds, OpsAt, DebtsAt, TxnsAt, LinksAt, Paying
  <2> HIDE DEF m
  <2> QED
    BY <1>1, <1>4, <2>1, <2>3, ReadStep DEF Locals
<1>5. CASE mem' = mem /\ Goto(r, "delete_links")
  <2>1. Fits("delete_links", req[r], mem[r], own[r]) /\ Holds("delete_links", req[r], own[r])
    BY <1>1, <1>2 DEF Typed, Fits, Holds, OpsAt, DebtsAt, TxnsAt, LinksAt, Paying
  <2> QED
    BY <1>1, <1>5, <2>1, GoStep DEF Locals
<1> QED
  BY <1>4, <1>5 DEF DeleteList

LEMMA DeleteGetKeeps ==
    ASSUME Typed, NEW r \in Slots, DeleteGet(r)
    PROVE  Typed'
<1> DEFINE d == mem[r].link.debt
<1>1. pc[r] = "delete_get" /\ ReadDebt(r, d, "delete_refund")
  BY DEF DeleteGet
<1>2. CASE Fail(r)
  BY <1>2, FailKeeps
<1>3. CASE /\ SeesDebt(r, d) /\ mem' = [mem EXCEPT ![r].debt = Seen(r).debt[d]]
           /\ Goto(r, "delete_refund") /\ UNCHANGED <<req, own, vars>>
  <2>1. req[r].op = "delete" /\ d \in Debts
    BY <1>1, AtWork DEF OpsAt, Typed, Fits
  <2>2. Seen(r).debt[d] \in StoredRow
    BY <2>1, <1>3, SeesRow
  <2> DEFINE m == [mem[r] EXCEPT !.debt = Seen(r).debt[d]]
  <2>3. m \in Memory /\ mem' = [mem EXCEPT ![r] = m] /\ m.link.debt \in Debts
    BY <1>3, <2>1, <2>2 DEF Typed, Contents, Memory
  <2> HIDE DEF m
  <2>4. Fits("delete_refund", req[r], m, own[r]) /\ Holds("delete_refund", req[r], own[r])
    BY <1>1, <2>1, <2>3 DEF Typed, Fits, Holds, OpsAt, DebtsAt, TxnsAt, LinksAt, Paying
  <2> QED
    BY <1>3, <2>3, <2>4, ReadStep DEF Locals
<1> QED
  BY <1>1, <1>2, <1>3 DEF ReadDebt

LEMMA DeleteCheckKeeps ==
    ASSUME Typed, NEW r \in Slots, DeleteCheck(r)
    PROVE  Typed'
<1> DEFINE t == req[r].txn
<1>1. /\ pc[r] = "delete_check"
      /\ \/ Fail(r)
         \/ /\ Seen(r).txn[t].state = "posted"
            /\ Goto(r, "delete_set") /\ UNCHANGED <<req, mem, own, vars>>
  BY DEF DeleteCheck, Check
<1>2. req[r].op = "delete" /\ t \in Transactions
  BY <1>1, AtWork DEF OpsAt
<1>3. Seen(r).txn[t] = txn[t]
  BY <1>1, <1>2, SeenRows DEF Typed, Fits, TxnsAt, Txn
<1>4. Fits("delete_set", req[r], mem[r], own[r])
  BY <1>1, <1>2 DEF Typed, Fits, OpsAt, DebtsAt, TxnsAt, LinksAt, Paying
<1>5. CASE Fail(r)
  BY <1>5, FailKeeps
<1>6. CASE /\ Seen(r).txn[t].state = "posted"
           /\ Goto(r, "delete_set") /\ UNCHANGED <<req, mem, own, vars>>
  <2>1. Holds("delete_set", req[r], own[r])
    BY <1>1, <1>2, <1>3, <1>6 DEF Typed, Holds, Paying
  <2> QED
    BY <1>4, <1>6, <2>1, GoStep DEF Locals
<1> QED
  BY <1>1, <1>5, <1>6
-----------------------------------------------------------------------------
(* Statements that write *)

LEMMA OverDebts ==
    ASSUME NEW w \in Overlays(Debts, StoredRow), NEW f \in Overlays(Debts, StoredRow)
    PROVE  /\ Over(w, f) \in Overlays(Debts, StoredRow)
           /\ DOMAIN Over(w, f) = DOMAIN w \cup DOMAIN f
           /\ \A x \in DOMAIN Over(w, f) :
                  Over(w, f)[x] = IF x \in DOMAIN w THEN w[x] ELSE f[x]
<1>1. Over(w, f) \in [DOMAIN w \cup DOMAIN f -> StoredRow]
  BY DEF Over, Overlays
<1>2. DOMAIN w \cup DOMAIN f \in SUBSET Debts
  BY DEF Overlays
<1> QED
  BY <1>1, <1>2 DEF Over, Overlays

LEMMA OneDebt ==
    ASSUME NEW d \in Debts, NEW row \in StoredRow
    PROVE  /\ One(d, row) \in Overlays(Debts, StoredRow)
           /\ DOMAIN One(d, row) = {d} /\ One(d, row)[d] = row
<1>1. One(d, row) \in [{d} -> StoredRow] /\ {d} \in SUBSET Debts
  BY DEF One
<1> QED
  BY <1>1 DEF Overlays, One

LEMMA OneTxn ==
    ASSUME NEW t \in Transactions, NEW row \in TxnRow
    PROVE  /\ One(t, row) \in Overlays(Transactions, TxnRow)
           /\ DOMAIN One(t, row) = {t} /\ One(t, row)[t] = row
<1>1. One(t, row) \in [{t} -> TxnRow] /\ {t} \in SUBSET Transactions
  BY DEF One
<1> QED
  BY <1>1 DEF Overlays, One

LEMMA OneLink ==
    ASSUME NEW t \in Transactions, NEW l \in StoredLink
    PROVE  /\ One(t, l) \in Overlays(Transactions, StoredLink)
           /\ DOMAIN One(t, l) = {t} /\ One(t, l)[t] = l
<1>1. One(t, l) \in [{t} -> StoredLink] /\ {t} \in SUBSET Transactions
  BY DEF One
<1> QED
  BY <1>1 DEF Overlays, One

\* The row StoreDebt leaves of cur when it is given new.
Stored(cur, new) ==
    [cur EXCEPT !.principal = new.principal, !.outstanding = new.outstanding,
                !.accrued = new.accrued, !.status = new.status, !.closed = new.closed]

LEMMA StoredIs ==
    ASSUME NEW cur \in DebtRow, NEW new \in DebtRow, RowAccepted(new)
    PROVE  /\ Stored(cur, new) \in StoredRow
           /\ Stored(cur, new).state = cur.state /\ Stored(cur, new).user = cur.user
<1>1. /\ Stored(cur, new) \in DebtRow
      /\ Stored(cur, new).outstanding = new.outstanding
      /\ Stored(cur, new).accrued = new.accrued
      /\ Stored(cur, new).status = new.status
      /\ Stored(cur, new).state = cur.state
      /\ Stored(cur, new).user = cur.user
  BY DEF Stored, DebtRow
<1> QED
  BY <1>1 DEF StoredRow, RowAccepted

\* The writes w are the first of r to the debts, and replace d by new.
Updates(w, r, d, new) ==
    /\ DOMAIN w.debt = {d} /\ w.debt[d] = Stored(debt[d], new)
    /\ w.debt[d].state = "live" /\ w.debt[d].user = req[r].user
    /\ w.txn = own[r].txn /\ w.link = own[r].link

\* The UPDATE of a debt: the request fails, the row is not there any more, or it
\* is locked with its new contents.
LEMMA StoreDebtIs ==
    ASSUME Typed, NEW r \in Slots, NEW d \in Debts, NEW new \in DebtRow,
           NEW next \in Locals, DOMAIN own[r].debt = {}, StoreDebt(r, d, new, next)
    PROVE  \/ Fail(r)
           \/ /\ ~SeesDebt(r, d)
              /\ Goto(r, next) /\ UNCHANGED <<req, mem, own, vars>>
           \/ /\ SeesDebt(r, d) /\ RowAccepted(new)
              /\ Goto(r, next) /\ UNCHANGED <<req, mem, vars>>
              /\ \E w \in Writes : own' = [own EXCEPT ![r] = w] /\ Updates(w, r, d, new)
<1>1. CASE ~SeesDebt(r, d) \/ ~RowAccepted(new)
  BY <1>1 DEF StoreDebt
<1>2. CASE SeesDebt(r, d) /\ RowAccepted(new)
  <2> DEFINE set == Stored(Seen(r).debt[d], new)
             rows == Over(One(d, set), own[r].debt)
             w == [own[r] EXCEPT !.debt = rows]
  <2>1. /\ Seen(r).debt[d] = debt[d] /\ Seen(r).debt[d] \in DebtRow
        /\ debt[d].state = "live" /\ debt[d].user = req[r].user
    BY <1>2, SeesRow DEF Debt, StoredRow
  <2>2. set = Stored(debt[d], new) /\ set \in StoredRow
        /\ set.state = "live" /\ set.user = req[r].user
    BY <1>2, <2>1, StoredIs
  <2>3. own[r] \in Writes /\ own[r].debt \in Overlays(Debts, StoredRow)
    BY DEF Typed, Contents, Writes
  <2>4. own' = [own EXCEPT ![r] = w] /\ Goto(r, next) /\ UNCHANGED <<req, mem, vars>>
    BY <1>2 DEF StoreDebt, Write, Stored
  <2> HIDE DEF set
  <2>5. One(d, set) \in Overlays(Debts, StoredRow)
        /\ DOMAIN One(d, set) = {d} /\ One(d, set)[d] = set
    BY <2>2, OneDebt
  <2>6. rows \in Overlays(Debts, StoredRow) /\ DOMAIN rows = {d} /\ rows[d] = set
    BY <2>3, <2>5, OverDebts
  <2> HIDE DEF rows
  <2>7. w \in Writes /\ w.debt = rows /\ w.txn = own[r].txn /\ w.link = own[r].link
    BY <2>3, <2>6 DEF Writes
  <2> HIDE DEF w
  <2>8. Updates(w, r, d, new)
    BY <2>2, <2>6, <2>7 DEF Updates
  <2> QED
    BY <1>2, <2>4, <2>7, <2>8
<1> QED
  BY <1>1, <1>2

LEMMA NobodyHoldsDebt ==
    ASSUME NEW r \in Slots, NEW d, DebtHolders(r, d) = {}
    PROVE  \A x \in Slots \ {r} : d \notin DOMAIN own[x].debt
  BY DEF DebtHolders

LEMMA RepayTxnKeeps ==
    ASSUME Typed, NEW r \in Slots, RepayTxn(r)
    PROVE  Typed'
<1> DEFINE t == req[r].txn
           row == [state |-> "posted", account |-> req[r].account]
           w == [own[r] EXCEPT !.txn = One(t, row)]
<1>1. /\ pc[r] = "repay_txn"
      /\ \/ Fail(r)
         \/ own' = [own EXCEPT ![r] = w] /\ Goto(r, "pay_get") /\ UNCHANGED <<req, mem, vars>>
  BY DEF RepayTxn, Write
<1>2. CASE Fail(r)
  BY <1>2, FailKeeps
<1>3. CASE own' = [own EXCEPT ![r] = w] /\ Goto(r, "pay_get") /\ UNCHANGED <<req, mem, vars>>
  <2>1. req[r].op = "repay" /\ t \in Transactions /\ req[r].account \in Accounts
    BY <1>1, AtWork DEF OpsAt
  <2>2. row \in TxnRow
    BY <2>1 DEF TxnRow
  <2>3. /\ One(t, row) \in Overlays(Transactions, TxnRow)
        /\ DOMAIN One(t, row) = {t} /\ One(t, row)[t] = row
    BY <2>1, <2>2, OneTxn
  <2> DEFINE one == One(t, row)
  <2> HIDE DEF one
  <2>4. /\ w \in Writes /\ w.txn = one
        /\ w.debt = own[r].debt /\ w.link = own[r].link
    BY <2>3 DEF Typed, Contents, Writes, one
  <2> HIDE DEF w
  <2>9. \A x \in DOMAIN w.txn :
          w.txn[x].state = "posted"
    BY <2>3, <2>4 DEF one
  <2>10. DOMAIN w.txn = {t}
    BY <2>3, <2>4 DEF one
  <2>5. Fits("pay_get", req[r], mem[r], w)
    <3> HIDE DEF t, row
    <3> QED
      BY <1>1, <2>1, <2>4, <2>9, <2>10
         DEF Typed, Fits, OpsAt, DebtsAt, TxnsAt, LinksAt, Paying, t
  <2>6. Holds("pay_get", req[r], w)
    BY <1>1, <2>1, <2>4 DEF Typed, Holds, Paying
  <2>7. ASSUME NEW x \in Slots \ {r}
        PROVE  Apart(req[r], w, req[x], own[x])
    <3>1. t \notin DOMAIN own[x].txn
      <4>1. req[x].op = "repay" => req[x].txn # t
        BY <2>1 DEF Typed, Apart
      <4>2. txn[t].state = "absent"
        BY <2>1 DEF Typed, Holds
      <4>3. req[x].op = "delete" /\ pc[x] = "commit" => req[x].txn # t
        BY <4>2 DEF Typed, Holds
      <4> QED
        BY <4>1, <4>3 DEF Typed, Fits, TxnsAt
    <3> QED
      BY <2>3, <2>4, <3>1 DEF Typed, Apart, one
  <2>8. mem' = [mem EXCEPT ![r] = mem[r]] /\ mem[r] \in Memory
    BY <1>3 DEF Typed, Contents
  <2> QED
    BY <1>3, <2>4, <2>5, <2>6, <2>7, <2>8, StatementStep DEF Locals
<1> QED
  BY <1>1, <1>2, <1>3

LEMMA PayLinkKeeps ==
    ASSUME Typed, NEW r \in Slots, WaitsFor(r) = {}, PayLink(r)
    PROVE  Typed'
<1> DEFINE t == req[r].txn
           l == PaymentLink(req[r].debt, mem[r].debt, req[r].pay)
           w == [own[r] EXCEPT !.link = One(t, l)]
<1>1. /\ pc[r] = "pay_link"
      /\ \/ Fail(r)
         \/ own' = [own EXCEPT ![r] = w] /\ Goto(r, "pay_update") /\ UNCHANGED <<req, mem, vars>>
  BY DEF PayLink, Write
<1>2. CASE Fail(r)
  BY <1>2, FailKeeps
<1>3. CASE own' = [own EXCEPT ![r] = w] /\ Goto(r, "pay_update") /\ UNCHANGED <<req, mem, vars>>
  <2>1. /\ Paying(req[r]) /\ t \in Transactions /\ req[r].debt \in Debts
        /\ req[r].pay \in AnyPayment
    BY <1>1, AtWork DEF OpsAt, Paying
  <2>2. mem[r].debt \in StoredRow
    BY DEF Typed, Contents, Memory
  <2>3. l \in StoredLink /\ l.debt = req[r].debt
    BY <2>1, <2>2, StoredRows, PaymentLinkRow DEF StoredLink, PaymentLink
  <2> HIDE DEF l
  <2>4. /\ One(t, l) \in Overlays(Transactions, StoredLink)
        /\ DOMAIN One(t, l) = {t} /\ One(t, l)[t] = l
    BY <2>1, <2>3, OneLink
  <2> DEFINE one == One(t, l)
  <2> HIDE DEF one
  <2>5. /\ w \in Writes /\ w.link = one
        /\ w.debt = own[r].debt /\ w.txn = own[r].txn
    BY <2>4 DEF Typed, Contents, Writes, one
  <2> HIDE DEF w
  <2>10. DOMAIN w.link = {t} /\ w.link[t].debt = req[r].debt
    BY <2>3, <2>4, <2>5 DEF one
  <2>6. Fits("pay_update", req[r], mem[r], w)
    <3>1. req[r].op \in OpsAt("pay_update")
      BY <2>1 DEF OpsAt, Paying
    <3>2. Fits("pay_link", req[r], mem[r], own[r])
      BY <1>1 DEF Typed
    <3>3. /\ DOMAIN w.debt = {} /\ DOMAIN w.txn = TxnsAt("pay_update", req[r])
          /\ LinksAt("pay_update", req[r]) = {t}
      BY <2>1, <2>5, <3>2 DEF Fits, DebtsAt, TxnsAt, LinksAt, Paying
    <3>4. \A x \in DOMAIN w.txn :
            w.txn[x].state = IF req[r].op = "repay" THEN "posted" ELSE "deleted"
      BY <2>5, <3>2 DEF Fits
    <3> QED
      BY <2>1, <2>10, <3>1, <3>3, <3>4 DEF Fits
  <2>7. Holds("pay_update", req[r], w)
    BY <1>1, <2>1, <2>5 DEF Typed, Holds, Paying
  <2>8. ASSUME NEW x \in Slots \ {r}
        PROVE  Apart(req[r], w, req[x], own[x])
    <3>1. t \notin DOMAIN own[x].link
      BY <1>1 DEF WaitsFor, LinkHolders
    <3> QED
      BY <2>4, <2>5, <3>1 DEF Typed, Apart, one
  <2>9. mem' = [mem EXCEPT ![r] = mem[r]] /\ mem[r] \in Memory
    BY <1>3 DEF Typed, Contents
  <2> QED
    BY <1>3, <2>5, <2>6, <2>7, <2>8, <2>9, StatementStep DEF Locals
<1> QED
  BY <1>1, <1>2, <1>3

\* What remains to be shown of an UPDATE of a debt: that the request may be at
\* the next statement whether the row was there or not.
\* Whether or not the UPDATE of d finds the row, slot r may go on to next.
Prepared(r, d, next) ==
    /\ ~SeesDebt(r, d) =>
           Fits(next, req[r], mem[r], own[r]) /\ Holds(next, req[r], own[r])
    /\ \A w \in Writes :
           /\ DOMAIN w.debt = {d} /\ w.debt[d].state = "live"
           /\ w.debt[d].user = req[r].user /\ w.txn = own[r].txn /\ w.link = own[r].link
           /\ debt[d].state = "live" /\ debt[d].user = req[r].user
           => Fits(next, req[r], mem[r], w) /\ Holds(next, req[r], w)

LEMMA StoreDebtKeeps ==
    ASSUME Typed, NEW r \in Slots, NEW d \in Debts, NEW new \in DebtRow,
           NEW next \in Locals, pc[r] # "idle",
           DOMAIN own[r].debt = {}, DebtHolders(r, d) = {}, StoreDebt(r, d, new, next),
           Prepared(r, d, next)
    PROVE  Typed'
<1> USE DEF Prepared
<1>1. CASE Fail(r)
  BY <1>1, FailKeeps
<1>2. CASE ~SeesDebt(r, d) /\ Goto(r, next) /\ UNCHANGED <<req, mem, own, vars>>
  BY <1>2, GoStep
<1>3. CASE /\ SeesDebt(r, d) /\ Goto(r, next) /\ UNCHANGED <<req, mem, vars>>
           /\ \E w \in Writes : own' = [own EXCEPT ![r] = w] /\ Updates(w, r, d, new)
  <2>1. PICK w \in Writes :
           /\ own' = [own EXCEPT ![r] = w]
           /\ DOMAIN w.debt = {d}
           /\ w.debt[d].state = "live" /\ w.debt[d].user = req[r].user
           /\ w.txn = own[r].txn /\ w.link = own[r].link
    BY <1>3 DEF Updates
  <2>2. debt[d].state = "live" /\ debt[d].user = req[r].user
    BY <1>3, SeesRow DEF Debt
  <2>3. Fits(next, req[r], mem[r], w) /\ Holds(next, req[r], w)
    BY <2>1, <2>2
  <2>4. \A x \in Slots \ {r} : d \notin DOMAIN own[x].debt
    BY NobodyHoldsDebt
  <2>5. \A x \in Slots \ {r} : Apart(req[r], w, req[x], own[x])
    BY <2>1, <2>4 DEF Typed, Apart
  <2>6. mem' = [mem EXCEPT ![r] = mem[r]] /\ mem[r] \in Memory
    BY <1>3 DEF Typed, Contents
  <2> QED
    BY <1>3, <2>1, <2>3, <2>5, <2>6, StatementStep
<1> QED
  BY <1>1, <1>2, <1>3, StoreDebtIs

LEMMA UpdatedRow ==
    ASSUME NEW row \in StoredRow, NEW s \in AppStatus \cup DbStatus
    PROVE  AfterUpdate(row, s) \in DebtRow
<1> DEFINE closed == row.closed \/ s = "paid"
<1>1. /\ row \in DebtRow /\ row.outstanding \in Int /\ row.accrued \in Int
      /\ closed \in BOOLEAN
  BY DEF StoredRow, DebtRow
<1>2. AfterUpdate(row, s) = SetDebt(row, row.outstanding, row.accrued, s, closed)
  BY DEF AfterUpdate
<1> HIDE DEF closed
<1> QED
  BY <1>1, <1>2, SetDebtRow

LEMMA PaidRow ==
    ASSUME NEW row \in StoredRow, NEW pay \in AnyPayment
    PROVE  AfterPayment(row, pay) \in DebtRow
  BY StoredRows, AfterPaymentFields

LEMMA PayUpdateKeeps ==
    ASSUME Typed, NEW r \in Slots, WaitsFor(r) = {}, PayUpdate(r)
    PROVE  Typed'
<1> DEFINE d == req[r].debt
           new == AfterPayment(mem[r].debt, req[r].pay)
<1>1. pc[r] = "pay_update" /\ StoreDebt(r, d, new, "pay_reread")
  BY DEF PayUpdate
<1>2. Paying(req[r]) /\ d \in Debts /\ req[r].pay \in AnyPayment
  BY <1>1, AtWork DEF OpsAt, Paying
<1>3. new \in DebtRow
  BY <1>2, PaidRow DEF Typed, Contents, Memory
<1>4. DebtHolders(r, d) = {}
  BY <1>1 DEF WaitsFor
<1>5. Fits("pay_update", req[r], mem[r], own[r]) /\ Holds("pay_update", req[r], own[r])
  BY <1>1 DEF Typed
<1>6. DOMAIN own[r].debt = {}
  BY <1>5, <1>2 DEF Fits, DebtsAt, Paying
<1> HIDE DEF new
<1>7. ASSUME ~SeesDebt(r, d)
      PROVE  Fits("pay_reread", req[r], mem[r], own[r]) /\ Holds("pay_reread", req[r], own[r])
  <2>1. debt[d].state # "absent" /\ debt[d].user = req[r].user
    BY <1>2, <1>5 DEF Holds
  <2>2. Seen(r).debt[d] = debt[d] /\ debt[d].state \in {"absent", "live", "deleted"}
    BY <1>2, <1>6, SeenRows DEF Debt, Typed, Contents, StoredRow, DebtRow
  <2>3. debt[d].state = "deleted"
    BY <1>7, <2>1, <2>2 DEF SeesDebt
  <2>4. Fits("pay_reread", req[r], mem[r], own[r])
    BY <1>2, <1>5 DEF Fits, OpsAt, DebtsAt, TxnsAt, LinksAt, Paying
  <2> QED
    BY <1>2, <1>5, <2>1, <2>3, <2>4 DEF Holds, Paying
<1>8. ASSUME NEW w \in Writes, DOMAIN w.debt = {d}, w.debt[d].state = "live",
             w.debt[d].user = req[r].user, w.txn = own[r].txn, w.link = own[r].link,
             debt[d].state = "live", debt[d].user = req[r].user
      PROVE  Fits("pay_reread", req[r], mem[r], w) /\ Holds("pay_reread", req[r], w)
  <2>1. Fits("pay_reread", req[r], mem[r], w)
    <3>1. req[r].op \in OpsAt("pay_reread") /\ DOMAIN w.debt = DebtsAt("pay_reread", req[r])
      BY <1>2, <1>8 DEF OpsAt, Paying, DebtsAt
    <3>2. /\ DOMAIN w.txn = TxnsAt("pay_reread", req[r])
          /\ DOMAIN w.link = LinksAt("pay_reread", req[r])
      BY <1>2, <1>5, <1>8 DEF Fits, TxnsAt, LinksAt, Paying
    <3>3. /\ \A t \in DOMAIN w.txn :
                 w.txn[t].state = IF req[r].op = "repay" THEN "posted" ELSE "deleted"
          /\ \A t \in DOMAIN w.link : IF Paying(req[r]) THEN w.link[t].debt = req[r].debt
                                                       ELSE w.link[t] = NoLink
      BY <1>5, <1>8 DEF Fits
    <3> QED
      BY <1>8, <3>1, <3>2, <3>3 DEF Fits
  <2>2. Holds("pay_reread", req[r], w)
    BY <1>2, <1>5, <1>8 DEF Holds, Paying
  <2> QED
    BY <2>1, <2>2
<1>9. Prepared(r, d, "pay_reread")
  BY <1>7, <1>8 DEF Prepared
<1> HIDE DEF d
<1>10. "pay_reread" \in Locals /\ pc[r] # "idle"
  BY <1>1 DEF Locals
<1> QED
  BY <1>1, <1>2, <1>3, <1>4, <1>6, <1>9, <1>10, StoreDebtKeeps

LEMMA UpdateSetKeeps ==
    ASSUME Typed, NEW r \in Slots, WaitsFor(r) = {}, UpdateSet(r)
    PROVE  Typed'
<1> DEFINE d == req[r].debt
           new == AfterUpdate(mem[r].debt, req[r].status)
<1>1. pc[r] = "update_set" /\ StoreDebt(r, d, new, "commit")
  BY DEF UpdateSet
<1>2. req[r].op = "update" /\ d \in Debts /\ req[r].status \in AppStatus \cup DbStatus
  BY <1>1, AtWork DEF OpsAt
<1>3. new \in DebtRow
  BY <1>2, UpdatedRow DEF Typed, Contents, Memory
<1>4. DebtHolders(r, d) = {}
  BY <1>1 DEF WaitsFor
<1>5. Fits("update_set", req[r], mem[r], own[r])
  BY <1>1 DEF Typed
<1>6. DOMAIN own[r].debt = {} /\ DOMAIN own[r].txn = {} /\ DOMAIN own[r].link = {}
  BY <1>5, <1>2 DEF Fits, DebtsAt, TxnsAt, LinksAt, Paying
<1> HIDE DEF new
<1>7. Fits("commit", req[r], mem[r], own[r]) /\ Holds("commit", req[r], own[r])
  BY <1>2, <1>6 DEF Fits, Holds, OpsAt, DebtsAt, TxnsAt, LinksAt, Paying
<1>8. ASSUME NEW w \in Writes, DOMAIN w.debt = {d}, w.debt[d].state = "live",
             w.debt[d].user = req[r].user, w.txn = own[r].txn, w.link = own[r].link,
             debt[d].state = "live", debt[d].user = req[r].user
      PROVE  Fits("commit", req[r], mem[r], w) /\ Holds("commit", req[r], w)
  BY <1>2, <1>6, <1>8 DEF Fits, Holds, OpsAt, DebtsAt, TxnsAt, LinksAt, Paying
<1>9. Prepared(r, d, "commit")
  BY <1>7, <1>8 DEF Prepared
<1> HIDE DEF d
<1>10. "commit" \in Locals /\ pc[r] # "idle"
  BY <1>1 DEF Locals
<1> QED
  BY <1>1, <1>2, <1>3, <1>4, <1>6, <1>9, <1>10, StoreDebtKeeps

LEMMA DeleteRefundKeeps ==
    ASSUME Typed, NEW r \in Slots, WaitsFor(r) = {}, DeleteRefund(r)
    PROVE  Typed'
<1> DEFINE d == mem[r].link.debt
           new == AfterRefund(mem[r].debt, mem[r].link)
<1>1. pc[r] = "delete_refund" /\ StoreDebt(r, d, new, "delete_links")
  BY DEF DeleteRefund
<1>2. req[r].op = "delete" /\ d \in Debts
  BY <1>1, AtWork DEF OpsAt, Typed, Fits
<1>3. new \in DebtRow
  <2>1. mem[r].debt \in StoredRow /\ mem[r].link \in LinkRow
    BY DEF Typed, Contents, Memory, StoredLink
  <2> QED
    BY <2>1, StoredRows, AfterRefundRow DEF Row
<1>4. DebtHolders(r, d) = {}
  BY <1>1 DEF WaitsFor
<1>5. Fits("delete_refund", req[r], mem[r], own[r])
  BY <1>1 DEF Typed
<1>6. DOMAIN own[r].debt = {} /\ DOMAIN own[r].txn = {} /\ DOMAIN own[r].link = {}
  BY <1>5, <1>2 DEF Fits, DebtsAt, TxnsAt, LinksAt, Paying
<1> HIDE DEF new
<1>7. Fits("delete_links", req[r], mem[r], own[r]) /\ Holds("delete_links", req[r], own[r])
  BY <1>2, <1>6 DEF Fits, Holds, OpsAt, DebtsAt, TxnsAt, LinksAt, Paying
<1>8. ASSUME NEW w \in Writes, DOMAIN w.debt = {d}, w.debt[d].state = "live",
             w.debt[d].user = req[r].user, w.txn = own[r].txn, w.link = own[r].link,
             debt[d].state = "live", debt[d].user = req[r].user
      PROVE  Fits("delete_links", req[r], mem[r], w) /\ Holds("delete_links", req[r], w)
  BY <1>2, <1>6, <1>8 DEF Fits, Holds, OpsAt, DebtsAt, TxnsAt, LinksAt, Paying
<1>9. Prepared(r, d, "delete_links")
  BY <1>7, <1>8 DEF Prepared
<1> HIDE DEF d
<1>10. "delete_links" \in Locals /\ pc[r] # "idle"
  BY <1>1 DEF Locals
<1> QED
  BY <1>1, <1>2, <1>3, <1>4, <1>6, <1>9, <1>10, StoreDebtKeeps

LEMMA DeleteLinksKeeps ==
    ASSUME Typed, NEW r \in Slots, WaitsFor(r) = {}, DeleteLinks(r)
    PROVE  Typed'
<1> DEFINE t == req[r].txn
           l == Seen(r).link[t]
           w == [own[r] EXCEPT !.link = One(t, NoLink)]
<1>1. pc[r] = "delete_links" /\ Goto(r, "delete_debts") /\ UNCHANGED <<req, mem, vars>>
  BY DEF DeleteLinks, Write
<1>2. req[r].op = "delete" /\ t \in Transactions
  BY <1>1, AtWork DEF OpsAt
<1>3. Fits("delete_links", req[r], mem[r], own[r])
  BY <1>1 DEF Typed
<1>4. DOMAIN own[r].txn = {} /\ DOMAIN own[r].link = {}
  BY <1>2, <1>3 DEF Fits, TxnsAt, LinksAt, Paying
<1>5. Holds("delete_debts", req[r], own[r])
  BY <1>1, <1>2 DEF Typed, Holds, Paying
<1>6. CASE UNCHANGED own
  <2>1. Fits("delete_debts", req[r], mem[r], own[r])
    BY <1>2, <1>3, <1>4 DEF Fits, OpsAt, DebtsAt, TxnsAt, LinksAt, Paying
  <2> QED
    BY <1>1, <1>5, <1>6, <2>1, GoStep DEF Locals
<1>7. CASE l # NoLink /\ own' = [own EXCEPT ![r] = w]
  <2> DEFINE one == One(t, NoLink)
  <2>1. one \in Overlays(Transactions, StoredLink) /\ DOMAIN one = {t} /\ one[t] = NoLink
    BY <1>2, BlankRows, OneLink
  <2>2. l = link[t]
    BY <1>2, <1>4, SeenRows DEF Typed, Link
  <2>3. LinkHolders(r, t) = {}
    BY <1>1, <1>7, <2>2 DEF WaitsFor
  <2> HIDE DEF one
  <2>4. /\ w \in Writes /\ w.link = one
        /\ w.debt = own[r].debt /\ w.txn = own[r].txn
    BY <2>1 DEF Typed, Contents, Writes, one
  <2> HIDE DEF w
  <2>5. Fits("delete_debts", req[r], mem[r], w)
    BY <1>2, <1>3, <1>4, <2>1, <2>4 DEF Fits, OpsAt, DebtsAt, TxnsAt, LinksAt, Paying
  <2>6. Holds("delete_debts", req[r], w)
    BY <1>5, <2>4 DEF Holds
  <2>7. \A x \in Slots \ {r} : t \notin DOMAIN own[x].link
    BY <2>3 DEF LinkHolders
  <2>8. \A x \in Slots \ {r} : Apart(req[r], w, req[x], own[x])
    BY <2>1, <2>4, <2>7 DEF Typed, Apart
  <2>9. mem' = [mem EXCEPT ![r] = mem[r]] /\ mem[r] \in Memory
    BY <1>1 DEF Typed, Contents
  <2> QED
    BY <1>1, <1>7, <2>4, <2>5, <2>6, <2>8, <2>9, StatementStep DEF Locals
<1> QED
  BY <1>6, <1>7 DEF DeleteLinks, Write

\* The rows DeleteDebts marks.
Marked(r) == [d \in Originated(r) |-> [Seen(r).debt[d] EXCEPT !.state = "deleted"]]

LEMMA MarkedRows ==
    ASSUME Typed, NEW r \in Slots
    PROVE  /\ Marked(r) \in Overlays(Debts, StoredRow)
           /\ DOMAIN Marked(r) = Originated(r)
           /\ \A d \in Originated(r) :
                  /\ d \in Debts /\ SeesDebt(r, d)
                  /\ Marked(r)[d] = [Debt(r, d) EXCEPT !.state = "deleted"]
                  /\ Marked(r)[d].state = "deleted" /\ Marked(r)[d].user = req[r].user
<1>1. \A d \in Originated(r) : d \in Debts /\ SeesDebt(r, d)
  BY DEF Originated
<1>2. ASSUME NEW d \in Originated(r)
      PROVE  /\ [Seen(r).debt[d] EXCEPT !.state = "deleted"] \in StoredRow
             /\ Seen(r).debt[d] = Debt(r, d)
             /\ [Debt(r, d) EXCEPT !.state = "deleted"].state = "deleted"
             /\ [Debt(r, d) EXCEPT !.state = "deleted"].user = req[r].user
  <2>1. /\ Debt(r, d).user = req[r].user
        /\ Debt(r, d) \in StoredRow /\ Seen(r).debt[d] = Debt(r, d)
    BY <1>1, <1>2, SeesRow
  <2> QED
    BY <2>1 DEF StoredRow, RowAccepted, DebtRow
<1>3. Marked(r) \in [Originated(r) -> StoredRow] /\ Originated(r) \in SUBSET Debts
  BY <1>1, <1>2 DEF Marked
<1> QED
  BY <1>1, <1>2, <1>3 DEF Overlays, Marked

LEMMA DeleteDebtsIs ==
    ASSUME Typed, NEW r \in Slots, WaitsFor(r) = {}, DeleteDebts(r)
    PROVE  /\ pc[r] = "delete_debts" /\ Goto(r, "delete_check") /\ UNCHANGED <<req, mem, vars>>
           /\ \E w \in Writes :
                /\ own' = [own EXCEPT ![r] = w]
                /\ w.txn = own[r].txn /\ w.link = own[r].link
                /\ DOMAIN w.debt = Originated(r) \cup DOMAIN own[r].debt
                /\ \A d \in DOMAIN w.debt :
                       w.debt[d] = IF d \in Originated(r)
                                   THEN [Debt(r, d) EXCEPT !.state = "deleted"]
                                   ELSE own[r].debt[d]
                /\ \A d \in Originated(r) : /\ w.debt[d].state = "deleted"
                                            /\ w.debt[d].user = req[r].user
                                            /\ DebtHolders(r, d) = {}
<1> DEFINE marks == Marked(r)
           rows == Over(marks, own[r].debt)
           w == [own[r] EXCEPT !.debt = rows]
<1>1. /\ pc[r] = "delete_debts" /\ Goto(r, "delete_check") /\ UNCHANGED <<req, mem, vars>>
      /\ own' = [own EXCEPT ![r] = w]
  BY DEF DeleteDebts, Write, Marked
<1>2. own[r] \in Writes /\ own[r].debt \in Overlays(Debts, StoredRow)
  BY DEF Typed, Contents, Writes
<1>3. /\ rows \in Overlays(Debts, StoredRow)
      /\ DOMAIN rows = Originated(r) \cup DOMAIN own[r].debt
      /\ \A d \in DOMAIN rows :
             rows[d] = IF d \in Originated(r) THEN marks[d] ELSE own[r].debt[d]
  <2>1. marks \in Overlays(Debts, StoredRow) /\ DOMAIN marks = Originated(r)
    BY MarkedRows
  <2> HIDE DEF marks
  <2> QED
    BY <1>2, <2>1, OverDebts
<1>6. \A d \in Originated(r) :
         /\ marks[d] = [Debt(r, d) EXCEPT !.state = "deleted"]
         /\ marks[d].state = "deleted" /\ marks[d].user = req[r].user
  BY MarkedRows
<1> HIDE DEF rows, marks
<1>4. w \in Writes /\ w.debt = rows /\ w.txn = own[r].txn /\ w.link = own[r].link
  BY <1>2, <1>3 DEF Writes
<1>5. \A d \in Originated(r) : DebtHolders(r, d) = {}
  BY <1>1 DEF WaitsFor
<1> HIDE DEF w
<1>7. \A d \in DOMAIN w.debt :
         w.debt[d] = IF d \in Originated(r)
                     THEN [Debt(r, d) EXCEPT !.state = "deleted"]
                     ELSE own[r].debt[d]
  BY <1>3, <1>4, <1>6
<1>8. \A d \in Originated(r) : w.debt[d].state = "deleted" /\ w.debt[d].user = req[r].user
  BY <1>3, <1>4, <1>6
<1> QED
  BY <1>1, <1>3, <1>4, <1>5, <1>7, <1>8

LEMMA DeleteDebtsKeeps ==
    ASSUME Typed, NEW r \in Slots, WaitsFor(r) = {}, DeleteDebts(r)
    PROVE  Typed'
<1>1. pc[r] = "delete_debts" /\ Goto(r, "delete_check") /\ UNCHANGED <<req, mem, vars>>
  BY DeleteDebtsIs
<1>2. PICK w \in Writes :
        /\ own' = [own EXCEPT ![r] = w]
        /\ w.txn = own[r].txn /\ w.link = own[r].link
        /\ DOMAIN w.debt = Originated(r) \cup DOMAIN own[r].debt
        /\ \A d \in DOMAIN w.debt :
               w.debt[d] = IF d \in Originated(r)
                           THEN [Debt(r, d) EXCEPT !.state = "deleted"]
                           ELSE own[r].debt[d]
        /\ \A d \in Originated(r) : /\ w.debt[d].state = "deleted"
                                    /\ w.debt[d].user = req[r].user
                                    /\ DebtHolders(r, d) = {}
  BY DeleteDebtsIs
<1>3. req[r].op = "delete" /\ req[r].txn \in Transactions
  BY <1>1, AtWork DEF OpsAt
<1>4. /\ Fits("delete_debts", req[r], mem[r], own[r])
      /\ Holds("delete_debts", req[r], own[r])
  BY <1>1 DEF Typed
<1>5. DOMAIN w.debt \subseteq Debts
  BY <1>2, OverlayRows DEF Writes
<1>6. \A d \in DOMAIN w.debt : w.debt[d].user = req[r].user
                               /\ w.debt[d].state \in {"live", "deleted"}
  BY <1>2, <1>4 DEF Fits
<1>7. ASSUME NEW d \in Originated(r)
      PROVE  debt[d].state = "live" /\ debt[d].user = req[r].user
  <2>1. d \in Debts /\ SeesDebt(r, d)
    BY MarkedRows
  <2> QED
    BY <1>4, <2>1, SeesRow DEF Holds, Debt
<1>8. Fits("delete_check", req[r], mem[r], w)
  <2>1. /\ DOMAIN w.txn = TxnsAt("delete_check", req[r])
        /\ DOMAIN w.link \subseteq LinksAt("delete_check", req[r])
        /\ DebtsAt("delete_check", req[r]) = Debts
        /\ req[r].op \in OpsAt("delete_check")
    BY <1>2, <1>3, <1>4 DEF Fits, TxnsAt, LinksAt, DebtsAt, OpsAt, Paying
  <2> QED
    BY <1>2, <1>3, <1>4, <1>5, <1>6, <2>1 DEF Fits, Paying
<1>9. Holds("delete_check", req[r], w)
  BY <1>2, <1>3, <1>4, <1>7 DEF Holds, Paying
<1>10. \A x \in Slots \ {r} : Apart(req[r], w, req[x], own[x])
  <2>1. \A x \in Slots \ {r} : \A d \in Originated(r) : d \notin DOMAIN own[x].debt
    BY <1>2 DEF DebtHolders
  <2> QED
    BY <1>2, <2>1 DEF Typed, Apart
<1>11. mem' = [mem EXCEPT ![r] = mem[r]] /\ mem[r] \in Memory
  BY <1>1 DEF Typed, Contents
<1> QED
  BY <1>1, <1>2, <1>8, <1>9, <1>10, <1>11, StatementStep DEF Locals

LEMMA DeleteSetKeeps ==
    ASSUME Typed, NEW r \in Slots, WaitsFor(r) = {}, DeleteSet(r)
    PROVE  Typed'
<1> DEFINE t == req[r].txn
           row == [Seen(r).txn[t] EXCEPT !.state = "deleted"]
           w == [own[r] EXCEPT !.txn = One(t, row)]
<1>1. /\ pc[r] = "delete_set" /\ Goto(r, "commit") /\ UNCHANGED <<req, mem, vars>>
      /\ own' = [own EXCEPT ![r] = w]
  BY DEF DeleteSet, Write
<1>2. req[r].op = "delete" /\ t \in Transactions
  BY <1>1, AtWork DEF OpsAt
<1>3. row \in TxnRow /\ row.state = "deleted"
  <2>1. Seen(r).txn[t] \in TxnRow
    BY <1>2, SeenRows DEF Typed
  <2> QED
    BY <2>1 DEF TxnRow
<1> HIDE DEF row
<1>4. /\ One(t, row) \in Overlays(Transactions, TxnRow)
      /\ DOMAIN One(t, row) = {t} /\ One(t, row)[t] = row
  BY <1>2, <1>3, OneTxn
<1> DEFINE one == One(t, row)
<1> HIDE DEF one
<1>5. /\ w \in Writes /\ w.txn = one
      /\ w.debt = own[r].debt /\ w.link = own[r].link
  BY <1>4 DEF Typed, Contents, Writes, one
<1> HIDE DEF w
<1>6. DOMAIN w.txn = {t} /\ w.txn[t] = row
  BY <1>4, <1>5 DEF one
<1>7. Fits("delete_set", req[r], mem[r], own[r]) /\ Holds("delete_set", req[r], own[r])
  BY <1>1 DEF Typed
<1>8. Fits("commit", req[r], mem[r], w)
  <2>1. /\ DOMAIN w.txn = TxnsAt("commit", req[r])
        /\ DOMAIN w.link \subseteq LinksAt("commit", req[r])
        /\ DOMAIN w.debt \subseteq DebtsAt("commit", req[r])
        /\ req[r].op \in OpsAt("commit")
    BY <1>2, <1>5, <1>6, <1>7 DEF Fits, TxnsAt, LinksAt, DebtsAt, OpsAt, Paying
  <2>2. \A x \in DOMAIN w.txn :
          w.txn[x].state = "deleted"
    BY <1>3, <1>6
  <2> QED
    BY <1>2, <1>5, <1>7, <2>1, <2>2 DEF Fits, Paying
<1>9. Holds("commit", req[r], w)
  BY <1>2, <1>5, <1>7 DEF Holds, Paying
<1>10. \A x \in Slots \ {r} : Apart(req[r], w, req[x], own[x])
  <2>1. \A x \in Slots \ {r} : t \notin DOMAIN own[x].txn
    BY <1>1 DEF WaitsFor, TxnHolders
  <2> QED
    BY <1>5, <1>6, <2>1 DEF Typed, Apart
<1>11. mem' = [mem EXCEPT ![r] = mem[r]] /\ mem[r] \in Memory
  BY <1>1 DEF Typed, Contents
<1> QED
  BY <1>1, <1>5, <1>8, <1>9, <1>10, <1>11, StatementStep DEF Locals
-----------------------------------------------------------------------------
(* Steps that change the tables *)

\* What no step does to the tables: a debt that has been created keeps its
\* user, one that has been deleted stays so, and a transaction does not vanish.
Evolves ==
    /\ \A d \in Debts : debt[d].state # "absent" =>
           debt'[d].state # "absent" /\ debt'[d].user = debt[d].user
    /\ \A d \in Debts : debt[d].state = "deleted" => debt'[d] = debt[d]
    /\ \A t \in Transactions : txn[t].state # "absent" => txn'[t].state # "absent"

\* The tables keep what slot x has locked, and the id it has reserved.
Spares(x) ==
    /\ \A d \in DOMAIN own[x].debt : debt'[d] = debt[d]
    /\ req[x].op = "repay" => txn'[req[x].txn] = txn[req[x].txn]

LEMMA HoldsKept ==
    ASSUME Typed, NEW x \in Slots, Evolves, Spares(x),
           pc'[x] = pc[x], req'[x] = req[x], own'[x] = own[x]
    PROVE  Holds(pc[x], req[x], own[x])'
<1> DEFINE l == pc[x]
           q == req[x]
           w == own[x]
<1>1. Holds(l, q, w) /\ Fits(l, q, mem[x], w)
  BY DEF Typed
<1>2. \A d \in DOMAIN w.debt : debt'[d].state = "live" /\ debt'[d].user = q.user
  BY <1>1 DEF Holds, Spares
<1>3. q.op = "repay" => txn'[q.txn].state = "absent"
  BY <1>1 DEF Holds, Spares
<1>4. q.op # "none" => l # "idle"
  BY <1>1 DEF Fits, OpsAt
<1>5. q.op = "delete" /\ l \in {"delete_set", "commit"} => txn'[q.txn].state # "absent"
  BY <1>1, <1>4, AtWork DEF Holds, Evolves
<1>6. Paying(q) => q.debt \in Debts
  BY <1>4, AtWork DEF Paying
<1>7. /\ Paying(q) /\ l \in {"pay_verify", "pay_link", "pay_update", "pay_reread", "commit"} =>
           debt'[q.debt].state # "absent" /\ debt'[q.debt].user = q.user
      /\ l = "pay_reread" => q.debt \in DOMAIN w.debt \/ debt'[q.debt].state = "deleted"
      /\ Paying(q) /\ l = "commit" => q.debt \in DOMAIN w.debt
  <2>1. l = "pay_reread" => Paying(q)
    BY <1>1 DEF Fits, OpsAt, Paying
  <2> QED
    BY <1>1, <1>6, <2>1 DEF Holds, Evolves
<1> QED
  BY <1>2, <1>3, <1>5, <1>7 DEF Holds

\* The slots S keep what they have while the tables evolve.
LEMMA TablesStep ==
    ASSUME Typed, NEW S, S \subseteq Slots, Contents', Evolves,
           \A x \in S : Spares(x),
           \A x \in S : /\ pc'[x] = pc[x] /\ req'[x] = req[x]
                        /\ mem'[x] = mem[x] /\ own'[x] = own[x],
           \A x \in Slots \ S : /\ pc'[x] = "idle" /\ req'[x] = NoRequest
                                /\ mem'[x] = [debt |-> NoDebt, link |-> NoLink]
                                /\ own'[x] = NoWrites
    PROVE  Typed'
<1>1. \A x \in Slots : Fits(pc'[x], req'[x], mem'[x], own'[x])
  BY NothingHeld DEF Typed
<1>2. ASSUME NEW x \in S PROVE Holds(pc[x], req[x], own[x])'
  BY HoldsKept
<1>3. ASSUME NEW x \in Slots \ S PROVE Holds(pc[x], req[x], own[x])'
  <2>1. pc'[x] = "idle" /\ req'[x] = NoRequest /\ own'[x] = NoWrites
    OBVIOUS
  <2> QED
    BY <2>1, BlankRows, OpOfNone DEF Holds, Paying
<1>4. \A x, y \in Slots : x # y => Apart(req'[x], own'[x], req'[y], own'[y])
  <2>1. \A q, w : Apart(NoRequest, NoWrites, q, w) /\ Apart(q, w, NoRequest, NoWrites)
    BY BlankRows, OpOfNone DEF Apart
  <2> QED
    BY <2>1 DEF Typed
<1> QED
  BY <1>1, <1>2, <1>3, <1>4 DEF Typed

LEMMA CommitTables ==
    ASSUME Typed, NEW r \in Slots, Commit(r)
    PROVE  /\ Evolves /\ \A x \in Slots \ {r} : Spares(x)
           /\ debt' \in [Debts -> StoredRow] /\ \A d \in Debts : debt'[d] = Debt(r, d)
           /\ txn' \in [Transactions -> TxnRow]
           /\ \A t \in Transactions : txn'[t] = Txn(r, t)
           /\ link' \in [Transactions -> StoredLink]
           /\ \A t \in Transactions : link'[t] = Link(r, t)
           /\ \A d \in Debts : debt'[d].state = "absent" => debt'[d].user = None
<1>1. /\ debt' \in [Debts -> StoredRow] /\ \A d \in Debts : debt'[d] = Debt(r, d)
      /\ txn' \in [Transactions -> TxnRow]
      /\ \A t \in Transactions : txn'[t] = Txn(r, t)
      /\ link' \in [Transactions -> StoredLink]
      /\ \A t \in Transactions : link'[t] = Link(r, t)
  BY SeenRows DEF Typed, Commit
<1>2. Fits(pc[r], req[r], mem[r], own[r]) /\ Holds(pc[r], req[r], own[r])
  BY DEF Typed
<1>3. \A d \in DOMAIN own[r].debt :
         /\ own[r].debt[d].user = debt[d].user /\ debt[d].state = "live"
         /\ own[r].debt[d].state \in {"live", "deleted"}
  BY <1>2 DEF Fits, Holds
<1>4. \A t \in DOMAIN own[r].txn : own[r].txn[t].state # "absent"
  BY <1>2 DEF Fits
<1>5. Evolves
  <2>1. \A d \in Debts : debt[d].state # "absent" =>
           debt'[d].state # "absent" /\ debt'[d].user = debt[d].user
    BY <1>1, <1>3 DEF Debt
  <2>2. \A d \in Debts : debt[d].state = "deleted" => debt'[d] = debt[d]
    BY <1>1, <1>3 DEF Debt
  <2>3. \A t \in Transactions : txn[t].state # "absent" => txn'[t].state # "absent"
    BY <1>1, <1>4 DEF Txn
  <2> QED
    BY <2>1, <2>2, <2>3 DEF Evolves
<1>6. ASSUME NEW x \in Slots \ {r}
      PROVE  Spares(x)
  <2>1. Apart(req[r], own[r], req[x], own[x]) /\ Fits(pc[x], req[x], mem[x], own[x])
        /\ Holds(pc[x], req[x], own[x])
    BY DEF Typed
  <2>2. DOMAIN own[x].debt \subseteq Debts
    BY OverlayRows DEF Typed, Contents, Writes
  <2>3. \A d \in DOMAIN own[x].debt : debt'[d] = debt[d]
    BY <1>1, <2>1, <2>2 DEF Debt, Apart
  <2>4. ASSUME req[x].op = "repay"
        PROVE  txn'[req[x].txn] = txn[req[x].txn]
    <3>1. pc[x] # "idle" /\ req[x].txn \in Transactions
      BY <2>1, <2>4, AtWork DEF Fits, OpsAt
    <3>2. txn[req[x].txn].state = "absent"
      BY <2>1, <2>4 DEF Holds
    <3>3. pc[r] = "commit"
      BY DEF Commit
    <3>4. req[x].txn \notin DOMAIN own[r].txn
      BY <1>2, <2>1, <2>4, <3>2, <3>3 DEF Fits, Holds, Apart, TxnsAt
    <3> QED
      BY <1>1, <3>1, <3>4 DEF Txn
  <2> QED
    BY <2>3, <2>4 DEF Spares
<1>7. \A d \in Debts : debt'[d].state = "absent" => debt'[d].user = None
  BY <1>1, <1>3 DEF Debt, Typed, Contents
<1> QED
  BY <1>1, <1>5, <1>6, <1>7

LEMMA ReleaseIs ==
    ASSUME Contents, NEW r \in Slots, Release(r)
    PROVE  /\ pc' \in [Slots -> Locals] /\ req' \in [Slots -> Requests \cup {NoRequest}]
           /\ mem' \in [Slots -> Memory] /\ own' \in [Slots -> Writes]
           /\ pc'[r] = "idle" /\ req'[r] = NoRequest
           /\ mem'[r] = [debt |-> NoDebt, link |-> NoLink] /\ own'[r] = NoWrites
           /\ \A x \in Slots \ {r} : /\ pc'[x] = pc[x] /\ req'[x] = req[x]
                                     /\ mem'[x] = mem[x] /\ own'[x] = own[x]
<1>1. NoWrites \in Writes /\ [debt |-> NoDebt, link |-> NoLink] \in Memory
  BY BlankRows
<1> QED
  BY <1>1 DEF Contents, Release, Locals

LEMMA CommitKeeps ==
    ASSUME Typed, NEW r \in Slots, Commit(r)
    PROVE  Typed'
<1>1. Release(r)
  BY DEF Commit
<1>2. Contents'
  BY <1>1, CommitTables, ReleaseIs DEF Typed, Contents
<1> DEFINE S == Slots \ {r}
<1>3. /\ \A x \in S : /\ pc'[x] = pc[x] /\ req'[x] = req[x]
                      /\ mem'[x] = mem[x] /\ own'[x] = own[x]
      /\ \A x \in Slots \ S : /\ pc'[x] = "idle" /\ req'[x] = NoRequest
                              /\ mem'[x] = [debt |-> NoDebt, link |-> NoLink]
                              /\ own'[x] = NoWrites
  BY <1>1, ReleaseIs DEF Typed
<1>4. Evolves /\ \A x \in S : Spares(x)
  BY CommitTables
<1>5. S \subseteq Slots
  OBVIOUS
<1> HIDE DEF S
<1> QED
  BY <1>2, <1>3, <1>4, <1>5, TablesStep

LEMMA DropTables ==
    ASSUME Typed, NEW r \in Slots, WaitsFor(r) = {}, Drop(r)
    PROVE  /\ Evolves /\ \A x \in Slots \ {r} : Spares(x)
           /\ debt' \in [Debts -> StoredRow] /\ UNCHANGED <<txn, link>>
           /\ \A d \in Debts : debt'[d].state = "absent" => debt'[d].user = None
<1> DEFINE d == req[r].debt
<1>1. /\ pc[r] = "drop" /\ UNCHANGED <<txn, link>>
      /\ debt' = IF debt[d].user = req[r].user
                 THEN [debt EXCEPT ![d].state = "deleted"] ELSE debt
  BY DEF Drop
<1>2. req[r].op = "drop" /\ d \in Debts /\ req[r].user \in Users
  BY <1>1, AtWork DEF OpsAt
<1>3. DebtHolders(r, d) = {}
  BY <1>1 DEF WaitsFor
<1>4. debt \in [Debts -> StoredRow] /\ debt[d] \in DebtRow /\ RowAccepted(debt[d])
  BY <1>2 DEF Typed, Contents, StoredRow
<1>5. CASE debt' = debt
  <2>1. \A x \in Slots \ {r} : \A e \in DOMAIN own[x].debt : debt'[e] = debt[e]
    BY <1>5
  <2> QED
    BY <1>1, <1>5, <2>1 DEF Evolves, Spares, Typed, Contents
<1>6. CASE debt[d].user = req[r].user /\ debt' = [debt EXCEPT ![d].state = "deleted"]
  <2> DEFINE new == [debt[d] EXCEPT !.state = "deleted"]
  <2>1. /\ new \in StoredRow /\ new.state = "deleted" /\ new.user = debt[d].user
        /\ debt[d].state = "deleted" => new = debt[d]
    BY <1>4 DEF StoredRow, DebtRow, RowAccepted
  <2>2. debt' = [debt EXCEPT ![d] = new]
    BY <1>6
  <2> HIDE DEF new
  <2>3. debt'[d] = new /\ \A e \in Debts \ {d} : debt'[e] = debt[e]
    BY <1>2, <1>4, <2>2
  <2>4. \A x \in Slots \ {r} : \A e \in DOMAIN own[x].debt : debt'[e] = debt[e]
    <3>1. \A x \in Slots \ {r} : d \notin DOMAIN own[x].debt
      BY <1>3 DEF DebtHolders
    <3>2. \A x \in Slots : DOMAIN own[x].debt \subseteq Debts
      BY OverlayRows DEF Typed, Contents, Writes
    <3> QED
      BY <2>3, <3>1, <3>2
  <2>5. debt' \in [Debts -> StoredRow]
    BY <1>2, <1>4, <2>1, <2>2
  <2>6. Evolves
    BY <1>1, <2>1, <2>3 DEF Evolves
  <2>7. \A e \in Debts : debt'[e].state = "absent" => debt'[e].user = None
    BY <2>1, <2>3 DEF Typed, Contents
  <2> QED
    BY <1>1, <2>4, <2>5, <2>6, <2>7 DEF Spares
<1> QED
  BY <1>1, <1>5, <1>6

LEMMA DropKeeps ==
    ASSUME Typed, NEW r \in Slots, WaitsFor(r) = {}, Drop(r)
    PROVE  Typed'
<1>1. Release(r)
  BY DEF Drop
<1>2. Contents'
  BY <1>1, DropTables, ReleaseIs DEF Typed, Contents
<1> DEFINE S == Slots \ {r}
<1>3. /\ \A x \in S : /\ pc'[x] = pc[x] /\ req'[x] = req[x]
                      /\ mem'[x] = mem[x] /\ own'[x] = own[x]
      /\ \A x \in Slots \ S : /\ pc'[x] = "idle" /\ req'[x] = NoRequest
                              /\ mem'[x] = [debt |-> NoDebt, link |-> NoLink]
                              /\ own'[x] = NoWrites
  BY <1>1, ReleaseIs DEF Typed
<1>4. Evolves /\ \A x \in S : Spares(x)
  BY DropTables
<1>5. S \subseteq Slots
  OBVIOUS
<1> HIDE DEF S
<1> QED
  BY <1>2, <1>3, <1>4, <1>5, TablesStep

\* Creations change rows that are absent.
LEMMA CreateTables ==
    ASSUME Typed, NEW u \in Users, CreateBy(u)
    PROVE  /\ UNCHANGED link
           /\ \A d \in Debts : \/ debt'[d] = debt[d]
                               \/ /\ debt[d].state = "absent"
                                  /\ debt'[d].state = "live" /\ debt'[d].user = u
           /\ \A t \in Transactions : \/ txn'[t] = txn[t]
                                      \/ txn[t].state = "absent" /\ txn'[t].state # "absent"
           /\ debt' \in [Debts -> StoredRow] /\ txn' \in [Transactions -> TxnRow]
<1>1. PICK a \in Accounts :
        \/ \E d \in Debts, p \in Principals, o \in Transactions \cup {None} :
               CreateDebt(u, a, d, p, o)
        \/ \E t \in Transactions, share \in Shares : CreateTransaction(u, a, t, share)
  BY DEF CreateBy
<1>2. TypeOK
  BY DEF Typed, Contents, StoredRow, TypeOK, StoredLink
<1>3. debt \in [Debts -> StoredRow] /\ txn \in [Transactions -> TxnRow]
  BY DEF Typed, Contents
<1>4. TypeOK' => debt' \in [Debts -> StoredRow] /\ txn' \in [Transactions -> TxnRow]
  BY DEF TypeOK, StoredRow
<1>5. ASSUME NEW d \in Debts, NEW p \in Principals, NEW o \in Transactions \cup {None},
             CreateDebt(u, a, d, p, o)
      PROVE  /\ UNCHANGED <<txn, link>> /\ TypeOK'
             /\ \A e \in Debts : \/ debt'[e] = debt[e]
                                 \/ /\ debt[e].state = "absent"
                                    /\ debt'[e].state = "live" /\ debt'[e].user = u
  <2>1. TypeOK'
    BY <1>2, <1>5, TypeCreateDebt
  <2>2. /\ UNCHANGED <<txn, link>> /\ debt[d].state = "absent"
        /\ debt' = [debt EXCEPT ![d] = NewDebt(u, RoundCents(p), o)]
    BY <1>5 DEF CreateDebt
  <2> QED
    BY <1>3, <2>1, <2>2 DEF NewDebt
<1>6. ASSUME NEW t \in Transactions, NEW share \in Shares,
             CreateTransaction(u, a, t, share)
      PROVE  /\ UNCHANGED link /\ TypeOK'
             /\ \A e \in Debts : \/ debt'[e] = debt[e]
                                 \/ /\ debt[e].state = "absent"
                                    /\ debt'[e].state = "live" /\ debt'[e].user = u
             /\ \A s \in Transactions : \/ txn'[s] = txn[s]
                                        \/ txn[s].state = "absent" /\ txn'[s].state # "absent"
  <2>1. TypeOK'
    BY <1>2, <1>6, TypeCreateTransaction
  <2>2. /\ UNCHANGED link /\ txn[t].state = "absent"
        /\ txn' = [txn EXCEPT ![t] = [state |-> "posted", account |-> a]]
        /\ \A d \in DOMAIN share : debt[d].state = "absent"
        /\ debt' = [d \in Debts |-> IF d \in DOMAIN share
                                    THEN NewDebt(u, RoundCents(share[d]), t)
                                    ELSE debt[d]]
    BY <1>6 DEF CreateTransaction
  <2>3. \A s \in Transactions : \/ txn'[s] = txn[s]
                                \/ txn[s].state = "absent" /\ txn'[s].state # "absent"
    BY <1>3, <2>2
  <2>4. \A e \in Debts : \/ debt'[e] = debt[e]
                         \/ /\ debt[e].state = "absent"
                            /\ debt'[e].state = "live" /\ debt'[e].user = u
    BY <2>2 DEF NewDebt
  <2> QED
    BY <2>1, <2>2, <2>3, <2>4
<1> QED
  BY <1>1, <1>4, <1>5, <1>6

LEMMA CreateKeeps ==
    ASSUME Typed, NEW u \in Users, Create(u)
    PROVE  Typed' /\ Evolves
<1>1. /\ CreateBy(u) /\ UNCHANGED <<pc, req, mem, own>>
      /\ \A t \in Reserved : txn'[t] = txn[t]
  BY DEF Create
<1>2. /\ UNCHANGED link
      /\ \A d \in Debts : \/ debt'[d] = debt[d]
                          \/ /\ debt[d].state = "absent"
                             /\ debt'[d].state = "live" /\ debt'[d].user = u
      /\ \A t \in Transactions : \/ txn'[t] = txn[t]
                                 \/ txn[t].state = "absent" /\ txn'[t].state # "absent"
      /\ debt' \in [Debts -> StoredRow] /\ txn' \in [Transactions -> TxnRow]
  BY <1>1, CreateTables
<1>3. Contents'
  BY <1>1, <1>2 DEF Typed, Contents
<1>4. Evolves
  BY <1>2 DEF Evolves
<1>5. ASSUME NEW x \in Slots PROVE Spares(x)
  <2>1. Fits(pc[x], req[x], mem[x], own[x]) /\ Holds(pc[x], req[x], own[x])
    BY DEF Typed
  <2>2. DOMAIN own[x].debt \subseteq Debts
    BY OverlayRows DEF Typed, Contents, Writes
  <2>3. \A d \in DOMAIN own[x].debt : debt'[d] = debt[d]
    BY <1>2, <2>1, <2>2 DEF Holds
  <2>4. req[x].op = "repay" => req[x].txn \in Reserved
    BY <2>1 DEF Fits, OpsAt, Reserved, InFlight
  <2> QED
    BY <1>1, <2>3, <2>4 DEF Spares
<1>6. Typed'
  <2> DEFINE S == Slots
  <2>1. S \subseteq Slots /\ \A x \in S : Spares(x)
    BY <1>5
  <2>2. /\ \A x \in S : /\ pc'[x] = pc[x] /\ req'[x] = req[x]
                        /\ mem'[x] = mem[x] /\ own'[x] = own[x]
        /\ \A x \in Slots \ S : /\ pc'[x] = "idle" /\ req'[x] = NoRequest
                                /\ mem'[x] = [debt |-> NoDebt, link |-> NoLink]
                                /\ own'[x] = NoWrites
    BY <1>1
  <2> HIDE DEF S
  <2> QED
    BY <1>3, <1>4, <2>1, <2>2, TablesStep
<1> QED
  BY <1>4, <1>6

-----------------------------------------------------------------------------
(* Theorems for any overlap of requests *)

LEMMA TypedInit == StmtInit => Typed
<1> SUFFICES ASSUME StmtInit PROVE Typed
  OBVIOUS
<1>1. /\ debt = [d \in Debts |-> NoDebt] /\ txn = [t \in Transactions |-> NoTxn]
      /\ link = [t \in Transactions |-> NoLink]
  BY DEF StmtInit, Init
<1>2. /\ pc = [r \in Slots |-> "idle"] /\ req = [r \in Slots |-> NoRequest]
      /\ mem = [r \in Slots |-> [debt |-> NoDebt, link |-> NoLink]]
      /\ own = [r \in Slots |-> NoWrites]
  BY DEF StmtInit, AllIdle
<1>3. Contents
  BY <1>1, <1>2, BlankRows DEF Contents, Locals, NoDebt
<1>4. \A r \in Slots : Fits(pc[r], req[r], mem[r], own[r]) /\ Holds(pc[r], req[r], own[r])
  BY <1>2, BlankRows, OpOfNone
     DEF Fits, Holds, OpsAt, DebtsAt, TxnsAt, LinksAt, Paying
<1>5. \A r, q \in Slots : Apart(req[r], own[r], req[q], own[q])
  BY <1>2, BlankRows, OpOfNone DEF Apart
<1> QED
  BY <1>3, <1>4, <1>5 DEF Typed

\* The statements that leave the tables alone.
Inner(r) ==
    \/ RepayGet(r) \/ RepayTxn(r)
    \/ PayGet(r) \/ PayVerify(r) \/ PayLink(r) \/ PayUpdate(r) \/ PayReread(r)
    \/ UpdateGet(r) \/ UpdateSet(r)
    \/ DeleteList(r) \/ DeleteGet(r) \/ DeleteRefund(r) \/ DeleteLinks(r)
    \/ DeleteDebts(r) \/ DeleteCheck(r) \/ DeleteSet(r)

LEMMA InnerKeeps ==
    ASSUME Typed, NEW r \in Slots, WaitsFor(r) = {}, Inner(r)
    PROVE  Typed'
  BY RepayGetKeeps, RepayTxnKeeps, PayGetKeeps, PayVerifyKeeps, PayLinkKeeps,
     PayUpdateKeeps, PayRereadKeeps, UpdateGetKeeps, UpdateSetKeeps, DeleteListKeeps,
     DeleteGetKeeps, DeleteRefundKeeps, DeleteLinksKeeps, DeleteDebtsKeeps,
     DeleteCheckKeeps, DeleteSetKeeps DEF Inner

LEMMA InnerTables ==
    ASSUME NEW r \in Slots, Inner(r)
    PROVE  UNCHANGED vars
<1> USE DEF Fail, Check, ReadDebt, Write, StoreDebt
<1>1. CASE RepayGet(r) \/ RepayTxn(r) \/ PayGet(r) \/ PayVerify(r) \/ PayLink(r)
  BY <1>1 DEF RepayGet, RepayTxn, PayGet, PayVerify, PayLink
<1>2. CASE PayUpdate(r) \/ PayReread(r) \/ UpdateGet(r) \/ UpdateSet(r)
  BY <1>2 DEF PayUpdate, PayReread, UpdateGet, UpdateSet
<1>3. CASE DeleteList(r) \/ DeleteGet(r) \/ DeleteRefund(r)
  BY <1>3 DEF DeleteList, DeleteGet, DeleteRefund
<1>4. CASE DeleteLinks(r) \/ DeleteDebts(r) \/ DeleteCheck(r) \/ DeleteSet(r)
  BY <1>4 DEF DeleteLinks, DeleteDebts, DeleteCheck, DeleteSet
<1> QED
  BY <1>1, <1>2, <1>3, <1>4 DEF Inner

\* The kinds of step.
LEMMA Steps ==
    ASSUME StmtNext
    PROVE  \/ \E u \in Users : Create(u)
           \/ \E r \in Slots : Begin(r) \/ Fail(r)
           \/ \E r \in Slots : WaitsFor(r) = {} /\ (Inner(r) \/ Drop(r) \/ Commit(r))
  BY DEF StmtNext, Statement, Inner, Abort, BreakDeadlock

LEMMA StmtTypedNext == Typed /\ [StmtNext]_allVars => Typed'
<1>1. ASSUME Typed, UNCHANGED allVars PROVE Typed'
  <2>1. Contents'
    BY <1>1 DEF allVars, Typed, Contents
  <2>2. \A r \in Slots : Fits(pc[r], req[r], mem[r], own[r])'
    BY <1>1 DEF allVars, Typed, Fits
  <2>3. \A r \in Slots : Holds(pc[r], req[r], own[r])'
    BY <1>1 DEF allVars, Typed, Holds
  <2>4. \A r, q \in Slots : r # q => Apart(req[r], own[r], req[q], own[q])'
    BY <1>1 DEF allVars, Typed, Apart
  <2> QED
    BY <2>1, <2>2, <2>3, <2>4 DEF Typed
<1>2. ASSUME Typed, StmtNext PROVE Typed'
  <2> USE <1>2
  <2>1. CASE \E u \in Users : Create(u)
    BY <2>1, CreateKeeps
  <2>2. CASE \E r \in Slots : Begin(r) \/ Fail(r)
    BY <2>2, BeginKeeps, FailKeeps
  <2>3. CASE \E r \in Slots : WaitsFor(r) = {} /\ (Inner(r) \/ Drop(r) \/ Commit(r))
    BY <2>3, InnerKeeps, DropKeeps, CommitKeeps
  <2> QED
    BY <2>1, <2>2, <2>3, Steps
<1> QED
  BY <1>1, <1>2

\* What a statement finds of its request, of its own writes and of the tables is
\* what the ones before it left, whatever other requests do in between.
THEOREM StatementsSound == StmtSpec => []Typed
  BY TypedInit, StmtTypedNext, PTL DEF StmtSpec

\* Rows fit the schema, and no two open transactions have written the same row
\* (row locks of PostgreSQL), in any overlap of requests.
THEOREM StatementsTyped == StmtSpec => []StmtTypeOK
<1>1. Typed => StmtTypeOK
  <2> SUFFICES ASSUME Typed PROVE StmtTypeOK
    OBVIOUS
  <2>1. TypeOK
    BY DEF Typed, Contents, StoredRow, StoredLink, TypeOK
  <2>2. /\ pc \in [Slots -> Locals]
        /\ \A r \in Slots : /\ req[r] \in Requests \cup {NoRequest}
                            /\ mem[r].debt \in DebtRow /\ mem[r].link \in LinkRow
    BY DEF Typed, Contents, Memory, StoredRow, StoredLink
  <2>3. StoredRow \subseteq DebtRow /\ StoredLink \subseteq LinkRow
    BY DEF StoredRow, StoredLink
  <2>4. \A r \in Slots : /\ Seen(r).debt \in [Debts -> DebtRow]
                         /\ Seen(r).txn \in [Transactions -> TxnRow]
                         /\ Seen(r).link \in [Transactions -> LinkRow]
    BY <2>3, SeenRows DEF Typed
  <2>5. \A r, q \in Slots : r # q =>
          /\ DOMAIN own[r].debt \cap DOMAIN own[q].debt = {}
          /\ DOMAIN own[r].txn \cap DOMAIN own[q].txn = {}
          /\ DOMAIN own[r].link \cap DOMAIN own[q].link = {}
    BY DEF Typed, Apart
  <2> QED
    BY <2>1, <2>2, <2>4, <2>5 DEF StmtTypeOK
<1> QED
  BY <1>1, StatementsSound, PTL

\* A deleted debt is never written again, by no statement of no request that
\* read it before (DebtRepo.UpdateDebtTx asks for deleted_at IS NULL).
THEOREM StatementsKeepDeleted == StmtSpec => DeletedDebtsFrozen
<1> DEFINE Frozen == \A d \in Debts : debt[d].state = "deleted" => debt'[d] = debt[d]
<1>1. ASSUME Typed, StmtNext
      PROVE  Frozen \/ UNCHANGED vars
  <2> USE <1>1
  <2>1. CASE \E u \in Users : Create(u)
    BY <2>1, CreateKeeps DEF Evolves
  <2>2. CASE \E r \in Slots : Begin(r) \/ Fail(r)
    BY <2>2 DEF Begin, Fail
  <2>3. CASE \E r \in Slots : WaitsFor(r) = {} /\ (Inner(r) \/ Drop(r) \/ Commit(r))
    BY <2>3, InnerTables, DropTables, CommitTables DEF Evolves
  <2> QED
    BY <2>1, <2>2, <2>3, Steps
<1>2. Typed /\ [StmtNext]_allVars => [Frozen]_vars
  BY <1>1 DEF allVars, vars
<1> QED
  BY <1>2, StatementsSound, PTL DEF StmtSpec, DeletedDebtsFrozen

\* A payment is committed to a debt that is live at that moment, though the
\* debt was read four statements earlier and the UPDATE reports nothing when
\* the debt is gone (AddPaymentTx reads it again and holds its lock).
THEOREM PaymentsLand == StmtSpec => PaymentsLandOnLiveDebts
<1> DEFINE Lands ==
        \A t \in Transactions : link'[t] # link[t] /\ link'[t] # NoLink =>
            debt'[link'[t].debt].state = "live"
<1>1. ASSUME Typed, NEW r \in Slots, Commit(r)
      PROVE  Lands
  <2> SUFFICES ASSUME NEW t \in Transactions, link'[t] # link[t], link'[t] # NoLink
               PROVE  debt'[link'[t].debt].state = "live"
    OBVIOUS
  <2> USE <1>1
  <2>1. pc[r] = "commit" /\ Fits(pc[r], req[r], mem[r], own[r])
        /\ Holds(pc[r], req[r], own[r])
    BY DEF Typed, Commit
  <2>2. t \in DOMAIN own[r].link /\ link'[t] = own[r].link[t]
    BY CommitTables DEF Link
  <2>3. Paying(req[r]) /\ link'[t].debt = req[r].debt
    BY <2>1, <2>2 DEF Fits
  <2>4. req[r].debt \in Debts /\ req[r].debt \in DOMAIN own[r].debt
    BY <2>1, <2>3, AtWork DEF Holds, Paying
  <2>5. own[r].debt[req[r].debt].state = "live"
    BY <2>1, <2>3, <2>4 DEF Fits, Paying
  <2> QED
    BY <2>3, <2>4, <2>5, CommitTables DEF Debt
<1>2. ASSUME Typed, StmtNext
      PROVE  Lands
  <2> USE <1>2
  <2>1. CASE UNCHANGED link
    BY <2>1
  <2>2. CASE \E r \in Slots : Commit(r)
    BY <2>2, <1>1
  <2>3. CASE \E r \in Slots : Begin(r) \/ Fail(r)
    BY <2>3 DEF Begin, Fail, vars
  <2>4. CASE \E u \in Users : Create(u)
    BY <2>1, <2>4, CreateTables DEF Create
  <2>5. CASE \E r \in Slots : WaitsFor(r) = {} /\ (Inner(r) \/ Drop(r) \/ Commit(r))
    BY <2>1, <2>2, <2>5, InnerTables DEF Drop, vars
  <2> QED
    BY <2>3, <2>4, <2>5, Steps
<1>3. Typed /\ [StmtNext]_allVars => [Lands]_allVars
  BY <1>2
<1> QED
  BY <1>3, StatementsSound, PTL DEF StmtSpec, PaymentsLandOnLiveDebts
-----------------------------------------------------------------------------
(* Requests of different users *)

Ours(u, l) == l # NoLink /\ debt[l.debt].user = u

\* Row d as a transaction with the writes w has it.
View(w, d) == IF d \in DOMAIN w.debt THEN w.debt[d] ELSE debt[d]

\* The first half of Cleaned.
Refunded(u, t, d) ==
    IF link[t].debt = d /\ DebtVisible(u, d) THEN AfterRefund(debt[d], link[t]) ELSE debt[d]

\* A payment has read and computed what it would now.
ReadyToPay(l, q, m, w) ==
    /\ l \in {"pay_verify", "pay_link", "pay_update", "pay_reread", "commit"} =>
           DebtVisible(q.user, q.debt)
    /\ l \in {"pay_verify", "pay_link", "pay_update"} => m.debt = debt[q.debt]
    /\ q.op = "repay" /\ l \notin {"repay_get", "repay_txn"} =>
           /\ Writer(q.user, q.account) /\ RoundCents(q.pay.amount) > 0
           /\ w.txn[q.txn] = [state |-> "posted", account |-> q.account]
    /\ l \in {"pay_update", "pay_reread", "commit"} =>
           /\ link[q.txn] = NoLink
           /\ w.link[q.txn] = PaymentLink(q.debt, debt[q.debt], q.pay)
           /\ q.op = "pay" => txn[q.txn].state # "absent"
    /\ l \in {"pay_reread", "commit"} =>
           q.debt \in DOMAIN w.debt /\ w.debt[q.debt] = AfterPayment(debt[q.debt], q.pay)

ReadyToUpdate(l, q, m, w) ==
    /\ l \in {"update_set", "commit"} => DebtVisible(q.user, q.debt)
    /\ l = "update_set" => m.debt = debt[q.debt]
    /\ l = "commit" =>
           q.debt \in DOMAIN w.debt /\ w.debt[q.debt] = AfterUpdate(debt[q.debt], q.status)

ReadyToDelete(l, q, m, w) ==
    LET u == q.user
        t == q.txn
    IN
    /\ l \in {"delete_get", "delete_refund"} =>
           m.link = link[t] /\ DebtVisible(u, link[t].debt)
    /\ l = "delete_refund" => m.debt = debt[link[t].debt]
    /\ l \in {"delete_links", "delete_debts"} =>
           \A d \in Debts : debt[d].user = u => View(w, d) = Refunded(u, t, d)
    /\ l \in {"delete_check", "delete_set", "commit"} =>
           \A d \in Debts : debt[d].user = u => View(w, d) = Cleaned(u, t, d)
    /\ l \in {"delete_debts", "delete_check", "delete_set", "commit"} =>
           (t \in DOMAIN w.link <=> Ours(u, link[t]))
    /\ l \in {"delete_set", "commit"} => TxnVisible(u, t)
    /\ l = "commit" => w.txn[t] = [txn[t] EXCEPT !.state = "deleted"]

Ready(l, q, m, w) ==
    /\ Paying(q) => ReadyToPay(l, q, m, w)
    /\ q.op = "update" => ReadyToUpdate(l, q, m, w)
    /\ q.op = "delete" => ReadyToDelete(l, q, m, w)

\* Requests in flight are of different users and do not delete the same
\* transaction.
Alone ==
    \A r, q \in Slots : r # q /\ req[r].op # "none" /\ req[q].op # "none" =>
        req[r].user # req[q].user /\ ~SameDelete(req[r], req[q])

Solo == Alone /\ \A r \in Slots : Ready(pc[r], req[r], mem[r], own[r])

LEMMA SoloStep ==
    ASSUME Typed, Solo, NEW r \in Slots, NEW l \in Locals, NEW q \in Requests \cup {NoRequest},
           NEW m \in Memory, NEW w \in Writes,
           pc' = [pc EXCEPT ![r] = l], req' = [req EXCEPT ![r] = q],
           mem' = [mem EXCEPT ![r] = m], own' = [own EXCEPT ![r] = w], UNCHANGED vars,
           Ready(l, q, m, w),
           q.op # "none" => \A x \in Slots \ {r} : req[x].op # "none" =>
               q.user # req[x].user /\ ~SameDelete(q, req[x])
    PROVE  Solo'
<1>1. /\ pc'[r] = l /\ req'[r] = q /\ mem'[r] = m /\ own'[r] = w
      /\ \A x \in Slots \ {r} : /\ pc'[x] = pc[x] /\ req'[x] = req[x]
                                /\ mem'[x] = mem[x] /\ own'[x] = own[x]
  BY DEF Typed, Contents
<1>2. \A x \in Slots : Ready(pc'[x], req'[x], mem'[x], own'[x])
  BY <1>1 DEF Solo
<1>3. ASSUME NEW x \in Slots
      PROVE  Ready(pc[x], req[x], mem[x], own[x])' <=> Ready(pc'[x], req'[x], mem'[x], own'[x])
  <2>1. ReadyToPay(pc[x], req[x], mem[x], own[x])'
            <=> ReadyToPay(pc'[x], req'[x], mem'[x], own'[x])
    BY DEF ReadyToPay, DebtVisible, vars
  <2>2. ReadyToUpdate(pc[x], req[x], mem[x], own[x])'
            <=> ReadyToUpdate(pc'[x], req'[x], mem'[x], own'[x])
    BY DEF ReadyToUpdate, DebtVisible, vars
  <2>3. ReadyToDelete(pc[x], req[x], mem[x], own[x])'
            <=> ReadyToDelete(pc'[x], req'[x], mem'[x], own'[x])
    BY DEF ReadyToDelete, View, Refunded, Cleaned, Ours, TxnVisible, DebtVisible, vars
  <2> QED
    BY <2>1, <2>2, <2>3 DEF Ready
<1>4. \A q1, q2 : SameDelete(q1, q2) <=> SameDelete(q2, q1)
  BY DEF SameDelete
<1>5. Alone'
  <2> SUFFICES ASSUME NEW x \in Slots, NEW y \in Slots, x # y,
                      req'[x].op # "none", req'[y].op # "none"
               PROVE  req'[x].user # req'[y].user /\ ~SameDelete(req'[x], req'[y])
    BY DEF Alone, SameDelete
  <2>1. CASE x = r
    BY <1>1, <2>1
  <2>2. CASE y = r
    BY <1>1, <1>4, <2>2
  <2>3. CASE x # r /\ y # r
    BY <1>1, <2>3 DEF Solo, Alone
  <2> QED
    BY <2>1, <2>2, <2>3
<1> QED
  BY <1>2, <1>3, <1>5 DEF Solo

LEMMA SoloFail ==
    ASSUME Typed, Solo, NEW r \in Slots, Fail(r)
    PROVE  Solo'
<1> DEFINE m == [debt |-> NoDebt, link |-> NoLink]
<1>1. /\ pc' = [pc EXCEPT ![r] = "idle"] /\ req' = [req EXCEPT ![r] = NoRequest]
      /\ mem' = [mem EXCEPT ![r] = m] /\ own' = [own EXCEPT ![r] = NoWrites]
      /\ UNCHANGED vars
  BY DEF Fail, Release
<1>2. NoRequest.op = "none" /\ Ready("idle", NoRequest, m, NoWrites)
  BY OpOfNone DEF Ready, Paying
<1>3. m \in Memory /\ NoWrites \in Writes /\ "idle" \in Locals
  BY BlankRows DEF Locals
<1> HIDE DEF m
<1> QED
  BY <1>1, <1>2, <1>3, SoloStep

LEMMA SoloBegin ==
    ASSUME Typed, Solo, Overlap = "none", NEW r \in Slots, Begin(r)
    PROVE  Solo'
<1>1. PICK q \in Requests :
        /\ \A s \in InFlight : MayOverlap(req[s], q)
        /\ req' = [req EXCEPT ![r] = q]
        /\ Goto(r, FirstStatement[q.op])
  BY DEF Begin
<1> DEFINE l == FirstStatement[q.op]
<1>2. pc[r] = "idle" /\ UNCHANGED <<mem, own, vars>>
  BY DEF Begin
<1>3. l \in {"repay_get", "pay_get", "update_get", "drop", "delete_list"}
  BY RequestFields DEF FirstStatement
<1>4. l = "repay_get" <=> q.op = "repay"
  BY RequestFields DEF FirstStatement
<1>5. Ready(l, q, mem[r], own[r])
  <2> HIDE DEF l
  <2> QED
    BY <1>3, <1>4 DEF Ready, ReadyToPay, ReadyToUpdate, ReadyToDelete
<1>6. ASSUME NEW x \in Slots \ {r}, req[x].op # "none"
      PROVE  q.user # req[x].user /\ ~SameDelete(q, req[x])
  <2>1. x \in InFlight
    BY <1>6 DEF Typed, Fits, OpsAt, InFlight
  <2> QED
    BY <1>1, <2>1 DEF MayOverlap, SameDelete
<1>7. /\ pc' = [pc EXCEPT ![r] = l] /\ req' = [req EXCEPT ![r] = q]
      /\ mem' = [mem EXCEPT ![r] = mem[r]] /\ own' = [own EXCEPT ![r] = own[r]]
      /\ UNCHANGED vars
  BY <1>1, <1>2 DEF Goto, Typed, Contents
<1>8. l \in Locals /\ q \in Requests \cup {NoRequest} /\ mem[r] \in Memory /\ own[r] \in Writes
  BY <1>3 DEF Locals, Typed, Contents
<1> HIDE DEF l
<1>9. \A x \in Slots \ {r} : req[x].op # "none" =>
         q.user # req[x].user /\ ~SameDelete(q, req[x])
  BY <1>6
<1> QED
  BY <1>5, <1>7, <1>8, <1>9, SoloStep

\* A statement that does not end the request.
LEMMA SoloGoes ==
    ASSUME Typed, Solo, NEW r \in Slots, NEW l \in Locals, NEW m \in Memory, NEW w \in Writes,
           Goto(r, l), UNCHANGED <<req, vars>>,
           mem' = [mem EXCEPT ![r] = m], own' = [own EXCEPT ![r] = w],
           Ready(l, req[r], m, w)
    PROVE  Solo'
<1>1. req' = [req EXCEPT ![r] = req[r]] /\ req[r] \in Requests \cup {NoRequest}
  BY DEF Typed, Contents
<1>2. pc' = [pc EXCEPT ![r] = l] /\ UNCHANGED vars
  BY DEF Goto
<1>3. req[r].op # "none" => \A x \in Slots \ {r} : req[x].op # "none" =>
         req[r].user # req[x].user /\ ~SameDelete(req[r], req[x])
  BY DEF Solo, Alone
<1> QED
  BY <1>1, <1>2, <1>3, SoloStep

\* One that reads.
LEMMA SoloReads ==
    ASSUME Typed, Solo, NEW r \in Slots, NEW l \in Locals, NEW m \in Memory,
           Goto(r, l), UNCHANGED <<req, own, vars>>, mem' = [mem EXCEPT ![r] = m],
           Ready(l, req[r], m, own[r])
    PROVE  Solo'
<1>1. own' = [own EXCEPT ![r] = own[r]] /\ own[r] \in Writes /\ UNCHANGED <<req, vars>>
  BY DEF Typed, Contents
<1> QED
  BY <1>1, SoloGoes

LEMMA SoloChecks ==
    ASSUME Typed, Solo, NEW r \in Slots, NEW l \in Locals,
           Goto(r, l), UNCHANGED <<req, mem, own, vars>>, Ready(l, req[r], mem[r], own[r])
    PROVE  Solo'
<1>1. mem' = [mem EXCEPT ![r] = mem[r]] /\ mem[r] \in Memory
  BY DEF Typed, Contents
<1> QED
  BY <1>1, SoloReads

\* One that writes.
LEMMA SoloWrites ==
    ASSUME Typed, Solo, NEW r \in Slots, NEW l \in Locals, NEW w \in Writes,
           Goto(r, l), UNCHANGED <<req, mem, vars>>, own' = [own EXCEPT ![r] = w],
           Ready(l, req[r], mem[r], w)
    PROVE  Solo'
<1>1. mem' = [mem EXCEPT ![r] = mem[r]] /\ mem[r] \in Memory /\ UNCHANGED <<req, vars>>
  BY DEF Typed, Contents
<1> QED
  BY <1>1, SoloGoes

LEMMA ReadyNow ==
    ASSUME Solo, NEW r \in Slots
    PROVE  Ready(pc[r], req[r], mem[r], own[r])
  BY DEF Solo

LEMMA SoloRepayGet ==
    ASSUME Typed, Solo, NEW r \in Slots, RepayGet(r)
    PROVE  Solo'
<1>1. /\ pc[r] = "repay_get"
      /\ \/ Fail(r)
         \/ Goto(r, "repay_txn") /\ UNCHANGED <<req, mem, own, vars>>
  BY DEF RepayGet, Check
<1>2. req[r].op = "repay"
  BY <1>1, AtWork DEF OpsAt
<1>3. Ready("repay_txn", req[r], mem[r], own[r])
  BY <1>2 DEF Ready, ReadyToPay
<1> QED
  BY <1>1, <1>3, SoloChecks, SoloFail DEF Locals

LEMMA SoloRepayTxn ==
    ASSUME Typed, Solo, NEW r \in Slots, RepayTxn(r)
    PROVE  Solo'
<1> DEFINE t == req[r].txn
           row == [state |-> "posted", account |-> req[r].account]
           w == [own[r] EXCEPT !.txn = One(t, row)]
<1>1. /\ pc[r] = "repay_txn"
      /\ \/ Fail(r)
         \/ /\ own' = [own EXCEPT ![r] = w] /\ Goto(r, "pay_get")
            /\ UNCHANGED <<req, mem, vars>>
            /\ Writer(req[r].user, req[r].account) /\ RoundCents(req[r].pay.amount) > 0
  BY DEF RepayTxn, Write
<1>2. req[r].op = "repay" /\ t \in Transactions /\ req[r].account \in Accounts
  BY <1>1, AtWork DEF OpsAt
<1>3. row \in TxnRow
  BY <1>2 DEF TxnRow
<1>4. One(t, row) \in Overlays(Transactions, TxnRow) /\ One(t, row)[t] = row
  BY <1>2, <1>3, OneTxn
<1> DEFINE one == One(t, row)
<1> HIDE DEF one
<1>5. w \in Writes /\ w.txn = one
  BY <1>4 DEF Typed, Contents, Writes, one
<1> HIDE DEF w
<1>6. w.txn[t] = row
  BY <1>4, <1>5 DEF one
<1>7. CASE /\ own' = [own EXCEPT ![r] = w] /\ Goto(r, "pay_get")
           /\ UNCHANGED <<req, mem, vars>>
           /\ Writer(req[r].user, req[r].account) /\ RoundCents(req[r].pay.amount) > 0
  <2>1. Ready("pay_get", req[r], mem[r], w)
    BY <1>2, <1>6, <1>7 DEF Ready, ReadyToPay
  <2> QED
    BY <1>5, <1>7, <2>1, SoloWrites DEF Locals
<1> QED
  BY <1>1, <1>7, SoloFail

LEMMA SoloPayGet ==
    ASSUME Typed, Solo, NEW r \in Slots, PayGet(r)
    PROVE  Solo'
<1> DEFINE d == req[r].debt
           m == [mem[r] EXCEPT !.debt = Seen(r).debt[d]]
<1>1. /\ pc[r] = "pay_get"
      /\ \/ Fail(r)
         \/ /\ SeesDebt(r, d) /\ mem' = [mem EXCEPT ![r].debt = Seen(r).debt[d]]
            /\ Goto(r, "pay_verify") /\ UNCHANGED <<req, own, vars>>
  BY DEF PayGet, ReadDebt
<1>2. Paying(req[r]) /\ d \in Debts
  BY <1>1, AtWork DEF OpsAt, Paying
<1>3. DOMAIN own[r].debt = {}
  BY <1>1, <1>2 DEF Typed, Fits, DebtsAt, Paying
<1>4. CASE /\ SeesDebt(r, d) /\ mem' = [mem EXCEPT ![r].debt = Seen(r).debt[d]]
           /\ Goto(r, "pay_verify") /\ UNCHANGED <<req, own, vars>>
  <2>1. Seen(r).debt[d] = debt[d] /\ debt[d] \in StoredRow /\ DebtVisible(req[r].user, d)
    BY <1>2, <1>3, <1>4, SeesRow DEF Debt, DebtVisible
  <2>2. m \in Memory /\ mem' = [mem EXCEPT ![r] = m] /\ m.debt = debt[d]
    BY <1>4, <2>1 DEF Typed, Contents, Memory
  <2> HIDE DEF m
  <2>3. Ready("pay_verify", req[r], m, own[r])
    BY <1>1, <1>2, <2>1, <2>2, ReadyNow DEF Ready, ReadyToPay, Paying
  <2> QED
    BY <1>4, <2>2, <2>3, SoloReads DEF Locals
<1> QED
  BY <1>1, <1>4, SoloFail

LEMMA SoloPayVerify ==
    ASSUME Typed, Solo, NEW r \in Slots, PayVerify(r)
    PROVE  Solo'
<1>1. /\ pc[r] = "pay_verify"
      /\ \/ Fail(r)
         \/ Goto(r, "pay_link") /\ UNCHANGED <<req, mem, own, vars>>
  BY DEF PayVerify, Check
<1>2. Paying(req[r])
  BY <1>1, AtWork DEF OpsAt, Paying
<1>3. Ready("pay_link", req[r], mem[r], own[r])
  BY <1>1, <1>2, ReadyNow DEF Ready, ReadyToPay, Paying
<1> QED
  BY <1>1, <1>3, SoloChecks, SoloFail DEF Locals

LEMMA SoloPayLink ==
    ASSUME Typed, Solo, NEW r \in Slots, PayLink(r)
    PROVE  Solo'
<1> DEFINE t == req[r].txn
           l == PaymentLink(req[r].debt, mem[r].debt, req[r].pay)
           w == [own[r] EXCEPT !.link = One(t, l)]
<1>1. /\ pc[r] = "pay_link"
      /\ \/ Fail(r)
         \/ /\ own' = [own EXCEPT ![r] = w] /\ Goto(r, "pay_update")
            /\ UNCHANGED <<req, mem, vars>>
            /\ Seen(r).txn[t].state # "absent" /\ Seen(r).link[t] = NoLink
  BY DEF PayLink, Write
<1>2. /\ Paying(req[r]) /\ t \in Transactions /\ req[r].debt \in Debts
      /\ req[r].pay \in AnyPayment
  BY <1>1, AtWork DEF OpsAt, Paying
<1>3. mem[r].debt \in StoredRow /\ mem[r].debt = debt[req[r].debt]
  BY <1>1, <1>2, ReadyNow DEF Typed, Contents, Memory, Ready, ReadyToPay
<1>4. l \in StoredLink /\ l = PaymentLink(req[r].debt, debt[req[r].debt], req[r].pay)
  BY <1>2, <1>3, StoredRows, PaymentLinkRow DEF StoredLink, PaymentLink
<1> HIDE DEF l
<1>5. One(t, l) \in Overlays(Transactions, StoredLink) /\ One(t, l)[t] = l
  BY <1>2, <1>4, OneLink
<1> DEFINE one == One(t, l)
<1> HIDE DEF one
<1>6. w \in Writes /\ w.link = one /\ w.txn = own[r].txn
  BY <1>5 DEF Typed, Contents, Writes, one
<1> HIDE DEF w
<1>7. w.link[t] = l
  BY <1>5, <1>6 DEF one
<1>8. CASE /\ own' = [own EXCEPT ![r] = w] /\ Goto(r, "pay_update")
           /\ UNCHANGED <<req, mem, vars>>
           /\ Seen(r).txn[t].state # "absent" /\ Seen(r).link[t] = NoLink
  <2>1. DOMAIN own[r].link = {} /\ (req[r].op = "pay" => DOMAIN own[r].txn = {})
    BY <1>1, <1>2 DEF Typed, Fits, LinksAt, TxnsAt, Paying
  <2>2. link[t] = NoLink /\ (req[r].op = "pay" => txn[t].state # "absent")
    BY <1>2, <1>8, <2>1, SeenRows DEF Typed, Link, Txn
  <2>3. Ready("pay_update", req[r], mem[r], w)
    BY <1>1, <1>2, <1>4, <1>6, <1>7, <2>2, ReadyNow DEF Ready, ReadyToPay, Paying
  <2> QED
    BY <1>6, <1>8, <2>3, SoloWrites DEF Locals
<1> QED
  BY <1>1, <1>8, SoloFail

LEMMA StoredSelf ==
    ASSUME NEW row \in StoredRow
    PROVE  /\ \A pay \in AnyPayment :
                  Stored(row, AfterPayment(row, pay)) = AfterPayment(row, pay)
           /\ \A s \in AppStatus \cup DbStatus :
                  Stored(row, AfterUpdate(row, s)) = AfterUpdate(row, s)
           /\ \A l \in LinkRow : Stored(row, AfterRefund(row, l)) = AfterRefund(row, l)
<1>1. row \in DebtRow /\ Row(row)
  BY StoredRows
<1>2. ASSUME NEW new \in DebtRow,
             new.state = row.state, new.user = row.user, new.origin = row.origin
      PROVE  Stored(row, new) = new
  BY <1>1, <1>2 DEF DebtRow, Stored
<1>3. ASSUME NEW s \in AppStatus \cup DbStatus
      PROVE  Stored(row, AfterUpdate(row, s)) = AfterUpdate(row, s)
  <2> DEFINE new == AfterUpdate(row, s)
  <2>1. new.state = row.state /\ new.user = row.user /\ new.origin = row.origin
    BY <1>1 DEF AfterUpdate, SetDebt, DebtRow
  <2>2. new \in DebtRow
    BY UpdatedRow
  <2> HIDE DEF new
  <2>3. Stored(row, new) = new
    BY <1>2, <2>1, <2>2
  <2> QED
    BY <2>3 DEF new
<1>4. ASSUME NEW pay \in AnyPayment
      PROVE  Stored(row, AfterPayment(row, pay)) = AfterPayment(row, pay)
  BY <1>1, <1>2, AfterPaymentFields
<1>5. ASSUME NEW l \in LinkRow
      PROVE  Stored(row, AfterRefund(row, l)) = AfterRefund(row, l)
  BY <1>1, <1>2, AfterRefundRow DEF Row
<1> QED
  BY <1>3, <1>4, <1>5

LEMMA SoloPayUpdate ==
    ASSUME Typed, Solo, NEW r \in Slots, PayUpdate(r)
    PROVE  Solo'
<1> DEFINE d == req[r].debt
           new == AfterPayment(mem[r].debt, req[r].pay)
<1>1. pc[r] = "pay_update" /\ StoreDebt(r, d, new, "pay_reread")
  BY DEF PayUpdate
<1>2. Paying(req[r]) /\ d \in Debts /\ req[r].pay \in AnyPayment
  BY <1>1, AtWork DEF OpsAt, Paying
<1>3. new \in DebtRow
  BY <1>2, PaidRow DEF Typed, Contents, Memory
<1>4. DOMAIN own[r].debt = {}
  BY <1>1, <1>2 DEF Typed, Fits, DebtsAt, Paying
<1>5. Ready("pay_update", req[r], mem[r], own[r])
  BY <1>1, ReadyNow
<1>6. /\ new = AfterPayment(debt[d], req[r].pay) /\ Stored(debt[d], new) = new
      /\ DebtVisible(req[r].user, d)
  <2>1. debt[d] \in StoredRow
    BY <1>2 DEF Typed, Contents
  <2> QED
    BY <1>2, <1>5, <2>1, StoredSelf DEF Ready, ReadyToPay
<1> HIDE DEF new
<1>7. CASE ~SeesDebt(r, d)
  BY <1>2, <1>4, <1>6, <1>7, SeenRows DEF SeesDebt, DebtVisible, Debt, Typed
<1>8. CASE /\ Goto(r, "pay_reread") /\ UNCHANGED <<req, mem, vars>>
           /\ \E w \in Writes : own' = [own EXCEPT ![r] = w] /\ Updates(w, r, d, new)
  <2>1. PICK w \in Writes :
          /\ own' = [own EXCEPT ![r] = w]
          /\ DOMAIN w.debt = {d} /\ w.debt[d] = new
          /\ w.txn = own[r].txn /\ w.link = own[r].link
    BY <1>6, <1>8 DEF Updates
  <2>2. Ready("pay_reread", req[r], mem[r], w)
    BY <1>2, <1>5, <1>6, <2>1 DEF Ready, ReadyToPay, Paying
  <2> QED
    BY <1>8, <2>1, <2>2, SoloWrites DEF Locals
<1>9. \/ Fail(r) \/ ~SeesDebt(r, d)
      \/ /\ Goto(r, "pay_reread") /\ UNCHANGED <<req, mem, vars>>
         /\ \E w \in Writes : own' = [own EXCEPT ![r] = w] /\ Updates(w, r, d, new)
  BY <1>1, <1>2, <1>3, <1>4, StoreDebtIs DEF Locals
<1> QED
  BY <1>7, <1>8, <1>9, SoloFail

LEMMA SoloPayReread ==
    ASSUME Typed, Solo, NEW r \in Slots, PayReread(r)
    PROVE  Solo'
<1>1. /\ pc[r] = "pay_reread"
      /\ \/ Fail(r)
         \/ Goto(r, "commit") /\ UNCHANGED <<req, mem, own, vars>>
  BY DEF PayReread, Check
<1>2. Paying(req[r])
  BY <1>1, AtWork DEF OpsAt, Paying
<1>3. Ready("commit", req[r], mem[r], own[r])
  BY <1>1, <1>2, ReadyNow DEF Ready, ReadyToPay, Paying
<1> QED
  BY <1>1, <1>3, SoloChecks, SoloFail DEF Locals

LEMMA SoloUpdateGet ==
    ASSUME Typed, Solo, NEW r \in Slots, UpdateGet(r)
    PROVE  Solo'
<1> DEFINE d == req[r].debt
           m == [mem[r] EXCEPT !.debt = Seen(r).debt[d]]
<1>1. /\ pc[r] = "update_get"
      /\ \/ Fail(r)
         \/ /\ SeesDebt(r, d) /\ mem' = [mem EXCEPT ![r].debt = Seen(r).debt[d]]
            /\ Goto(r, "update_set") /\ UNCHANGED <<req, own, vars>>
  BY DEF UpdateGet, ReadDebt
<1>2. req[r].op = "update" /\ d \in Debts
  BY <1>1, AtWork DEF OpsAt
<1>3. DOMAIN own[r].debt = {}
  BY <1>1, <1>2 DEF Typed, Fits, DebtsAt, Paying
<1>4. CASE /\ SeesDebt(r, d) /\ mem' = [mem EXCEPT ![r].debt = Seen(r).debt[d]]
           /\ Goto(r, "update_set") /\ UNCHANGED <<req, own, vars>>
  <2>1. Seen(r).debt[d] = debt[d] /\ debt[d] \in StoredRow /\ DebtVisible(req[r].user, d)
    BY <1>2, <1>3, <1>4, SeesRow DEF Debt, DebtVisible
  <2>2. m \in Memory /\ mem' = [mem EXCEPT ![r] = m] /\ m.debt = debt[d]
    BY <1>4, <2>1 DEF Typed, Contents, Memory
  <2> HIDE DEF m
  <2>3. Ready("update_set", req[r], m, own[r])
    BY <1>2, <2>1, <2>2 DEF Ready, ReadyToUpdate, Paying
  <2> QED
    BY <1>4, <2>2, <2>3, SoloReads DEF Locals
<1> QED
  BY <1>1, <1>4, SoloFail

LEMMA SoloUpdateSet ==
    ASSUME Typed, Solo, NEW r \in Slots, UpdateSet(r)
    PROVE  Solo'
<1> DEFINE d == req[r].debt
           new == AfterUpdate(mem[r].debt, req[r].status)
<1>1. pc[r] = "update_set" /\ StoreDebt(r, d, new, "commit")
  BY DEF UpdateSet
<1>2. req[r].op = "update" /\ d \in Debts /\ req[r].status \in AppStatus \cup DbStatus
  BY <1>1, AtWork DEF OpsAt
<1>3. new \in DebtRow
  BY <1>2, UpdatedRow DEF Typed, Contents, Memory
<1>4. DOMAIN own[r].debt = {}
  BY <1>1, <1>2 DEF Typed, Fits, DebtsAt, Paying
<1>5. /\ new = AfterUpdate(debt[d], req[r].status) /\ Stored(debt[d], new) = new
      /\ DebtVisible(req[r].user, d)
  <2>1. debt[d] \in StoredRow
    BY <1>2 DEF Typed, Contents
  <2> QED
    BY <1>1, <1>2, <2>1, StoredSelf, ReadyNow DEF Ready, ReadyToUpdate
<1> HIDE DEF new
<1>6. CASE ~SeesDebt(r, d)
  BY <1>2, <1>4, <1>5, <1>6, SeenRows DEF SeesDebt, DebtVisible, Debt, Typed
<1>7. CASE /\ Goto(r, "commit") /\ UNCHANGED <<req, mem, vars>>
           /\ \E w \in Writes : own' = [own EXCEPT ![r] = w] /\ Updates(w, r, d, new)
  <2>1. PICK w \in Writes :
          /\ own' = [own EXCEPT ![r] = w]
          /\ DOMAIN w.debt = {d} /\ w.debt[d] = new
    BY <1>5, <1>7 DEF Updates
  <2>2. Ready("commit", req[r], mem[r], w)
    BY <1>2, <1>5, <2>1 DEF Ready, ReadyToUpdate, Paying
  <2> QED
    BY <1>7, <2>1, <2>2, SoloWrites DEF Locals
<1>8. \/ Fail(r) \/ ~SeesDebt(r, d)
      \/ /\ Goto(r, "commit") /\ UNCHANGED <<req, mem, vars>>
         /\ \E w \in Writes : own' = [own EXCEPT ![r] = w] /\ Updates(w, r, d, new)
  BY <1>1, <1>2, <1>3, <1>4, StoreDebtIs DEF Locals
<1> QED
  BY <1>6, <1>7, <1>8, SoloFail

\* A debt a link is to.
LEMMA LinkedDebt ==
    ASSUME Typed, NEW t \in Transactions
    PROVE  /\ link[t] \in StoredLink
           /\ link[t] # NoLink => link[t].debt \in Debts
           /\ \A d \in Debts : link[t].debt = d => link[t] # NoLink
<1>1. NoLink.debt \notin Debts
  BY ConstantsAssumption DEF NoLink
<1> QED
  BY <1>1 DEF Typed, Contents, StoredLink

LEMMA SoloDeleteList ==
    ASSUME Typed, Solo, NEW r \in Slots, DeleteList(r)
    PROVE  Solo'
<1> DEFINE t == req[r].txn
           l == link[t]
<1>1. pc[r] = "delete_list" /\ UNCHANGED <<req, own, vars>>
  BY DEF DeleteList
<1>2. req[r].op = "delete" /\ t \in Transactions
  BY <1>1, AtWork DEF OpsAt
<1>3. DOMAIN own[r].debt = {} /\ DOMAIN own[r].link = {}
  BY <1>1, <1>2 DEF Typed, Fits, DebtsAt, LinksAt, Paying
<1>4. Seen(r).link[t] = l
  BY <1>2, <1>3, SeenRows DEF Typed, Link
<1>5. CASE /\ l # NoLink /\ SeesDebt(r, l.debt)
           /\ mem' = [mem EXCEPT ![r].link = l] /\ Goto(r, "delete_get")
  <2> DEFINE m == [mem[r] EXCEPT !.link = l]
  <2>1. m \in Memory /\ mem' = [mem EXCEPT ![r] = m] /\ m.link = l
    BY <1>2, <1>5, LinkedDebt DEF Typed, Contents, Memory
  <2>2. DebtVisible(req[r].user, l.debt)
    BY <1>2, <1>3, <1>5, LinkedDebt, SeesRow DEF Debt, DebtVisible
  <2> HIDE DEF m
  <2>3. Ready("delete_get", req[r], m, own[r])
    BY <1>2, <2>1, <2>2 DEF Ready, ReadyToDelete, Paying
  <2> QED
    BY <1>1, <1>5, <2>1, <2>3, SoloReads DEF Locals
<1>6. CASE /\ ~(l # NoLink /\ SeesDebt(r, l.debt))
           /\ mem' = mem /\ Goto(r, "delete_links")
  <2>1. ASSUME NEW d \in Debts
        PROVE  View(own[r], d) = Refunded(req[r].user, t, d)
    <3>1. ~(l.debt = d /\ DebtVisible(req[r].user, d))
      <4>1. Seen(r).debt[d] = debt[d]
        BY <1>3, SeenRows DEF Typed, Debt
      <4> QED
        BY <1>2, <1>6, <4>1, LinkedDebt DEF SeesDebt, DebtVisible
    <3> QED
      BY <1>3, <3>1 DEF View, Refunded
  <2>2. Ready("delete_links", req[r], mem[r], own[r])
    BY <1>2, <2>1 DEF Ready, ReadyToDelete, Paying
  <2> QED
    BY <1>1, <1>6, <2>2, SoloChecks DEF Locals
<1> QED
  BY <1>4, <1>5, <1>6 DEF DeleteList

LEMMA SoloDeleteGet ==
    ASSUME Typed, Solo, NEW r \in Slots, DeleteGet(r)
    PROVE  Solo'
<1> DEFINE d == mem[r].link.debt
           m == [mem[r] EXCEPT !.debt = Seen(r).debt[d]]
<1>1. /\ pc[r] = "delete_get"
      /\ \/ Fail(r)
         \/ /\ SeesDebt(r, d) /\ mem' = [mem EXCEPT ![r].debt = Seen(r).debt[d]]
            /\ Goto(r, "delete_refund") /\ UNCHANGED <<req, own, vars>>
  BY DEF DeleteGet, ReadDebt
<1>2. req[r].op = "delete" /\ d \in Debts
  BY <1>1, AtWork DEF OpsAt, Typed, Fits
<1>3. DOMAIN own[r].debt = {}
  BY <1>1, <1>2 DEF Typed, Fits, DebtsAt, Paying
<1>4. mem[r].link = link[req[r].txn]
  BY <1>1, <1>2, ReadyNow DEF Ready, ReadyToDelete
<1>5. CASE /\ SeesDebt(r, d) /\ mem' = [mem EXCEPT ![r].debt = Seen(r).debt[d]]
           /\ Goto(r, "delete_refund") /\ UNCHANGED <<req, own, vars>>
  <2>1. Seen(r).debt[d] = debt[d] /\ debt[d] \in StoredRow /\ DebtVisible(req[r].user, d)
    BY <1>2, <1>3, <1>5, SeesRow DEF Debt, DebtVisible
  <2>2. /\ m \in Memory /\ mem' = [mem EXCEPT ![r] = m]
        /\ m.debt = debt[d] /\ m.link = mem[r].link
    BY <1>5, <2>1 DEF Typed, Contents, Memory
  <2> HIDE DEF m
  <2>3. Ready("delete_refund", req[r], m, own[r])
    BY <1>2, <1>4, <2>1, <2>2 DEF Ready, ReadyToDelete, Paying
  <2> QED
    BY <1>5, <2>2, <2>3, SoloReads DEF Locals
<1> QED
  BY <1>1, <1>5, SoloFail

LEMMA SoloDeleteRefund ==
    ASSUME Typed, Solo, NEW r \in Slots, DeleteRefund(r)
    PROVE  Solo'
<1> DEFINE t == req[r].txn
           d == mem[r].link.debt
           new == AfterRefund(mem[r].debt, mem[r].link)
<1>1. pc[r] = "delete_refund" /\ StoreDebt(r, d, new, "delete_links")
  BY DEF DeleteRefund
<1>2. req[r].op = "delete" /\ d \in Debts
  BY <1>1, AtWork DEF OpsAt, Typed, Fits
<1>3. mem[r].debt \in StoredRow /\ mem[r].link \in LinkRow
  BY DEF Typed, Contents, Memory, StoredLink
<1>4. new \in DebtRow
  BY <1>3, StoredRows, AfterRefundRow DEF Row
<1>5. DOMAIN own[r].debt = {}
  BY <1>1, <1>2 DEF Typed, Fits, DebtsAt, Paying
<1>6. /\ mem[r].link = link[t] /\ mem[r].debt = debt[d]
      /\ DebtVisible(req[r].user, d)
  BY <1>1, <1>2, ReadyNow DEF Ready, ReadyToDelete
<1>7. new = AfterRefund(debt[d], link[t]) /\ Stored(debt[d], new) = new
  BY <1>3, <1>6, StoredSelf
<1> HIDE DEF new
<1>8. CASE ~SeesDebt(r, d)
  BY <1>2, <1>5, <1>6, <1>8, SeenRows DEF SeesDebt, DebtVisible, Debt, Typed
<1>9. CASE /\ Goto(r, "delete_links") /\ UNCHANGED <<req, mem, vars>>
           /\ \E w \in Writes : own' = [own EXCEPT ![r] = w] /\ Updates(w, r, d, new)
  <2>1. PICK w \in Writes :
          /\ own' = [own EXCEPT ![r] = w]
          /\ DOMAIN w.debt = {d} /\ w.debt[d] = new
    BY <1>7, <1>9 DEF Updates
  <2>2. \A e \in Debts : View(w, e) = Refunded(req[r].user, t, e)
    BY <1>6, <1>7, <2>1 DEF View, Refunded
  <2>3. Ready("delete_links", req[r], mem[r], w)
    BY <1>2, <2>2 DEF Ready, ReadyToDelete, Paying
  <2> QED
    BY <1>9, <2>1, <2>3, SoloWrites DEF Locals
<1>10. \/ Fail(r) \/ ~SeesDebt(r, d)
       \/ /\ Goto(r, "delete_links") /\ UNCHANGED <<req, mem, vars>>
          /\ \E w \in Writes : own' = [own EXCEPT ![r] = w] /\ Updates(w, r, d, new)
  BY <1>1, <1>2, <1>4, <1>5, StoreDebtIs DEF Locals
<1> QED
  BY <1>8, <1>9, <1>10, SoloFail

LEMMA SoloDeleteLinks ==
    ASSUME Typed, Solo, NEW r \in Slots, DeleteLinks(r)
    PROVE  Solo'
<1> DEFINE t == req[r].txn
           u == req[r].user
           w == [own[r] EXCEPT !.link = One(t, NoLink)]
<1>1. pc[r] = "delete_links" /\ Goto(r, "delete_debts") /\ UNCHANGED <<req, mem, vars>>
  BY DEF DeleteLinks, Write
<1>2. req[r].op = "delete" /\ t \in Transactions
  BY <1>1, AtWork DEF OpsAt
<1>3. Fits("delete_links", req[r], mem[r], own[r]) /\ Holds("delete_links", req[r], own[r])
  BY <1>1 DEF Typed
<1>4. DOMAIN own[r].link = {}
  BY <1>2, <1>3 DEF Fits, LinksAt, Paying
<1>5. Seen(r).link[t] = link[t]
  BY <1>2, <1>4, SeenRows DEF Typed, Link
<1>6. \A d \in Debts : Seen(r).debt[d].user = u <=> debt[d].user = u
  BY <1>3, SeenRows DEF Fits, Holds, Debt, Typed
<1>7. Ours(u, link[t]) <=> link[t] # NoLink /\ Seen(r).debt[link[t].debt].user = u
  BY <1>2, <1>6, LinkedDebt DEF Ours
<1>8. \A d \in Debts : debt[d].user = u => View(own[r], d) = Refunded(u, t, d)
  BY <1>1, <1>2, ReadyNow DEF Ready, ReadyToDelete
<1>9. CASE ~Ours(u, link[t]) /\ UNCHANGED own
  <2>1. Ready("delete_debts", req[r], mem[r], own[r])
    BY <1>2, <1>4, <1>8, <1>9 DEF Ready, ReadyToDelete, Paying
  <2> QED
    BY <1>1, <1>9, <2>1, SoloChecks DEF Locals
<1>10. CASE Ours(u, link[t]) /\ own' = [own EXCEPT ![r] = w]
  <2> DEFINE one == One(t, NoLink)
  <2>1. one \in Overlays(Transactions, StoredLink) /\ DOMAIN one = {t}
    BY <1>2, BlankRows, OneLink
  <2> HIDE DEF one
  <2>2. w \in Writes /\ w.link = one /\ w.debt = own[r].debt
    BY <2>1 DEF Typed, Contents, Writes, one
  <2> HIDE DEF w
  <2>3. Ready("delete_debts", req[r], mem[r], w)
    BY <1>2, <1>8, <1>10, <2>1, <2>2 DEF Ready, ReadyToDelete, Paying, View
  <2> QED
    BY <1>1, <1>10, <2>2, <2>3, SoloWrites DEF Locals
<1> QED
  BY <1>5, <1>7, <1>9, <1>10 DEF DeleteLinks, Write

LEMMA SoloDeleteDebts ==
    ASSUME Typed, Solo, NEW r \in Slots, WaitsFor(r) = {}, DeleteDebts(r)
    PROVE  Solo'
<1> DEFINE t == req[r].txn
           u == req[r].user
<1>1. pc[r] = "delete_debts" /\ Goto(r, "delete_check") /\ UNCHANGED <<req, mem, vars>>
  BY DeleteDebtsIs
<1>2. PICK w \in Writes :
        /\ own' = [own EXCEPT ![r] = w]
        /\ w.txn = own[r].txn /\ w.link = own[r].link
        /\ DOMAIN w.debt = Originated(r) \cup DOMAIN own[r].debt
        /\ \A d \in DOMAIN w.debt :
               w.debt[d] = IF d \in Originated(r)
                           THEN [Debt(r, d) EXCEPT !.state = "deleted"]
                           ELSE own[r].debt[d]
  BY DeleteDebtsIs
<1>3. req[r].op = "delete" /\ t \in Transactions
  BY <1>1, AtWork DEF OpsAt
<1>4. Ready("delete_debts", req[r], mem[r], own[r])
  BY <1>1, ReadyNow
<1>5. ASSUME NEW d \in Debts, debt[d].user = u
      PROVE  View(w, d) = Cleaned(u, t, d)
  <2> DEFINE row == Refunded(u, t, d)
  <2>1. Debt(r, d) = row
    BY <1>3, <1>4, <1>5 DEF Ready, ReadyToDelete, View, Debt
  <2>2. Seen(r).debt[d] = row
    BY <2>1, SeenRows DEF Typed
  <2>3. d \in Originated(r) <=> row.state = "live" /\ row.user = u /\ row.origin = t
    BY <2>2 DEF Originated, SeesDebt
  <2>4. View(w, d) = IF d \in Originated(r) THEN [row EXCEPT !.state = "deleted"] ELSE row
    BY <1>2, <2>1 DEF View, Debt
  <2>5. Cleaned(u, t, d) = IF row.state = "live" /\ row.user = u /\ row.origin = t
                           THEN [row EXCEPT !.state = "deleted"] ELSE row
    BY DEF Cleaned, Refunded
  <2> QED
    BY <2>3, <2>4, <2>5
<1>6. Ready("delete_check", req[r], mem[r], w)
  BY <1>2, <1>3, <1>4, <1>5 DEF Ready, ReadyToDelete, Paying
<1> QED
  BY <1>1, <1>2, <1>6, SoloWrites DEF Locals

LEMMA SoloDeleteCheck ==
    ASSUME Typed, Solo, NEW r \in Slots, DeleteCheck(r)
    PROVE  Solo'
<1> DEFINE t == req[r].txn
<1>1. /\ pc[r] = "delete_check"
      /\ \/ Fail(r)
         \/ /\ Seen(r).txn[t].state = "posted" /\ Member(req[r].user, Seen(r).txn[t].account)
            /\ Goto(r, "delete_set") /\ UNCHANGED <<req, mem, own, vars>>
  BY DEF DeleteCheck, Check
<1>2. req[r].op = "delete" /\ t \in Transactions
  BY <1>1, AtWork DEF OpsAt
<1>3. Seen(r).txn[t] = txn[t]
  BY <1>1, <1>2, SeenRows DEF Typed, Fits, TxnsAt, Txn
<1>4. CASE /\ Seen(r).txn[t].state = "posted" /\ Member(req[r].user, Seen(r).txn[t].account)
           /\ Goto(r, "delete_set") /\ UNCHANGED <<req, mem, own, vars>>
  <2>1. TxnVisible(req[r].user, t)
    BY <1>3, <1>4 DEF TxnVisible
  <2>2. Ready("delete_set", req[r], mem[r], own[r])
    BY <1>1, <1>2, <2>1, ReadyNow DEF Ready, ReadyToDelete, Paying
  <2> QED
    BY <1>4, <2>2, SoloChecks DEF Locals
<1> QED
  BY <1>1, <1>4, SoloFail

LEMMA SoloDeleteSet ==
    ASSUME Typed, Solo, NEW r \in Slots, DeleteSet(r)
    PROVE  Solo'
<1> DEFINE t == req[r].txn
           row == [Seen(r).txn[t] EXCEPT !.state = "deleted"]
           w == [own[r] EXCEPT !.txn = One(t, row)]
<1>1. /\ pc[r] = "delete_set" /\ Goto(r, "commit") /\ UNCHANGED <<req, mem, vars>>
      /\ own' = [own EXCEPT ![r] = w]
  BY DEF DeleteSet, Write
<1>2. req[r].op = "delete" /\ t \in Transactions
  BY <1>1, AtWork DEF OpsAt
<1>3. Seen(r).txn[t] = txn[t] /\ txn[t] \in TxnRow
  BY <1>1, <1>2, SeenRows DEF Typed, Fits, TxnsAt, Txn
<1>4. row \in TxnRow /\ row = [txn[t] EXCEPT !.state = "deleted"]
  BY <1>3 DEF TxnRow
<1> HIDE DEF row
<1>5. One(t, row) \in Overlays(Transactions, TxnRow) /\ One(t, row)[t] = row
  <2> HIDE DEF t
  <2> QED
    BY <1>2, <1>4, OneTxn
<1> DEFINE one == One(t, row)
<1> HIDE DEF one
<1>6. /\ w \in Writes /\ w.txn = one
      /\ w.debt = own[r].debt /\ w.link = own[r].link
  BY <1>5 DEF Typed, Contents, Writes, one
<1> HIDE DEF w
<1>7. w.txn[t] = [txn[t] EXCEPT !.state = "deleted"]
  BY <1>4, <1>5, <1>6 DEF one
<1>8. Ready("delete_set", req[r], mem[r], own[r])
  BY <1>1, ReadyNow
<1>9. Ready("commit", req[r], mem[r], w)
  BY <1>2, <1>6, <1>7, <1>8 DEF Ready, ReadyToDelete, Paying, View
<1> QED
  BY <1>1, <1>6, <1>9, SoloWrites DEF Locals

LEMMA SoloInner ==
    ASSUME Typed, Solo, NEW r \in Slots, WaitsFor(r) = {}, Inner(r)
    PROVE  Solo'
  BY SoloRepayGet, SoloRepayTxn, SoloPayGet, SoloPayVerify, SoloPayLink, SoloPayUpdate,
     SoloPayReread, SoloUpdateGet, SoloUpdateSet, SoloDeleteList, SoloDeleteGet,
     SoloDeleteRefund, SoloDeleteLinks, SoloDeleteDebts, SoloDeleteCheck, SoloDeleteSet
     DEF Inner

-----------------------------------------------------------------------------
(* What the steps of others leave alone *)

\* The step concerns other users than u: none of their debts changes, and no
\* link to one of them comes or goes.
Foreign(u) ==
    /\ \A d \in Debts : debt[d].user = u \/ debt'[d].user = u => debt'[d] = debt[d]
    /\ \A t \in Transactions :
           link'[t] # link[t] => ~Ours(u, link[t]) /\ ~Ours(u, link'[t])

Leaves(x) ==
    /\ Foreign(req[x].user)
    /\ \A t \in DOMAIN own[x].link : link'[t] = link[t]
    /\ req[x].op = "delete" =>
           txn[req[x].txn].state = "absent" \/ txn'[req[x].txn] = txn[req[x].txn]

LEMMA ReadyToPayKept ==
    ASSUME Typed, NEW x \in Slots, Evolves, Leaves(x), Paying(req[x]), NEW l, l = pc[x],
           ReadyToPay(l, req[x], mem[x], own[x]),
           req'[x] = req[x], mem'[x] = mem[x], own'[x] = own[x]
    PROVE  ReadyToPay(l, req[x], mem[x], own[x])'
<1> DEFINE q == req[x]
           d == q.debt
           t == q.txn
<1>1. l # "idle" /\ Fits(l, q, mem[x], own[x])
  BY DEF Typed, Fits, OpsAt, Paying
<1>2. d \in Debts /\ t \in Transactions
  BY <1>1, AtWork DEF Paying
<1>3. DebtVisible(q.user, d) => debt'[d] = debt[d]
  BY <1>2 DEF DebtVisible, Leaves, Foreign
<1>4. l \in {"pay_update", "pay_reread", "commit"} => link'[t] = link[t]
  BY <1>1 DEF Fits, LinksAt, Leaves
<1>5. txn[t].state # "absent" => txn'[t].state # "absent"
  BY <1>2 DEF Evolves
<1> QED
  BY <1>3, <1>4, <1>5 DEF ReadyToPay, DebtVisible

LEMMA ReadyToUpdateKept ==
    ASSUME Typed, NEW x \in Slots, Leaves(x), req[x].op = "update", NEW l, l = pc[x],
           ReadyToUpdate(l, req[x], mem[x], own[x]),
           req'[x] = req[x], mem'[x] = mem[x], own'[x] = own[x]
    PROVE  ReadyToUpdate(l, req[x], mem[x], own[x])'
<1> DEFINE q == req[x]
           d == q.debt
<1>1. l # "idle"
  BY DEF Typed, Fits, OpsAt
<1>2. d \in Debts
  BY <1>1, AtWork
<1>3. DebtVisible(q.user, d) => debt'[d] = debt[d]
  BY <1>2 DEF DebtVisible, Leaves, Foreign
<1> QED
  BY <1>3 DEF ReadyToUpdate, DebtVisible

\* What a delete makes of its user's debts does not depend on others.
LEMMA RefundsKept ==
    ASSUME Typed, NEW u, Foreign(u), NEW t \in Transactions, NEW d \in Debts,
           debt'[d].user = u
    PROVE  /\ debt'[d] = debt[d] /\ debt[d].user = u
           /\ Refunded(u, t, d)' = Refunded(u, t, d) /\ Cleaned(u, t, d)' = Cleaned(u, t, d)
<1>1. debt'[d] = debt[d] /\ debt[d].user = u
  BY DEF Foreign
<1>2. DebtVisible(u, d)' <=> DebtVisible(u, d)
  BY <1>1 DEF DebtVisible
<1>3. CASE link'[t] = link[t]
  BY <1>1, <1>2, <1>3 DEF Refunded, Cleaned
<1>4. CASE link'[t] # link[t]
  <2>1. ~Ours(u, link[t]) /\ ~Ours(u, link'[t])
    BY <1>4 DEF Foreign
  <2>2. d # NoLink.debt
    BY ConstantsAssumption DEF NoLink
  <2>3. link[t].debt # d /\ link'[t].debt # d
    BY <1>1, <2>1, <2>2 DEF Ours
  <2> QED
    BY <1>1, <2>3 DEF Refunded, Cleaned
<1> QED
  BY <1>1, <1>3, <1>4

LEMMA OursKept ==
    ASSUME Typed, NEW u, Foreign(u), NEW t \in Transactions, Contents'
    PROVE  /\ Ours(u, link[t])' <=> Ours(u, link[t])
           /\ Ours(u, link[t]) => link'[t] = link[t]
<1>1. /\ link[t] # NoLink => link[t].debt \in Debts
      /\ link'[t] # NoLink => link'[t].debt \in Debts
  BY DEF Typed, Contents, StoredLink
<1>2. \A d \in Debts : debt'[d].user = u <=> debt[d].user = u
  BY DEF Foreign
<1>3. Ours(u, link[t])' <=> Ours(u, link'[t])
  BY <1>1, <1>2 DEF Ours
<1> QED
  BY <1>3 DEF Foreign

LEMMA ReadyToDeleteKept ==
    ASSUME Typed, NEW x \in Slots, Leaves(x), Contents', req[x].op = "delete",
           NEW l, l = pc[x], ReadyToDelete(l, req[x], mem[x], own[x]),
           req'[x] = req[x], mem'[x] = mem[x], own'[x] = own[x]
    PROVE  ReadyToDelete(l, req[x], mem[x], own[x])'
<1> DEFINE q == req[x]
           u == q.user
           t == q.txn
           w == own[x]
<1>1. l # "idle" /\ Fits(l, q, mem[x], w)
  BY DEF Typed, Fits, OpsAt
<1>2. t \in Transactions
  BY <1>1, AtWork
<1>3. Foreign(u)
  BY DEF Leaves
<1>4. l \in {"delete_get", "delete_refund"} =>
         /\ mem[x].link = link'[t] /\ DebtVisible(u, link[t].debt)'
         /\ link'[t] = link[t] /\ debt'[link[t].debt] = debt[link[t].debt]
  <2> SUFFICES ASSUME l \in {"delete_get", "delete_refund"}
               PROVE  /\ mem[x].link = link'[t] /\ DebtVisible(u, link[t].debt)'
                      /\ link'[t] = link[t] /\ debt'[link[t].debt] = debt[link[t].debt]
    OBVIOUS
  <2>1. /\ mem[x].link = link[t] /\ DebtVisible(u, link[t].debt)
        /\ link[t].debt \in Debts
    BY <1>1 DEF Fits, ReadyToDelete
  <2>2. Ours(u, link[t])
    BY <1>2, <2>1, LinkedDebt DEF Ours, DebtVisible
  <2>3. link'[t] = link[t]
    BY <1>2, <1>3, <2>2, OursKept
  <2>4. debt'[link[t].debt] = debt[link[t].debt]
    BY <1>3, <2>1 DEF Foreign, DebtVisible
  <2> QED
    BY <2>1, <2>3, <2>4 DEF DebtVisible
<1>5. \A d \in Debts : debt'[d].user = u =>
         /\ debt[d].user = u /\ View(w, d)' = View(w, d)
         /\ Refunded(u, t, d)' = Refunded(u, t, d) /\ Cleaned(u, t, d)' = Cleaned(u, t, d)
  <2> SUFFICES ASSUME NEW d \in Debts, debt'[d].user = u
               PROVE  /\ debt[d].user = u /\ View(w, d)' = View(w, d)
                      /\ Refunded(u, t, d)' = Refunded(u, t, d)
                      /\ Cleaned(u, t, d)' = Cleaned(u, t, d)
    OBVIOUS
  <2>1. PICK v, s : v = u /\ s = t
    OBVIOUS
  <2>2. /\ debt'[d] = debt[d] /\ debt[d].user = v
        /\ Refunded(v, s, d)' = Refunded(v, s, d) /\ Cleaned(v, s, d)' = Cleaned(v, s, d)
    BY <1>2, <1>3, <2>1, RefundsKept
  <2>3. u' = v /\ t' = s
    BY <2>1
  <2> QED
    BY <2>1, <2>2, <2>3 DEF View, Refunded, Cleaned, DebtVisible
<1>6. Ours(u, link[t])' <=> Ours(u, link[t])
  <2>1. PICK v, s : v = u /\ s = t
    OBVIOUS
  <2>2. Ours(v, link[s])' <=> Ours(v, link[s])
    BY <1>2, <1>3, <2>1, OursKept
  <2> QED
    BY <2>1, <2>2 DEF Ours
<1>7. TxnVisible(u, t) => txn'[t] = txn[t]
  BY DEF TxnVisible, Leaves
<1>8. l \in {"delete_links", "delete_debts"} =>
         \A d \in Debts : debt'[d].user = u => View(w, d)' = Refunded(u, t, d)'
  BY <1>5 DEF ReadyToDelete
<1>9. l \in {"delete_check", "delete_set", "commit"} =>
         \A d \in Debts : debt'[d].user = u => View(w, d)' = Cleaned(u, t, d)'
  BY <1>5 DEF ReadyToDelete
<1>10. /\ l \in {"delete_debts", "delete_check", "delete_set", "commit"} =>
             (t \in DOMAIN w.link <=> Ours(u, link[t])')
       /\ l \in {"delete_set", "commit"} => TxnVisible(u, t)'
       /\ l = "commit" => w.txn[t] = [txn'[t] EXCEPT !.state = "deleted"]
  BY <1>6, <1>7 DEF ReadyToDelete, TxnVisible
<1>11. l = "delete_refund" => mem[x].debt = debt'[link'[t].debt]
  BY <1>4 DEF ReadyToDelete
<1>12. u' = u /\ t' = t /\ w' = w /\ mem'[x] = mem[x]
  OBVIOUS
<1> HIDE DEF u, t, w
<1>13. ReadyToDelete(l, q, mem[x], w)'
  BY <1>4, <1>8, <1>9, <1>10, <1>11, <1>12 DEF ReadyToDelete, u, t
<1> QED
  BY <1>13 DEF w

\* The slots S keep what they have while the tables evolve.
LEMMA SoloTables ==
    ASSUME Typed, Solo, NEW S, S \subseteq Slots, Contents', Evolves,
           \A x \in S : req[x].op # "none" => Leaves(x),
           \A x \in S : /\ pc'[x] = pc[x] /\ req'[x] = req[x]
                        /\ mem'[x] = mem[x] /\ own'[x] = own[x],
           \A x \in Slots \ S : req'[x] = NoRequest
    PROVE  Solo'
<1>1. Alone'
  <2>1. \A x \in Slots : req'[x].op # "none" => x \in S /\ req'[x] = req[x]
    BY OpOfNone
  <2> QED
    BY <2>1 DEF Solo, Alone, SameDelete
<1>2. ASSUME NEW x \in Slots
      PROVE  Ready(pc[x], req[x], mem[x], own[x])'
  <2>1. CASE req'[x].op = "none"
    BY <2>1 DEF Ready, Paying
  <2>2. CASE req'[x].op # "none"
    <3>1. /\ Leaves(x) /\ pc'[x] = pc[x] /\ req'[x] = req[x]
          /\ mem'[x] = mem[x] /\ own'[x] = own[x]
      BY <2>2, OpOfNone
    <3>2. PICK l : l = pc[x]
      OBVIOUS
    <3>3. Ready(l, req[x], mem[x], own[x])
      BY <3>2 DEF Solo
    <3>4. Paying(req[x]) => ReadyToPay(l, req[x], mem[x], own[x])'
      BY <3>1, <3>2, <3>3, ReadyToPayKept DEF Ready
    <3>5. req[x].op = "update" => ReadyToUpdate(l, req[x], mem[x], own[x])'
      BY <3>1, <3>2, <3>3, ReadyToUpdateKept DEF Ready
    <3>6. req[x].op = "delete" => ReadyToDelete(l, req[x], mem[x], own[x])'
      BY <3>1, <3>2, <3>3, ReadyToDeleteKept DEF Ready
    <3>7. Ready(l, req[x], mem[x], own[x])'
      BY <3>1, <3>4, <3>5, <3>6 DEF Ready, Paying
    <3>8. pc'[x] = l
      BY <3>1, <3>2
    <3> QED
      BY <3>7, <3>8
  <2> QED
    BY <2>1, <2>2
<1> QED
  BY <1>1, <1>2 DEF Solo

LEMMA CommitLeaves ==
    ASSUME Typed, Solo, NEW r \in Slots, Commit(r), NEW x \in Slots \ {r},
           req[x].op # "none"
    PROVE  Leaves(x)
<1> DEFINE u == req[x].user
           q == req[r]
<1>1. /\ pc[r] = "commit" /\ Fits("commit", q, mem[r], own[r])
      /\ Holds("commit", q, own[r]) /\ Ready("commit", q, mem[r], own[r])
  BY ReadyNow DEF Commit, Typed
<1>2. q.op \in {"repay", "pay", "update", "delete"}
  BY <1>1, AtWork DEF OpsAt
<1>3. q.user # u /\ ~SameDelete(q, req[x])
  BY <1>2 DEF Solo, Alone
<1>4. \A d \in Debts : debt[d].user = u \/ debt'[d].user = u => debt'[d] = debt[d]
  BY <1>1, <1>3, CommitTables DEF Debt, Fits, Holds
<1>5. ASSUME NEW t \in Transactions, link'[t] # link[t]
      PROVE  ~Ours(u, link[t]) /\ ~Ours(u, link'[t])
  <2>1. t \in DOMAIN own[r].link /\ link'[t] = own[r].link[t]
    BY <1>5, CommitTables DEF Link
  <2>2. CASE Paying(q)
    <3>1. t = q.txn /\ link'[t].debt = q.debt
      BY <1>1, <2>1, <2>2 DEF Fits, LinksAt
    <3>2. link[t] = NoLink /\ debt[q.debt].user = q.user
      BY <1>1, <2>2, <3>1 DEF Ready, ReadyToPay, DebtVisible
    <3> QED
      BY <1>3, <3>1, <3>2 DEF Ours
  <2>3. CASE q.op = "delete"
    <3>1. t = q.txn /\ link'[t] = NoLink
      BY <1>1, <2>1, <2>3 DEF Fits, LinksAt, Paying
    <3>2. Ours(q.user, link[t])
      BY <1>1, <2>1, <2>3, <3>1 DEF Ready, ReadyToDelete
    <3> QED
      BY <1>3, <3>1, <3>2 DEF Ours
  <2> QED
    BY <1>1, <1>2, <2>1, <2>2, <2>3 DEF Fits, LinksAt, Paying
<1>6. \A t \in DOMAIN own[x].link : link'[t] = link[t]
  <2>1. DOMAIN own[x].link \subseteq Transactions
    BY OverlayRows DEF Typed, Contents, Writes
  <2>2. \A t \in DOMAIN own[x].link : t \notin DOMAIN own[r].link
    BY DEF Typed, Apart
  <2> QED
    BY <2>1, <2>2, CommitTables DEF Link
<1>7. ASSUME req[x].op = "delete"
      PROVE  txn[req[x].txn].state = "absent" \/ txn'[req[x].txn] = txn[req[x].txn]
  <2>1. pc[x] # "idle"
    BY <1>7 DEF Typed, Fits, OpsAt
  <2>2. req[x].txn \in Transactions
    BY <1>7, <2>1, AtWork
  <2>3. CASE req[x].txn \notin DOMAIN own[r].txn
    BY <2>2, <2>3, CommitTables DEF Txn
  <2>4. CASE req[x].txn \in DOMAIN own[r].txn
    <3>1. req[x].txn = q.txn /\ q.op \in {"repay", "delete"}
      BY <1>1, <2>4 DEF Fits, TxnsAt
    <3>2. q.op # "delete"
      BY <1>3, <1>7, <3>1 DEF SameDelete
    <3> QED
      BY <1>1, <3>1, <3>2 DEF Holds
  <2> QED
    BY <2>3, <2>4
<1> QED
  BY <1>4, <1>5, <1>6, <1>7 DEF Leaves, Foreign

LEMMA SoloCommit ==
    ASSUME Typed, Solo, NEW r \in Slots, Commit(r)
    PROVE  Solo'
<1>1. Release(r)
  BY DEF Commit
<1>2. Contents'
  BY CommitKeeps DEF Typed
<1> DEFINE S == Slots \ {r}
<1>3. /\ \A x \in S : /\ pc'[x] = pc[x] /\ req'[x] = req[x]
                      /\ mem'[x] = mem[x] /\ own'[x] = own[x]
      /\ \A x \in Slots \ S : req'[x] = NoRequest
  BY <1>1, ReleaseIs DEF Typed
<1>4. Evolves /\ \A x \in S : req[x].op # "none" => Leaves(x)
  BY CommitTables, CommitLeaves
<1>5. S \subseteq Slots
  OBVIOUS
<1> HIDE DEF S
<1> QED
  BY <1>2, <1>3, <1>4, <1>5, SoloTables

LEMMA SoloDrop ==
    ASSUME Typed, Solo, NEW r \in Slots, WaitsFor(r) = {}, Drop(r)
    PROVE  Solo'
<1> DEFINE d == req[r].debt
           S == Slots \ {r}
<1>1. /\ pc[r] = "drop" /\ UNCHANGED <<txn, link>> /\ Release(r)
      /\ debt' = IF debt[d].user = req[r].user
                 THEN [debt EXCEPT ![d].state = "deleted"] ELSE debt
  BY DEF Drop
<1>2. req[r].op = "drop" /\ d \in Debts
  BY <1>1, AtWork DEF OpsAt
<1>3. \A e \in Debts : \/ debt'[e] = debt[e]
                       \/ debt[e].user = req[r].user /\ debt'[e].user = req[r].user
  BY <1>1, <1>2 DEF Typed, Contents, StoredRow, DebtRow
<1>4. ASSUME NEW x \in S, req[x].op # "none"
      PROVE  Leaves(x)
  <2>1. req[x].user # req[r].user
    BY <1>2, <1>4 DEF Solo, Alone
  <2> QED
    BY <1>1, <1>3, <2>1 DEF Leaves, Foreign
<1>5. Contents'
  BY DropKeeps DEF Typed
<1>6. /\ \A x \in S : /\ pc'[x] = pc[x] /\ req'[x] = req[x]
                      /\ mem'[x] = mem[x] /\ own'[x] = own[x]
      /\ \A x \in Slots \ S : req'[x] = NoRequest
  BY <1>1, ReleaseIs DEF Typed
<1>7. Evolves /\ S \subseteq Slots
  BY DropTables
<1> HIDE DEF S
<1> QED
  BY <1>4, <1>5, <1>6, <1>7, SoloTables

LEMMA SoloCreate ==
    ASSUME Typed, Solo, Overlap = "none", NEW u \in Users, Create(u)
    PROVE  Solo'
<1>1. /\ CreateBy(u) /\ UNCHANGED <<pc, req, mem, own>>
      /\ \A r \in InFlight : req[r].user # u
  BY DEF Create
<1>2. /\ UNCHANGED link
      /\ \A d \in Debts : \/ debt'[d] = debt[d]
                          \/ /\ debt[d].state = "absent"
                             /\ debt'[d].state = "live" /\ debt'[d].user = u
      /\ \A t \in Transactions : \/ txn'[t] = txn[t]
                                 \/ txn[t].state = "absent" /\ txn'[t].state # "absent"
  BY <1>1, CreateTables
<1>3. ASSUME NEW x \in Slots, req[x].op # "none"
      PROVE  Leaves(x)
  <2>1. pc[x] # "idle"
    BY <1>3 DEF Typed, Fits, OpsAt
  <2>2. req[x].user # u /\ req[x].user # None
    BY <1>1, <2>1, AtWork, ConstantsAssumption DEF InFlight
  <2>3. \A d \in Debts : debt[d].state = "absent" => debt[d].user = None
    BY DEF Typed, Contents
  <2>4. Foreign(req[x].user)
    BY <1>2, <2>2, <2>3 DEF Foreign
  <2>5. req[x].op = "delete" => req[x].txn \in Transactions
    BY <2>1, AtWork
  <2> QED
    BY <1>2, <2>4, <2>5 DEF Leaves
<1>4. Contents' /\ Evolves
  BY CreateKeeps DEF Typed
<1> DEFINE S == Slots
<1>5. /\ S \subseteq Slots /\ \A x \in S : req[x].op # "none" => Leaves(x)
      /\ \A x \in S : /\ pc'[x] = pc[x] /\ req'[x] = req[x]
                      /\ mem'[x] = mem[x] /\ own'[x] = own[x]
      /\ \A x \in Slots \ S : req'[x] = NoRequest
  BY <1>1, <1>3
<1> HIDE DEF S
<1> QED
  BY <1>4, <1>5, SoloTables

LEMMA SoloInit == StmtInit => Solo
<1> SUFFICES ASSUME StmtInit PROVE Solo
  OBVIOUS
<1>1. \A r \in Slots : req[r].op = "none"
  BY OpOfNone DEF StmtInit, AllIdle
<1> QED
  BY <1>1 DEF Solo, Alone, Ready, Paying

LEMMA SoloNext ==
    ASSUME Overlap = "none"
    PROVE  Typed /\ Solo /\ [StmtNext]_allVars => Solo'
<1>1. ASSUME Solo, UNCHANGED allVars PROVE Solo'
  <2>1. Alone'
    BY <1>1 DEF allVars, Solo, Alone
  <2>2. ASSUME NEW x \in Slots PROVE Ready(pc[x], req[x], mem[x], own[x])'
    <3>1. Ready(pc[x], req[x], mem[x], own[x])
      BY <1>1 DEF Solo
    <3>2. Paying(req[x])' => ReadyToPay(pc[x], req[x], mem[x], own[x])'
      BY <1>1, <3>1 DEF allVars, Ready, ReadyToPay, DebtVisible
    <3>3. req'[x].op = "update" => ReadyToUpdate(pc[x], req[x], mem[x], own[x])'
      BY <1>1, <3>1 DEF allVars, Ready, ReadyToUpdate, DebtVisible
    <3>4. req'[x].op = "delete" => ReadyToDelete(pc[x], req[x], mem[x], own[x])'
      BY <1>1, <3>1 DEF allVars, Ready, ReadyToDelete, View, Refunded, Cleaned, Ours,
                        TxnVisible, DebtVisible
    <3> QED
      BY <3>2, <3>3, <3>4 DEF Ready
  <2> QED
    BY <2>1, <2>2 DEF Solo
<1>2. ASSUME Typed, Solo, StmtNext PROVE Solo'
  <2> USE <1>2
  <2>1. CASE \E u \in Users : Create(u)
    BY <2>1, SoloCreate
  <2>2. CASE \E r \in Slots : Begin(r) \/ Fail(r)
    BY <2>2, SoloBegin, SoloFail
  <2>3. CASE \E r \in Slots : WaitsFor(r) = {} /\ (Inner(r) \/ Drop(r) \/ Commit(r))
    BY <2>3, SoloInner, SoloDrop, SoloCommit
  <2> QED
    BY <2>1, <2>2, <2>3, Steps
<1> QED
  BY <1>1, <1>2

-----------------------------------------------------------------------------
(* Each request has its effect at its commit *)

\* A committed payment's tables.
LEMMA PaymentCommit ==
    ASSUME Typed, Solo, NEW r \in Slots, Commit(r), Paying(req[r]),
           NEW u, NEW d, NEW t, NEW pay,
           u = req[r].user, d = req[r].debt, t = req[r].txn, pay = req[r].pay
    PROVE  RecordPayment(u, d, t, pay) /\ d \in Debts /\ t \in Transactions
<1>1. /\ pc[r] = "commit" /\ Fits("commit", req[r], mem[r], own[r])
      /\ Holds("commit", req[r], own[r]) /\ Ready("commit", req[r], mem[r], own[r])
  BY ReadyNow DEF Commit, Typed
<1>2. d \in Debts /\ t \in Transactions
  BY <1>1, AtWork DEF Paying
<1>3. /\ DebtVisible(u, d) /\ link[t] = NoLink
      /\ own[r].link[t] = PaymentLink(d, debt[d], pay)
      /\ d \in DOMAIN own[r].debt /\ own[r].debt[d] = AfterPayment(debt[d], pay)
  BY <1>1 DEF Ready, ReadyToPay
<1>4. DOMAIN own[r].link = {t} /\ DOMAIN own[r].debt = {d}
  BY <1>1, <1>3 DEF Fits, LinksAt, DebtsAt
<1>5. RowAccepted(AfterPayment(debt[d], pay))
  <2>1. own[r].debt \in Overlays(Debts, StoredRow)
    BY DEF Typed, Contents, Writes
  <2>2. own[r].debt[d] \in StoredRow
    BY <1>3, <2>1, OverlayRows
  <2> QED
    BY <1>3, <2>2 DEF StoredRow
<1>6. link \in [Transactions -> StoredLink] /\ debt \in [Debts -> StoredRow]
  BY DEF Typed, Contents
<1>7. link' = [link EXCEPT ![t] = PaymentLink(d, debt[d], pay)]
  BY <1>3, <1>4, <1>6, CommitTables DEF Link
<1>8. debt' = [debt EXCEPT ![d] = AfterPayment(debt[d], pay)]
  BY <1>3, <1>4, <1>6, CommitTables DEF Debt
<1>9. link[t].debt = None
  BY <1>3 DEF NoLink
<1> QED
  BY <1>2, <1>3, <1>5, <1>7, <1>8, <1>9 DEF RecordPayment

LEMMA CommitIsPayment ==
    ASSUME Typed, Solo, NEW r \in Slots, Commit(r), Paying(req[r])
    PROVE  PaymentNext
<1>1. PICK u, d, t, pay, a : /\ u = req[r].user /\ d = req[r].debt /\ t = req[r].txn
                             /\ pay = req[r].pay /\ a = req[r].account
  OBVIOUS
<1>2. RecordPayment(u, d, t, pay) /\ d \in Debts /\ t \in Transactions
  BY <1>1, PaymentCommit
<1>3. /\ pc[r] = "commit" /\ Fits("commit", req[r], mem[r], own[r])
      /\ Holds("commit", req[r], own[r]) /\ Ready("commit", req[r], mem[r], own[r])
  BY ReadyNow DEF Commit, Typed
<1>4. req[r] \in Requests
  BY <1>3, AtWork
<1>5. txn \in [Transactions -> TxnRow] /\ txn' \in [Transactions -> TxnRow]
      /\ \A s \in Transactions : txn'[s] = Txn(r, s)
  BY CommitTables DEF Typed, Contents
<1>6. CASE req[r].op = "pay"
  <2>1. u \in Users /\ pay \in Payments
    BY <1>1, <1>4, <1>6, RequestFields
  <2>2. TxnExists(t)
    BY <1>1, <1>3, <1>6 DEF Ready, ReadyToPay, TxnExists
  <2>3. DOMAIN own[r].txn = {}
    BY <1>3, <1>6 DEF Fits, TxnsAt
  <2>4. UNCHANGED txn
    BY <1>5, <2>3 DEF Txn
  <2>5. AddPayment(u, d, t, pay)
    BY <1>2, <2>2, <2>4 DEF AddPayment
  <2> QED
    BY <1>2, <2>1, <2>5 DEF PaymentNext
<1>7. CASE req[r].op = "repay"
  <2>1. u \in Users /\ pay \in AmountPayments /\ a \in Accounts
    BY <1>1, <1>4, <1>7, RequestFields
  <2>2. /\ Writer(u, a) /\ RoundCents(pay.amount) > 0 /\ txn[t].state = "absent"
        /\ own[r].txn[t] = [state |-> "posted", account |-> a]
    BY <1>1, <1>3, <1>7 DEF Ready, ReadyToPay, Holds
  <2>3. DOMAIN own[r].txn = {t}
    BY <1>1, <1>3, <1>7 DEF Fits, TxnsAt
  <2>4. txn' = [txn EXCEPT ![t] = [state |-> "posted", account |-> a]]
    BY <1>2, <1>5, <2>2, <2>3 DEF Txn
  <2>5. Repay(u, a, d, t, pay)
    BY <1>2, <2>2, <2>4 DEF Repay
  <2> QED
    BY <1>2, <2>1, <2>5 DEF PaymentNext
<1> QED
  BY <1>6, <1>7 DEF Paying

LEMMA CommitIsUpdate ==
    ASSUME Typed, Solo, NEW r \in Slots, Commit(r), req[r].op = "update"
    PROVE  UpdateNext
<1>1. PICK u, d, s : u = req[r].user /\ d = req[r].debt /\ s = req[r].status
  OBVIOUS
<1>2. /\ pc[r] = "commit" /\ Fits("commit", req[r], mem[r], own[r])
      /\ Ready("commit", req[r], mem[r], own[r])
  BY ReadyNow DEF Commit, Typed
<1>3. u \in Users /\ d \in Debts /\ s \in Statuses
  BY <1>1, <1>2, AtWork, RequestFields
<1>4. /\ DebtVisible(u, d) /\ d \in DOMAIN own[r].debt
      /\ own[r].debt[d] = AfterUpdate(debt[d], s)
  BY <1>1, <1>2 DEF Ready, ReadyToUpdate
<1>5. /\ DOMAIN own[r].debt = {d} /\ DOMAIN own[r].txn = {} /\ DOMAIN own[r].link = {}
  BY <1>1, <1>2, <1>4 DEF Fits, DebtsAt, TxnsAt, LinksAt, Paying
<1>6. RowAccepted(AfterUpdate(debt[d], s))
  <2>1. own[r].debt \in Overlays(Debts, StoredRow)
    BY DEF Typed, Contents, Writes
  <2>2. own[r].debt[d] \in StoredRow
    BY <1>4, <2>1, OverlayRows
  <2> QED
    BY <1>4, <2>2 DEF StoredRow
<1>7. /\ debt \in [Debts -> StoredRow] /\ txn \in [Transactions -> TxnRow]
      /\ link \in [Transactions -> StoredLink]
  BY DEF Typed, Contents
<1>8. debt' = [debt EXCEPT ![d] = AfterUpdate(debt[d], s)]
  BY <1>4, <1>5, <1>7, CommitTables DEF Debt
<1>9. UNCHANGED txn
  BY <1>5, <1>7, CommitTables DEF Txn
<1>10. UNCHANGED link
  BY <1>5, <1>7, CommitTables DEF Link
<1>11. UpdateDebt(u, d, s)
  BY <1>3, <1>4, <1>6, <1>8, <1>9, <1>10 DEF UpdateDebt
<1> QED
  BY <1>3, <1>11 DEF UpdateNext

LEMMA CommitIsDelete ==
    ASSUME Typed, Solo, NEW r \in Slots, Commit(r), req[r].op = "delete"
    PROVE  DeleteNext
<1>1. PICK u, t : u = req[r].user /\ t = req[r].txn
  OBVIOUS
<1>2. /\ pc[r] = "commit" /\ Fits("commit", req[r], mem[r], own[r])
      /\ Holds("commit", req[r], own[r]) /\ Ready("commit", req[r], mem[r], own[r])
  BY ReadyNow DEF Commit, Typed
<1>3. u \in Users /\ t \in Transactions
  BY <1>1, <1>2, AtWork
<1>4. /\ \A d \in Debts : debt[d].user = u => View(own[r], d) = Cleaned(u, t, d)
      /\ t \in DOMAIN own[r].link <=> Ours(u, link[t])
      /\ TxnVisible(u, t) /\ own[r].txn[t] = [txn[t] EXCEPT !.state = "deleted"]
  BY <1>1, <1>2 DEF Ready, ReadyToDelete
<1>5. /\ DOMAIN own[r].txn = {t} /\ DOMAIN own[r].link \subseteq {t}
      /\ \A s \in DOMAIN own[r].link : own[r].link[s] = NoLink
      /\ \A d \in DOMAIN own[r].debt : debt[d].user = u
  BY <1>1, <1>2 DEF Fits, Holds, TxnsAt, LinksAt, Paying
<1>6. /\ debt \in [Debts -> StoredRow] /\ txn \in [Transactions -> TxnRow]
      /\ link \in [Transactions -> StoredLink]
  BY DEF Typed, Contents
<1>7. /\ debt' \in [Debts -> StoredRow] /\ \A d \in Debts : debt'[d] = Debt(r, d)
      /\ txn' \in [Transactions -> TxnRow] /\ \A s \in Transactions : txn'[s] = Txn(r, s)
      /\ link' \in [Transactions -> StoredLink] /\ \A s \in Transactions : link'[s] = Link(r, s)
  BY CommitTables
<1>8. ASSUME NEW d \in Debts PROVE debt'[d] = Cleaned(u, t, d)
  <2>1. debt'[d] = View(own[r], d)
    BY <1>7 DEF Debt, View
  <2>2. CASE debt[d].user = u
    BY <1>4, <2>1, <2>2
  <2>3. CASE debt[d].user # u
    BY <1>5, <2>1, <2>3 DEF View, Cleaned, DebtVisible
  <2> QED
    BY <2>2, <2>3
<1>9. debt' = [d \in Debts |-> Cleaned(u, t, d)]
  BY <1>7, <1>8
<1>10. txn' = [txn EXCEPT ![t].state = "deleted"]
  BY <1>3, <1>4, <1>5, <1>6, <1>7 DEF Txn
<1>11. Ours(u, link[t]) <=> link[t].debt # None /\ debt[link[t].debt].user = u
  <2>1. link[t].debt # None <=> link[t] # NoLink
    BY <1>3, LinkedDebt, ConstantsAssumption DEF NoLink
  <2> QED
    BY <2>1 DEF Ours
<1>12. link' = [link EXCEPT ![t] =
                   IF @.debt # None /\ debt[@.debt].user = u THEN NoLink ELSE @]
  BY <1>3, <1>4, <1>5, <1>6, <1>7, <1>11 DEF Link
<1>13. \A d \in Debts : RowAccepted(Cleaned(u, t, d))
  <2>1. \A row \in StoredRow : RowAccepted(row)
    BY DEF StoredRow
  <2> QED
    BY <1>7, <1>8, <2>1
<1>14. DeleteTransaction(u, t)
  BY <1>4, <1>9, <1>10, <1>12, <1>13 DEF DeleteTransaction
<1> QED
  BY <1>3, <1>14 DEF DeleteNext

LEMMA DropIsDelete ==
    ASSUME Typed, NEW r \in Slots, Drop(r)
    PROVE  UpdateNext \/ UNCHANGED vars
<1>1. PICK u, d : u = req[r].user /\ d = req[r].debt
  OBVIOUS
<1>2. /\ pc[r] = "drop" /\ UNCHANGED <<txn, link>>
      /\ debt' = IF debt[d].user = u THEN [debt EXCEPT ![d].state = "deleted"] ELSE debt
  BY <1>1 DEF Drop
<1>3. d \in Debts /\ u \in Users
  BY <1>1, <1>2, AtWork DEF OpsAt
<1>4. CASE debt[d].user = u
  <2>1. debt[d].state # "absent"
    BY <1>3, <1>4, ConstantsAssumption DEF Typed, Contents
  <2>2. DeleteDebt(u, d)
    BY <1>2, <1>4, <2>1 DEF DeleteDebt
  <2> QED
    BY <1>3, <2>2 DEF UpdateNext
<1>5. CASE debt[d].user # u
  BY <1>2, <1>5 DEF vars
<1> QED
  BY <1>4, <1>5

\* When no two requests of a user are in flight and no two users delete the
\* same transaction at once, the statements of all requests, interleaved in any
\* way that the row locks allow, have the effect of handlers executed one at a
\* time, each at its commit: what DebtLedger states of atomic handlers is true
\* of the ones the server runs (WithTx at READ COMMITTED).
THEOREM StatementsRefine ==
    ASSUME Overlap = "none"
    PROVE  StmtSpec => ImplementsLedger
<1>1. StmtInit => Init
  BY DEF StmtInit
<1>2. ASSUME Typed, Solo, StmtNext PROVE Next \/ UNCHANGED vars
  <2> USE <1>2
  <2>1. CASE \E u \in Users : Create(u)
    BY <2>1 DEF Create, Next, CreateNext
  <2>2. CASE \E r \in Slots : Begin(r) \/ Fail(r)
    BY <2>2 DEF Begin, Fail
  <2>3. CASE \E r \in Slots : Inner(r) \/ Drop(r)
    BY <2>3, InnerTables, DropIsDelete DEF Next
  <2>4. ASSUME NEW r \in Slots, Commit(r)
        PROVE  Next
    <3>1. Paying(req[r]) \/ req[r].op = "update" \/ req[r].op = "delete"
      BY <2>4, AtWork DEF Commit, OpsAt, Paying
    <3> QED
      BY <2>4, <3>1, CommitIsPayment, CommitIsUpdate, CommitIsDelete DEF Next
  <2> QED
    BY <2>1, <2>2, <2>3, <2>4, Steps
<1>3. Typed /\ Solo /\ [StmtNext]_allVars => [Next]_vars
  BY <1>2 DEF allVars, vars
<1> QED
  BY <1>1, <1>3, SoloInit, SoloNext, StatementsSound, PTL DEF StmtSpec, ImplementsLedger, Spec

\* Hence the books balance at every commit, no payment pays a debt off and
\* deletions clean up, when the requests are those of different users and carry
\* whole cents.
THEOREM StatementsKeepBooks ==
    ASSUME Overlap = "none", Subunits = 1
    PROVE  StmtSpec => []Conservation /\ NeverPaidOff /\ DeletionCleansUp
<1>1. /\ Spec => []Conservation
      /\ Spec => NeverPaidOff
      /\ Spec => DeletionCleansUp
  BY BooksBalance, DebtsNeverSettle, DeletionsCleanUp
<1>2. StmtSpec => Spec
  BY StatementsRefine DEF ImplementsLedger
<1> QED
  BY <1>1, <1>2, PTL
=============================================================================
