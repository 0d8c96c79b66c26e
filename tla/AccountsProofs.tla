---------------------------- MODULE AccountsProofs ----------------------------
(***************************************************************************)
(* What Accounts guarantees for any number of users, accounts, ledger      *)
(* entries and concurrent requests.                                        *)
(*                                                                         *)
(* Which request a slot serves follows from the statement it is at (Fits). *)
(* On that rest the three invariants: types and locks (TypeOK), ownership  *)
(* (Ownership), and, when nothing that names an account overlaps with its  *)
(* deletion, the ends of transfers (Ends).                                 *)
(***************************************************************************)
EXTENDS Accounts, TLAPS

OpsAt == [idle |-> {"none"}, insert |-> {"create"}, owner |-> {"create"},
          save |-> {"create_savings"}, post |-> {"post"}, read |-> {"delete"},
          sweep |-> {"delete", "delete_savings"},
          mark |-> {"delete", "delete_savings"},
          get |-> {"patch_savings"}, set |-> {"patch_savings"}]

\* A slot's statement tells the kind of its request, and with it which fields
\* of the request are given.
Fits ==
    \A r \in Slots :
      /\ req[r].op \in OpsAt[step[r]]
      /\ req[r].op # "none" => req[r].user \in Users
      /\ req[r].op \notin {"none", "post"} =>
            req[r].account \in Accounts /\ req[r].account \in req[r].ends
      /\ req[r].op = "post" => req[r].account = None
      /\ req[r].op \in {"post", "create_savings"} => req[r].txn \in Transactions
      /\ step[r] = "set" => req[r].status \in AccountStatus
      /\ step[r] # "mark" => doomed[r] = {}

Typed == TypeOK /\ Fits

-----------------------------------------------------------------------------
(* Types and locks *)

\* Replacing one share.
LEMMA ShareReplaced ==
    ASSUME NEW f \in [Users -> [Accounts -> ShareRow]], NEW u \in Users,
           NEW a \in Accounts, NEW row \in ShareRow
    PROVE  [f EXCEPT ![u][a] = row] \in [Users -> [Accounts -> ShareRow]]
<1> DEFINE g == [f[u] EXCEPT ![a] = row]
<1>1. g \in [Accounts -> ShareRow]
  OBVIOUS
<1>2. [f EXCEPT ![u][a] = row] = [f EXCEPT ![u] = g]
  OBVIOUS
<1> HIDE DEF g
<1> QED
  BY <1>1, <1>2

\* Replacing one field of a row.
LEMMA FieldsReplaced ==
    /\ \A q \in RequestRow, s \in AccountStatus :
          [q EXCEPT !.status = s] \in RequestRow
    /\ \A s \in ShareRow : [s EXCEPT !.active = FALSE] \in ShareRow
BY DEF RequestRow, ShareRow

\* What a slot that begins to serve a request may rely on.
LEMMA RequestsTyped ==
    ASSUME NEW q \in Requests
    PROVE  /\ q \in RequestRow
           /\ q.op \in OpsAt[FirstStep[q.op]] /\ FirstStep[q.op] \in Steps
           /\ q.op # "none" /\ q.user \in Users
           /\ q.op # "post" => q.account \in Accounts /\ q.account \in q.ends
           /\ q.op = "post" => q.account = None
           /\ q.op \in {"post", "create_savings"} => q.txn \in Transactions
           /\ FirstStep[q.op] \notin {"idle", "set", "mark", "owner"}
<1> USE AccountsAssumption
<1>1. q.op \in Ops
  BY DEF Requests
<1>2. CASE q \in CreateRequests
  BY <1>1, <1>2 DEF CreateRequests, Request, RequestRow, OpsAt, FirstStep, Steps
<1>3. CASE q \in SavingsRequests
  BY <1>1, <1>3 DEF SavingsRequests, Request, RequestRow, OpsAt, FirstStep, Steps
<1>4. CASE q \in PostRequests
  BY <1>1, <1>4 DEF PostRequests, Request, RequestRow, OpsAt, FirstStep, Steps
<1>5. CASE q \in DeleteRequests
  BY <1>1, <1>5 DEF DeleteRequests, Request, RequestRow, OpsAt, FirstStep, Steps
<1>6. CASE q \in PatchRequests
  BY <1>1, <1>6 DEF PatchRequests, Request, RequestRow, OpsAt, FirstStep, Steps,
                    AccountStatus
<1> QED
  BY <1>2, <1>3, <1>4, <1>5, <1>6 DEF Requests

\* Answering a request keeps the slots in order.
LEMMA ReleaseTyped ==
    ASSUME Typed, NEW r \in Slots, Release(r)
    PROVE  /\ step' \in [Slots -> Steps]
           /\ doomed' \in [Slots -> SUBSET Transactions]
           /\ req' \in [Slots -> RequestRow]
           /\ \A p, q \in Slots : p # q => doomed'[p] \cap doomed'[q] = {}
           /\ Fits'
<1>1. NoRequest \in RequestRow /\ NoRequest.op = "none"
  BY DEF NoRequest, Request, RequestRow
<1>2. /\ step' \in [Slots -> Steps]
      /\ doomed' \in [Slots -> SUBSET Transactions]
      /\ req' \in [Slots -> RequestRow]
      /\ \A p, q \in Slots : p # q => doomed'[p] \cap doomed'[q] = {}
  BY <1>1 DEF Typed, TypeOK, Release, Steps
<1>3. Fits'
  <2> SUFFICES ASSUME NEW s \in Slots PROVE Fits!(s)'
    BY DEF Fits
  <2>1. CASE s = r
    BY <2>1, <1>1 DEF Typed, TypeOK, Release, OpsAt
  <2>2. CASE s # r
    BY <2>2 DEF Typed, TypeOK, Fits, Release
  <2> QED
    BY <2>1, <2>2
<1> QED
  BY <1>2, <1>3

\* A statement that only moves its slot on.
LEMMA GotoTyped ==
    ASSUME Typed, NEW r \in Slots, NEW l \in Steps,
           Goto(r, l), UNCHANGED <<req, doomed>>,
           req[r].op \in OpsAt[l], l \notin {"set", "mark"},
           doomed[r] = {}
    PROVE  step' \in [Slots -> Steps] /\ Fits'
<1>1. step' \in [Slots -> Steps]
  BY DEF Typed, TypeOK, Goto
<1>2. Fits'
  <2> SUFFICES ASSUME NEW s \in Slots PROVE Fits!(s)'
    BY DEF Fits
  <2>1. CASE s = r
    BY <2>1 DEF Typed, TypeOK, Fits, Goto
  <2>2. CASE s # r
    BY <2>2 DEF Typed, TypeOK, Fits, Goto
  <2> QED
    BY <2>1, <2>2
<1> QED
  BY <1>1, <1>2

\* A failing handler.
LEMMA FailTyped ==
    ASSUME Typed, NEW r \in Slots, Fail(r)
    PROVE  Typed'
BY ReleaseTyped DEF Fail, tables, Typed, TypeOK

LEMMA TypedInit ==
    ASSUME Init
    PROVE  Typed
<1>1. TypeOK
  BY DEF Init, TypeOK, AccountRow, NoAccount, AccountStatus, ShareRow, NoShare,
         TxnRow, NoTxn, Steps, RequestRow, NoRequest, Request
<1>2. Fits
  BY DEF Init, Fits, OpsAt, NoRequest, Request
<1> QED
  BY <1>1, <1>2 DEF Typed

LEMMA TypedStep ==
    ASSUME Typed, [Next]_vars
    PROVE  Typed'
<1> USE AccountsAssumption
<1>1. ASSUME NEW r \in Slots, Begin(r)
      PROVE  Typed'
  <2>1. PICK q \in Requests : /\ req' = [req EXCEPT ![r] = q]
                              /\ Goto(r, FirstStep[q.op])
    BY <1>1 DEF Begin
  <2>2. step[r] = "idle" /\ UNCHANGED <<account, share, txn, doomed>>
    BY <1>1 DEF Begin
  <2>3. TypeOK'
    BY <2>1, <2>2, RequestsTyped DEF Typed, TypeOK, Goto
  <2>4. Fits'
    <3> SUFFICES ASSUME NEW s \in Slots PROVE Fits!(s)'
      BY DEF Fits
    <3>1. CASE s = r
      BY <3>1, <2>1, <2>2, RequestsTyped DEF Typed, TypeOK, Fits, Goto
    <3>2. CASE s # r
      BY <3>2, <2>1, <2>2 DEF Typed, TypeOK, Fits, Goto
    <3> QED
      BY <3>1, <3>2
  <2> QED
    BY <2>3, <2>4 DEF Typed
<1>2. ASSUME NEW r \in Slots, Abort(r)
      PROVE  Typed'
  BY <1>2, FailTyped DEF Abort
<1>3. ASSUME NEW r \in Slots, CreateInsert(r)
      PROVE  Typed'
  <2>1. CASE account[req[r].account].state = "absent"
    <3>1. step[r] = "insert" /\ req[r].op = "create" /\ doomed[r] = {}
      BY <1>3 DEF CreateInsert, Typed, Fits, OpsAt
    <3>2. step' \in [Slots -> Steps] /\ Fits'
      BY <1>3, <2>1, <3>1, GotoTyped DEF CreateInsert, OpsAt, Steps
    <3>3. account' \in [Accounts -> AccountRow]
      BY <1>3, <2>1 DEF CreateInsert, Typed, TypeOK, AccountRow, NewAccount,
                        AccountStatus
    <3> QED
      BY <1>3, <2>1, <3>2, <3>3 DEF CreateInsert, Typed, TypeOK
  <2> QED
    BY <1>3, <2>1, FailTyped DEF CreateInsert
<1>4. ASSUME NEW r \in Slots, CreateOwner(r)
      PROVE  Typed'
  <2>1. share' \in [Users -> [Accounts -> ShareRow]]
    BY <1>4 DEF CreateOwner, Typed, TypeOK, ShareRow, OwnerShare, Permission
  <2> QED
    BY <1>4, <2>1, ReleaseTyped DEF CreateOwner, Typed, TypeOK
<1>5. ASSUME NEW r \in Slots, CreateSavings(r)
      PROVE  Typed'
  <2>1. CASE Release(r) /\ ~UNCHANGED tables
    <3>1. account' \in [Accounts -> AccountRow]
      BY <1>5 DEF CreateSavings, Fail, tables, Typed, TypeOK, AccountRow,
                  NewAccount, AccountStatus
    <3>2. share' \in [Users -> [Accounts -> ShareRow]]
      <4>1. OwnerShare \in ShareRow
        BY DEF OwnerShare, ShareRow, Permission
      <4>2. req[r].user \in Users /\ req[r].account \in Accounts
        BY <1>5 DEF CreateSavings, Typed, Fits, OpsAt
      <4>3. \/ share' = share
            \/ share' = [share EXCEPT ![req[r].user][req[r].account] = OwnerShare]
        BY <1>5 DEF CreateSavings, Fail, tables
      <4>4. [share EXCEPT ![req[r].user][req[r].account] = OwnerShare]
                \in [Users -> [Accounts -> ShareRow]]
        BY <4>1, <4>2, ShareReplaced DEF Typed, TypeOK
      <4> QED
        BY <4>3, <4>4, Zenon DEF Typed, TypeOK
    <3>3. req[r].ends \in SUBSET Accounts
      BY DEF Typed, TypeOK, RequestRow
    <3>4. txn' \in [Transactions -> TxnRow]
      <4> DEFINE row == [state |-> "posted", kind |-> "transfer",
                         ends |-> req[r].ends]
      <4>1. row \in TxnRow
        BY <3>3 DEF TxnRow
      <4>2. txn' = txn \/ txn' = [txn EXCEPT ![req[r].txn] = row]
        BY <1>5 DEF CreateSavings, Fail, tables
      <4> HIDE DEF row
      <4> QED
        BY <4>1, <4>2 DEF Typed, TypeOK
    <3> QED
      BY <2>1, <3>1, <3>2, <3>4, ReleaseTyped DEF Typed, TypeOK
  <2>2. CASE Fail(r)
    BY <2>2, FailTyped
  <2> QED
    BY <1>5, <2>1, <2>2 DEF CreateSavings, Fail
<1>6. ASSUME NEW r \in Slots, Post(r)
      PROVE  Typed'
  <2>1. CASE Fail(r)
    BY <2>1, FailTyped
  <2>2. CASE Release(r) /\ UNCHANGED <<account, share>>
    <3>1. req[r].ends \in SUBSET Accounts
      BY DEF Typed, TypeOK, RequestRow
    <3>2. txn' \in [Transactions -> TxnRow]
      BY <1>6, <3>1 DEF Post, Fail, tables, Typed, TypeOK, TxnRow
    <3> QED
      BY <2>2, <3>2, ReleaseTyped DEF Typed, TypeOK
  <2> QED
    BY <1>6, <2>1, <2>2 DEF Post
<1>7. ASSUME NEW r \in Slots, DeleteRead(r)
      PROVE  Typed'
  <2>1. step[r] = "read" /\ req[r].op = "delete" /\ doomed[r] = {}
    BY <1>7 DEF DeleteRead, Typed, Fits, OpsAt
  <2>2. CASE Fail(r)
    BY <2>2, FailTyped
  <2>3. CASE Goto(r, "sweep") /\ UNCHANGED <<account, share, txn, req, doomed>>
    <3>1. step' \in [Slots -> Steps] /\ Fits'
      BY <2>1, <2>3, GotoTyped DEF OpsAt, Steps
    <3> QED
      BY <2>3, <3>1 DEF Typed, TypeOK
  <2> QED
    BY <1>7, <2>2, <2>3 DEF DeleteRead, Check
<1>8. ASSUME NEW r \in Slots, Sweep(r)
      PROVE  Typed'
  <2>1. /\ Transfers(req[r].account) \subseteq Transactions
        /\ \A s \in Slots : Transfers(req[r].account) \cap doomed[s] = {}
    BY <1>8 DEF Sweep, Locked, Transfers
  <2>2. TypeOK'
    BY <1>8, <2>1 DEF Sweep, Goto, Typed, TypeOK, Steps
  <2>3. Fits'
    <3> SUFFICES ASSUME NEW s \in Slots PROVE Fits!(s)'
      BY DEF Fits
    <3>1. CASE s = r
      BY <1>8, <3>1 DEF Sweep, Goto, Typed, TypeOK, Fits, OpsAt
    <3>2. CASE s # r
      BY <1>8, <3>2 DEF Sweep, Goto, Typed, TypeOK, Fits
    <3> QED
      BY <3>1, <3>2
  <2> QED
    BY <2>2, <2>3 DEF Typed
<1>9. ASSUME NEW r \in Slots, Mark(r)
      PROVE  Typed'
  <2>1. CASE Fail(r)
    BY <2>1, FailTyped
  <2>2. CASE Release(r) /\ UNCHANGED share
    <3>1. account' \in [Accounts -> AccountRow]
      BY <1>9 DEF Mark, Fail, tables, Typed, TypeOK, AccountRow, AccountStatus
    <3>2. txn' \in [Transactions -> TxnRow]
      <4>1. txn \in [Transactions -> TxnRow]
        BY DEF Typed, TypeOK
      <4>2. \A t \in Transactions : [txn[t] EXCEPT !.state = "deleted"] \in TxnRow
        BY <4>1 DEF TxnRow
      <4> QED
        BY <1>9, <4>1, <4>2 DEF Mark, Fail, tables
    <3> QED
      BY <2>2, <3>1, <3>2, ReleaseTyped DEF Typed, TypeOK
  <2> QED
    BY <1>9, <2>1, <2>2 DEF Mark
<1>10. ASSUME NEW r \in Slots, PatchSavingsGet(r)
       PROVE  Typed'
  <2>1. CASE Fail(r)
    BY <2>1, FailTyped
  <2>2. CASE ~Fail(r)
    <3> DEFINE s1 == IF req[r].status = None
                     THEN account[req[r].account].status ELSE req[r].status
    <3>1. /\ step[r] = "get" /\ req[r].op = "patch_savings"
          /\ req[r].account \in Accounts
      BY <1>10 DEF PatchSavingsGet, Typed, Fits, OpsAt
    <3>2. s1 \in AccountStatus
      BY <3>1 DEF Typed, TypeOK, RequestRow, AccountRow
    <3>3. /\ req' = [req EXCEPT ![r].status = s1]
          /\ Goto(r, "set") /\ UNCHANGED <<account, share, txn, doomed>>
      BY <1>10, <2>2 DEF PatchSavingsGet
    <3> HIDE DEF s1
    <3> DEFINE q == [req[r] EXCEPT !.status = s1]
    <3>4. q \in RequestRow
      BY <3>2, FieldsReplaced DEF Typed, TypeOK
    <3> HIDE DEF q
    <3>5. req' = [req EXCEPT ![r] = q]
      BY <3>3 DEF q
    <3>6. TypeOK'
      <4>1. step' = [step EXCEPT ![r] = "set"]
        BY <3>3 DEF Goto
      <4>2. UNCHANGED <<account, share, txn, doomed>>
        BY <3>3
      <4> QED
        BY <3>4, <3>5, <4>1, <4>2 DEF Typed, TypeOK, Steps
    <3>7. Fits'
      <4> SUFFICES ASSUME NEW s \in Slots PROVE Fits!(s)'
        BY DEF Fits
      <4>1. CASE s = r
        <5>1. req'[r] = q /\ step'[r] = "set" /\ doomed' = doomed
          BY <3>3, <3>5 DEF Goto, Typed, TypeOK
        <5>2. /\ q.status = s1 /\ q.op = "patch_savings" /\ q.user = req[r].user
              /\ q.account = req[r].account /\ q.ends = req[r].ends
          BY <3>1 DEF q, Typed, TypeOK, RequestRow
        <5>3. /\ req[r].user \in Users /\ req[r].account \in req[r].ends
              /\ doomed[r] = {}
          BY <3>1 DEF Typed, Fits
        <5>4. OpsAt["set"] = {"patch_savings"}
          BY DEF OpsAt
        <5> QED
          BY <3>1, <3>2, <4>1, <5>1, <5>2, <5>3, <5>4
      <4>2. CASE s # r
        BY <3>3, <4>2 DEF Goto, Typed, TypeOK, Fits
      <4> QED
        BY <4>1, <4>2
    <3> QED
      BY <3>6, <3>7 DEF Typed
  <2> QED
    BY <2>1, <2>2
<1>11. ASSUME NEW r \in Slots, PatchSavingsSet(r)
       PROVE  Typed'
  <2>1. req[r].status \in AccountStatus
    BY <1>11 DEF PatchSavingsSet, Typed, Fits
  <2>2. req[r].account \in Accounts
    BY <1>11 DEF PatchSavingsSet, Typed, Fits, OpsAt
  <2>3. [account[req[r].account] EXCEPT !.status = req[r].status] \in AccountRow
    BY <2>1, <2>2 DEF Typed, TypeOK, AccountRow
  <2>4. account' \in [Accounts -> AccountRow]
    BY <1>11, <2>2, <2>3 DEF PatchSavingsSet, Typed, TypeOK
  <2> QED
    BY <1>11, <2>4, ReleaseTyped DEF PatchSavingsSet, Typed, TypeOK
<1>12. ASSUME NEW u \in Users, NEW t \in Transactions, Remove(u, t)
       PROVE  Typed'
  <2>1. [txn[t] EXCEPT !.state = "deleted"] \in TxnRow
    <3>1. txn[t] \in TxnRow
      BY DEF Typed, TypeOK
    <3> QED
      BY <3>1 DEF TxnRow
  <2>2. txn' \in [Transactions -> TxnRow]
    BY <1>12, <2>1 DEF Remove, Typed, TypeOK
  <2>3. Fits'
    BY <1>12 DEF Remove, Typed, Fits
  <2> QED
    BY <1>12, <2>2, <2>3 DEF Remove, Typed, TypeOK
<1>13. ASSUME NEW u \in Users, NEW a \in Accounts, NEW s \in PatchStatuses,
              Patch(u, a, s)
       PROVE  Typed'
  BY <1>13 DEF Patch, Typed, TypeOK, Fits, AccountRow, AccountStatus
<1>14. ASSUME NEW u \in Users, NEW a \in Accounts, NEW v \in Users,
              RevokeShare(u, a, v)
       PROVE  Typed'
  <2> DEFINE row == [share[v][a] EXCEPT !.active = FALSE]
  <2>1. row \in ShareRow
    BY FieldsReplaced DEF Typed, TypeOK
  <2>2. share' = [share EXCEPT ![v][a] = row]
    BY <1>14 DEF RevokeShare
  <2> HIDE DEF row
  <2>3. share' \in [Users -> [Accounts -> ShareRow]]
    BY <2>1, <2>2, ShareReplaced DEF Typed, TypeOK
  <2> QED
    BY <1>14, <2>3 DEF RevokeShare, Typed, TypeOK, Fits
<1>15. ASSUME NEW u \in Users, NEW a \in Accounts, NEW v \in Users,
              NEW p \in Permission, UpsertShare(u, a, v, p)
       PROVE  Typed'
  BY <1>15 DEF UpsertShare, Typed, TypeOK, Fits, ShareRow, Permission
<1>16. CASE UNCHANGED vars
  BY <1>16 DEF vars, Typed, TypeOK, Fits
<1> QED
  BY <1>1, <1>2, <1>3, <1>4, <1>5, <1>6, <1>7, <1>8, <1>9, <1>10, <1>11,
     <1>12, <1>13, <1>14, <1>15, <1>16 DEF Next

\* Every row is one the schema accepts, every slot is at a statement of its
\* request, and two open deletions never hold the same transfer.
THEOREM AccountsTyped == Spec => []TypeOK
<1>1. Typed /\ [Next]_vars => Typed'
  BY TypedStep
<1>2. Typed => TypeOK
  BY DEF Typed
<1> QED
  BY TypedInit, <1>1, <1>2, PTL DEF Spec

-----------------------------------------------------------------------------
(* Ownership *)

\* Nobody owns an account that is not there, nor one whose creation has still
\* to insert the owner, and only one request at a time creates an account.
Ownership ==
    /\ OneOwner
    /\ \A u \in Users, a \in Accounts : Owns(u, a) => account[a].state # "absent"
    /\ \A r \in Slots : step[r] = "owner" =>
          /\ account[req[r].account].state # "absent"
          /\ \A u \in Users : ~Owns(u, req[r].account)
    /\ \A r, s \in Slots :
          r # s /\ step[r] = "owner" /\ step[s] = "owner" =>
             req[r].account # req[s].account

Keeps == \A u \in Users, a \in Accounts : Owns(u, a) => Owns(u, a)'

\* Slots that are at another statement than "owner" cannot disturb Ownership.
LEMMA OwnershipUndisturbed ==
    ASSUME Typed, Ownership, UNCHANGED share,
           \A a \in Accounts : account'[a].state = "absent" =>
                                  account[a].state = "absent",
           \A r \in Slots : step'[r] = "owner" =>
                  step[r] = "owner" /\ req'[r] = req[r]
    PROVE  Ownership' /\ Keeps
<1>1. \A r \in Slots : step[r] = "owner" => req[r].account \in Accounts
  BY DEF Typed, Fits, OpsAt
<1> QED
  BY <1>1 DEF Ownership, OneOwner, Owns, Keeps

LEMMA ReleaseKeepsOwners ==
    ASSUME Typed, NEW r \in Slots, Release(r)
    PROVE  \A s \in Slots : step'[s] = "owner" =>
                  s # r /\ step[s] = "owner" /\ req'[s] = req[s]
BY DEF Release, Typed, TypeOK

LEMMA OwnershipInit ==
    ASSUME Init
    PROVE  Ownership
BY DEF Init, Ownership, OneOwner, Owns, NoShare, OwnerShare

LEMMA OwnershipStep ==
    ASSUME Typed, Ownership, [Next]_vars
    PROVE  Ownership' /\ Keeps
<1> DEFINE Onward == \A r \in Slots : step'[r] = "owner" =>
                        step[r] = "owner" /\ req'[r] = req[r]
<1>1. ASSUME NEW r \in Slots, Begin(r)
      PROVE  Ownership' /\ Keeps
  <2>1. PICK q \in Requests : /\ req' = [req EXCEPT ![r] = q]
                              /\ Goto(r, FirstStep[q.op])
    BY <1>1 DEF Begin
  <2>2. step[r] = "idle" /\ UNCHANGED <<account, share, txn, doomed>>
    BY <1>1 DEF Begin
  <2>3. Onward
    BY <2>1, <2>2, RequestsTyped DEF Goto, Typed, TypeOK
  <2> QED
    BY <2>2, <2>3, OwnershipUndisturbed
<1>2. ASSUME NEW r \in Slots, Fail(r)
      PROVE  Ownership' /\ Keeps
  BY <1>2, ReleaseKeepsOwners, OwnershipUndisturbed DEF Fail, tables
<1>3. ASSUME NEW r \in Slots, CreateInsert(r), ~Fail(r)
      PROVE  Ownership' /\ Keeps
  <2> DEFINE a == req[r].account
  <2>1. /\ step[r] = "insert" /\ a \in Accounts /\ account[a].state = "absent"
        /\ account' = [account EXCEPT ![a] = NewAccount]
        /\ step' = [step EXCEPT ![r] = "owner"]
        /\ UNCHANGED <<share, txn, req, doomed>>
    BY <1>3 DEF CreateInsert, Goto, Typed, Fits, OpsAt
  <2> HIDE DEF a
  <2>2. \A b \in Accounts : account'[b].state = "absent" =>
              b # a /\ account[b].state = "absent"
    BY <2>1 DEF NewAccount, Typed, TypeOK
  <2>3. \A u \in Users : ~Owns(u, a)
    BY <2>1 DEF Ownership
  <2>4. \A s \in Slots : step'[s] = "owner" => s = r \/ step[s] = "owner"
    BY <2>1 DEF Typed, TypeOK
  <2>5. \A s \in Slots : step[s] = "owner" =>
              req[s].account \in Accounts /\ req[s].account # a
    BY <2>1 DEF Ownership, Typed, Fits, OpsAt
  <2>6. req[r].account = a
    BY DEF a
  <2> QED
    BY <2>1, <2>2, <2>3, <2>4, <2>5, <2>6 DEF Ownership, OneOwner, Owns, Keeps
<1>4. ASSUME NEW r \in Slots, NEW u \in Users, NEW a \in Accounts,
             share' = [share EXCEPT ![u][a] = OwnerShare], Release(r),
             \A w \in Users : ~Owns(w, a), account'[a].state # "absent",
             \A b \in Accounts : b # a => account'[b] = account[b],
             \A s \in Slots \ {r} : step[s] = "owner" => req[s].account # a
      PROVE  Ownership' /\ Keeps
  <2>1. \A w \in Users, b \in Accounts :
            Owns(w, b)' <=> Owns(w, b) \/ (w = u /\ b = a)
    BY <1>4 DEF Owns, Typed, TypeOK
  <2>2. Keeps
    BY <2>1 DEF Keeps
  <2>3. OneOwner'
    BY <1>4, <2>1 DEF OneOwner, Ownership
  <2>4. \A s \in Slots : step'[s] = "owner" =>
              /\ s # r /\ step[s] = "owner" /\ req'[s] = req[s]
              /\ req[s].account \in Accounts \ {a}
    BY <1>4, ReleaseKeepsOwners DEF Typed, Fits, OpsAt
  <2> QED
    BY <1>4, <2>1, <2>2, <2>3, <2>4 DEF Ownership
<1>5. ASSUME NEW r \in Slots, CreateOwner(r)
      PROVE  Ownership' /\ Keeps
  <2>1. /\ step[r] = "owner" /\ Release(r) /\ UNCHANGED <<account, txn>>
        /\ share' = [share EXCEPT ![req[r].user][req[r].account] = OwnerShare]
        /\ req[r].user \in Users /\ req[r].account \in Accounts
    BY <1>5 DEF CreateOwner, Typed, Fits, OpsAt
  <2> QED
    BY <1>4, <2>1 DEF Ownership
<1>6. ASSUME NEW r \in Slots, CreateSavings(r), ~Fail(r)
      PROVE  Ownership' /\ Keeps
  <2>1. /\ step[r] = "save" /\ Release(r)
        /\ account[req[r].account].state = "absent"
        /\ account' = [account EXCEPT ![req[r].account] = NewAccount]
        /\ share' = [share EXCEPT ![req[r].user][req[r].account] = OwnerShare]
        /\ req[r].user \in Users /\ req[r].account \in Accounts
    BY <1>6 DEF CreateSavings, Typed, Fits, OpsAt
  <2>2. /\ account'[req[r].account].state # "absent"
        /\ \A b \in Accounts : b # req[r].account => account'[b] = account[b]
    BY <2>1 DEF NewAccount, Typed, TypeOK
  <2>3. \A w \in Users : ~Owns(w, req[r].account)
    BY <2>1 DEF Ownership
  <2>4. \A s \in Slots \ {r} : step[s] = "owner" =>
                                  req[s].account # req[r].account
    BY <2>1 DEF Ownership
  <2> QED
    BY <1>4, <2>1, <2>2, <2>3, <2>4
<1>7. ASSUME NEW r \in Slots,
             Post(r) \/ Mark(r) \/ PatchSavingsSet(r), ~Fail(r)
      PROVE  Ownership' /\ Keeps
  <2>1. Release(r) /\ UNCHANGED share
    BY <1>7 DEF Post, Mark, PatchSavingsSet
  <2>2. \A a \in Accounts : account'[a].state = "absent" =>
                               account[a].state = "absent"
    <3>1. CASE Post(r)
      BY <1>7, <3>1 DEF Post
    <3>2. CASE Mark(r)
      BY <1>7, <3>2 DEF Mark, Typed, TypeOK
    <3>3. CASE PatchSavingsSet(r)
      <4>1. \A a \in Accounts, st \in AccountStatus :
                [account[a] EXCEPT !.status = st].state = account[a].state
        BY DEF Typed, TypeOK, AccountRow
      <4>2. req[r].status \in AccountStatus /\ req[r].account \in Accounts
        BY <3>3 DEF PatchSavingsSet, Typed, Fits, OpsAt
      <4> QED
        BY <3>3, <4>1, <4>2 DEF PatchSavingsSet, Typed, TypeOK
    <3> QED
      BY <1>7, <3>1, <3>2, <3>3
  <2> QED
    BY <2>1, <2>2, ReleaseKeepsOwners, OwnershipUndisturbed
<1>8. ASSUME NEW r \in Slots,
             DeleteRead(r) \/ Sweep(r) \/ PatchSavingsGet(r), ~Fail(r)
      PROVE  Ownership' /\ Keeps
  <2>1. /\ UNCHANGED <<account, share>>
        /\ \E l \in {"sweep", "mark", "set"} : step' = [step EXCEPT ![r] = l]
        /\ \A s \in Slots \ {r} : req'[s] = req[s]
    BY <1>8 DEF DeleteRead, Check, Sweep, PatchSavingsGet, Goto, Typed, TypeOK
  <2>2. Onward
    BY <2>1 DEF Typed, TypeOK
  <2> QED
    BY <2>1, <2>2, OwnershipUndisturbed
<1>9. ASSUME NEW u \in Users, NEW t \in Transactions, Remove(u, t)
      PROVE  Ownership' /\ Keeps
  BY <1>9, OwnershipUndisturbed DEF Remove
<1>10. ASSUME NEW u \in Users, NEW a \in Accounts, NEW s \in PatchStatuses,
              Patch(u, a, s)
       PROVE  Ownership' /\ Keeps
  <2>1. \A b \in Accounts : account'[b].state = "absent" =>
                               account[b].state = "absent"
    BY <1>10 DEF Patch, Typed, TypeOK, AccountRow
  <2> QED
    BY <1>10, <2>1, OwnershipUndisturbed DEF Patch
\* A share that changes hands is not the owner's and does not become it.
<1>11. ASSUME NEW u \in Users, NEW a \in Accounts, NEW v \in Users,
              NEW row \in ShareRow, row # OwnerShare, ~Owns(v, a),
              share' = [share EXCEPT ![v][a] = row],
              UNCHANGED <<account, req, step>>
       PROVE  Ownership' /\ Keeps
  <2>1. \A w \in Users, b \in Accounts : Owns(w, b)' <=> Owns(w, b)
    BY <1>11 DEF Owns, Typed, TypeOK
  <2>2. \A s \in Slots : step[s] = "owner" => req[s].account \in Accounts
    BY DEF Typed, Fits, OpsAt
  <2> QED
    BY <1>11, <2>1, <2>2 DEF Ownership, OneOwner, Keeps
<1>12. ASSUME NEW u \in Users, NEW a \in Accounts, NEW v \in Users,
              RevokeShare(u, a, v)
       PROVE  Ownership' /\ Keeps
  <2> DEFINE row == [share[v][a] EXCEPT !.active = FALSE]
  <2>1. share' = [share EXCEPT ![v][a] = row]
    BY <1>12 DEF RevokeShare
  <2>2. row \in ShareRow
    BY FieldsReplaced DEF Typed, TypeOK
  <2>3. row.active = FALSE
    BY DEF Typed, TypeOK, ShareRow
  <2>4. row # OwnerShare /\ ~Owns(v, a)
    BY <1>12, <2>3 DEF RevokeShare, Owns, OwnerShare
  <2> HIDE DEF row
  <2> QED
    BY <1>11, <1>12, <2>1, <2>2, <2>4 DEF RevokeShare
<1>13. ASSUME NEW u \in Users, NEW a \in Accounts, NEW v \in Users,
              NEW p \in Permission, UpsertShare(u, a, v, p)
       PROVE  Ownership' /\ Keeps
  <2> DEFINE row == [perm |-> p, active |-> TRUE]
  <2>1. Owns(u, a) /\ v # u /\ p # "owner"
    BY <1>13 DEF UpsertShare
  <2>2. row \in ShareRow /\ row # OwnerShare
    BY <2>1 DEF ShareRow, OwnerShare, Permission
  <2>3. ~Owns(v, a)
    BY <2>1 DEF Ownership, OneOwner
  <2>4. share' = [share EXCEPT ![v][a] = row] /\ UNCHANGED <<account, req, step>>
    BY <1>13 DEF UpsertShare
  <2> HIDE DEF row
  <2> QED
    BY <1>11, <2>2, <2>3, <2>4
<1>14. CASE UNCHANGED vars
  BY <1>14, OwnershipUndisturbed DEF vars
<1>15. ASSUME NEW r \in Slots, Abort(r)
       PROVE  Ownership' /\ Keeps
  BY <1>2, <1>15 DEF Abort
<1> QED
  BY <1>1, <1>2, <1>3, <1>5, <1>6, <1>7, <1>8, <1>9, <1>10, <1>12, <1>13,
     <1>14, <1>15 DEF Next

\* An account never has two active owners.
THEOREM OneOwnerAlways == Spec => []OneOwner
<1>1. Init => Typed /\ Ownership
  BY TypedInit, OwnershipInit
<1>2. Typed /\ Ownership /\ [Next]_vars => (Typed /\ Ownership)'
  BY TypedStep, OwnershipStep
<1>3. Ownership => OneOwner
  BY DEF Ownership
<1> QED
  BY <1>1, <1>2, <1>3, PTL DEF Spec

\* The owner of an account stays its owner.
THEOREM OwnersStay == Spec => OwnerStays
<1>1. Init => Typed /\ Ownership
  BY TypedInit, OwnershipInit
<1>2. Typed /\ Ownership /\ [Next]_vars => (Typed /\ Ownership)'
  BY TypedStep, OwnershipStep
<1>3. Typed /\ Ownership /\ [Next]_vars =>
        [\A u \in Users, a \in Accounts : Owns(u, a) => Owns(u, a)']_vars
  BY OwnershipStep DEF Keeps
<1> QED
  BY <1>1, <1>2, <1>3, PTL DEF Spec, OwnerStays

-----------------------------------------------------------------------------
(* Deletion *)

\* How any step changes an account: it appears, gets another status, or is
\* marked as deleted.
LEMMA AccountStep ==
    ASSUME Typed, [Next]_vars, NEW a \in Accounts
    PROVE  \/ account'[a].state = account[a].state
           \/ account[a].state = "absent" /\ account'[a].state = "live"
           \/ account'[a].state = "deleted"
<1> USE DEF Typed, TypeOK
<1>1. CASE \E r \in Slots : CreateInsert(r) \/ CreateSavings(r)
  BY <1>1 DEF CreateInsert, CreateSavings, NewAccount, Fail, tables
<1>2. CASE \E r \in Slots : Mark(r)
  BY <1>2 DEF Mark, Fail, tables
<1>3. \A st \in AccountStatus :
          [account[a] EXCEPT !.status = st].state = account[a].state
  BY DEF AccountRow
<1>4. CASE \E r \in Slots : PatchSavingsSet(r)
  <2>1. PICK r \in Slots : PatchSavingsSet(r)
    BY <1>4
  <2>2. req[r].status \in AccountStatus
    BY <2>1 DEF PatchSavingsSet, Fits
  <2> QED
    BY <1>3, <2>1, <2>2 DEF PatchSavingsSet
<1>5. CASE \E u \in Users, b \in Accounts, s \in PatchStatuses : Patch(u, b, s)
  BY <1>3, <1>5, AccountsAssumption DEF Patch, AccountStatus
<1>6. CASE UNCHANGED account
  BY <1>6
<1> QED
  BY <1>1, <1>2, <1>4, <1>5, <1>6
  DEF Next, vars, Begin, Abort, Fail, tables, CreateOwner, Post, DeleteRead,
      Check, Sweep, PatchSavingsGet, Remove, RevokeShare, UpsertShare

\* A deleted account is never seen again.
THEOREM DeletedAccountsStay == Spec => DeletedForever
<1>1. Typed /\ [Next]_vars => Typed'
  BY TypedStep
<1>2. Typed /\ [Next]_vars =>
        [\A a \in Accounts : account[a].state = "deleted" =>
                             account'[a].state = "deleted"]_vars
  BY AccountStep
<1> QED
  BY TypedInit, <1>1, <1>2, PTL DEF Spec, DeletedForever

-----------------------------------------------------------------------------
(* The ends of transfers, when deletions keep apart from what names the account *)

\* While a request that will post to an account or rewrite it is under way,
\* the account stays live; and an open deletion has marked every transfer of
\* its account.  Both hold because no two such requests clash.
Ends ==
    /\ TransfersHaveBothEnds
    /\ DeletedIsMarked
    /\ \A r, s \in Slots : ~Clash(req[r], req[s])
    /\ \A r \in Slots :
         /\ step[r] \in {"save", "post"} =>
               \A a \in req[r].ends \ {req[r].account} : Live(a)
         /\ step[r] = "set" => Live(req[r].account)
         /\ step[r] = "mark" => Transfers(req[r].account) \subseteq doomed[r]

LEMMA EndsInit ==
    ASSUME Init
    PROVE  Ends
BY DEF Init, Ends, TransfersHaveBothEnds, DeletedIsMarked, Clash, Deletes,
       NoRequest, Request, NoTxn, NoAccount

\* Requests that end do not begin to clash.
LEMMA ReleaseKeepsApart ==
    ASSUME Typed, Ends, NEW r \in Slots, Release(r)
    PROVE  /\ \A p, q \in Slots : ~Clash(req'[p], req'[q])
           /\ step'[r] = "idle"
           /\ \A s \in Slots \ {r} : /\ step'[s] = step[s] /\ req'[s] = req[s]
                                     /\ doomed'[s] = doomed[s]
<1>1. \A s \in Slots : req'[s] = IF s = r THEN NoRequest ELSE req[s]
  BY DEF Release, Typed, TypeOK
<1>2. \A p, q \in Slots : ~Clash(req'[p], req'[q])
  BY <1>1 DEF Ends, Clash, Deletes, NoRequest, Request
<1> QED
  BY <1>2 DEF Release, Typed, TypeOK

\* Ends as long as no account goes and no transfer comes.
LEMMA EndsUndisturbed ==
    ASSUME Ends,
           \A a \in Accounts : Live(a) => Live(a)',
           DeletedIsMarked',
           \A t \in Transactions : txn'[t] = txn[t] \/ txn'[t].state # "posted",
           \A t \in Transactions : txn[t].ends \subseteq Accounts,
           \A p, q \in Slots : ~Clash(req'[p], req'[q]),
           \A s \in Slots :
             \/ step'[s] \notin {"save", "post", "set", "mark"}
             \/ /\ step'[s] = step[s] /\ req'[s] = req[s]
                /\ doomed'[s] = doomed[s]
                /\ req[s].ends \subseteq Accounts
                /\ step[s] = "set" => req[s].account \in Accounts
    PROVE  Ends'
<1>1. TransfersHaveBothEnds'
  BY DEF Ends, TransfersHaveBothEnds
<1>2. \A a : Transfers(a)' \subseteq Transfers(a)
  BY DEF Transfers
<1> QED
  BY <1>1, <1>2 DEF Ends

LEMMA EndsStep ==
    ASSUME Traffic = "apart", Typed, Ends, [Next]_vars
    PROVE  Ends'
<1> DEFINE Same(s) == /\ step'[s] = step[s] /\ req'[s] = req[s]
                      /\ doomed'[s] = doomed[s]
<1>a. /\ \A t \in Transactions : txn[t].ends \subseteq Accounts
      /\ \A s \in Slots : /\ req[s].ends \subseteq Accounts
                          /\ step[s] = "set" => req[s].account \in Accounts
  BY DEF Typed, TypeOK, TxnRow, RequestRow, Fits, OpsAt
\* The cases that leave the tables alone, or all but the shares.
<1>b. ASSUME UNCHANGED <<account, txn>>,
             \A p, q \in Slots : ~Clash(req'[p], req'[q]),
             \A s \in Slots :
                step'[s] \notin {"save", "post", "set", "mark"} \/ Same(s)
      PROVE  Ends'
  <2>1. DeletedIsMarked' /\ \A a \in Accounts : Live(a) => Live(a)'
    BY <1>b DEF Ends, DeletedIsMarked, Live
  <2> QED
    BY <1>a, <1>b, <2>1, EndsUndisturbed
<1>1. ASSUME NEW r \in Slots, Begin(r)
      PROVE  Ends'
  <2>1. PICK q \in Requests :
          /\ q.op \in {"create_savings", "post"} =>
                \A a \in q.ends \ {q.account} : Sees(q.user, a)
          /\ \A s \in InFlight : ~Clash(q, req[s]) /\ ~Clash(req[s], q)
          /\ req' = [req EXCEPT ![r] = q]
          /\ Goto(r, FirstStep[q.op])
    BY <1>1 DEF Begin
  <2>2. step[r] = "idle" /\ UNCHANGED <<account, share, txn, doomed>>
    BY <1>1 DEF Begin
  <2>3. \A s \in Slots : req'[s] = IF s = r THEN q ELSE req[s]
    BY <2>1 DEF Typed, TypeOK
  <2>4. \A s \in Slots : step'[s] = IF s = r THEN FirstStep[q.op] ELSE step[s]
    BY <2>1 DEF Goto, Typed, TypeOK
  <2>5. \A s \in Slots \ InFlight : req[s].op = "none"
    BY DEF InFlight, Typed, Fits, OpsAt
  <2>6. \A s \in Slots : ~Clash(q, req[s]) /\ ~Clash(req[s], q)
    BY <2>1, <2>5 DEF Clash, Deletes
  <2>7. \A p, s \in Slots : ~Clash(req'[p], req'[s])
    BY <2>3, <2>6 DEF Ends, Clash, Deletes
  <2>8. FirstStep[q.op] \in {"save", "post"} =>
            \A a \in q.ends \ {q.account} : Live(a)
    <3>1. q.op \in Ops
      BY DEF Requests
    <3>2. q.op \in {"create", "create_savings", "post", "delete",
                    "delete_savings", "patch_savings"}
      BY <3>1, AccountsAssumption
    <3>3. FirstStep[q.op] \in {"save", "post"} => q.op \in {"create_savings", "post"}
      BY <3>2 DEF FirstStep
    <3> QED
      BY <2>1, <3>3 DEF Sees
  <2>9. FirstStep[q.op] \notin {"set", "mark"}
    BY RequestsTyped
  <2> QED
    BY <2>2, <2>3, <2>4, <2>7, <2>8, <2>9
    DEF Ends, TransfersHaveBothEnds, DeletedIsMarked, Live, Transfers
<1>2. ASSUME NEW r \in Slots, Fail(r)
      PROVE  Ends'
  BY <1>2, <1>b, ReleaseKeepsApart DEF Fail, tables
<1>3. ASSUME NEW r \in Slots, CreateInsert(r), ~Fail(r)
      PROVE  Ends'
  <2>1. /\ step[r] = "insert" /\ req[r].account \in Accounts
        /\ account' = [account EXCEPT ![req[r].account] = NewAccount]
        /\ step' = [step EXCEPT ![r] = "owner"]
        /\ UNCHANGED <<share, txn, req, doomed>>
    BY <1>3 DEF CreateInsert, Goto, Typed, Fits, OpsAt
  <2>2. \A a \in Accounts : account'[a] = account[a] \/ account'[a] = NewAccount
    BY <2>1 DEF Typed, TypeOK
  <2>3. DeletedIsMarked' /\ \A a \in Accounts : Live(a) => Live(a)'
    BY <2>2 DEF Ends, DeletedIsMarked, Live, NewAccount
  <2>4. \A s \in Slots : step'[s] = "owner" \/ Same(s)
    BY <2>1 DEF Typed, TypeOK
  <2>5. \A p, q \in Slots : ~Clash(req'[p], req'[q])
    BY <2>1 DEF Ends
  <2> QED
    BY <1>a, <2>1, <2>3, <2>4, <2>5, EndsUndisturbed
<1>4. ASSUME NEW r \in Slots, CreateOwner(r)
      PROVE  Ends'
  BY <1>4, <1>b, ReleaseKeepsApart DEF CreateOwner
\* A transfer that comes has live ends, which nobody is deleting.
<1>5. ASSUME NEW r \in Slots, NEW t \in Transactions, Release(r),
             req[r].op \in {"post", "create_savings"},
             \A a \in Accounts : Live(a) => Live(a)',
             DeletedIsMarked',
             \A x \in Transactions \ {t} : txn'[x] = txn[x],
             txn'[t] = txn[t] \/ txn'[t].ends = req[r].ends,
             \A a \in req[r].ends : Live(a)'
      PROVE  Ends'
  <2>1. TransfersHaveBothEnds'
    BY <1>5, <1>a DEF Ends, TransfersHaveBothEnds
  <2>2. \A s \in Slots : step'[s] = "idle" \/ (Same(s) /\ s # r)
    BY <1>5, ReleaseKeepsApart
  <2>3. \A s \in Slots : step[s] = "mark" /\ s # r =>
            Transfers(req[s].account)' \subseteq Transfers(req[s].account)
    <3> SUFFICES ASSUME NEW s \in Slots, step[s] = "mark", s # r
                 PROVE  Transfers(req[s].account)' \subseteq
                            Transfers(req[s].account)
      OBVIOUS
    <3>1. Deletes(req[s]) /\ req[s].account \notin req[r].ends
      BY <1>5 DEF Ends, Clash, Deletes, Typed, Fits, OpsAt
    <3>2. req'[s] = req[s]
      BY <1>5, ReleaseKeepsApart
    <3> QED
      BY <1>5, <3>1, <3>2 DEF Transfers
  <2>4. \A s \in Slots : step[s] = "set" => req[s].account \in Accounts
    BY <1>a
  <2> QED
    BY <1>5, <1>a, <2>1, <2>2, <2>3, <2>4, ReleaseKeepsApart DEF Ends
<1>6. ASSUME NEW r \in Slots, CreateSavings(r), ~Fail(r)
      PROVE  Ends'
  <2>1. /\ step[r] = "save" /\ Release(r) /\ req[r].op = "create_savings"
        /\ account' = [account EXCEPT ![req[r].account] = NewAccount]
        /\ req[r].account \in Accounts /\ req[r].txn \in Transactions
    BY <1>6 DEF CreateSavings, Typed, Fits, OpsAt
  <2>2. /\ account'[req[r].account] = NewAccount
        /\ \A a \in Accounts \ {req[r].account} : account'[a] = account[a]
    BY <2>1 DEF Typed, TypeOK
  <2>3. DeletedIsMarked' /\ \A a \in Accounts : Live(a) => Live(a)'
    BY <2>2 DEF Ends, DeletedIsMarked, Live, NewAccount
  <2>4. \A a \in req[r].ends : Live(a)'
    <3>1. \A a \in req[r].ends \ {req[r].account} : Live(a) /\ a \in Accounts
      BY <1>a, <2>1 DEF Ends
    <3> QED
      BY <2>2, <3>1 DEF Live, NewAccount
  <2>5. /\ \A x \in Transactions \ {req[r].txn} : txn'[x] = txn[x]
        /\ txn'[req[r].txn] = txn[req[r].txn]
             \/ txn'[req[r].txn].ends = req[r].ends
    BY <1>6, <2>1 DEF CreateSavings, Typed, TypeOK
  <2> QED
    BY <1>5, <2>1, <2>3, <2>4, <2>5
<1>7. ASSUME NEW r \in Slots, Post(r), ~Fail(r)
      PROVE  Ends'
  <2>1. /\ step[r] = "post" /\ Release(r) /\ req[r].op = "post"
        /\ req[r].account = None /\ req[r].txn \in Transactions
        /\ UNCHANGED <<account, share>>
    BY <1>7 DEF Post, Typed, Fits, OpsAt
  <2>2. DeletedIsMarked' /\ \A a \in Accounts : Live(a) => Live(a)'
    BY <2>1 DEF Ends, DeletedIsMarked, Live
  <2>3. \A a \in req[r].ends : Live(a)'
    BY <1>a, <2>1, <2>2, AccountsAssumption DEF Ends
  <2>4. /\ \A x \in Transactions \ {req[r].txn} : txn'[x] = txn[x]
        /\ txn'[req[r].txn].ends = req[r].ends
    BY <1>7, <2>1 DEF Post, Typed, TypeOK
  <2> QED
    BY <1>5, <2>1, <2>2, <2>3, <2>4
<1>8. ASSUME NEW r \in Slots, DeleteRead(r), ~Fail(r)
      PROVE  Ends'
  <2>1. /\ step' = [step EXCEPT ![r] = "sweep"]
        /\ UNCHANGED <<account, share, txn, req, doomed>>
    BY <1>8 DEF DeleteRead, Check, Goto
  <2>2. \A s \in Slots : step'[s] = "sweep" \/ Same(s)
    BY <2>1 DEF Typed, TypeOK
  <2>3. \A p, q \in Slots : ~Clash(req'[p], req'[q])
    BY <2>1 DEF Ends
  <2> QED
    BY <1>b, <2>1, <2>2, <2>3
<1>9. ASSUME NEW r \in Slots, Sweep(r)
      PROVE  Ends'
  <2>1. /\ UNCHANGED <<account, share, txn, req>>
        /\ step'[r] = "mark" /\ doomed'[r] = Transfers(req[r].account)
        /\ \A s \in Slots \ {r} : Same(s)
    BY <1>9 DEF Sweep, Goto, Typed, TypeOK
  <2> QED
    BY <2>1 DEF Ends, TransfersHaveBothEnds, DeletedIsMarked, Live, Transfers
<1>10. ASSUME NEW r \in Slots, Mark(r), ~Fail(r)
       PROVE  Ends'
  <2> DEFINE a == req[r].account
  <2>1. /\ step[r] = "mark" /\ Deletes(req[r]) /\ a \in Accounts
    BY <1>10 DEF Mark, Deletes, Typed, Fits, OpsAt
  <2>2. /\ Release(r)
        /\ txn' = [t \in Transactions |->
              IF t \in doomed[r] THEN [txn[t] EXCEPT !.state = "deleted"]
                                 ELSE txn[t]]
        /\ \/ account' = account
           \/ account' = [account EXCEPT ![a] =
                            [state |-> "deleted", status |-> "deleted"]]
    BY <1>10 DEF Mark
  <2>3. Transfers(a) \subseteq doomed[r]
    BY <2>1 DEF Ends
  <2> HIDE DEF a
  <2>4. \A b \in Accounts \ {a} : account'[b] = account[b]
    BY <2>2 DEF Typed, TypeOK
  <2>5. \A t \in Transactions : txn'[t].state = "posted" =>
            txn'[t] = txn[t] /\ t \notin doomed[r]
    BY <2>2 DEF Typed, TypeOK, TxnRow
  <2>6. TransfersHaveBothEnds'
    <3> SUFFICES ASSUME NEW t \in Transactions, NEW b \in txn'[t].ends,
                        txn'[t].state = "posted", txn'[t].kind = "transfer"
                 PROVE  Live(b)'
      BY DEF TransfersHaveBothEnds
    <3>1. txn'[t] = txn[t] /\ t \notin Transfers(a)
      BY <2>3, <2>5
    <3>2. b # a /\ Live(b) /\ b \in Accounts
      BY <1>a, <3>1 DEF Transfers, Ends, TransfersHaveBothEnds
    <3> QED
      BY <2>4, <3>2 DEF Live
  <2>7. DeletedIsMarked'
    BY <2>1, <2>2, <2>4 DEF Ends, DeletedIsMarked, Typed, TypeOK
  <2>8. \A s \in Slots : step'[s] = "idle" \/ (Same(s) /\ s # r)
    BY <2>2, ReleaseKeepsApart
  <2>9. \A p, q \in Slots : ~Clash(req'[p], req'[q])
    BY <2>2, ReleaseKeepsApart
  <2>10. \A b : Transfers(b)' \subseteq Transfers(b)
    BY <2>5 DEF Transfers
  <2>11. \A s \in Slots : req[s].op \in {"create_savings", "post", "patch_savings"}
              => a \notin req[s].ends
    BY <2>1 DEF Ends, Clash, a
  <2>12. \A s \in Slots :
            /\ step[s] \in {"save", "post"} =>
                 \A b \in req[s].ends \ {req[s].account} : Live(b)'
            /\ step[s] = "set" => account'[req[s].account].state = "live"
    <3> SUFFICES ASSUME NEW s \in Slots
                 PROVE  /\ step[s] \in {"save", "post"} =>
                             \A b \in req[s].ends \ {req[s].account} : Live(b)'
                        /\ step[s] = "set" =>
                             account'[req[s].account].state = "live"
      OBVIOUS
    <3>1. CASE step[s] \in {"save", "post"}
      <4>1. a \notin req[s].ends
        BY <2>11, <3>1 DEF Typed, Fits, OpsAt
      <4> QED
        BY <1>a, <2>4, <3>1, <4>1 DEF Ends, Live
    <3>2. CASE step[s] = "set"
      <4>1. req[s].account \in Accounts \ {a}
        BY <2>11, <3>2 DEF Typed, Fits, OpsAt
      <4> QED
        BY <2>4, <3>2, <4>1 DEF Ends, Live
    <3> QED
      BY <3>1, <3>2
  <2> QED
    BY <2>6, <2>7, <2>8, <2>9, <2>10, <2>12 DEF Ends, Live
<1>11. ASSUME NEW r \in Slots, PatchSavingsGet(r), ~Fail(r)
       PROVE  Ends'
  <2> DEFINE st == IF req[r].status = None
                   THEN account[req[r].account].status ELSE req[r].status
  <2>1. /\ Live(req[r].account)
        /\ req' = [req EXCEPT ![r] = [req[r] EXCEPT !.status = st]]
        /\ step' = [step EXCEPT ![r] = "set"]
        /\ UNCHANGED <<account, share, txn, doomed>>
    BY <1>11 DEF PatchSavingsGet, Sees, Goto
  <2> HIDE DEF st
  <2>2. \A s \in Slots : /\ req'[s].op = req[s].op /\ req'[s].ends = req[s].ends
                         /\ req'[s].account = req[s].account
    BY <2>1 DEF Typed, TypeOK, RequestRow
  <2>3. \A p, q \in Slots : ~Clash(req'[p], req'[q])
    BY <2>2 DEF Ends, Clash, Deletes
  <2>4. /\ step'[r] = "set" /\ account'[req'[r].account].state = "live"
        /\ \A s \in Slots \ {r} : Same(s)
    BY <2>1, <2>2 DEF Typed, TypeOK, Live
  <2> QED
    BY <2>1, <2>3, <2>4
    DEF Ends, TransfersHaveBothEnds, DeletedIsMarked, Live, Transfers
\* A status that changes is a live account's.
<1>12. ASSUME NEW a \in Accounts, NEW st \in AccountStatus, Live(a),
              account' = [account EXCEPT ![a].status = st], UNCHANGED txn,
              \A p, q \in Slots : ~Clash(req'[p], req'[q]),
              \A s \in Slots : step'[s] = "idle" \/ Same(s)
       PROVE  Ends'
  <2> DEFINE row == [account[a] EXCEPT !.status = st]
  <2>1. row.state = "live"
    BY <1>12 DEF Live, Typed, TypeOK, AccountRow
  <2>2. account' = [account EXCEPT ![a] = row]
    BY <1>12
  <2> HIDE DEF row
  <2>3. DeletedIsMarked' /\ \A b \in Accounts : Live(b) => Live(b)'
    BY <2>1, <2>2 DEF Ends, DeletedIsMarked, Live, Typed, TypeOK
  <2> QED
    BY <1>a, <1>12, <2>3, EndsUndisturbed
<1>13. ASSUME NEW r \in Slots, PatchSavingsSet(r)
       PROVE  Ends'
  <2>1. /\ Live(req[r].account) /\ req[r].account \in Accounts
        /\ req[r].status \in AccountStatus /\ Release(r) /\ UNCHANGED txn
        /\ account' = [account EXCEPT ![req[r].account].status = req[r].status]
    BY <1>13 DEF PatchSavingsSet, Ends, Typed, Fits, OpsAt
  <2>2. /\ \A s \in Slots : step'[s] = "idle" \/ Same(s)
        /\ \A p, q \in Slots : ~Clash(req'[p], req'[q])
    BY <2>1, ReleaseKeepsApart
  <2> QED
    BY <1>12, <2>1, <2>2
<1>14. ASSUME NEW u \in Users, NEW a \in Accounts, NEW s \in PatchStatuses,
              Patch(u, a, s)
       PROVE  Ends'
  <2>1. s \in AccountStatus
    BY AccountsAssumption DEF AccountStatus
  <2> QED
    BY <1>12, <1>14, <2>1 DEF Patch, Sees, Ends
<1>17. ASSUME NEW u \in Users, NEW t \in Transactions, Remove(u, t)
       PROVE  Ends'
  <2>1. \A x \in Transactions : txn'[x] = txn[x] \/ txn'[x].state # "posted"
    BY <1>17 DEF Remove, Typed, TypeOK, TxnRow
  <2>2. /\ DeletedIsMarked' /\ \A b \in Accounts : Live(b) => Live(b)'
        /\ \A p, q \in Slots : ~Clash(req'[p], req'[q])
    BY <1>17 DEF Remove, Ends, DeletedIsMarked, Live
  <2> QED
    BY <1>a, <1>17, <2>1, <2>2, EndsUndisturbed DEF Remove
<1>15. ASSUME NEW u \in Users, NEW a \in Accounts, NEW v \in Users,
              \/ RevokeShare(u, a, v)
              \/ \E p \in Permission : UpsertShare(u, a, v, p)
       PROVE  Ends'
  BY <1>15, <1>b DEF RevokeShare, UpsertShare, Ends
<1>16. CASE UNCHANGED vars
  BY <1>16, <1>b DEF vars, Ends
<1> QED
  BY <1>1, <1>2, <1>3, <1>4, <1>6, <1>7, <1>8, <1>9, <1>10, <1>11, <1>12,
     <1>13, <1>14, <1>15, <1>16, <1>17 DEF Next, Abort

\* When nothing that names an account overlaps with its deletion, no transfer
\* is left with an end nobody sees, whatever else overlaps.
THEOREM TransfersKeepBothEnds ==
    ASSUME Traffic = "apart"
    PROVE  Spec => []TransfersHaveBothEnds
<1>1. Init => Typed /\ Ends
  BY TypedInit, EndsInit
<1>2. Typed /\ Ends /\ [Next]_vars => (Typed /\ Ends)'
  BY TypedStep, EndsStep
<1>3. Ends => TransfersHaveBothEnds
  BY DEF Ends
<1> QED
  BY <1>1, <1>2, <1>3, PTL DEF Spec

\* Under the same condition a deleted account keeps the status "deleted".
THEOREM DeletedAccountsMarked ==
    ASSUME Traffic = "apart"
    PROVE  Spec => []DeletedIsMarked
<1>1. Init => Typed /\ Ends
  BY TypedInit, EndsInit
<1>2. Typed /\ Ends /\ [Next]_vars => (Typed /\ Ends)'
  BY TypedStep, EndsStep
<1>3. Ends => DeletedIsMarked
  BY DEF Ends
<1> QED
  BY <1>1, <1>2, <1>3, PTL DEF Spec
=============================================================================
