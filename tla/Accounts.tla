------------------------------- MODULE Accounts -------------------------------
(***************************************************************************)
(* Accounts, the users who share them, and the transfers between them:     *)
(* AccountService, SavingsService and the ledger entries they depend on.   *)
(*                                                                         *)
(* A handler is split where another request can come between two of its    *)
(* statements and matter: the two INSERTs of AccountService.Create, which  *)
(* commit separately; the sweep over an account's transfers and the UPDATE *)
(* that marks the account, of one transaction, with a read before it that  *)
(* is outside; the read and the write of PatchSavings; and the time        *)
(* between a client's choice of accounts and the INSERT that names them.   *)
(* The other handlers are single steps.                                    *)
(*                                                                         *)
(* A savings instrument is an account of kind "savings".                   *)
(***************************************************************************)
EXTENDS FiniteSets

CONSTANTS
    Users, Accounts, Transactions, None,
    Kind,           \* account_type of the account an id will stand for
    PatchStatuses,  \* statuses clients ask for
    Ops,            \* the kinds of request that arrive at the slots
    Slots,          \* requests the server executes at the same time
    Traffic         \* which of them may be in flight together

\* "apart": nothing that names an account overlaps with its deletion.
\* "any": no restriction; the server enforces none.
ASSUME AccountsAssumption ==
    /\ Kind \in [Accounts -> {"bank", "cash", "savings"}]
    /\ PatchStatuses \subseteq {"active", "matured", "archived", "deleted"}
    /\ Ops \subseteq {"create", "create_savings", "post", "delete",
                      "delete_savings", "patch_savings"}
    /\ Traffic \in {"apart", "any"}
    /\ None \notin Users \cup Accounts \cup Transactions \cup PatchStatuses

VARIABLES
    account,    \* accounts, by id
    share,      \* user_accounts, by user and account
    txn,        \* transactions, by id
    req,        \* the request each slot serves
    step,       \* its next statement
    doomed      \* the transfers its open transaction has marked, and locked

tables == <<account, share, txn>>
vars == <<account, share, txn, req, step, doomed>>

-----------------------------------------------------------------------------
(* Rows *)

AccountStatus == {"active", "matured", "archived", "deleted"}
Permission == {"owner", "viewer", "editor"}

\* "deleted" means deleted_at is set; status is a column of its own.
AccountRow == [state : {"absent", "live", "deleted"}, status : AccountStatus]
NoAccount == [state |-> "absent", status |-> "active"]
NewAccount == [state |-> "live", status |-> "active"]

ShareRow == [perm : Permission \cup {"none"}, active : BOOLEAN]
NoShare == [perm |-> "none", active |-> FALSE]
OwnerShare == [perm |-> "owner", active |-> TRUE]

\* The accounts a transaction names: one for an income or expense, two for a
\* transfer.
TxnRow == [state : {"absent", "posted", "deleted"},
           kind : {"entry", "transfer"}, ends : SUBSET Accounts]
NoTxn == [state |-> "absent", kind |-> "entry", ends |-> {}]

Live(a) == account[a].state = "live"

\* GetAccountForUserTx finds the account.
Sees(u, a) == share[u][a].active /\ Live(a)

\* requireAccountOwner
Owns(u, a) == share[u][a] = OwnerShare

\* requireAccountPermission asks for the share only, not for the account.
MayWrite(u, a) == share[u][a].active /\ share[u][a].perm \in {"owner", "editor"}

\* The rows DeleteTransactionsByAccountTx matches: transfers, never entries.
Transfers(a) ==
    {t \in Transactions : /\ txn[t].state = "posted"
                          /\ txn[t].kind = "transfer"
                          /\ a \in txn[t].ends}

Locked == UNION {doomed[r] : r \in Slots}

-----------------------------------------------------------------------------
(* Requests *)

Request(op, u, a, ends, t, s) ==
    [op |-> op, user |-> u, account |-> a, ends |-> ends, txn |-> t, status |-> s]

RequestRow ==
    [op : Ops \cup {"none"}, user : Users \cup {None},
     account : Accounts \cup {None}, ends : SUBSET Accounts,
     txn : Transactions \cup {None}, status : AccountStatus \cup {None}]

NoRequest == Request("none", None, None, {}, None, None)

CreateRequests == {Request("create", u, a, {a}, None, None) :
    u \in Users, a \in Accounts}
\* With a parent account the deposit is transferred from it, without it is not.
SavingsRequests == {Request("create_savings", u, a, {a, p}, t, None) :
    u \in Users, a \in {b \in Accounts : Kind[b] = "savings"}, p \in Accounts,
    t \in Transactions}
PostRequests == {Request("post", u, None, {a, b}, t, None) :
    u \in Users, a \in Accounts, b \in Accounts, t \in Transactions}
DeleteRequests == {Request(op, u, a, {a}, None, None) :
    op \in {"delete", "delete_savings"}, u \in Users, a \in Accounts}
PatchRequests == {Request("patch_savings", u, a, {a}, None, s) :
    u \in Users, a \in Accounts, s \in PatchStatuses \cup {None}}

Requests ==
    {q \in CreateRequests \cup SavingsRequests \cup PostRequests
           \cup DeleteRequests \cup PatchRequests : q.op \in Ops}

FirstStep == [create |-> "insert", create_savings |-> "save", post |-> "post",
              delete |-> "read", delete_savings |-> "sweep",
              patch_savings |-> "get"]

Deletes(q) == q.op \in {"delete", "delete_savings"}

\* One deletes an account that the other uses.
Clash(q1, q2) ==
    /\ Deletes(q1)
    /\ q2.op \in {"create_savings", "post", "patch_savings"}
    /\ q1.account \in q2.ends

InFlight == {r \in Slots : step[r] # "idle"}

Goto(r, s) == step' = [step EXCEPT ![r] = s]

\* The request is answered; its transaction and its locks are gone.
Release(r) ==
    /\ step' = [step EXCEPT ![r] = "idle"]
    /\ req' = [req EXCEPT ![r] = NoRequest]
    /\ doomed' = [doomed EXCEPT ![r] = {}]

\* The handler returns an error, or its client goes away: what it has not
\* committed is rolled back.
Fail(r) == Release(r) /\ UNCHANGED tables

Check(r, ok, next) ==
    IF ok THEN Goto(r, next) /\ UNCHANGED <<account, share, txn, req, doomed>>
          ELSE Fail(r)

-----------------------------------------------------------------------------
(* AccountService.Create: CreateAccountWithOwnerTx is given no transaction *)

CreateInsert(r) ==
    LET a == req[r].account IN
    /\ step[r] = "insert"
    /\ IF account[a].state = "absent"
       THEN /\ account' = [account EXCEPT ![a] = NewAccount]
            /\ Goto(r, "owner")
            /\ UNCHANGED <<share, txn, req, doomed>>
       ELSE Fail(r)

CreateOwner(r) ==
    /\ step[r] = "owner"
    /\ share' = [share EXCEPT ![req[r].user][req[r].account] = OwnerShare]
    /\ UNCHANGED <<account, txn>>
    /\ Release(r)

(* SavingsService.CreateSavings: account, owner and deposit in one transaction *)

CreateSavings(r) ==
    LET q == req[r]
        a == q.account
        deposit == q.ends # {a}
    IN  /\ step[r] = "save"
        /\ IF /\ account[a].state = "absent"
              /\ deposit => /\ \A p \in q.ends \ {a} : MayWrite(q.user, p)
                            /\ txn[q.txn].state = "absent"
           THEN /\ account' = [account EXCEPT ![a] = NewAccount]
                /\ share' = [share EXCEPT ![q.user][a] = OwnerShare]
                /\ txn' = IF deposit
                          THEN [txn EXCEPT ![q.txn] = [state |-> "posted",
                                    kind |-> "transfer", ends |-> q.ends]]
                          ELSE txn
                /\ Release(r)
           ELSE Fail(r)

(* TransactionService.Create, as far as accounts are concerned *)

Post(r) ==
    LET q == req[r]
        kind == IF \E a \in q.ends : q.ends = {a} THEN "entry" ELSE "transfer"
    IN  /\ step[r] = "post"
        /\ IF /\ \A a \in q.ends : MayWrite(q.user, a)
              /\ txn[q.txn].state = "absent"
           THEN /\ txn' = [txn EXCEPT ![q.txn] =
                      [state |-> "posted", kind |-> kind, ends |-> q.ends]]
                /\ UNCHANGED <<account, share>>
                /\ Release(r)
           ELSE Fail(r)

(* AccountService.Delete and SavingsService.DeleteSavings *)

\* The account is read from the pool before the transaction begins.
DeleteRead(r) ==
    LET a == req[r].account IN
    /\ step[r] = "read"
    /\ Check(r, Sees(req[r].user, a) /\ Kind[a] # "cash", "sweep")

\* DeleteTransactionsByAccountTx waits for rows another deletion has marked.
Sweep(r) ==
    LET found == Transfers(req[r].account) IN
    /\ step[r] = "sweep"
    /\ found \cap Locked = {}
    /\ doomed' = [doomed EXCEPT ![r] = found]
    /\ Goto(r, "mark")
    /\ UNCHANGED <<account, share, txn, req>>

\* DeleteAccountTx needs the owner; DeleteSavingsTx any share and a savings
\* account, or it marks nothing.  Then the transaction commits.
Mark(r) ==
    LET q == req[r]
        a == q.account
        marks == IF q.op = "delete" THEN Live(a)
                 ELSE Kind[a] = "savings" /\ share[q.user][a].perm # "none"
    IN  /\ step[r] = "mark"
        /\ IF q.op = "delete" /\ ~Owns(q.user, a)
           THEN Fail(r)
           ELSE /\ account' = IF marks
                    THEN [account EXCEPT ![a] =
                            [state |-> "deleted", status |-> "deleted"]]
                    ELSE account
                /\ txn' = [t \in Transactions |->
                    IF t \in doomed[r] THEN [txn[t] EXCEPT !.state = "deleted"]
                                       ELSE txn[t]]
                /\ UNCHANGED share
                /\ Release(r)

(* SavingsService.PatchSavings: read from the pool, written back in full *)

PatchSavingsGet(r) ==
    LET q == req[r] IN
    /\ step[r] = "get"
    /\ IF Kind[q.account] = "savings" /\ Sees(q.user, q.account)
       THEN /\ req' = [req EXCEPT ![r].status =
                    IF @ = None THEN account[q.account].status ELSE @]
            /\ Goto(r, "set")
            /\ UNCHANGED <<account, share, txn, doomed>>
       ELSE Fail(r)

\* Fault: the account is written back with everything that was read.
PatchSavingsRevives(r) ==
    /\ step[r] = "set"
    /\ account' = [account EXCEPT ![req[r].account] =
                        [state |-> "live", status |-> req[r].status]]
    /\ UNCHANGED <<share, txn>>
    /\ Release(r)

\* The UPDATE does not ask for deleted_at IS NULL.
PatchSavingsSet(r) ==
    /\ step[r] = "set"
    /\ account' = [account EXCEPT ![req[r].account].status = req[r].status]
    /\ UNCHANGED <<share, txn>>
    /\ Release(r)

-----------------------------------------------------------------------------
(* Handlers of one step *)

\* AccountService.Patch
Patch(u, a, s) ==
    /\ Sees(u, a)
    /\ Owns(u, a)
    /\ account' = [account EXCEPT ![a].status = s]
    /\ UNCHANGED <<share, txn, req, step, doomed>>

\* Fault: the unique index is missing.
UpsertShareAnyone(u, a, v, p) ==
    /\ Sees(u, a)
    /\ Owns(u, a)
    /\ share' = [share EXCEPT ![v][a] = [perm |-> p, active |-> TRUE]]
    /\ UNCHANGED <<account, txn, req, step, doomed>>

\* AccountService.UpsertShare; the unique index on the active owner refuses a
\* second one.
UpsertShare(u, a, v, p) ==
    /\ Sees(u, a)
    /\ v # u
    /\ Owns(u, a)
    /\ p = "owner" => \A w \in Users \ {v} : ~Owns(w, a)
    /\ share' = [share EXCEPT ![v][a] = [perm |-> p, active |-> TRUE]]
    /\ UNCHANGED <<account, txn, req, step, doomed>>

\* AccountService.RevokeShare
RevokeShare(u, a, v) ==
    /\ Sees(u, a)
    /\ Owns(u, a)
    /\ share[v][a].perm \notin {"none", "owner"}
    /\ share' = [share EXCEPT ![v][a].active = FALSE]
    /\ UNCHANGED <<account, txn, req, step, doomed>>

\* TransactionService.Delete, as far as accounts are concerned: every account
\* of the transaction is shared with the caller.
Remove(u, t) ==
    /\ txn[t].state = "posted"
    /\ \A a \in txn[t].ends : share[u][a].active
    /\ t \notin Locked
    /\ txn' = [txn EXCEPT ![t].state = "deleted"]
    /\ UNCHANGED <<account, share, req, step, doomed>>

-----------------------------------------------------------------------------
(* The server *)

\* New rows get new ids, and clients post to accounts they have been shown.
Begin(r) ==
    /\ step[r] = "idle"
    /\ \E q \in Requests :
         /\ q.op \in {"create", "create_savings"} =>
                account[q.account].state = "absent"
         /\ q.op \in {"create_savings", "post"} =>
                /\ txn[q.txn].state = "absent"
                /\ \A a \in q.ends \ {q.account} : Sees(q.user, a)
         /\ Traffic = "apart" =>
                \A s \in InFlight : ~Clash(q, req[s]) /\ ~Clash(req[s], q)
         /\ req' = [req EXCEPT ![r] = q]
         /\ Goto(r, FirstStep[q.op])
    /\ UNCHANGED <<account, share, txn, doomed>>

Abort(r) == r \in InFlight /\ Fail(r)

Init ==
    /\ account = [a \in Accounts |-> NoAccount]
    /\ share = [u \in Users |-> [a \in Accounts |-> NoShare]]
    /\ txn = [t \in Transactions |-> NoTxn]
    /\ req = [r \in Slots |-> NoRequest]
    /\ step = [r \in Slots |-> "idle"]
    /\ doomed = [r \in Slots |-> {}]

Next ==
    \/ \E r \in Slots :
         \/ Begin(r) \/ Abort(r)
         \/ CreateInsert(r) \/ CreateOwner(r) \/ CreateSavings(r) \/ Post(r)
         \/ DeleteRead(r) \/ Sweep(r) \/ Mark(r)
         \/ PatchSavingsGet(r) \/ PatchSavingsSet(r)
    \/ \E u \in Users :
         \/ \E t \in Transactions : Remove(u, t)
         \/ \E a \in Accounts :
              \/ \E s \in PatchStatuses : Patch(u, a, s)
              \/ \E v \in Users : \/ RevokeShare(u, a, v)
                                  \/ \E p \in Permission : UpsertShare(u, a, v, p)

Spec == Init /\ [][Next]_vars

-----------------------------------------------------------------------------
(* Properties *)

Steps == {"idle", "insert", "owner", "save", "post", "read", "sweep", "mark",
          "get", "set"}

TypeOK ==
    /\ account \in [Accounts -> AccountRow]
    /\ share \in [Users -> [Accounts -> ShareRow]]
    /\ txn \in [Transactions -> TxnRow]
    /\ step \in [Slots -> Steps]
    /\ doomed \in [Slots -> SUBSET Transactions]
    /\ req \in [Slots -> RequestRow]
    \* Two open deletions never hold the same transfer.
    /\ \A r, s \in Slots : r # s => doomed[r] \cap doomed[s] = {}

\* An account never has two active owners, whatever permissions are granted.
OneOwner ==
    \A u, v \in Users, a \in Accounts : Owns(u, a) /\ Owns(v, a) => u = v

\* The owner of an account stays its owner: no sharing, no revocation and no
\* creation takes the account from the one who can share it.
OwnerStays ==
    [][\A u \in Users, a \in Accounts : Owns(u, a) => Owns(u, a)']_vars

\* A deleted account is never seen again: no write that was based on an
\* earlier read brings it back.
DeletedForever ==
    [][\A a \in Accounts : account[a].state = "deleted" =>
                           account'[a].state = "deleted"]_vars

\* Money that leaves an account arrives in one: both ends of a posted transfer
\* are accounts whose balances somebody still sees.  This is what the deletion
\* of an account sweeps its transfers for.  The code keeps it only where no transfer
\* is posted beside the deletion (TransfersKeepBothEnds in AccountsProofs).
TransfersHaveBothEnds ==
    \A t \in Transactions :
        txn[t].state = "posted" /\ txn[t].kind = "transfer" =>
            \A a \in txn[t].ends : Live(a)

\* deleted_at and the status "deleted" go together as DeleteAccountTx and
\* DeleteSavingsTx write them, although every other write of the status takes
\* it from the client or from an earlier read.
DeletedIsMarked ==
    \A a \in Accounts :
        account[a].state = "deleted" => account[a].status = "deleted"
=============================================================================
