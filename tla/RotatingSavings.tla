--------------------------- MODULE RotatingSavings ---------------------------
(***************************************************************************)
(* Rotating savings groups, their contributions and the ledger entries     *)
(* that go with them: RotatingSavingsService, with the deletion of ledger  *)
(* entries it shares with TransactionService.                              *)
(*                                                                         *)
(* A contribution and its ledger entry are created together and have one   *)
(* id here.  Their deletion is not one transaction: the service opens one, *)
(* calls TransactionService.Delete, which opens another on a second        *)
(* connection and commits by itself, ignores its error, and only then      *)
(* deletes its own rows.  Another request, or the end of this one, can     *)
(* come in between; and while it waits for the second connection it keeps  *)
(* the first.                                                              *)
(***************************************************************************)
EXTENDS Naturals, FiniteSets

CONSTANTS
    Users, Accounts, Groups, Contributions, None,
    Slots,      \* requests the server executes at the same time
    PoolSize,   \* connections of the pool
    Deleters,   \* deletions of groups and contributions in flight at once
    Traffic     \* what else may be in flight together

\* "apart": nobody loses access to an account, and no contribution is made while its
\* group is deleted or changed.  "any": no restriction; the server enforces none, on
\* Deleters neither.
ASSUME RotatingAssumption ==
    /\ PoolSize \in Nat \ {0}
    /\ Deleters \in Nat
    /\ Traffic \in {"apart", "any"}
    /\ None \notin Users \cup Accounts \cup Groups \cup Contributions
    /\ IsFiniteSet(Slots)

VARIABLES
    group,  \* rotating_savings_groups, by id
    row,    \* rotating_savings_contributions, by id
    entry,  \* transactions, by the id of their contribution
    perm,   \* user_accounts, by user and account
    req,    \* the request each slot serves
    step    \* its next statement

vars == <<group, row, entry, perm, req, step>>

-----------------------------------------------------------------------------
(* Rows *)

\* Groups and contributions are deleted for good ("gone"); deleted_at is set
\* ("soft") on a contribution whose ledger entry has been deleted.
NoGroup == [state |-> "absent", user |-> None, account |-> None]
GroupRow == [state : {"live", "gone"}, user : Users, account : Accounts]
                \cup {NoGroup}

NoContribution == [state |-> "absent", group |-> None]
ContributionRow == [state : {"live", "soft", "gone"}, group : Groups]
                       \cup {NoContribution}

NoEntry == [state |-> "absent", account |-> None]
EntryRow == [state : {"posted", "deleted"}, account : Accounts] \cup {NoEntry}

Permission == {"writer", "reader", "none"}

Posted(c) == entry[c].state = "posted"

\* GetRotatingGroupTx
Finds(u, g) == group[g].state = "live" /\ group[g].user = u

\* The groups a client may name.
Known(g) == group[g].state # "absent"

\* TransactionPermissionSQL, for an income or expense
SeesEntry(u, c) == Posted(c) /\ perm[u][entry[c].account] # "none"

\* ListContributionsTx does not ask for deleted_at.
Listed(g) ==
    {c \in Contributions : /\ row[c].state \in {"live", "soft"}
                           /\ row[c].group = g}

-----------------------------------------------------------------------------
(* Requests and connections *)

Request(u, g, c, a, todo) ==
    [user |-> u, group |-> g, contribution |-> c, account |-> a, todo |-> todo]
NoRequest == Request(None, None, None, None, {})

RequestRow == [user : Users \cup {None}, group : Groups \cup {None},
               contribution : Contributions \cup {None},
               account : Accounts \cup {None}, todo : SUBSET Contributions]

Deleting == {r \in Slots : step[r] \in {"drop_begin", "drop_entry", "drop_row",
                                        "group"}}

\* Slots with an open transaction, and with it a connection.
Holding == {r \in Slots : step[r] \in {"drop_entry", "drop_row", "group"}}

\* pgxpool hands out a connection, or lets the caller wait for one.
Free == Cardinality(Holding) < PoolSize

\* A request in one of these steps is at work on the group.
Busy(g, steps) == \E r \in Slots : step[r] \in steps /\ req[r].group = g

Start(r, q, s) ==
    /\ step[r] = "idle"
    /\ Free
    /\ req' = [req EXCEPT ![r] = q]
    /\ step' = [step EXCEPT ![r] = s]

Goto(r, s) == step' = [step EXCEPT ![r] = s] /\ UNCHANGED req

\* The request is answered and its connection is back in the pool.
Answer(r) ==
    /\ step' = [step EXCEPT ![r] = "idle"]
    /\ req' = [req EXCEPT ![r] = NoRequest]

-----------------------------------------------------------------------------
(* Ledger entries *)

\* Fault: the clean-up of the contribution is not called.
RemovedEntryOnly(u, c) ==
    /\ entry' = IF SeesEntry(u, c) THEN [entry EXCEPT ![c].state = "deleted"]
                                   ELSE entry
    /\ UNCHANGED row

\* TransactionService.Delete: one transaction, with the clean-up of the
\* contribution that CleanupTransactionLinksTx does; rolled back if the entry
\* cannot be seen.
Removed(u, c) ==
    IF SeesEntry(u, c)
    THEN /\ entry' = [entry EXCEPT ![c].state = "deleted"]
         /\ row' = [row EXCEPT ![c].state = IF @ = "live" THEN "soft" ELSE @]
    ELSE UNCHANGED <<entry, row>>

\* The same asked for by the deletion of a contribution or a group, which ignores
\* whatever comes of it: the transaction may fail as well.
Tried(u, c) == Removed(u, c) \/ UNCHANGED <<entry, row>>

Remove(u, c) ==
    /\ Free
    /\ SeesEntry(u, c)
    /\ Removed(u, c)
    /\ UNCHANGED <<group, perm, req, step>>

-----------------------------------------------------------------------------
(* Groups: CreateGroup, UpdateGroup *)

CreateGroup(u, g, a) ==
    /\ Free
    /\ group[g].state = "absent"
    /\ group' = [group EXCEPT ![g] = [state |-> "live", user |-> u, account |-> a]]
    /\ UNCHANGED <<row, entry, perm, req, step>>

\* Fault: what the request leaves out is written as missing.
UpdateGetNull(r, u, g, asked) ==
    /\ Finds(u, g)
    /\ Traffic = "apart" => ~Busy(g, {"contribute"})
    /\ Start(r, Request(u, g, None, asked, {}), "update")
    /\ UNCHANGED <<group, row, entry, perm>>

\* The account asked for, or the one the group has when it is read.
UpdateGet(r, u, g, asked) ==
    /\ Finds(u, g)
    /\ Traffic = "apart" => ~Busy(g, {"contribute"})
    /\ LET a == IF asked = None THEN group[g].account ELSE asked
       IN Start(r, Request(u, g, None, a, {}), "update")
    /\ UNCHANGED <<group, row, entry, perm>>

\* UpdateRotatingGroupTx does nothing to a group that is gone.
UpdateSet(r) ==
    /\ step[r] = "update"
    /\ Free
    /\ group' = [group EXCEPT ![req[r].group].account =
                    IF Finds(req[r].user, req[r].group) THEN req[r].account ELSE @]
    /\ Answer(r)
    /\ UNCHANGED <<row, entry, perm>>

-----------------------------------------------------------------------------
(* CreateContribution *)

\* utils.NewID: an id for a contribution and its entry that nobody else has.
Unused(c) ==
    /\ row[c].state = "absent"
    /\ \A r \in Slots : step[r] = "contribute" => req[r].contribution # c

\* Fault: the account is the one the request names.
ContributeGetAny(r, u, g, c) ==
    /\ Finds(u, g)
    /\ Unused(c)
    /\ Traffic = "apart" => ~Busy(g, {"update", "group"})
    /\ \E a \in Accounts : Start(r, Request(u, g, c, a, {}), "contribute")
    /\ UNCHANGED <<group, row, entry, perm>>

\* The group is read before the transaction begins; its account is used in it.
ContributeGet(r, u, g, c) ==
    /\ Finds(u, g)
    /\ Unused(c)
    /\ Traffic = "apart" => ~Busy(g, {"update", "group"})
    /\ Start(r, Request(u, g, c, group[g].account, {}), "contribute")
    /\ UNCHANGED <<group, row, entry, perm>>

\* CreateTransactionTx asks for permission on the account, CreateContributionTx
\* depends on the group by its foreign key; one of them failing rolls back both.
Accepted(q) ==
    /\ perm[q.user][q.account] = "writer"
    /\ group[q.group].state = "live"

Contribute(r) ==
    /\ step[r] = "contribute"
    /\ Free
    /\ LET q == req[r]
       IN IF Accepted(q)
          THEN /\ entry' = [entry EXCEPT ![q.contribution] =
                               [state |-> "posted", account |-> q.account]]
               /\ row' = [row EXCEPT ![q.contribution] =
                             [state |-> "live", group |-> q.group]]
          ELSE UNCHANGED <<entry, row>>
    /\ Answer(r)
    /\ UNCHANGED <<group, perm>>

-----------------------------------------------------------------------------
(* DeleteContribution *)

DropList(r, u, c) ==
    /\ Cardinality(Deleting) < Deleters
    /\ row[c].state \in {"live", "soft"}
    /\ Known(row[c].group)
    /\ Start(r, Request(u, row[c].group, c, None, {}), "drop_begin")
    /\ UNCHANGED <<group, row, entry, perm>>

DropBegin(r) ==
    /\ step[r] = "drop_begin"
    /\ Free
    /\ Goto(r, "drop_entry")
    /\ UNCHANGED <<group, row, entry, perm>>

\* A second connection; whatever comes of it is ignored.
DropEntry(r) ==
    /\ step[r] = "drop_entry"
    /\ Free
    /\ Tried(req[r].user, req[r].contribution)
    /\ Goto(r, "drop_row")
    /\ UNCHANGED <<group, perm>>

DropRow(r) ==
    /\ step[r] = "drop_row"
    /\ row' = [row EXCEPT ![req[r].contribution].state = "gone"]
    /\ Answer(r)
    /\ UNCHANGED <<group, entry, perm>>

-----------------------------------------------------------------------------
(* DeleteGroup *)

\* A deletion may be sent again; for a group that is gone it finds nothing.
GroupList(r, u, g) ==
    /\ Cardinality(Deleting) < Deleters
    /\ Known(g)
    /\ Traffic = "apart" => ~Busy(g, {"contribute"})
    /\ Start(r, Request(u, g, None, None, Listed(g)), "group")
    /\ UNCHANGED <<group, row, entry, perm>>

\* Fault: an entry that cannot be deleted is tried again.
GroupEntryRetried(r, c) ==
    /\ step[r] = "group"
    /\ c \in req[r].todo
    /\ Free
    /\ Removed(req[r].user, c)
    /\ req' = [req EXCEPT ![r].todo = IF Posted(c) THEN @ \ {c} ELSE @]
    /\ UNCHANGED <<group, perm, step>>

\* The entries one by one, each with a second connection, errors ignored.
GroupEntry(r, c) ==
    /\ step[r] = "group"
    /\ c \in req[r].todo
    /\ Free
    /\ Tried(req[r].user, c)
    /\ req' = [req EXCEPT ![r].todo = @ \ {c}]
    /\ UNCHANGED <<group, perm, step>>

\* The group's row goes, and with it every contribution it has by then.
GroupGone(r) ==
    /\ step[r] = "group"
    /\ req[r].todo = {}
    /\ IF Finds(req[r].user, req[r].group)
       THEN /\ group' = [group EXCEPT ![req[r].group].state = "gone"]
            /\ row' = [c \in Contributions |->
                         IF c \in Listed(req[r].group)
                         THEN [row[c] EXCEPT !.state = "gone"] ELSE row[c]]
       ELSE UNCHANGED <<group, row>>
    /\ Answer(r)
    /\ UNCHANGED <<entry, perm>>

-----------------------------------------------------------------------------
(* The server *)

\* Sharing and revoking accounts, as the Accounts module has it.
Reshare(u, a, p) ==
    /\ Traffic = "apart" => p # "none"
    /\ perm[u][a] # p
    /\ perm' = [perm EXCEPT ![u][a] = p]
    /\ UNCHANGED <<group, row, entry, req, step>>

\* The client goes away: what is open is rolled back.
Abort(r) ==
    /\ step[r] # "idle"
    /\ Answer(r)
    /\ UNCHANGED <<group, row, entry, perm>>

Init ==
    /\ group = [g \in Groups |-> NoGroup]
    /\ row = [c \in Contributions |-> NoContribution]
    /\ entry = [c \in Contributions |-> NoEntry]
    /\ perm \in [Users -> [Accounts -> Permission]]
    /\ req = [r \in Slots |-> NoRequest]
    /\ step = [r \in Slots |-> "idle"]

Arrive(r) ==
    \E u \in Users :
      \/ \E g \in Groups :
           \/ GroupList(r, u, g)
           \/ \E a \in Accounts \cup {None} : UpdateGet(r, u, g, a)
           \/ \E c \in Contributions : ContributeGet(r, u, g, c)
      \/ \E c \in Contributions : DropList(r, u, c)

\* The next statement of a request under way.
Serve(r) ==
    \/ UpdateSet(r) \/ Contribute(r)
    \/ DropBegin(r) \/ DropEntry(r) \/ DropRow(r)
    \/ GroupGone(r) \/ \E c \in Contributions : GroupEntry(r, c)

Next ==
    \/ \E r \in Slots : Arrive(r) \/ Serve(r) \/ Abort(r)
    \/ \E u \in Users :
         \/ \E c \in Contributions : Remove(u, c)
         \/ \E a \in Accounts :
              \/ \E g \in Groups : CreateGroup(u, g, a)
              \/ \E p \in Permission : Reshare(u, a, p)

Spec == Init /\ [][Next]_vars

FairSpec == Spec /\ \A r \in Slots : WF_vars(Serve(r))

-----------------------------------------------------------------------------
(* Properties *)

TypeOK ==
    /\ group \in [Groups -> GroupRow]
    /\ row \in [Contributions -> ContributionRow]
    /\ entry \in [Contributions -> EntryRow]
    /\ perm \in [Users -> [Accounts -> Permission]]
    /\ req \in [Slots -> RequestRow]
    /\ step \in [Slots -> {"idle", "update", "contribute", "drop_begin",
                           "drop_entry", "drop_row", "group"}]
    \* No connection is given out twice.
    /\ Cardinality(Holding) <= PoolSize

\* A contribution that has not been voided is money that moved: its entry is
\* in the ledger, whatever requests delete it or fail in between.
ContributionsArePosted ==
    \A c \in Contributions : row[c].state = "live" => Posted(c)

\* The comment on DeleteGroup: it deletes the group and the entries that belong to
\* it.  An entry stays when its deletion fails, or when it was made while the group
\* was deleted.
GroupsTakeTheirEntries ==
    \A c \in Contributions :
        row[c].state # "absent" /\ group[row[c].group].state = "gone" => ~Posted(c)

\* A contribution is posted to the account the group has at that moment.
PostedToTheGroupsAccount ==
    [][\A c \in Contributions :
         ~Posted(c) /\ Posted(c)' =>
            entry'[c].account = group'[row'[c].group].account]_vars

\* Every request is answered, and none starves for a connection, as long as
\* fewer deletions are under way than the pool has connections.
EveryRequestEnds ==
    \A r \in Slots : step[r] # "idle" ~> step[r] = "idle"
=============================================================================
