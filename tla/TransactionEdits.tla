-------------------------- MODULE TransactionEdits --------------------------
(***************************************************************************)
(* Ledger entries with their line items and tags: how they are created,    *)
(* edited one by one or in batches, and deleted, statement by statement.   *)
(*                                                                         *)
(* A batch in atomic mode, a creation and a deletion are transactions.  A  *)
(* single edit, and each edit of a partial batch, is not: every statement  *)
(* commits by itself, so that requests and the end of the server come      *)
(* between them.  A statement that writes a row another open transaction   *)
(* has written waits for it; when transactions wait for each other         *)
(* Postgres ends one of them.  What else an entry has a part in (debts,    *)
(* shared expenses) is in DebtLedger.                                      *)
(***************************************************************************)
EXTENDS Naturals, Sequences, FiniteSets

LOCAL INSTANCE Functions

CONSTANTS
    Transactions,
    Stored,     \* those there from the start, with one line item
    Transfers,  \* those that move money between accounts
    Plain,      \* a note nobody wrote
    Patches,    \* what requests carry: [amount, note, lines, tags]
    Notes,      \* what a line item may say; Plain is one of them
    Batches,    \* the sequences of entries batches name
    Habits,     \* how clients edit entries
    Slots,      \* requests the server executes at the same time
    MaxRequests,    \* bound: requests clients make in all, by their habit
    None

\* "batch": edits come in atomic batches and always carry the amount (it stands
\* for the columns of the entry's row that a batch can set, amount and status).
\* "atomic": in atomic batches of any kind.  "any": in any way there is.
ASSUME EditsAssumption ==
    /\ Stored \subseteq Transactions
    /\ Habits \subseteq {"batch", "atomic", "any"}
    /\ \A p \in Patches : DOMAIN p = {"amount", "note", "lines", "tags"}
    /\ \A p \in Patches : p.lines = None \/ p.lines \in Seq([amount : Nat, note : Notes])
    /\ \A p \in Patches : p.note = None \/ p.note \in Notes
    /\ None \notin Transactions \cup Slots

VARIABLES
    row,    \* transactions: versions of the row, by entry
    item,   \* transaction_line_items: versions of the rows, by entry
    tagged, \* transaction_tags: versions of the rows, by entry
    req,    \* the request each slot serves
    step,   \* its next statement
    habit,  \* what clients do, all the time
    left    \* the requests still to come

vars == <<row, item, tagged, req, step, habit, left>>

INSTANCE RowVersions

-----------------------------------------------------------------------------
(* Rows and requests *)

Row(a, d, r) == [amount |-> a, deleted |-> d, by |-> r, until |-> None]
Item(id, a, n, r) == [id |-> id, amount |-> a, note |-> n, by |-> r, until |-> None]
Tag(g, r) == [tag |-> g, by |-> r, until |-> None]

\* seen: line items the running statement has found; n: the line it is at.
Request(m, todo, p) ==
    [mode |-> m, todo |-> todo, patch |-> p, seen |-> {}, n |-> 1]
NoPatch == [amount |-> None, note |-> None, lines |-> None, tags |-> None]
NoRequest == Request("none", <<>>, NoPatch)

t(r) == Head(req[r].todo)
p(r) == req[r].patch

\* Fault: the batch runs on the pool, whatever its mode.
OpensOthers(r) == req[r].mode \in {"create", "delete"}

\* Requests that run in WithTx.
Opens(r) == req[r].mode \in {"create", "atomic", "delete"}

\* ck_transactions_amount_positive, ck_tli_amount_positive,
\* enforce_tli_non_transfer
AcceptsAmount(a) == a > 0
AcceptsLine(x, a) == a > 0 /\ x \notin Transfers

\* A write becomes visible to others when its transaction ends; without one,
\* at once.
Result(V, r) == IF Opens(r) THEN V ELSE Committed(V, r)

Put(table, r, V) == [table EXCEPT ![t(r)] = Result(V, r)]

\* getTransaction: the entry is there and not deleted.
Found(r) == \E v \in Seen(row[t(r)], r) : ~v.deleted

-----------------------------------------------------------------------------
(* The course of a request *)

\* Where an edit goes on, by the parts of the entry that it changes, in the order
\* of patchTransactionTx.
AfterLines(q) == IF q.tags # None THEN "untag" ELSE "reread"
AfterNote(q) == IF q.lines # None THEN "scan" ELSE AfterLines(q)
AfterRow(q) == IF q.note # None THEN "first" ELSE AfterNote(q)
AfterCheck(q) == IF q.amount # None THEN "row" ELSE AfterRow(q)

Goto(r, s) == step' = [step EXCEPT ![r] = s]

Proceed(r, s) ==
    /\ Goto(r, s)
    /\ req' = [req EXCEPT ![r].seen = {}, ![r].n = 1]

Answer(r) ==
    /\ Goto(r, "idle")
    /\ req' = [req EXCEPT ![r] = NoRequest]

\* On to the next entry of the batch; after the last, to the end of it.
NextEntry(r) ==
    IF Len(req[r].todo) > 1
    THEN /\ req' = [req EXCEPT ![r].todo = Tail(@), ![r].seen = {}, ![r].n = 1]
         /\ Goto(r, "check")
    ELSE IF Opens(r) THEN Goto(r, "commit") /\ UNCHANGED req
    ELSE Answer(r)

Rollback(r) ==
    /\ row' = [x \in Transactions |-> RolledBack(row[x], r)]
    /\ item' = [x \in Transactions |-> RolledBack(item[x], r)]
    /\ tagged' = [x \in Transactions |-> RolledBack(tagged[x], r)]

\* Fault: the error is returned before the transaction is rolled back.
FailOpen(r) ==
    IF req[r].mode = "partial"
    THEN NextEntry(r) /\ UNCHANGED <<row, item, tagged>>
    ELSE Answer(r) /\ UNCHANGED <<row, item, tagged>>

\* Fault: the statement is tried again in the same transaction.
FailAgain(r) == UNCHANGED <<row, item, tagged, req, step>>

\* An error ends a request, except that a partial batch counts the entry as
\* failed and goes on.
Fail(r) ==
    IF req[r].mode = "partial"
    THEN NextEntry(r) /\ UNCHANGED <<row, item, tagged>>
    ELSE Rollback(r) /\ Answer(r)

Commit(r) ==
    /\ step[r] = "commit"
    /\ row' = [x \in Transactions |-> Committed(row[x], r)]
    /\ item' = [x \in Transactions |-> Committed(item[x], r)]
    /\ tagged' = [x \in Transactions |-> Committed(tagged[x], r)]
    /\ Answer(r)

-----------------------------------------------------------------------------
(* Requests *)

\* An id nobody else is inserting.
Fresh(x) == row[x] = {} /\ \A r \in Slots : req[r].mode = "create" => t(r) # x

Sum(lines) == FoldFunction(+, 0, [k \in DOMAIN lines |-> lines[k].amount])

\* The description of the entry goes to the first line item if that has no note.
Titled(lines, note) ==
    IF note # None /\ lines[1].note = Plain
    THEN [lines EXCEPT ![1].note = note] ELSE lines

\* Create takes the sum of the line items for the amount, and completes their
\* notes; edits do neither.
Summed(q) ==
    IF q.lines = None \/ q.lines = <<>> THEN q
    ELSE [q EXCEPT !.amount = Sum(q.lines), !.lines = Titled(@, q.note)]

CreateRequests ==
    {Request("create", <<x>>, q) : x \in {y \in Transactions : Fresh(y)},
                                   q \in {e \in Patches : Summed(e).amount # None}}

Known == {x \in Transactions : row[x] # {}}

\* An edit without the amount or the status executes no UPDATE of the entry's
\* row, and so does not wait for the others that edit the entry.
Edits == {q \in Patches : habit = "batch" => q.amount # None}

PatchRequests == {Request("patch", <<x>>, q) : x \in Known, q \in Edits}

\* An empty batch does nothing.
BatchRequests ==
    {Request(m, b, q) : m \in {"partial", "atomic"}, q \in Edits,
                        b \in {c \in Batches : c # <<>> /\ c \in Seq(Known)}}

DeleteRequests == {Request("delete", <<x>>, NoPatch) : x \in Known}

Take(r, q, s) ==
    /\ step[r] = "idle" /\ left > 0
    /\ left' = left - 1
    /\ req' = [req EXCEPT ![r] = q]
    /\ Goto(r, s)
    /\ UNCHANGED <<row, item, tagged>>

Create(r) ==
    \E q \in CreateRequests : Take(r, [q EXCEPT !.patch = Summed(@)], "insert")

Patch(r) == habit = "any" /\ \E q \in PatchRequests : Take(r, q, "check")

BatchPatch(r) ==
    \E q \in BatchRequests : (habit # "any" => q.mode = "atomic") /\ Take(r, q, "check")

Delete(r) == \E q \in DeleteRequests : Take(r, q, "find")

-----------------------------------------------------------------------------
(* The statements *)

\* A new entry has no tags to remove first.
TagsNext(q) == IF q.tags # None THEN "tag" ELSE "commit"

\* CreateTransactionTx, the row; access to the account is in DebtLedger.
Insert(r) ==
    /\ step[r] = "insert"
    /\ IF AcceptsAmount(p(r).amount)
       THEN /\ row' = Put(row, r, row[t(r)] \cup {Row(p(r).amount, FALSE, r)})
            /\ Goto(r, IF p(r).lines # None THEN "lines" ELSE TagsNext(p(r)))
            /\ UNCHANGED <<item, tagged, req>>
       ELSE Fail(r)

Check(r) ==
    /\ step[r] = "check"
    /\ IF Found(r) THEN Proceed(r, AfterCheck(p(r))) /\ UNCHANGED <<row, item, tagged>> ELSE Fail(r)

\* The entry is updated by its id, deleted or not.
OldRow(r) == Seen(row[t(r)], r)

SetRow(r, new) ==
    row' = Put(row, r, Removed(row[t(r)], OldRow(r), r)
                           \cup {[v EXCEPT !.by = r] : v \in new})

UpdateRow(r) ==
    /\ step[r] = "row"
    /\ Lockers(row[t(r)], r) = {}
    /\ IF AcceptsAmount(p(r).amount)
       THEN /\ SetRow(r, {[v EXCEPT !.amount = p(r).amount] : v \in OldRow(r)})
            /\ Proceed(r, AfterRow(p(r)))
            /\ UNCHANGED <<item, tagged>>
       ELSE Fail(r)

\* A note, or a category, for the first line item in the order of their ids,
\* which are random.  Without line items it is dropped.  Where a batch names an
\* entry twice, the line item it has written to is still the first; only edits
\* that do not write the entry's row insert others beside it.
Lead(r) ==
    {v \in Seen(item[t(r)], r) :
        habit = "batch" => v.by = r \/ \A w \in Seen(item[t(r)], r) : w.by # r}

First(r) ==
    /\ step[r] = "first"
    /\ \/ /\ Seen(item[t(r)], r) = {}
          /\ Proceed(r, AfterNote(p(r)))
       \/ \E v \in Lead(r) :
              /\ req' = [req EXCEPT ![r].seen = {v.id}]
              /\ Goto(r, "note")
    /\ UNCHANGED <<row, item, tagged>>

\* The line items the running statement will write.
Aimed(r) == {v \in Seen(item[t(r)], r) : v.id \in req[r].seen}

Note(r) ==
    /\ step[r] = "note"
    /\ Lockers(Aimed(r), r) = {}
    /\ item' = Put(item, r, Removed(item[t(r)], Aimed(r), r)
                   \cup {[v EXCEPT !.note = p(r).note, !.by = r] : v \in Aimed(r)})
    /\ Goto(r, AfterNote(p(r)))
    /\ req' = [req EXCEPT ![r].seen = {}]
    /\ UNCHANGED <<row, tagged>>

\* The DELETE of the line items works on those it sees when it starts, and
\* waits for the transactions that are writing them.
Scan(r) ==
    /\ step[r] = "scan"
    /\ req' = [req EXCEPT ![r].seen = {v.id : v \in Seen(item[t(r)], r)}]
    /\ Goto(r, "remove")
    /\ UNCHANGED <<row, item, tagged>>

Remove(r) ==
    /\ step[r] = "remove"
    /\ Lockers(Aimed(r), r) = {}
    /\ item' = Put(item, r, Removed(item[t(r)], Aimed(r), r))
    /\ req' = [req EXCEPT ![r].seen = {}]
    /\ Goto(r, "lines")
    /\ UNCHANGED <<row, tagged>>

\* A fresh id for the n-th new line item.
NewId(x, n) ==
    LET taken == {v.id : v \in item[x]} \cup UNION {req[s].seen : s \in Slots}
    IN  <<CHOOSE k \in 0..Cardinality(taken) : <<k, n>> \notin taken, n>>

InsertLine(r) ==
    LET n == req[r].n
        lines == p(r).lines
    IN
    /\ step[r] = "lines"
    /\ IF n > Len(lines)
       THEN /\ IF req[r].mode = "create"
               THEN Goto(r, TagsNext(p(r))) /\ UNCHANGED req
               ELSE Proceed(r, AfterLines(p(r)))
            /\ UNCHANGED <<row, item, tagged>>
       ELSE IF AcceptsLine(t(r), lines[n].amount)
       THEN /\ item' = Put(item, r, item[t(r)] \cup
                             {Item(NewId(t(r), n), lines[n].amount, lines[n].note, r)})
            /\ req' = [req EXCEPT ![r].n = n + 1]
            /\ UNCHANGED <<row, tagged, step>>
       ELSE Fail(r)

Untag(r) ==
    /\ step[r] = "untag"
    /\ Lockers(Seen(tagged[t(r)], r), r) = {}
    /\ tagged' = Put(tagged, r, Removed(tagged[t(r)], Seen(tagged[t(r)], r), r))
    /\ Proceed(r, "tag")
    /\ UNCHANGED <<row, item>>

\* ON CONFLICT DO NOTHING waits for whoever is writing the same row.
Conflicts(r) == {v \in tagged[t(r)] : v.tag \in p(r).tags /\ v.until # r}

InsertTags(r) ==
    /\ step[r] = "tag"
    /\ {v.by : v \in Conflicts(r)} \cup {v.until : v \in Conflicts(r)} \subseteq {None, r}
    /\ tagged' = Put(tagged, r, tagged[t(r)] \cup
                    {Tag(g, r) : g \in p(r).tags \ {v.tag : v \in Conflicts(r)}})
    /\ IF req[r].mode = "create" THEN Goto(r, "commit") /\ UNCHANGED req
       ELSE Proceed(r, "reread")
    /\ UNCHANGED <<row, item>>

\* The entry is read back; one deleted meanwhile is not found.
Reread(r) ==
    /\ step[r] = "reread"
    /\ IF Found(r) THEN NextEntry(r) /\ UNCHANGED <<row, item, tagged>> ELSE Fail(r)

DeleteFind(r) ==
    /\ step[r] = "find"
    /\ IF Found(r) THEN Goto(r, "delete") /\ UNCHANGED <<row, item, tagged, req>> ELSE Fail(r)

DeleteRow(r) ==
    /\ step[r] = "delete"
    /\ Lockers(row[t(r)], r) = {}
    /\ SetRow(r, {[v EXCEPT !.deleted = TRUE] : v \in OldRow(r)})
    /\ Goto(r, "commit")
    /\ UNCHANGED <<item, tagged, req>>

-----------------------------------------------------------------------------
(* Deadlocks and restarts *)

\* Whom the next statement of a request has to wait for.
Awaited(r) ==
    CASE step[r] \in {"row", "delete"} -> Lockers(row[t(r)], r)
      [] step[r] \in {"note", "remove"} -> Lockers(Aimed(r), r)
      [] step[r] = "untag" -> Lockers(Seen(tagged[t(r)], r), r)
      [] step[r] = "tag" -> ({v.by : v \in Conflicts(r)} \cup
                             {v.until : v \in Conflicts(r)}) \ {None, r}
      [] OTHER -> {}

Deadlocked(r) ==
    \E C \in SUBSET Slots : r \in C /\ \A s \in C : Awaited(s) \cap C # {}

\* Postgres ends a transaction of the circle.
Abort(r) == Deadlocked(r) /\ Fail(r)

\* The server ends; its open transactions are rolled back.
Restart ==
    /\ \E r \in Slots : step[r] # "idle"
    /\ row' = [x \in Transactions |-> {[v EXCEPT !.until = None] : v \in Settled(row[x])}]
    /\ item' = [x \in Transactions |-> {[v EXCEPT !.until = None] : v \in Settled(item[x])}]
    /\ tagged' = [x \in Transactions |-> {[v EXCEPT !.until = None] : v \in Settled(tagged[x])}]
    /\ step' = [r \in Slots |-> "idle"]
    /\ req' = [r \in Slots |-> NoRequest]

-----------------------------------------------------------------------------
Init ==
    /\ row = [x \in Transactions |-> IF x \in Stored THEN {Row(1, FALSE, None)} ELSE {}]
    /\ item = [x \in Transactions |-> IF x \in Stored \ Transfers
                                      THEN {Item(<<0, 1>>, 1, Plain, None)} ELSE {}]
    /\ tagged = [x \in Transactions |-> {}]
    /\ req = [r \in Slots |-> NoRequest]
    /\ step = [r \in Slots |-> "idle"]
    /\ habit \in Habits
    /\ left = MaxRequests[habit]

Advance(r) ==
    \/ Insert(r) \/ Check(r) \/ UpdateRow(r) \/ First(r) \/ Note(r)
    \/ Scan(r) \/ Remove(r) \/ InsertLine(r) \/ Untag(r) \/ InsertTags(r)
    \/ Reread(r) \/ DeleteFind(r) \/ DeleteRow(r) \/ Commit(r)
    \/ Abort(r)

Next ==
    /\ \/ \E r \in Slots : Create(r) \/ Patch(r) \/ BatchPatch(r) \/ Delete(r)
       \/ (Restart \/ \E r \in Slots : Advance(r)) /\ UNCHANGED left
    /\ UNCHANGED habit

\* A statement that can be executed is, and a deadlock is detected.
Spec ==
    /\ Init /\ [][Next]_vars
    /\ \A r \in Slots : WF_vars(Advance(r) /\ UNCHANGED <<habit, left>>)

-----------------------------------------------------------------------------
(* Properties *)

VersionsOf(x) == row[x] \cup item[x] \cup tagged[x]

\* TypeOK: an entry has one row for those who read committed data, and only a
\* request at work in a transaction holds locks (every way a request of
\* TransactionService ends gives them up).
TypeOK ==
    /\ \A x \in Transactions : Cardinality(Settled(row[x])) <= 1
    /\ \A x \in Transactions : \A v \in VersionsOf(x) : \A r \in {v.by, v.until} \ {None} :
           step[r] # "idle" /\ Opens(r)
    /\ \A r \in Slots : step[r] = "idle" <=> req[r] = NoRequest

\* EditsAreWhole: as long as every edit of an entry comes in an atomic batch that
\* also sets a column of its row, and so waits for the others at the row, entries
\* are always as whole requests left them, whichever of creations, deletions and
\* such batches overlap, fail, or are interrupted (BatchPatchTransactionsTx,
\* patchTransactionTx and CreateTransactionTx in a transaction).
Sheet(x) ==
    {[amount |-> v.amount, deleted |-> v.deleted,
      lines |-> {<<i.id[2], i.amount, i.note>> : i \in Settled(item[x])},
      tags |-> {g.tag : g \in Settled(tagged[x])}]
     : v \in IF habit = "batch" THEN Settled(row[x]) ELSE {}}

Promise == INSTANCE LineItems
    WITH Entries <- Transactions, Edits <- Patches \cup {Summed(q) : q \in Patches},
         sheet <- [x \in Transactions |-> Sheet(x)]

EditsAreWhole == Promise!Spec

\* LinesOfOneEdit: the line items of an entry are those of one request, which
\* replaces all there are (patchTransactionTx).  Not so where two atomic batches
\* without the amount or the status overlap: both remove the old line items,
\* neither sees the new ones of the other.
LinesOfOneEdit ==
    \A x \in Transactions : \A i, j \in Settled(item[x]) : i.id[2] = j.id[2] => i = j

\* EveryRequestEnds: statements that wait for each other's locks, as those of
\* batches that name the same entries in different orders do, do not wait
\* forever (BatchPatchTransactionsTx).
EveryRequestEnds == \A r \in Slots : step[r] # "idle" ~> step[r] = "idle"
=============================================================================
