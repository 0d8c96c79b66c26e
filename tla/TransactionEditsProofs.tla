----------------------- MODULE TransactionEditsProofs -----------------------
(* Proofs about TransactionEdits. *)
EXTENDS TransactionEdits, FiniteSetTheorems, TLAPS

-----------------------------------------------------------------------------
(* Tables *)

Version(v) == v = [k \in DOMAIN v |-> v[k]] /\ {"by", "until"} \subseteq DOMAIN v

Table(V) == \A v \in V : Version(v) /\ {v.by, v.until} \subseteq Slots \cup {None}

Owns(r, V) == \E v \in V : r \in {v.by, v.until}

\* At most one row for everybody, and at most one transaction that writes it.
OneRow(V) ==
    /\ \A v, w \in Settled(V) : v = w
    /\ \A r \in Slots : \A v, w \in Seen(V, r) : v = w
    /\ \A r, s \in Slots : Owns(r, V) /\ Owns(s, V) => r = s

LEMMA NotNone == \A r \in Slots : r # None
  BY EditsAssumption

LEMMA CommitTable ==
    ASSUME NEW V, Table(V), NEW r \in Slots
    PROVE  /\ Table(Committed(V, r))
           /\ \A s \in Slots : Owns(s, Committed(V, r)) => s # r /\ Owns(s, V)
  BY NotNone DEF Table, Version, Committed, Owns

LEMMA RollbackTable ==
    ASSUME NEW V, Table(V), NEW r \in Slots
    PROVE  /\ Table(RolledBack(V, r))
           /\ \A s \in Slots : Owns(s, RolledBack(V, r)) => s # r /\ Owns(s, V)
  BY NotNone DEF Table, Version, RolledBack, Owns

LEMMA RemovedTable ==
    ASSUME NEW V, Table(V), NEW r \in Slots, NEW D, D \subseteq V
    PROVE  /\ Table(Removed(V, D, r))
           /\ \A s \in Slots : Owns(s, Removed(V, D, r)) => s = r \/ Owns(s, V)
  BY NotNone DEF Table, Version, Removed, Owns

LEMMA RestartTable ==
    ASSUME NEW V, Table(V), NEW W, W = {[v EXCEPT !.until = None] : v \in Settled(V)}
    PROVE  /\ Table(W)
           /\ \A s \in Slots : ~Owns(s, W)
  BY NotNone DEF Table, Version, Settled, Owns

LEMMA CommitAlone ==
    ASSUME NEW V, Table(V), NEW r \in Slots, ~Owns(r, V)
    PROVE  Committed(V, r) = V /\ RolledBack(V, r) = V /\ Seen(V, r) = Settled(V)
  BY NotNone DEF Table, Version, Committed, RolledBack, Owns, Seen, Settled

-----------------------------------------------------------------------------
(* Rows *)

LEMMA CommitSettles ==
    ASSUME NEW V, Table(V), NEW r \in Slots
    PROVE  Settled(Committed(V, r)) = {[v EXCEPT !.by = None] : v \in Seen(V, r)}
  BY NotNone DEF Table, Version, Committed, Settled, Seen

LEMMA RollbackSettles ==
    ASSUME NEW V, Table(V), NEW r \in Slots
    PROVE  Settled(RolledBack(V, r)) =
               {[v EXCEPT !.until = IF @ = r THEN None ELSE @] : v \in Settled(V)}
  BY NotNone DEF Table, Version, RolledBack, Settled, Seen

LEMMA CommitRow ==
    ASSUME NEW V, Table(V), NEW r \in Slots, OneRow(V)
    PROVE  OneRow(Committed(V, r))
<1>1. CASE ~Owns(r, V)
  BY <1>1, CommitAlone
<1>2. CASE Owns(r, V)
  <2>1. \A s \in Slots : ~Owns(s, Committed(V, r))
    BY <1>2, CommitTable DEF OneRow
  <2>2. \A s \in Slots : Seen(Committed(V, r), s) = Settled(Committed(V, r))
    BY <2>1, CommitTable, CommitAlone
  <2>3. \A v, w \in Settled(Committed(V, r)) : v = w
    BY CommitSettles DEF OneRow
  <2> QED
    BY <2>1, <2>2, <2>3 DEF OneRow
<1> QED
  BY <1>1, <1>2

LEMMA RollbackRow ==
    ASSUME NEW V, Table(V), NEW r \in Slots, OneRow(V)
    PROVE  OneRow(RolledBack(V, r))
<1>1. CASE ~Owns(r, V)
  BY <1>1, CommitAlone
<1>2. CASE Owns(r, V)
  <2>1. \A s \in Slots : ~Owns(s, RolledBack(V, r))
    BY <1>2, RollbackTable DEF OneRow
  <2>2. \A s \in Slots : Seen(RolledBack(V, r), s) = Settled(RolledBack(V, r))
    BY <2>1, RollbackTable, CommitAlone
  <2>3. \A v, w \in Settled(RolledBack(V, r)) : v = w
    BY RollbackSettles DEF OneRow
  <2> QED
    BY <2>1, <2>2, <2>3 DEF OneRow
<1> QED
  BY <1>1, <1>2

LEMMA RestartRow ==
    ASSUME NEW V, Table(V), OneRow(V),
           NEW W, W = {[v EXCEPT !.until = None] : v \in Settled(V)}
    PROVE  OneRow(W)
<1>1. \A s \in Slots : ~Owns(s, W)
  BY RestartTable
<1>2. \A s \in Slots : Seen(W, s) = Settled(W)
  BY <1>1, RestartTable, CommitAlone
<1>3. \A v, w \in Settled(W) : v = w
  BY DEF OneRow, Settled
<1> QED
  BY <1>1, <1>2, <1>3 DEF OneRow

\* What becomes of a row when transaction r writes it.
Rewritten(V, r, new) ==
    Removed(V, Seen(V, r), r) \cup {[v EXCEPT !.by = r] : v \in new}

\* The new contents of a row somebody writes.
Renewal(V, r, new) ==
    /\ \A v \in new : Version(v) /\ \E w \in Seen(V, r) : v.by = w.by /\ v.until = w.until
    /\ \A v, w \in new : v = w

LEMMA RewrittenRow ==
    ASSUME NEW V, Table(V), NEW r \in Slots, OneRow(V), Lockers(V, r) = {},
           NEW new, Renewal(V, r, new)
    PROVE  /\ Table(Rewritten(V, r, new))
           /\ OneRow(Rewritten(V, r, new))
           /\ \A s \in Slots : Owns(s, Rewritten(V, r, new)) => s = r \/ Owns(s, V)
           /\ Settled(Rewritten(V, r, new)) =
                  {IF v \in Seen(V, r) THEN [v EXCEPT !.until = r] ELSE v : v \in Settled(V)}
           /\ Seen(Rewritten(V, r, new), r) = {[v EXCEPT !.by = r] : v \in new}
<1> DEFINE W == Rewritten(V, r, new)
           N == {[v EXCEPT !.by = r] : v \in new}
<1>1. \A v \in V : v.until \in {None, r}
  BY DEF Lockers
<1>2. \A v \in Seen(V, r) : v \in V /\ v.until = None
  BY <1>1 DEF Seen
<1>3. \A v \in N : Version(v) /\ v.by = r /\ v.until = None
  BY <1>2 DEF Renewal, Version
<1>4. Table(Removed(V, Seen(V, r), r))
  BY RemovedTable, <1>2
<1>5. Table(W)
  BY <1>4, <1>3 DEF Table, Rewritten
<1>6. \A s \in Slots : Owns(s, W) => s = r \/ Owns(s, V)
  <2>1. \A s \in Slots : Owns(s, Removed(V, Seen(V, r), r)) => s = r \/ Owns(s, V)
    BY RemovedTable, <1>2
  <2> QED
    BY <2>1, <1>3, NotNone DEF Owns, Rewritten
<1>7. Settled(W) = {IF v \in Seen(V, r) THEN [v EXCEPT !.until = r] ELSE v : v \in Settled(V)}
  BY <1>3, NotNone DEF Rewritten, Removed, Settled, Table, Version, Seen
<1>8. Seen(W, r) = N
  BY <1>1, <1>2, <1>3, NotNone DEF Rewritten, Removed, Table, Version, Seen
<1>9. \A v, w \in N : v = w
  BY DEF Renewal
<1>10. \A v, w \in Settled(W) : v = w
  BY <1>7 DEF OneRow
<1>11. ASSUME Seen(V, r) # {}
       PROVE  \A s \in Slots : Owns(s, V) => s = r
  <2> SUFFICES ASSUME NEW s \in Slots, Owns(s, V), s # r PROVE FALSE
    OBVIOUS
  <2>1. PICK u \in Seen(V, r) : TRUE
    BY <1>11
  <2>2. ~Owns(r, V)
    BY DEF OneRow
  <2>3. PICK v \in V : v.by = s \/ v.until = s
    BY DEF Owns
  <2>4. v.by = s /\ v.until = None
    BY <1>1, <2>2, <2>3, NotNone DEF Owns
  <2>5. u \in V /\ u.by = None /\ u.until = None
    BY <1>2, <2>1, <2>2 DEF Seen, Owns
  <2>6. u \in Seen(V, s) /\ v \in Seen(V, s)
    BY <2>3, <2>4, <2>5, NotNone DEF Seen
  <2>7. u = v
    BY <2>6 DEF OneRow
  <2> QED
    BY <2>4, <2>5, <2>7, NotNone
<1>12. CASE Seen(V, r) = {}
  <2>1. W = V
    BY <1>12 DEF Rewritten, Removed, Renewal
  <2> QED
    BY <1>5, <1>6, <1>7, <1>8, <2>1
<1>13. CASE Seen(V, r) # {}
  <2>1. \A s \in Slots : Owns(s, W) => s = r
    BY <1>6, <1>11, <1>13
  <2>2. \A s \in Slots : s # r => Seen(W, s) = Settled(W)
    BY <2>1, <1>5, CommitAlone
  <2>3. \A s \in Slots : \A v, w \in Seen(W, s) : v = w
    BY <2>2, <1>8, <1>9, <1>10
  <2> QED
    BY <1>5, <1>6, <1>7, <1>8, <1>10, <2>1, <2>3 DEF OneRow
<1> QED
  BY <1>12, <1>13

LEMMA ResultTable ==
    ASSUME NEW V, Table(V), NEW r \in Slots
    PROVE  /\ Table(Result(V, r))
           /\ \A s \in Slots : Owns(s, Result(V, r)) => Owns(s, V) /\ (s = r => Opens(r))
           /\ OneRow(V) => OneRow(Result(V, r))
  BY CommitTable, CommitRow DEF Result

-----------------------------------------------------------------------------
(* Requests *)

\* The statements of an edit.
EditSteps == {"check", "row", "first", "note", "scan", "remove", "lines", "untag", "tag",
              "reread"}

IsRequest(q) == DOMAIN q = {"mode", "todo", "patch", "seen", "n"}

\* A request with statement s before it.
Fits(q, s) ==
    /\ IsRequest(q)
    /\ \/ s = "idle" /\ q = NoRequest
       \/ /\ q.todo \in Seq(Transactions) /\ q.todo # <<>>
          /\ \/ /\ q.mode = "create" /\ Len(q.todo) = 1
                /\ s \in {"insert", "lines", "tag", "commit"}
             \/ q.mode = "delete" /\ Len(q.todo) = 1 /\ s \in {"find", "delete", "commit"}
             \/ q.mode \in {"patch", "partial"} /\ s \in EditSteps
             \/ q.mode = "atomic" /\ s \in EditSteps \cup {"commit"}

\* What a statement of r makes of the request.
Moves(r, q, s) ==
    /\ req' = [req EXCEPT ![r] = q]
    /\ step' = [step EXCEPT ![r] = s]
    /\ Fits(q, s)
    /\ s # "insert"
    /\ s # "idle" => q.mode = req[r].mode /\ q.patch = req[r].patch
    /\ q.mode = "create" => q.todo = req[r].todo

\* u is q at another entry, or statement.
Turned(q, u, b, S, k) ==
    /\ IsRequest(u)
    /\ u.mode = q.mode /\ u.patch = q.patch /\ u.todo = b /\ u.seen = S /\ u.n = k

LEMMA RequestParts ==
    ASSUME NEW q, IsRequest(q), NEW b, NEW S, NEW k
    PROVE  /\ Turned(q, [q EXCEPT !.todo = b, !.seen = S, !.n = k], b, S, k)
           /\ Turned(q, [q EXCEPT !.seen = S, !.n = k], q.todo, S, k)
           /\ Turned(q, [q EXCEPT !.seen = S], q.todo, S, q.n)
           /\ Turned(q, [q EXCEPT !.n = k], q.todo, q.seen, k)
  BY DEF IsRequest, Turned

LEMMA FitsTarget ==
    ASSUME NEW q, NEW s, Fits(q, s)
    PROVE  /\ s = "idle" <=> q = NoRequest
           /\ s = "idle" <=> q.mode = "none"
           /\ s # "idle" => Head(q.todo) \in Transactions
  BY DEF Fits, NoRequest, Request, NoPatch, EditSteps

LEMMA NoRequestFits == Fits(NoRequest, "idle")
  BY DEF Fits, NoRequest, Request, IsRequest

Mapped ==
    /\ row = [x \in Transactions |-> row[x]]
    /\ item = [x \in Transactions |-> item[x]]
    /\ tagged = [x \in Transactions |-> tagged[x]]
    /\ req = [r \in Slots |-> req[r]]
    /\ step = [r \in Slots |-> step[r]]

AllFit == Mapped /\ \A r \in Slots : Fits(req[r], step[r])

LEMMA AnswerMoves ==
    ASSUME AllFit, NEW r \in Slots, Answer(r)
    PROVE  Moves(r, NoRequest, "idle")
  BY NoRequestFits DEF Answer, Goto, Moves, NoRequest, Request

LEMMA StepsOfEdit ==
    ASSUME NEW q
    PROVE  /\ AfterLines(q) \in EditSteps
           /\ AfterNote(q) \in EditSteps
           /\ AfterRow(q) \in EditSteps
           /\ AfterCheck(q) \in EditSteps
  BY DEF AfterLines, AfterNote, AfterRow, AfterCheck, EditSteps

LEMMA EditFits ==
    ASSUME NEW q, NEW s, Fits(q, s), q.mode \in {"patch", "partial", "atomic"}
    PROVE  /\ q.todo \in Seq(Transactions) /\ q.todo # <<>>
           /\ s \in EditSteps \cup {"commit"}
           /\ s = "commit" => q.mode = "atomic"
<1>1. q # NoRequest
  BY DEF NoRequest, Request
<1> QED
  BY <1>1 DEF Fits, EditSteps

LEMMA NotEmpty ==
    ASSUME NEW S, NEW b \in Seq(S), Len(b) > 0
    PROVE  b # <<>>
  OBVIOUS

LEMMA ProceedMoves ==
    ASSUME AllFit, NEW r \in Slots, NEW s \in EditSteps, Proceed(r, s),
           req[r].mode \in {"patch", "partial", "atomic"}
    PROVE  Moves(r, [req[r] EXCEPT !.seen = {}, !.n = 1], s)
<1> DEFINE q == [req[r] EXCEPT !.seen = {}, !.n = 1]
<1>1. req' = [req EXCEPT ![r] = q] /\ step' = [step EXCEPT ![r] = s]
  BY DEF AllFit, Mapped, Proceed, Goto
<1>2. Turned(req[r], q, req[r].todo, {}, 1)
  BY RequestParts DEF AllFit, Fits
<1>3. Fits(q, s)
  BY <1>2, EditFits DEF AllFit, Fits, Turned
<1> QED
  BY <1>1, <1>2, <1>3 DEF Moves, EditSteps, Turned

LEMMA NextEntryMoves ==
    ASSUME AllFit, NEW r \in Slots, NextEntry(r),
           req[r].mode \in {"patch", "partial", "atomic"}
    PROVE  \E q, s : Moves(r, q, s) /\ (s = "idle" => ~Opens(r))
<1>1. CASE Len(req[r].todo) > 1
  <2> DEFINE q == [req[r] EXCEPT !.todo = Tail(@), !.seen = {}, !.n = 1]
  <2>1. req' = [req EXCEPT ![r] = q] /\ step' = [step EXCEPT ![r] = "check"]
    BY <1>1 DEF NextEntry, Goto, AllFit, Mapped, Fits
  <2>2. req[r].todo \in Seq(Transactions) /\ req[r].todo # <<>>
    BY EditFits DEF AllFit
  <2> DEFINE b == Tail(req[r].todo)
  <2>3. b \in Seq(Transactions) /\ Len(b) = Len(req[r].todo) - 1 /\ Len(b) > 0
    BY <2>2, <1>1
  <2>4. b # <<>>
    BY <2>3, NotEmpty
  <2>5. Turned(req[r], q, b, {}, 1)
    BY RequestParts DEF AllFit, Fits
  <2>6. Fits(q, "check")
    BY <2>3, <2>4, <2>5 DEF Fits, EditSteps, Turned
  <2>7. Moves(r, q, "check")
    BY <2>1, <2>5, <2>6 DEF Moves, Turned
  <2> QED
    BY <2>7
<1>2. CASE ~(Len(req[r].todo) > 1) /\ Opens(r)
  <2>1. req' = [req EXCEPT ![r] = req[r]] /\ step' = [step EXCEPT ![r] = "commit"]
    BY <1>2 DEF NextEntry, Goto, AllFit, Mapped
  <2>2. Fits(req[r], "commit")
    BY <1>2 DEF Opens, Fits, AllFit, NoRequest, Request
  <2>3. Moves(r, req[r], "commit")
    BY <2>1, <2>2 DEF Moves
  <2> QED
    BY <2>3
<1>3. CASE ~(Len(req[r].todo) > 1) /\ ~Opens(r)
  BY <1>3, AnswerMoves DEF NextEntry
<1> QED
  BY <1>1, <1>2, <1>3
-----------------------------------------------------------------------------
(* What every statement leaves in order *)

Touches(r, x) == Owns(r, row[x]) \/ Owns(r, item[x]) \/ Owns(r, tagged[x])

Sound(x) ==
    Table(row[x]) /\ Table(item[x]) /\ Table(tagged[x]) /\ OneRow(row[x])

Data == \A x \in Transactions : Sound(x)

\* Only transactions at work hold locks.
Holders ==
    \A r \in Slots, x \in Transactions : Touches(r, x) => step[r] # "idle" /\ Opens(r)

\* Nobody else creates the entry, and it is not there before it is inserted.
Creators ==
    \A r \in Slots : req[r].mode = "create" =>
        /\ step[r] = "insert" => row[t(r)] = {}
        /\ \A s \in Slots : req[s].mode = "create" /\ t(s) = t(r) => s = r

TInv == AllFit /\ Data /\ Holders /\ Creators

\* What a statement of r does to the tables.
Writes(r) ==
    /\ row' = [x \in Transactions |-> row'[x]]
    /\ item' = [x \in Transactions |-> item'[x]]
    /\ tagged' = [x \in Transactions |-> tagged'[x]]
    /\ Data'
    /\ \A s \in Slots, x \in Transactions :
           Touches(s, x)' => Touches(s, x) \/ (s = r /\ Opens(r))
    /\ \A x \in Transactions :
           row[x] = {} => row'[x] = {} \/ (step[r] = "insert" /\ x = t(r))

Ends(r) == \A x \in Transactions : ~Touches(r, x)'

Acts(r) == Writes(r) /\ \E q, s : Moves(r, q, s) /\ (s = "idle" => Ends(r))

LEMMA ActsTInv ==
    ASSUME TInv, NEW r \in Slots, Acts(r)
    PROVE  TInv'
<1>1. PICK q, s : Moves(r, q, s) /\ (s = "idle" => Ends(r))
  BY DEF Acts
<1>2. \A u \in Slots : u # r => req'[u] = req[u] /\ step'[u] = step[u]
  BY <1>1 DEF Moves, TInv, AllFit, Mapped
<1>3. req'[r] = q /\ step'[r] = s
  BY <1>1 DEF Moves, TInv, AllFit, Mapped
<1>4. AllFit'
  BY <1>1, <1>2, <1>3 DEF AllFit, Mapped, TInv, Moves, Acts, Writes
<1>5. Holders'
  <2> SUFFICES ASSUME NEW u \in Slots, NEW x \in Transactions, Touches(u, x)'
               PROVE  step'[u] # "idle" /\ Opens(u)'
    BY DEF Holders
  <2>1. Touches(u, x) \/ (u = r /\ Opens(r))
    BY DEF Acts, Writes
  <2>2. CASE u = r
    <3>1. s # "idle"
      BY <1>1, <2>2 DEF Ends
    <3>2. Opens(r)
      BY <2>1, <2>2 DEF TInv, Holders
    <3> QED
      BY <3>1, <3>2, <2>2, <1>1, <1>3 DEF Moves, Opens
  <2>3. CASE u # r
    BY <2>1, <2>3, <1>2 DEF TInv, Holders, Opens
  <2> QED
    BY <2>2, <2>3
<1>6. Creators'
  <2> SUFFICES ASSUME NEW u \in Slots, req'[u].mode = "create"
               PROVE  /\ step'[u] = "insert" => row'[t(u)'] = {}
                      /\ \A v \in Slots : req'[v].mode = "create" /\ t(v)' = t(u)' => v = u
    BY DEF Creators
  <2>1. \A v \in Slots : req'[v].mode = "create" =>
            req[v].mode = "create" /\ t(v)' = t(v) /\ (step'[v] = "insert" => v # r)
    BY <1>1, <1>2, <1>3, FitsTarget DEF Moves, t
  <2>2. \A v \in Slots : req'[v].mode = "create" /\ t(v)' = t(u)' => v = u
    BY <2>1 DEF TInv, Creators
  <2>3. ASSUME step'[u] = "insert" PROVE row'[t(u)'] = {}
    <3>1. u # r /\ step[u] = "insert" /\ t(u)' = t(u)
      BY <2>1, <1>2, <2>3
    <3>2. row[t(u)] = {} /\ t(u) \in Transactions
      BY <3>1, <2>1, FitsTarget DEF TInv, Creators, AllFit, t
    <3>3. ~(step[r] = "insert" /\ t(u) = t(r))
      <4>1. step[r] = "insert" => req[r].mode = "create"
        BY DEF TInv, AllFit, Fits, EditSteps
      <4> QED
        BY <4>1, <3>1, <2>1 DEF TInv, Creators
    <3> QED
      BY <3>1, <3>2, <3>3 DEF Acts, Writes
  <2> QED
    BY <2>2, <2>3
<1> QED
  BY <1>4, <1>5, <1>6 DEF TInv, Acts, Writes

LEMMA WorkingEntry ==
    ASSUME TInv, NEW r \in Slots, step[r] # "idle"
    PROVE  t(r) \in Transactions
  BY FitsTarget DEF TInv, AllFit, t

LEMMA NoWrites ==
    ASSUME TInv, NEW r \in Slots, UNCHANGED <<row, item, tagged>>
    PROVE  /\ Writes(r)
           /\ ~Opens(r) => Ends(r)
<1>1. Data' /\ \A s \in Slots, x \in Transactions : Touches(s, x)' <=> Touches(s, x)
  BY DEF TInv, Data, Sound, Touches
<1> QED
  BY <1>1 DEF TInv, AllFit, Mapped, Writes, Ends, Holders

LEMMA RollbackWrites ==
    ASSUME TInv, NEW r \in Slots, Rollback(r)
    PROVE  Writes(r) /\ Ends(r)
<1>1. \A x \in Transactions :
          /\ row'[x] = RolledBack(row[x], r)
          /\ item'[x] = RolledBack(item[x], r)
          /\ tagged'[x] = RolledBack(tagged[x], r)
  BY DEF Rollback
<1>2. Data'
  BY <1>1, RollbackTable, RollbackRow DEF TInv, Data, Sound
<1>3. \A s \in Slots, x \in Transactions : Touches(s, x)' => s # r /\ Touches(s, x)
  BY <1>1, RollbackTable DEF TInv, Data, Sound, Touches
<1>4. \A x \in Transactions : row[x] = {} => row'[x] = {}
  BY <1>1 DEF RolledBack
<1> QED
  BY <1>2, <1>3, <1>4 DEF Rollback, Writes, Ends

LEMMA CommitWrites ==
    ASSUME TInv, NEW r \in Slots, Commit(r)
    PROVE  Writes(r) /\ Ends(r)
<1>1. \A x \in Transactions :
          /\ row'[x] = Committed(row[x], r)
          /\ item'[x] = Committed(item[x], r)
          /\ tagged'[x] = Committed(tagged[x], r)
  BY DEF Commit
<1>2. Data'
  BY <1>1, CommitTable, CommitRow DEF TInv, Data, Sound
<1>3. \A s \in Slots, x \in Transactions : Touches(s, x)' => s # r /\ Touches(s, x)
  BY <1>1, CommitTable DEF TInv, Data, Sound, Touches
<1>4. \A x \in Transactions : row[x] = {} => row'[x] = {}
  BY <1>1 DEF Committed
<1> QED
  BY <1>2, <1>3, <1>4 DEF Commit, Writes, Ends

\* A statement that leaves V in one table for the entry of r.
Leaves(r, V, W) ==
    /\ Table(W)
    /\ \A s \in Slots : Owns(s, W) => Owns(s, V) \/ s = r

LEMMA ResultLeaves ==
    ASSUME NEW V, NEW W, NEW r \in Slots, Leaves(r, V, W)
    PROVE  /\ Table(Result(W, r))
           /\ \A s \in Slots : Owns(s, Result(W, r)) => Owns(s, V) \/ (s = r /\ Opens(r))
  BY ResultTable DEF Leaves

LEMMA ItemWrites ==
    ASSUME TInv, NEW r \in Slots, step[r] # "idle", NEW W, Leaves(r, item[t(r)], W),
           item' = Put(item, r, W), UNCHANGED <<row, tagged>>
    PROVE  Writes(r)
<1>1. t(r) \in Transactions
  BY WorkingEntry
<1>2. /\ item' = [item EXCEPT ![t(r)] = Result(W, r)]
      /\ item = [x \in Transactions |-> item[x]]
  BY DEF Put, TInv, AllFit, Mapped
<1>3. \A x \in Transactions :
          /\ Table(item'[x])
          /\ \A s \in Slots : Owns(s, item'[x]) => Owns(s, item[x]) \/ (s = r /\ Opens(r))
  BY <1>1, <1>2, ResultLeaves DEF TInv, Data, Sound
<1> QED
  BY <1>2, <1>3 DEF TInv, AllFit, Mapped, Writes, Data, Sound, Touches

LEMMA TagWrites ==
    ASSUME TInv, NEW r \in Slots, step[r] # "idle", NEW W, Leaves(r, tagged[t(r)], W),
           tagged' = Put(tagged, r, W), UNCHANGED <<row, item>>
    PROVE  Writes(r)
<1>1. t(r) \in Transactions
  BY WorkingEntry
<1>2. /\ tagged' = [tagged EXCEPT ![t(r)] = Result(W, r)]
      /\ tagged = [x \in Transactions |-> tagged[x]]
  BY DEF Put, TInv, AllFit, Mapped
<1>3. \A x \in Transactions :
          /\ Table(tagged'[x])
          /\ \A s \in Slots : Owns(s, tagged'[x]) => Owns(s, tagged[x]) \/ (s = r /\ Opens(r))
  BY <1>1, <1>2, ResultLeaves DEF TInv, Data, Sound
<1> QED
  BY <1>2, <1>3 DEF TInv, AllFit, Mapped, Writes, Data, Sound, Touches

LEMMA RowWrites ==
    ASSUME TInv, NEW r \in Slots, step[r] # "idle", NEW W, Leaves(r, row[t(r)], W), OneRow(W),
           row[t(r)] = {} => W = {} \/ step[r] = "insert",
           row' = Put(row, r, W), UNCHANGED <<item, tagged>>
    PROVE  Writes(r)
<1>1. t(r) \in Transactions
  BY WorkingEntry
<1>2. /\ row' = [row EXCEPT ![t(r)] = Result(W, r)]
      /\ row = [x \in Transactions |-> row[x]]
  BY DEF Put, TInv, AllFit, Mapped
<1>3. \A x \in Transactions :
          /\ Table(row'[x])
          /\ OneRow(row'[x])
          /\ \A s \in Slots : Owns(s, row'[x]) => Owns(s, row[x]) \/ (s = r /\ Opens(r))
  <2>1. OneRow(Result(W, r))
    BY ResultTable DEF Leaves
  <2> QED
    BY <1>1, <1>2, <2>1, ResultLeaves DEF TInv, Data, Sound
<1>4. \A x \in Transactions :
          row[x] = {} => row'[x] = {} \/ (step[r] = "insert" /\ x = t(r))
  <2>1. Result({}, r) = {}
    BY DEF Result, Committed
  <2> QED
    BY <1>1, <1>2, <2>1
<1> QED
  BY <1>2, <1>3, <1>4 DEF TInv, AllFit, Mapped, Writes, Data, Sound, Touches

LEMMA SetRowWrites ==
    ASSUME TInv, NEW r \in Slots, step[r] # "idle", Lockers(row[t(r)], r) = {},
           NEW new, Renewal(row[t(r)], r, new), SetRow(r, new), UNCHANGED <<item, tagged>>
    PROVE  Writes(r)
<1>1. Sound(t(r))
  BY WorkingEntry DEF TInv, Data
<1>2. Leaves(r, row[t(r)], Rewritten(row[t(r)], r, new)) /\ OneRow(Rewritten(row[t(r)], r, new))
  BY <1>1, RewrittenRow DEF Leaves, Sound
<1>3. row' = Put(row, r, Rewritten(row[t(r)], r, new))
  BY DEF SetRow, OldRow, Rewritten
<1>4. row[t(r)] = {} => Rewritten(row[t(r)], r, new) = {}
  BY DEF Rewritten, Renewal, Seen, Removed
<1> QED
  BY <1>2, <1>3, <1>4, RowWrites

EditModes == {"patch", "partial", "atomic"}

LEMMA ModeOfStep ==
    ASSUME TInv, NEW r \in Slots, step[r] # "idle"
    PROVE  /\ Fits(req[r], step[r])
           /\ step[r] = "insert" => req[r].mode = "create"
           /\ step[r] \in {"find", "delete"} => req[r].mode = "delete"
           /\ step[r] \in EditSteps \ {"lines", "tag"} => req[r].mode \in EditModes
           /\ step[r] \in {"lines", "tag"} => req[r].mode \in EditModes \cup {"create"}
           /\ step[r] = "commit" => Opens(r)
  BY DEF TInv, AllFit, Fits, EditSteps, EditModes, Opens

LEMMA AnswerActs ==
    ASSUME TInv, NEW r \in Slots, Answer(r), Writes(r), Ends(r)
    PROVE  Acts(r)
  BY AnswerMoves DEF Acts, TInv

LEMMA NextEntryActs ==
    ASSUME TInv, NEW r \in Slots, NextEntry(r), UNCHANGED <<row, item, tagged>>,
           req[r].mode \in EditModes
    PROVE  Acts(r)
<1>1. PICK q, s : Moves(r, q, s) /\ (s = "idle" => ~Opens(r))
  BY NextEntryMoves DEF TInv, EditModes
<1> QED
  BY <1>1, NoWrites DEF Acts

LEMMA FailActs ==
    ASSUME TInv, NEW r \in Slots, Fail(r)
    PROVE  Acts(r)
<1>1. CASE req[r].mode = "partial"
  BY <1>1, NextEntryActs DEF Fail, EditModes
<1>2. CASE req[r].mode # "partial"
  BY <1>2, RollbackWrites, AnswerActs DEF Fail
<1> QED
  BY <1>1, <1>2

LEMMA ProceedActs ==
    ASSUME TInv, NEW r \in Slots, NEW s \in EditSteps, Proceed(r, s), Writes(r),
           req[r].mode \in EditModes
    PROVE  Acts(r)
<1>1. Moves(r, [req[r] EXCEPT !.seen = {}, !.n = 1], s)
  BY ProceedMoves DEF TInv, EditModes
<1> QED
  BY <1>1 DEF Acts, EditSteps

\* On to statement s with the same request, or one that has seen other line items.
LEMMA GotoActs ==
    ASSUME TInv, NEW r \in Slots, NEW s, Writes(r), step[r] # "idle",
           step' = [step EXCEPT ![r] = s], s \notin {"idle", "insert"},
           NEW q, req' = [req EXCEPT ![r] = q], NEW S, NEW k,
           Turned(req[r], q, req[r].todo, S, k),
           Fits(req[r], s)
    PROVE  Acts(r)
<1>1. Fits(q, s)
  BY DEF Fits, Turned
<1>2. Moves(r, q, s)
  BY <1>1 DEF Moves, Turned
<1> QED
  BY <1>2 DEF Acts

LEMMA StayActs ==
    ASSUME TInv, NEW r \in Slots, NEW s, Writes(r), step[r] # "idle",
           Goto(r, s), UNCHANGED req, s \notin {"idle", "insert"},
           Fits(req[r], s)
    PROVE  Acts(r)
<1>1. req' = [req EXCEPT ![r] = req[r]]
  BY DEF TInv, AllFit, Mapped
<1>2. Turned(req[r], req[r], req[r].todo, req[r].seen, req[r].n)
  BY DEF Turned, Fits
<1> QED
  BY <1>1, <1>2, GotoActs DEF Goto

LEMMA TypeOfCheck == ASSUME TInv, NEW r \in Slots, Check(r) PROVE Acts(r)
<1>1. step[r] = "check" /\ req[r].mode \in EditModes
  BY ModeOfStep DEF Check, EditSteps
<1>2. CASE Found(r)
  BY <1>1, <1>2, NoWrites, ProceedActs, StepsOfEdit DEF Check
<1>3. CASE ~Found(r)
  BY <1>3, FailActs DEF Check
<1> QED
  BY <1>2, <1>3

LEMMA TypeOfInsert == ASSUME TInv, NEW r \in Slots, Insert(r) PROVE Acts(r)
<1>1. step[r] = "insert" /\ req[r].mode = "create" /\ Fits(req[r], step[r])
  BY ModeOfStep DEF Insert
<1>2. CASE AcceptsAmount(p(r).amount)
  <2> DEFINE W == {Row(p(r).amount, FALSE, r)}
  <2>1. row[t(r)] = {}
    BY <1>1 DEF TInv, Creators
  <2>2. row' = Put(row, r, W)
    BY <1>2, <2>1 DEF Insert
  <2>3. Leaves(r, row[t(r)], W)
    BY NotNone DEF Leaves, Table, Row, Version, Owns
  <2>4. OneRow(W)
    <3>1. \A v \in W : v.by = r /\ v.until = None
      BY DEF Row
    <3>2. \A s \in Slots : Owns(s, W) => s = r
      BY <3>1, NotNone DEF Owns
    <3>3. \A v, w \in W : v = w
      OBVIOUS
    <3> QED
      BY <3>2, <3>3 DEF OneRow, Settled, Seen
  <2>5. Writes(r)
    BY <1>1, <1>2, <2>2, <2>3, <2>4, RowWrites DEF Insert
  <2>6. PICK s \in {"lines", "tag", "commit"} : Goto(r, s)
    BY <1>2 DEF Insert, TagsNext
  <2>7. Fits(req[r], s)
    BY <1>1, <2>6 DEF Fits, EditSteps, NoRequest, Request
  <2> QED
    BY <1>1, <1>2, <2>5, <2>6, <2>7, StayActs DEF Insert
<1>3. CASE ~AcceptsAmount(p(r).amount)
  BY <1>3, FailActs DEF Insert
<1> QED
  BY <1>2, <1>3

LEMMA SeenVersions ==
    ASSUME NEW V, Table(V), NEW r \in Slots, Lockers(V, r) = {}
    PROVE  /\ Seen(V, r) \subseteq V
           /\ \A v \in Seen(V, r) : Version(v) /\ v.until = None
  BY DEF Table, Seen, Lockers

\* The row as r sees it, with another amount or deleted.
LEMMA FieldRenewal ==
    ASSUME TInv, NEW r \in Slots, step[r] # "idle", Lockers(row[t(r)], r) = {}, NEW a
    PROVE  /\ Renewal(row[t(r)], r, {[v EXCEPT !.amount = a] : v \in OldRow(r)})
           /\ Renewal(row[t(r)], r, {[v EXCEPT !.deleted = a] : v \in OldRow(r)})
<1>1. Sound(t(r))
  BY WorkingEntry DEF TInv, Data
<1>2. \A v \in OldRow(r) : /\ Version([v EXCEPT !.amount = a])
                           /\ [v EXCEPT !.amount = a].by = v.by
                           /\ [v EXCEPT !.amount = a].until = v.until
  BY <1>1, SeenVersions DEF OldRow, Sound, Version
<1>3. \A v \in OldRow(r) : /\ Version([v EXCEPT !.deleted = a])
                           /\ [v EXCEPT !.deleted = a].by = v.by
                           /\ [v EXCEPT !.deleted = a].until = v.until
  BY <1>1, SeenVersions DEF OldRow, Sound, Version
<1>4. \A v, w \in OldRow(r) : v = w
  BY <1>1 DEF OldRow, Sound, OneRow
<1>5. OldRow(r) = Seen(row[t(r)], r)
  BY DEF OldRow
<1> DEFINE A == {[v EXCEPT !.amount = a] : v \in OldRow(r)}
           D == {[v EXCEPT !.deleted = a] : v \in OldRow(r)}
<1>6. /\ \A v \in A : Version(v) /\ \E w \in OldRow(r) : v.by = w.by /\ v.until = w.until
      /\ \A v, w \in A : v = w
  BY <1>2, <1>4
<1>7. /\ \A v \in D : Version(v) /\ \E w \in OldRow(r) : v.by = w.by /\ v.until = w.until
      /\ \A v, w \in D : v = w
  BY <1>3, <1>4
<1> HIDE DEF A, D
<1>8. Renewal(row[t(r)], r, A) /\ Renewal(row[t(r)], r, D)
  BY <1>5, <1>6, <1>7 DEF Renewal
<1> QED
  BY <1>8 DEF A, D

LEMMA TypeOfUpdateRow == ASSUME TInv, NEW r \in Slots, UpdateRow(r) PROVE Acts(r)
<1>1. step[r] = "row" /\ req[r].mode \in EditModes /\ Lockers(row[t(r)], r) = {}
  BY ModeOfStep DEF UpdateRow, EditSteps
<1>2. CASE AcceptsAmount(p(r).amount)
  <2> DEFINE new == {[v EXCEPT !.amount = p(r).amount] : v \in OldRow(r)}
  <2>2. Renewal(row[t(r)], r, new)
    BY <1>1, FieldRenewal
  <2>3. Writes(r)
    BY <1>1, <1>2, <2>2, SetRowWrites DEF UpdateRow
  <2> QED
    BY <1>1, <1>2, <2>3, ProceedActs, StepsOfEdit DEF UpdateRow
<1>3. CASE ~AcceptsAmount(p(r).amount)
  BY <1>3, FailActs DEF UpdateRow
<1> QED
  BY <1>2, <1>3

LEMMA TypeOfDeleteRow == ASSUME TInv, NEW r \in Slots, DeleteRow(r) PROVE Acts(r)
<1>1. step[r] = "delete" /\ req[r].mode = "delete" /\ Lockers(row[t(r)], r) = {}
  BY ModeOfStep DEF DeleteRow
<1> DEFINE new == {[v EXCEPT !.deleted = TRUE] : v \in OldRow(r)}
<1>3. Renewal(row[t(r)], r, new)
  BY <1>1, FieldRenewal
<1>4. Writes(r)
  BY <1>1, <1>3, SetRowWrites DEF DeleteRow
<1>5. Fits(req[r], "commit")
  BY <1>1, ModeOfStep DEF Fits, EditSteps, NoRequest, Request
<1> QED
  BY <1>1, <1>4, <1>5, StayActs DEF DeleteRow

LEMMA TypeOfDeleteFind == ASSUME TInv, NEW r \in Slots, DeleteFind(r) PROVE Acts(r)
<1>1. step[r] = "find" /\ req[r].mode = "delete"
  BY ModeOfStep DEF DeleteFind
<1>2. Fits(req[r], "delete")
  BY <1>1, ModeOfStep DEF Fits, EditSteps, NoRequest, Request
<1>3. CASE Found(r)
  BY <1>1, <1>2, <1>3, NoWrites, StayActs DEF DeleteFind
<1>4. CASE ~Found(r)
  BY <1>4, FailActs DEF DeleteFind
<1> QED
  BY <1>3, <1>4

LEMMA TypeOfReread == ASSUME TInv, NEW r \in Slots, Reread(r) PROVE Acts(r)
<1>1. step[r] = "reread" /\ req[r].mode \in EditModes
  BY ModeOfStep DEF Reread, EditSteps
<1> QED
  BY <1>1, NextEntryActs, FailActs DEF Reread

LEMMA TypeOfCommit == ASSUME TInv, NEW r \in Slots, Commit(r) PROVE Acts(r)
  BY CommitWrites, AnswerActs DEF Commit

\* A statement of an edit, before another.
LEMMA EditActs ==
    ASSUME TInv, NEW r \in Slots, NEW s \in EditSteps, Writes(r), step[r] # "idle",
           req[r].mode \in EditModes, Goto(r, s), NEW S, req' = [req EXCEPT ![r].seen = S]
    PROVE  Acts(r)
<1>1. req' = [req EXCEPT ![r] = [req[r] EXCEPT !.seen = S]]
  BY DEF TInv, AllFit, Mapped
<1>2. Turned(req[r], [req[r] EXCEPT !.seen = S], req[r].todo, S, req[r].n)
  BY RequestParts DEF TInv, AllFit, Fits
<1>3. Fits(req[r], s)
  BY EditFits DEF TInv, AllFit, Fits, EditModes
<1> QED
  BY <1>1, <1>2, <1>3, GotoActs DEF Goto, EditSteps

LEMMA TypeOfFirst == ASSUME TInv, NEW r \in Slots, First(r) PROVE Acts(r)
<1>1. step[r] = "first" /\ req[r].mode \in EditModes
  BY ModeOfStep DEF First, EditSteps
<1>2. Writes(r)
  BY NoWrites DEF First
<1>3. CASE Proceed(r, AfterNote(p(r)))
  BY <1>1, <1>2, <1>3, ProceedActs, StepsOfEdit
<1>4. CASE \E v \in Lead(r) : req' = [req EXCEPT ![r].seen = {v.id}] /\ Goto(r, "note")
  <2>1. PICK v \in Lead(r) : req' = [req EXCEPT ![r].seen = {v.id}] /\ Goto(r, "note")
    BY <1>4
  <2>2. "note" \in EditSteps
    BY DEF EditSteps
  <2> QED
    BY <1>1, <1>2, <2>1, <2>2, EditActs
<1> QED
  BY <1>3, <1>4 DEF First

\* Removed and inserted versions of the entry of r.
LEMMA RemovedLeaves ==
    ASSUME NEW V, Table(V), NEW r \in Slots, NEW D, D \subseteq V,
           NEW N, \A v \in N : Version(v) /\ v.by = r /\ v.until = None
    PROVE  Leaves(r, V, Removed(V, D, r) \cup N)
<1>1. Table(Removed(V, D, r)) /\ \A s \in Slots : Owns(s, Removed(V, D, r)) => s = r \/ Owns(s, V)
  BY RemovedTable
<1>2. Table(N) /\ \A s \in Slots : Owns(s, N) => s = r
  BY NotNone DEF Table, Owns
<1> QED
  BY <1>1, <1>2 DEF Leaves, Table, Owns

LEMMA TypeOfNote == ASSUME TInv, NEW r \in Slots, Note(r) PROVE Acts(r)
<1>1. step[r] = "note" /\ req[r].mode \in EditModes
  BY ModeOfStep DEF Note, EditSteps
<1> DEFINE N == {[v EXCEPT !.note = p(r).note, !.by = r] : v \in Aimed(r)}
<1>2. Table(item[t(r)])
  BY <1>1, WorkingEntry DEF TInv, Data, Sound
<1>3. Aimed(r) \subseteq item[t(r)] /\ \A v \in Aimed(r) : Version(v) /\ v.until = None
  <2>1. \A v \in Aimed(r) : v \in item[t(r)] /\ v.until # r
    BY DEF Aimed, Seen
  <2>2. \A v \in Aimed(r) : v.until \in {None, r}
    BY DEF Note, Lockers
  <2> QED
    BY <2>1, <2>2, <1>2 DEF Table
<1>4. \A v \in N : Version(v) /\ v.by = r /\ v.until = None
  BY <1>3 DEF Version
<1>5. Leaves(r, item[t(r)], Removed(item[t(r)], Aimed(r), r) \cup N)
  BY <1>2, <1>3, <1>4, RemovedLeaves
<1>6. Writes(r)
  BY <1>1, <1>5, ItemWrites DEF Note
<1> QED
  BY <1>1, <1>6, EditActs, StepsOfEdit DEF Note

LEMMA TypeOfScan == ASSUME TInv, NEW r \in Slots, Scan(r) PROVE Acts(r)
<1>1. step[r] = "scan" /\ req[r].mode \in EditModes
  BY ModeOfStep DEF Scan, EditSteps
<1>2. Writes(r)
  BY NoWrites DEF Scan
<1>3. "remove" \in EditSteps
  BY DEF EditSteps
<1> QED
  BY <1>1, <1>2, <1>3, EditActs DEF Scan

LEMMA TypeOfRemove == ASSUME TInv, NEW r \in Slots, Remove(r) PROVE Acts(r)
<1>1. step[r] = "remove" /\ req[r].mode \in EditModes
  BY ModeOfStep DEF Remove, EditSteps
<1>2. Table(item[t(r)])
  BY <1>1, WorkingEntry DEF TInv, Data, Sound
<1>3. Aimed(r) \subseteq item[t(r)]
  BY DEF Aimed, Seen
<1>4. Leaves(r, item[t(r)], Removed(item[t(r)], Aimed(r), r))
  BY <1>2, <1>3, RemovedTable DEF Leaves
<1>5. Writes(r)
  BY <1>1, <1>4, ItemWrites DEF Remove
<1>6. "lines" \in EditSteps
  BY DEF EditSteps
<1> QED
  BY <1>1, <1>5, <1>6, EditActs DEF Remove

LEMMA TypeOfInsertLine == ASSUME TInv, NEW r \in Slots, InsertLine(r) PROVE Acts(r)
<1> DEFINE n == req[r].n
           lines == p(r).lines
           N == {Item(NewId(t(r), n), lines[n].amount, lines[n].note, r)}
<1>1. step[r] = "lines" /\ Fits(req[r], step[r]) /\ req[r].mode \in EditModes \cup {"create"}
  BY ModeOfStep DEF InsertLine
<1>2. CASE n > Len(lines) /\ req[r].mode = "create"
  <2>1. PICK s \in {"tag", "commit"} : Goto(r, s)
    BY <1>2 DEF InsertLine, TagsNext
  <2>2. Fits(req[r], s)
    BY <1>1, <1>2, <2>1 DEF Fits, EditSteps, NoRequest, Request
  <2> QED
    BY <1>1, <1>2, <2>1, <2>2, NoWrites, StayActs DEF InsertLine
<1>3. CASE n > Len(lines) /\ req[r].mode # "create"
  BY <1>1, <1>3, NoWrites, ProceedActs, StepsOfEdit DEF InsertLine
<1>4. CASE ~(n > Len(lines)) /\ AcceptsLine(t(r), lines[n].amount)
  <2>1. /\ item' = Put(item, r, item[t(r)] \cup N)
        /\ req' = [req EXCEPT ![r].n = n + 1]
        /\ UNCHANGED <<row, tagged, step>>
    BY <1>4 DEF InsertLine
  <2>2. Table(item[t(r)])
    BY <1>1, WorkingEntry DEF TInv, Data, Sound
  <2>3. \A v \in N : Version(v) /\ v.by = r /\ v.until = None
    BY DEF Item, Version
  <2>4. Leaves(r, item[t(r)], item[t(r)] \cup N)
    BY <2>2, <2>3, NotNone DEF Leaves, Table, Owns
  <2>5. Writes(r)
    BY <1>1, <2>1, <2>4, ItemWrites
  <2> DEFINE q == [req[r] EXCEPT !.n = n + 1]
  <2>6. req' = [req EXCEPT ![r] = q] /\ step' = [step EXCEPT ![r] = "lines"]
    BY <1>1, <2>1 DEF TInv, AllFit, Mapped
  <2>7. Turned(req[r], q, req[r].todo, req[r].seen, n + 1)
    BY <1>1, RequestParts DEF Fits
  <2> QED
    BY <1>1, <2>5, <2>6, <2>7, GotoActs
<1>5. CASE ~(n > Len(lines)) /\ ~AcceptsLine(t(r), lines[n].amount)
  BY <1>5, FailActs DEF InsertLine
<1> QED
  BY <1>2, <1>3, <1>4, <1>5

LEMMA TypeOfUntag == ASSUME TInv, NEW r \in Slots, Untag(r) PROVE Acts(r)
<1>1. step[r] = "untag" /\ req[r].mode \in EditModes
  BY ModeOfStep DEF Untag, EditSteps
<1>2. Table(tagged[t(r)])
  BY <1>1, WorkingEntry DEF TInv, Data, Sound
<1>3. Leaves(r, tagged[t(r)], Removed(tagged[t(r)], Seen(tagged[t(r)], r), r))
  BY <1>2, RemovedTable DEF Leaves, Seen
<1>4. Writes(r)
  BY <1>1, <1>3, TagWrites DEF Untag
<1>5. "tag" \in EditSteps
  BY DEF EditSteps
<1> QED
  BY <1>1, <1>4, <1>5, ProceedActs DEF Untag

LEMMA TypeOfInsertTags == ASSUME TInv, NEW r \in Slots, InsertTags(r) PROVE Acts(r)
<1> DEFINE N == {Tag(g, r) : g \in p(r).tags \ {v.tag : v \in Conflicts(r)}}
<1>1. step[r] = "tag" /\ Fits(req[r], step[r]) /\ req[r].mode \in EditModes \cup {"create"}
  BY ModeOfStep DEF InsertTags
<1>2. Table(tagged[t(r)])
  BY <1>1, WorkingEntry DEF TInv, Data, Sound
<1>3. \A v \in N : Version(v) /\ v.by = r /\ v.until = None
  BY DEF Tag, Version
<1>4. Leaves(r, tagged[t(r)], tagged[t(r)] \cup N)
  BY <1>2, <1>3, NotNone DEF Leaves, Table, Owns
<1>5. Writes(r)
  BY <1>1, <1>4, TagWrites DEF InsertTags
<1>6. CASE req[r].mode = "create"
  <2>1. Fits(req[r], "commit")
    BY <1>1, <1>6 DEF Fits, EditSteps, NoRequest, Request
  <2> QED
    BY <1>1, <1>5, <1>6, <2>1, StayActs DEF InsertTags
<1>7. CASE req[r].mode # "create"
  <2>1. "reread" \in EditSteps
    BY DEF EditSteps
  <2> QED
    BY <1>1, <1>5, <1>7, <2>1, ProceedActs DEF InsertTags
<1> QED
  BY <1>6, <1>7

LEMMA AdvanceTInv == ASSUME TInv, NEW r \in Slots, Advance(r) PROVE TInv'
<1>1. Abort(r) => Acts(r)
  BY FailActs DEF Abort
<1>2. Acts(r)
  BY <1>1, TypeOfInsert, TypeOfCheck, TypeOfUpdateRow, TypeOfFirst, TypeOfNote, TypeOfScan,
     TypeOfRemove, TypeOfInsertLine, TypeOfUntag, TypeOfInsertTags, TypeOfReread,
     TypeOfDeleteFind, TypeOfDeleteRow, TypeOfCommit
     DEF Advance
<1> QED
  BY <1>2, ActsTInv

\* The requests clients make.
LEMMA TakenRequests ==
    ASSUME TInv, NEW r \in Slots, Create(r) \/ Patch(r) \/ BatchPatch(r) \/ Delete(r)
    PROVE  \E q, s : /\ Take(r, q, s) /\ Fits(q, s) /\ s # "idle" /\ s # "commit"
                     /\ q.mode = "create" => s = "insert" /\ Fresh(Head(q.todo))
                     /\ s = "insert" => q.mode = "create"
<1>0. /\ \A m, b, e : Request(m, b, e) = [mode |-> m, todo |-> b, patch |-> e, seen |-> {}, n |-> 1]
      /\ \A m, b, e : IsRequest(Request(m, b, e))
  BY DEF Request, IsRequest
<1>1. \A x \in Transactions : /\ <<x>> \in Seq(Transactions) /\ <<x>> # <<>>
                              /\ Len(<<x>>) = 1 /\ Head(<<x>>) = x
  OBVIOUS
<1>2. CASE Create(r)
  <2>1. PICK q \in CreateRequests : Take(r, [q EXCEPT !.patch = Summed(@)], "insert")
    BY <1>2 DEF Create
  <2>2. PICK x \in Transactions, e \in Patches : Fresh(x) /\ q = Request("create", <<x>>, e)
    BY <2>1 DEF CreateRequests
  <2> DEFINE u == [q EXCEPT !.patch = Summed(@)]
  <2>3. IsRequest(u) /\ u.mode = "create" /\ u.todo = <<x>>
    BY <2>2, <1>0 DEF IsRequest
  <2>4. Fits(u, "insert")
    BY <2>3, <1>1 DEF Fits
  <2> QED
    BY <2>1, <2>2, <2>3, <2>4, <1>1
<1>3. CASE Patch(r)
  <2>1. PICK q \in PatchRequests : Take(r, q, "check")
    BY <1>3 DEF Patch
  <2>2. PICK x \in Transactions, e \in Patches : q = Request("patch", <<x>>, e)
    BY <2>1 DEF PatchRequests, Known, Edits
  <2>3. Fits(q, "check")
    BY <2>2, <1>0, <1>1 DEF Fits, EditSteps
  <2> QED
    BY <2>1, <2>2, <2>3, <1>0
<1>4. CASE BatchPatch(r)
  <2>1. PICK q \in BatchRequests : Take(r, q, "check")
    BY <1>4 DEF BatchPatch
  <2>2. PICK m \in {"partial", "atomic"}, b \in Seq(Known), e \in Patches : b # <<>> /\ q = Request(m, b, e)
    BY <2>1 DEF BatchRequests, Edits
  <2>3. b \in Seq(Transactions)
    BY <2>2 DEF Known
  <2>4. Fits(q, "check")
    BY <2>2, <2>3, <1>0 DEF Fits, EditSteps
  <2> QED
    BY <2>1, <2>2, <2>4, <1>0
<1>5. CASE Delete(r)
  <2>1. PICK q \in DeleteRequests : Take(r, q, "find")
    BY <1>5 DEF Delete
  <2>2. PICK x \in Transactions : q = Request("delete", <<x>>, NoPatch)
    BY <2>1 DEF DeleteRequests, Known
  <2>3. Fits(q, "find")
    BY <2>2, <1>0, <1>1 DEF Fits
  <2> QED
    BY <2>1, <2>2, <2>3, <1>0
<1> QED
  BY <1>2, <1>3, <1>4, <1>5

LEMMA TakeTInv ==
    ASSUME TInv, NEW r \in Slots, Create(r) \/ Patch(r) \/ BatchPatch(r) \/ Delete(r)
    PROVE  TInv'
<1>1. PICK q, s : /\ Take(r, q, s) /\ Fits(q, s) /\ s # "idle" /\ s # "commit"
                  /\ q.mode = "create" => s = "insert" /\ Fresh(Head(q.todo))
                  /\ s = "insert" => q.mode = "create"
  BY TakenRequests
<1>2. /\ step[r] = "idle" /\ req'[r] = q /\ step'[r] = s
      /\ req' = [u \in Slots |-> req'[u]] /\ step' = [u \in Slots |-> step'[u]]
      /\ \A u \in Slots : u # r => req'[u] = req[u] /\ step'[u] = step[u]
      /\ UNCHANGED <<row, item, tagged>>
  BY <1>1 DEF Take, Goto, TInv, AllFit, Mapped
<1>3. AllFit'
  BY <1>1, <1>2 DEF AllFit, Mapped, TInv
<1>4. Data'
  BY <1>2 DEF TInv, Data, Sound
<1>5. Holders'
  BY <1>2 DEF TInv, Holders, Touches, Opens
<1>6. Creators'
  <2>1. q.mode = "create" => row[Head(q.todo)] = {} /\
            \A u \in Slots : req[u].mode = "create" => t(u) # Head(q.todo)
    BY <1>1 DEF Fresh
  <2>2. \A u \in Slots : t(u)' = Head(req'[u].todo)
    BY DEF t
  <2>3. \A u \in Slots : u # r => t(u)' = t(u)
    BY <2>2, <1>2 DEF t
  <2> QED
    BY <1>1, <1>2, <2>1, <2>2, <2>3 DEF TInv, Creators
<1> QED
  BY <1>3, <1>4, <1>5, <1>6 DEF TInv

LEMMA RestartTInv == ASSUME TInv, Restart PROVE TInv'
<1>1. \A x \in Transactions :
          /\ row'[x] = {[v EXCEPT !.until = None] : v \in Settled(row[x])}
          /\ item'[x] = {[v EXCEPT !.until = None] : v \in Settled(item[x])}
          /\ tagged'[x] = {[v EXCEPT !.until = None] : v \in Settled(tagged[x])}
  BY DEF Restart
<1>2. Data'
  BY <1>1, RestartTable, RestartRow DEF TInv, Data, Sound
<1>3. \A r \in Slots, x \in Transactions : ~Touches(r, x)'
  BY <1>1, RestartTable DEF TInv, Data, Sound, Touches
<1>4. \A r \in Slots : req'[r] = NoRequest /\ step'[r] = "idle"
  BY DEF Restart
<1>5. AllFit'
  BY <1>4, NoRequestFits DEF Restart, AllFit, Mapped
<1>6. Holders' /\ Creators'
  BY <1>3, <1>4 DEF Holders, Creators, NoRequest, Request
<1> QED
  BY <1>2, <1>5, <1>6 DEF TInv

LEMMA InitTInv == Init => TInv
<1> SUFFICES ASSUME Init PROVE TInv
  OBVIOUS
<1>1. \A x \in Transactions : /\ row[x] \subseteq {Row(1, FALSE, None)}
                              /\ item[x] \subseteq {Item(<<0, 1>>, 1, Plain, None)}
                              /\ tagged[x] = {}
  BY DEF Init
<1>2. \A x \in Transactions : \A v \in row[x] \cup item[x] \cup tagged[x] :
          Version(v) /\ v.by = None /\ v.until = None
  BY <1>1 DEF Row, Item, Version
<1>3. \A r \in Slots, x \in Transactions : ~Touches(r, x)
  BY <1>2, NotNone DEF Touches, Owns
<1>4. \A x \in Transactions : \A v, w \in row[x] : v = w
  BY <1>1
<1>5. Data
  BY <1>2, <1>3, <1>4 DEF Data, Sound, Table, OneRow, Touches, Settled, Seen
<1>6. AllFit
  BY NoRequestFits DEF Init, AllFit, Mapped
<1>7. Holders /\ Creators
  BY <1>3 DEF Init, Holders, Creators, NoRequest, Request
<1> QED
  BY <1>5, <1>6, <1>7 DEF TInv

LEMMA NextTInv == TInv /\ [Next]_vars => TInv'
<1> SUFFICES ASSUME TInv, [Next]_vars PROVE TInv'
  OBVIOUS
<1>1. CASE UNCHANGED vars
  BY <1>1 DEF vars, TInv, AllFit, Mapped, Data, Sound, Holders, Touches, Opens, Creators, t
<1>2. CASE Next
  BY <1>2, AdvanceTInv, TakeTInv, RestartTInv DEF Next
<1> QED
  BY <1>1, <1>2

LEMMA TInvTypeOK == TInv => TypeOK
<1> SUFFICES ASSUME TInv PROVE TypeOK
  OBVIOUS
<1>1. \A x \in Transactions : Cardinality(Settled(row[x])) <= 1
  <2> SUFFICES ASSUME NEW x \in Transactions PROVE Cardinality(Settled(row[x])) <= 1
    OBVIOUS
  <2>1. \A v, w \in Settled(row[x]) : v = w
    BY DEF TInv, Data, Sound, OneRow
  <2>2. Settled(row[x]) = {} \/ \E v : Settled(row[x]) = {v}
    BY <2>1
  <2> QED
    BY <2>2, FS_EmptySet, FS_Singleton
<1>2. \A x \in Transactions : \A v \in VersionsOf(x) : \A r \in {v.by, v.until} \ {None} :
          step[r] # "idle" /\ Opens(r)
  BY DEF TInv, Data, Sound, Table, Holders, Touches, Owns, VersionsOf
<1>3. \A r \in Slots : step[r] = "idle" <=> req[r] = NoRequest
  BY FitsTarget DEF TInv, AllFit
<1> QED
  BY <1>1, <1>2, <1>3 DEF TypeOK

LEMMA Typed == Spec => []TInv
  BY InitTInv, NextTInv, PTL DEF Spec

\* At most one row of an entry is committed, and only requests at work in a
\* transaction hold locks, whatever clients do.
THEOREM EditsTyped == Spec => []TypeOK
  BY Typed, TInvTypeOK, PTL

-----------------------------------------------------------------------------
(* Batches: what an entry holds, for everybody and for the transaction that *)
(* is writing it                                                            *)

Content(V) == {<<i.id[2], i.amount, i.note>> : i \in V}
TagsOf(V) == {g.tag : g \in V}
Rows(V) == {<<v.amount, v.deleted>> : v \in V}

Distinct(V) == \A i, j \in V : i.id[2] = j.id[2] => i = j

Listed(e) == {<<k, e.lines[k].amount, e.lines[k].note>> : k \in DOMAIN e.lines}

\* Transaction r has written its note to one line item, l, and made i of it.
NotedAs(V, r, e, l, i) ==
    /\ l.until = r /\ i.by = r
    /\ i.id = l.id /\ i.amount = l.amount /\ i.note = e.note
    /\ \A v \in Settled(V) : v.until = r => v = l
    /\ \A v \in Seen(V, r) : v.by = r => v = i

Noted(V, r, e) == \E l \in Settled(V), i \in Seen(V, r) : NotedAs(V, r, e, l, i)

\* Transaction r is done with the line items, with the tags.
LinesDone(V, r, e) ==
    IF e.lines # None THEN Content(Seen(V, r)) = Listed(e)
    ELSE IF e.note = None THEN ~Owns(r, V)
    ELSE Noted(V, r, e) \/ (~Owns(r, V) /\ Settled(V) = {})

TagsDone(T, r, e) ==
    IF e.tags # None THEN TagsOf(Seen(T, r)) = e.tags ELSE ~Owns(r, T)

Leading(V, r) ==
    {v \in Seen(V, r) : v.by = r \/ \A w \in Seen(V, r) : w.by # r}

Inserted(V, r, q) ==
    /\ q.n \in 1..Len(q.patch.lines) + 1
    /\ Content(Seen(V, r)) =
           {<<k, q.patch.lines[k].amount, q.patch.lines[k].note>> : k \in 1..q.n - 1}

EntrySteps == EditSteps \ {"check", "row"}

\* Where request q is with the line items, before statement s.
LinesAt(V, r, q, s) ==
    /\ s \in {"first", "note"} => q.patch.note # None
    /\ s \in {"first", "note"} /\ q.patch.lines = None =>
           ~Owns(r, V) \/ LinesDone(V, r, q.patch)
    /\ s = "note" => \E v \in Leading(V, r) : q.seen = {v.id}
    /\ s \in {"scan", "remove", "lines"} => q.patch.lines # None
    /\ s \in {"first", "note", "scan", "remove"} => q.n = 1
    /\ s = "remove" => \A v \in Seen(V, r) : v.id \in q.seen
    /\ s = "lines" => Inserted(V, r, q)
    /\ s \in {"untag", "tag", "reread"} => LinesDone(V, r, q.patch)

TagsAt(T, r, q, s) ==
    /\ s \in {"first", "note", "scan", "remove", "lines"} =>
           ~Owns(r, T) \/ TagsDone(T, r, q.patch)
    /\ s \in {"untag", "tag"} => q.patch.tags # None
    /\ s = "tag" => Seen(T, r) = {}
    /\ s = "reread" => TagsDone(T, r, q.patch)

\* What a batch has made of an entry; it is at work on it here.
Edited(R, V, T, r, q, s, here) ==
    /\ Settled(R) # {} /\ \A v \in Settled(R) : v.until = r
    /\ Seen(R, r) # {} /\ \A v \in Seen(R, r) : v.amount = q.patch.amount
    /\ \A v \in Settled(R), w \in Seen(R, r) : v.deleted = w.deleted
    /\ Distinct(Seen(V, r))
    /\ IF here /\ s \in EntrySteps
       THEN LinesAt(V, r, q, s) /\ TagsAt(T, r, q, s)
       ELSE /\ LinesDone(V, r, q.patch) /\ TagsDone(T, r, q.patch)
            /\ \A v \in Seen(R, r) : ~v.deleted

\* What a creation has made of its entry.
Created(R, V, T, r, q, s) ==
    /\ Settled(R) = {} /\ Settled(V) = {} /\ Settled(T) = {}
    /\ Seen(R, r) # {} /\ \A v \in Seen(R, r) : v.amount = q.patch.amount /\ ~v.deleted
    /\ Distinct(Seen(V, r))
    /\ s \in {"lines", "tag", "commit"}
    /\ s = "lines" => q.patch.lines # None /\ Inserted(V, r, q)
    /\ s \in {"tag", "commit"} =>
           Content(Seen(V, r)) = IF q.patch.lines = None THEN {} ELSE Listed(q.patch)
    /\ s \in {"lines", "tag"} => Seen(T, r) = {}
    /\ s = "tag" => q.patch.tags # None
    /\ s = "commit" => TagsOf(Seen(T, r)) = IF q.patch.tags = None THEN {} ELSE q.patch.tags

\* What a deletion has made of its entry.
Removing(R, V, T, r, q, s) ==
    /\ s = "commit"
    /\ Settled(R) # {} /\ \A v \in Settled(R) : v.until = r
    /\ Rows(Seen(R, r)) = {<<v.amount, TRUE>> : v \in Settled(R)}
    /\ ~Owns(r, V) /\ ~Owns(r, T)

Private(R, V, T, r, q, s, here) ==
    \/ q.mode = "atomic" /\ Edited(R, V, T, r, q, s, here)
    \/ q.mode = "create" /\ here /\ Created(R, V, T, r, q, s)
    \/ q.mode = "delete" /\ here /\ Removing(R, V, T, r, q, s)

\* An entry somebody else can find.
Public(x) == Settled(row[x]) # {}

RowFields(R) ==
    \A v \in R : DOMAIN v = {"amount", "deleted", "by", "until"} /\ v.deleted \in BOOLEAN
ItemFields(V) == \A v \in V : DOMAIN v = {"id", "amount", "note", "by", "until"}
TagFields(T) == \A v \in T : DOMAIN v = {"tag", "by", "until"}
Fields(x) == RowFields(row[x]) /\ ItemFields(item[x]) /\ TagFields(tagged[x])

Entry(x) ==
    /\ Fields(x)
    /\ ~Public(x) => Settled(item[x]) = {} /\ Settled(tagged[x]) = {}
    /\ Distinct(Settled(item[x]))
    /\ \A r, s \in Slots : Touches(r, x) /\ Touches(s, x) => r = s

Edition(e) ==
    /\ e \in Patches \cup {Summed(q) : q \in Patches}
    /\ e.lines = None \/ e.lines \in Seq([amount : Nat, note : Notes])

\* A request and what it has found or written.
Asked(r) ==
    \/ step[r] = "idle"
    \/ /\ req[r].mode = "create" /\ Edition(p(r))
       /\ step[r] = "insert" => req[r].n = 1 /\ \A x \in Transactions : ~Touches(r, x)
       /\ step[r] # "insert" => Touches(r, t(r))
    \/ /\ req[r].mode = "delete"
       /\ step[r] = "delete" => Public(t(r))
       /\ step[r] # "commit" => \A x \in Transactions : ~Touches(r, x)
    \/ /\ req[r].mode = "atomic" /\ Edition(p(r)) /\ p(r).amount # None
       /\ step[r] # "check" => Public(t(r))
       /\ step[r] \in EntrySteps => Touches(r, t(r))

Held(r, x) == Private(row[x], item[x], tagged[x], r, req[r], step[r], x = t(r))

Batch ==
    /\ \A x \in Transactions : Entry(x)
    /\ \A r \in Slots : Asked(r)
    /\ \A r \in Slots, x \in Transactions : Touches(r, x) => Held(r, x)

BInv == TInv /\ (habit = "batch" => Batch)

-----------------------------------------------------------------------------
(* Tables whose versions nobody but r has written *)

Alone(V, r) == \A v \in V : {v.by, v.until} \subseteq {None, r}

LEMMA AloneTable ==
    ASSUME NEW V, Table(V), NEW r \in Slots, \A s \in Slots : Owns(s, V) => s = r
    PROVE  Alone(V, r)
  BY DEF Table, Alone, Owns

\* The versions S, those in D until r commits.
Ended(S, D, r) == {IF v \in D THEN [v EXCEPT !.until = r] ELSE v : v \in S}

\* What everybody reads does not change before a transaction commits.
LEMMA RemovedSettles ==
    ASSUME NEW V, Table(V), NEW r \in Slots, NEW D, D \subseteq V,
           NEW N, \A v \in N : v.by = r
    PROVE  Settled(Removed(V, D, r) \cup N) = Ended(Settled(V), D, r)
  BY NotNone DEF Settled, Removed, Table, Version, Ended

LEMMA RemovedSeen ==
    ASSUME NEW V, Table(V), NEW r \in Slots, NEW D, D \subseteq Seen(V, r),
           NEW N, \A v \in N : v.by = r /\ v.until = None
    PROVE  \A w : w \in Seen(Removed(V, D, r) \cup N, r) <=>
                       (w \in Seen(V, r) /\ w \notin D) \/ w \in N
  BY NotNone DEF Seen, Removed, Table, Version


\* w is v, but for who wrote or replaced it.
Copy(w, v) == w = v \/ \E a : w = [v EXCEPT !.until = a] \/ w = [v EXCEPT !.by = a]

Copies(W, S) ==
    /\ \A w \in W : \E v \in S : Copy(w, v)
    /\ \A v \in S : \E w \in W : Copy(w, v)

LEMMA RemovedCopies ==
    ASSUME NEW V, Table(V), NEW r \in Slots, NEW D, D \subseteq V,
           NEW N, \A v \in N : v.by = r
    PROVE  Copies(Settled(Removed(V, D, r) \cup N), Settled(V))
<1> DEFINE W == Settled(Removed(V, D, r) \cup N)
<1>1. \A w \in W : \E v \in Settled(V) : w = v \/ w = [v EXCEPT !.until = r]
  BY NotNone DEF Settled, Removed, Table, Version
<1>2. \A v \in Settled(V) : IF v \in D THEN [v EXCEPT !.until = r] \in W ELSE v \in W
  BY NotNone DEF Settled, Removed, Table, Version
<1> QED
  BY <1>1, <1>2 DEF Copies, Copy

LEMMA RolledBackCopies ==
    ASSUME NEW V, Table(V), NEW r \in Slots
    PROVE  Copies(Settled(RolledBack(V, r)), Settled(V))
<1> DEFINE u(v) == [v EXCEPT !.until = IF @ = r THEN None ELSE @]
<1>1. Settled(RolledBack(V, r)) = {u(v) : v \in Settled(V)}
  BY RollbackSettles
<1>2. \A v \in Settled(V) : Copy(u(v), v)
  BY DEF Copy
<1> HIDE DEF u
<1> QED
  BY <1>1, <1>2 DEF Copies

LEMMA RestartCopies ==
    ASSUME NEW V, Table(V)
    PROVE  Copies(Settled({[v EXCEPT !.until = None] : v \in Settled(V)}), Settled(V))
<1> DEFINE W == {[v EXCEPT !.until = None] : v \in Settled(V)}
<1>1. Settled(W) = W
  BY DEF Settled, Table, Version
<1> QED
  BY <1>1 DEF Copies, Copy

LEMMA CommittedCopies ==
    ASSUME NEW V, Table(V), NEW r \in Slots
    PROVE  Copies(Settled(Committed(V, r)), Seen(V, r))
<1> DEFINE u(v) == [v EXCEPT !.by = None]
<1>1. Settled(Committed(V, r)) = {u(v) : v \in Seen(V, r)}
  BY CommitSettles
<1>2. \A v \in Seen(V, r) : Copy(u(v), v)
  BY DEF Copy
<1> HIDE DEF u
<1> QED
  BY <1>1, <1>2 DEF Copies

LEMMA RowCopies ==
    ASSUME NEW S, Table(S), RowFields(S), NEW W, Copies(W, S)
    PROVE  Rows(W) = Rows(S)
<1>1. \A v \in S : \A w : Copy(w, v) => w.amount = v.amount /\ w.deleted = v.deleted
  BY DEF RowFields, Copy
<1>2. Rows(W) \subseteq Rows(S)
  BY <1>1 DEF Copies, Rows
<1>3. Rows(S) \subseteq Rows(W)
  BY <1>1 DEF Copies, Rows
<1> QED
  BY <1>2, <1>3

LEMMA ItemCopies ==
    ASSUME NEW S, Table(S), ItemFields(S), NEW W, Copies(W, S)
    PROVE  Content(W) = Content(S)
<1>1. \A v \in S : \A w : Copy(w, v) => w.id = v.id /\ w.amount = v.amount /\ w.note = v.note
  BY DEF ItemFields, Copy
<1>2. Content(W) \subseteq Content(S)
  BY <1>1 DEF Copies, Content
<1>3. Content(S) \subseteq Content(W)
  BY <1>1 DEF Copies, Content
<1> QED
  BY <1>2, <1>3

LEMMA TagCopies ==
    ASSUME NEW S, Table(S), TagFields(S), NEW W, Copies(W, S)
    PROVE  TagsOf(W) = TagsOf(S)
<1>1. \A v \in S : \A w : Copy(w, v) => w.tag = v.tag
  BY DEF TagFields, Copy
<1>2. TagsOf(W) \subseteq TagsOf(S)
  BY <1>1 DEF Copies, TagsOf
<1>3. TagsOf(S) \subseteq TagsOf(W)
  BY <1>1 DEF Copies, TagsOf
<1> QED
  BY <1>2, <1>3

\* Numbers stay distinct.
LEMMA DistinctEnded ==
    ASSUME NEW S, ItemFields(S), Distinct(S), NEW D, NEW r
    PROVE  Distinct(Ended(S, D, r))
  BY DEF ItemFields, Distinct, Ended

LEMMA DistinctRestarted ==
    ASSUME NEW S, ItemFields(S), Distinct(S)
    PROVE  Distinct({[v EXCEPT !.until = None] : v \in S})
  BY DEF ItemFields, Distinct

LEMMA DistinctCommitted ==
    ASSUME NEW S, ItemFields(S), Distinct(S)
    PROVE  Distinct({[v EXCEPT !.by = None] : v \in S})
  BY DEF ItemFields, Distinct

\* Line items of an entry that r writes.
LinesOf(V, r) ==
    /\ Table(V) /\ ItemFields(V) /\ Alone(V, r)
    /\ Distinct(Settled(V)) /\ Distinct(Seen(V, r))

Renoted(v, a, r) == [v EXCEPT !.note = a, !.by = r]

\* What becomes of the line items V when transaction r writes the note a to v.
Renoting(V, v, a, r) == Removed(V, {v}, r) \cup {Renoted(v, a, r)}

LEMMA NoteTaken ==
    ASSUME NEW r \in Slots, NEW V, LinesOf(V, r), NEW v \in Leading(V, r), NEW a,
           NEW W, W = Renoting(V, v, a, r)
    PROVE  /\ ItemFields(W) /\ Distinct(Settled(W)) /\ Distinct(Seen(W, r))
           /\ \A e : /\ e.lines = None /\ e.note = a /\ a # None
                     /\ ~Owns(r, V) \/ LinesDone(V, r, e)
                     => LinesDone(W, r, e)
<1> DEFINE u == Renoted(v, a, r)
           D == {v}
           N == {u}
<1>0. /\ u = Renoted(v, a, r)
      /\ \A w : w \in D <=> w = v
      /\ \A w : w \in N <=> w = u
      /\ W = Removed(V, D, r) \cup N
  BY DEF Renoting
<1> HIDE DEF u, D, N
<1> USE <1>0
<1>1. v \in V /\ v \in Seen(V, r) /\ v.until = None
  BY DEF Leading, Seen, LinesOf, Alone
<1>2. /\ DOMAIN u = {"id", "amount", "note", "by", "until"}
      /\ u.id = v.id /\ u.amount = v.amount /\ u.note = a /\ u.by = r /\ u.until = None
  BY <1>1 DEF LinesOf, ItemFields, Renoted
<1>3. ItemFields(W)
  <2>1. \A w \in D : w \in V
    BY <1>1
  <2> QED
    BY <1>2, <2>1 DEF LinesOf, ItemFields, Removed
<1>4. Settled(W) = Ended(Settled(V), D, r)
  <2>1. D \subseteq V /\ \A w \in N : w.by = r
    BY <1>1, <1>2
  <2> QED
    BY <2>1, RemovedSettles DEF LinesOf
<1>5. Seen(W, r) = (Seen(V, r) \ {v}) \cup {u}
  <2>1. D \subseteq Seen(V, r) /\ \A w \in N : w.by = r /\ w.until = None
    BY <1>1, <1>2
  <2>2. Table(V) /\ W = Removed(V, D, r) \cup N
    BY DEF LinesOf
  <2>3. \A w : w \in Seen(W, r) <=> (w \in Seen(V, r) /\ w \notin D) \/ w \in N
    <3>1. \A w : w \in Seen(Removed(V, D, r) \cup N, r) <=>
                     (w \in Seen(V, r) /\ w \notin D) \/ w \in N
      BY <2>1, <2>2, RemovedSeen
    <3> QED
      BY <2>2, <3>1
  <2> QED
    BY <2>3
<1>6. Distinct(Settled(W))
  <2>1. ItemFields(Settled(V)) /\ Distinct(Settled(V))
    BY DEF LinesOf, ItemFields, Settled
  <2> QED
    BY <2>1, <1>4, DistinctEnded
<1>7. Distinct(Seen(W, r))
  <2>1. \A i \in Seen(V, r) \ {v} : i.id[2] # u.id[2]
    BY <1>1, <1>2 DEF LinesOf, Distinct
  <2>2. \A i, j \in Seen(V, r) : i.id[2] = j.id[2] => i = j
    BY DEF LinesOf, Distinct
  <2> QED
    BY <2>1, <2>2, <1>5 DEF Distinct
<1>8. ASSUME NEW e, e.lines = None, e.note = a, a # None, ~Owns(r, V) \/ LinesDone(V, r, e)
      PROVE  Noted(W, r, e)
  <2>1. CASE ~Owns(r, V)
    <3>1. v.by = None /\ v \in Settled(V)
      BY <1>1, <2>1 DEF Seen, Owns, Settled
    <3> DEFINE l == [v EXCEPT !.until = r]
    <3>2. l.until = r /\ l.id = v.id /\ l.amount = v.amount
      BY <1>1 DEF LinesOf, ItemFields
    <3>3. l \in Settled(W)
      BY <3>1, <1>4 DEF Ended
    <3>4. \A w \in Settled(W) : w.until = r => w = l
      BY <1>4, <2>1 DEF Owns, Settled, Ended
    <3>5. \A w \in Seen(W, r) : w.by = r => w = u
      BY <1>5, <2>1 DEF Owns, Seen
    <3>6. u \in Seen(W, r)
      BY <1>5
    <3>7. u.by = r /\ u.id = l.id /\ u.amount = l.amount /\ u.note = e.note
      BY <3>2, <1>2, <1>8
    <3> HIDE DEF l
    <3>8. NotedAs(W, r, e, l, u)
      BY <3>2, <3>4, <3>5, <3>7 DEF NotedAs
    <3> QED
      BY <3>3, <3>6, <3>8 DEF Noted
  <2>2. CASE Noted(V, r, e)
    <3>1. PICK l \in Settled(V), i \in Seen(V, r) : NotedAs(V, r, e, l, i)
      BY <2>2 DEF Noted
    <3>2. v = i
      BY <3>1 DEF Leading, NotedAs
    <3>3. Settled(W) = Settled(V)
      <4>1. v \notin Settled(V)
        BY <3>1, <3>2, NotNone DEF Settled, NotedAs
      <4> QED
        BY <4>1, <1>4 DEF Ended
    <3>4. \A w \in Seen(W, r) : w.by = r => w = u
      BY <1>5, <3>1, <3>2 DEF NotedAs
    <3>5. u \in Seen(W, r)
      BY <1>5
    <3>6. u.by = r /\ u.id = l.id /\ u.amount = l.amount /\ u.note = e.note
      BY <3>1, <3>2, <1>2, <1>8 DEF NotedAs
    <3>7. l \in Settled(W) /\ \A w \in Settled(W) : w.until = r => w = l
      BY <3>1, <3>3 DEF NotedAs
    <3>8. NotedAs(W, r, e, l, u)
      BY <3>1, <3>4, <3>6, <3>7 DEF NotedAs
    <3> QED
      BY <3>5, <3>7, <3>8 DEF Noted
  <2> QED
    BY <2>1, <2>2, <1>8 DEF LinesDone
<1> QED
  BY <1>3, <1>6, <1>7, <1>8 DEF LinesDone

LEMMA LinesRemoved ==
    ASSUME NEW r \in Slots, NEW V, LinesOf(V, r),
           NEW W, W = Removed(V, Seen(V, r), r)
    PROVE  /\ ItemFields(W) /\ Distinct(Settled(W)) /\ Seen(W, r) = {}
           /\ Content(Settled(W)) = Content(Settled(V))
<1>1. Seen(V, r) \subseteq V
  BY DEF Seen
<1>2. W = Removed(V, Seen(V, r), r) \cup {}
  OBVIOUS
<1>0. Table(V)
  BY DEF LinesOf
<1>3. Settled(W) = Ended(Settled(V), Seen(V, r), r)
  <2>1. Settled(Removed(V, Seen(V, r), r) \cup {}) = Ended(Settled(V), Seen(V, r), r)
    BY <1>0, <1>1, RemovedSettles
  <2> QED
    BY <2>1, <1>2
<1>4. ItemFields(Settled(V)) /\ Table(Settled(V))
  BY DEF LinesOf, ItemFields, Settled, Table
<1>5. Distinct(Settled(W))
  BY <1>3, <1>4, DistinctEnded DEF LinesOf
<1>6. Seen(W, r) = {}
  <2> DEFINE D == Seen(V, r)
             N == {}
  <2>1. D \subseteq Seen(V, r) /\ \A w \in N : w.by = r /\ w.until = None
    OBVIOUS
  <2>2. W = Removed(V, D, r) \cup N
    BY <1>2
  <2> HIDE DEF D, N
  <2>3. \A w : w \in Seen(W, r) <=> (w \in Seen(V, r) /\ w \notin D) \/ w \in N
    <3>1. \A w : w \in Seen(Removed(V, D, r) \cup N, r) <=>
                     (w \in Seen(V, r) /\ w \notin D) \/ w \in N
      BY <1>0, <2>1, RemovedSeen
    <3> QED
      BY <2>2, <3>1
  <2> QED
    BY <2>3 DEF D, N
<1>7. ItemFields(W)
  BY <1>1 DEF LinesOf, ItemFields, Removed
<1>8. Copies(Settled(W), Settled(V))
  BY <1>1, <1>2, RemovedCopies DEF LinesOf
<1>9. Content(Settled(W)) = Content(Settled(V))
  BY <1>4, <1>8, ItemCopies
<1> QED
  BY <1>5, <1>6, <1>7, <1>9

-----------------------------------------------------------------------------
(* What a statement does not disturb *)

\* What everybody reads of an entry stays as it is.
Quiet(x) ==
    /\ Rows(Settled(row[x]))' = Rows(Settled(row[x]))
    /\ Content(Settled(item[x]))' = Content(Settled(item[x]))
    /\ TagsOf(Settled(tagged[x]))' = TagsOf(Settled(tagged[x]))

AllQuiet == \A x \in Transactions : Quiet(x)

Untouched(x) == row'[x] = row[x] /\ item'[x] = item[x] /\ tagged'[x] = tagged[x]

\* Nobody but r is writing its entry.
Exclusive(r) == \A s \in Slots : Touches(s, t(r)) => s = r

LEMMA UntouchedQuiet ==
    ASSUME NEW x, Untouched(x)
    PROVE  Quiet(x) /\ \A r : Touches(r, x)' <=> Touches(r, x)
  BY DEF Untouched, Quiet, Touches

LEMMA QuietPublic ==
    ASSUME NEW x, Quiet(x)
    PROVE  /\ Public(x)' <=> Public(x)
           /\ Settled(item[x]) = {} => Settled(item[x])' = {}
           /\ Settled(tagged[x]) = {} => Settled(tagged[x])' = {}
<1>1. Rows(Settled(row[x])') = Rows(Settled(row[x]))
  BY DEF Quiet
<1>2. Settled(row[x])' = {} <=> Settled(row[x]) = {}
  BY <1>1 DEF Rows
<1>3. Content(Settled(item[x])') = Content(Settled(item[x]))
  BY DEF Quiet
<1>4. TagsOf(Settled(tagged[x])') = TagsOf(Settled(tagged[x]))
  BY DEF Quiet
<1>5. Settled(item[x]) = {} => Settled(item[x])' = {}
  BY <1>3 DEF Content
<1>6. Settled(tagged[x]) = {} => Settled(tagged[x])' = {}
  BY <1>4 DEF TagsOf
<1> QED
  BY <1>2, <1>5, <1>6 DEF Public

\* A statement of r that stays with its entry y.
LEMMA StatementBatch ==
    ASSUME TInv, Batch, NEW r \in Slots, step[r] # "idle", Writes(r),
           NEW q, NEW s, Moves(r, q, s), s # "idle", q.todo = req[r].todo,
           NEW y \in Transactions, y = t(r),
           \A x \in Transactions : x # y => Untouched(x),
           Exclusive(r) \/ Untouched(y),
           Quiet(y), Fields(y)', Distinct(Settled(item'[y])),
           Asked(r)',
           Touches(r, y)' => Private(row'[y], item'[y], tagged'[y], r, q, s, TRUE)
    PROVE  Batch' /\ AllQuiet
<1>1. /\ req'[r] = q /\ step'[r] = s
      /\ \A u \in Slots : u # r => req'[u] = req[u] /\ step'[u] = step[u]
  BY DEF Moves, TInv, AllFit, Mapped
<1>2. t(r)' = y /\ \A u \in Slots : t(u)' = t(u)
  BY <1>1 DEF t
<1>3. AllQuiet
  BY UntouchedQuiet DEF AllQuiet
<1>4. \A u \in Slots, x \in Transactions : Touches(u, x)' => Touches(u, x) \/ u = r
  BY DEF Writes
<1>5. ASSUME NEW x \in Transactions PROVE Entry(x)'
  <2>1. Fields(x)' /\ Distinct(Settled(item'[x]))
    <3>1. CASE x = y
      BY <3>1
    <3>2. CASE x # y
      BY <3>2 DEF Untouched, Batch, Entry, Fields
    <3> QED
      BY <3>1, <3>2
  <2>2. ~Public(x)' => (Settled(item[x]) = {})' /\ (Settled(tagged[x]) = {})'
    BY <1>3, QuietPublic DEF AllQuiet, Batch, Entry
  <2>3. \A u, v \in Slots : Touches(u, x)' /\ Touches(v, x)' => u = v
    <3>1. CASE x = y /\ Exclusive(r)
      BY <3>1, <1>4 DEF Exclusive
    <3>2. CASE Untouched(x)
      BY <3>2, UntouchedQuiet DEF Batch, Entry
    <3> QED
      BY <3>1, <3>2
  <2> QED
    BY <2>1, <2>2, <2>3 DEF Entry
<1>6. ASSUME NEW u \in Slots, u # r, NEW x \in Transactions, Touches(u, x)'
      PROVE  Touches(u, x) /\ Untouched(x)
  BY <1>4, <1>6 DEF Exclusive
<1>7. ASSUME NEW u \in Slots PROVE Asked(u)'
  <2>1. CASE u = r
    BY <2>1
  <2>2. CASE u # r
    <3>1. Asked(u)
      BY DEF Batch
    <3>2. \A x \in Transactions : Touches(u, x)' => Touches(u, x)
      BY <2>2, <1>6
    <3>3. step[u] # "idle" => t(u) \in Transactions
      BY WorkingEntry
    <3>4. step[u] # "idle" => (Public(t(u)) => Public(t(u))')
      BY <1>2, <1>3, <3>3, QuietPublic DEF AllQuiet
    <3>5. step[u] # "idle" /\ Touches(u, t(u)) => Touches(u, t(u))'
      <4>1. SUFFICES ASSUME step[u] # "idle", Touches(u, t(u)) PROVE Touches(u, t(u))'
        OBVIOUS
      <4>2. Untouched(t(u))
        BY <4>1, <3>3, <2>2 DEF Exclusive
      <4> QED
        BY <4>1, <4>2, <1>2 DEF Touches, Untouched
    <3>6. p(u)' = p(u) /\ (Edition(p(u)) => Edition(p(u))')
      BY <1>1, <2>2 DEF p, Edition
    <3> QED
      BY <1>1, <2>2, <3>1, <3>2, <3>4, <3>5, <3>6 DEF Asked
  <2> QED
    BY <2>1, <2>2
<1>8. ASSUME NEW u \in Slots, NEW x \in Transactions, Touches(u, x)' PROVE Held(u, x)'
  <2>1. CASE u = r /\ x = y
    BY <2>1, <1>1, <1>2, <1>8 DEF Held
  <2>2. CASE u = r /\ x # y
    <3>1. Touches(r, x) /\ Untouched(x)
      BY <2>2, <1>8, UntouchedQuiet
    <3>2. Private(row[x], item[x], tagged[x], r, req[r], step[r], FALSE)
      BY <3>1, <2>2 DEF Batch, Held
    <3>3. Private(row[x], item[x], tagged[x], r, q, s, FALSE)
      BY <3>2 DEF Private, Edited, Moves
    <3> QED
      BY <2>2, <3>1, <3>3, <1>1, <1>2 DEF Held, Untouched
  <2>3. CASE u # r
    <3>1. Touches(u, x) /\ Untouched(x)
      BY <2>3, <1>6, <1>8
    <3> QED
      BY <3>1, <2>3, <1>1, <1>2 DEF Batch, Held, Untouched
  <2> QED
    BY <2>1, <2>2, <2>3
<1> QED
  BY <1>3, <1>5, <1>7, <1>8 DEF Batch

\* The end of a request: what it had written is there for everybody, or gone.
LEMMA EndBatch ==
    ASSUME TInv, Batch, NEW r \in Slots, Writes(r), Ends(r), Answer(r),
           \A x \in Transactions : ~Touches(r, x) => Untouched(x),
           \A x \in Transactions : /\ Fields(x)' /\ Distinct(Settled(item'[x]))
                                   /\ Public(x) => Public(x)'
                                   /\ ~Public(x)' => /\ Settled(item'[x]) = {}
                                                     /\ Settled(tagged'[x]) = {}
    PROVE  Batch'
<1>1. /\ step'[r] = "idle"
      /\ \A u \in Slots : u # r => req'[u] = req[u] /\ step'[u] = step[u]
  BY DEF Answer, Goto, TInv, AllFit, Mapped
<1>2. \A u \in Slots : u # r => t(u)' = t(u)
  BY <1>1 DEF t
<1>3. \A u \in Slots, x \in Transactions : Touches(u, x)' => Touches(u, x) /\ u # r
  BY DEF Writes, Ends
<1>4. ASSUME NEW x \in Transactions PROVE Entry(x)'
  <2>1. \A u, v \in Slots : Touches(u, x)' /\ Touches(v, x)' => u = v
    BY <1>3 DEF Batch, Entry
  <2> QED
    BY <2>1 DEF Entry
<1>5. ASSUME NEW u \in Slots, u # r, NEW x \in Transactions, Touches(u, x)
      PROVE  Untouched(x) /\ Touches(u, x)'
  <2>1. ~Touches(r, x)
    BY <1>5 DEF Batch, Entry
  <2> QED
    BY <2>1, <1>5 DEF Untouched, Touches
<1>6. ASSUME NEW u \in Slots PROVE Asked(u)'
  <2>1. CASE u = r
    BY <2>1, <1>1 DEF Asked
  <2>2. CASE u # r
    <3>1. Asked(u)
      BY DEF Batch
    <3>2. \A x \in Transactions : Touches(u, x)' => Touches(u, x)
      BY <1>3
    <3>3. step[u] # "idle" => t(u) \in Transactions
      BY WorkingEntry
    <3>4. step[u] # "idle" => (Public(t(u)) => Public(t(u))')
      BY <1>2, <2>2, <3>3
    <3>5. step[u] # "idle" /\ Touches(u, t(u)) => Touches(u, t(u))'
      BY <1>2, <1>5, <2>2, <3>3
    <3>6. p(u)' = p(u) /\ (Edition(p(u)) => Edition(p(u))')
      BY <1>1, <2>2 DEF p, Edition
    <3> QED
      BY <1>1, <2>2, <3>1, <3>2, <3>4, <3>5, <3>6 DEF Asked
  <2> QED
    BY <2>1, <2>2
<1>7. ASSUME NEW u \in Slots, NEW x \in Transactions, Touches(u, x)' PROVE Held(u, x)'
  <2>1. u # r /\ Touches(u, x)
    BY <1>3, <1>7
  <2>2. Untouched(x)
    BY <1>5, <2>1
  <2> QED
    BY <2>1, <2>2, <1>1, <1>2 DEF Batch, Held, Untouched
<1> QED
  BY <1>4, <1>6, <1>7 DEF Batch

LEMMA RollbackBatch ==
    ASSUME TInv, Batch, NEW r \in Slots, Rollback(r), Answer(r)
    PROVE  Batch' /\ AllQuiet
<1>1. \A x \in Transactions :
          /\ row'[x] = RolledBack(row[x], r)
          /\ item'[x] = RolledBack(item[x], r)
          /\ tagged'[x] = RolledBack(tagged[x], r)
  BY DEF Rollback
<1>2. Writes(r) /\ Ends(r)
  BY RollbackWrites
<1>3. ASSUME NEW x \in Transactions
      PROVE  Fields(x)' /\ Distinct(Settled(item'[x])) /\ Quiet(x)
  <2>1. Table(row[x]) /\ Table(item[x]) /\ Table(tagged[x])
    BY DEF TInv, Data, Sound
  <2>2. RowFields(row[x]) /\ ItemFields(item[x]) /\ TagFields(tagged[x])
    BY DEF Batch, Entry, Fields
  <2>3. RowFields(row'[x]) /\ ItemFields(item'[x]) /\ TagFields(tagged'[x])
    BY <1>1, <2>2 DEF RolledBack, RowFields, ItemFields, TagFields
  <2>4. Distinct(Settled(item'[x]))
    <3>1. ItemFields(Settled(item[x])) /\ Distinct(Settled(item[x]))
      BY <2>2 DEF ItemFields, Settled, Batch, Entry
    <3>2. Settled(RolledBack(item[x], r)) =
              {[v EXCEPT !.until = IF @ = r THEN None ELSE @] : v \in Settled(item[x])}
      BY <2>1, RollbackSettles
    <3>3. Distinct({[v EXCEPT !.until = IF @ = r THEN None ELSE @] : v \in Settled(item[x])})
      BY <3>1 DEF ItemFields, Distinct
    <3> QED
      BY <3>2, <3>3, <1>1
  <2>5. Quiet(x)
    <3>1. /\ Table(Settled(row[x])) /\ RowFields(Settled(row[x]))
          /\ Table(Settled(item[x])) /\ ItemFields(Settled(item[x]))
          /\ Table(Settled(tagged[x])) /\ TagFields(Settled(tagged[x]))
      BY <2>1, <2>2 DEF Table, Settled, RowFields, ItemFields, TagFields
    <3>2. /\ Copies(Settled(row'[x]), Settled(row[x]))
          /\ Copies(Settled(item'[x]), Settled(item[x]))
          /\ Copies(Settled(tagged'[x]), Settled(tagged[x]))
      BY <1>1, <2>1, RolledBackCopies
    <3> QED
      BY <3>1, <3>2, RowCopies, ItemCopies, TagCopies DEF Quiet
  <2> QED
    BY <2>3, <2>4, <2>5 DEF Fields
<1>4. AllQuiet
  BY <1>3 DEF AllQuiet
<1>5. \A x \in Transactions : ~Touches(r, x) => Untouched(x)
  BY <1>1, CommitAlone DEF TInv, Data, Sound, Touches, Untouched
<1>6. ASSUME NEW x \in Transactions
      PROVE  /\ Public(x) => Public(x)'
             /\ ~Public(x)' => Settled(item'[x]) = {} /\ Settled(tagged'[x]) = {}
  BY <1>3, QuietPublic DEF Batch, Entry
<1> QED
  BY <1>2, <1>3, <1>4, <1>5, <1>6, EndBatch

LEMMA RestartBatch ==
    ASSUME TInv, Batch, Restart
    PROVE  Batch' /\ AllQuiet
<1>1. \A x \in Transactions :
          /\ row'[x] = {[v EXCEPT !.until = None] : v \in Settled(row[x])}
          /\ item'[x] = {[v EXCEPT !.until = None] : v \in Settled(item[x])}
          /\ tagged'[x] = {[v EXCEPT !.until = None] : v \in Settled(tagged[x])}
  BY DEF Restart
<1>2. \A r \in Slots, x \in Transactions : ~Touches(r, x)'
  BY <1>1, RestartTable DEF TInv, Data, Sound, Touches
<1>3. ASSUME NEW x \in Transactions
      PROVE  Fields(x)' /\ Distinct(Settled(item'[x])) /\ Quiet(x)
  <2>1. Table(row[x]) /\ Table(item[x]) /\ Table(tagged[x])
    BY DEF TInv, Data, Sound
  <2>2. RowFields(row[x]) /\ ItemFields(item[x]) /\ TagFields(tagged[x])
    BY DEF Batch, Entry, Fields
  <2>3. RowFields(row'[x]) /\ ItemFields(item'[x]) /\ TagFields(tagged'[x])
    BY <1>1, <2>2 DEF Settled, RowFields, ItemFields, TagFields
  <2>4. Distinct(Settled(item'[x]))
    <3>1. ItemFields(Settled(item[x])) /\ Distinct(Settled(item[x]))
      BY <2>2 DEF ItemFields, Settled, Batch, Entry
    <3>2. Distinct(item'[x])
      BY <3>1, <1>1, DistinctRestarted
    <3> QED
      BY <3>2 DEF Distinct, Settled
  <2>5. Quiet(x)
    <3>1. /\ Table(Settled(row[x])) /\ RowFields(Settled(row[x]))
          /\ Table(Settled(item[x])) /\ ItemFields(Settled(item[x]))
          /\ Table(Settled(tagged[x])) /\ TagFields(Settled(tagged[x]))
      BY <2>1, <2>2 DEF Table, Settled, RowFields, ItemFields, TagFields
    <3>2. /\ Copies(Settled(row'[x]), Settled(row[x]))
          /\ Copies(Settled(item'[x]), Settled(item[x]))
          /\ Copies(Settled(tagged'[x]), Settled(tagged[x]))
      BY <1>1, <2>1, RestartCopies
    <3> QED
      BY <3>1, <3>2, RowCopies, ItemCopies, TagCopies DEF Quiet
  <2> QED
    BY <2>3, <2>4, <2>5 DEF Fields
<1>4. \A x \in Transactions : Entry(x)'
  BY <1>2, <1>3, QuietPublic DEF Batch, Entry
<1>5. \A r \in Slots : Asked(r)'
  BY DEF Restart, Asked
<1> QED
  BY <1>2, <1>3, <1>4, <1>5 DEF Batch, AllQuiet

LEMMA NextEntryBatch ==
    ASSUME TInv, Batch, NEW r \in Slots, step[r] = "reread", Found(r), NextEntry(r),
           UNCHANGED <<row, item, tagged>>
    PROVE  Batch' /\ AllQuiet
<1>1. \A x : Untouched(x)
  BY DEF Untouched
<1>2. AllQuiet /\ \A u, x : Touches(u, x)' <=> Touches(u, x)
  BY <1>1, UntouchedQuiet DEF AllQuiet
<1>3. \A x \in Transactions : Entry(x)'
  BY <1>2 DEF Batch, Entry, Fields, Public
<1>4. /\ req[r].mode = "atomic" /\ Edition(p(r)) /\ p(r).amount # None
      /\ Public(t(r)) /\ Touches(r, t(r)) /\ t(r) \in Transactions
  <2>1. req[r].mode \in EditModes
    BY ModeOfStep DEF EditSteps
  <2> QED
    BY <2>1, WorkingEntry DEF Batch, Asked, EntrySteps, EditSteps, EditModes
<1>5. PICK q, s : Moves(r, q, s) /\ (s = "idle" => ~Opens(r))
  BY <1>4, NextEntryMoves DEF TInv
<1>6. /\ req'[r] = q /\ step'[r] = s /\ q.patch = req[r].patch /\ q.mode = "atomic"
      /\ \A u \in Slots : u # r => req'[u] = req[u] /\ step'[u] = step[u] /\ t(u)' = t(u)
  BY <1>4, <1>5 DEF Moves, TInv, AllFit, Mapped, Opens, t
<1>7. s = "check" \/ (s = "commit" /\ q = req[r])
  <2>1. CASE Len(req[r].todo) > 1
    BY <2>1, <1>6 DEF NextEntry, Goto, TInv, AllFit, Mapped
  <2>2. CASE ~(Len(req[r].todo) > 1)
    BY <2>2, <1>6, <1>4 DEF NextEntry, Goto, TInv, AllFit, Mapped, Opens
  <2> QED
    BY <2>1, <2>2
<1>8. Asked(r)'
  <2>1. p(r)' = p(r) /\ Edition(p(r))'
    BY <1>4, <1>6 DEF p, Edition
  <2>2. s = "commit" => Public(t(r))'
    BY <1>4, <1>6, <1>7 DEF t, Public
  <2> QED
    BY <1>4, <1>6, <1>7, <2>1, <2>2 DEF Asked, EntrySteps, EditSteps
<1>9. ASSUME NEW u \in Slots, u # r PROVE Asked(u)'
  <2>1. Asked(u) /\ p(u)' = p(u) /\ (Edition(p(u)) => Edition(p(u))')
    BY <1>6, <1>9 DEF Batch, p, Edition
  <2>2. Public(t(u))' <=> Public(t(u))
    BY <1>6, <1>9 DEF Public
  <2> QED
    BY <1>2, <1>6, <1>9, <2>1, <2>2 DEF Asked
<1>10. ASSUME NEW x \in Transactions, Touches(r, x) PROVE Held(r, x)'
  <2>1. Edited(row[x], item[x], tagged[x], r, req[r], "reread", x = t(r))
    BY <1>4, <1>10 DEF Batch, Held, Private
  <2>2. /\ LinesDone(item[x], r, q.patch) /\ TagsDone(tagged[x], r, q.patch)
        /\ \A v \in Seen(row[x], r) : ~v.deleted
    <3>1. CASE x = t(r)
      <4>1. LinesDone(item[x], r, q.patch) /\ TagsDone(tagged[x], r, q.patch)
        BY <2>1, <3>1, <1>6 DEF Edited, EntrySteps, EditSteps, LinesAt, TagsAt
      <4>2. \A v \in Seen(row[x], r) : ~v.deleted
        BY <3>1, <1>10 DEF Found, TInv, Data, Sound, OneRow
      <4> QED
        BY <4>1, <4>2
    <3>2. CASE x # t(r)
      BY <2>1, <3>2, <1>6 DEF Edited
    <3> QED
      BY <3>1, <3>2
  <2> QED
    BY <2>1, <2>2, <1>6, <1>7 DEF Held, Private, Edited, EntrySteps, EditSteps
<1>11. ASSUME NEW u \in Slots, u # r, NEW x \in Transactions, Touches(u, x) PROVE Held(u, x)'
  BY <1>6, <1>11 DEF Batch, Held
<1> QED
  BY <1>2, <1>3, <1>8, <1>9, <1>10, <1>11 DEF Batch

LEMMA SummedLines ==
    ASSUME NEW e \in Patches
    PROVE  Summed(e).lines = None \/ Summed(e).lines \in Seq([amount : Nat, note : Notes])
<1>1. e.lines = None \/ e.lines \in Seq([amount : Nat, note : Notes])
  BY EditsAssumption
<1>2. CASE e.lines = None \/ e.lines = <<>>
  BY <1>1, <1>2 DEF Summed
<1>3. CASE ~(e.lines = None \/ e.lines = <<>>)
  <2> DEFINE L == [amount : Nat, note : Notes]
             lines == e.lines
             S == Sum(lines)
             T == Titled(lines, e.note)
  <2>1. lines \in Seq(L) /\ lines # <<>>
    BY <1>1, <1>3
  <2>2. Summed(e) = [e EXCEPT !.amount = S, !.lines = T]
    BY <1>3 DEF Summed
  <2>3. DOMAIN e = {"amount", "note", "lines", "tags"}
    BY EditsAssumption
  <2> HIDE DEF S, T
  <2>4. Summed(e).lines = T
    BY <2>2, <2>3
  <2>5. T \in Seq(L)
    <3>1. CASE e.note # None /\ lines[1].note = Plain
      <4>1. T = [lines EXCEPT ![1].note = e.note]
        BY <3>1 DEF T, Titled
      <4>2. e.note \in Notes
        BY <3>1, EditsAssumption
      <4>3. 1 \in 1..Len(lines) /\ lines[1] \in L
        <5> HIDE DEF lines, L
        <5> QED
          BY <2>1
      <4> DEFINE f == [lines[1] EXCEPT !.note = e.note]
      <4>4. f \in L
        BY <4>2, <4>3
      <4>5. T = [lines EXCEPT ![1] = f]
        BY <4>1
      <4> HIDE DEF f, lines, L
      <4> QED
        BY <2>1, <4>3, <4>4, <4>5
    <3>2. CASE ~(e.note # None /\ lines[1].note = Plain)
      BY <2>1, <3>2 DEF T, Titled
    <3> QED
      BY <3>1, <3>2
  <2> QED
    BY <2>4, <2>5
<1> QED
  BY <1>2, <1>3

LEMMA TakeBatch ==
    ASSUME TInv, Batch, habit = "batch", NEW r \in Slots,
           Create(r) \/ Patch(r) \/ BatchPatch(r) \/ Delete(r)
    PROVE  Batch' /\ AllQuiet
<1>1. ASSUME NEW q, NEW s, Take(r, q, s),
             \/ /\ q.mode = "create" /\ Edition(q.patch) /\ s = "insert" /\ q.n = 1
             \/ q.mode = "delete" /\ s = "find"
             \/ q.mode = "atomic" /\ Edition(q.patch) /\ q.patch.amount # None /\ s = "check"
      PROVE  Batch' /\ AllQuiet
  <2>1. /\ step[r] = "idle" /\ req'[r] = q /\ step'[r] = s
        /\ \A u \in Slots : u # r => req'[u] = req[u] /\ step'[u] = step[u]
        /\ UNCHANGED <<row, item, tagged>>
    BY <1>1 DEF Take, Goto, TInv, AllFit, Mapped
  <2>2. AllQuiet /\ \A u, x : Touches(u, x)' <=> Touches(u, x)
    BY <2>1 DEF AllQuiet, Quiet, Touches
  <2>3. \A x \in Transactions : ~Touches(r, x)
    BY <2>1 DEF TInv, Holders
  <2>4. \A x \in Transactions : Entry(x)'
    BY <2>1, <2>2 DEF Batch, Entry, Fields, Public
  <2>5. Asked(r)'
    BY <1>1, <2>1, <2>2, <2>3 DEF Asked, p, Edition, EntrySteps, EditSteps
  <2>6. ASSUME NEW u \in Slots, u # r PROVE Asked(u)'
    <3>1. Asked(u) /\ p(u)' = p(u) /\ (Edition(p(u)) => Edition(p(u))') /\ t(u)' = t(u)
      BY <2>1, <2>6 DEF Batch, p, Edition, t
    <3>2. Public(t(u))' <=> Public(t(u))
      BY <2>1, <3>1 DEF Public
    <3> QED
      BY <2>1, <2>2, <2>6, <3>1, <3>2 DEF Asked
  <2>7. ASSUME NEW u \in Slots, NEW x \in Transactions, Touches(u, x) PROVE Held(u, x)'
    BY <2>1, <2>3, <2>7 DEF Batch, Held, t
  <2> QED
    BY <2>2, <2>4, <2>5, <2>6, <2>7 DEF Batch
<1>2. \A m, b, e : /\ Request(m, b, e).mode = m /\ Request(m, b, e).patch = e
                   /\ Request(m, b, e).n = 1 /\ IsRequest(Request(m, b, e))
  BY DEF Request, IsRequest
<1>3. CASE Create(r)
  <2>1. PICK q \in CreateRequests : Take(r, [q EXCEPT !.patch = Summed(@)], "insert")
    BY <1>3 DEF Create
  <2>2. PICK x \in Transactions, e \in Patches : q = Request("create", <<x>>, e)
    BY <2>1 DEF CreateRequests
  <2> DEFINE u == [q EXCEPT !.patch = Summed(@)]
  <2>3. u.mode = "create" /\ u.n = 1 /\ u.patch = Summed(e)
    BY <2>2, <1>2 DEF IsRequest
  <2>4. Summed(e).lines = None \/ Summed(e).lines \in Seq([amount : Nat, note : Notes])
    BY <2>2, SummedLines
  <2>5. Edition(Summed(e))
    BY <2>4 DEF Edition
  <2> QED
    BY <2>1, <2>3, <2>5, <1>1
<1>4. CASE BatchPatch(r)
  <2>1. PICK q \in BatchRequests : q.mode = "atomic" /\ Take(r, q, "check")
    BY <1>4 DEF BatchPatch
  <2>2. PICK m \in {"partial", "atomic"}, b \in Seq(Known), e \in Edits : q = Request(m, b, e)
    BY <2>1 DEF BatchRequests
  <2>3. Edition(e) /\ e.amount # None
    BY EditsAssumption DEF Edits, Edition
  <2> QED
    BY <2>1, <2>2, <2>3, <1>1, <1>2
<1>5. CASE Delete(r)
  <2>1. PICK q \in DeleteRequests : Take(r, q, "find")
    BY <1>5 DEF Delete
  <2>2. PICK x \in Known : q = Request("delete", <<x>>, NoPatch)
    BY <2>1 DEF DeleteRequests
  <2> QED
    BY <2>1, <2>2, <1>1, <1>2
<1> QED
  BY <1>3, <1>4, <1>5 DEF Patch

-----------------------------------------------------------------------------
(* The statements of a batch *)

LEMMA FailBatch ==
    ASSUME TInv, Batch, NEW r \in Slots, step[r] # "idle", Fail(r)
    PROVE  Batch' /\ AllQuiet
  BY RollbackBatch DEF Fail, Batch, Asked

\* What is known of an edit that is at work on an entry.
LEMMA Editing ==
    ASSUME TInv, Batch, NEW r \in Slots, step[r] # "idle", NEW y, y = t(r),
           req[r].mode \in EditModes
    PROVE  /\ req[r].mode = "atomic" /\ Edition(p(r)) /\ p(r).amount # None
           /\ y \in Transactions /\ Sound(y) /\ Entry(y)
           /\ step[r] # "check" => Public(y)
           /\ Touches(r, y) =>
                  /\ Edited(row[y], item[y], tagged[y], r, req[r], step[r], TRUE)
                  /\ Exclusive(r)
           /\ step[r] \in EntrySteps => Touches(r, y)
<1>1. y \in Transactions /\ Entry(y) /\ Sound(y)
  BY WorkingEntry DEF Batch, TInv, Data
<1>2. Touches(r, y) => /\ Edited(row[y], item[y], tagged[y], r, req[r], step[r], TRUE)
                       /\ Exclusive(r)
  BY <1>1 DEF Batch, Held, Private, EditModes, Entry, Exclusive
<1> QED
  BY <1>1, <1>2 DEF Batch, Asked, EditModes

LEMMA EnterTags ==
    ASSUME NEW T, NEW r, NEW q, NEW s, ~Owns(r, T) \/ TagsDone(T, r, q.patch),
           \/ s = AfterRow(q.patch) \/ s = AfterNote(q.patch) \/ s = AfterLines(q.patch)
    PROVE  TagsAt(T, r, q, s)
  BY DEF TagsAt, TagsDone, AfterRow, AfterNote, AfterLines

LEMMA EnterLines ==
    ASSUME NEW V, NEW r, NEW q, NEW s
    PROVE  /\ /\ s = AfterRow(q.patch) /\ q.n = 1
              /\ ~Owns(r, V) \/ LinesDone(V, r, q.patch)
              => LinesAt(V, r, q, s)
           /\ /\ s = AfterNote(q.patch) /\ q.n = 1
              /\ q.patch.lines = None => LinesDone(V, r, q.patch)
              => LinesAt(V, r, q, s)
           /\ s = AfterLines(q.patch) /\ LinesDone(V, r, q.patch) => LinesAt(V, r, q, s)
  BY DEF LinesAt, LinesDone, AfterRow, AfterNote, AfterLines

\* What becomes of an edit's request.
LEMMA EditRequest ==
    ASSUME TInv, Batch, NEW r \in Slots, step[r] # "idle", req[r].mode \in EditModes,
           NEW q, NEW s, Moves(r, q, s), s # "idle", NEW y \in Transactions, y = t(r),
           q.todo = req[r].todo, Public(y)', s \in EntrySteps => Touches(r, y)'
    PROVE  Asked(r)'
<1>1. req'[r] = q /\ step'[r] = s /\ q.mode = "atomic" /\ p(r)' = p(r) /\ t(r)' = y
  BY Editing DEF Moves, TInv, AllFit, Mapped, p, t
<1>2. Edition(p(r))'
  BY <1>1, Editing DEF Edition
<1> QED
  BY <1>1, <1>2, Editing DEF Asked

LEMMA CheckBatch ==
    ASSUME TInv, Batch, NEW r \in Slots, Check(r)
    PROVE  Batch' /\ AllQuiet
<1>1. step[r] = "check" /\ req[r].mode \in EditModes
  BY ModeOfStep DEF Check, EditSteps
<1>2. CASE ~Found(r)
  BY <1>1, <1>2, FailBatch DEF Check
<1>3. CASE Found(r)
  <2> DEFINE q == [req[r] EXCEPT !.seen = {}, !.n = 1]
  <2>0. PICK y \in Transactions : y = t(r)
    BY <1>1, WorkingEntry
  <2>1. AfterCheck(p(r)) = "row" /\ Sound(y)
    BY <1>1, <2>0, Editing DEF AfterCheck
  <2>2. Moves(r, q, "row") /\ UNCHANGED <<row, item, tagged>>
    BY <1>1, <1>3, <2>1, ProceedMoves DEF Check, TInv, EditSteps, EditModes
  <2>3. Turned(req[r], q, req[r].todo, {}, 1)
    BY RequestParts DEF TInv, AllFit, Fits
  <2>4. Writes(r) /\ \A x : Untouched(x) /\ Quiet(x) /\ (Touches(r, x)' <=> Touches(r, x))
    BY <2>2, NoWrites, UntouchedQuiet DEF Untouched
  <2>5. Public(y)
    <3>1. PICK v \in Seen(row[y], r) : TRUE
      BY <1>3, <2>0 DEF Found
    <3>2. CASE v.by = None
      BY <3>1, <3>2 DEF Seen, Settled, Public
    <3>3. CASE v.by = r
      <4>1. Touches(r, y)
        BY <3>1, <3>3 DEF Touches, Owns, Seen
      <4> QED
        BY <1>1, <2>0, <4>1, Editing DEF Edited, Public
    <3> QED
      BY <3>1, <3>2, <3>3 DEF Seen
  <2>6. Asked(r)'
    <3>1. Public(y)'
      BY <2>2, <2>5 DEF Public
    <3>2. q.todo = req[r].todo
      BY <2>3 DEF Turned
    <3> HIDE DEF q
    <3> QED
      BY <1>1, <2>0, <2>2, <3>1, <3>2, EditRequest DEF EntrySteps
  <2>7. Touches(r, y) => Private(row[y], item[y], tagged[y], r, q, "row", TRUE)
    <3>1. Touches(r, y) => Edited(row[y], item[y], tagged[y], r, req[r], "check", TRUE)
      BY <1>1, <2>0, Editing
    <3>2. Touches(r, y) => Edited(row[y], item[y], tagged[y], r, q, "row", TRUE)
      BY <3>1, <2>3 DEF Edited, EntrySteps, EditSteps, Turned
    <3> QED
      BY <3>2, <1>1, <2>0, <2>3, Editing DEF Private, Turned
  <2>8. Fields(y)' /\ Distinct(Settled(item'[y]))
    BY <2>0, <2>2 DEF Batch, Entry, Fields
  <2>9. q.todo = req[r].todo
    BY <2>3 DEF Turned
  <2>10. Private(row'[y], item'[y], tagged'[y], r, q, "row", TRUE) \/ ~Touches(r, y)'
    BY <2>2, <2>4, <2>7
  <2> HIDE DEF q
  <2> QED
    BY <1>1, <2>0, <2>2, <2>4, <2>6, <2>8, <2>9, <2>10, StatementBatch
<1> QED
  BY <1>2, <1>3

\* A statement of an edit, before another about the same entry.
LEMMA EditBatch ==
    ASSUME TInv, Batch, NEW r \in Slots, step[r] \notin {"idle", "check"},
           req[r].mode \in EditModes, Writes(r),
           NEW q, NEW s \in EntrySteps, Moves(r, q, s), q.todo = req[r].todo,
           NEW y \in Transactions, y = t(r),
           \A x \in Transactions : x # y => Untouched(x),
           Exclusive(r), Quiet(y), Fields(y)', Distinct(Settled(item'[y])), Touches(r, y)',
           Edited(row'[y], item'[y], tagged'[y], r, q, s, TRUE)
    PROVE  Batch' /\ AllQuiet
<1>1. s # "idle"
  BY DEF EntrySteps, EditSteps
<1>2. req[r].mode = "atomic" /\ Public(y)
  BY Editing
<1>3. Public(y)'
  BY <1>2, QuietPublic
<1>4. Asked(r)'
  BY <1>1, <1>3, EditRequest
<1>5. q.mode = "atomic"
  BY <1>1, <1>2 DEF Moves
<1>6. Private(row'[y], item'[y], tagged'[y], r, q, s, TRUE)
  BY <1>5 DEF Private
<1> QED
  BY <1>1, <1>4, <1>6, StatementBatch

\* The row of the entry of r is written.
LEMMA RowRenewed ==
    ASSUME TInv, Batch, NEW r \in Slots, step[r] # "idle", Opens(r),
           NEW y \in Transactions, y = t(r), Public(y), Lockers(row[y], r) = {},
           NEW new, Renewal(row[y], r, new), RowFields(new),
           SetRow(r, new), UNCHANGED <<item, tagged>>
    PROVE  /\ Writes(r) /\ Exclusive(r) /\ Quiet(y) /\ Fields(y)' /\ Distinct(Settled(item'[y]))
           /\ \A x \in Transactions : x # y => Untouched(x)
           /\ Settled(row'[y]) # {} /\ \A v \in Settled(row'[y]) : v.until = r
           /\ Seen(row'[y], r) = {[v EXCEPT !.by = r] : v \in new}
           /\ Seen(row[y], r) # {}
<1> DEFINE V == row[y]
           W == Rewritten(V, r, new)
<1>1. Sound(y) /\ Entry(y)
  BY DEF TInv, Data, Batch
<1>2. row' = [row EXCEPT ![y] = W] /\ row'[y] = W
  BY DEF SetRow, OldRow, Put, Result, Rewritten, TInv, AllFit, Mapped
<1>3. Writes(r)
  BY SetRowWrites
<1>4. \A v \in V : v.until \in {None, r}
  BY DEF Lockers
<1>5. Exclusive(r)
  <2> SUFFICES ASSUME NEW s \in Slots, Touches(s, y), s # r PROVE FALSE
    BY DEF Exclusive
  <2>1. PICK v \in Settled(V) : TRUE
    BY DEF Public
  <2>2. Private(V, item[y], tagged[y], s, req[s], step[s], y = t(s))
    BY DEF Batch, Held
  <2>3. \A w \in Settled(V) : w.until = s
    BY <2>1, <2>2 DEF Private, Edited, Created, Removing
  <2> QED
    BY <2>1, <2>3, <1>4, NotNone DEF Settled
<1>6. Seen(V, r) # {}
  <2>1. PICK v \in Settled(V) : TRUE
    BY DEF Public
  <2>2. CASE v.until = None
    BY <2>1, <2>2, NotNone DEF Settled, Seen
  <2>3. CASE v.until = r
    <3>1. Touches(r, y)
      BY <2>1, <2>3 DEF Touches, Owns, Settled
    <3>2. Rows(Seen(V, r)) = {<<w.amount, TRUE>> : w \in Settled(V)} => Seen(V, r) # {}
      <4>1. <<v.amount, TRUE>> \in {<<w.amount, TRUE>> : w \in Settled(V)}
        BY <2>1
      <4> QED
        BY <4>1 DEF Rows
    <3>3. Private(V, item[y], tagged[y], r, req[r], step[r], y = t(r))
      BY <3>1 DEF Batch, Held
    <3> QED
      BY <2>1, <3>2, <3>3 DEF Private, Edited, Created, Removing
  <2> QED
    BY <2>1, <2>2, <2>3, <1>4 DEF Settled
<1>7. /\ Settled(W) = {IF v \in Seen(V, r) THEN [v EXCEPT !.until = r] ELSE v : v \in Settled(V)}
      /\ Seen(W, r) = {[v EXCEPT !.by = r] : v \in new}
  BY <1>1, RewrittenRow DEF Sound
<1>8. \A v \in Settled(W) : v.until = r
  <2>1. \A v \in Settled(V) : DOMAIN v = {"amount", "deleted", "by", "until"}
    BY <1>1 DEF Entry, Fields, RowFields, Settled
  <2> QED
    BY <2>1, <1>4, <1>7 DEF Seen, Settled
<1>9. Settled(W) # {}
  <2>1. PICK v \in Settled(V) : TRUE
    BY DEF Public
  <2> DEFINE g(w) == IF w \in Seen(V, r) THEN [w EXCEPT !.until = r] ELSE w
  <2>2. Settled(W) = {g(w) : w \in Settled(V)}
    BY <1>7
  <2> HIDE DEF g
  <2> QED
    BY <2>1, <2>2
<1>10. RowFields(W)
  <2>1. \A v \in V : DOMAIN v = {"amount", "deleted", "by", "until"} /\ v.deleted \in BOOLEAN
    BY <1>1 DEF Entry, Fields, RowFields
  <2>2. \A v \in new : DOMAIN v = {"amount", "deleted", "by", "until"} /\ v.deleted \in BOOLEAN
    BY DEF RowFields
  <2> QED
    BY <2>1, <2>2 DEF Rewritten, Removed, RowFields, Seen
<1>11. Rows(Settled(W)) = Rows(Settled(V))
  <2> DEFINE N == {[v EXCEPT !.by = r] : v \in new}
  <2>1. \A v \in N : v.by = r
    BY DEF RowFields
  <2>2. Seen(V, r) \subseteq V /\ W = Removed(V, Seen(V, r), r) \cup N
    BY DEF Seen, Rewritten
  <2>3. Table(V) /\ Table(Settled(V)) /\ RowFields(Settled(V))
    BY <1>1 DEF Sound, Table, Settled, Entry, Fields, RowFields
  <2> HIDE DEF N
  <2>4. Copies(Settled(W), Settled(V))
    BY <2>1, <2>2, <2>3, RemovedCopies
  <2> QED
    BY <2>3, <2>4, RowCopies
<1>12. Quiet(y) /\ Fields(y)' /\ Distinct(Settled(item'[y]))
  BY <1>1, <1>2, <1>10, <1>11 DEF Quiet, Entry, Fields
<1>13. \A x \in Transactions : x # y => Untouched(x)
  BY <1>2 DEF Untouched
<1> QED
  BY <1>2, <1>3, <1>5, <1>6, <1>7, <1>8, <1>9, <1>12, <1>13

LEMMA SameRows ==
    ASSUME NEW S, NEW U, Rows(S) = Rows(U)
    PROVE  \A v \in S : \E w \in U : v.amount = w.amount /\ v.deleted = w.deleted
<1> SUFFICES ASSUME NEW v \in S
             PROVE  \E w \in U : v.amount = w.amount /\ v.deleted = w.deleted
  OBVIOUS
<1>1. <<v.amount, v.deleted>> \in Rows(U)
  BY DEF Rows
<1>2. PICK w \in U : <<v.amount, v.deleted>> = <<w.amount, w.deleted>>
  BY <1>1 DEF Rows
<1> QED
  BY <1>2

LEMMA UpdateRowBatch ==
    ASSUME TInv, Batch, NEW r \in Slots, UpdateRow(r)
    PROVE  Batch' /\ AllQuiet
<1>1. step[r] = "row" /\ req[r].mode \in EditModes
  BY ModeOfStep DEF UpdateRow, EditSteps
<1>2. CASE ~AcceptsAmount(p(r).amount)
  BY <1>1, <1>2, FailBatch DEF UpdateRow
<1>3. CASE AcceptsAmount(p(r).amount)
  <2>0. PICK y \in Transactions : y = t(r)
    BY <1>1, WorkingEntry
  <2> DEFINE q == [req[r] EXCEPT !.seen = {}, !.n = 1]
             s == AfterRow(p(r))
             new == {[v EXCEPT !.amount = p(r).amount] : v \in Seen(row[y], r)}
  <2>1. /\ Lockers(row[y], r) = {} /\ SetRow(r, new) /\ Proceed(r, s)
        /\ UNCHANGED <<item, tagged>>
    BY <1>3, <2>0 DEF UpdateRow, OldRow
  <2>2. req[r].mode = "atomic" /\ Sound(y) /\ Entry(y) /\ Public(y) /\ Opens(r)
    BY <1>1, <2>0, Editing DEF Opens
  <2>3. Renewal(row[y], r, new)
    BY <1>1, <2>0, <2>1, FieldRenewal DEF OldRow
  <2>4. \A v \in Seen(row[y], r) :
            DOMAIN v = {"amount", "deleted", "by", "until"} /\ v.deleted \in BOOLEAN
    BY <2>2 DEF Entry, Fields, RowFields, Seen
  <2>5. RowFields(new) /\ \A v \in new : v.amount = p(r).amount
    BY <2>4 DEF RowFields
  <2>6. Moves(r, q, s) /\ s \in EntrySteps
    <3>1. s \in EditSteps
      BY StepsOfEdit
    <3>2. Moves(r, q, s)
      BY <1>1, <2>1, <3>1, ProceedMoves DEF TInv, EditModes
    <3> QED
      BY <3>1, <3>2 DEF AfterRow, AfterNote, AfterLines, EntrySteps
  <2>7. Turned(req[r], q, req[r].todo, {}, 1)
    BY RequestParts DEF TInv, AllFit, Fits
  <2>8. q.todo = req[r].todo /\ q.patch = p(r) /\ q.n = 1
    BY <2>7 DEF Turned, p
  <2> HIDE DEF q, s, new
  <2>9. /\ Writes(r) /\ Exclusive(r) /\ Quiet(y) /\ Fields(y)' /\ Distinct(Settled(item'[y]))
        /\ \A x \in Transactions : x # y => Untouched(x)
        /\ Settled(row'[y]) # {} /\ \A v \in Settled(row'[y]) : v.until = r
        /\ Seen(row'[y], r) = {[v EXCEPT !.by = r] : v \in new}
        /\ Seen(row[y], r) # {}
    BY <1>1, <2>0, <2>1, <2>2, <2>3, <2>5, RowRenewed
  <2>10. Seen(row'[y], r) # {} /\ \A v \in Seen(row'[y], r) : v.amount = q.patch.amount
    <3>1. new # {}
      BY <2>9 DEF new
    <3>2. \A v \in new : [v EXCEPT !.by = r].amount = v.amount
      BY <2>5 DEF RowFields
    <3>3. Seen(row'[y], r) = {[v EXCEPT !.by = r] : v \in new}
      BY <2>9
    <3>4. \A v \in new : [v EXCEPT !.by = r].amount = q.patch.amount
      BY <2>5, <2>8, <3>2
    <3> QED
      BY <3>1, <3>3, <3>4
  <2>11. /\ Distinct(Seen(item[y], r))
         /\ ~Owns(r, item[y]) \/ LinesDone(item[y], r, q.patch)
         /\ ~Owns(r, tagged[y]) \/ TagsDone(tagged[y], r, q.patch)
    <3>1. CASE Touches(r, y)
      BY <1>1, <2>0, <2>8, <3>1, Editing DEF Edited, EntrySteps, p
    <3>2. CASE ~Touches(r, y)
      BY <2>2, <3>2, CommitAlone DEF Touches, Sound, Entry
    <3> QED
      BY <3>1, <3>2
  <2>12. LinesAt(item[y], r, q, s) /\ TagsAt(tagged[y], r, q, s)
    BY <2>8, <2>11, EnterLines, EnterTags DEF s
  <2>13. Edited(row'[y], item'[y], tagged'[y], r, q, s, TRUE)
    <3>1. \A v \in Settled(row[y]), w \in Seen(row[y], r) : v.deleted = w.deleted
      <4>1. CASE Touches(r, y)
        BY <1>1, <2>0, <4>1, Editing DEF Edited
      <4>2. CASE ~Touches(r, y)
        BY <2>2, <4>2, CommitAlone DEF Touches, Sound, OneRow
      <4> QED
        BY <4>1, <4>2
    <3>2. \A v \in Settled(row'[y]) : \E u \in Settled(row[y]) : v.deleted = u.deleted
      BY <2>9, SameRows DEF Quiet
    <3>3. \A w \in Seen(row'[y], r) : \E u \in Seen(row[y], r) : w.deleted = u.deleted
      <4> DEFINE f(v) == [[v EXCEPT !.amount = p(r).amount] EXCEPT !.by = r]
      <4>1. \A v \in Seen(row[y], r) : f(v).deleted = v.deleted
        BY <2>4
      <4>2. \A w \in Seen(row'[y], r) : \E v \in Seen(row[y], r) : w = f(v)
        BY <2>9 DEF new
      <4> HIDE DEF f
      <4> QED
        BY <4>1, <4>2
    <3>4. \A v \in Settled(row'[y]), w \in Seen(row'[y], r) : v.deleted = w.deleted
      BY <3>1, <3>2, <3>3
    <3> QED
      BY <2>1, <2>6, <2>9, <2>10, <2>11, <2>12, <3>4 DEF Edited
  <2>14. Touches(r, y)'
    <3>1. PICK v \in Settled(row'[y]) : v.until = r
      BY <2>9
    <3> QED
      BY <3>1 DEF Touches, Owns, Settled
  <2> QED
    BY <1>1, <2>0, <2>6, <2>8, <2>9, <2>13, <2>14, EditBatch
<1> QED
  BY <1>2, <1>3

LEMMA SameAmounts ==
    ASSUME NEW S, NEW U, Rows(S) = Rows(U)
    PROVE  {<<v.amount, TRUE>> : v \in S} = {<<v.amount, TRUE>> : v \in U}
<1>1. /\ \A v \in S : \E w \in U : v.amount = w.amount
      /\ \A v \in U : \E w \in S : v.amount = w.amount
  BY SameRows
<1> QED
  BY <1>1

LEMMA DeleteFindBatch ==
    ASSUME TInv, Batch, NEW r \in Slots, DeleteFind(r)
    PROVE  Batch' /\ AllQuiet
<1>1. step[r] = "find" /\ req[r].mode = "delete" /\ Fits(req[r], step[r])
  BY ModeOfStep DEF DeleteFind
<1>2. CASE ~Found(r)
  BY <1>1, <1>2, FailBatch DEF DeleteFind
<1>3. CASE Found(r)
  <2>1. PICK y \in Transactions : y = t(r)
    BY <1>1, WorkingEntry
  <2>2. \A x \in Transactions : ~Touches(r, x)
    BY <1>1 DEF Batch, Asked
  <2>3. Sound(y) /\ Entry(y)
    BY DEF TInv, Data, Batch
  <2>4. Public(y)
    BY <1>3, <2>1, <2>2, <2>3, CommitAlone DEF Found, Sound, Touches, Public
  <2>5. Moves(r, req[r], "delete")
    BY <1>1, <1>3 DEF DeleteFind, Goto, Moves, TInv, AllFit, Mapped, Fits, EditSteps, NoRequest, Request
  <2>6. UNCHANGED <<row, item, tagged>> /\ Writes(r)
    BY <1>3, NoWrites DEF DeleteFind
  <2>7. \A x : Untouched(x) /\ Quiet(x) /\ (Touches(r, x)' <=> Touches(r, x))
    BY <2>6, UntouchedQuiet DEF Untouched
  <2>8. Asked(r)'
    <3>1. req'[r] = req[r] /\ step'[r] = "delete" /\ t(r)' = y
      BY <2>1, <2>5 DEF Moves, TInv, AllFit, Mapped, t
    <3>2. Public(y)'
      BY <2>4, <2>6 DEF Public
    <3> QED
      BY <1>1, <2>2, <2>7, <3>1, <3>2 DEF Asked
  <2>9. Fields(y)' /\ Distinct(Settled(item'[y]))
    BY <2>3, <2>6 DEF Entry, Fields
  <2> QED
    BY <1>1, <2>1, <2>2, <2>5, <2>6, <2>7, <2>8, <2>9, StatementBatch
<1> QED
  BY <1>2, <1>3

LEMMA DeleteRowBatch ==
    ASSUME TInv, Batch, NEW r \in Slots, DeleteRow(r)
    PROVE  Batch' /\ AllQuiet
<1>1. step[r] = "delete" /\ req[r].mode = "delete" /\ Fits(req[r], step[r]) /\ Opens(r)
  BY ModeOfStep DEF DeleteRow, Opens
<1>2. PICK y \in Transactions : y = t(r)
  BY <1>1, WorkingEntry
<1> DEFINE new == {[v EXCEPT !.deleted = TRUE] : v \in Seen(row[y], r)}
<1>3. Lockers(row[y], r) = {} /\ SetRow(r, new) /\ UNCHANGED <<item, tagged, req>>
  BY <1>2 DEF DeleteRow, OldRow
<1>4. Sound(y) /\ Entry(y) /\ Public(y) /\ \A x \in Transactions : ~Touches(r, x)
  BY <1>1, <1>2 DEF TInv, Data, Batch, Asked
<1>5. Renewal(row[y], r, new)
  BY <1>1, <1>2, <1>3, FieldRenewal DEF OldRow
<1>6. \A v \in Seen(row[y], r) : DOMAIN v = {"amount", "deleted", "by", "until"}
  BY <1>4 DEF Entry, Fields, RowFields, Seen
<1>7. RowFields(new)
  BY <1>6 DEF RowFields
<1>8. Moves(r, req[r], "commit")
  BY <1>1 DEF DeleteRow, Goto, Moves, TInv, AllFit, Mapped, Fits, EditSteps, NoRequest, Request
<1> HIDE DEF new
<1>9. /\ Writes(r) /\ Exclusive(r) /\ Quiet(y) /\ Fields(y)' /\ Distinct(Settled(item'[y]))
      /\ \A x \in Transactions : x # y => Untouched(x)
      /\ Settled(row'[y]) # {} /\ \A v \in Settled(row'[y]) : v.until = r
      /\ Seen(row'[y], r) = {[v EXCEPT !.by = r] : v \in new}
  BY <1>1, <1>2, <1>3, <1>4, <1>5, <1>7, RowRenewed
<1>10. Rows(Seen(row'[y], r)) = {<<v.amount, TRUE>> : v \in Settled(row'[y])}
  <2>1. Seen(row[y], r) = Settled(row[y])
    BY <1>4, CommitAlone DEF Sound, Touches
  <2> DEFINE d(v) == [v EXCEPT !.deleted = TRUE]
             b(v) == [v EXCEPT !.by = r]
             f(v) == b(d(v))
  <2>2. \A v \in Settled(row[y]) : f(v).amount = v.amount /\ f(v).deleted = TRUE
    BY <1>6, <2>1
  <2>3. Seen(row'[y], r) = {f(v) : v \in Settled(row[y])}
    <3>1. Seen(row'[y], r) = {b(u) : u \in new} /\ new = {d(v) : v \in Settled(row[y])}
      BY <1>9, <2>1 DEF new
    <3> HIDE DEF b, d
    <3> QED
      BY <3>1
  <2> HIDE DEF f
  <2>4. Rows(Seen(row'[y], r)) = {<<v.amount, TRUE>> : v \in Settled(row[y])}
    <3>1. Rows(Seen(row'[y], r)) = {<<f(v).amount, f(v).deleted>> : v \in Settled(row[y])}
      BY <2>3 DEF Rows
    <3> QED
      BY <2>2, <3>1
  <2>5. Rows(Settled(row'[y])) = Rows(Settled(row[y]))
    BY <1>9 DEF Quiet
  <2>6. {<<v.amount, TRUE>> : v \in Settled(row[y])} = {<<v.amount, TRUE>> : v \in Settled(row'[y])}
    BY <2>5, SameAmounts
  <2> QED
    BY <2>4, <2>6
<1>11. Removing(row'[y], item'[y], tagged'[y], r, req[r], "commit")
  BY <1>3, <1>4, <1>9, <1>10 DEF Removing, Touches
<1>12. Private(row'[y], item'[y], tagged'[y], r, req[r], "commit", TRUE)
  BY <1>1, <1>11 DEF Private
<1>13. Asked(r)'
  <2>1. req'[r] = req[r] /\ step'[r] = "commit"
    BY <1>8 DEF Moves, TInv, AllFit, Mapped
  <2> QED
    BY <1>1, <2>1 DEF Asked
<1> QED
  BY <1>1, <1>2, <1>8, <1>9, <1>12, <1>13, StatementBatch

\* What is known of the entry an edit is writing.
LEMMA AtEntry ==
    ASSUME TInv, Batch, NEW r \in Slots, step[r] \in EntrySteps, req[r].mode \in EditModes,
           NEW y, y = t(r)
    PROVE  /\ req[r].mode = "atomic" /\ Opens(r) /\ Edition(p(r)) /\ y \in Transactions
           /\ Edited(row[y], item[y], tagged[y], r, req[r], step[r], TRUE)
           /\ LinesAt(item[y], r, req[r], step[r]) /\ TagsAt(tagged[y], r, req[r], step[r])
           /\ Exclusive(r) /\ Entry(y) /\ Sound(y)
           /\ LinesOf(item[y], r) /\ Alone(tagged[y], r)
<1>1. step[r] # "idle"
  BY DEF EntrySteps, EditSteps
<1>2. /\ req[r].mode = "atomic" /\ Edition(p(r)) /\ y \in Transactions /\ Sound(y) /\ Entry(y)
      /\ Edited(row[y], item[y], tagged[y], r, req[r], step[r], TRUE)
      /\ Exclusive(r)
  BY <1>1, Editing
<1>3. /\ \A s \in Slots : Owns(s, item[y]) => s = r
      /\ \A s \in Slots : Owns(s, tagged[y]) => s = r
  BY <1>2 DEF Exclusive, Touches
<1>4. Alone(item[y], r) /\ Alone(tagged[y], r)
  BY <1>2, <1>3, AloneTable DEF Sound
<1>5. LinesOf(item[y], r)
  BY <1>2, <1>4 DEF LinesOf, Edited, Entry, Fields, Sound
<1> QED
  BY <1>2, <1>4, <1>5 DEF Edited, Opens

\* A statement that leaves the row of the entry alone.
LEMMA EntryStep ==
    ASSUME TInv, Batch, NEW r \in Slots, step[r] \in EntrySteps, req[r].mode \in EditModes,
           Writes(r), NEW q, NEW s \in EntrySteps, Moves(r, q, s), q.todo = req[r].todo,
           NEW y \in Transactions, y = t(r), UNCHANGED row,
           \A x \in Transactions : x # y => item'[x] = item[x] /\ tagged'[x] = tagged[x],
           ItemFields(item'[y]), Distinct(Settled(item'[y])), Distinct(Seen(item'[y], r)),
           TagFields(tagged'[y]),
           Content(Settled(item'[y])) = Content(Settled(item[y])),
           TagsOf(Settled(tagged'[y])) = TagsOf(Settled(tagged[y])),
           LinesAt(item'[y], r, q, s), TagsAt(tagged'[y], r, q, s)
    PROVE  Batch' /\ AllQuiet
<1>1. /\ Edited(row[y], item[y], tagged[y], r, req[r], step[r], TRUE)
      /\ Exclusive(r) /\ Entry(y)
  BY AtEntry
<1>2. step[r] \notin {"idle", "check"} /\ s # "idle"
  BY DEF EntrySteps, EditSteps
<1>3. q.patch = req[r].patch
  BY <1>2 DEF Moves
<1>4. Edited(row'[y], item'[y], tagged'[y], r, q, s, TRUE)
  BY <1>1, <1>3 DEF Edited
<1>5. Touches(r, y)'
  BY <1>4 DEF Edited, Touches, Owns, Settled
<1>6. \A x \in Transactions : x # y => Untouched(x)
  BY DEF Untouched
<1>7. Quiet(y) /\ Fields(y)'
  BY <1>1 DEF Quiet, Entry, Fields
<1> QED
  BY <1>1, <1>2, <1>4, <1>5, <1>6, <1>7, EditBatch

\* What becomes of the request of an edit.
LEMMA SeenTurned ==
    ASSUME TInv, NEW r \in Slots, step[r] # "idle", req[r].mode \in EditModes,
           NEW s \in EditSteps, Goto(r, s), NEW S, req' = [req EXCEPT ![r].seen = S]
    PROVE  \E q : Moves(r, q, s) /\ Turned(req[r], q, req[r].todo, S, req[r].n)
<1> DEFINE q == [req[r] EXCEPT !.seen = S]
<1>1. req' = [req EXCEPT ![r] = q] /\ step' = [step EXCEPT ![r] = s]
  BY DEF TInv, AllFit, Mapped, Goto
<1>2. Turned(req[r], q, req[r].todo, S, req[r].n)
  BY RequestParts DEF TInv, AllFit, Fits
<1>3. Fits(req[r], s)
  BY EditFits DEF TInv, AllFit, Fits, EditModes
<1>4. Fits(q, s)
  <2>1. s # "idle"
    BY DEF EditSteps
  <2> QED
    BY <1>2, <1>3, <2>1 DEF Fits, Turned
<1>5. Moves(r, q, s)
  BY <1>1, <1>2, <1>4 DEF Moves, Turned, EditSteps
<1> QED
  BY <1>2, <1>5

LEMMA ProceedTurned ==
    ASSUME TInv, NEW r \in Slots, step[r] # "idle", req[r].mode \in EditModes,
           NEW s \in EditSteps, Proceed(r, s)
    PROVE  \E q : Moves(r, q, s) /\ Turned(req[r], q, req[r].todo, {}, 1)
<1> DEFINE q == [req[r] EXCEPT !.seen = {}, !.n = 1]
<1>1. Moves(r, q, s)
  BY ProceedMoves DEF TInv, EditModes
<1>2. Turned(req[r], q, req[r].todo, {}, 1)
  BY RequestParts DEF TInv, AllFit, Fits
<1> QED
  BY <1>1, <1>2

LEMMA AfterSteps ==
    ASSUME NEW q
    PROVE  /\ AfterLines(q) \in EntrySteps /\ AfterNote(q) \in EntrySteps
           /\ AfterRow(q) \in EntrySteps
  BY DEF AfterLines, AfterNote, AfterRow, EntrySteps, EditSteps

LEMMA FirstBatch ==
    ASSUME TInv, Batch, habit = "batch", NEW r \in Slots, First(r)
    PROVE  Batch' /\ AllQuiet
<1>1. /\ step[r] = "first" /\ req[r].mode \in EditModes /\ step[r] # "idle"
      /\ step[r] \in EntrySteps
  BY ModeOfStep DEF First, EditSteps, EntrySteps
<1>2. PICK y \in Transactions : y = t(r)
  BY <1>1, WorkingEntry
<1>3. /\ LinesOf(item[y], r) /\ Entry(y)
      /\ LinesAt(item[y], r, req[r], "first") /\ TagsAt(tagged[y], r, req[r], "first")
  BY <1>1, <1>2, AtEntry
<1>4. Writes(r) /\ UNCHANGED <<row, item, tagged>>
  BY TypeOfFirst DEF Acts, First
<1>5. ItemFields(item[y]) /\ TagFields(tagged[y]) /\ Distinct(Settled(item[y]))
      /\ Distinct(Seen(item[y], r))
  BY <1>3 DEF LinesOf, Entry, Fields
<1>6. ASSUME NEW q, NEW s \in EntrySteps, Moves(r, q, s), q.todo = req[r].todo,
             LinesAt(item[y], r, q, s), TagsAt(tagged[y], r, q, s)
      PROVE  Batch' /\ AllQuiet
  BY <1>1, <1>2, <1>4, <1>5, <1>6, EntryStep
<1>7. CASE Seen(item[y], r) = {} /\ Proceed(r, AfterNote(p(r)))
  <2>1. PICK q : Moves(r, q, AfterNote(p(r))) /\ Turned(req[r], q, req[r].todo, {}, 1)
    BY <1>1, <1>7, ProceedTurned, StepsOfEdit
  <2>2. q.patch = p(r) /\ q.n = 1 /\ q.todo = req[r].todo
    BY <2>1 DEF Turned, p
  <2>3. ASSUME q.patch.lines = None PROVE LinesDone(item[y], r, q.patch)
    <3>1. ~Owns(r, item[y]) \/ LinesDone(item[y], r, q.patch)
      BY <1>3, <2>2, <2>3 DEF LinesAt, p
    <3>2. ~Owns(r, item[y]) => Settled(item[y]) = {}
      BY <1>3, <1>7, CommitAlone DEF LinesOf
    <3>3. q.patch.note # None
      BY <1>3, <2>2 DEF LinesAt, p
    <3> QED
      BY <2>3, <3>1, <3>2, <3>3 DEF LinesDone
  <2>4. LinesAt(item[y], r, q, AfterNote(p(r)))
    BY <2>2, <2>3, EnterLines
  <2>5. TagsAt(tagged[y], r, q, AfterNote(p(r)))
    <3>1. ~Owns(r, tagged[y]) \/ TagsDone(tagged[y], r, q.patch)
      BY <1>3, <2>2 DEF TagsAt, p
    <3> QED
      BY <2>2, <3>1, EnterTags
  <2> QED
    BY <1>6, <2>1, <2>2, <2>4, <2>5, AfterSteps
<1>8. CASE \E v \in Lead(r) : req' = [req EXCEPT ![r].seen = {v.id}] /\ Goto(r, "note")
  <2>1. PICK v \in Lead(r) : req' = [req EXCEPT ![r].seen = {v.id}] /\ Goto(r, "note")
    BY <1>8
  <2>2. v \in Leading(item[y], r)
    BY <1>2, <2>1 DEF Lead, Leading
  <2>3. "note" \in EditSteps /\ "note" \in EntrySteps
    BY DEF EditSteps, EntrySteps
  <2> DEFINE S == {v.id}
  <2> HIDE DEF S
  <2>4. PICK q : Moves(r, q, "note") /\ Turned(req[r], q, req[r].todo, S, req[r].n)
    BY <1>1, <2>1, <2>3, SeenTurned DEF S
  <2>5. q.patch = req[r].patch /\ q.n = req[r].n /\ q.todo = req[r].todo /\ q.seen = {v.id}
    BY <2>4 DEF Turned, S
  <2>6. LinesAt(item[y], r, q, "note")
    BY <1>3, <2>2, <2>5 DEF LinesAt
  <2>7. TagsAt(tagged[y], r, q, "note")
    BY <1>3, <2>5 DEF TagsAt
  <2> QED
    BY <1>6, <2>3, <2>4, <2>5, <2>6, <2>7
<1> QED
  BY <1>2, <1>7, <1>8 DEF First

LEMMA NoteBatch ==
    ASSUME TInv, Batch, NEW r \in Slots, Note(r)
    PROVE  Batch' /\ AllQuiet
<1>1. /\ step[r] = "note" /\ req[r].mode \in EditModes /\ step[r] # "idle"
      /\ step[r] \in EntrySteps
  BY ModeOfStep DEF Note, EditSteps, EntrySteps
<1>2. PICK y \in Transactions : y = t(r)
  BY <1>1, WorkingEntry
<1> DEFINE V == item[y]
<1>3. /\ LinesOf(V, r) /\ Entry(y) /\ Opens(r)
      /\ LinesAt(V, r, req[r], "note") /\ TagsAt(tagged[y], r, req[r], "note")
  BY <1>1, <1>2, AtEntry
<1>4. Writes(r) /\ UNCHANGED <<row, tagged>>
  BY TypeOfNote DEF Acts, Note
<1>5. PICK v \in Leading(V, r) : req[r].seen = {v.id}
  BY <1>3 DEF LinesAt
<1>6. Aimed(r) = {v} /\ v \in V
  <2>1. v \in Seen(V, r) /\ v \in V
    BY <1>5 DEF Leading, Seen
  <2>2. \A w \in Seen(V, r) : w.id = v.id => w = v
    BY <1>3, <2>1 DEF LinesOf, Distinct
  <2> QED
    BY <1>2, <1>5, <2>1, <2>2 DEF Aimed
<1> DEFINE u == [v EXCEPT !.note = p(r).note, !.by = r]
           W == Removed(V, {v}, r) \cup {u}
<1>7. item'[y] = W /\ \A x \in Transactions : x # y => item'[x] = item[x]
  <2>1. {[w EXCEPT !.note = p(r).note, !.by = r] : w \in Aimed(r)} = {u}
    BY <1>6
  <2>2. item' = [item EXCEPT ![y] = W]
    BY <1>2, <1>3, <1>6, <2>1 DEF Note, Put, Result
  <2> QED
    BY <2>2 DEF TInv, AllFit, Mapped
<1>8. /\ ItemFields(W) /\ Distinct(Settled(W)) /\ Distinct(Seen(W, r))
      /\ \A e : /\ e.lines = None /\ e.note = p(r).note /\ p(r).note # None
                /\ ~Owns(r, V) \/ LinesDone(V, r, e)
                => LinesDone(W, r, e)
  <2> DEFINE a == p(r).note
  <2>1. W = Renoting(V, v, a, r)
    BY DEF Renoting, Renoted
  <2> HIDE DEF a, u, W, V
  <2>2. /\ ItemFields(W) /\ Distinct(Settled(W)) /\ Distinct(Seen(W, r))
        /\ \A e : /\ e.lines = None /\ e.note = a /\ a # None
                  /\ ~Owns(r, V) \/ LinesDone(V, r, e)
                  => LinesDone(W, r, e)
    <3>1. LinesOf(V, r) /\ v \in Leading(V, r)
      BY <1>3, <1>5
    <3> QED
      BY <2>1, <3>1, NoteTaken
  <2> QED
    BY <2>2 DEF a
<1>9. Content(Settled(W)) = Content(Settled(V))
  <2>1. ItemFields(Settled(V)) /\ Table(Settled(V)) /\ Table(V) /\ u.by = r
    BY <1>3, <1>6 DEF LinesOf, ItemFields, Settled, Table
  <2> DEFINE D == {v}
             N == {u}
  <2>2. D \subseteq V /\ \A w \in N : w.by = r
    BY <1>6, <2>1
  <2>3. W = Removed(V, D, r) \cup N
    OBVIOUS
  <2> HIDE DEF D, N, W
  <2>4. Copies(Settled(W), Settled(V))
    BY <2>1, <2>2, <2>3, RemovedCopies
  <2> QED
    BY <2>1, <2>4, ItemCopies
<1> DEFINE S == {}
<1> HIDE DEF W, S
<1>10. PICK q : Moves(r, q, AfterNote(p(r))) /\ Turned(req[r], q, req[r].todo, S, req[r].n)
  <2>1. Goto(r, AfterNote(p(r))) /\ req' = [req EXCEPT ![r].seen = S]
    BY DEF Note, S
  <2> QED
    BY <1>1, <2>1, SeenTurned, StepsOfEdit
<1>11. q.patch = p(r) /\ q.patch = req[r].patch /\ q.n = 1 /\ q.todo = req[r].todo
  BY <1>3, <1>10 DEF Turned, p, LinesAt
<1>12. LinesAt(W, r, q, AfterNote(p(r)))
  <2>1. q.patch.lines = None => LinesDone(W, r, q.patch)
    BY <1>3, <1>8, <1>11 DEF LinesAt
  <2> QED
    BY <1>11, <2>1, EnterLines
<1>13. TagsAt(tagged[y], r, q, AfterNote(p(r)))
  <2>1. ~Owns(r, tagged[y]) \/ TagsDone(tagged[y], r, q.patch)
    BY <1>3, <1>11 DEF TagsAt
  <2> QED
    BY <1>11, <2>1, EnterTags
<1>14. TagFields(tagged[y])
  BY <1>3 DEF Entry, Fields
<1> QED
  BY <1>1, <1>2, <1>4, <1>7, <1>8, <1>9, <1>10, <1>11, <1>12, <1>13, <1>14, AfterSteps, EntryStep

LEMMA ScanBatch ==
    ASSUME TInv, Batch, NEW r \in Slots, Scan(r)
    PROVE  Batch' /\ AllQuiet
<1>1. /\ step[r] = "scan" /\ req[r].mode \in EditModes /\ step[r] # "idle"
      /\ step[r] \in EntrySteps
  BY ModeOfStep DEF Scan, EditSteps, EntrySteps
<1>2. PICK y \in Transactions : y = t(r)
  BY <1>1, WorkingEntry
<1>3. /\ LinesOf(item[y], r) /\ Entry(y)
      /\ LinesAt(item[y], r, req[r], "scan") /\ TagsAt(tagged[y], r, req[r], "scan")
  BY <1>1, <1>2, AtEntry
<1>4. Writes(r) /\ UNCHANGED <<row, item, tagged>>
  BY TypeOfScan DEF Acts, Scan
<1>5. ItemFields(item[y]) /\ TagFields(tagged[y]) /\ Distinct(Settled(item[y]))
      /\ Distinct(Seen(item[y], r))
  BY <1>3 DEF LinesOf, Entry, Fields
<1>6. "remove" \in EditSteps /\ "remove" \in EntrySteps
  BY DEF EditSteps, EntrySteps
<1> DEFINE S == {v.id : v \in Seen(item[y], r)}
<1> HIDE DEF S
<1>7. PICK q : Moves(r, q, "remove") /\ Turned(req[r], q, req[r].todo, S, req[r].n)
  <2>1. Goto(r, "remove") /\ req' = [req EXCEPT ![r].seen = S]
    BY <1>2 DEF Scan, S
  <2> QED
    BY <1>1, <1>6, <2>1, SeenTurned
<1>8. q.patch = req[r].patch /\ q.n = req[r].n /\ q.todo = req[r].todo /\ q.seen = S
  BY <1>7 DEF Turned
<1>9. LinesAt(item[y], r, q, "remove")
  BY <1>3, <1>8 DEF LinesAt, S
<1>10. TagsAt(tagged[y], r, q, "remove")
  BY <1>3, <1>8 DEF TagsAt
<1> QED
  BY <1>1, <1>2, <1>4, <1>5, <1>6, <1>7, <1>8, <1>9, <1>10, EntryStep

\* Creations, once the row is there.
CreationSteps == {"lines", "tag", "commit"}

LEMMA CreatedTouches ==
    ASSUME NEW R, NEW V, NEW T, NEW r, NEW q, NEW s, Created(R, V, T, r, q, s)
    PROVE  Owns(r, R)
  BY DEF Created, Owns, Seen, Settled

LEMMA Creating ==
    ASSUME TInv, Batch, NEW r \in Slots, step[r] \in CreationSteps, req[r].mode = "create",
           NEW y, y = t(r)
    PROVE  /\ Opens(r) /\ Edition(p(r)) /\ y \in Transactions /\ Touches(r, y)
           /\ Created(row[y], item[y], tagged[y], r, req[r], step[r])
           /\ Exclusive(r) /\ Entry(y) /\ Sound(y)
           /\ LinesOf(item[y], r) /\ Alone(tagged[y], r)
<1>1. step[r] # "idle" /\ step[r] # "insert" /\ Opens(r)
  BY DEF CreationSteps, Opens
<1>2. y \in Transactions /\ Sound(y) /\ Entry(y)
  BY <1>1, WorkingEntry DEF Batch, TInv, Data
<1>3. Touches(r, y) /\ Edition(p(r))
  BY <1>1 DEF Batch, Asked
<1>4. Created(row[y], item[y], tagged[y], r, req[r], step[r]) /\ Exclusive(r)
  BY <1>2, <1>3 DEF Batch, Held, Private, Entry, Exclusive
<1>5. /\ \A s \in Slots : Owns(s, item[y]) => s = r
      /\ \A s \in Slots : Owns(s, tagged[y]) => s = r
  BY <1>4 DEF Exclusive, Touches
<1>6. Alone(item[y], r) /\ Alone(tagged[y], r)
  BY <1>2, <1>5, AloneTable DEF Sound
<1>7. LinesOf(item[y], r)
  BY <1>2, <1>4, <1>6 DEF LinesOf, Created, Entry, Fields, Sound
<1> QED
  BY <1>1, <1>2, <1>3, <1>4, <1>6, <1>7

LEMMA CreationStep ==
    ASSUME TInv, Batch, NEW r \in Slots, step[r] \in CreationSteps, req[r].mode = "create",
           Writes(r), NEW q, NEW s \in CreationSteps, Moves(r, q, s),
           NEW y \in Transactions, y = t(r), UNCHANGED row,
           \A x \in Transactions : x # y => item'[x] = item[x] /\ tagged'[x] = tagged[x],
           ItemFields(item'[y]), TagFields(tagged'[y]),
           Created(row'[y], item'[y], tagged'[y], r, q, s)
    PROVE  Batch' /\ AllQuiet
<1>1. /\ Created(row[y], item[y], tagged[y], r, req[r], step[r])
      /\ Exclusive(r) /\ Entry(y) /\ Edition(p(r))
  BY Creating
<1>2. step[r] # "idle" /\ s # "idle" /\ s # "insert"
  BY DEF CreationSteps
<1>3. q.patch = req[r].patch /\ q.mode = "create" /\ q.todo = req[r].todo
  BY <1>2 DEF Moves
<1>4. Touches(r, y)'
  BY CreatedTouches DEF Touches
<1>5. \A x \in Transactions : x # y => Untouched(x)
  BY DEF Untouched
<1>6. Settled(item'[y]) = Settled(item[y]) /\ Settled(tagged'[y]) = Settled(tagged[y])
  BY <1>1 DEF Created
<1>7. Quiet(y) /\ Fields(y)' /\ Distinct(Settled(item'[y]))
  BY <1>1, <1>6 DEF Quiet, Entry, Fields
<1>8. Asked(r)'
  <2>1. req'[r] = q /\ step'[r] = s
    BY DEF Moves, TInv, AllFit, Mapped
  <2>2. t(r)' = y /\ p(r)' = p(r) /\ Edition(p(r))'
    BY <1>1, <1>3, <2>1 DEF t, p, Edition
  <2> QED
    BY <1>2, <1>3, <1>4, <2>1, <2>2 DEF Asked
<1>9. Private(row'[y], item'[y], tagged'[y], r, q, s, TRUE)
  BY <1>3 DEF Private
<1> QED
  BY <1>1, <1>2, <1>3, <1>5, <1>7, <1>8, <1>9, StatementBatch

\* One more line item.
LEMMA LineInserted ==
    ASSUME NEW r \in Slots, NEW V, Table(V), ItemFields(V), Distinct(Seen(V, r)),
           NEW q, q.patch.lines \in Seq([amount : Nat, note : Notes]), Inserted(V, r, q), ~(q.n > Len(q.patch.lines)),
           NEW N, ItemFields(N), NEW i \in N, \A w \in N : w = i,
           i.id[2] = q.n, i.amount = q.patch.lines[q.n].amount, i.note = q.patch.lines[q.n].note,
           i.by = r, i.until = None,
           NEW u, u.patch = q.patch, u.n = q.n + 1
    PROVE  /\ ItemFields(V \cup N) /\ Settled(V \cup N) = Settled(V)
           /\ Distinct(Seen(V \cup N, r)) /\ Inserted(V \cup N, r, u)
<1> DEFINE lines == q.patch.lines
           n == q.n
           W == V \cup N
<1>1. n \in Nat /\ n \in 1..Len(lines)
  BY DEF Inserted
<1>2. \A w : w \in Seen(W, r) <=> w \in Seen(V, r) \/ w = i
  BY NotNone DEF Seen
<1>3. ItemFields(W)
  BY DEF ItemFields
<1>4. Settled(W) = Settled(V)
  BY NotNone DEF Settled
<1>5. \A v \in Seen(V, r) : v.id[2] # n
  <2> SUFFICES ASSUME NEW v \in Seen(V, r) PROVE v.id[2] # n
    OBVIOUS
  <2>1. <<v.id[2], v.amount, v.note>> \in {<<k, lines[k].amount, lines[k].note>> : k \in 1..n - 1}
    BY DEF Content, Inserted
  <2>2. PICK k \in 1..n - 1 : <<v.id[2], v.amount, v.note>> = <<k, lines[k].amount, lines[k].note>>
    BY <2>1
  <2> QED
    BY <1>1, <2>2
<1>6. Distinct(Seen(W, r))
  BY <1>2, <1>5 DEF Distinct
<1>7. Content(Seen(W, r)) = {<<k, lines[k].amount, lines[k].note>> : k \in 1..n}
  <2> DEFINE f(k) == <<k, lines[k].amount, lines[k].note>>
             g(v) == <<v.id[2], v.amount, v.note>>
  <2>1. Content(Seen(V, r)) = {f(k) : k \in 1..n - 1}
    BY DEF Inserted
  <2>2. Content(Seen(V, r)) = {g(v) : v \in Seen(V, r)} /\ Content(Seen(W, r)) = {g(v) : v \in Seen(W, r)}
    BY DEF Content
  <2>3. g(i) = f(n)
    OBVIOUS
  <2>4. \A k : k \in 1..n <=> k \in 1..n - 1 \/ k = n
    BY <1>1
  <2> HIDE DEF f, g, W, n
  <2>5. {g(v) : v \in Seen(W, r)} = {g(v) : v \in Seen(V, r)} \cup {g(i)}
    BY <1>2
  <2>6. {f(k) : k \in 1..n} = {f(k) : k \in 1..n - 1} \cup {f(n)}
    BY <2>4
  <2>7. Content(Seen(W, r)) = {f(k) : k \in 1..n}
    BY <2>1, <2>2, <2>3, <2>5, <2>6
  <2> QED
    BY <2>7 DEF f
<1>8. Inserted(W, r, u)
  <2>1. u.n - 1 = n /\ u.n \in 1..Len(lines) + 1
    BY <1>1
  <2> QED
    BY <1>7, <2>1 DEF Inserted
<1> QED
  BY <1>3, <1>4, <1>6, <1>8

LEMMA LinesComplete ==
    ASSUME NEW V, NEW r, NEW q, q.patch.lines \in Seq([amount : Nat, note : Notes]), Inserted(V, r, q),
           q.n > Len(q.patch.lines)
    PROVE  Content(Seen(V, r)) = Listed(q.patch)
<1>1. q.n - 1 = Len(q.patch.lines)
  <2>1. q.n \in 1..Len(q.patch.lines) + 1 /\ Len(q.patch.lines) \in Nat
    BY DEF Inserted
  <2> QED
    BY <2>1
<1> QED
  BY <1>1 DEF Inserted, Listed

TagRows(G, r) == {Tag(g, r) : g \in G}

LEMMA TagsInserted ==
    ASSUME NEW r \in Slots, NEW T, Table(T), TagFields(T), Alone(T, r), Seen(T, r) = {},
           NEW G, NEW N, N = TagRows(G, r)
    PROVE  /\ TagFields(T \cup N) /\ Settled(T \cup N) = Settled(T)
           /\ TagsOf(Seen(T \cup N, r)) = G
<1>1. \A g : /\ DOMAIN Tag(g, r) = {"tag", "by", "until"} /\ Tag(g, r).tag = g
             /\ Tag(g, r).by = r /\ Tag(g, r).until = None
  BY DEF Tag
<1> USE DEF TagRows
<1>2. TagFields(T \cup N)
  BY <1>1 DEF TagFields
<1>3. Settled(T \cup N) = Settled(T)
  BY <1>1, NotNone DEF Settled
<1>4. Seen(T \cup N, r) = N
  BY <1>1, NotNone DEF Seen
<1>5. TagsOf(N) = G
  BY <1>1 DEF TagsOf
<1> QED
  BY <1>2, <1>3, <1>4, <1>5

LEMMA TagsRemoved ==
    ASSUME NEW r \in Slots, NEW T, Table(T), TagFields(T),
           NEW W, W = Removed(T, Seen(T, r), r)
    PROVE  /\ TagFields(W) /\ Seen(W, r) = {} /\ TagsOf(Settled(W)) = TagsOf(Settled(T))
<1> DEFINE D == Seen(T, r)
           N == {}
<1>1. D \subseteq T /\ D \subseteq Seen(T, r) /\ W = Removed(T, D, r) \cup N
  BY DEF Seen
<1>2. \A w \in N : w.by = r /\ w.until = None
  OBVIOUS
<1>3. TagFields(W)
  BY <1>1 DEF TagFields, Removed
<1> HIDE DEF D, N
<1>4. \A v \in Seen(T, r) : v \in T /\ [v EXCEPT !.until = r].until = r
  BY DEF TagFields, Seen
<1>5. Seen(W, r) = {}
  BY <1>4 DEF Removed, Seen
<1>6. Copies(Settled(W), Settled(T))
  BY <1>1, <1>2, RemovedCopies
<1>7. TagFields(Settled(T)) /\ Table(Settled(T))
  BY DEF TagFields, Table, Settled
<1>8. TagsOf(Settled(W)) = TagsOf(Settled(T))
  BY <1>6, <1>7, TagCopies
<1> QED
  BY <1>3, <1>5, <1>8

LEMMA RemoveBatch ==
    ASSUME TInv, Batch, NEW r \in Slots, Remove(r)
    PROVE  Batch' /\ AllQuiet
<1>1. /\ step[r] = "remove" /\ req[r].mode \in EditModes /\ step[r] # "idle"
      /\ step[r] \in EntrySteps
  BY ModeOfStep DEF Remove, EditSteps, EntrySteps
<1>2. PICK y \in Transactions : y = t(r)
  BY <1>1, WorkingEntry
<1> DEFINE V == item[y]
           W == Removed(V, Seen(V, r), r)
<1>3. /\ LinesOf(V, r) /\ Entry(y) /\ Opens(r) /\ Edition(p(r))
      /\ LinesAt(V, r, req[r], "remove") /\ TagsAt(tagged[y], r, req[r], "remove")
  BY <1>1, <1>2, AtEntry
<1>4. Writes(r) /\ UNCHANGED <<row, tagged>>
  BY TypeOfRemove DEF Acts, Remove
<1>5. Aimed(r) = Seen(V, r)
  BY <1>2, <1>3 DEF Aimed, LinesAt
<1>6. item'[y] = W /\ \A x \in Transactions : x # y => item'[x] = item[x]
  <2>1. item' = [item EXCEPT ![y] = W]
    BY <1>2, <1>3, <1>5 DEF Remove, Put, Result
  <2> QED
    BY <2>1 DEF TInv, AllFit, Mapped
<1>7. /\ ItemFields(W) /\ Distinct(Settled(W)) /\ Seen(W, r) = {}
      /\ Content(Settled(W)) = Content(Settled(V))
  BY <1>3, LinesRemoved
<1>8. Distinct(Seen(W, r)) /\ Content(Seen(W, r)) = {}
  BY <1>7 DEF Distinct, Content
<1> DEFINE S == {}
<1> HIDE DEF W, S
<1>9. "lines" \in EditSteps /\ "lines" \in EntrySteps
  BY DEF EditSteps, EntrySteps
<1>10. PICK q : Moves(r, q, "lines") /\ Turned(req[r], q, req[r].todo, S, req[r].n)
  <2>1. Goto(r, "lines") /\ req' = [req EXCEPT ![r].seen = S]
    BY DEF Remove, S
  <2> QED
    BY <1>1, <1>9, <2>1, SeenTurned
<1>11. q.patch = p(r) /\ q.patch = req[r].patch /\ q.n = 1 /\ q.todo = req[r].todo
  BY <1>3, <1>10 DEF Turned, p, LinesAt
<1>12. LinesAt(W, r, q, "lines")
  <2>1. q.patch.lines # None /\ q.patch.lines \in Seq([amount : Nat, note : Notes])
    BY <1>3, <1>11 DEF LinesAt, Edition
  <2>2. 1 \in 1..Len(q.patch.lines) + 1 /\ 1..q.n - 1 = {}
    BY <2>1, <1>11
  <2>3. Inserted(W, r, q)
    BY <1>8, <1>11, <2>2 DEF Inserted
  <2> QED
    BY <2>1, <2>3 DEF LinesAt
<1>13. TagsAt(tagged[y], r, q, "lines")
  BY <1>3, <1>11 DEF TagsAt
<1>14. TagFields(tagged[y])
  BY <1>3 DEF Entry, Fields
<1> QED
  BY <1>1, <1>2, <1>4, <1>6, <1>7, <1>8, <1>9, <1>10, <1>11, <1>12, <1>13, <1>14, EntryStep

\* One more line item, of an edit or a creation.
LEMMA InsertedBatch ==
    ASSUME TInv, Batch, NEW r \in Slots, InsertLine(r), NEW y \in Transactions, y = t(r),
           step[r] = "lines", req[r].mode \in EditModes \cup {"create"}, Opens(r),
           Table(item[y]), ItemFields(item[y]), Distinct(Seen(item[y], r)),
           p(r).lines \in Seq([amount : Nat, note : Notes]), Inserted(item[y], r, req[r]),
           ~(req[r].n > Len(p(r).lines)), AcceptsLine(t(r), p(r).lines[req[r].n].amount)
    PROVE  \E q : /\ Moves(r, q, "lines")
                  /\ Turned(req[r], q, req[r].todo, req[r].seen, req[r].n + 1)
                  /\ UNCHANGED <<row, tagged>>
                  /\ \A x \in Transactions : x # y => item'[x] = item[x]
                  /\ ItemFields(item'[y]) /\ Settled(item'[y]) = Settled(item[y])
                  /\ Distinct(Seen(item'[y], r)) /\ Inserted(item'[y], r, q)
<1> DEFINE n == req[r].n
           lines == p(r).lines
           i == Item(NewId(y, n), lines[n].amount, lines[n].note, r)
           N == {i}
           q == [req[r] EXCEPT !.n = n + 1]
<1>1. /\ item' = Put(item, r, item[y] \cup N)
      /\ req' = [req EXCEPT ![r].n = n + 1]
      /\ UNCHANGED <<row, tagged, step>>
  BY DEF InsertLine
<1>2. /\ ItemFields(N)
      /\ i.id[2] = n /\ i.amount = lines[n].amount /\ i.note = lines[n].note /\ i.by = r /\ i.until = None
  BY DEF Item, NewId, ItemFields
<1>3. i \in N /\ \A w \in N : w = i
  OBVIOUS
<1>4. req' = [req EXCEPT ![r] = q] /\ step' = [step EXCEPT ![r] = "lines"]
  BY <1>1 DEF TInv, AllFit, Mapped
<1>5. Turned(req[r], q, req[r].todo, req[r].seen, n + 1)
  BY RequestParts DEF TInv, AllFit, Fits
<1>6. Moves(r, q, "lines")
  <2>1. Fits(req[r], "lines")
    BY DEF TInv, AllFit
  <2>2. Fits(q, "lines")
    BY <1>5, <2>1 DEF Fits, Turned
  <2> QED
    BY <1>4, <1>5, <2>2 DEF Moves, Turned
<1>7. item'[y] = item[y] \cup N /\ \A x \in Transactions : x # y => item'[x] = item[x]
  <2>1. item' = [item EXCEPT ![y] = item[y] \cup N]
    BY <1>1 DEF Put, Result
  <2> QED
    BY <2>1 DEF TInv, AllFit, Mapped
<1>8. req[r].patch = p(r) /\ q.patch = req[r].patch /\ q.n = req[r].n + 1
  BY <1>5 DEF Turned, p
<1> HIDE DEF N, i, q
<1>9. /\ ItemFields(item[y] \cup N) /\ Settled(item[y] \cup N) = Settled(item[y])
      /\ Distinct(Seen(item[y] \cup N, r)) /\ Inserted(item[y] \cup N, r, q)
  <2> DEFINE V == item[y]
             u == req[r]
  <2>1. /\ Table(V) /\ ItemFields(V) /\ Distinct(Seen(V, r))
        /\ u.patch.lines \in Seq([amount : Nat, note : Notes]) /\ Inserted(V, r, u) /\ ~(u.n > Len(u.patch.lines))
        /\ i.id[2] = u.n /\ i.amount = u.patch.lines[u.n].amount /\ i.note = u.patch.lines[u.n].note
        /\ q.patch = u.patch /\ q.n = u.n + 1
    BY <1>2, <1>8
  <2> HIDE DEF V, u, n, lines
  <2>2. /\ ItemFields(V \cup N) /\ Settled(V \cup N) = Settled(V)
        /\ Distinct(Seen(V \cup N, r)) /\ Inserted(V \cup N, r, q)
    BY <1>2, <1>3, <2>1, LineInserted
  <2> QED
    BY <2>2 DEF V
<1> QED
  BY <1>1, <1>5, <1>6, <1>7, <1>9

LEMMA InsertLineBatch ==
    ASSUME TInv, Batch, NEW r \in Slots, InsertLine(r)
    PROVE  Batch' /\ AllQuiet
<1>1. step[r] = "lines" /\ req[r].mode \in EditModes \cup {"create"}
  BY ModeOfStep DEF InsertLine
<1>2. /\ step[r] # "idle" /\ step[r] \in EntrySteps /\ step[r] \in CreationSteps
      /\ "lines" \in EntrySteps /\ "lines" \in CreationSteps
  BY <1>1 DEF EntrySteps, EditSteps, CreationSteps
<1>3. PICK y \in Transactions : y = t(r)
  BY <1>2, WorkingEntry
<1>4. Entry(y) /\ LinesOf(item[y], r) /\ Opens(r) /\ Edition(p(r))
  BY <1>1, <1>2, <1>3, AtEntry, Creating
<1>5. p(r).lines # None /\ Inserted(item[y], r, req[r])
  BY <1>1, <1>2, <1>3, AtEntry, Creating DEF LinesAt, Created, p
<1>6. p(r).lines \in Seq([amount : Nat, note : Notes]) /\ req[r].patch = p(r)
  BY <1>4, <1>5 DEF Edition, p
<1>7. Writes(r)
  BY TypeOfInsertLine DEF Acts
<1>8. /\ Table(item[y]) /\ ItemFields(item[y]) /\ TagFields(tagged[y])
      /\ Distinct(Settled(item[y])) /\ Distinct(Seen(item[y], r))
  BY <1>4 DEF LinesOf, Entry, Fields
<1>9. CASE req[r].n > Len(p(r).lines)
  <2>1. UNCHANGED <<row, item, tagged>>
    BY <1>9 DEF InsertLine
  <2>2. Content(Seen(item[y], r)) = Listed(p(r))
    BY <1>5, <1>6, <1>9, LinesComplete
  <2>3. CASE req[r].mode = "create"
    <3> DEFINE s == TagsNext(p(r))
    <3>1. Goto(r, s) /\ UNCHANGED req
      BY <1>9, <2>3 DEF InsertLine
    <3>2. s \in {"tag", "commit"} /\ (s = "tag" <=> p(r).tags # None)
      BY DEF TagsNext
    <3> HIDE DEF s
    <3>3. Moves(r, req[r], s)
      BY <1>1, <2>3, <3>1, <3>2 DEF Goto, Moves, TInv, AllFit, Mapped, Fits, EditSteps,
                                    NoRequest, Request
    <3>4. Created(row[y], item[y], tagged[y], r, req[r], "lines")
      BY <1>1, <1>2, <1>3, <2>3, Creating
    <3>5. TagsOf({}) = {}
      BY DEF TagsOf
    <3>6. Created(row[y], item[y], tagged[y], r, req[r], s)
      BY <1>5, <1>6, <2>2, <3>2, <3>4, <3>5 DEF Created
    <3>7. s \in CreationSteps
      BY <3>2 DEF CreationSteps
    <3> QED
      BY <1>2, <1>3, <1>7, <1>8, <2>1, <2>3, <3>3, <3>6, <3>7, CreationStep
  <2>4. CASE req[r].mode # "create"
    <3> DEFINE s == AfterLines(p(r))
    <3>1. Proceed(r, s) /\ req[r].mode \in EditModes
      BY <1>1, <1>9, <2>4 DEF InsertLine
    <3>2. PICK q : Moves(r, q, s) /\ Turned(req[r], q, req[r].todo, {}, 1)
      BY <1>2, <3>1, ProceedTurned, StepsOfEdit
    <3>3. q.patch = p(r) /\ q.n = 1 /\ q.todo = req[r].todo
      BY <3>2 DEF Turned, p
    <3>4. LinesDone(item[y], r, q.patch)
      BY <1>5, <2>2, <3>3 DEF LinesDone
    <3>5. LinesAt(item[y], r, q, s)
      BY <3>3, <3>4, EnterLines
    <3>6. TagsAt(tagged[y], r, q, s)
      <4>1. TagsAt(tagged[y], r, req[r], "lines")
        BY <1>1, <1>2, <1>3, <3>1, AtEntry
      <4>2. ~Owns(r, tagged[y]) \/ TagsDone(tagged[y], r, q.patch)
        BY <1>6, <3>3, <4>1 DEF TagsAt
      <4> QED
        BY <3>3, <4>2, EnterTags
    <3>7. s \in EntrySteps
      BY AfterSteps
    <3> QED
      BY <1>2, <1>3, <1>7, <1>8, <2>1, <3>1, <3>2, <3>3, <3>5, <3>6, <3>7, EntryStep
  <2> QED
    BY <2>3, <2>4
<1>10. CASE ~(req[r].n > Len(p(r).lines)) /\ AcceptsLine(t(r), p(r).lines[req[r].n].amount)
  <2>1. PICK q : /\ Moves(r, q, "lines")
                 /\ Turned(req[r], q, req[r].todo, req[r].seen, req[r].n + 1)
                 /\ UNCHANGED <<row, tagged>>
                 /\ \A x \in Transactions : x # y => item'[x] = item[x]
                 /\ ItemFields(item'[y]) /\ Settled(item'[y]) = Settled(item[y])
                 /\ Distinct(Seen(item'[y], r)) /\ Inserted(item'[y], r, q)
    BY <1>1, <1>3, <1>4, <1>5, <1>6, <1>8, <1>10, InsertedBatch
  <2>2. q.patch = req[r].patch /\ q.todo = req[r].todo
    BY <2>1 DEF Turned
  <2>3. CASE req[r].mode = "create"
    <3>1. Created(row[y], item[y], tagged[y], r, req[r], "lines")
      BY <1>1, <1>2, <1>3, <2>3, Creating
    <3>2. Created(row'[y], item'[y], tagged'[y], r, q, "lines")
      BY <2>1, <2>2, <3>1 DEF Created
    <3> QED
      BY <1>2, <1>3, <1>7, <1>8, <2>1, <2>3, <3>2, CreationStep
  <2>4. CASE req[r].mode # "create"
    <3>1. req[r].mode \in EditModes
      BY <1>1, <2>4
    <3>2. LinesAt(item'[y], r, q, "lines")
      BY <1>5, <1>6, <2>1, <2>2 DEF LinesAt
    <3>3. TagsAt(tagged'[y], r, q, "lines")
      <4>1. TagsAt(tagged[y], r, req[r], "lines")
        BY <1>1, <1>2, <1>3, <3>1, AtEntry
      <4> QED
        BY <2>1, <2>2, <4>1 DEF TagsAt
    <3> QED
      BY <1>2, <1>3, <1>7, <1>8, <2>1, <2>2, <3>1, <3>2, <3>3, EntryStep
  <2> QED
    BY <2>3, <2>4
<1>11. CASE ~(req[r].n > Len(p(r).lines)) /\ ~AcceptsLine(t(r), p(r).lines[req[r].n].amount)
  BY <1>2, <1>11, FailBatch DEF InsertLine
<1> QED
  BY <1>9, <1>10, <1>11

LEMMA UntagBatch ==
    ASSUME TInv, Batch, NEW r \in Slots, Untag(r)
    PROVE  Batch' /\ AllQuiet
<1>1. /\ step[r] = "untag" /\ req[r].mode \in EditModes /\ step[r] # "idle"
      /\ step[r] \in EntrySteps
  BY ModeOfStep DEF Untag, EditSteps, EntrySteps
<1>2. PICK y \in Transactions : y = t(r)
  BY <1>1, WorkingEntry
<1> DEFINE T == tagged[y]
           W == Removed(T, Seen(T, r), r)
<1>3. /\ LinesOf(item[y], r) /\ Entry(y) /\ Sound(y) /\ Opens(r)
      /\ LinesAt(item[y], r, req[r], "untag") /\ TagsAt(T, r, req[r], "untag")
  BY <1>1, <1>2, AtEntry
<1>4. Writes(r) /\ UNCHANGED <<row, item>>
  BY TypeOfUntag DEF Acts, Untag
<1>5. tagged'[y] = W /\ \A x \in Transactions : x # y => tagged'[x] = tagged[x]
  <2>1. tagged' = [tagged EXCEPT ![y] = W]
    BY <1>2, <1>3 DEF Untag, Put, Result
  <2> QED
    BY <2>1 DEF TInv, AllFit, Mapped
<1>6. TagFields(W) /\ Seen(W, r) = {} /\ TagsOf(Settled(W)) = TagsOf(Settled(T))
  BY <1>3, TagsRemoved DEF Entry, Fields, Sound
<1> HIDE DEF W
<1>7. "tag" \in EditSteps /\ "tag" \in EntrySteps
  BY DEF EditSteps, EntrySteps
<1>8. PICK q : Moves(r, q, "tag") /\ Turned(req[r], q, req[r].todo, {}, 1)
  BY <1>1, <1>7, ProceedTurned DEF Untag
<1>9. q.patch = req[r].patch /\ q.todo = req[r].todo
  BY <1>8 DEF Turned
<1>10. LinesAt(item[y], r, q, "tag") /\ TagsAt(W, r, q, "tag")
  BY <1>3, <1>6, <1>9 DEF LinesAt, TagsAt
<1>11. ItemFields(item[y]) /\ Distinct(Settled(item[y])) /\ Distinct(Seen(item[y], r))
  BY <1>3 DEF LinesOf
<1> QED
  BY <1>1, <1>2, <1>4, <1>5, <1>6, <1>7, <1>8, <1>9, <1>10, <1>11, EntryStep

LEMMA InsertTagsBatch ==
    ASSUME TInv, Batch, NEW r \in Slots, InsertTags(r)
    PROVE  Batch' /\ AllQuiet
<1>1. step[r] = "tag" /\ req[r].mode \in EditModes \cup {"create"}
  BY ModeOfStep DEF InsertTags
<1>2. /\ step[r] # "idle" /\ step[r] \in EntrySteps /\ step[r] \in CreationSteps
      /\ "reread" \in EntrySteps /\ "reread" \in EditSteps /\ "commit" \in CreationSteps
  BY <1>1 DEF EntrySteps, EditSteps, CreationSteps
<1>3. PICK y \in Transactions : y = t(r)
  BY <1>2, WorkingEntry
<1> DEFINE T == tagged[y]
           N == {Tag(g, r) : g \in p(r).tags}
<1>4. /\ Entry(y) /\ Sound(y) /\ LinesOf(item[y], r) /\ Alone(T, r) /\ Opens(r)
      /\ Seen(T, r) = {} /\ p(r).tags # None
  BY <1>1, <1>2, <1>3, AtEntry, Creating DEF TagsAt, Created, p
<1>5. Conflicts(r) = {}
  BY <1>3, <1>4, NotNone DEF Conflicts, Alone, Seen
<1>6. Writes(r) /\ UNCHANGED <<row, item>>
  BY TypeOfInsertTags DEF Acts, InsertTags
<1>7. tagged'[y] = T \cup N /\ \A x \in Transactions : x # y => tagged'[x] = tagged[x]
  <2>1. p(r).tags \ {v.tag : v \in Conflicts(r)} = p(r).tags
    BY <1>5
  <2>2. tagged' = [tagged EXCEPT ![y] = T \cup N]
    BY <1>3, <1>4, <2>1 DEF InsertTags, Put, Result
  <2> QED
    BY <2>2 DEF TInv, AllFit, Mapped
<1>8. /\ TagFields(T \cup N) /\ Settled(T \cup N) = Settled(T)
      /\ TagsOf(Seen(T \cup N, r)) = p(r).tags
  <2> DEFINE G == p(r).tags
  <2>1. Table(T) /\ TagFields(T)
    BY <1>4 DEF Entry, Fields, Sound
  <2>2. N = TagRows(G, r)
    BY DEF TagRows
  <2>3. Alone(T, r) /\ Seen(T, r) = {}
    BY <1>4
  <2> HIDE DEF T, N, G
  <2>4. /\ TagFields(T \cup N) /\ Settled(T \cup N) = Settled(T)
        /\ TagsOf(Seen(T \cup N, r)) = G
    BY <2>1, <2>2, <2>3, TagsInserted
  <2> QED
    BY <2>4 DEF G
<1>9. ItemFields(item[y]) /\ Distinct(Settled(item[y])) /\ Distinct(Seen(item[y], r))
  BY <1>4 DEF LinesOf
<1> HIDE DEF T, N
<1>10. CASE req[r].mode = "create"
  <2>1. Moves(r, req[r], "commit")
    <3>1. step' = [step EXCEPT ![r] = "commit"] /\ req' = [req EXCEPT ![r] = req[r]]
      BY <1>10 DEF InsertTags, Goto, TInv, AllFit, Mapped
    <3>2. Fits(req[r], "tag")
      BY <1>1 DEF TInv, AllFit
    <3>3. req[r] # NoRequest
      BY <1>10 DEF NoRequest, Request
    <3>4. Len(req[r].todo) = 1 /\ req[r].todo \in Seq(Transactions) /\ req[r].todo # <<>>
      BY <1>10, <3>2, <3>3 DEF Fits
    <3>5. Fits(req[r], "commit")
      BY <1>10, <3>2, <3>4 DEF Fits
    <3> QED
      BY <3>1, <3>5 DEF Moves
  <2>2. Created(row[y], item[y], T, r, req[r], "tag")
    BY <1>1, <1>2, <1>3, <1>10, Creating DEF T
  <2>3. Created(row[y], item[y], T \cup N, r, req[r], "commit")
    BY <1>4, <1>8, <2>2 DEF Created, p
  <2>4. /\ Created(row'[y], item'[y], tagged'[y], r, req[r], "commit")
        /\ ItemFields(item'[y]) /\ TagFields(tagged'[y])
        /\ \A x \in Transactions : x # y => item'[x] = item[x] /\ tagged'[x] = tagged[x]
    BY <1>6, <1>7, <1>8, <1>9, <2>3
  <2>5. "commit" \in CreationSteps /\ step[r] \in CreationSteps /\ y = t(r)
    BY <1>2, <1>3
  <2> QED
    BY <1>6, <1>10, <2>1, <2>4, <2>5, CreationStep
<1>11. CASE req[r].mode # "create"
  <2>1. req[r].mode \in EditModes /\ Proceed(r, "reread")
    BY <1>1, <1>11 DEF InsertTags
  <2>2. PICK q : Moves(r, q, "reread") /\ Turned(req[r], q, req[r].todo, {}, 1)
    BY <1>2, <2>1, ProceedTurned
  <2>3. q.patch = req[r].patch /\ q.patch = p(r) /\ q.todo = req[r].todo
    BY <2>2 DEF Turned, p
  <2>4. LinesAt(item[y], r, req[r], "tag")
    BY <1>1, <1>2, <1>3, <2>1, AtEntry
  <2>5. LinesAt(item[y], r, q, "reread")
    BY <2>3, <2>4 DEF LinesAt
  <2>6. TagsAt(T \cup N, r, q, "reread")
    BY <1>4, <1>8, <2>3 DEF TagsAt, TagsDone
  <2>7. TagsOf(Settled(tagged'[y])) = TagsOf(Settled(tagged[y]))
    BY <1>7, <1>8 DEF T
  <2> QED
    BY <1>2, <1>3, <1>6, <1>7, <1>8, <1>9, <2>1, <2>2, <2>3, <2>5, <2>6, <2>7, EntryStep
<1> QED
  BY <1>10, <1>11

LEMMA RereadBatch ==
    ASSUME TInv, Batch, NEW r \in Slots, Reread(r)
    PROVE  Batch' /\ AllQuiet
  BY NextEntryBatch, FailBatch DEF Reread

LEMMA InsertBatch ==
    ASSUME TInv, Batch, NEW r \in Slots, Insert(r)
    PROVE  Batch' /\ AllQuiet
<1>1. step[r] = "insert" /\ req[r].mode = "create" /\ Fits(req[r], step[r]) /\ step[r] # "idle"
  BY ModeOfStep DEF Insert
<1>2. CASE ~AcceptsAmount(p(r).amount)
  BY <1>1, <1>2, FailBatch DEF Insert
<1>3. CASE AcceptsAmount(p(r).amount)
  <2>1. PICK y \in Transactions : y = t(r)
    BY <1>1, WorkingEntry
  <2>2. /\ Opens(r) /\ Edition(p(r)) /\ req[r].n = 1
        /\ \A x \in Transactions : ~Touches(r, x)
    BY <1>1 DEF Batch, Asked, Opens
  <2>3. row[y] = {} /\ Sound(y) /\ Entry(y)
    BY <1>1, <2>1 DEF TInv, Creators, Data, Batch
  <2>4. Exclusive(r)
    <3> SUFFICES ASSUME NEW s \in Slots, Touches(s, y) PROVE s = r
      BY <2>1 DEF Exclusive
    <3>1. Private(row[y], item[y], tagged[y], s, req[s], step[s], y = t(s))
      BY DEF Batch, Held
    <3>2. Settled(row[y]) = {}
      BY <2>3 DEF Settled
    <3>3. req[s].mode = "create" /\ y = t(s)
      BY <3>1, <3>2 DEF Private, Edited, Removing
    <3> QED
      BY <1>1, <2>1, <3>3 DEF TInv, Creators
  <2>5. Settled(item[y]) = {} /\ Settled(tagged[y]) = {}
    BY <2>3 DEF Entry, Public, Settled
  <2>6. Seen(item[y], r) = {} /\ Seen(tagged[y], r) = {}
    BY <2>2, <2>3, <2>5, CommitAlone DEF Touches, Sound
  <2> DEFINE u == Row(p(r).amount, FALSE, r)
             s == IF p(r).lines # None THEN "lines" ELSE TagsNext(p(r))
  <2>7. /\ DOMAIN u = {"amount", "deleted", "by", "until"}
        /\ u.amount = p(r).amount /\ u.deleted = FALSE /\ u.by = r /\ u.until = None
    BY DEF Row
  <2>8. row'[y] = {u} /\ \A x \in Transactions : x # y => row'[x] = row[x]
    <3>1. row' = [row EXCEPT ![y] = {u}]
      BY <1>3, <2>1, <2>2, <2>3 DEF Insert, Put, Result
    <3> QED
      BY <3>1 DEF TInv, AllFit, Mapped
  <2>9. Goto(r, s) /\ UNCHANGED <<item, tagged, req>>
    BY <1>3 DEF Insert
  <2>10. /\ s \in CreationSteps
         /\ s = "lines" <=> p(r).lines # None
         /\ s = "tag" => p(r).tags # None
         /\ s = "commit" => p(r).tags = None
    BY DEF TagsNext, CreationSteps
  <2> HIDE DEF u, s
  <2>11. Settled(row'[y]) = {} /\ Seen(row'[y], r) = {u} /\ RowFields(row'[y])
    BY <2>7, <2>8, NotNone DEF Settled, Seen, RowFields
  <2>12. s = "lines" => Inserted(item[y], r, req[r])
    <3> SUFFICES ASSUME s = "lines" PROVE Inserted(item[y], r, req[r])
      OBVIOUS
    <3>1. req[r].patch = p(r) /\ p(r).lines \in Seq([amount : Nat, note : Notes])
      BY <2>2, <2>10 DEF p, Edition
    <3>2. 1 \in 1..Len(p(r).lines) + 1 /\ 1..req[r].n - 1 = {}
      BY <2>2, <3>1
    <3>3. Content({}) = {}
      BY DEF Content
    <3> QED
      BY <2>2, <2>6, <3>1, <3>2, <3>3 DEF Inserted
  <2>13. Created(row'[y], item'[y], tagged'[y], r, req[r], s)
    <3>1. Content({}) = {} /\ TagsOf({}) = {} /\ Distinct({})
      BY DEF Content, TagsOf, Distinct
    <3> QED
      BY <2>5, <2>6, <2>7, <2>9, <2>10, <2>11, <2>12, <3>1 DEF Created, CreationSteps, p
  <2>14. Private(row'[y], item'[y], tagged'[y], r, req[r], s, TRUE)
    BY <1>1, <2>13 DEF Private
  <2>15. Moves(r, req[r], s)
    BY <1>1, <2>9, <2>10 DEF Goto, Moves, TInv, AllFit, Mapped, Fits, CreationSteps,
                             EditSteps, NoRequest, Request
  <2>16. Asked(r)'
    <3>1. Touches(r, y)'
      BY <2>13, CreatedTouches DEF Touches
    <3>2. /\ req'[r] = req[r] /\ step'[r] = s /\ s # "insert"
          /\ t(r)' = y /\ p(r)' = p(r) /\ Edition(p(r))'
      BY <2>1, <2>2, <2>9, <2>10, <2>15 DEF Moves, CreationSteps, t, p, Edition, TInv, AllFit, Mapped
    <3> QED
      BY <1>1, <3>1, <3>2 DEF Asked
  <2>17. Quiet(y) /\ Fields(y)' /\ Distinct(Settled(item'[y]))
    <3>1. Settled(row'[y]) = Settled(row[y])
      BY <2>3, <2>11 DEF Settled
    <3> QED
      BY <2>3, <2>9, <2>11, <3>1 DEF Quiet, Fields, Entry
  <2>18. Writes(r) /\ \A x \in Transactions : x # y => Untouched(x)
    BY <2>8, <2>9, TypeOfInsert DEF Acts, Untouched
  <2>19. s # "idle"
    BY <2>10 DEF CreationSteps
  <2> QED
    BY <1>1, <2>1, <2>4, <2>14, <2>15, <2>16, <2>17, <2>18, <2>19, StatementBatch
<1> QED
  BY <1>2, <1>3

\* What a transaction that commits has made of an entry.
LEMMA CommitBatch ==
    ASSUME TInv, Batch, NEW r \in Slots, Commit(r)
    PROVE  Batch'
<1>1. \A x \in Transactions :
          /\ row'[x] = Committed(row[x], r)
          /\ item'[x] = Committed(item[x], r)
          /\ tagged'[x] = Committed(tagged[x], r)
  BY DEF Commit
<1>2. Writes(r) /\ Ends(r) /\ Answer(r)
  BY CommitWrites DEF Commit
<1>3. \A x \in Transactions : ~Touches(r, x) => Untouched(x)
  BY <1>1, CommitAlone DEF TInv, Data, Sound, Touches, Untouched
<1>4. ASSUME NEW x \in Transactions
      PROVE  /\ Fields(x)' /\ Distinct(Settled(item'[x]))
             /\ Public(x) => Public(x)'
             /\ ~Public(x)' => Settled(item'[x]) = {} /\ Settled(tagged'[x]) = {}
  <2>1. Table(row[x]) /\ Table(item[x]) /\ Table(tagged[x]) /\ Entry(x)
    BY DEF TInv, Data, Sound, Batch
  <2>2. RowFields(row[x]) /\ ItemFields(item[x]) /\ TagFields(tagged[x])
    BY <2>1 DEF Entry, Fields
  <2>3. RowFields(row'[x]) /\ ItemFields(item'[x]) /\ TagFields(tagged'[x])
    BY <1>1, <2>2 DEF Committed, RowFields, ItemFields, TagFields
  <2>4. CASE ~Touches(r, x)
    BY <1>3, <2>1, <2>3, <2>4 DEF Untouched, Entry, Fields, Public
  <2>5. CASE Touches(r, x)
    <3>1. Private(row[x], item[x], tagged[x], r, req[r], step[r], x = t(r))
      BY <2>5 DEF Batch, Held
    <3>2. Seen(row[x], r) # {}
      <4>1. Rows(Seen(row[x], r)) = {<<v.amount, TRUE>> : v \in Settled(row[x])}
                /\ Settled(row[x]) # {} => Seen(row[x], r) # {}
        BY DEF Rows
      <4> QED
        BY <3>1, <4>1 DEF Private, Edited, Created, Removing
    <3>3. Public(x)'
      <4>1. Settled(row'[x]) = {[v EXCEPT !.by = None] : v \in Seen(row[x], r)}
        BY <1>1, <2>1, CommitSettles
      <4>2. PICK v \in Seen(row[x], r) : TRUE
        BY <3>2
      <4>3. [v EXCEPT !.by = None] \in Settled(row'[x])
        BY <4>1, <4>2
      <4> QED
        BY <4>3 DEF Public
    <3>4. Distinct(Settled(item'[x]))
      <4>1. CASE Distinct(Seen(item[x], r))
        <5>1. ItemFields(Seen(item[x], r))
          BY <2>2 DEF ItemFields, Seen
        <5>2. Distinct({[v EXCEPT !.by = None] : v \in Seen(item[x], r)})
          BY <4>1, <5>1, DistinctCommitted
        <5> QED
          BY <1>1, <2>1, <5>2, CommitSettles
      <4>2. CASE ~Owns(r, item[x])
        BY <1>1, <2>1, <4>2, CommitAlone DEF Entry
      <4> QED
        BY <3>1, <4>1, <4>2 DEF Private, Edited, Created, Removing
    <3> QED
      BY <2>3, <3>3, <3>4 DEF Fields
  <2> QED
    BY <2>4, <2>5
<1> QED
  BY <1>2, <1>3, <1>4, EndBatch

LEMMA AdvanceBatch ==
    ASSUME TInv, Batch, habit = "batch", NEW r \in Slots, Advance(r)
    PROVE  Batch' /\ (AllQuiet \/ Commit(r))
<1>1. CASE Abort(r)
  <2>1. Awaited(r) # {}
    BY <1>1 DEF Abort, Deadlocked
  <2>2. step[r] # "idle"
    BY <2>1 DEF Awaited
  <2> QED
    BY <1>1, <2>2, FailBatch DEF Abort
<1> QED
  BY <1>1, InsertBatch, CheckBatch, UpdateRowBatch, FirstBatch, NoteBatch, ScanBatch,
     RemoveBatch, InsertLineBatch, UntagBatch, InsertTagsBatch, RereadBatch,
     DeleteFindBatch, DeleteRowBatch, CommitBatch
     DEF Advance

LEMMA NextBatch ==
    ASSUME TInv, Batch, habit = "batch", Next
    PROVE  Batch' /\ (AllQuiet \/ \E r \in Slots : Commit(r))
  BY AdvanceBatch, TakeBatch, RestartBatch DEF Next

LEMMA StutterBatch ==
    ASSUME Batch, UNCHANGED vars
    PROVE  Batch' /\ AllQuiet
<1>1. \A x \in Transactions : Entry(x)' /\ Quiet(x)
  BY DEF vars, Batch, Entry, Fields, Public, Touches, Quiet
<1>2. \A r \in Slots : Asked(r)'
  <2> SUFFICES ASSUME NEW r \in Slots
               PROVE  Asked(r)'
    OBVIOUS
  <2>1. Asked(r)
    BY DEF Batch
  <2>2. t(r)' = t(r) /\ p(r)' = p(r)
    BY DEF vars, t, p
  <2>3. \A x \in Transactions : Touches(r, x)' = Touches(r, x)
    BY DEF vars, Touches
  <2>4. Touches(r, t(r))' = Touches(r, t(r)) /\ Public(t(r))' = Public(t(r))
    BY <2>2 DEF vars, Touches, Public
  <2>5. Edition(p(r))' = Edition(p(r))
    BY <2>2 DEF Edition
  <2> QED
    BY <2>1, <2>2, <2>3, <2>4, <2>5 DEF vars, Asked
<1>3. \A r \in Slots, x \in Transactions : (Touches(r, x) => Held(r, x))'
  BY DEF vars, Batch, Held, Touches, t
<1> QED
  BY <1>1, <1>2, <1>3 DEF Batch, AllQuiet

LEMMA InitBatch == Init => Batch
<1> SUFFICES ASSUME Init PROVE Batch
  OBVIOUS
<1>1. \A x \in Transactions : /\ row[x] \subseteq {Row(1, FALSE, None)}
                              /\ item[x] \subseteq {Item(<<0, 1>>, 1, Plain, None)}
                              /\ tagged[x] = {}
                              /\ row[x] = {} => item[x] = {}
  BY DEF Init
<1>2. \A x \in Transactions : \A v \in row[x] \cup item[x] \cup tagged[x] :
          v.by = None /\ v.until = None
  BY <1>1 DEF Row, Item
<1>3. \A r \in Slots, x \in Transactions : ~Touches(r, x)
  BY <1>2, NotNone DEF Touches, Owns
<1>4. \A x \in Transactions : Fields(x)
  <2> SUFFICES ASSUME NEW x \in Transactions PROVE Fields(x)
    OBVIOUS
  <2>1. RowFields(row[x])
    <3>1. \A v \in row[x] : v = Row(1, FALSE, None)
      BY <1>1
    <3>2. /\ DOMAIN Row(1, FALSE, None) = {"amount", "deleted", "by", "until"}
          /\ Row(1, FALSE, None).deleted = FALSE
      BY DEF Row
    <3> QED
      BY <3>1, <3>2 DEF RowFields
  <2>2. ItemFields(item[x])
    <3>1. \A v \in item[x] : v = Item(<<0, 1>>, 1, Plain, None)
      BY <1>1
    <3> QED
      BY <3>1 DEF ItemFields, Item
  <2> QED
    BY <1>1, <2>1, <2>2 DEF Fields, TagFields
<1>5. \A x \in Transactions : Settled(row[x]) = row[x]
  BY <1>2 DEF Settled
<1>6. \A x \in Transactions : Entry(x)
  <2> SUFFICES ASSUME NEW x \in Transactions PROVE Entry(x)
    OBVIOUS
  <2>1. Distinct(Settled(item[x]))
    <3>1. \A v, w \in item[x] : v = w
      BY <1>1
    <3> QED
      BY <3>1 DEF Distinct, Settled
  <2>2. ~Public(x) => Settled(item[x]) = {} /\ Settled(tagged[x]) = {}
    BY <1>1, <1>5 DEF Public, Settled
  <2> QED
    BY <1>3, <1>4, <2>1, <2>2 DEF Entry
<1>7. \A r \in Slots : Asked(r)
  BY DEF Init, Asked
<1> QED
  BY <1>3, <1>6, <1>7 DEF Batch

LEMMA NextBInv == BInv /\ [Next]_vars => BInv'
<1> SUFFICES ASSUME BInv, [Next]_vars PROVE BInv'
  OBVIOUS
<1>1. TInv' /\ habit' = habit
  BY NextTInv DEF BInv, Next, vars
<1> QED
  BY <1>1, NextBatch, StutterBatch DEF BInv

LEMMA Batched == Spec => []BInv
<1>1. Init => BInv
  BY InitTInv, InitBatch DEF BInv
<1> QED
  BY <1>1, NextBInv, PTL DEF Spec

-----------------------------------------------------------------------------
(* What clients see *)

SheetOf(R, L, T) == {[amount |-> w[1], deleted |-> w[2], lines |-> L, tags |-> T] : w \in R}

SettledSheet(R, V, T) == SheetOf(Rows(Settled(R)), Content(Settled(V)), TagsOf(Settled(T)))
SeenSheet(R, V, T, r) == SheetOf(Rows(Seen(R, r)), Content(Seen(V, r)), TagsOf(Seen(T, r)))

sheets == [x \in Transactions |-> Sheet(x)]

LEMMA SheetParts ==
    ASSUME NEW R, NEW V, NEW T
    PROVE  SettledSheet(R, V, T) =
               {[amount |-> v.amount, deleted |-> v.deleted,
                 lines |-> {<<i.id[2], i.amount, i.note>> : i \in Settled(V)},
                 tags |-> {g.tag : g \in Settled(T)}] : v \in Settled(R)}
<1> DEFINE f(a, d) == [amount |-> a, deleted |-> d, lines |-> Content(Settled(V)),
                       tags |-> TagsOf(Settled(T))]
           S == Settled(R)
<1>1. SettledSheet(R, V, T) = {f(w[1], w[2]) : w \in Rows(S)}
  BY DEF SettledSheet, SheetOf
<1> SUFFICES {f(w[1], w[2]) : w \in Rows(S)} = {f(v.amount, v.deleted) : v \in S}
  BY <1>1 DEF Content, TagsOf
<1> HIDE DEF f, S
<1>2. ASSUME NEW v \in S
      PROVE  f(v.amount, v.deleted) \in {f(w[1], w[2]) : w \in Rows(S)}
  <2> DEFINE w == <<v.amount, v.deleted>>
  <2>1. w \in Rows(S) /\ w[1] = v.amount /\ w[2] = v.deleted
    BY DEF Rows
  <2> HIDE DEF w
  <2>2. f(w[1], w[2]) = f(v.amount, v.deleted)
    BY <2>1
  <2> QED
    BY <2>1, <2>2
<1>3. ASSUME NEW w \in Rows(S)
      PROVE  f(w[1], w[2]) \in {f(v.amount, v.deleted) : v \in S}
  <2>1. PICK v \in S : w = <<v.amount, v.deleted>>
    BY DEF Rows
  <2>2. f(w[1], w[2]) = f(v.amount, v.deleted)
    BY <2>1
  <2> QED
    BY <2>1, <2>2
<1> QED
  BY <1>2, <1>3

LEMMA SheetInBatch ==
    ASSUME NEW x, habit = "batch", UNCHANGED habit
    PROVE  /\ Sheet(x) = SettledSheet(row[x], item[x], tagged[x])
           /\ Sheet(x)' = SettledSheet(row[x], item[x], tagged[x])'
<1>1. Sheet(x) = SettledSheet(row[x], item[x], tagged[x])
  BY SheetParts DEF Sheet
<1>2. Sheet(x)' = SettledSheet(row'[x], item'[x], tagged'[x])
  BY SheetParts DEF Sheet
<1> QED
  BY <1>1, <1>2

LEMMA QuietSheets ==
    ASSUME habit = "batch", UNCHANGED habit, AllQuiet
    PROVE  UNCHANGED sheets
<1> SUFFICES ASSUME NEW x \in Transactions PROVE Sheet(x)' = Sheet(x)
  BY DEF sheets
<1>1. /\ Sheet(x) = SettledSheet(row[x], item[x], tagged[x])
      /\ Sheet(x)' = SettledSheet(row[x], item[x], tagged[x])'
  BY SheetInBatch
<1> QED
  BY <1>1 DEF AllQuiet, Quiet, SettledSheet

\* A transaction leaves what it had written, and nothing else.
LEMMA CommittedSheets ==
    ASSUME TInv, Batch, habit = "batch", UNCHANGED habit, NEW r \in Slots, Commit(r),
           NEW x \in Transactions
    PROVE  /\ Sheet(x) = SettledSheet(row[x], item[x], tagged[x])
           /\ Sheet(x)' = SeenSheet(row[x], item[x], tagged[x], r)
           /\ ~Touches(r, x) => Sheet(x)' = Sheet(x)
<1>1. /\ row'[x] = Committed(row[x], r)
      /\ item'[x] = Committed(item[x], r)
      /\ tagged'[x] = Committed(tagged[x], r)
  BY DEF Commit
<1>2. Table(row[x]) /\ Table(item[x]) /\ Table(tagged[x])
  BY DEF TInv, Data, Sound
<1>3. RowFields(row[x]) /\ ItemFields(item[x]) /\ TagFields(tagged[x])
  BY DEF Batch, Entry, Fields
<1>4. /\ Table(Seen(row[x], r)) /\ RowFields(Seen(row[x], r))
      /\ Table(Seen(item[x], r)) /\ ItemFields(Seen(item[x], r))
      /\ Table(Seen(tagged[x], r)) /\ TagFields(Seen(tagged[x], r))
  BY <1>2, <1>3 DEF Table, Seen, RowFields, ItemFields, TagFields
<1>5. /\ Copies(Settled(row'[x]), Seen(row[x], r))
      /\ Copies(Settled(item'[x]), Seen(item[x], r))
      /\ Copies(Settled(tagged'[x]), Seen(tagged[x], r))
  BY <1>1, <1>2, CommittedCopies
<1>6. /\ Rows(Settled(row'[x])) = Rows(Seen(row[x], r))
      /\ Content(Settled(item'[x])) = Content(Seen(item[x], r))
      /\ TagsOf(Settled(tagged'[x])) = TagsOf(Seen(tagged[x], r))
  BY <1>4, <1>5, RowCopies, ItemCopies, TagCopies
<1>7. Sheet(x) = SettledSheet(row[x], item[x], tagged[x])
  BY SheetInBatch
<1>8. Sheet(x)' = SettledSheet(row[x], item[x], tagged[x])'
  BY SheetInBatch
<1>9. Sheet(x)' = SeenSheet(row[x], item[x], tagged[x], r)
  BY <1>6, <1>8 DEF SettledSheet, SeenSheet
<1>10. ~Touches(r, x) => SeenSheet(row[x], item[x], tagged[x], r) =
                             SettledSheet(row[x], item[x], tagged[x])
  BY <1>2, CommitAlone DEF Touches, SeenSheet, SettledSheet
<1> QED
  BY <1>7, <1>9, <1>10

LEMMA PromisedLines == \A e : Promise!Lines(e) = Listed(e)
  BY DEF Promise!Lines, Listed

\* Rows of which there is one, with amount a.
LEMMA OneRecord ==
    ASSUME NEW S, S # {}, NEW a, NEW d, \A w \in S : w.amount = a /\ w.deleted = d,
           NEW L, NEW T
    PROVE  SheetOf(Rows(S), L, T) = {[amount |-> a, deleted |-> d, lines |-> L, tags |-> T]}
<1> DEFINE u == <<a, d>>
<1>1. \A w : w \in Rows(S) <=> w = u
  BY DEF Rows
<1>2. u[1] = a /\ u[2] = d
  OBVIOUS
<1> HIDE DEF u
<1>3. Rows(S) = {u}
  BY <1>1
<1>4. SheetOf({u}, L, T) = {[amount |-> u[1], deleted |-> u[2], lines |-> L, tags |-> T]}
  BY DEF SheetOf
<1> QED
  BY <1>2, <1>3, <1>4

\* The record of an entry that is not deleted.
Standing(a, L, T) == [amount |-> a, deleted |-> FALSE, lines |-> L, tags |-> T]

Undeleted(S, a) == \A w \in S : w.amount = a /\ w.deleted = FALSE

LEMMA OneStanding ==
    ASSUME NEW S, S # {}, NEW a, Undeleted(S, a), NEW L, NEW T
    PROVE  SheetOf(Rows(S), L, T) = {Standing(a, L, T)}
<1> DEFINE no == FALSE
<1>1. \A w \in S : w.amount = a /\ w.deleted = no
  BY DEF Undeleted
<1> HIDE DEF no
<1>2. SheetOf(Rows(S), L, T) = {[amount |-> a, deleted |-> no, lines |-> L, tags |-> T]}
  BY <1>1, OneRecord
<1> QED
  BY <1>2 DEF no, Standing

LEMMA CreatedSheet ==
    ASSUME NEW R, RowFields(R), NEW V, NEW T, NEW r, NEW q,
           Created(R, V, T, r, q, "commit")
    PROVE  /\ SettledSheet(R, V, T) = {}
           /\ SeenSheet(R, V, T, r) = {Promise!Posted(q.patch)}
<1>1. Settled(R) = {} /\ Seen(R, r) # {}
  BY DEF Created
<1>2. \A v \in Seen(R, r) : v.amount = q.patch.amount /\ v.deleted = FALSE
  BY DEF Created, RowFields, Seen
<1> DEFINE L == Content(Seen(V, r))
           G == TagsOf(Seen(T, r))
<1>3. SeenSheet(R, V, T, r) =
          {[amount |-> q.patch.amount, deleted |-> FALSE, lines |-> L, tags |-> G]}
  <2> DEFINE S == Seen(R, r)
  <2>1. SeenSheet(R, V, T, r) = SheetOf(Rows(S), L, G)
    BY DEF SeenSheet
  <2>2. S # {} /\ Undeleted(S, q.patch.amount)
    BY <1>1, <1>2 DEF Undeleted
  <2> HIDE DEF S, L, G
  <2>3. SheetOf(Rows(S), L, G) = {Standing(q.patch.amount, L, G)}
    BY <2>2, OneStanding
  <2> QED
    BY <2>1, <2>3 DEF Standing
<1>4. /\ L = IF q.patch.lines = None THEN {} ELSE Promise!Lines(q.patch)
      /\ G = IF q.patch.tags = None THEN {} ELSE q.patch.tags
  BY PromisedLines DEF Created
<1> HIDE DEF L, G
<1>5. SettledSheet(R, V, T) = {}
  BY <1>1 DEF SettledSheet, SheetOf, Rows
<1> QED
  BY <1>3, <1>4, <1>5 DEF Promise!Posted

LEMMA RemovedSheet ==
    ASSUME NEW R, NEW V, Table(V), NEW T, Table(T), NEW r \in Slots, NEW q,
           Removing(R, V, T, r, q, "commit")
    PROVE  SeenSheet(R, V, T, r) =
               {[s EXCEPT !.deleted = TRUE] : s \in SettledSheet(R, V, T)}
<1> DEFINE S == Settled(R)
           L == Content(Settled(V))
           G == TagsOf(Settled(T))
           f(w) == [amount |-> w[1], deleted |-> w[2], lines |-> L, tags |-> G]
           g(v) == <<v.amount, v.deleted>>
           yes == TRUE
           h(v) == <<v.amount, yes>>
           d(s) == [s EXCEPT !.deleted = yes]
<1>1. Seen(V, r) = Settled(V) /\ Seen(T, r) = Settled(T)
  BY CommitAlone DEF Removing
<1>2. SeenSheet(R, V, T, r) = {f(w) : w \in {h(v) : v \in S}}
  BY <1>1 DEF SeenSheet, SheetOf, Removing
<1>3. SettledSheet(R, V, T) = {f(w) : w \in {g(v) : v \in S}}
  BY DEF SettledSheet, SheetOf, Rows
<1>4. ASSUME NEW v PROVE f(h(v)) = d(f(g(v)))
  <2> HIDE DEF yes
  <2>1. f(h(v)) = [amount |-> v.amount, deleted |-> yes, lines |-> L, tags |-> G]
    OBVIOUS
  <2>2. f(g(v)) = [amount |-> v.amount, deleted |-> v.deleted, lines |-> L, tags |-> G]
    OBVIOUS
  <2> HIDE DEF f, g, h, L, G
  <2> QED
    BY <2>1, <2>2
<1> SUFFICES SeenSheet(R, V, T, r) = {d(s) : s \in SettledSheet(R, V, T)}
  OBVIOUS
<1> HIDE DEF f, g, h, d, S
<1>5. SeenSheet(R, V, T, r) = {f(h(v)) : v \in S}
  BY <1>2
<1>6. {d(s) : s \in SettledSheet(R, V, T)} = {d(f(g(v))) : v \in S}
  BY <1>3
<1> QED
  BY <1>4, <1>5, <1>6

\* A note replaces one of the line items.
LEMMA NotedContent ==
    ASSUME NEW V, Table(V), ItemFields(V), Distinct(Settled(V)), NEW r \in Slots, NEW e,
           Noted(V, r, e)
    PROVE  \E l \in Content(Settled(V)) :
               Content(Seen(V, r)) = (Content(Settled(V)) \ {l}) \cup {<<l[1], l[2], e.note>>}
<1>1. PICK l \in Settled(V), i \in Seen(V, r) : NotedAs(V, r, e, l, i)
  BY DEF Noted
<1> DEFINE g(v) == <<v.id[2], v.amount, v.note>>
           S == Settled(V)
           U == Seen(V, r)
<1>2. \A v : v \in U <=> (v \in S /\ v # l) \/ v = i
  <2>1. i.by = r /\ l.until = r /\ i \in U /\ l \in S
    BY <1>1 DEF NotedAs
  <2>2. ASSUME NEW v \in U PROVE (v \in S /\ v # l) \/ v = i
    BY <1>1, <2>1, <2>2, NotNone DEF NotedAs, Seen, Settled
  <2>3. ASSUME NEW v \in S, v # l PROVE v \in U
    BY <1>1, <2>3 DEF NotedAs, Seen, Settled
  <2> QED
    BY <2>1, <2>2, <2>3
<1>3. g(i) = <<g(l)[1], g(l)[2], e.note>>
  BY <1>1 DEF NotedAs
<1>4. \A v, w \in S : g(v) = g(w) => v = w
  BY DEF Distinct
<1>5. Content(S) = {g(v) : v \in S} /\ Content(U) = {g(v) : v \in U} /\ l \in S
  BY <1>1 DEF Content
<1> HIDE DEF g, S, U
<1>6. \A z : z \in Content(U) <=> (z \in Content(S) /\ z # g(l)) \/ z = g(i)
  BY <1>2, <1>4, <1>5
<1>7. g(l) \in Content(S)
  BY <1>5
<1>8. Content(U) = (Content(S) \ {g(l)}) \cup {<<g(l)[1], g(l)[2], e.note>>}
  BY <1>3, <1>6
<1> QED
  BY <1>7, <1>8 DEF S, U

LEMMA RelinedContent ==
    ASSUME NEW V, Table(V), ItemFields(V), Distinct(Settled(V)), NEW r \in Slots, NEW e,
           LinesDone(V, r, e)
    PROVE  Content(Seen(V, r)) \in Promise!Relined(Content(Settled(V)), e)
<1> DEFINE L == Content(Settled(V))
           M == Content(Seen(V, r))
<1>1. CASE e.lines # None
  BY <1>1, PromisedLines DEF LinesDone, Promise!Relined
<1>2. CASE e.lines = None /\ ~Owns(r, V) /\ (e.note = None \/ Settled(V) = {})
  <2>1. M = L
    BY <1>2, CommitAlone
  <2>2. Settled(V) = {} => L = {}
    BY DEF Content
  <2> QED
    BY <1>2, <2>1, <2>2 DEF Promise!Relined
<1>3. CASE e.lines = None /\ e.note # None /\ Noted(V, r, e)
  <2>1. PICK l \in L : M = (L \ {l}) \cup {<<l[1], l[2], e.note>>}
    BY <1>3, NotedContent
  <2> HIDE DEF L, M
  <2>2. M \in {(L \ {k}) \cup {<<k[1], k[2], e.note>>} : k \in L}
    BY <2>1
  <2>3. L # {}
    BY <2>1
  <2>4. M \in Promise!Relined(L, e)
    BY <1>3, <2>2, <2>3 DEF Promise!Relined
  <2> QED
    BY <2>4 DEF L, M
<1> QED
  BY <1>1, <1>2, <1>3 DEF LinesDone

LEMMA EditedSheet ==
    ASSUME NEW R, RowFields(R), OneRow(R), NEW V, Table(V), ItemFields(V), Distinct(Settled(V)),
           NEW T, Table(T), NEW r \in Slots, NEW q, q.patch.amount # None, NEW here,
           Edited(R, V, T, r, q, "commit", here)
    PROVE  Promise!IsEdit(SettledSheet(R, V, T), SeenSheet(R, V, T, r), q.patch)
<1> DEFINE e == q.patch
           L == Content(Settled(V))
           G == TagsOf(Settled(T))
           M == Content(Seen(V, r))
           H == TagsOf(Seen(T, r))
<1>1. LinesDone(V, r, e) /\ TagsDone(T, r, e)
  BY DEF Edited, EntrySteps, EditSteps
<1>2. Settled(R) # {} /\ Seen(R, r) # {}
  BY DEF Edited
<1>3. \A v \in Seen(R, r) : v.amount = e.amount /\ v.deleted = FALSE
  BY DEF Edited, EntrySteps, EditSteps, RowFields, Seen
<1>4. PICK v \in Settled(R) : TRUE
  BY <1>2
<1>5. \A w \in Settled(R) : w.amount = v.amount /\ w.deleted = FALSE
  BY <1>2, <1>3, <1>4 DEF Edited, OneRow
<1> DEFINE s == [amount |-> v.amount, deleted |-> FALSE, lines |-> L, tags |-> G]
           u == [amount |-> e.amount, deleted |-> FALSE, lines |-> M, tags |-> H]
<1>6. SettledSheet(R, V, T) = {s}
  <2> DEFINE S == Settled(R)
  <2>1. SettledSheet(R, V, T) = SheetOf(Rows(S), L, G)
    BY DEF SettledSheet
  <2>2. S # {} /\ Undeleted(S, v.amount)
    BY <1>4, <1>5 DEF Undeleted
  <2> HIDE DEF S, L, G
  <2>3. SheetOf(Rows(S), L, G) = {Standing(v.amount, L, G)}
    BY <2>2, OneStanding
  <2> QED
    BY <2>1, <2>3 DEF Standing
<1>7. SeenSheet(R, V, T, r) = {u}
  <2> DEFINE S == Seen(R, r)
  <2>1. SeenSheet(R, V, T, r) = SheetOf(Rows(S), M, H)
    BY DEF SeenSheet
  <2>2. S # {} /\ Undeleted(S, e.amount)
    BY <1>2, <1>3 DEF Undeleted
  <2> HIDE DEF S, M, H, e
  <2>3. SheetOf(Rows(S), M, H) = {Standing(e.amount, M, H)}
    BY <2>2, OneStanding
  <2> QED
    BY <2>1, <2>3 DEF Standing
<1>8. M \in Promise!Relined(L, e)
  BY <1>1, RelinedContent
<1>9. H = IF e.tags = None THEN G ELSE e.tags
  BY <1>1, CommitAlone DEF TagsDone
<1>10. u \in Promise!EditedFrom(s, e) /\ ~s.deleted
  <2>1. s.amount = v.amount /\ s.lines = L /\ s.tags = G /\ ~s.deleted
    OBVIOUS
  <2> HIDE DEF s, L, M, G, H
  <2> QED
    BY <2>1, <1>8, <1>9 DEF Promise!EditedFrom
<1> HIDE DEF s, u
<1> QED
  BY <1>6, <1>7, <1>10 DEF Promise!IsEdit

LEMMA CommitPromised ==
    ASSUME TInv, Batch, habit = "batch", UNCHANGED habit, NEW r \in Slots, Commit(r)
    PROVE  Promise!Post \/ Promise!Edit \/ Promise!Delete \/ UNCHANGED sheets
<1>1. step[r] = "commit" /\ Opens(r) /\ step[r] # "idle"
  BY ModeOfStep DEF Commit
<1>2. PICK y \in Transactions : y = t(r)
  BY <1>1, WorkingEntry
<1> DEFINE Old(x) == SettledSheet(row[x], item[x], tagged[x])
           New(x) == SeenSheet(row[x], item[x], tagged[x], r)
           B == {x \in Transactions : Touches(r, x)}
<1>3. \A x \in Transactions : /\ Sheet(x) = Old(x) /\ Sheet(x)' = New(x)
                              /\ x \notin B => Sheet(x)' = Sheet(x)
  BY CommittedSheets
<1>4. \A x \in B : Private(row[x], item[x], tagged[x], r, req[r], "commit", x = y)
  BY <1>1, <1>2 DEF Batch, Held
<1>5. \A x \in Transactions :
          /\ RowFields(row[x]) /\ OneRow(row[x]) /\ Table(row[x])
          /\ Table(item[x]) /\ ItemFields(item[x]) /\ Distinct(Settled(item[x]))
          /\ Table(tagged[x])
  BY DEF TInv, Data, Sound, Batch, Entry, Fields
<1>6. /\ DOMAIN sheets = Transactions /\ sheets' = [x \in Transactions |-> Sheet(x)']
      /\ \A x \in Transactions : sheets[x] = Sheet(x) /\ sheets'[x] = Sheet(x)'
  BY DEF sheets
<1> DEFINE e == req[r].patch
<1>7. CASE req[r].mode = "create"
  <2>1. Touches(r, y) /\ Edition(e) /\ B = {y}
    BY <1>1, <1>2, <1>4, <1>7 DEF Batch, Asked, p, Private
  <2>2. Created(row[y], item[y], tagged[y], r, req[r], "commit")
    BY <1>4, <1>7, <2>1 DEF Private
  <2>3. Old(y) = {} /\ New(y) = {Promise!Posted(e)}
    BY <1>5, <2>2, CreatedSheet
  <2> HIDE DEF Old, New, B
  <2>4. sheets[y] = {} /\ sheets' = [sheets EXCEPT ![y] = {Promise!Posted(e)}]
    BY <1>3, <1>6, <2>1, <2>3 DEF sheets
  <2>5. e \in Patches \cup {Summed(q) : q \in Patches}
    BY <2>1 DEF Edition
  <2> HIDE DEF e
  <2> QED
    BY <2>4, <2>5 DEF Promise!Post, sheets
<1>8. CASE req[r].mode = "atomic"
  <2>1. Edition(e) /\ e.amount # None
    BY <1>1, <1>8 DEF Batch, Asked, p
  <2>2. ASSUME NEW x \in B PROVE Promise!IsEdit(Old(x), New(x), e)
    <3>1. Edited(row[x], item[x], tagged[x], r, req[r], "commit", x = y)
      BY <1>4, <1>8 DEF Private
    <3> QED
      BY <1>5, <2>1, <3>1, EditedSheet
  <2> HIDE DEF Old, New
  <2>3. /\ B \in SUBSET Transactions
        /\ \A x \in B : Promise!IsEdit(sheets[x], sheets'[x], e)
        /\ \A x \in Transactions \ B : sheets'[x] = sheets[x]
    BY <1>3, <1>6, <2>2
  <2>4. e \in Patches \cup {Summed(q) : q \in Patches}
    BY <2>1 DEF Edition
  <2> HIDE DEF e, B
  <2> QED
    BY <2>3, <2>4 DEF Promise!Edit, sheets
<1>9. CASE req[r].mode = "delete"
  <2>1. CASE Touches(r, y)
    <3>1. Removing(row[y], item[y], tagged[y], r, req[r], "commit") /\ B = {y}
      BY <1>4, <1>9, <2>1 DEF Private
    <3>2. New(y) = {[s EXCEPT !.deleted = TRUE] : s \in Old(y)}
      BY <1>5, <3>1, RemovedSheet
    <3> HIDE DEF Old, New, B
    <3>3. sheets' = [sheets EXCEPT ![y] = {[s EXCEPT !.deleted = TRUE] : s \in sheets[y]}]
      BY <1>3, <1>6, <3>1, <3>2 DEF sheets
    <3> QED
      BY <3>3 DEF Promise!Delete, sheets
  <2>2. CASE ~Touches(r, y)
    <3>1. B = {}
      BY <1>4, <1>9, <2>2 DEF Private
    <3> HIDE DEF Old, New, B
    <3> QED
      BY <1>3, <1>6, <3>1 DEF sheets
  <2> QED
    BY <2>1, <2>2
<1> QED
  BY <1>1, <1>7, <1>8, <1>9 DEF Opens

LEMMA StepPromised ==
    ASSUME BInv, [Next]_vars
    PROVE  [Promise!Post \/ Promise!Edit \/ Promise!Delete]_sheets
<1>1. UNCHANGED habit
  BY DEF Next, vars
<1>2. CASE habit = "batch"
  <2>1. AllQuiet \/ \E r \in Slots : Commit(r)
    BY <1>2, NextBatch, StutterBatch DEF BInv
  <2> QED
    BY <1>1, <1>2, <2>1, QuietSheets, CommitPromised DEF BInv
<1>3. CASE habit # "batch"
  BY <1>1, <1>3 DEF sheets, Sheet
<1> QED
  BY <1>2, <1>3

LEMMA InitPromised == Init => Promise!Init
<1> SUFFICES ASSUME Init PROVE Promise!Init
  OBVIOUS
<1>1. ASSUME NEW x \in Transactions, NEW s \in Sheet(x), NEW u \in Sheet(x)
      PROVE  s = u /\ ~s.deleted /\ s.tags = {}
  <2>1. \A v \in Settled(row[x]) : v = Row(1, FALSE, None)
    BY DEF Init, Settled
  <2>2. tagged[x] = {}
    BY DEF Init
  <2>3. PICK v \in Settled(row[x]), w \in Settled(row[x]) :
            /\ s = [amount |-> v.amount, deleted |-> v.deleted,
                    lines |-> {<<i.id[2], i.amount, i.note>> : i \in Settled(item[x])},
                    tags |-> {g.tag : g \in Settled(tagged[x])}]
            /\ u = [amount |-> w.amount, deleted |-> w.deleted,
                    lines |-> {<<i.id[2], i.amount, i.note>> : i \in Settled(item[x])},
                    tags |-> {g.tag : g \in Settled(tagged[x])}]
    BY <1>1 DEF Sheet
  <2>4. v = w /\ ~v.deleted
    <3>1. Row(1, FALSE, None).deleted = FALSE
      BY DEF Row
    <3> QED
      BY <2>1, <2>3, <3>1
  <2>5. s = u /\ s.deleted = v.deleted /\ s.tags = {g.tag : g \in Settled(tagged[x])}
    BY <2>3, <2>4
  <2> QED
    BY <2>2, <2>4, <2>5 DEF Settled
<1> QED
  BY <1>1 DEF Promise!Init

\* As long as every edit comes in an atomic batch that also sets a column of the
\* entry's row (the habit "batch"; of other habits this says nothing), entries are
\* always as whole requests left them: an entry appears with all its line items
\* and tags, and the edits of a batch with all they change, whichever creations,
\* deletions and such batches overlap, fail or are interrupted
\* (BatchPatchTransactionsTx, patchTransactionTx and CreateTransactionTx in a
\* transaction).
THEOREM EditsWhole == Spec => EditsAreWhole
  BY Batched, StepPromised, InitPromised, PTL DEF Spec, EditsAreWhole, Promise!Spec, sheets
=============================================================================
