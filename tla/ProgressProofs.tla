---------------------------- MODULE ProgressProofs ----------------------------
(***************************************************************************)
(* What rotating savings groups and the connection pool guarantee for any  *)
(* number of users, groups, contributions, connections and concurrent      *)
(* requests.                                                               *)
(*                                                                         *)
(* Typed says which request a slot serves at each statement; Clean, for    *)
(* traffic that is "apart", what each open request has done to the ledger  *)
(* so far.  For the pool the invariant says which connections a request    *)
(* holds in each phase (Accounted), that whoever is queued waits and is    *)
(* queued once (InLine), and that only nesting requests ever wait with a   *)
(* connection in hand (Nesting).  A pool that has come to a standstill     *)
(* would then give each connection to a nesting request of its own, of     *)
(* which there are too few.                                                *)
(***************************************************************************)
EXTENDS Progress, Sequences, FiniteSetTheorems, TLAPS

Steps == {"idle", "update", "contribute", "drop_begin", "drop_entry",
          "drop_row", "group"}
Dropping == {"drop_begin", "drop_entry", "drop_row"}

Tables ==
    /\ group \in [Groups -> GroupRow]
    /\ row \in [Contributions -> ContributionRow]
    /\ entry \in [Contributions -> EntryRow]
    /\ perm \in [Users -> [Accounts -> Permission]]

\* A slot at work has a group that exists or existed.
FitsAt(r) ==
    step[r] # "idle" =>
      /\ req[r].user \in Users
      /\ req[r].group \in Groups
      /\ group[req[r].group].state # "absent"
      /\ step[r] \in {"update", "contribute"} => req[r].account \in Accounts
      /\ step[r] = "contribute" =>
           /\ req[r].contribution \in Contributions
           /\ row[req[r].contribution].state = "absent"
      /\ step[r] \in Dropping =>
           /\ req[r].contribution \in Contributions
           /\ row[req[r].contribution].state # "absent"
           /\ row[req[r].contribution].group = req[r].group

Typed ==
    /\ TypeOK
    /\ \A r \in Slots : FitsAt(r)
    \* No id is in use for two contributions.
    /\ \A r, s \in Slots :
         step[r] = "contribute" /\ step[s] = "contribute" /\ r # s =>
             req[r].contribution # req[s].contribution

\* Rows keep their identity: groups their user, contributions their group.
Grow ==
    /\ \A g \in Groups : group[g].state # "absent" =>
         group'[g].state # "absent" /\ group'[g].user = group[g].user
    /\ \A c \in Contributions : row[c].state # "absent" =>
         row'[c].state # "absent" /\ row'[c].group = row[c].group

-----------------------------------------------------------------------------
(* Rows *)

\* The states of rows, and what a row that is not absent has.
LEMMA RowFacts ==
    /\ \A g \in GroupRow : g.state # "absent" <=> g.user \in Users
    /\ \A g \in GroupRow : g.state # "absent" =>
         /\ g.account \in Accounts
         /\ \A a \in Accounts : [g EXCEPT !.account = a] \in GroupRow
         /\ [g EXCEPT !.state = "gone"] \in GroupRow
    /\ \A c \in ContributionRow : c.state # "absent" =>
         /\ c.group \in Groups
         /\ \A s \in {"live", "soft", "gone"} :
              [c EXCEPT !.state = s] \in ContributionRow
    /\ \A e \in EntryRow : e.state = "posted" =>
         e.account \in Accounts /\ [e EXCEPT !.state = "deleted"] \in EntryRow
<1> USE RotatingAssumption
<1>1. \A g \in GroupRow : g.state # "absent" <=> g.user \in Users
  BY DEF GroupRow, NoGroup
<1>2. \A g \in GroupRow : g.state # "absent" =>
         /\ g.account \in Accounts
         /\ \A a \in Accounts : [g EXCEPT !.account = a] \in GroupRow
         /\ [g EXCEPT !.state = "gone"] \in GroupRow
  BY DEF GroupRow, NoGroup
<1>3. \A c \in ContributionRow : c.state # "absent" =>
         /\ c.group \in Groups
         /\ \A s \in {"live", "soft", "gone"} :
              [c EXCEPT !.state = s] \in ContributionRow
  BY DEF ContributionRow, NoContribution
<1>4. \A e \in EntryRow : e.state = "posted" =>
         e.account \in Accounts /\ [e EXCEPT !.state = "deleted"] \in EntryRow
  BY DEF EntryRow, NoEntry
<1> QED
  BY <1>1, <1>2, <1>3, <1>4

\* What the deletion of an entry does to the rows, whoever asks for it.
LEMMA TriedRows ==
    ASSUME Tables, NEW u \in Users, NEW c \in Contributions, Tried(u, c)
    PROVE  /\ entry' \in [Contributions -> EntryRow]
           /\ row' \in [Contributions -> ContributionRow]
           /\ \A d \in Contributions :
                /\ row'[d].group = row[d].group
                /\ row[d].state # "absent" => row'[d].state # "absent"
                /\ row[d].state = "absent" => row'[d].state = "absent"
                /\ Posted(d)' => Posted(d)
                /\ Posted(d)' => row'[d] = row[d] /\ entry'[d] = entry[d]
                /\ row'[d].state = "live" =>
                     row[d].state = "live" /\ (Posted(d) => Posted(d)')
                /\ d # c => row'[d] = row[d] /\ entry'[d] = entry[d]
<1>1. CASE UNCHANGED <<entry, row>>
  BY <1>1 DEF Tables, Posted
<1>2. CASE Removed(u, c) /\ SeesEntry(u, c)
  <2>1. /\ entry' = [entry EXCEPT ![c].state = "deleted"]
        /\ row' = [row EXCEPT ![c].state = IF @ = "live" THEN "soft" ELSE @]
        /\ entry[c].state = "posted"
    BY <1>2 DEF Removed, SeesEntry, Posted
  <2>2. entry[c] \in EntryRow /\ row[c] \in ContributionRow
    BY DEF Tables
  <2> DEFINE e == [entry[c] EXCEPT !.state = "deleted"]
             k == [row[c] EXCEPT !.state = IF row[c].state = "live"
                                           THEN "soft" ELSE row[c].state]
  <2>3. e \in EntryRow /\ e.state = "deleted"
    BY <2>1, <2>2, RowFacts DEF EntryRow, NoEntry
  <2>4. /\ k \in ContributionRow /\ k.group = row[c].group /\ k.state # "live"
        /\ k.state = "absent" <=> row[c].state = "absent"
    BY <2>2 DEF ContributionRow, NoContribution
  <2>5. entry' = [entry EXCEPT ![c] = e] /\ row' = [row EXCEPT ![c] = k]
    BY <2>1
  <2> HIDE DEF e, k
  <2>6. entry'[c] = e /\ row'[c] = k
    BY <2>5 DEF Tables
  <2>7. /\ entry' \in [Contributions -> EntryRow] /\ row' \in [Contributions -> ContributionRow]
        /\ \A d \in Contributions \ {c} : entry'[d] = entry[d] /\ row'[d] = row[d]
    BY <2>3, <2>4, <2>5 DEF Tables
  <2> QED
    BY <2>1, <2>3, <2>4, <2>6, <2>7 DEF Tables, Posted
<1> QED
  BY <1>1, <1>2 DEF Tried, Removed

-----------------------------------------------------------------------------
(* Slots *)

\* A connection is taken only when there is one.
LEMMA PoolKept ==
    ASSUME Typed, NEW r \in Slots,
           \/ Holding' \subseteq Holding
           \/ Holding' \subseteq Holding \cup {r} /\ Free
    PROVE  Cardinality(Holding') <= PoolSize
<1> USE RotatingAssumption
<1>1. IsFiniteSet(Holding) /\ Cardinality(Holding) \in Nat
  BY FS_Subset, FS_CardinalityType DEF Holding
<1>2. Cardinality(Holding) <= PoolSize
  BY DEF Typed, TypeOK
<1>3. CASE Holding' \subseteq Holding
  BY <1>1, <1>2, <1>3, FS_Subset, FS_CardinalityType
<1>4. CASE Holding' \subseteq Holding \cup {r} /\ Free
  <2>1. /\ IsFiniteSet(Holding \cup {r})
        /\ \/ Cardinality(Holding \cup {r}) = Cardinality(Holding)
           \/ Cardinality(Holding \cup {r}) = Cardinality(Holding) + 1
    <3> HIDE DEF Holding
    <3> QED
      BY <1>1, FS_AddElement, Zenon
  <2>2. /\ Cardinality(Holding') <= Cardinality(Holding \cup {r})
        /\ Cardinality(Holding') \in Nat
        /\ Cardinality(Holding \cup {r}) \in Nat
    BY <1>4, <2>1, FS_Subset, FS_CardinalityType
  <2> QED
    BY <1>1, <1>4, <2>1, <2>2 DEF Free
<1> QED
  BY <1>3, <1>4

\* A slot whose request goes on as it was.
LEMMA OthersFit ==
    ASSUME Typed, Grow, NEW s \in Slots,
           step'[s] = step[s], req'[s] = req[s],
           step[s] = "contribute" => row'[req[s].contribution].state = "absent"
    PROVE  FitsAt(s)'
BY DEF Typed, FitsAt, Grow, Dropping

\* A request begins.
LEMMA StartTyped ==
    ASSUME Typed, NEW r \in Slots, NEW q \in RequestRow, NEW l \in Steps,
           Start(r, q, l), UNCHANGED <<group, row, entry, perm>>,
           l # "idle", q.user \in Users, q.group \in Groups,
           group[q.group].state # "absent",
           l \in {"update", "contribute"} => q.account \in Accounts,
           l = "contribute" =>
               q.contribution \in Contributions /\ Unused(q.contribution),
           l \in Dropping => /\ q.contribution \in Contributions
                             /\ row[q.contribution].state # "absent"
                             /\ row[q.contribution].group = q.group
    PROVE  Typed'
<1>1. /\ req' = [req EXCEPT ![r] = q] /\ step' = [step EXCEPT ![r] = l]
      /\ Free /\ step[r] = "idle"
      /\ req \in [Slots -> RequestRow] /\ step \in [Slots -> Steps]
  BY DEF Start, Typed, TypeOK, Steps
<1>2. Cardinality(Holding') <= PoolSize
  <2>1. Holding' \subseteq Holding \cup {r}
    BY <1>1 DEF Holding
  <2> QED
    BY <1>1, <2>1, PoolKept
<1>3. Tables' /\ Grow
  BY DEF Typed, TypeOK, Tables, Grow
<1>4. \A s \in Slots : FitsAt(s)'
  <2> SUFFICES ASSUME NEW s \in Slots PROVE FitsAt(s)'
    OBVIOUS
  <2>1. CASE s = r
    BY <1>1, <2>1 DEF FitsAt, Unused
  <2>2. CASE s # r
    BY <1>1, <1>3, <2>2, OthersFit DEF Typed, FitsAt
  <2> QED
    BY <2>1, <2>2
<1>5. ASSUME NEW s \in Slots, NEW t \in Slots, s # t,
             step'[s] = "contribute", step'[t] = "contribute"
      PROVE  req'[s].contribution # req'[t].contribution
  BY <1>1, <1>5 DEF Typed, Unused
<1> QED
  BY <1>1, <1>2, <1>3, <1>4, <1>5 DEF Typed, TypeOK, Tables, Steps

\* A request is answered, whatever it did to the rows last.
LEMMA AnswerTyped ==
    ASSUME Typed, NEW r \in Slots, Answer(r), Tables', Grow,
           \A s \in Slots \ {r} : step[s] = "contribute" =>
               row'[req[s].contribution].state = "absent"
    PROVE  Typed'
<1>1. /\ req' = [req EXCEPT ![r] = NoRequest] /\ step' = [step EXCEPT ![r] = "idle"]
      /\ req \in [Slots -> RequestRow] /\ step \in [Slots -> Steps]
      /\ NoRequest \in RequestRow
  BY DEF Answer, Typed, TypeOK, Steps, NoRequest, Request, RequestRow
<1>2. Cardinality(Holding') <= PoolSize
  <2>1. Holding' \subseteq Holding
    BY <1>1 DEF Holding
  <2> QED
    BY <2>1, PoolKept
<1>3. \A s \in Slots : FitsAt(s)'
  <2> SUFFICES ASSUME NEW s \in Slots PROVE FitsAt(s)'
    OBVIOUS
  <2>1. CASE s = r
    BY <1>1, <2>1 DEF FitsAt
  <2>2. CASE s # r
    BY <1>1, <2>2, OthersFit
  <2> QED
    BY <2>1, <2>2
<1>4. ASSUME NEW s \in Slots, NEW t \in Slots, s # t,
             step'[s] = "contribute", step'[t] = "contribute"
      PROVE  req'[s].contribution # req'[t].contribution
  BY <1>1, <1>4 DEF Typed
<1> QED
  BY <1>1, <1>2, <1>3, <1>4 DEF Typed, TypeOK, Tables, Steps

\* A step that leaves the slots alone.
LEMMA QuietTyped ==
    ASSUME Typed, Tables', Grow, UNCHANGED <<req, step>>,
           \A c \in Contributions : row[c].state = "absent" =>
               row'[c].state = "absent"
    PROVE  Typed'
<1>1. \A s \in Slots : FitsAt(s)'
  BY OthersFit DEF Typed, FitsAt
<1>2. Holding' = Holding
  BY DEF Holding
<1> QED
  BY <1>1, <1>2 DEF Typed, TypeOK, Tables

\* A request goes on to its next statement, with the rest of its list.
LEMMA MoveTyped ==
    ASSUME Typed, NEW r \in Slots, NEW l \in Dropping \cup {"group"},
           NEW todo \in SUBSET Contributions, Free,
           step' = [step EXCEPT ![r] = l],
           req' = [req EXCEPT ![r].todo = todo],
           step[r] \in Dropping \cup {"group"},
           l \in Dropping <=> step[r] \in Dropping,
           Tables', Grow,
           \A c \in Contributions : row[c].state = "absent" =>
               row'[c].state = "absent"
    PROVE  Typed'
<1> DEFINE q == [req[r] EXCEPT !.todo = todo]
<1>1. /\ req \in [Slots -> RequestRow] /\ step \in [Slots -> Steps]
      /\ l \in Steps
  BY DEF Typed, TypeOK, Steps, Dropping
<1>2. /\ q \in RequestRow /\ q.user = req[r].user /\ q.group = req[r].group
      /\ q.contribution = req[r].contribution /\ q.account = req[r].account
  BY <1>1 DEF RequestRow
<1>3. req' = [req EXCEPT ![r] = q]
  OBVIOUS
<1> HIDE DEF q
<1>4. Cardinality(Holding') <= PoolSize
  <2>1. Holding' \subseteq Holding \cup {r}
    BY <1>1 DEF Holding
  <2> QED
    BY <2>1, PoolKept
<1>5. \A s \in Slots : FitsAt(s)'
  <2> SUFFICES ASSUME NEW s \in Slots PROVE FitsAt(s)'
    OBVIOUS
  <2>1. CASE s = r
    BY <1>1, <1>2, <1>3, <2>1 DEF Typed, FitsAt, Grow, Dropping
  <2>2. CASE s # r
    BY <1>1, <1>3, <2>2, OthersFit DEF Typed, FitsAt
  <2> QED
    BY <2>1, <2>2
<1>6. ASSUME NEW s \in Slots, NEW t \in Slots, s # t,
             step'[s] = "contribute", step'[t] = "contribute"
      PROVE  req'[s].contribution # req'[t].contribution
  BY <1>1, <1>3, <1>6 DEF Typed, Dropping
<1>7. req' \in [Slots -> RequestRow] /\ step' \in [Slots -> Steps]
  BY <1>1, <1>2, <1>3
<1>8. TypeOK'
  BY <1>4, <1>7 DEF TypeOK, Tables, Steps
<1> QED
  BY <1>5, <1>6, <1>8 DEF Typed

-----------------------------------------------------------------------------
(* Types *)

LEMMA ArriveTyped == ASSUME Typed, NEW r \in Slots, Arrive(r) PROVE Typed'
<1> USE RotatingAssumption
<1>1. PICK u \in Users :
         \/ \E g \in Groups :
              \/ GroupList(r, u, g)
              \/ \E a \in Accounts \cup {None} : UpdateGet(r, u, g, a)
              \/ \E c \in Contributions : ContributeGet(r, u, g, c)
         \/ \E c \in Contributions : DropList(r, u, c)
  BY DEF Arrive
<1>2. group \in [Groups -> GroupRow] /\ row \in [Contributions -> ContributionRow]
  BY DEF Typed, TypeOK
<1>3. ASSUME NEW g \in Groups, GroupList(r, u, g) PROVE Typed'
  <2> DEFINE q == Request(u, g, None, None, Listed(g))
  <2>1. q \in RequestRow /\ q.user = u /\ q.group = g
    BY DEF Request, RequestRow, Listed
  <2>2. Start(r, q, "group") /\ Known(g)
    BY <1>3 DEF GroupList
  <2> HIDE DEF q
  <2> QED
    BY <1>3, <2>1, <2>2, StartTyped DEF GroupList, Known, Steps, Dropping
<1>4. ASSUME NEW g \in Groups, NEW asked \in Accounts \cup {None},
             UpdateGet(r, u, g, asked)
      PROVE  Typed'
  <2>1. /\ group[g].account \in Accounts /\ group[g].user = u
        /\ group[g].state # "absent"
    BY <1>2, <1>4, RowFacts DEF UpdateGet, Finds
  <2> DEFINE a == IF asked = None THEN group[g].account ELSE asked
             q == Request(u, g, None, a, {})
  <2>2. q \in RequestRow /\ q.user = u /\ q.group = g /\ q.account \in Accounts
    BY <2>1 DEF Request, RequestRow
  <2>3. Start(r, q, "update")
    BY <1>4 DEF UpdateGet
  <2> HIDE DEF q
  <2> QED
    BY <1>4, <2>1, <2>2, <2>3, StartTyped DEF UpdateGet, Steps, Dropping
<1>5. ASSUME NEW g \in Groups, NEW c \in Contributions,
             ContributeGet(r, u, g, c)
      PROVE  Typed'
  <2>1. /\ group[g].account \in Accounts /\ group[g].user = u
        /\ group[g].state # "absent"
    BY <1>2, <1>5, RowFacts DEF ContributeGet, Finds
  <2> DEFINE q == Request(u, g, c, group[g].account, {})
  <2>2. /\ q \in RequestRow /\ q.user = u /\ q.group = g
        /\ q.account \in Accounts /\ q.contribution = c
    BY <2>1 DEF Request, RequestRow
  <2>3. Start(r, q, "contribute") /\ Unused(c)
    BY <1>5 DEF ContributeGet
  <2> HIDE DEF q
  <2> QED
    BY <1>5, <2>1, <2>2, <2>3, StartTyped DEF ContributeGet, Steps, Dropping
<1>6. ASSUME NEW c \in Contributions, DropList(r, u, c) PROVE Typed'
  <2>1. /\ row[c].group \in Groups /\ Known(row[c].group)
        /\ row[c].state # "absent"
    BY <1>2, <1>6, RowFacts DEF DropList
  <2> DEFINE q == Request(u, row[c].group, c, None, {})
  <2>2. /\ q \in RequestRow /\ q.user = u /\ q.group = row[c].group
        /\ q.contribution = c
    BY <2>1 DEF Request, RequestRow
  <2>3. Start(r, q, "drop_begin")
    BY <1>6 DEF DropList
  <2> HIDE DEF q
  <2> QED
    BY <1>6, <2>1, <2>2, <2>3, StartTyped DEF DropList, Known, Steps, Dropping
<1> QED
  BY <1>1, <1>3, <1>4, <1>5, <1>6

LEMMA ServeTyped == ASSUME Typed, NEW r \in Slots, Serve(r) PROVE Typed'
<1> DEFINE q == req[r]
<1>1. /\ Tables /\ FitsAt(r)
      /\ req \in [Slots -> RequestRow] /\ step \in [Slots -> Steps]
  BY DEF Typed, TypeOK, Tables, Steps
<1>2. \A s \in Slots : step[s] = "contribute" =>
         /\ req[s].contribution \in Contributions
         /\ row[req[s].contribution].state = "absent"
  BY DEF Typed, FitsAt
<1>3. CASE UpdateSet(r)
  <2>1. q.group \in Groups /\ q.account \in Accounts
    BY <1>1, <1>3 DEF UpdateSet, FitsAt
  <2> DEFINE k == [group[q.group] EXCEPT !.account =
                     IF Finds(q.user, q.group) THEN q.account ELSE @]
  <2>2. k \in GroupRow /\ k.state = group[q.group].state /\ k.user = group[q.group].user
    BY <1>1, <2>1 DEF Tables, GroupRow, NoGroup, Finds
  <2>3. group' = [group EXCEPT ![q.group] = k]
    BY <1>3 DEF UpdateSet
  <2> HIDE DEF k
  <2>4. Tables' /\ Grow
    BY <1>1, <1>3, <2>1, <2>2, <2>3 DEF UpdateSet, Tables, Grow
  <2> QED
    BY <1>2, <1>3, <2>4, AnswerTyped DEF UpdateSet
<1>4. CASE Contribute(r)
  <2>1. /\ q.group \in Groups /\ q.account \in Accounts
        /\ q.contribution \in Contributions
        /\ row[q.contribution].state = "absent"
    BY <1>1, <1>4 DEF Contribute, FitsAt
  <2> DEFINE e == [state |-> "posted", account |-> q.account]
             k == [state |-> "live", group |-> q.group]
  <2>2. e \in EntryRow /\ k \in ContributionRow
    BY <2>1 DEF EntryRow, ContributionRow
  <2>3. /\ UNCHANGED <<group, perm>>
        /\ \/ UNCHANGED <<entry, row>>
           \/ /\ entry' = [entry EXCEPT ![q.contribution] = e]
              /\ row' = [row EXCEPT ![q.contribution] = k]
    BY <1>4 DEF Contribute
  <2> HIDE DEF e, k
  <2>4. Tables' /\ Grow
    BY <1>1, <2>1, <2>2, <2>3 DEF Tables, Grow
  <2>5. ASSUME NEW s \in Slots \ {r}, step[s] = "contribute"
        PROVE  row'[req[s].contribution].state = "absent"
    <3>1. req[s].contribution # q.contribution
      BY <1>4, <2>5 DEF Contribute, Typed
    <3> QED
      BY <1>1, <1>2, <1>4, <2>1, <2>5, <3>1 DEF Contribute, Tables
  <2> QED
    BY <1>4, <2>4, <2>5, AnswerTyped DEF Contribute
<1>5. CASE DropBegin(r)
  <2>1. Tables' /\ Grow
    BY <1>1, <1>5 DEF DropBegin, Tables, Grow
  <2>2. req' = [req EXCEPT ![r].todo = q.todo] /\ q.todo \in SUBSET Contributions
    BY <1>1, <1>5 DEF DropBegin, Goto, RequestRow
  <2> QED
    BY <1>5, <2>1, <2>2, MoveTyped DEF DropBegin, Goto, Dropping
<1>6. CASE DropEntry(r)
  <2>1. q.user \in Users /\ q.contribution \in Contributions
    BY <1>1, <1>6 DEF DropEntry, FitsAt, Dropping
  <2>2. /\ Tables' /\ Grow
        /\ \A c \in Contributions : row[c].state = "absent" =>
             row'[c].state = "absent"
    BY <1>1, <1>6, <2>1, TriedRows DEF DropEntry, Tables, Grow
  <2>3. req' = [req EXCEPT ![r].todo = q.todo] /\ q.todo \in SUBSET Contributions
    BY <1>1, <1>6 DEF DropEntry, Goto, RequestRow
  <2> QED
    BY <1>6, <2>2, <2>3, MoveTyped DEF DropEntry, Goto, Dropping
<1>7. CASE DropRow(r)
  <2>1. q.contribution \in Contributions /\ row[q.contribution].state # "absent"
    BY <1>1, <1>7 DEF DropRow, FitsAt, Dropping
  <2> DEFINE k == [row[q.contribution] EXCEPT !.state = "gone"]
  <2>2. /\ k \in ContributionRow /\ k.state # "absent"
        /\ k.group = row[q.contribution].group
    BY <1>1, <2>1 DEF Tables, ContributionRow, NoContribution
  <2>3. row' = [row EXCEPT ![q.contribution] = k]
    BY <1>7 DEF DropRow
  <2> HIDE DEF k
  <2>4. Tables' /\ Grow
    BY <1>1, <1>7, <2>1, <2>2, <2>3 DEF DropRow, Tables, Grow
  <2> QED
    BY <1>1, <1>2, <1>7, <2>1, <2>3, <2>4, AnswerTyped DEF DropRow, Tables
<1>8. CASE GroupGone(r)
  <2>1. q.group \in Groups /\ group[q.group].state # "absent"
    BY <1>1, <1>8 DEF GroupGone, FitsAt
  <2> DEFINE k == IF Finds(q.user, q.group)
                   THEN [group[q.group] EXCEPT !.state = "gone"] ELSE group[q.group]
  <2>2. k \in GroupRow /\ k.state # "absent" /\ k.user = group[q.group].user
    BY <1>1, <2>1 DEF Tables, GroupRow, NoGroup
  <2>3. group' = [group EXCEPT ![q.group] = k]
    BY <1>1, <1>8, <2>1 DEF GroupGone, Tables
  <2> HIDE DEF k
  <2>4. \A c \in Contributions :
           /\ row'[c] \in ContributionRow
           /\ row'[c].state = "absent" <=> row[c].state = "absent"
           /\ row'[c].group = row[c].group
    BY <1>1, <1>8 DEF GroupGone, Listed, Tables, ContributionRow, NoContribution
  <2>5. row' \in [Contributions -> ContributionRow]
    BY <1>1, <1>8, <2>4 DEF GroupGone, Tables
  <2>6. Tables' /\ Grow
    BY <1>1, <1>8, <2>1, <2>2, <2>3, <2>4, <2>5 DEF GroupGone, Tables, Grow
  <2> QED
    BY <1>2, <1>8, <2>4, <2>6, AnswerTyped DEF GroupGone
<1>9. ASSUME NEW c \in Contributions, GroupEntry(r, c) PROVE Typed'
  <2>1. q.user \in Users /\ q.todo \in SUBSET Contributions
    BY <1>1, <1>9 DEF GroupEntry, FitsAt, RequestRow
  <2>2. /\ Tables' /\ Grow
        /\ \A d \in Contributions : row[d].state = "absent" =>
             row'[d].state = "absent"
    BY <1>1, <1>9, <2>1, TriedRows DEF GroupEntry, Tables, Grow
  <2>3. /\ req' = [req EXCEPT ![r].todo = q.todo \ {c}]
        /\ step' = [step EXCEPT ![r] = "group"]
        /\ q.todo \ {c} \in SUBSET Contributions
        /\ step[r] = "group" /\ Free
    BY <1>1, <1>9, <2>1 DEF GroupEntry
  <2> QED
    BY <2>2, <2>3, MoveTyped DEF Dropping
<1> QED
  BY <1>3, <1>4, <1>5, <1>6, <1>7, <1>8, <1>9 DEF Serve

LEMMA TypedStep == Typed /\ [Next]_vars => Typed'
<1> SUFFICES ASSUME Typed, [Next]_vars PROVE Typed'
  OBVIOUS
<1>1. Tables
  BY DEF Typed, TypeOK, Tables
<1>2. ASSUME NEW r \in Slots, Abort(r) PROVE Typed'
  <2>1. Tables' /\ Grow
    BY <1>1, <1>2 DEF Abort, Tables, Grow
  <2> QED
    BY <1>2, <2>1, AnswerTyped DEF Abort, Typed, FitsAt
<1>3. ASSUME NEW u \in Users, NEW c \in Contributions, Remove(u, c) PROVE Typed'
  <2>1. /\ Tables' /\ Grow
        /\ \A d \in Contributions : row[d].state = "absent" =>
             row'[d].state = "absent"
    BY <1>1, <1>3, TriedRows DEF Remove, Tried, Tables, Grow
  <2> QED
    BY <1>3, <2>1, QuietTyped DEF Remove
<1>4. ASSUME NEW u \in Users, NEW a \in Accounts, NEW g \in Groups,
             CreateGroup(u, g, a)
      PROVE  Typed'
  <2>1. Tables' /\ Grow
    BY <1>1, <1>4 DEF CreateGroup, Tables, Grow, GroupRow
  <2> QED
    BY <1>4, <2>1, QuietTyped DEF CreateGroup
<1>5. ASSUME NEW u \in Users, NEW a \in Accounts, NEW p \in Permission,
             Reshare(u, a, p)
      PROVE  Typed'
  <2> DEFINE k == [perm[u] EXCEPT ![a] = p]
  <2>1. k \in [Accounts -> Permission]
    BY <1>1 DEF Tables
  <2>2. perm' = [perm EXCEPT ![u] = k]
    BY <1>5 DEF Reshare
  <2> HIDE DEF k
  <2>3. Tables' /\ Grow
    BY <1>1, <1>5, <2>1, <2>2 DEF Reshare, Tables, Grow
  <2> QED
    BY <1>5, <2>3, QuietTyped DEF Reshare
<1>6. CASE UNCHANGED vars
  BY <1>1, <1>6, QuietTyped DEF vars, Tables, Grow
<1> QED
  BY <1>2, <1>3, <1>4, <1>5, <1>6, ArriveTyped, ServeTyped DEF Next

LEMMA TypedInit == Init => Typed
<1> SUFFICES ASSUME Init PROVE Typed
  OBVIOUS
<1> USE RotatingAssumption
<1>1. Holding = {}
  BY DEF Init, Holding
<1>2. Cardinality(Holding) = 0
  BY <1>1, FS_EmptySet
<1>3. NoRequest \in RequestRow
  BY DEF NoRequest, Request, RequestRow
<1> QED
  BY <1>2, <1>3 DEF Init, Typed, TypeOK, FitsAt, GroupRow, ContributionRow, EntryRow

LEMMA TypedAlways == Spec => []Typed
BY TypedInit, TypedStep, PTL DEF Spec

\* The tables hold what the schema allows, every slot serves the request its
\* statement belongs to, and no connection of the pool is given out twice.
THEOREM RotatingTyped == Spec => []TypeOK
BY TypedAlways, PTL DEF Typed

-----------------------------------------------------------------------------
(* Contributions and their entries *)

\* The steps that change neither entries nor which contributions are live,
\* except by taking some away.
Fewer ==
    /\ UNCHANGED entry
    /\ \A c \in Contributions : row'[c].state = "live" => row'[c] = row[c]

\* All that can happen to entries and contributions.
LEMMA RowSteps ==
    ASSUME Typed, [Next]_vars
    PROVE  \/ Fewer
           \/ \E u \in Users, c \in Contributions : Tried(u, c)
           \/ \E r \in Slots : Contribute(r)
<1>1. CASE \E r \in Slots : Arrive(r) \/ Abort(r)
  BY <1>1 DEF Arrive, Abort, GroupList, UpdateGet, ContributeGet, DropList, Fewer
<1>2. ASSUME NEW r \in Slots, Serve(r), ~Contribute(r)
      PROVE  Fewer \/ \E u \in Users, c \in Contributions : Tried(u, c)
  <2>1. FitsAt(r) /\ row \in [Contributions -> ContributionRow]
    BY DEF Typed, TypeOK
  <2>2. CASE UpdateSet(r) \/ DropBegin(r)
    BY <2>2 DEF UpdateSet, DropBegin, Fewer
  <2>3. CASE DropEntry(r)
    BY <2>1, <2>3 DEF DropEntry, FitsAt, Dropping
  <2>4. CASE DropRow(r)
    BY <2>1, <2>4 DEF DropRow, Fewer, FitsAt, Dropping
  <2>5. CASE GroupGone(r)
    <3>1. \A c \in Contributions : row'[c] = row[c] \/
             row'[c] = IF c \in Listed(req[r].group)
                       THEN [row[c] EXCEPT !.state = "gone"] ELSE row[c]
      BY <2>5 DEF GroupGone
    <3>2. \A c \in Contributions : [row[c] EXCEPT !.state = "gone"].state # "live"
      BY <2>1 DEF ContributionRow, NoContribution
    <3> QED
      BY <2>5, <3>1, <3>2 DEF GroupGone, Fewer
  <2>6. CASE \E c \in Contributions : GroupEntry(r, c)
    BY <2>1, <2>6 DEF GroupEntry, FitsAt
  <2> QED
    BY <1>2, <2>2, <2>3, <2>4, <2>5, <2>6 DEF Serve
<1>3. CASE \E u \in Users, c \in Contributions : Remove(u, c)
  BY <1>3 DEF Remove, Tried
<1>4. CASE \/ \E u \in Users, a \in Accounts, g \in Groups : CreateGroup(u, g, a)
           \/ \E u \in Users, a \in Accounts, p \in Permission : Reshare(u, a, p)
           \/ UNCHANGED vars
  BY <1>4 DEF CreateGroup, Reshare, vars, Fewer
<1> QED
  BY <1>1, <1>2, <1>3, <1>4 DEF Next

\* Contributions that are not voided are in the ledger, after any deletions,
\* retries and interruptions.
THEOREM ContributionsPosted == Spec => []ContributionsArePosted
<1>1. Init => ContributionsArePosted
  BY DEF Init, ContributionsArePosted, NoContribution
<1>2. ASSUME Typed, [Next]_vars, ContributionsArePosted
      PROVE  ContributionsArePosted'
  <2>1. Tables
    BY <1>2 DEF Typed, TypeOK, Tables
  <2>2. CASE Fewer
    BY <1>2, <2>2 DEF Fewer, ContributionsArePosted, Posted
  <2>3. ASSUME NEW u \in Users, NEW c \in Contributions, Tried(u, c)
        PROVE  ContributionsArePosted'
    BY <1>2, <2>1, <2>3, TriedRows DEF ContributionsArePosted
  <2>4. ASSUME NEW r \in Slots, Contribute(r) PROVE ContributionsArePosted'
    BY <1>2, <2>1, <2>4
    DEF Contribute, ContributionsArePosted, Posted, Tables, Typed, FitsAt
  <2> QED
    BY <1>2, <2>2, <2>3, <2>4, RowSteps
<1> QED
  BY <1>1, <1>2, TypedAlways, PTL DEF Spec

-----------------------------------------------------------------------------
(* Contributions and the account of their group, when traffic is apart *)

\* What a contribution under way has read of its group still holds.
FreshAt(r) ==
    step[r] = "contribute" =>
      /\ req[r].account = group[req[r].group].account
      /\ \A s \in Slots : step[s] \in {"update", "group"} =>
                            req[s].group # req[r].group

Fresh == \A r \in Slots : FreshAt(r)

\* A slot that begins a request.
LEMMA ArriveFresh ==
    ASSUME Traffic = "apart", Typed, Fresh, NEW r \in Slots, Arrive(r)
    PROVE  Fresh'
<1>1. /\ UNCHANGED <<group, row, entry, perm>> /\ step[r] = "idle"
      /\ \A s \in Slots \ {r} : step'[s] = step[s] /\ req'[s] = req[s]
      /\ req \in [Slots -> RequestRow] /\ step \in [Slots -> Steps]
  BY DEF Arrive, GroupList, UpdateGet, ContributeGet, DropList, Start,
         Typed, TypeOK, Steps
<1>2. PICK u \in Users :
         \/ \E g \in Groups :
              \/ GroupList(r, u, g)
              \/ \E a \in Accounts \cup {None} : UpdateGet(r, u, g, a)
              \/ \E c \in Contributions : ContributeGet(r, u, g, c)
         \/ \E c \in Contributions : DropList(r, u, c)
  BY DEF Arrive
<1>3. ASSUME NEW g \in Groups, NEW l \in {"update", "group"},
             step'[r] = l, req'[r].group = g, ~Busy(g, {"contribute"})
      PROVE  Fresh'
  BY <1>1, <1>3 DEF Fresh, FreshAt, Busy
<1>4. ASSUME NEW g \in Groups, GroupList(r, u, g) PROVE Fresh'
  <2>1. /\ step'[r] = "group" /\ req'[r].group = g /\ ~Busy(g, {"contribute"})
    BY <1>1, <1>4 DEF GroupList, Start, Request
  <2> QED
    BY <1>3, <2>1
<1>5. ASSUME NEW g \in Groups, NEW a \in Accounts \cup {None},
             UpdateGet(r, u, g, a)
      PROVE  Fresh'
  <2>1. /\ step'[r] = "update" /\ req'[r].group = g /\ ~Busy(g, {"contribute"})
    BY <1>1, <1>5 DEF UpdateGet, Start, Request
  <2> QED
    BY <1>3, <2>1
<1>6. ASSUME NEW g \in Groups, NEW c \in Contributions,
             ContributeGet(r, u, g, c)
      PROVE  Fresh'
  <2>1. /\ step'[r] = "contribute" /\ req'[r].group = g
        /\ req'[r].account = group[g].account
        /\ ~Busy(g, {"update", "group"})
    BY <1>1, <1>6 DEF ContributeGet, Start, Request
  <2> QED
    BY <1>1, <2>1 DEF Fresh, FreshAt, Busy
<1>7. ASSUME NEW c \in Contributions, DropList(r, u, c) PROVE Fresh'
  <2>1. step'[r] = "drop_begin"
    BY <1>1, <1>7 DEF DropList, Start
  <2> QED
    BY <1>1, <2>1 DEF Fresh, FreshAt
<1> QED
  BY <1>2, <1>4, <1>5, <1>6, <1>7

\* Contributions under way as long as nobody begins or writes anew.
LEMMA FreshStays ==
    ASSUME Fresh,
           \A s \in Slots :
             \/ /\ step'[s] = step[s] /\ req'[s].group = req[s].group
                /\ req'[s].account = req[s].account
             \/ step'[s] \notin {"contribute", "update", "group"},
           \A s \in Slots : step[s] = "contribute" =>
             group'[req[s].group].account = group[req[s].group].account
    PROVE  Fresh'
BY DEF Fresh, FreshAt

LEMMA ServeFresh ==
    ASSUME Traffic = "apart", Typed, Fresh, NEW r \in Slots, Serve(r)
    PROVE  Fresh'
<1> DEFINE q == req[r]
<1>1. /\ FitsAt(r) /\ Tables
      /\ req \in [Slots -> RequestRow] /\ step \in [Slots -> Steps]
      /\ \A s \in Slots : step[s] = "contribute" => req[s].group \in Groups
  BY DEF Typed, TypeOK, Steps, Tables, FitsAt
<1>2. ASSUME Answer(r)
      PROVE  /\ \A s \in Slots \ {r} : step'[s] = step[s] /\ req'[s] = req[s]
             /\ step'[r] = "idle"
  BY <1>1, <1>2 DEF Answer
<1>3. CASE UpdateSet(r)
  <2>1. Answer(r) /\ step[r] = "update"
    BY <1>3 DEF UpdateSet
  <2>2. \A g \in Groups : g # q.group => group'[g] = group[g]
    BY <1>1, <1>3 DEF UpdateSet, Tables, FitsAt
  <2>3. \A s \in Slots : step[s] = "contribute" => req[s].group # q.group
    BY <2>1 DEF Fresh, FreshAt
  <2> QED
    BY <1>1, <1>2, <2>1, <2>2, <2>3, FreshStays
<1>4. CASE Contribute(r) \/ DropRow(r)
  BY <1>1, <1>2, <1>4, FreshStays DEF Contribute, DropRow
<1>5. CASE DropBegin(r) \/ DropEntry(r)
  <2>1. /\ UNCHANGED <<group, req>>
        /\ \/ step' = [step EXCEPT ![r] = "drop_entry"]
           \/ step' = [step EXCEPT ![r] = "drop_row"]
    BY <1>5 DEF DropBegin, DropEntry, Goto
  <2> QED
    BY <1>1, <2>1, FreshStays
<1>6. CASE GroupGone(r)
  <2>1. Answer(r)
    BY <1>6 DEF GroupGone
  <2>2. \A g \in Groups : group'[g].account = group[g].account
    BY <1>1, <1>6 DEF GroupGone, Tables, GroupRow, NoGroup
  <2> QED
    BY <1>1, <1>2, <2>1, <2>2, FreshStays
<1>7. CASE \E c \in Contributions : GroupEntry(r, c)
  <2>1. PICK c \in Contributions :
           /\ UNCHANGED <<group, step>>
           /\ req' = [req EXCEPT ![r].todo = q.todo \ {c}]
    BY <1>7 DEF GroupEntry
  <2>2. /\ req'[r].group = q.group /\ req'[r].account = q.account
        /\ \A s \in Slots \ {r} : req'[s] = req[s]
    BY <1>1, <2>1 DEF RequestRow
  <2> QED
    BY <2>1, <2>2, FreshStays
<1> QED
  BY <1>3, <1>4, <1>5, <1>6, <1>7 DEF Serve

LEMMA FreshStep ==
    ASSUME Traffic = "apart", Typed, Fresh, [Next]_vars
    PROVE  Fresh'
<1>1. Tables /\ step \in [Slots -> Steps]
      /\ \A s \in Slots : step[s] = "contribute" =>
           req[s].group \in Groups /\ group[req[s].group].state # "absent"
  BY DEF Typed, TypeOK, Tables, Steps, FitsAt
<1>2. ASSUME NEW r \in Slots, Abort(r) PROVE Fresh'
  <2>1. /\ UNCHANGED group /\ step'[r] = "idle"
        /\ \A s \in Slots \ {r} : step'[s] = step[s] /\ req'[s] = req[s]
    BY <1>1, <1>2 DEF Abort, Answer
  <2> QED
    BY <2>1, FreshStays
<1>3. CASE \/ \E u \in Users, c \in Contributions : Remove(u, c)
           \/ \E u \in Users, a \in Accounts, p \in Permission : Reshare(u, a, p)
           \/ UNCHANGED vars
  BY <1>3, FreshStays DEF Remove, Reshare, vars
<1>4. ASSUME NEW u \in Users, NEW a \in Accounts, NEW g \in Groups,
             CreateGroup(u, g, a)
      PROVE  Fresh'
  <2>1. /\ UNCHANGED <<req, step>> /\ group[g].state = "absent"
        /\ \A h \in Groups \ {g} : group'[h] = group[h]
    BY <1>1, <1>4 DEF CreateGroup, Tables
  <2> QED
    BY <1>1, <2>1, FreshStays
<1> QED
  BY <1>2, <1>3, <1>4, ArriveFresh, ServeFresh DEF Next

LEMMA FreshAlways ==
    ASSUME Traffic = "apart"
    PROVE  Spec => [](Typed /\ Fresh)
<1>1. Init => Fresh
  BY DEF Init, Fresh, FreshAt
<1>2. Typed /\ Fresh /\ [Next]_vars => Typed' /\ Fresh'
  BY TypedStep, FreshStep
<1> QED
  BY <1>1, <1>2, TypedInit, PTL DEF Spec

\* As long as traffic is apart, a contribution is posted to the account its
\* group has when it is posted, though the group was read before.
THEOREM PostedToGroupsAccounts ==
    ASSUME Traffic = "apart"
    PROVE  Spec => PostedToTheGroupsAccount
<1>1. ASSUME Typed, Fresh, [Next]_vars,
             NEW c \in Contributions, ~Posted(c), Posted(c)'
      PROVE  entry'[c].account = group'[row'[c].group].account
  <2>1. Tables
    BY <1>1 DEF Typed, TypeOK, Tables
  <2>2. ~Fewer
    BY <1>1 DEF Fewer, Posted
  <2>3. ~\E u \in Users, d \in Contributions : Tried(u, d)
    BY <1>1, <2>1, TriedRows
  <2>4. PICK r \in Slots : Contribute(r)
    BY <1>1, <2>2, <2>3, RowSteps
  <2>5. FitsAt(r) /\ FreshAt(r)
    BY <1>1 DEF Typed, Fresh
  <2> QED
    BY <1>1, <2>1, <2>4, <2>5 DEF Contribute, FitsAt, FreshAt, Tables, Posted
<1>2. Typed /\ Fresh /\ [Next]_vars =>
        [\A c \in Contributions :
           ~Posted(c) /\ Posted(c)' =>
              entry'[c].account = group'[row'[c].group].account]_vars
  BY <1>1
<1> QED
  BY <1>2, FreshAlways, PTL DEF Spec, PostedToTheGroupsAccount
-----------------------------------------------------------------------------
(* The connection pool *)

AccountedFor(r) ==
    /\ phase[r] \in {"idle", "asks"} => Pool!Held(r) = {}
    /\ phase[r] \in {"works", "asks again"} => \E c \in Conns : Pool!Held(r) = {c}
    /\ phase[r] = "works within" => \E c, d \in Conns : c # d /\ Pool!Held(r) = {c, d}
Accounted == \A r \in PoolSlots : AccountedFor(r)

InLine ==
    /\ \A i \in 1..Len(waiting) : Pool!Waits(waiting[i])
    /\ \A i, j \in 1..Len(waiting) : waiting[i] = waiting[j] => i = j

Nesting ==
    \A r \in PoolSlots :
      inner[r] > 0 \/ phase[r] \in {"asks again", "works within"} => r \in Nesters

PoolInv == Pool!TypeOK /\ Accounted /\ InLine /\ Nesting

-----------------------------------------------------------------------------
(* What becomes of the connections when one is given, given back, or all   *)
(* are returned.                                                           *)

LEMMA ConnectionGiven ==
    ASSUME Pool!PoolAssumption, holder \in [Conns -> PoolSlots \cup {None}],
           NEW c \in Conns, holder[c] = None, NEW r \in PoolSlots,
           holder' = [holder EXCEPT ![c] = r]
    PROVE  /\ holder' \in [Conns -> PoolSlots \cup {None}]
           /\ Pool!Held(r)' = Pool!Held(r) \cup {c} /\ c \notin Pool!Held(r)
           /\ \A s \in PoolSlots \ {r} : Pool!Held(s)' = Pool!Held(s)
  BY DEF Pool!Held, Pool!PoolAssumption

LEMMA ConnectionGivenBack ==
    ASSUME Pool!PoolAssumption, holder \in [Conns -> PoolSlots \cup {None}],
           NEW r \in PoolSlots, NEW c \in Pool!Held(r),
           holder' = [holder EXCEPT ![c] = None]
    PROVE  /\ holder' \in [Conns -> PoolSlots \cup {None}]
           /\ Pool!Held(r)' = Pool!Held(r) \ {c}
           /\ \A s \in PoolSlots \ {r} : Pool!Held(s)' = Pool!Held(s)
  BY DEF Pool!Held, Pool!PoolAssumption

LEMMA ConnectionsReturned ==
    ASSUME Pool!PoolAssumption, holder \in [Conns -> PoolSlots \cup {None}],
           NEW r \in PoolSlots, holder' = Pool!Returned(r)
    PROVE  /\ holder' \in [Conns -> PoolSlots \cup {None}]
           /\ Pool!Held(r)' = {}
           /\ \A s \in PoolSlots \ {r} : Pool!Held(s)' = Pool!Held(s)
  BY DEF Pool!Held, Pool!Returned, Pool!PoolAssumption

LEMMA ConnectionsKept ==
    ASSUME UNCHANGED holder
    PROVE  \A s \in PoolSlots : Pool!Held(s)' = Pool!Held(s)
  BY DEF Pool!Held

-----------------------------------------------------------------------------
(* The queue. *)

\* A request that does not wait is not in the queue.
LEMMA NotInLine ==
    ASSUME InLine, NEW r, ~Pool!Waits(r)
    PROVE  \A i \in 1..Len(waiting) : waiting[i] # r
  BY DEF InLine

LEMMA OneMorePlace ==
    ASSUME NEW n \in Nat, NEW m, m = n + 1
    PROVE  \A i \in 1..m : i \in 1..n \/ i = n + 1
  OBVIOUS

LEMMA InTheLine ==
    ASSUME waiting \in Seq(PoolSlots)
    PROVE  Len(waiting) \in Nat /\ \A i \in 1..Len(waiting) : waiting[i] \in PoolSlots
  OBVIOUS

\* A request that joins the queue comes last.
LEMMA Joined ==
    ASSUME waiting \in Seq(PoolSlots), NEW r \in PoolSlots, waiting' = Append(waiting, r)
    PROVE  /\ waiting' \in Seq(PoolSlots)
           /\ Len(waiting') = Len(waiting) + 1
           /\ \A i \in 1..Len(waiting) : waiting'[i] = waiting[i]
           /\ waiting'[Len(waiting) + 1] = r
  OBVIOUS

LEMMA Served ==
    ASSUME waiting \in Seq(PoolSlots), waiting # << >>, waiting' = Tail(waiting)
    PROVE  /\ waiting' \in Seq(PoolSlots) /\ Head(waiting) \in PoolSlots
           /\ Len(waiting) \in Nat \ {0} /\ Head(waiting) = waiting[1]
           /\ Len(waiting') = Len(waiting) - 1
           /\ \A i \in 1..Len(waiting') : waiting'[i] = waiting[i + 1]
  OBVIOUS

LEMMA ClosedUp ==
    ASSUME waiting \in Seq(PoolSlots), NEW k \in 1..Len(waiting), waiting' = Pool!Without(k)
    PROVE  /\ waiting' \in Seq(PoolSlots)
           /\ Len(waiting') = Len(waiting) - 1
           /\ \A i \in 1..Len(waiting') :
                waiting'[i] = IF i < k THEN waiting[i] ELSE waiting[i + 1]
<1>1. Len(waiting) \in Nat /\ \A i \in 1..Len(waiting) : waiting[i] \in PoolSlots
  OBVIOUS
<1>2. Len(waiting) - 1 \in Nat
  BY <1>1
<1>3. waiting' \in [1..(Len(waiting) - 1) -> PoolSlots]
  BY <1>1, <1>2 DEF Pool!Without
<1> QED
  BY <1>1, <1>2, <1>3 DEF Pool!Without

-----------------------------------------------------------------------------
(* The invariant *)

\* What a step of one request leaves to show.
LEMMA OneRequest ==
    ASSUME PoolInv, NEW r \in PoolSlots,
           NEW f \in Pool!Phases, phase' = [phase EXCEPT ![r] = f],
           NEW n \in 0..MaxInner, inner' = [inner EXCEPT ![r] = n],
           holder' \in [Conns -> PoolSlots \cup {None}],
           \A s \in PoolSlots \ {r} : Pool!Held(s)' = Pool!Held(s),
           AccountedFor(r)', n > 0 \/ f \in {"asks again", "works within"} => r \in Nesters,
           waiting' \in Seq(PoolSlots), InLine'
    PROVE  PoolInv'
<1>1. Pool!TypeOK'
  BY DEF PoolInv, Pool!TypeOK
<1>2. \A s \in PoolSlots \ {r} : phase'[s] = phase[s] /\ inner'[s] = inner[s]
  BY DEF PoolInv, Pool!TypeOK
<1>3. phase'[r] = f /\ inner'[r] = n
  BY DEF PoolInv, Pool!TypeOK
<1>4. ASSUME NEW s \in PoolSlots \ {r}
      PROVE  AccountedFor(s)'
  <2>1. Pool!Held(s)' = Pool!Held(s) /\ phase'[s] = phase[s]
    BY <1>2
  <2>2. AccountedFor(s)
    BY DEF PoolInv, Accounted
  <2> QED
    BY <2>1, <2>2 DEF AccountedFor
<1>5. Accounted'
  BY <1>4 DEF Accounted
<1>6. Nesting'
  BY <1>2, <1>3 DEF PoolInv, Nesting
<1> QED
  BY <1>1, <1>5, <1>6 DEF PoolInv

\* A request that neither waited nor will leaves the queue as it is.
LEMMA SameLine ==
    ASSUME PoolInv, NEW r \in PoolSlots, ~Pool!Waits(r), UNCHANGED waiting,
           NEW f, phase' = [phase EXCEPT ![r] = f]
    PROVE  InLine'
<1>1. \A i \in 1..Len(waiting) : waiting[i] # r /\ waiting[i] \in PoolSlots
  BY NotInLine DEF PoolInv, Pool!TypeOK
<1>2. \A i \in 1..Len(waiting) : phase'[waiting[i]] = phase[waiting[i]]
  BY <1>1 DEF PoolInv, Pool!TypeOK
<1> QED
  BY <1>2 DEF PoolInv, InLine, Pool!Waits

\* One that begins to wait goes to its end.
LEMMA LongerLine ==
    ASSUME PoolInv, NEW r \in PoolSlots, ~Pool!Waits(r), waiting' = Append(waiting, r),
           NEW f \in {"asks", "asks again"}, phase' = [phase EXCEPT ![r] = f]
    PROVE  waiting' \in Seq(PoolSlots) /\ InLine'
<1>1a. waiting \in Seq(PoolSlots)
  BY DEF PoolInv, Pool!TypeOK
<1>1. waiting \in Seq(PoolSlots) /\ Len(waiting) \in Nat
  BY <1>1a, InTheLine
<1>2. /\ waiting' \in Seq(PoolSlots) /\ Len(waiting') = Len(waiting) + 1
      /\ \A i \in 1..Len(waiting) : waiting'[i] = waiting[i]
      /\ waiting'[Len(waiting) + 1] = r
  BY <1>1, Joined
<1>3a. \A i \in 1..Len(waiting) : waiting[i] # r
  BY NotInLine DEF PoolInv
<1>3. \A i \in 1..Len(waiting) : waiting[i] # r /\ waiting[i] \in PoolSlots
  BY <1>1, <1>3a, InTheLine
<1>4. \A i \in 1..Len(waiting) : phase'[waiting[i]] = phase[waiting[i]]
  BY <1>3 DEF PoolInv, Pool!TypeOK
<1>5. phase'[r] = f
  BY DEF PoolInv, Pool!TypeOK
<1>6. \A i \in 1..Len(waiting) : phase[waiting[i]] \in {"asks", "asks again"}
  BY DEF PoolInv, InLine, Pool!Waits
<1>7. \A i, j \in 1..Len(waiting) : waiting[i] = waiting[j] => i = j
  BY DEF PoolInv, InLine
<1>8. \A i \in 1..Len(waiting') : phase'[waiting'[i]] \in {"asks", "asks again"}
  <2> SUFFICES ASSUME NEW i \in 1..Len(waiting')
               PROVE  phase'[waiting'[i]] \in {"asks", "asks again"}
    OBVIOUS
  <2>1. i \in 1..Len(waiting) \/ i = Len(waiting) + 1
    BY <1>1, <1>2, OneMorePlace
  <2> QED
    BY <2>1, <1>2, <1>4, <1>5, <1>6
<1>9. \A i, j \in 1..Len(waiting') : waiting'[i] = waiting'[j] => i = j
  <2> SUFFICES ASSUME NEW i \in 1..Len(waiting'), NEW j \in 1..Len(waiting'),
                      waiting'[i] = waiting'[j]
               PROVE  i = j
    OBVIOUS
  <2>1. /\ i \in 1..Len(waiting) \/ i = Len(waiting) + 1
        /\ j \in 1..Len(waiting) \/ j = Len(waiting) + 1
    BY <1>1, <1>2, OneMorePlace
  <2> QED
    BY <2>1, <1>2, <1>3, <1>7
<1> QED
  BY <1>2, <1>8, <1>9 DEF InLine, Pool!Waits

LEMMA PoolInit ==
    ASSUME Pool!PoolAssumption, Pool!Init
    PROVE  PoolInv
<1>1. Pool!TypeOK
  BY DEF Pool!Init, Pool!TypeOK, Pool!Phases, Pool!PoolAssumption
<1>2. Accounted
  BY DEF Pool!Init, Accounted, AccountedFor, Pool!Held, Pool!PoolAssumption
<1>3. InLine /\ Nesting
  BY DEF Pool!Init, InLine, Nesting
<1> QED
  BY <1>1, <1>2, <1>3 DEF PoolInv

LEMMA AskKeeps ==
    ASSUME Pool!PoolAssumption, PoolInv, NEW r \in PoolSlots, Pool!Ask(r)
    PROVE  PoolInv'
<1>1. PICK n \in 0..MaxInner : /\ n > 0 => r \in Nesters
                               /\ inner' = [inner EXCEPT ![r] = n]
  BY DEF Pool!Ask
<1>2. /\ phase[r] = "idle" /\ phase' = [phase EXCEPT ![r] = "asks"]
      /\ waiting' = Append(waiting, r) /\ UNCHANGED holder /\ ~Pool!Waits(r)
  BY DEF Pool!Ask, Pool!Waits
<1>3. waiting' \in Seq(PoolSlots) /\ InLine'
  BY <1>2, LongerLine
<1>4. \A s \in PoolSlots : Pool!Held(s)' = Pool!Held(s)
  BY <1>2, ConnectionsKept
<1>5. AccountedFor(r)'
  BY <1>2, <1>4 DEF PoolInv, Pool!TypeOK, Accounted, AccountedFor
<1>6. holder' \in [Conns -> PoolSlots \cup {None}] /\ "asks" \in Pool!Phases
  BY <1>2 DEF PoolInv, Pool!TypeOK, Pool!Phases
<1> HIDE DEF PoolInv
<1> QED
  BY <1>1, <1>2, <1>3, <1>4, <1>5, <1>6, OneRequest

LEMMA AskAgainKeeps ==
    ASSUME Pool!PoolAssumption, PoolInv, NEW r \in PoolSlots, Pool!AskAgain(r)
    PROVE  PoolInv'
<1> DEFINE n == inner[r] - 1
<1>0. inner[r] \in 0..MaxInner /\ inner[r] > 0 /\ MaxInner \in Nat
  BY DEF Pool!AskAgain, PoolInv, Pool!TypeOK, Pool!PoolAssumption
<1>1a. n \in 0..MaxInner
  BY <1>0
<1>1b. r \in Nesters
  BY <1>0 DEF PoolInv, Nesting
<1>1. n \in 0..MaxInner /\ inner' = [inner EXCEPT ![r] = n] /\ r \in Nesters
  BY <1>1a, <1>1b DEF Pool!AskAgain
<1>2. /\ phase[r] = "works" /\ phase' = [phase EXCEPT ![r] = "asks again"]
      /\ waiting' = Append(waiting, r) /\ UNCHANGED holder /\ ~Pool!Waits(r)
  BY DEF Pool!AskAgain, Pool!Waits
<1>3. waiting' \in Seq(PoolSlots) /\ InLine'
  BY <1>2, LongerLine
<1>4. \A s \in PoolSlots : Pool!Held(s)' = Pool!Held(s)
  BY <1>2, ConnectionsKept
<1>5. AccountedFor(r)'
  BY <1>2, <1>4 DEF PoolInv, Pool!TypeOK, Accounted, AccountedFor
<1>6. holder' \in [Conns -> PoolSlots \cup {None}] /\ "asks again" \in Pool!Phases
  BY <1>2 DEF PoolInv, Pool!TypeOK, Pool!Phases
<1> HIDE DEF n, PoolInv
<1> QED
  BY <1>1, <1>2, <1>3, <1>4, <1>5, <1>6, OneRequest

\* Whoever was first in line is served and not in line again.
LEMMA ShorterLine ==
    ASSUME PoolInv, waiting # << >>, waiting' = Tail(waiting),
           NEW f, phase' = [phase EXCEPT ![Head(waiting)] = f]
    PROVE  /\ waiting' \in Seq(PoolSlots) /\ InLine'
           /\ Head(waiting) \in PoolSlots /\ Pool!Waits(Head(waiting))
<1>1. waiting \in Seq(PoolSlots) /\ phase \in [PoolSlots -> Pool!Phases]
  BY DEF PoolInv, Pool!TypeOK
<1>2. /\ waiting' \in Seq(PoolSlots) /\ Head(waiting) \in PoolSlots
      /\ Len(waiting) \in Nat \ {0} /\ Head(waiting) = waiting[1]
      /\ Len(waiting') = Len(waiting) - 1
      /\ \A i \in 1..Len(waiting') : waiting'[i] = waiting[i + 1]
  BY <1>1, Served
<1>3. /\ \A i \in 1..Len(waiting) : Pool!Waits(waiting[i])
      /\ \A i, j \in 1..Len(waiting) : waiting[i] = waiting[j] => i = j
  BY DEF PoolInv, InLine
<1>4. \A i \in 1..Len(waiting) : waiting[i] \in PoolSlots
  BY <1>1, InTheLine
<1> DEFINE n == Len(waiting)
           first == Head(waiting)
<1>5. n \in Nat \ {0} /\ 1 \in 1..n /\ first = waiting[1]
  BY <1>2
<1>6. \A i \in 1..(n - 1) : i + 1 \in 1..n /\ i + 1 # 1
  BY <1>5
<1>7. \A i \in 1..(n - 1) : waiting[i + 1] # first
  BY <1>3, <1>5, <1>6
<1>8. \A i \in 1..(n - 1) : phase'[waiting[i + 1]] = phase[waiting[i + 1]]
  BY <1>1, <1>4, <1>6, <1>7
<1>9. \A i \in 1..(n - 1) : phase'[waiting'[i]] \in {"asks", "asks again"}
  BY <1>2, <1>3, <1>6, <1>8 DEF Pool!Waits
<1>10. \A i, j \in 1..(n - 1) : waiting'[i] = waiting'[j] => i = j
  <2> SUFFICES ASSUME NEW i \in 1..(n - 1), NEW j \in 1..(n - 1), waiting'[i] = waiting'[j]
               PROVE  i = j
    OBVIOUS
  <2>1. i + 1 \in 1..n /\ j + 1 \in 1..n /\ waiting[i + 1] = waiting[j + 1]
    BY <1>2, <1>6
  <2>2. i + 1 = j + 1
    BY <2>1, <1>3
  <2> QED
    BY <2>2
<1>11. InLine'
  BY <1>2, <1>9, <1>10 DEF InLine, Pool!Waits
<1> QED
  BY <1>2, <1>3, <1>5, <1>11

\* Whoever leaves the queue is nowhere in it.
LEMMA LineWithoutOne ==
    ASSUME PoolInv, NEW k \in 1..Len(waiting), waiting' = Pool!Without(k),
           NEW f, phase' = [phase EXCEPT ![waiting[k]] = f]
    PROVE  waiting' \in Seq(PoolSlots) /\ InLine'
<1>1. waiting \in Seq(PoolSlots) /\ phase \in [PoolSlots -> Pool!Phases]
  BY DEF PoolInv, Pool!TypeOK
<1>2. /\ waiting' \in Seq(PoolSlots)
      /\ Len(waiting') = Len(waiting) - 1
      /\ \A i \in 1..Len(waiting') :
           waiting'[i] = IF i < k THEN waiting[i] ELSE waiting[i + 1]
  BY <1>1, ClosedUp
<1>3. /\ \A i \in 1..Len(waiting) : Pool!Waits(waiting[i])
      /\ \A i, j \in 1..Len(waiting) : waiting[i] = waiting[j] => i = j
  BY DEF PoolInv, InLine
<1>4. Len(waiting) \in Nat /\ \A i \in 1..Len(waiting) : waiting[i] \in PoolSlots
  BY <1>1, InTheLine
<1> DEFINE n == Len(waiting)
           p(i) == IF i < k THEN i ELSE i + 1
<1>5. \A i \in 1..(n - 1) : p(i) \in 1..n /\ p(i) # k
  BY <1>4
<1>6. \A i, j \in 1..(n - 1) : p(i) = p(j) => i = j
  BY <1>4
<1>7. \A i \in 1..(n - 1) : waiting'[i] = waiting[p(i)]
  BY <1>2
<1> HIDE DEF p
<1>8. \A i \in 1..(n - 1) : waiting[p(i)] # waiting[k]
  BY <1>3, <1>5
<1>9. \A i \in 1..(n - 1) : phase'[waiting[p(i)]] = phase[waiting[p(i)]]
  BY <1>1, <1>4, <1>5, <1>8
<1>10. \A i \in 1..(n - 1) : phase'[waiting'[i]] \in {"asks", "asks again"}
  BY <1>3, <1>5, <1>7, <1>9 DEF Pool!Waits
<1>11. ASSUME NEW i \in 1..(n - 1), NEW j \in 1..(n - 1), waiting'[i] = waiting'[j]
       PROVE  i = j
  <2>1. p(i) \in 1..n /\ p(j) \in 1..n
    BY <1>5
  <2>2. p(i) = p(j)
    BY <1>3, <1>7, <1>11, <2>1
  <2> QED
    BY <1>6, <2>2
<1>12. InLine'
  BY <1>2, <1>10, <1>11 DEF InLine, Pool!Waits
<1> QED
  BY <1>2, <1>12

LEMMA GrantKeeps ==
    ASSUME Pool!PoolAssumption, PoolInv, NEW c \in Conns, Pool!Grant(c)
    PROVE  PoolInv'
<1>0. Head(waiting) \in PoolSlots
  BY Served DEF Pool!Grant, PoolInv, Pool!TypeOK
<1> PICK r \in PoolSlots : r = Head(waiting)
  BY <1>0
<1> DEFINE f == IF phase[r] = "asks" THEN "works" ELSE "works within"
<1>1. /\ waiting # << >> /\ holder[c] = None
      /\ holder' = [holder EXCEPT ![c] = r]
      /\ waiting' = Tail(waiting) /\ UNCHANGED inner
  BY DEF Pool!Grant
<1>2. phase' = [phase EXCEPT ![r] = f]
  BY DEF Pool!Grant
<1>3. waiting' \in Seq(PoolSlots) /\ InLine' /\ Pool!Waits(r)
  <2> HIDE DEF f, PoolInv
  <2> QED
    BY <1>1, <1>2, ShorterLine
<1>4. /\ holder' \in [Conns -> PoolSlots \cup {None}]
      /\ Pool!Held(r)' = Pool!Held(r) \cup {c} /\ c \notin Pool!Held(r)
      /\ \A s \in PoolSlots \ {r} : Pool!Held(s)' = Pool!Held(s)
  BY <1>1, <1>3, ConnectionGiven DEF PoolInv, Pool!TypeOK
<1>5. phase[r] \in {"asks", "asks again"} /\ phase'[r] = f
  BY <1>2, <1>3 DEF Pool!Waits, PoolInv, Pool!TypeOK
<1>6. AccountedFor(r)'
  <2>1. AccountedFor(r)
    BY <1>3 DEF PoolInv, Accounted
  <2>2. CASE phase[r] = "asks"
    <3>1. Pool!Held(r)' = {c} /\ phase'[r] = "works"
      BY <2>1, <2>2, <1>4, <1>5 DEF AccountedFor
    <3> QED
      BY <3>1 DEF AccountedFor
  <2>3. CASE phase[r] = "asks again"
    <3>1. PICK d \in Conns : Pool!Held(r) = {d}
      BY <2>1, <2>3 DEF AccountedFor
    <3>2. Pool!Held(r)' = {d, c} /\ d # c /\ phase'[r] = "works within"
      BY <3>1, <2>3, <1>4, <1>5
    <3> QED
      BY <3>2 DEF AccountedFor
  <2> QED
    BY <1>5, <2>2, <2>3
<1>7. inner[r] \in 0..MaxInner /\ inner' = [inner EXCEPT ![r] = inner[r]]
  BY <1>1, <1>3 DEF PoolInv, Pool!TypeOK
<1>8. f \in Pool!Phases
  BY DEF Pool!Phases
<1>9. inner[r] > 0 \/ f \in {"asks again", "works within"} => r \in Nesters
  BY <1>3, <1>5 DEF PoolInv, Nesting
<1> HIDE DEF f, PoolInv
<1> QED
  BY <1>2, <1>3, <1>4, <1>6, <1>7, <1>8, <1>9, OneRequest

LEMMA GiveBackKeeps ==
    ASSUME Pool!PoolAssumption, PoolInv, NEW r \in PoolSlots, Pool!GiveBack(r)
    PROVE  PoolInv'
<1>1. /\ phase[r] = "works within" /\ phase' = [phase EXCEPT ![r] = "works"]
      /\ UNCHANGED <<waiting, inner>> /\ ~Pool!Waits(r)
  BY DEF Pool!GiveBack, Pool!Waits
<1>2. PICK c \in Pool!Held(r) : holder' = [holder EXCEPT ![c] = None]
  BY DEF Pool!GiveBack
<1>3. /\ holder' \in [Conns -> PoolSlots \cup {None}]
      /\ Pool!Held(r)' = Pool!Held(r) \ {c}
      /\ \A s \in PoolSlots \ {r} : Pool!Held(s)' = Pool!Held(s)
  BY <1>2, ConnectionGivenBack DEF PoolInv, Pool!TypeOK
<1>4. PICK d, e \in Conns : d # e /\ Pool!Held(r) = {d, e}
  BY <1>1 DEF PoolInv, Accounted, AccountedFor
<1>5. \E x \in Conns : Pool!Held(r)' = {x}
  BY <1>2, <1>3, <1>4
<1>6. AccountedFor(r)'
  <2>1. phase'[r] = "works"
    BY <1>1 DEF PoolInv, Pool!TypeOK
  <2> QED
    BY <2>1, <1>5 DEF AccountedFor
<1>7. waiting' \in Seq(PoolSlots) /\ InLine'
  BY <1>1, SameLine DEF PoolInv, Pool!TypeOK
<1>8. inner[r] \in 0..MaxInner /\ inner' = [inner EXCEPT ![r] = inner[r]] /\ "works" \in Pool!Phases
  BY <1>1 DEF PoolInv, Pool!TypeOK, Pool!Phases
<1>9. inner[r] > 0 => r \in Nesters
  BY DEF PoolInv, Nesting
<1> HIDE DEF PoolInv
<1> QED
  BY <1>1, <1>3, <1>6, <1>7, <1>8, <1>9, OneRequest

\* A request that ends, in any way, waiting or not.
LEMMA EndKeeps ==
    ASSUME Pool!PoolAssumption, PoolInv, NEW r \in PoolSlots, holder' = Pool!Returned(r),
           phase' = [phase EXCEPT ![r] = "idle"], inner' = [inner EXCEPT ![r] = 0],
           waiting' \in Seq(PoolSlots), InLine'
    PROVE  PoolInv'
<1>1. /\ holder' \in [Conns -> PoolSlots \cup {None}]
      /\ Pool!Held(r)' = {}
      /\ \A s \in PoolSlots \ {r} : Pool!Held(s)' = Pool!Held(s)
  BY ConnectionsReturned DEF PoolInv, Pool!TypeOK
<1>2. phase'[r] = "idle"
  BY DEF PoolInv, Pool!TypeOK
<1>3. AccountedFor(r)'
  BY <1>1, <1>2 DEF AccountedFor
<1>4. 0 \in 0..MaxInner /\ "idle" \in Pool!Phases
  BY DEF Pool!PoolAssumption, Pool!Phases
<1>5. ~(0 > 0 \/ "idle" \in {"asks again", "works within"})
  OBVIOUS
<1> HIDE DEF PoolInv
<1> QED
  BY <1>1, <1>3, <1>4, <1>5, OneRequest

LEMMA FinishKeeps ==
    ASSUME Pool!PoolAssumption, PoolInv, NEW r \in PoolSlots, Pool!Finish(r) \/ Pool!Fail(r)
    PROVE  PoolInv'
<1>1. /\ holder' = Pool!Returned(r) /\ phase' = [phase EXCEPT ![r] = "idle"]
      /\ inner' = [inner EXCEPT ![r] = 0] /\ UNCHANGED waiting /\ ~Pool!Waits(r)
  BY DEF Pool!Finish, Pool!Fail, Pool!Waits, PoolInv, Pool!TypeOK
<1>2. waiting' \in Seq(PoolSlots) /\ InLine'
  BY <1>1, SameLine DEF PoolInv, Pool!TypeOK
<1> HIDE DEF PoolInv
<1> QED
  BY <1>1, <1>2, EndKeeps

LEMMA LeaveKeeps ==
    ASSUME Pool!PoolAssumption, PoolInv, NEW r \in PoolSlots, Pool!Leave(r)
    PROVE  PoolInv'
<1>1. PICK k \in DOMAIN waiting : waiting[k] = r /\ waiting' = Pool!Without(k)
  BY DEF Pool!Leave
<1>2. k \in 1..Len(waiting)
  BY <1>1 DEF PoolInv, Pool!TypeOK
<1>3. /\ holder' = Pool!Returned(r) /\ phase' = [phase EXCEPT ![r] = "idle"]
      /\ inner' = [inner EXCEPT ![r] = 0]
  BY DEF Pool!Leave
<1>4. waiting' \in Seq(PoolSlots) /\ InLine'
  BY <1>1, <1>2, <1>3, LineWithoutOne
<1> HIDE DEF PoolInv
<1> QED
  BY <1>3, <1>4, EndKeeps

LEMMA StutterKeeps ==
    ASSUME PoolInv, UNCHANGED Pool!poolVars
    PROVE  PoolInv'
<1>1. \A r \in PoolSlots : Pool!Held(r)' = Pool!Held(r)
  BY ConnectionsKept DEF Pool!poolVars
<1>2. Pool!TypeOK' /\ InLine' /\ Nesting'
  BY DEF PoolInv, Pool!TypeOK, InLine, Pool!Waits, Nesting, Pool!poolVars
<1>3. Accounted'
  <2> SUFFICES ASSUME NEW r \in PoolSlots PROVE AccountedFor(r)'
    BY DEF Accounted
  <2>1. AccountedFor(r) /\ Pool!Held(r)' = Pool!Held(r) /\ phase' = phase
    BY <1>1 DEF PoolInv, Accounted, Pool!poolVars
  <2> QED
    BY <2>1 DEF AccountedFor
<1> QED
  BY <1>2, <1>3 DEF PoolInv

LEMMA PoolNext ==
    ASSUME Pool!PoolAssumption, PoolInv, [Pool!Next]_Pool!poolVars
    PROVE  PoolInv'
<1>1. CASE \E r \in PoolSlots : Pool!Ask(r)
  BY <1>1, AskKeeps
<1>2. CASE \E r \in PoolSlots : Pool!Work(r)
  BY <1>2, AskAgainKeeps, GiveBackKeeps, FinishKeeps DEF Pool!Work
<1>3. CASE \E r \in PoolSlots : Pool!Fail(r)
  BY <1>3, FinishKeeps
<1>4. CASE \E r \in PoolSlots : Pool!Leave(r)
  BY <1>4, LeaveKeeps
<1>5. CASE \E c \in Conns : Pool!Grant(c)
  BY <1>5, GrantKeeps
<1>6. CASE UNCHANGED Pool!poolVars
  BY <1>6, StutterKeeps
<1> QED
  BY <1>1, <1>2, <1>3, <1>4, <1>5, <1>6 DEF Pool!Next

-----------------------------------------------------------------------------
(* What follows from it *)

\* The pool counts as everybody does.
LEMMA SameCount ==
    \A S : Pool!Cardinality(S) = Cardinality(S) /\ (Pool!IsFiniteSet(S) <=> IsFiniteSet(S))
  BY DEF Pool!Cardinality, Cardinality, Pool!IsFiniteSet, IsFiniteSet

LEMMA HeldAreCounted ==
    ASSUME PoolInv
    PROVE  Pool!NoLeak
<1> SUFFICES ASSUME NEW r \in PoolSlots
             PROVE  Cardinality(Pool!Held(r)) = CASE phase[r] \in {"idle", "asks"} -> 0
                                             [] phase[r] \in {"works", "asks again"} -> 1
                                             [] OTHER -> 2
  BY SameCount DEF Pool!NoLeak
<1>1. AccountedFor(r) /\ phase[r] \in Pool!Phases
  BY DEF PoolInv, Accounted, Pool!TypeOK
<1>2. CASE phase[r] \in {"idle", "asks"}
  BY <1>1, <1>2, FS_EmptySet DEF AccountedFor
<1>3. CASE phase[r] \in {"works", "asks again"}
  <2>1. PICK c \in Conns : Pool!Held(r) = {c}
    BY <1>1, <1>3 DEF AccountedFor
  <2>2. Cardinality({c}) = 1
    BY FS_Singleton
  <2> QED
    BY <1>3, <2>1, <2>2
<1>4. CASE phase[r] = "works within"
  <2>1. PICK c, d \in Conns : c # d /\ Pool!Held(r) = {c, d}
    BY <1>1, <1>4 DEF AccountedFor
  <2>2. IsFiniteSet({c}) /\ Cardinality({c}) = 1
    BY FS_Singleton
  <2>3. Cardinality({c} \cup {d}) = 2
    <3>1. d \notin {c}
      BY <2>1
    <3>2. Cardinality({c} \cup {d}) = Cardinality({c}) + 1
      BY <2>2, <3>1, FS_AddElement
    <3> QED
      BY <2>2, <3>2
  <2>4. {c} \cup {d} = {c, d}
    OBVIOUS
  <2> QED
    BY <1>4, <2>1, <2>3, <2>4
<1> QED
  BY <1>1, <1>2, <1>3, <1>4 DEF Pool!Phases

\* If every connection were held by a request that waits, each would be held by
\* a nesting request of its own.
LEMMA NoStandstill ==
    ASSUME Pool!PoolAssumption, PoolInv
    PROVE  Pool!SomeoneGoesOn
<1> SUFFICES ASSUME \A c \in Conns : holder[c] # None /\ Pool!Waits(holder[c])
             PROVE  FALSE
  BY DEF Pool!SomeoneGoesOn
<1>1. ASSUME NEW c \in Conns
      PROVE  /\ holder[c] \in PoolSlots /\ phase[holder[c]] = "asks again"
             /\ Pool!Held(holder[c]) = {c}
  <2>1. holder[c] \in PoolSlots /\ c \in Pool!Held(holder[c]) /\ Pool!Waits(holder[c])
    BY DEF PoolInv, Pool!TypeOK, Pool!Held
  <2>2. AccountedFor(holder[c])
    BY <2>1 DEF PoolInv, Accounted
  <2>3. phase[holder[c]] = "asks again"
    BY <2>1, <2>2 DEF AccountedFor, Pool!Waits
  <2> QED
    BY <2>1, <2>2, <2>3 DEF AccountedFor
<1>2. \A c \in Conns : holder[c] \in Nesters
  BY <1>1 DEF PoolInv, Nesting
<1>3. \A c, d \in Conns : holder[c] = holder[d] => c = d
  BY <1>1
<1>4. IsFiniteSet(Conns) /\ IsFiniteSet(Nesters) /\ Cardinality(Nesters) < Cardinality(Conns)
  BY FS_Subset, SameCount DEF Pool!PoolAssumption
<1>5. holder \in [Conns -> Nesters]
  BY <1>2 DEF PoolInv, Pool!TypeOK
<1> QED
  BY <1>3, <1>4, <1>5, FS_PigeonHole

LEMMA PoolKeeps == Pool!Spec => []PoolInv
<1>1. Pool!PoolAssumption
  BY ProgressAssumption DEF ProgressAssumption
<1>2. Pool!Init => PoolInv
  BY <1>1, PoolInit
<1>3. PoolInv /\ [Pool!Next]_Pool!poolVars => PoolInv'
  BY <1>1, PoolNext
<1> QED
  BY <1>2, <1>3, PTL DEF Pool!Spec

-----------------------------------------------------------------------------
(* All parts together *)

LEMMA CacheTyped == Cache!Spec => []Cache!TypeOK
<1>1. Versions \in Nat
  BY ProgressAssumption DEF ProgressAssumption, Cache!CacheAssumption
<1>2. Cache!Init => Cache!TypeOK
  BY <1>1 DEF Cache!Init, Cache!TypeOK, Cache!NoVersion
<1>3. Cache!TypeOK /\ [Cache!Next]_Cache!cacheVars => Cache!TypeOK'
  <2> SUFFICES ASSUME Cache!TypeOK, [Cache!Next]_Cache!cacheVars
               PROVE  Cache!TypeOK'
    OBVIOUS
  <2> USE <1>1 DEF Cache!TypeOK, Cache!NoVersion
  <2>1. ASSUME NEW r \in Slots, Cache!List(r) PROVE Cache!TypeOK'
    BY <2>1 DEF Cache!List
  <2>2. ASSUME NEW r \in Slots, Cache!GetCached(r) PROVE Cache!TypeOK'
    BY <2>2 DEF Cache!GetCached, Cache!Answer
  <2>3. ASSUME NEW r \in Slots, Cache!QueryTable(r) PROVE Cache!TypeOK'
    BY <2>3 DEF Cache!QueryTable, Cache!Answer
  <2>4. ASSUME NEW r \in Slots, Cache!SetCached(r) PROVE Cache!TypeOK'
    BY <2>4 DEF Cache!SetCached, Cache!Answer
  <2>5. ASSUME Cache!Expire PROVE Cache!TypeOK'
    BY <2>5 DEF Cache!Expire
  <2>6. ASSUME Cache!Migrate PROVE Cache!TypeOK'
    BY <2>6 DEF Cache!Migrate
  <2>7. ASSUME Cache!Toggle PROVE Cache!TypeOK'
    BY <2>7 DEF Cache!Toggle
  <2>8. CASE UNCHANGED Cache!cacheVars
    BY <2>8 DEF Cache!cacheVars
  <2> QED
    BY <2>1, <2>2, <2>3, <2>4, <2>5, <2>6, <2>7, <2>8 DEF Cache!Next, Cache!Work
<1> QED
  BY <1>2, <1>3, PTL DEF Cache!Spec

\* Each part keeps to its own specification, whichever one runs.
LEMMA PartsRun == ProgressSpec => Spec /\ Pool!Spec /\ Cache!Spec
<1>1. ProgressInit => Init /\ Pool!Init /\ Cache!Init
  BY DEF ProgressInit
<1>2. [ProgressNext]_<<part, vars, pool, categories>> =>
        [Next]_vars /\ [Pool!Next]_Pool!poolVars /\ [Cache!Next]_Cache!cacheVars
  <2> SUFFICES ASSUME [ProgressNext]_<<part, vars, pool, categories>>
               PROVE  [Next]_vars /\ [Pool!Next]_Pool!poolVars /\ [Cache!Next]_Cache!cacheVars
    OBVIOUS
  <2> QED
    BY DEF ProgressNext, pool, categories, Pool!poolVars, Cache!cacheVars
<1> QED
  BY <1>1, <1>2, PTL DEF ProgressSpec, Spec, Pool!Spec, Cache!Spec

\* Tables, connections, queue, phases and the cache are of their types, and
\* every request holds the connections its phase accounts for: none goes
\* missing, whichever way requests end (WithTx, rows.Close, a context that
\* ends a wait).
THEOREM NoConnectionLeaks == ProgressSpec => []TypesOK
<1>1. PoolInv => Pool!TypeOK /\ Pool!NoLeak
  BY HeldAreCounted DEF PoolInv
<1> QED
  BY <1>1, PartsRun, RotatingTyped, PoolKeeps, CacheTyped, PTL DEF TypesOK

\* While fewer requests take a second connection than the pool has, they never
\* all wait for each other, for any number of slots and of connections
\* (Queryer with pgxpool).
THEOREM NeverAtStandstill == ProgressSpec => []SomeoneGoesOn
<1>1. PoolInv => SomeoneGoesOn
  BY NoStandstill, ProgressAssumption DEF ProgressAssumption, SomeoneGoesOn
<1> QED
  BY <1>1, PartsRun, PoolKeeps, PTL
=============================================================================
