------------------------- MODULE ImportStagingProofs -------------------------
(***************************************************************************)
(* For any items, references, accounts and overlapping requests: a         *)
(* reference is posted to an account once, and an item is marked processed *)
(* only when an entry has been posted for it, or by its user.              *)
(*                                                                         *)
(* What is marked is decided long before it is written, by another         *)
(* statement.  The invariant therefore says of every request what the mark *)
(* it carries rests on (Sound), at each of its statements.                 *)
(***************************************************************************)
EXTENDS ImportStaging, TLAPS

Marks == {"pending", "processed"}
Steps == {"idle", "read", "write", "get", "post", "rules", "map"}
StagedRow == [there : {TRUE}, ref : Refs, name : Names, meta : Metadata, status : Marks]
Reqs ==
    [kind : {"none", "patch", "promote", "apply"}, ids : SUBSET Items,
     listed : SUBSET (Items \X StagedRow), id : Items \cup {None},
     patch : Metadata, meta : Metadata, mark : Marks \cup {None},
     row : ItemRow, rules : [Kinds -> [Names -> AnyTarget \cup {None}]]]

\* A request q whose next statement is s, when entries have been posted for the
\* items in done: only its user's patches and the end of a promotion carry a mark.
Sound(q, s, done) ==
    /\ s \in {"idle", "get", "post", "rules", "map"} => q.mark = None
    /\ s \in {"get", "post"} => q.kind = "promote"
    /\ s \in {"rules", "map"} => q.kind = "apply"
    /\ s = "post" => q.row.there
    /\ s \in {"read", "write", "post"} => q.id \in Items /\ q.kind # "none"
    /\ q.mark # None /\ q.kind # "patch" =>
         q.kind = "promote" /\ q.mark = "processed" /\ q.id \in done

Requests ==
    /\ req \in [Slots -> Reqs] /\ step \in [Slots -> Steps]
    /\ \A r \in Slots : Sound(req[r], step[r], posted)

Processed == \A i \in Items : item[i].status = "processed" => i \in posted \cup byHand

RulesTyped == rule \in [Kinds -> [Names -> AnyTarget \cup {None}]]

IInv == TypeOK /\ RulesTyped /\ Requests /\ Processed /\ PostedOnce

-----------------------------------------------------------------------------
(* Requests and rows *)

LEMMA Empty ==
    /\ Unmapped \in Metadata /\ NoItem \in ItemRow
    /\ NoRules \in [Kinds -> [Names -> AnyTarget \cup {None}]]
  BY DEF Unmapped, Metadata, ItemRow, NoRules

LEMMA FreshRequest ==
    ASSUME NEW k \in {"none", "patch", "promote", "apply"}
    PROVE  Request(k) \in Reqs /\ Request(k).mark = None /\ Request(k).kind = k
<1>1. {} \in SUBSET Items /\ {} \in SUBSET (Items \X StagedRow)
  OBVIOUS
<1> HIDE DEF Unmapped, NoItem, NoRules, Metadata, ItemRow
<1> QED
  BY <1>1, Empty DEF Request, Reqs

\* What a step of one request leaves to show of all requests.
LEMMA OneRequest ==
    ASSUME Requests, NEW r \in Slots, NEW q \in Reqs, NEW s \in Steps,
           req' = [req EXCEPT ![r] = q], step' = [step EXCEPT ![r] = s],
           posted \subseteq posted', Sound(q, s, posted')
    PROVE  Requests'
<1>1. req' \in [Slots -> Reqs] /\ step' \in [Slots -> Steps]
  BY DEF Requests
<1>2. ASSUME NEW x \in Slots
      PROVE  Sound(req'[x], step'[x], posted')
  <2>1. CASE x = r
    BY <2>1 DEF Requests
  <2>2. CASE x # r
    <3>1. req'[x] = req[x] /\ step'[x] = step[x] /\ Sound(req[x], step[x], posted)
      BY <2>2 DEF Requests
    <3> QED
      BY <3>1 DEF Sound
  <2> QED
    BY <2>1, <2>2
<1> QED
  BY <1>1, <1>2 DEF Requests

LEMMA AnswerSound ==
    ASSUME Requests, NEW r \in Slots, Answer(r), posted \subseteq posted'
    PROVE  Requests'
<1>1. NoRequest \in Reqs /\ Sound(NoRequest, "idle", posted')
  BY FreshRequest DEF NoRequest, Sound
<1>2. req' = [req EXCEPT ![r] = NoRequest] /\ step' = [step EXCEPT ![r] = "idle"]
  BY DEF Answer, Set
<1> HIDE DEF NoRequest, Requests
<1> QED
  BY <1>1, <1>2, OneRequest DEF Steps

LEMMA NextPromotionSound ==
    ASSUME Requests, NEW r \in Slots, NEW q \in Reqs, NextPromotion(r, q),
           posted \subseteq posted'
    PROVE  Requests'
<1>1. CASE q.ids = {}
  BY <1>1, AnswerSound DEF NextPromotion
<1>2. CASE q.ids # {}
  <2> DEFINE p == [Request("promote") EXCEPT !.ids = q.ids]
  <2>1. req' = [req EXCEPT ![r] = p] /\ step' = [step EXCEPT ![r] = "get"]
    BY <1>2 DEF NextPromotion, Set
  <2>2. q.ids \in SUBSET Items
    BY DEF Reqs
  <2>3. p \in Reqs /\ p.mark = None /\ p.kind = "promote"
    BY <2>2, FreshRequest DEF Reqs
  <2>4. Sound(p, "get", posted')
    BY <2>3 DEF Sound
  <2> HIDE DEF p, Requests
  <2> QED
    BY <2>1, <2>3, <2>4, OneRequest DEF Steps
<1> QED
  BY <1>1, <1>2

\* A patch that has been written, or found nothing to write to.
LEMMA ResumeSound ==
    ASSUME Requests, NEW r \in Slots, step[r] \in {"read", "write"}, Resume(r),
           posted \subseteq posted'
    PROVE  Requests'
<1>1. req[r] \in Reqs /\ Sound(req[r], step[r], posted)
  BY DEF Requests
<1>2. CASE req[r].kind = "patch"
  BY <1>2, AnswerSound DEF Resume
<1>3. CASE req[r].kind = "promote"
  BY <1>1, <1>3, NextPromotionSound DEF Resume
<1>4. CASE req[r].kind \notin {"patch", "promote"}
  <2> DEFINE q == req[r]
  <2>1. req' = [req EXCEPT ![r] = q] /\ step' = [step EXCEPT ![r] = "map"]
    BY <1>4 DEF Resume, Set
  <2>2. q.kind = "apply" /\ q.mark = None
    BY <1>1, <1>4 DEF Sound, Reqs
  <2>3. Sound(q, "map", posted')
    BY <2>2 DEF Sound
  <2>4. q \in Reqs
    BY <1>1
  <2> HIDE DEF q, Requests
  <2> QED
    BY <2>1, <2>3, <2>4, OneRequest DEF Steps
<1> QED
  BY <1>2, <1>3, <1>4

-----------------------------------------------------------------------------
(* Steps that leave the requests alone *)

LEMMA InitHolds ==
    ASSUME Init
    PROVE  IInv
<1>1. TypeOK
  <2>1. item \in [Items -> ItemRow]
    BY Empty DEF Init
  <2>2. ledger \in [Refs -> [Targets["account"] -> 0..Copies]]
    BY ImportsAssumption DEF Init
  <2> QED
    BY <2>1, <2>2 DEF Init, TypeOK
<1>2. RulesTyped
  BY DEF Init, RulesTyped
<1>3. Requests
  <2>1. NoRequest \in Reqs /\ Sound(NoRequest, "idle", posted)
    BY FreshRequest DEF NoRequest, Sound
  <2> HIDE DEF NoRequest
  <2> QED
    BY <2>1 DEF Init, Requests, Steps
<1>4. Processed /\ PostedOnce
  BY ImportsAssumption DEF Init, Processed, PostedOnce, NoItem
<1> QED
  BY <1>1, <1>2, <1>3, <1>4 DEF IInv

\* With the requests, posted entries and the ledger as they were.
LEMMA RowsKeep ==
    ASSUME IInv, UNCHANGED <<ledger, posted, req, step>>,
           item' \in [Items -> ItemRow], byHand' \subseteq Items, RulesTyped', Processed'
    PROVE  IInv'
<1>1. TypeOK' /\ PostedOnce'
  BY DEF IInv, TypeOK, PostedOnce
<1>2. Requests'
  BY DEF IInv, Requests
<1> QED
  BY <1>1, <1>2 DEF IInv

LEMMA StageImportKeeps ==
    ASSUME IInv, StageImport
    PROVE  IInv'
<1>1. PICK new \in SUBSET Items, ref \in Refs, name \in Names :
         item' = [i \in Items |-> IF i \in new THEN Staged(ref, name) ELSE item[i]]
  BY DEF StageImport
<1>2. Staged(ref, name) \in ItemRow /\ Staged(ref, name).status = "pending"
  BY Empty DEF Staged, ItemRow
<1>3. item' \in [Items -> ItemRow]
  BY <1>1, <1>2 DEF IInv, TypeOK
<1>4. UNCHANGED <<rule, ledger, posted, byHand, req, step>>
  BY DEF StageImport
<1>5. Processed'
  BY <1>1, <1>2, <1>4 DEF IInv, Processed
<1>6. byHand' \subseteq Items /\ RulesTyped'
  BY <1>4 DEF IInv, TypeOK, RulesTyped
<1> HIDE DEF IInv
<1> QED
  BY <1>3, <1>4, <1>5, <1>6, RowsKeep

LEMMA DeleteKeeps ==
    ASSUME IInv, DeleteStaged \/ ClearStaged
    PROVE  IInv'
<1>1. PICK D \in SUBSET Items :
        /\ item' = [i \in Items |-> IF i \in D THEN NoItem ELSE item[i]]
        /\ byHand' = byHand \ D
  <2>1. CASE DeleteStaged
    <3>1. PICK i \in Items : item' = [item EXCEPT ![i] = NoItem] /\ byHand' = byHand \ {i}
      BY <2>1 DEF DeleteStaged
    <3>2. item' = [j \in Items |-> IF j \in {i} THEN NoItem ELSE item[j]]
      BY <3>1 DEF IInv, TypeOK
    <3> QED
      BY <3>1, <3>2
  <2>2. CASE ClearStaged
    <3>1. item' = [j \in Items |-> IF j \in Items THEN NoItem ELSE item[j]]
      BY <2>2 DEF ClearStaged
    <3>2. byHand' = byHand \ Items
      BY <2>2 DEF ClearStaged, IInv, TypeOK
    <3> QED
      BY <3>1, <3>2
  <2> QED
    BY <2>1, <2>2
<1>2. NoItem \in ItemRow /\ NoItem.status # "processed"
  BY Empty, ImportsAssumption DEF NoItem
<1>3. item' \in [Items -> ItemRow]
  BY <1>1, <1>2 DEF IInv, TypeOK
<1>4. UNCHANGED <<rule, ledger, posted, req, step>>
  BY DEF DeleteStaged, ClearStaged
<1>5. Processed'
  BY <1>1, <1>2, <1>4 DEF IInv, Processed
<1>6. byHand' \subseteq Items /\ RulesTyped'
  BY <1>1, <1>4 DEF IInv, TypeOK, RulesTyped
<1> HIDE DEF IInv
<1> QED
  BY <1>3, <1>4, <1>5, <1>6, RowsKeep

LEMMA RulesKeep ==
    ASSUME IInv, UpsertRules \/ DeleteRule
    PROVE  IInv'
<1>1. UNCHANGED <<item, ledger, posted, byHand, req, step>>
  BY DEF UpsertRules, DeleteRule
<1>2. RulesTyped'
  <2>1. CASE UpsertRules
    <3>1. PICK new \in [Kinds -> [Names -> AnyTarget \cup {None}]] : rule' = Upserted(new)
      BY <2>1 DEF UpsertRules
    <3> QED
      BY <3>1 DEF Upserted, IInv, RulesTyped
  <2>2. CASE DeleteRule
    <3>1. PICK k \in Kinds, n \in Names : rule' = [rule EXCEPT ![k][n] = None]
      BY <2>2 DEF DeleteRule
    <3>2. [rule[k] EXCEPT ![n] = None] \in [Names -> AnyTarget \cup {None}]
      BY DEF IInv, RulesTyped
    <3>3. rule' = [rule EXCEPT ![k] = [rule[k] EXCEPT ![n] = None]]
      BY <3>1
    <3> QED
      BY <3>2, <3>3 DEF IInv, RulesTyped
  <2> QED
    BY <2>1, <2>2
<1>3. item' \in [Items -> ItemRow] /\ byHand' \subseteq Items /\ Processed'
  BY <1>1 DEF IInv, TypeOK, Processed
<1> HIDE DEF IInv
<1> QED
  BY <1>1, <1>2, <1>3, RowsKeep
\* Deleting an entry, which frees its reference.
LEMMA DeleteEntryKeeps ==
    ASSUME IInv, DeleteEntry
    PROVE  IInv'
<1>1. PICK ref \in Refs, a \in Targets["account"] :
        ledger[ref][a] > 0 /\ ledger' = [ledger EXCEPT ![ref][a] = @ - 1]
  BY DEF DeleteEntry
<1> DEFINE row == [ledger[ref] EXCEPT ![a] = ledger[ref][a] - 1]
<1>2. ledger' = [ledger EXCEPT ![ref] = row]
  BY <1>1
<1>3. ledger[ref] \in [Targets["account"] -> 0..Copies]
  BY DEF IInv, TypeOK
<1>4. row \in [Targets["account"] -> 0..Copies]
  BY <1>1, <1>3, ImportsAssumption
<1>5. \A b \in Targets["account"] : row[b] <= ledger[ref][b]
  BY <1>1, <1>3, ImportsAssumption
<1>6. ledger' \in [Refs -> [Targets["account"] -> 0..Copies]]
  BY <1>2, <1>4 DEF IInv, TypeOK
<1>7. UNCHANGED <<item, rule, posted, byHand, req, step>>
  BY DEF DeleteEntry
<1>8. PostedOnce'
  <2> SUFFICES ASSUME NEW f \in Refs \ {Blank}, NEW b \in Targets["account"]
               PROVE  ledger'[f][b] <= 1
    BY DEF PostedOnce
  <2>1. ledger[f][b] <= 1 /\ ledger[f][b] \in 0..Copies
    BY DEF IInv, PostedOnce, TypeOK
  <2>2. CASE f = ref
    <3>1. ledger'[f] = row
      BY <1>2, <2>2 DEF IInv, TypeOK
    <3>2. row[b] \in 0..Copies /\ row[b] <= ledger[f][b]
      BY <1>4, <1>5, <2>2
    <3> HIDE DEF row
    <3> QED
      BY <2>1, <3>1, <3>2, ImportsAssumption
  <2>3. CASE f # ref
    <3>1. ledger'[f] = ledger[f]
      BY <1>2, <2>3 DEF IInv, TypeOK
    <3> QED
      BY <2>1, <3>1
  <2> QED
    BY <2>2, <2>3
<1>9. TypeOK' /\ RulesTyped' /\ Processed'
  BY <1>6, <1>7 DEF IInv, TypeOK, RulesTyped, Processed
<1>10. Requests'
  BY <1>7 DEF IInv, Requests
<1> QED
  BY <1>8, <1>9, <1>10 DEF IInv

-----------------------------------------------------------------------------
(* Steps of a request that leave rows and ledger alone *)

LEMMA KeepKeeps ==
    ASSUME IInv, Keep, Requests'
    PROVE  IInv'
  BY DEF IInv, Keep, TypeOK, RulesTyped, Processed, PostedOnce

\* The mark a request is given with its next statement must be sound for it.
LEMMA RequestKeeps ==
    ASSUME IInv, Keep, NEW r \in Slots, NEW q \in Reqs, NEW s \in Steps,
           req' = [req EXCEPT ![r] = q], step' = [step EXCEPT ![r] = s],
           Sound(q, s, posted)
    PROVE  IInv'
<1>1. posted \subseteq posted' /\ Sound(q, s, posted')
  BY DEF Keep
<1>2. Requests
  BY DEF IInv
<1>3. Requests'
  <2> HIDE DEF IInv, Requests, Sound, Keep
  <2> QED
    BY <1>1, <1>2, OneRequest
<1> HIDE DEF IInv
<1> QED
  BY <1>3, KeepKeeps

\* Of a request in a slot, what its statement makes sure of.
LEMMA OfSlot ==
    ASSUME IInv, NEW r \in Slots
    PROVE  req[r] \in Reqs /\ Sound(req[r], step[r], posted)
  BY DEF IInv, Requests

LEMMA StagedFromRow ==
    ASSUME NEW row \in ItemRow, row.there
    PROVE  row \in StagedRow
<1>1. NoItem.there = FALSE
  BY DEF NoItem
<1> HIDE DEF NoItem, Metadata
<1> QED
  BY <1>1 DEF ItemRow, StagedRow, Marks

LEMMA RowTyped ==
    ASSUME IInv, NEW i \in Items, item[i].there
    PROVE  item[i] \in StagedRow
<1>1. item[i] \in ItemRow
  BY DEF IInv, TypeOK
<1> QED
  BY <1>1, StagedFromRow

LEMMA MergeTyped ==
    ASSUME NEW m \in Metadata, NEW p \in Metadata
    PROVE  Merge(m, p) \in Metadata
  BY DEF Merge, Metadata

LEMMA PatchKeeps ==
    ASSUME IInv, NEW r \in Slots, PatchStaged(r)
    PROVE  IInv'
<1>1. PICK i \in Items, k \in Kinds, mark \in {None, "pending", "processed"} :
        \E a \in Targets[k] \cup {None} :
            /\ Begin(r, [Request("patch") EXCEPT !.id = i, !.patch[k] = a, !.mark = mark], "read")
            /\ Keep
  BY DEF PatchStaged
<1>2. PICK a \in Targets[k] \cup {None} :
        /\ Begin(r, [Request("patch") EXCEPT !.id = i, !.patch[k] = a, !.mark = mark], "read")
        /\ Keep
  BY <1>1
<1> DEFINE q == [Request("patch") EXCEPT !.id = i, !.patch[k] = a, !.mark = mark]
           patch == [Request("patch").patch EXCEPT ![k] = a]
<1>3. Request("patch") \in Reqs /\ Request("patch").kind = "patch"
  BY FreshRequest
<1>4. patch \in Metadata
  <2>1. a \in AnyTarget \cup {None}
    BY DEF AnyTarget
  <2>2. Request("patch").patch \in Metadata
    BY <1>3 DEF Reqs
  <2> QED
    BY <2>1, <2>2 DEF Metadata
<1>5. q = [Request("patch") EXCEPT !.id = i, !.patch = patch, !.mark = mark]
  BY <1>3 DEF Reqs
<1>6. q \in Reqs /\ q.kind = "patch" /\ q.id = i
  BY <1>3, <1>4, <1>5 DEF Reqs, Marks
<1>7. Sound(q, "read", posted)
  BY <1>6 DEF Sound
<1>8. req' = [req EXCEPT ![r] = q] /\ step' = [step EXCEPT ![r] = "read"]
  BY <1>2 DEF Begin
<1> HIDE DEF q, IInv
<1> QED
  BY <1>2, <1>6, <1>7, <1>8, RequestKeeps DEF Steps

LEMMA AnswerKeeps ==
    ASSUME IInv, Keep, NEW r \in Slots,
           \/ Answer(r)
           \/ \E q \in Reqs : NextPromotion(r, q)
           \/ step[r] \in {"read", "write"} /\ Resume(r)
    PROVE  IInv'
<1>1. Requests /\ posted \subseteq posted'
  BY DEF IInv, Keep
<1>2. Requests'
  <2> HIDE DEF IInv, Requests, Keep
  <2> QED
    BY <1>1, AnswerSound, NextPromotionSound, ResumeSound
<1> HIDE DEF IInv
<1> QED
  BY <1>2, KeepKeeps

LEMMA ReadMetaKeeps ==
    ASSUME IInv, NEW r \in Slots, ReadMeta(r)
    PROVE  IInv'
<1>1. step[r] = "read" /\ Keep
  BY DEF ReadMeta
<1>2. req[r] \in Reqs /\ Sound(req[r], "read", posted)
  BY <1>1, OfSlot
<1>3. req[r].id \in Items
  BY <1>2 DEF Sound
<1>4. CASE item[req[r].id].there
  <2> DEFINE q == [req[r] EXCEPT !.meta = item[req[r].id].meta]
  <2>1. req' = [req EXCEPT ![r] = q] /\ step' = [step EXCEPT ![r] = "write"]
    BY <1>4 DEF ReadMeta, Set
  <2>2. item[req[r].id].meta \in Metadata
    BY <1>3, <1>4, RowTyped DEF StagedRow
  <2>3. q \in Reqs
    BY <1>2, <2>2 DEF Reqs
  <2>4. Sound(q, "write", posted)
    BY <1>2 DEF Sound, Reqs
  <2> HIDE DEF q, IInv
  <2> QED
    BY <1>1, <2>1, <2>3, <2>4, RequestKeeps DEF Steps
<1>5. CASE ~item[req[r].id].there
  <2>1. Resume(r)
    BY <1>5 DEF ReadMeta
  <2> HIDE DEF IInv
  <2> QED
    BY <1>1, <2>1, AnswerKeeps
<1> QED
  BY <1>4, <1>5

LEMMA PromotionKeeps ==
    ASSUME IInv, NEW r \in Slots, CreateManyFromStaged(r)
    PROVE  IInv'
<1>1. PICK ids \in SUBSET Items :
        Begin(r, [Request("promote") EXCEPT !.ids = ids], "get") /\ Keep
  BY DEF CreateManyFromStaged
<1> DEFINE q == [Request("promote") EXCEPT !.ids = ids]
<1>2. q \in Reqs /\ q.kind = "promote" /\ q.mark = None
  BY FreshRequest DEF Reqs
<1>3. Sound(q, "get", posted)
  BY <1>2 DEF Sound
<1>4. req' = [req EXCEPT ![r] = q] /\ step' = [step EXCEPT ![r] = "get"]
  BY <1>1 DEF Begin
<1> HIDE DEF q, IInv
<1> QED
  BY <1>1, <1>2, <1>3, <1>4, RequestKeeps DEF Steps

LEMMA GetStagedKeeps ==
    ASSUME IInv, NEW r \in Slots, GetStaged(r)
    PROVE  IInv'
<1>1. step[r] = "get" /\ Keep
  BY DEF GetStaged
<1>2. req[r] \in Reqs /\ Sound(req[r], "get", posted)
  BY <1>1, OfSlot
<1>3. PICK i \in req[r].ids :
        IF item[i].there
        THEN Set(r, [req[r] EXCEPT !.ids = @ \ {i}, !.id = i, !.row = item[i]], "post")
        ELSE NextPromotion(r, [req[r] EXCEPT !.ids = @ \ {i}])
  BY <1>2 DEF GetStaged, Reqs
<1>4. i \in Items
  BY <1>2 DEF Reqs
<1>5. CASE item[i].there
  <2> DEFINE q == [req[r] EXCEPT !.ids = @ \ {i}, !.id = i, !.row = item[i]]
  <2>1. req' = [req EXCEPT ![r] = q] /\ step' = [step EXCEPT ![r] = "post"]
    BY <1>3, <1>5 DEF Set
  <2>2. item[i] \in ItemRow
    BY <1>4 DEF IInv, TypeOK
  <2>3. q \in Reqs
    BY <1>2, <1>4, <2>2 DEF Reqs
  <2>4. Sound(q, "post", posted)
    BY <1>2, <1>4, <1>5 DEF Sound, Reqs
  <2> HIDE DEF q, IInv
  <2> QED
    BY <1>1, <2>1, <2>3, <2>4, RequestKeeps DEF Steps
<1>6. CASE ~item[i].there
  <2>1. [req[r] EXCEPT !.ids = @ \ {i}] \in Reqs
    BY <1>2 DEF Reqs
  <2>2. NextPromotion(r, [req[r] EXCEPT !.ids = @ \ {i}])
    BY <1>3, <1>6
  <2> HIDE DEF IInv, NextPromotion
  <2> QED
    BY <1>1, <2>1, <2>2, AnswerKeeps
<1> QED
  BY <1>5, <1>6

LEMMA ApplyRulesKeeps ==
    ASSUME IInv, NEW r \in Slots, ApplyRules(r)
    PROVE  IInv'
<1> DEFINE q == [Request("apply") EXCEPT !.listed = Pending]
<1>1. Pending \in SUBSET (Items \X StagedRow)
  BY RowTyped DEF Pending
<1>2. q \in Reqs /\ q.kind = "apply" /\ q.mark = None
  BY <1>1, FreshRequest DEF Reqs
<1>3. Sound(q, "rules", posted)
  BY <1>2 DEF Sound
<1>4. Keep /\ req' = [req EXCEPT ![r] = q] /\ step' = [step EXCEPT ![r] = "rules"]
  BY DEF ApplyRules, Begin
<1> HIDE DEF q, IInv
<1> QED
  BY <1>2, <1>3, <1>4, RequestKeeps DEF Steps

LEMMA ListRulesKeeps ==
    ASSUME IInv, NEW r \in Slots, ListRules(r)
    PROVE  IInv'
<1> DEFINE q == [req[r] EXCEPT !.rules = rule]
<1>1. step[r] = "rules" /\ Keep
  BY DEF ListRules
<1>2. req[r] \in Reqs /\ Sound(req[r], "rules", posted)
  BY <1>1, OfSlot
<1>3. q \in Reqs
  BY <1>2 DEF Reqs, IInv, RulesTyped
<1>4. Sound(q, "map", posted)
  BY <1>2 DEF Sound, Reqs
<1>5. req' = [req EXCEPT ![r] = q] /\ step' = [step EXCEPT ![r] = "map"]
  BY DEF ListRules, Set
<1> HIDE DEF q, IInv
<1> QED
  BY <1>1, <1>3, <1>4, <1>5, RequestKeeps DEF Steps

LEMMA MapItemKeeps ==
    ASSUME IInv, NEW r \in Slots, MapItem(r)
    PROVE  IInv'
<1>1. step[r] = "map" /\ Keep
  BY DEF MapItem
<1>2. req[r] \in Reqs /\ Sound(req[r], "map", posted)
  BY <1>1, OfSlot
<1>3. CASE NextPromotion(r, req[r])
  <2> HIDE DEF IInv, NextPromotion
  <2> QED
    BY <1>1, <1>2, <1>3, AnswerKeeps
<1>4. CASE ~NextPromotion(r, req[r])
  <2> DEFINE Hits(x) == [k \in Kinds |-> req[r].rules[k][x[2].name]]
             Meta(x) == Merge(x[2].meta, Hits(x))
             Mapping(x) ==
                 [req[r] EXCEPT !.listed = @ \ {x}, !.id = x[1], !.patch = Meta(x),
                     !.ids = IF Mapped(Meta(x)) THEN @ \cup {x[1]} ELSE @]
  <2>1. PICK x \in req[r].listed :
          Set(r, Mapping(x), IF Hits(x) # Unmapped THEN "read" ELSE "map")
    BY <1>4 DEF MapItem
  <2>2. x[1] \in Items /\ x[2] \in StagedRow
    BY <1>2 DEF Reqs
  <2>3. x[2].meta \in Metadata /\ x[2].name \in Names
    BY <2>2 DEF StagedRow
  <2>4. Hits(x) \in Metadata
    BY <1>2, <2>3 DEF Reqs, Metadata
  <2>5. Meta(x) \in Metadata
    BY <2>3, <2>4, MergeTyped
  <2> HIDE DEF Hits, Meta
  <2>6. Mapping(x) \in Reqs
    BY <1>2, <2>2, <2>5 DEF Reqs
  <2>7. ASSUME NEW s \in {"read", "map"}
        PROVE  Sound(Mapping(x), s, posted)
    BY <1>2, <2>2 DEF Sound, Reqs
  <2>8. PICK s \in {"read", "map"} :
          req' = [req EXCEPT ![r] = Mapping(x)] /\ step' = [step EXCEPT ![r] = s]
    BY <2>1 DEF Set
  <2> HIDE DEF Mapping, IInv
  <2> QED
    BY <1>1, <2>6, <2>7, <2>8, RequestKeeps DEF Steps
<1> QED
  BY <1>3, <1>4
-----------------------------------------------------------------------------
(* Writing the row, posting the entry *)

LEMMA WriteMetaKeeps ==
    ASSUME IInv, NEW r \in Slots, WriteMeta(r)
    PROVE  IInv'
<1> DEFINE q == req[r]
           i == req[r].id
<1>1. step[r] = "write" /\ UNCHANGED <<rule, ledger, posted>> /\ Resume(r)
  BY DEF WriteMeta
<1>2. q \in Reqs /\ Sound(q, "write", posted)
  BY <1>1, OfSlot
<1>3. i \in Items /\ q.mark \in Marks \cup {None}
  BY <1>2 DEF Sound, Reqs
<1>4. byHand \subseteq byHand' /\ byHand' \subseteq Items
  BY <1>3 DEF WriteMeta, IInv, TypeOK
<1>5. Requests'
  <2>1. Requests /\ posted \subseteq posted'
    BY <1>1 DEF IInv
  <2> HIDE DEF IInv, Requests
  <2> QED
    BY <1>1, <2>1, ResumeSound
<1>6. CASE ~item[i].there
  <2>1. item' = item
    BY <1>6 DEF WriteMeta
  <2>2. TypeOK' /\ RulesTyped' /\ Processed' /\ PostedOnce'
    BY <1>1, <1>4, <2>1 DEF IInv, TypeOK, RulesTyped, Processed, PostedOnce
  <2> QED
    BY <1>5, <2>2 DEF IInv
<1>7. CASE item[i].there
  <2> DEFINE m == Merge(q.meta, q.patch)
             mark == IF q.mark # None THEN q.mark ELSE item[i].status
             row == [item[i] EXCEPT !.meta = m, !.status = mark]
  <2>1. item' = [item EXCEPT ![i] = row]
    BY <1>7 DEF WriteMeta
  <2>2. m \in Metadata
    BY <1>2, MergeTyped DEF Reqs
  <2>3. item[i] \in StagedRow
    BY <1>3, <1>7, RowTyped
  <2>4. mark \in Marks
    BY <1>3, <2>3 DEF StagedRow
  <2> HIDE DEF m
  <2>5. row \in ItemRow /\ row.status = mark
    <3> HIDE DEF mark
    <3> QED
      BY <2>2, <2>3, <2>4 DEF ItemRow, StagedRow, Marks
  <2>6. mark = "processed" => i \in posted \cup byHand'
    <3>1. CASE q.mark = None
      <4>1. mark = item[i].status
        BY <3>1
      <4> QED
        BY <1>3, <1>4, <4>1 DEF IInv, Processed
    <3>2. CASE q.mark # None /\ q.kind = "patch"
      BY <3>2 DEF WriteMeta
    <3>3. CASE q.mark # None /\ q.kind # "patch"
      BY <1>2, <3>3 DEF Sound
    <3> QED
      BY <3>1, <3>2, <3>3
  <2> HIDE DEF mark, row, i
  <2>7. item' \in [Items -> ItemRow]
    BY <2>1, <2>5 DEF IInv, TypeOK
  <2>8. Processed'
    <3> SUFFICES ASSUME NEW j \in Items, item'[j].status = "processed"
                 PROVE  j \in posted' \cup byHand'
      BY DEF Processed
    <3>1. CASE j = i
      <4>1. item'[j] = row
        BY <2>1, <3>1 DEF IInv, TypeOK
      <4> QED
        BY <1>1, <2>5, <2>6, <3>1, <4>1
    <3>2. CASE j # i
      <4>1. item'[j] = item[j]
        BY <2>1, <3>2 DEF IInv, TypeOK
      <4> QED
        BY <1>1, <1>4, <4>1 DEF IInv, Processed
    <3> QED
      BY <3>1, <3>2
  <2>9. TypeOK' /\ RulesTyped' /\ PostedOnce'
    BY <1>1, <1>4, <2>7 DEF IInv, TypeOK, RulesTyped, PostedOnce
  <2> QED
    BY <1>5, <2>8, <2>9 DEF IInv
<1> QED
  BY <1>6, <1>7

\* An entry that is posted: its reference was free, or there is none.
LEMMA LedgerGrows ==
    ASSUME TypeOK, PostedOnce, NEW ref \in Refs, NEW a, Free(ref, a),
           ledger[ref][a] < Copies, ledger' = [ledger EXCEPT ![ref][a] = @ + 1]
    PROVE  ledger' \in [Refs -> [Targets["account"] -> 0..Copies]] /\ PostedOnce'
<1> DEFINE row == [ledger[ref] EXCEPT ![a] = ledger[ref][a] + 1]
<1>1. ledger' = [ledger EXCEPT ![ref] = row]
  OBVIOUS
<1>2. ledger[ref] \in [Targets["account"] -> 0..Copies]
  BY DEF TypeOK
<1>3. row \in [Targets["account"] -> 0..Copies]
  <2>1. CASE a \in Targets["account"]
    BY <1>2, <2>1, ImportsAssumption
  <2>2. CASE a \notin Targets["account"]
    BY <1>2, <2>2
  <2> QED
    BY <2>1, <2>2
<1>4. ref # Blank => \A b \in Targets["account"] : row[b] <= 1
  <2> SUFFICES ASSUME ref # Blank, NEW b \in Targets["account"]
               PROVE  row[b] <= 1
    OBVIOUS
  <2>1. CASE b = a
    <3>1. row[b] = ledger[ref][a] + 1 /\ ledger[ref][a] = 0
      BY <1>2, <2>1 DEF Free
    <3> QED
      BY <3>1
  <2>2. CASE b # a
    <3>1. row[b] = ledger[ref][b]
      BY <1>2, <2>2
    <3> QED
      BY <3>1 DEF PostedOnce
  <2> QED
    BY <2>1, <2>2
<1> HIDE DEF row
<1>5. ledger' \in [Refs -> [Targets["account"] -> 0..Copies]]
  BY <1>1, <1>3 DEF TypeOK
<1>6. PostedOnce'
  <2> SUFFICES ASSUME NEW f \in Refs \ {Blank}, NEW b \in Targets["account"]
               PROVE  ledger'[f][b] <= 1
    BY DEF PostedOnce
  <2>1. CASE f = ref
    BY <1>1, <1>4, <2>1 DEF TypeOK
  <2>2. CASE f # ref
    <3>1. ledger'[f] = ledger[f]
      BY <1>1, <2>2 DEF TypeOK
    <3> QED
      BY <3>1 DEF PostedOnce
  <2> QED
    BY <2>1, <2>2
<1> QED
  BY <1>5, <1>6

LEMMA PostKeeps ==
    ASSUME IInv, NEW r \in Slots, Post(r)
    PROVE  IInv'
<1> DEFINE q == req[r]
           ref == q.row.ref
           a == q.row.meta["account"]
<1>1. step[r] = "post" /\ UNCHANGED <<item, rule, byHand>>
  BY DEF Post
<1>2. q \in Reqs /\ Sound(q, "post", posted)
  BY <1>1, OfSlot
<1>3. q.id \in Items /\ q.kind = "promote" /\ q.row \in StagedRow
  BY <1>2, StagedFromRow DEF Sound, Reqs
<1>4. ref \in Refs
  BY <1>3 DEF StagedRow
<1>5. CASE NextPromotion(r, q) /\ UNCHANGED <<ledger, posted>>
  <2>1. Keep
    BY <1>1, <1>5 DEF Keep
  <2> HIDE DEF IInv, NextPromotion
  <2> QED
    BY <1>2, <1>5, <2>1, AnswerKeeps
<1>6. CASE /\ a # None /\ Free(ref, a) /\ ledger[ref][a] < Copies
           /\ ledger' = [ledger EXCEPT ![ref][a] = @ + 1]
           /\ posted' = posted \cup {q.id}
           /\ Set(r, [q EXCEPT !.mark = "processed"], "read")
  <2> DEFINE p == [q EXCEPT !.mark = "processed"]
  <2>1. req' = [req EXCEPT ![r] = p] /\ step' = [step EXCEPT ![r] = "read"]
    BY <1>6 DEF Set
  <2>2. p \in Reqs
    BY <1>2 DEF Reqs, Marks
  <2>3. p.kind = "promote" /\ p.id = q.id /\ p.mark = "processed"
    BY <1>2, <1>3 DEF Reqs
  <2>4. Sound(p, "read", posted')
    <3>1. q.id \in Items /\ q.id \in posted'
      BY <1>3, <1>6 DEF Sound
    <3> HIDE DEF p
    <3> QED
      BY <2>3, <3>1 DEF Sound
  <2>5. Requests /\ posted \subseteq posted' /\ posted' \subseteq Items
    BY <1>3, <1>6 DEF IInv, TypeOK
  <2>6. Requests'
    <3> HIDE DEF p, Requests, IInv
    <3> QED
      BY <2>1, <2>2, <2>4, <2>5, OneRequest DEF Steps
  <2>7. ledger' \in [Refs -> [Targets["account"] -> 0..Copies]] /\ PostedOnce'
    <3>1. TypeOK /\ PostedOnce
      BY DEF IInv
    <3> HIDE DEF ref, a, TypeOK, PostedOnce, Free
    <3> QED
      BY <1>4, <1>6, <3>1, LedgerGrows
  <2>8. TypeOK' /\ RulesTyped' /\ Processed'
    BY <1>1, <2>5, <2>7 DEF IInv, TypeOK, RulesTyped, Processed
  <2> QED
    BY <2>6, <2>7, <2>8 DEF IInv
<1> QED
  BY <1>5, <1>6 DEF Post, Reference

-----------------------------------------------------------------------------
(* The specification *)

LEMMA NextKeeps ==
    ASSUME IInv, [Next]_importVars
    PROVE  IInv'
<1> HIDE DEF IInv
<1>1. CASE StageImport \/ DeleteStaged \/ ClearStaged \/ UpsertRules \/ DeleteRule
           \/ DeleteEntry
  BY <1>1, StageImportKeeps, DeleteKeeps, RulesKeep, DeleteEntryKeeps
<1>2. ASSUME NEW r \in Slots,
             PatchStaged(r) \/ ReadMeta(r) \/ WriteMeta(r) \/ CreateManyFromStaged(r)
      PROVE  IInv'
  BY <1>2, PatchKeeps, ReadMetaKeeps, WriteMetaKeeps, PromotionKeeps
<1>3. ASSUME NEW r \in Slots,
             GetStaged(r) \/ Post(r) \/ ApplyRules(r) \/ ListRules(r) \/ MapItem(r)
      PROVE  IInv'
  BY <1>3, GetStagedKeeps, PostKeeps, ApplyRulesKeeps, ListRulesKeeps, MapItemKeeps
<1>4. ASSUME NEW r \in Slots, Interrupt(r)
      PROVE  IInv'
  BY <1>4, AnswerKeeps DEF Interrupt
<1>5. CASE UNCHANGED importVars
  BY <1>5 DEF importVars, IInv, TypeOK, RulesTyped, Requests, Processed, PostedOnce
<1> QED
  BY <1>1, <1>2, <1>3, <1>4, <1>5 DEF Next

\* Every mark a request carries is one it may write, through every interleaving
\* of the handlers of InterchangeService.
THEOREM Invariance == Spec => []IInv
<1>1. Init => IInv
  BY InitHolds
<1>2. IInv /\ [Next]_importVars => IInv'
  BY NextKeeps
<1> QED
  BY <1>1, <1>2, PTL DEF Spec

\* Rows, ledger and history stay well formed (staged_imports, transactions).
THEOREM ImportsTyped == Spec => []TypeOK
<1>1. IInv => TypeOK
  BY DEF IInv
<1> QED
  BY <1>1, Invariance, PTL

\* A reference is posted to an account once, however requests that promote it
\* overlap, end half way or are repeated (CreateManyFromStaged).
THEOREM ReferencesPostedOnce == Spec => []PostedOnce
<1>1. IInv => PostedOnce
  BY DEF IInv
<1> QED
  BY <1>1, Invariance, PTL

\* An item that is processed stays so, unless its user changes it.
LEMMA MarksStay ==
    ASSUME IInv, [Next]_importVars, NEW i \in Items,
           item[i].status = "processed", item'[i].there
    PROVE  item'[i].status = "processed" \/ i \in byHand'
<1> SUFFICES ASSUME item' # item
             PROVE  item'[i].status = "processed" \/ i \in byHand'
  OBVIOUS
<1>1. item[i] # NoItem /\ NoItem.there = FALSE
  BY ImportsAssumption DEF NoItem
<1>2. item \in [Items -> ItemRow]
  BY DEF IInv, TypeOK
<1>3. item[i].there
  <2> HIDE DEF NoItem
  <2> QED
    BY <1>1, <1>2 DEF ItemRow
<1>4. CASE StageImport
  BY <1>3, <1>4 DEF StageImport
<1>5. CASE DeleteStaged \/ ClearStaged
  <2>1. item'[i] = NoItem \/ item'[i] = item[i]
    BY <1>2, <1>5 DEF DeleteStaged, ClearStaged
  <2> QED
    BY <1>1, <2>1
<1>6. ASSUME NEW r \in Slots, WriteMeta(r)
      PROVE  item'[i].status = "processed" \/ i \in byHand'
  <2>1. step[r] = "write"
    BY <1>6 DEF WriteMeta
  <2>2. Sound(req[r], "write", posted)
    BY <2>1, OfSlot
  <2>3. CASE req[r].mark = None \/ req[r].id # i \/ ~item[req[r].id].there
    <3>1. item'[i].status = item[i].status
      <4> DEFINE m == Merge(req[r].meta, req[r].patch)
                 k == req[r].id
                 st == IF req[r].mark # None THEN req[r].mark ELSE item[k].status
      <4>1. item' = IF ~item[k].there THEN item
                    ELSE [item EXCEPT ![k].meta = m, ![k].status = st]
        BY <1>2, <1>6 DEF WriteMeta
      <4>2. req[r].mark = None => st = item[k].status
        OBVIOUS
      <4>3. item[i] \in ItemRow
        BY <1>2
      <4> HIDE DEF m, st
      <4>4. CASE k # i \/ ~item[k].there
        BY <1>2, <4>1, <4>4
      <4>5. CASE k = i /\ item[k].there
        <5>1. item'[i] = [item[i] EXCEPT !.meta = m, !.status = st]
          BY <1>2, <4>1, <4>5
        <5>2. item'[i].status = st
          BY <4>3, <4>5, <5>1, <1>1 DEF ItemRow
        <5> QED
          BY <2>3, <4>2, <4>5, <5>2
      <4> QED
        BY <4>4, <4>5
    <3> QED
      BY <1>3, <1>6, <3>1 DEF WriteMeta
  <2>4. CASE req[r].mark # None /\ req[r].id = i /\ item[i].there
    <3>1. CASE req[r].kind = "patch"
      BY <1>6, <2>4, <3>1 DEF WriteMeta
    <3>2. CASE req[r].kind # "patch"
      <4>1. req[r].mark = "processed"
        BY <2>2, <2>4, <3>2 DEF Sound
      <4> QED
        BY <1>2, <1>6, <2>4, <4>1 DEF WriteMeta
    <3> QED
      BY <3>1, <3>2
  <2> QED
    BY <1>3, <2>3, <2>4
<1>7. Next
  BY DEF importVars
<1> QED
  BY <1>4, <1>5, <1>6, <1>7
     DEF Next, UpsertRules, DeleteRule, DeleteEntry, PatchStaged, ReadMeta,
         CreateManyFromStaged, GetStaged, Post, ApplyRules, ListRules, MapItem,
         Interrupt, Keep
\* A mark says what happened: an entry was posted for the item, or its user set
\* it; and no request that had read the row before takes it back
\* (CreateManyFromStaged, PatchStagedImportTx).
THEOREM ProcessedRowsWerePosted == Spec => ProcessedWerePosted
<1> DEFINE Stays ==
       \A i \in Items : item[i].status = "processed" /\ item'[i].there =>
           item'[i].status = "processed" \/ i \in byHand'
<1>1. IInv => Processed
  BY DEF IInv
<1>2. IInv /\ [Next]_importVars => [Stays]_importVars
  <2> HIDE DEF IInv
  <2> QED
    BY MarksStay
<1>3. Spec => []Processed
  BY <1>1, Invariance, PTL
<1>4. Spec => [][Stays]_importVars
  BY <1>2, Invariance, PTL DEF Spec
<1> QED
  BY <1>3, <1>4 DEF ProcessedWerePosted, Processed
=============================================================================
