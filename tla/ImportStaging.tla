---------------------------- MODULE ImportStaging ----------------------------
(***************************************************************************)
(* Staged imports of one user, the rules that map them to accounts and     *)
(* categories, and the ledger entries made from them: InterchangeService   *)
(* with InterchangeRepo.                                                   *)
(*                                                                         *)
(* Only staging and the rules' upsert are transactions.  Mapping an item   *)
(* reads its metadata and writes them back; promoting one reads it, posts  *)
(* the entry in a transaction of its own, and then marks the item, and a   *)
(* request may end in between.  What keeps an item from being posted twice *)
(* is the ledger's unique index on account and external reference.         *)
(***************************************************************************)
EXTENDS Naturals, FiniteSets

CONSTANTS
    Items,      \* ids of staged imports
    Refs,       \* external ids; Blank stands for an item without one
    Blank,
    Names,      \* source names, what rules match
    Targets,    \* what a kind of mapping maps to: a set by kind
    Slots,      \* requests the server executes at the same time
    Copies,     \* bound: entries in the ledger of one reference
    MaxRequests, \* bound: patches, promotions and applications of the rules
    None

Kinds == DOMAIN Targets
ASSUME ImportsAssumption ==
    /\ "account" \in Kinds
    /\ Copies \in Nat /\ MaxRequests \in Nat
    /\ None \notin Items \cup Refs \cup Names \cup UNION {Targets[k] : k \in Kinds}
    /\ None \notin {"pending", "processed"}

VARIABLES
    item,   \* staged_imports, by id
    rule,   \* staged_import_rules: the target by kind and source name
    ledger, \* transactions not deleted: how many, by reference and account
    posted, \* history: the items an entry has been posted for
    byHand, \* history: the items whose status the user has set
    req,    \* the request each slot serves
    step,   \* its next statement
    begun   \* how many requests have begun

importVars == <<item, rule, ledger, posted, byHand, req, step, begun>>

-----------------------------------------------------------------------------
(* Rows *)

AnyTarget == UNION {Targets[k] : k \in Kinds}
Metadata == [Kinds -> AnyTarget \cup {None}]
Unmapped == [k \in Kinds |-> None]

NoItem == [there |-> FALSE, ref |-> None, name |-> None, meta |-> Unmapped,
           status |-> None]
ItemRow == [there : {TRUE}, ref : Refs, name : Names, meta : Metadata,
            status : {"pending", "processed"}] \cup {NoItem}

\* What a patch gives wins, what it leaves out stays.
Merge(meta, patch) == [k \in Kinds |-> IF patch[k] = None THEN meta[k] ELSE patch[k]]

\* canCreateFromMetadata
Mapped(meta) == meta["account"] # None

-----------------------------------------------------------------------------
(* Requests *)

NoRules == [k \in Kinds |-> [n \in Names |-> None]]

\* ids and listed: the items still to be promoted and, as they were read, to be
\* mapped; row: the item being promoted; patch and meta: what is merged into
\* what was read of item id; mark: the status to set.
Request(kind) ==
    [kind |-> kind, ids |-> {}, listed |-> {}, id |-> None, patch |-> Unmapped,
     meta |-> Unmapped, mark |-> None, row |-> NoItem, rules |-> NoRules]
NoRequest == Request("none")

Set(r, q, s) ==
    /\ req' = [req EXCEPT ![r] = q]
    /\ step' = [step EXCEPT ![r] = s]
    /\ UNCHANGED begun

Begin(r, q, s) ==
    /\ step[r] = "idle" /\ begun < MaxRequests
    /\ req' = [req EXCEPT ![r] = q]
    /\ step' = [step EXCEPT ![r] = s]
    /\ begun' = begun + 1

Answer(r) == Set(r, NoRequest, "idle")

Keep == UNCHANGED <<item, rule, ledger, posted, byHand>>

\* On to the next item of a promotion.
NextPromotion(r, q) ==
    IF q.ids = {} THEN Answer(r)
    ELSE Set(r, [Request("promote") EXCEPT !.ids = q.ids], "get")

-----------------------------------------------------------------------------
(* Staging and rules *)

\* UpsertStagedImportsTx: rows are inserted, whatever is there.
Staged(ref, name) ==
    [there |-> TRUE, ref |-> ref, name |-> name, meta |-> Unmapped, status |-> "pending"]

\* The items of a batch arrive unmapped in one transaction; ids are fresh.
StageImport ==
    \E new \in SUBSET {i \in Items : ~item[i].there /\ i \notin posted} \ {{}},
       ref \in Refs, name \in Names :
        /\ item' = [i \in Items |-> IF i \in new THEN Staged(ref, name) ELSE item[i]]
        /\ UNCHANGED <<rule, ledger, posted, byHand, req, step, begun>>

DeleteStaged ==
    \E i \in Items :
        /\ item[i].there
        /\ item' = [item EXCEPT ![i] = NoItem]
        /\ byHand' = byHand \ {i}
        /\ UNCHANGED <<rule, ledger, posted, req, step, begun>>

ClearStaged ==
    /\ \E i \in Items : item[i].there
    /\ item' = [i \in Items |-> NoItem]
    /\ byHand' = {}
    /\ UNCHANGED <<rule, ledger, posted, req, step, begun>>

\* UpsertImportRulesTx: a rule for what is mapped already replaces it.
Upserted(new) ==
    [k \in Kinds |-> [n \in Names |-> IF new[k][n] = None THEN rule[k][n] ELSE new[k][n]]]

\* Several rules in one transaction.
UpsertRules ==
    \E new \in [Kinds -> [Names -> AnyTarget \cup {None}]] :
        /\ \A k \in Kinds, n \in Names : new[k][n] \in Targets[k] \cup {None}
        /\ rule' = Upserted(new)
        /\ UNCHANGED <<item, ledger, posted, byHand, req, step, begun>>

DeleteRule ==
    \E k \in Kinds, n \in Names :
        /\ rule[k][n] # None
        /\ rule' = [rule EXCEPT ![k][n] = None]
        /\ UNCHANGED <<item, ledger, posted, byHand, req, step, begun>>

-----------------------------------------------------------------------------
(* PatchStagedImportTx: metadata are read, merged and written *)

PatchStaged(r) ==
    \E i \in Items, k \in Kinds, mark \in {None, "pending", "processed"} :
    \E a \in Targets[k] \cup {None} :
        /\ item[i].there
        /\ Begin(r, [Request("patch") EXCEPT !.id = i, !.patch[k] = a, !.mark = mark], "read")
        /\ Keep

\* After the patch: the rest of the promotion or of the mapping, or the answer.
Resume(r) ==
    CASE req[r].kind = "patch" -> Answer(r)
      [] req[r].kind = "promote" -> NextPromotion(r, req[r])
      [] OTHER -> Set(r, req[r], "map")

ReadMeta(r) ==
    LET i == req[r].id IN
    /\ step[r] = "read"
    /\ IF item[i].there
       THEN Set(r, [req[r] EXCEPT !.meta = item[i].meta], "write")
       ELSE Resume(r)
    /\ Keep

\* Fault: the status is written whether the patch gives one or not.
WriteMetaNull(r) ==
    LET i == req[r].id IN
    /\ step[r] = "write"
    /\ item' = IF ~item[i].there THEN item
               ELSE [item EXCEPT ![i].meta = Merge(req[r].meta, req[r].patch),
                        ![i].status = req[r].mark]
    /\ Resume(r)
    /\ UNCHANGED <<rule, ledger, posted, byHand>>

WriteMeta(r) ==
    LET i == req[r].id
        m == Merge(req[r].meta, req[r].patch)
    IN
    /\ step[r] = "write"
    /\ item' = IF ~item[i].there THEN item
               ELSE [item EXCEPT ![i].meta = m,
                        ![i].status = IF req[r].mark # None THEN req[r].mark ELSE @]
    /\ byHand' = IF req[r].kind = "patch" /\ req[r].mark # None THEN byHand \cup {i} ELSE byHand
    /\ Resume(r)
    /\ UNCHANGED <<rule, ledger, posted>>

-----------------------------------------------------------------------------
(* CreateManyFromStaged: per item read, post, mark *)

CreateManyFromStaged(r) ==
    \E ids \in SUBSET Items \ {{}} :
        /\ Begin(r, [Request("promote") EXCEPT !.ids = ids], "get")
        /\ Keep

\* The status is not looked at.
GetStaged(r) ==
    /\ step[r] = "get"
    /\ \E i \in req[r].ids :
           LET rest == [req[r] EXCEPT !.ids = @ \ {i}] IN
           IF item[i].there
           THEN Set(r, [rest EXCEPT !.id = i, !.row = item[i]], "post")
           ELSE NextPromotion(r, rest)
    /\ Keep

\* mapStagedToTransactionRequest: the external reference of the entry, none when
\* it is blank.
Reference(row) == row.ref

\* Fault: the index is missing.
Always(ref, a) == TRUE

\* uq_transactions_account_external_ref
Free(ref, a) == ref = Blank \/ ledger[ref][a] = 0

\* Fault: the item is marked although the entry is refused.
PostRegardless(r) ==
    LET q == req[r]
        ref == Reference(q.row)
        a == q.row.meta["account"]
        ok == a # None /\ Free(ref, a)
    IN
    /\ step[r] = "post"
    /\ ok => ledger[ref][a] < Copies
    /\ ledger' = IF ok THEN [ledger EXCEPT ![ref][a] = @ + 1] ELSE ledger
    /\ posted' = IF ok THEN posted \cup {q.id} ELSE posted
    /\ Set(r, [q EXCEPT !.mark = "processed"], "read")
    /\ UNCHANGED <<item, rule, byHand>>

\* TransactionService.Create, in one transaction.  It fails without an account,
\* with a reference that is taken, and for whatever else the data hold.
Post(r) ==
    LET q == req[r]
        ref == Reference(q.row)
        a == q.row.meta["account"]
    IN
    /\ step[r] = "post"
    /\ \/ /\ a # None /\ Free(ref, a) /\ ledger[ref][a] < Copies
          /\ ledger' = [ledger EXCEPT ![ref][a] = @ + 1]
          /\ posted' = posted \cup {q.id}
          /\ Set(r, [q EXCEPT !.mark = "processed"], "read")
       \/ /\ NextPromotion(r, q)
          /\ UNCHANGED <<ledger, posted>>
    /\ UNCHANGED <<item, rule, byHand>>

\* An entry is deleted in the ledger; its reference is free again.
DeleteEntry ==
    \E ref \in Refs, a \in Targets["account"] :
        /\ ledger[ref][a] > 0
        /\ ledger' = [ledger EXCEPT ![ref][a] = @ - 1]
        /\ UNCHANGED <<item, rule, posted, byHand, req, step, begun>>

-----------------------------------------------------------------------------
(* ApplyRulesAndCreate: list, map, promote *)

\* ListStagedImportsTx, of which only what is pending is gone through.
Pending == {<<i, item[i]>> : i \in {j \in Items : item[j].there /\ item[j].status = "pending"}}

\* The listed rows are what the rest of the request goes by.
ApplyRules(r) ==
    /\ Begin(r, [Request("apply") EXCEPT !.listed = Pending], "rules")
    /\ Keep

ListRules(r) ==
    /\ step[r] = "rules"
    /\ Set(r, [req[r] EXCEPT !.rules = rule], "map")
    /\ Keep

\* Each matching rule is written into the item's metadata; all of them, as they
\* were listed, are then merged into the row.
MapItem(r) ==
    LET q == req[r] IN
    /\ step[r] = "map"
    /\ \/ q.listed = {} /\ NextPromotion(r, q)
       \/ \E x \in q.listed :
              LET hits == [k \in Kinds |-> q.rules[k][x[2].name]]
                  meta == Merge(x[2].meta, hits)
              IN  Set(r, [q EXCEPT !.listed = @ \ {x}, !.id = x[1], !.patch = meta,
                              !.ids = IF Mapped(meta) THEN @ \cup {x[1]} ELSE @],
                      IF hits # Unmapped THEN "read" ELSE "map")
    /\ Keep

\* The request ends where it is.
Interrupt(r) == step[r] # "idle" /\ Answer(r) /\ Keep

-----------------------------------------------------------------------------
Init ==
    /\ item = [i \in Items |-> NoItem]
    /\ rule = [k \in Kinds |-> [n \in Names |-> None]]
    /\ ledger = [ref \in Refs |-> [a \in Targets["account"] |-> 0]]
    /\ posted = {} /\ byHand = {}
    /\ req = [r \in Slots |-> NoRequest]
    /\ step = [r \in Slots |-> "idle"]
    /\ begun = 0

Next ==
    \/ StageImport \/ DeleteStaged \/ ClearStaged
    \/ UpsertRules \/ DeleteRule \/ DeleteEntry
    \/ \E r \in Slots :
           \/ PatchStaged(r) \/ ReadMeta(r) \/ WriteMeta(r)
           \/ CreateManyFromStaged(r) \/ GetStaged(r) \/ Post(r)
           \/ ApplyRules(r) \/ ListRules(r) \/ MapItem(r)
           \/ Interrupt(r)

Spec == Init /\ [][Next]_importVars

-----------------------------------------------------------------------------
(* Properties *)

TypeOK ==
    /\ item \in [Items -> ItemRow]
    /\ ledger \in [Refs -> [Targets["account"] -> 0..Copies]]
    /\ posted \cup byHand \subseteq Items

\* PostedOnce: items with the same external id are posted to an account once,
\* however they are staged again, promoted by overlapping requests, or retried
\* after a request that ended between posting and marking
\* (CreateManyFromStaged; "ID from source for idempotency").
PostedOnce ==
    \A ref \in Refs \ {Blank}, a \in Targets["account"] : ledger[ref][a] <= 1

\* ProcessedWerePosted: an item is marked processed only after an entry has
\* been posted for it, unless the user said so (CreateManyFromStaged).  And the requests
\* that map an item, which write a row they read before, never put it back when
\* it has been processed meanwhile; only the user does (PatchStagedImportTx).
ProcessedWerePosted ==
    /\ [](\A i \in Items : item[i].status = "processed" => i \in posted \cup byHand)
    /\ [][\A i \in Items : item[i].status = "processed" /\ item'[i].there =>
              item'[i].status = "processed" \/ i \in byHand']_importVars

\* PatchesMerge: what one mapping request has written another does not take
\* away ("Merges with existing metadata", StagedImportPatch).  The code does not
\* keep this: the later of two overlapping patches writes back what it had read.
PatchesMerge ==
    [][\A i \in Items, k \in Kinds :
           item[i].meta[k] # None /\ item'[i].there => item'[i].meta[k] # None]_importVars
=============================================================================
