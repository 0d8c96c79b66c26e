--------------------------- MODULE TransactionPages ---------------------------
(***************************************************************************)
(* Lists of ledger entries, page by page and exported:                     *)
(* TransactionRepo.ListTransactionsTx with the handler and the services    *)
(* that call it.                                                           *)
(*                                                                         *)
(* A page is two statements, a count and a query with LIMIT and OFFSET,    *)
(* and a client asks for one page after the other, so that entries come    *)
(* and go between the statements and between the pages.  The cursor a page *)
(* returns tells that there is more; no request can pass it back.          *)
(*                                                                         *)
(* An entry is known by its place in the order of all lists, which is told *)
(* by its columns: its time and id, and those a list is filtered by.  An   *)
(* edit of one of them moves the entry to another place.                   *)
(***************************************************************************)
EXTENDS Naturals, FiniteSets

CONSTANTS
    Latest,       \* the places of a list, by time and then id, are 1..Latest
    Filters,      \* what a list may be restricted to: sets of entries
    Limits,       \* page sizes a client may ask for, 0 when it names none
    DefaultLimit, \* 50
    MaxLimit,     \* 200
    ExportLimit   \* 10000

Entries == 1..Latest
PagesAssumption ==
    /\ Latest \in Nat /\ Limits \subseteq Nat /\ Filters \subseteq SUBSET Entries
    /\ DefaultLimit \in Nat \ {0} /\ MaxLimit \in Nat /\ ExportLimit \in Nat
    /\ DefaultLimit <= MaxLimit /\ MaxLimit <= ExportLimit

VARIABLES
    live,   \* transactions the user may see and that are not deleted
    walk,   \* the client's walk through the pages
    export  \* how many rows the last export had, and how many entries there were

pageVars == <<live, walk, export>>

-----------------------------------------------------------------------------
Limit(asked) == IF asked = 0 THEN DefaultLimit
                ELSE IF asked > MaxLimit THEN MaxLimit ELSE asked

\* How many entries of a set come before e: ORDER BY occurred_at DESC, id DESC.
Rank(e, set) == Cardinality({f \in set : f > e})

\* Fault: pages are numbered from 0.
OffsetFrom0(page, limit) == page * limit

Offset(page, limit) == IF page > 0 THEN (page - 1) * limit ELSE 0

\* LIMIT limit + 1 OFFSET offset
Selected(set, page, limit) ==
    {e \in set : /\ Rank(e, set) >= Offset(page, limit)
                 /\ Rank(e, set) < Offset(page, limit) + limit + 1}

\* The page is the first limit of the rows selected, ...
Page(set, page, limit) ==
    {e \in Selected(set, page, limit) : Rank(e, Selected(set, page, limit)) < limit}

\* ... and there is a next cursor when one more was.
More(set, page, limit, total) == Cardinality(Selected(set, page, limit)) > limit

NoWalk == [step |-> "idle", filter |-> {}, limit |-> 0, page |-> 0, total |-> 0,
           since |-> {}, seen |-> {}, twice |-> FALSE, added |-> FALSE, removed |-> FALSE]

Init ==
    /\ live = {}
    /\ walk = NoWalk
    /\ export = [rows |-> 0, of |-> 0]

\* Entries are created with any date, and deleted for good.
Create(e) ==
    /\ e \notin live
    /\ live' = live \cup {e}
    /\ walk' = [walk EXCEPT !.added = walk.step # "idle"]
    /\ UNCHANGED export

Delete(e) ==
    /\ e \in live
    /\ live' = live \ {e}
    /\ walk' = IF walk.step = "idle" THEN walk
               ELSE [walk EXCEPT !.removed = TRUE, !.since = @ \ {e}]
    /\ UNCHANGED export

\* An entry is dated or filed elsewhere (patchTransactionTx).  Lists then miss it
\* where it was, unless it has moved towards their front; where it is now it is
\* new to them, unless it has moved towards their end.
Edit(e, f) ==
    /\ e \in live /\ f \notin live
    /\ live' = (live \ {e}) \cup {f}
    /\ walk' = IF walk.step = "idle" THEN walk
               ELSE [walk EXCEPT
                       !.since = @ \ {e},
                       !.removed = @ \/ /\ e \in walk.filter
                                        /\ f \in walk.filter => f < e,
                       !.added = @ \/ /\ f \in walk.filter
                                      /\ e \in walk.filter => f > e]
    /\ UNCHANGED export

\* A client begins with the first page.
Start(filter, limit) ==
    /\ walk.step = "idle"
    /\ walk' = [NoWalk EXCEPT !.step = "count", !.filter = filter, !.limit = limit,
                              !.page = 1, !.since = live \cap filter]
    /\ UNCHANGED <<live, export>>

\* SELECT COUNT(*)
Count ==
    /\ walk.step = "count"
    /\ walk' = [walk EXCEPT !.step = "query", !.total = Cardinality(live \cap walk.filter)]
    /\ UNCHANGED <<live, export>>

\* The query; the client asks for the next page while there is one.
Query ==
    /\ walk.step = "query"
    /\ LET set == live \cap walk.filter
           limit == Limit(walk.limit)
           page == Page(set, walk.page, limit)
           more == More(set, walk.page, limit, walk.total)
       IN  walk' = [walk EXCEPT !.step = IF more THEN "count" ELSE "done",
                                !.page = IF more THEN @ + 1 ELSE @,
                                !.seen = @ \cup page,
                                !.twice = @ \/ page \cap walk.seen # {}]
    /\ UNCHANGED <<live, export>>

Leave == walk.step # "idle" /\ walk' = NoWalk /\ UNCHANGED <<live, export>>

\* One list of up to ExportLimit entries.
ListForExport == Page(live, 0, Limit(ExportLimit))

\* ExportToCSV: a row for each entry listed.
Export ==
    /\ export' = [rows |-> Cardinality(ListForExport), of |-> Cardinality(live)]
    /\ UNCHANGED <<live, walk>>

Next ==
    \/ \E e \in Entries : Create(e) \/ Delete(e) \/ \E f \in Entries : Edit(e, f)
    \/ \E f \in Filters, l \in Limits : Start(f, l)
    \/ Count \/ Query \/ Leave \/ Export

Spec == Init /\ [][Next]_pageVars

-----------------------------------------------------------------------------
TypeOK ==
    /\ live \subseteq Entries
    /\ walk.step \in {"idle", "count", "query", "done"}
    /\ walk.seen \subseteq Entries /\ walk.since \subseteq Entries
    /\ export \in [rows : 0..Latest, of : 0..Latest]

\* A client that follows the pages to the last has seen every entry that was
\* there all the time and not edited, provided that meanwhile nothing was deleted
\* and no edit took another entry out of the list or further back in it: entries
\* that are added or dated forward may push others to a later page, never past
\* the walk (ListTransactionsTx: OFFSET, LIMIT limit + 1).
NothingMissed ==
    walk.step = "done" /\ ~walk.removed => walk.since \subseteq walk.seen

\* And it has seen none of them twice, provided that nothing was added and no edit
\* brought another entry into the list or further forward in it.
NothingTwice == ~walk.added => ~walk.twice

\* An export has every entry there is, up to the larger limit the export asks
\* for (ListForExport: "with a larger limit for direct export").  The code does not
\* keep this: List lowers every limit to its own.
ExportsWhole == export.of <= ExportLimit => export.rows = export.of
=============================================================================
