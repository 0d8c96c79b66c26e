----------------------------- MODULE LineItems ------------------------------
(***************************************************************************)
(* What clients are promised of the ledger entries they edit in batches:   *)
(* an entry appears with all its line items, an edit is applied to all the *)
(* entries of its batch at once or to none, and a deleted entry stays as   *)
(* it is.                                                                  *)
(***************************************************************************)
CONSTANTS
    Entries,
    Edits,      \* what a request may write: [amount, note, lines, tags]
    None        \* a part an edit leaves alone

VARIABLE sheet  \* by entry: {}, or the set of its [amount, deleted, lines, tags]

\* Line items as clients see them: number, amount, note.
Lines(e) == {<<k, e.lines[k].amount, e.lines[k].note>> : k \in DOMAIN e.lines}

\* What may become of the line items of an entry.  A note alone goes to one
\* of them.
Relined(L, e) ==
    IF e.lines # None THEN {Lines(e)}
    ELSE IF e.note = None \/ L = {} THEN {L}
    ELSE {(L \ {l}) \cup {<<l[1], l[2], e.note>>} : l \in L}

EditedFrom(s, e) ==
    {[amount |-> IF e.amount = None THEN s.amount ELSE e.amount,
      deleted |-> FALSE, lines |-> L,
      tags |-> IF e.tags = None THEN s.tags ELSE e.tags] : L \in Relined(s.lines, e)}

Posted(e) ==
    [amount |-> e.amount, deleted |-> FALSE,
     lines |-> IF e.lines = None THEN {} ELSE Lines(e),
     tags |-> IF e.tags = None THEN {} ELSE e.tags]

Post ==
    \E t \in Entries, e \in Edits :
        /\ sheet[t] = {}
        /\ sheet' = [sheet EXCEPT ![t] = {Posted(e)}]

\* An edit e turns the sheet S of an entry into T.
IsEdit(S, T, e) ==
    \E s \in S : ~s.deleted /\ T \in {{u} : u \in EditedFrom(s, e)}

Edit ==
    \E B \in SUBSET Entries, e \in Edits :
        /\ \A t \in B : IsEdit(sheet[t], sheet'[t], e)
        /\ \A t \in Entries \ B : sheet'[t] = sheet[t]

Delete ==
    \E t \in Entries :
        sheet' = [sheet EXCEPT ![t] = {[s EXCEPT !.deleted = TRUE] : s \in @}]

Init ==
    /\ DOMAIN sheet = Entries
    /\ \A t \in Entries : \A s, u \in sheet[t] : s = u /\ ~s.deleted /\ s.tags = {}

Spec == Init /\ [][Post \/ Edit \/ Delete]_sheet
=============================================================================
