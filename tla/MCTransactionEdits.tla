-------------------------- MODULE MCTransactionEdits --------------------------
(* Instances of TransactionEdits for TLC. *)
EXTENDS TransactionEdits

CONSTANTS t1, t2, r1, r2, n1, g1

Body(a, n, l, g) == [amount |-> a, note |-> n, lines |-> l, tags |-> g]

Line(a) == [amount |-> a, note |-> Plain]

\* An edit of everything, a note with an amount, a line item with an amount, and
\* a note alone.
SomePatches ==
    {Body(2, n1, <<Line(1), Line(1)>>, {g1}), Body(1, n1, None, None),
     Body(1, None, <<Line(1)>>, None), Body(None, n1, None, None)}

\* Line items alone.
LinesOnly == {Body(None, None, <<Line(1), Line(1)>>, None)}

OneEntry == {<<t1>>}

TwoRequests == [h \in Habits |-> 2]

\* More requests of the kind that takes the locks of rows.
SomeRequests == [h \in Habits |-> IF h = "batch" THEN 4 ELSE 2]

SomeBatches == {<<t1, t2>>, <<t2, t1, t1>>}
=============================================================================
