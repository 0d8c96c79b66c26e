---------------------------- MODULE RowVersions -----------------------------
(***************************************************************************)
(* Versions of table rows, as Postgres keeps them for transactions that    *)
(* read committed data.  A version carries the open transaction that wrote *)
(* it (by) and the one that replaced or removed it (until), None when that *)
(* is committed or has not happened.  A transaction is named by the        *)
(* request that runs it.                                                   *)
(***************************************************************************)
CONSTANT None

\* The versions a statement of transaction r sees.
Seen(V, r) == {v \in V : v.by \in {None, r} /\ v.until # r}

\* The versions every new request sees.
Settled(V) == {v \in V : v.by = None}

\* The open transactions whose locks keep others from writing these versions.
Lockers(V, r) == {v.until : v \in V} \ {None, r}

Removed(V, D, r) == (V \ D) \cup {[v EXCEPT !.until = r] : v \in D}

Committed(V, r) ==
    {[v EXCEPT !.by = IF @ = r THEN None ELSE @] : v \in {x \in V : x.until # r}}

RolledBack(V, r) ==
    {[v EXCEPT !.until = IF @ = r THEN None ELSE @] : v \in {x \in V : x.by # r}}
=============================================================================
