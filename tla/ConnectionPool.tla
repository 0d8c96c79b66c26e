---------------------------- MODULE ConnectionPool ----------------------------
(***************************************************************************)
(* The pool of database connections every repository draws from:           *)
(* database.Postgres with pgxpool.                                         *)
(*                                                                         *)
(* A request takes a connection for a statement, for a listing it reads    *)
(* row by row, or for a transaction.  Some take another one while they     *)
(* keep the first: a listing queries the details of each row, a budget     *)
(* list computes what was spent, DeleteTrade lists lots and CreateTx looks *)
(* up contacts inside their transactions.  The server gives no request a   *)
(* deadline, so that a request that waits for a connection waits until it  *)
(* gets one or its client leaves.                                          *)
(***************************************************************************)
EXTENDS Naturals, FiniteSets, Sequences

CONSTANTS
    Conns,   \* what the pool may open: max(4, number of CPUs) by default
    Slots,   \* requests the server executes at the same time
    Nesters, \* the slots that serve requests which take a second connection
    MaxInner, \* bound: how often such a request takes one
    None

PoolAssumption ==
    /\ IsFiniteSet(Conns) /\ IsFiniteSet(Slots) /\ Nesters \subseteq Slots
    /\ Cardinality(Nesters) < Cardinality(Conns)
    /\ MaxInner \in Nat
    /\ None \notin Slots

VARIABLES
    holder,  \* the request that holds a connection, or None
    waiting, \* the requests pgxpool has queued, in the order they came
    phase,   \* what each slot is doing
    inner    \* second connections the request has still to take

poolVars == <<holder, waiting, phase, inner>>

Phases == {"idle", "asks", "works", "asks again", "works within"}

-----------------------------------------------------------------------------
Held(r) == {c \in Conns : holder[c] = r}
Waits(r) == phase[r] \in {"asks", "asks again"}

Init ==
    /\ holder = [c \in Conns |-> None]
    /\ waiting = << >>
    /\ phase = [r \in Slots |-> "idle"]
    /\ inner = [r \in Slots |-> 0]

\* Fault: listings that query row by row are everywhere.
AskNesting(r) ==
    /\ phase[r] = "idle"
    /\ \E n \in 0..MaxInner : inner' = [inner EXCEPT ![r] = n]
    /\ phase' = [phase EXCEPT ![r] = "asks"]
    /\ waiting' = Append(waiting, r)
    /\ UNCHANGED holder

\* pool.Begin, pool.Query or pool.Exec: the request queues for a connection.
Ask(r) ==
    /\ phase[r] = "idle"
    /\ \E n \in 0..MaxInner : /\ n > 0 => r \in Nesters
                              /\ inner' = [inner EXCEPT ![r] = n]
    /\ phase' = [phase EXCEPT ![r] = "asks"]
    /\ waiting' = Append(waiting, r)
    /\ UNCHANGED holder

\* A repository method called with no transaction asks the pool, whether its
\* caller holds a connection or not (Queryer).
AskAgain(r) ==
    /\ phase[r] = "works" /\ inner[r] > 0
    /\ inner' = [inner EXCEPT ![r] = @ - 1]
    /\ phase' = [phase EXCEPT ![r] = "asks again"]
    /\ waiting' = Append(waiting, r)
    /\ UNCHANGED holder

Last == waiting[Len(waiting)]
AllButLast == SubSeq(waiting, 1, Len(waiting) - 1)

\* Fault: whoever came last is served first.
GrantLast(c) ==
    /\ waiting # << >> /\ holder[c] = None
    /\ holder' = [holder EXCEPT ![c] = Last]
    /\ phase' = [phase EXCEPT ![Last] =
                   IF @ = "asks" THEN "works" ELSE "works within"]
    /\ waiting' = AllButLast
    /\ UNCHANGED inner

\* pgxpool gives a free connection to the first in the queue.
Grant(c) ==
    /\ waiting # << >> /\ holder[c] = None
    /\ holder' = [holder EXCEPT ![c] = Head(waiting)]
    /\ phase' = [phase EXCEPT ![Head(waiting)] =
                   IF @ = "asks" THEN "works" ELSE "works within"]
    /\ waiting' = Tail(waiting)
    /\ UNCHANGED inner

\* The inner statement is done and its connection goes back.
GiveBack(r) ==
    /\ phase[r] = "works within"
    /\ \E c \in Held(r) : holder' = [holder EXCEPT ![c] = None]
    /\ phase' = [phase EXCEPT ![r] = "works"]
    /\ UNCHANGED <<waiting, inner>>

\* Every way out of a request that holds connections: the pool has them back.
Returned(r) == [c \in Conns |-> IF holder[c] = r THEN None ELSE holder[c]]

\* WithTx: Commit when the function succeeds; rows.Close when a listing ends.
Finish(r) ==
    /\ phase[r] = "works" /\ inner[r] = 0
    /\ holder' = Returned(r)
    /\ phase' = [phase EXCEPT ![r] = "idle"]
    /\ UNCHANGED <<waiting, inner>>

\* An error, or a panic WithTx rolls back for before it goes on.
Fail(r) ==
    /\ phase[r] \in {"works", "works within"}
    /\ holder' = Returned(r)
    /\ phase' = [phase EXCEPT ![r] = "idle"]
    /\ inner' = [inner EXCEPT ![r] = 0]
    /\ UNCHANGED waiting

\* The queue closes up behind the one that leaves it.
Without(i) ==
    [j \in 1..(Len(waiting) - 1) |-> IF j < i THEN waiting[j] ELSE waiting[j + 1]]

\* The client leaves while the request waits: its context ends the wait, and
\* the transaction around it is rolled back.
Leave(r) ==
    /\ Waits(r)
    /\ \E i \in DOMAIN waiting : waiting[i] = r /\ waiting' = Without(i)
    /\ holder' = Returned(r)
    /\ phase' = [phase EXCEPT ![r] = "idle"]
    /\ inner' = [inner EXCEPT ![r] = 0]

Work(r) == AskAgain(r) \/ GiveBack(r) \/ Finish(r)
Next ==
    \/ \E r \in Slots : Ask(r) \/ Work(r) \/ Fail(r) \/ Leave(r)
    \/ \E c \in Conns : Grant(c)

\* The pool serves its queue and a request that holds what it needs runs on.
\* No request has to come, to fail, or to be left by its client.
PoolStep == \E c \in Conns : Grant(c)
Fairness == WF_poolVars(PoolStep) /\ \A r \in Slots : WF_poolVars(Work(r))

Spec == Init /\ [][Next]_poolVars /\ Fairness

-----------------------------------------------------------------------------
TypeOK ==
    /\ holder \in [Conns -> Slots \cup {None}]
    /\ waiting \in Seq(Slots)
    /\ phase \in [Slots -> Phases]
    /\ inner \in [Slots -> 0..MaxInner]

\* A request holds exactly the connections its phase accounts for, whichever
\* way earlier ones ended: none goes missing from the pool (WithTx, Close).
NoLeak ==
    \A r \in Slots :
      Cardinality(Held(r)) = CASE phase[r] \in {"idle", "asks"} -> 0
                               [] phase[r] \in {"works", "asks again"} -> 1
                               [] OTHER -> 2

\* As long as fewer requests nest than the pool has connections, they cannot
\* all wait for each other: a connection is free or its holder is at work.
SomeoneGoesOn ==
    \E c \in Conns : holder[c] = None \/ ~Waits(holder[c])

\* Then every request gets what it waits for and ends, unless its client leaves
\* first: DeleteTrade, ListTransactions, ListBudgets and CreateTx competing.
EveryRequestEnds == \A r \in Slots : phase[r] # "idle" ~> phase[r] = "idle"
=============================================================================
