------------------------------- MODULE Progress -------------------------------
(***************************************************************************)
(* What must not come to a standstill: deletions of rotating savings       *)
(* groups, the connection pool under any requests, and the category cache. *)
(* They share no state; part says which one runs, and the others stay as   *)
(* they began.                                                             *)
(***************************************************************************)
EXTENDS RotatingSavings

CONSTANTS
    Conns, PoolSlots, Nesters, MaxInner, \* the pool and the requests it serves
    Versions                             \* of the categories

VARIABLES part, holder, waiting, phase, inner, table, cache, redis, listing, read

pool == <<holder, waiting, phase, inner>>
categories == <<table, cache, redis, listing, read>>

Pool == INSTANCE ConnectionPool WITH Slots <- PoolSlots
Cache == INSTANCE CategoryCache WITH step <- listing

ASSUME ProgressAssumption == Pool!PoolAssumption /\ Cache!CacheAssumption

-----------------------------------------------------------------------------
ProgressInit ==
    /\ part \in {"groups", "pool", "cache"}
    /\ Init /\ Pool!Init /\ Cache!Init

ProgressNext ==
    \/ part = "groups" /\ Next /\ UNCHANGED <<part, pool, categories>>
    \/ part = "pool" /\ Pool!Next /\ UNCHANGED <<part, vars, categories>>
    \/ part = "cache" /\ Cache!Next /\ UNCHANGED <<part, vars, pool>>

ProgressSpec ==
    /\ ProgressInit
    /\ [][ProgressNext]_<<part, vars, pool, categories>>
    /\ \A r \in Slots : WF_vars(Serve(r))
    /\ Pool!Fairness /\ Cache!Fairness

-----------------------------------------------------------------------------
\* The types of all parts; and a request holds the connections its phase
\* accounts for, so that none goes missing whichever way requests end
\* (ConnectionPool: WithTx).
TypesOK == TypeOK /\ Pool!TypeOK /\ Pool!NoLeak /\ Cache!TypeOK

\* While fewer requests nest than there are connections, some holder of a
\* connection is not waiting, or one is free (ConnectionPool: Queryer).
SomeoneGoesOn == Pool!SomeoneGoesOn

\* Then every request gets its connections and ends (ConnectionPool).
EveryoneIsServed == Pool!EveryRequestEnds

\* After the last migration the old categories are seen for a while and then
\* never again (CategoryCache: CategoryService.List).
EventuallyFresh == Cache!EventuallyFresh
=============================================================================
