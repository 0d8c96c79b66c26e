---------------------------- MODULE CategoryCache ----------------------------
(***************************************************************************)
(* The list of categories and its copy in Redis: CategoryService.List.     *)
(*                                                                         *)
(* A request answers from the cache if it can; otherwise it reads the      *)
(* table and stores what it read for a day.  Nothing removes the copy when *)
(* a migration changes the table, and a request may store what it read     *)
(* before the change long after it.  Redis may be absent or out of reach.  *)
(***************************************************************************)
EXTENDS Naturals

CONSTANTS
    Slots,   \* requests the server executes at the same time
    Versions \* bound: how often migrations change the table

CacheAssumption == Versions \in Nat

NoVersion == Versions + 1  \* no version of the table

VARIABLES
    table,  \* the version of categories
    cache,  \* the version in goen:categories:all
    redis,  \* whether Redis can be reached
    step,   \* of each request
    read    \* the version a request has read

cacheVars == <<table, cache, redis, step, read>>

-----------------------------------------------------------------------------
Init ==
    /\ table = 0
    /\ cache = NoVersion
    /\ redis = TRUE
    /\ step = [r \in Slots |-> "idle"]
    /\ read = [r \in Slots |-> NoVersion]

List(r) ==
    /\ step[r] = "idle"
    /\ step' = [step EXCEPT ![r] = "get"]
    /\ UNCHANGED <<table, cache, redis, read>>

Answer(r) == step' = [step EXCEPT ![r] = "idle"] /\ read' = [read EXCEPT ![r] = NoVersion]

\* Redis.Get: a hit is the answer, a miss or an error is not.
GetCached(r) ==
    /\ step[r] = "get"
    /\ IF redis /\ cache # NoVersion THEN Answer(r)
       ELSE step' = [step EXCEPT ![r] = "query"] /\ UNCHANGED read
    /\ UNCHANGED <<table, cache, redis>>

\* ListCategoriesTx, or an error.
QueryTable(r) ==
    /\ step[r] = "query"
    /\ \/ step' = [step EXCEPT ![r] = "set"] /\ read' = [read EXCEPT ![r] = table]
       \/ Answer(r)
    /\ UNCHANGED <<table, cache, redis>>

\* Redis.Set, whose error is ignored.
SetCached(r) ==
    /\ step[r] = "set"
    /\ cache' = IF redis THEN read[r] ELSE cache
    /\ Answer(r)
    /\ UNCHANGED <<table, redis>>

\* Fault: the copy is stored without an expiration.
ExpireNever == FALSE /\ cache' = NoVersion /\ UNCHANGED <<table, redis, step, read>>

\* External: the copy is a day old.
Expire ==
    /\ cache # NoVersion
    /\ cache' = NoVersion
    /\ UNCHANGED <<table, redis, step, read>>

\* A migration; the server may be running.
Migrate ==
    /\ table < Versions
    /\ table' = table + 1
    /\ UNCHANGED <<cache, redis, step, read>>

\* Redis is out of reach, or back with what it had.
Toggle == redis' = ~redis /\ UNCHANGED <<table, cache, step, read>>

Work(r) == GetCached(r) \/ QueryTable(r) \/ SetCached(r)
Next == (\E r \in Slots : List(r) \/ Work(r)) \/ Expire \/ Migrate \/ Toggle

\* Requests run on; a copy expires.  Nobody has to ask for categories, no
\* migration has to run, and Redis may be away for good.
Fairness == WF_cacheVars(Expire) /\ \A r \in Slots : WF_cacheVars(Work(r))

Spec == Init /\ [][Next]_cacheVars /\ Fairness

-----------------------------------------------------------------------------
TypeOK ==
    /\ table \in 0..Versions /\ cache \in 0..NoVersion /\ redis \in BOOLEAN
    /\ step \in [Slots -> {"idle", "get", "query", "set"}]
    /\ read \in [Slots -> 0..NoVersion]

\* Neither the copy nor a request is behind the table.
Fresh == cache \in {table, NoVersion} /\ \A r \in Slots : read[r] \in {table, NoVersion}

\* After the last migration the old categories are seen for a while and then
\* never again, whichever requests store what they read before it
\* (CategoryCacheTTL).
EventuallyFresh == <>[]Fresh
=============================================================================
