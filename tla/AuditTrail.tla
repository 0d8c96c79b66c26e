------------------------------ MODULE AuditTrail ------------------------------
(***************************************************************************)
(* The audit log: AuditService.Record called by the other services, and    *)
(* the job that removes old logs.                                          *)
(*                                                                         *)
(* A service either records a change inside its transaction or after a     *)
(* statement that has committed by itself; both ignore the error.  Inside  *)
(* a transaction that is not the same as going on without a log:           *)
(* PostgreSQL has aborted the transaction, and the commit fails.           *)
(***************************************************************************)
EXTENDS Naturals

CONSTANTS
    Changes,   \* the changes services make, each once
    Retention, \* days a log is kept: 30
    LastDay    \* bound: days that pass

AuditAssumption == Retention \in Nat \ {0} /\ LastDay \in Nat

VARIABLES
    change, \* what has become of each change, and where it is recorded
    log,    \* audit_logs that have committed: the day they were recorded, or NoDay
    draft,  \* a log in a transaction not committed yet
    broken, \* the transaction a change is in has been aborted
    today

auditVars == <<change, log, draft, broken, today>>

-----------------------------------------------------------------------------
NoDay == LastDay + 1  \* the day of no log

States == {"none", "made", "recorded", "committed", "logged", "undone"}

Init ==
    /\ change = [c \in Changes |-> [state |-> "none", inside |-> TRUE]]
    /\ log = [c \in Changes |-> NoDay]
    /\ draft = [c \in Changes |-> NoDay]
    /\ broken = [c \in Changes |-> FALSE]
    /\ today = 0

Is(c, s) == change[c].state = s
Becomes(c, s) == change' = [change EXCEPT ![c].state = s]

\* A statement of a transaction that will record the change (inside), or one
\* that commits at once and is recorded after.
Make(c, inside) ==
    /\ Is(c, "none")
    /\ change' = [change EXCEPT ![c] = [state |-> IF inside THEN "made" ELSE "committed",
                                        inside |-> inside]]
    /\ UNCHANGED <<log, draft, broken, today>>

\* Record in the transaction: INSERT INTO audit_logs, or an error that aborts
\* the transaction and that the caller ignores.
Record(c) ==
    /\ Is(c, "made")
    /\ \/ draft' = [draft EXCEPT ![c] = today] /\ UNCHANGED broken
       \/ broken' = [broken EXCEPT ![c] = TRUE] /\ UNCHANGED draft
    /\ Becomes(c, "recorded")
    /\ UNCHANGED <<log, today>>

\* WithTx: the commit of an aborted transaction rolls back and is an error.
Commit(c) ==
    /\ Is(c, "recorded")
    /\ IF broken[c] THEN Becomes(c, "undone") /\ UNCHANGED log
       ELSE /\ Becomes(c, "logged")
            /\ log' = [log EXCEPT ![c] = IF draft[c] # NoDay THEN draft[c] ELSE @]
    /\ draft' = [draft EXCEPT ![c] = NoDay]
    /\ UNCHANGED <<broken, today>>

\* A later statement of the transaction fails, or its connection is lost.
Rollback(c) ==
    /\ Is(c, "made") \/ Is(c, "recorded")
    /\ Becomes(c, "undone")
    /\ draft' = [draft EXCEPT ![c] = NoDay]
    /\ UNCHANGED <<log, broken, today>>

\* Record after the fact, best effort; the process may end before.
RecordAfter(c) ==
    /\ Is(c, "committed")
    /\ Becomes(c, "logged")
    /\ \/ log' = [log EXCEPT ![c] = today]
       \/ UNCHANGED log
    /\ UNCHANGED <<draft, broken, today>>

\* Fault: the last day of the retention is not kept.
OlderOrEqual(day) == day + Retention <= today

Old(day) == day + Retention < today

\* AuditCleanupJob.run, at start-up and once a day: it sees committed logs only.
Cleanup ==
    /\ log' = [c \in Changes |-> IF log[c] # NoDay /\ Old(log[c]) THEN NoDay ELSE log[c]]
    /\ UNCHANGED <<change, draft, broken, today>>

NextDay ==
    /\ today < LastDay /\ today' = today + 1
    /\ UNCHANGED <<change, log, draft, broken>>

Next ==
    \/ \E c \in Changes : \/ \E inside \in BOOLEAN : Make(c, inside)
                          \/ Record(c) \/ Commit(c) \/ Rollback(c) \/ RecordAfter(c)
    \/ Cleanup \/ NextDay

Spec == Init /\ [][Next]_auditVars

-----------------------------------------------------------------------------
TypeOK ==
    /\ change \in [Changes -> [state : States, inside : BOOLEAN]]
    /\ log \in [Changes -> 0..NoDay] /\ draft \in [Changes -> 0..NoDay]
    /\ broken \in [Changes -> BOOLEAN] /\ today \in 0..LastDay

\* There is no log of a change that was not made: the transaction takes the log
\* with it when it is rolled back (Record with the caller's transaction).
LogsAreOfChanges ==
    \A c \in Changes : log[c] # NoDay => change[c].state \in {"committed", "logged"}

\* A change committed by a transaction that records it is found in the log for
\* as long as logs are kept, although the error of Record is ignored: it can
\* only lose its log to the cleanup, and only after the retention
\* (Record, WithTx, AuditCleanupJob).
ChangesAreLogged ==
    [][\A c \in Changes : change[c].inside =>
         /\ change[c].state # "logged" /\ change'[c].state = "logged" => log'[c] # NoDay
         /\ log[c] # NoDay /\ log'[c] = NoDay => today > log[c] + Retention]_auditVars
=============================================================================
