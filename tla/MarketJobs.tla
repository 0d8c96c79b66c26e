------------------------------ MODULE MarketJobs ------------------------------
(***************************************************************************)
(* Requests for fresh market data: MarketDataService appends jobs to a     *)
(* Redis stream, which another program works off.                          *)
(*                                                                         *)
(* XADD is not idempotent: when the connection breaks the client library   *)
(* sends it again, and when it gives up the job may have been appended all *)
(* the same.  A request for one security reports the error; a request for  *)
(* many symbols ignores it and goes on.                                    *)
(***************************************************************************)
EXTENDS Naturals, Sequences, FiniteSets

CONSTANTS
    Symbols,     \* upper-cased and trimmed, as both sides compare them
    Securities,  \* the symbols there are securities of
    Asked,       \* the lists of symbols a client may ask for
    Slots,       \* requests the server executes at the same time
    MaxQueue,    \* bound: jobs ever appended
    Market       \* what a job for the whole market is about

Types == {"prices", "events"}
MarketAssumption ==
    /\ Securities \subseteq Symbols /\ Market \notin Symbols
    /\ Asked \subseteq Seq(Symbols) /\ MaxQueue \in Nat

VARIABLES
    stream, \* goen:market_data:jobs; an id is a place in it, 0 no id
    todo,   \* the jobs a request has still to append
    answer  \* what it is going to report: ids, how many, and whether it failed

marketVars == <<stream, todo, answer>>

-----------------------------------------------------------------------------
Job == [type : Types \cup {"sync"}, about : Symbols \cup {Market}]
Of(type, about) == [type |-> type, about |-> about]

\* Flattens a sequence of job lists.
JobsOf(symbols, types) ==
    LET one(s) == (IF "prices" \in types THEN <<Of("prices", s)>> ELSE << >>)
                  \o (IF "events" \in types THEN <<Of("events", s)>> ELSE << >>)
        upTo[i \in 0..Len(symbols)] ==
            IF i = 0 THEN << >>
            ELSE upTo[i - 1] \o (IF symbols[i] \in Securities THEN one(symbols[i]) ELSE << >>)
    IN  upTo[Len(symbols)]

Free == [kind |-> "free", jobs |-> << >>, ids |-> << >>, enqueued |-> 0, done |-> FALSE]

Init ==
    /\ stream = << >>
    /\ todo = [r \in Slots |-> << >>]
    /\ answer = [r \in Slots |-> Free]

Accept(r, kind, jobs) ==
    /\ answer[r] = Free
    /\ todo' = [todo EXCEPT ![r] = jobs]
    /\ answer' = [answer EXCEPT ![r] =
                    [kind |-> kind, jobs |-> jobs, ids |-> << >>, enqueued |-> 0,
                     done |-> jobs = << >>]]
    /\ UNCHANGED stream

\* POST .../prices and .../events: the security must exist.
EnqueuePrices(r, s) == s \in Securities /\ Accept(r, "one", <<Of("prices", s)>>)
EnqueueEvents(r, s) == s \in Securities /\ Accept(r, "one", <<Of("events", s)>>)
EnqueueMarketSync(r) == Accept(r, "one", <<Of("sync", Market)>>)

\* LoadSecurityIDsBySymbols: symbols without a security are reported, not queued.
EnqueueBySymbols(r, symbols, types) == Accept(r, "many", JobsOf(symbols, types))

\* External: an XADD appends the job any number of times, and answers with the
\* id of the last one or with an error.
XAdd(job, copies, id) ==
    /\ Len(stream) + copies <= MaxQueue
    /\ stream' = stream \o [i \in 1..copies |-> job]
    /\ id \in {0} \cup (IF copies > 0 THEN {Len(stream) + copies} ELSE {})

\* Fault: a request for one security forgets the error as well.
ReportedNever(r, id) == FALSE

\* Whether an XADD that failed ends the request with an error.
Reported(r, id) == answer[r].kind = "one" /\ id = 0

\* The next job of the request.
Append1(r, copies, id) ==
    /\ todo[r] # << >>
    /\ XAdd(Head(todo[r]), copies, id)
    /\ IF Reported(r, id)
       THEN /\ todo' = [todo EXCEPT ![r] = << >>]
            /\ answer' = [answer EXCEPT ![r] = Free]
       ELSE /\ todo' = [todo EXCEPT ![r] = Tail(@)]
            /\ answer' = [answer EXCEPT ![r] =
                            [kind |-> @.kind, jobs |-> @.jobs, ids |-> Append(@.ids, id),
                             enqueued |-> @.enqueued + 1, done |-> Tail(todo[r]) = << >>]]

\* The answer has been sent, or the client has left.
End(r) ==
    /\ answer[r] # Free
    /\ todo' = [todo EXCEPT ![r] = << >>]
    /\ answer' = [answer EXCEPT ![r] = Free]
    /\ UNCHANGED stream

Next ==
    \E r \in Slots :
      \/ \E s \in Symbols : EnqueuePrices(r, s) \/ EnqueueEvents(r, s)
      \/ EnqueueMarketSync(r)
      \/ \E ss \in Asked, ts \in SUBSET Types : EnqueueBySymbols(r, ss, ts)
      \/ \E n \in 0..2, id \in 0..MaxQueue : Append1(r, n, id)
      \/ End(r)

Spec == Init /\ [][Next]_marketVars

-----------------------------------------------------------------------------
TypeOK ==
    /\ stream \in Seq(Job)
    /\ \A r \in Slots : todo[r] \in Seq(Job) /\ answer[r].ids \in Seq(0..MaxQueue)

\* A request for one security, or for the whole market, that is answered
\* without an error has its job in the stream, and its id is that of the job
\* whatever other requests append in between
\* (EnqueueSecurityPricesDaily, EnqueueSecurityEvents, EnqueueMarketSync).
AnsweredAreQueued ==
    \A r \in Slots :
      answer[r].kind = "one" /\ answer[r].done =>
        /\ answer[r].ids[1] \in DOMAIN stream
        /\ stream[answer[r].ids[1]] = answer[r].jobs[1]

\* The number a request for many symbols reports is the "number of refresh
\* messages successfully enqueued" (RefreshManyResponse).  The code does not keep
\* this: it counts the appends it asked for.
EnqueuedAreQueued ==
    \A r \in Slots : answer[r].done =>
      Cardinality({i \in DOMAIN answer[r].ids : answer[r].ids[i] # 0}) = answer[r].enqueued
=============================================================================
