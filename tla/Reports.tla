-------------------------------- MODULE Reports --------------------------------
(***************************************************************************)
(* The dashboard of one user: account balances and the cash flow of the    *)
(* last six months, ReportService with ReportRepo.                         *)
(*                                                                         *)
(* Nothing of it is stored.  The first month of the cash flow is computed  *)
(* by the server from its clock, the last by the database from its own,    *)
(* and the server's is read first: midnight may pass in between.           *)
(***************************************************************************)
EXTENDS Calendar, FiniteSets, FiniteSetsExt

CONSTANTS
    Accounts, \* of one currency
    Entries,  \* transactions there may be
    FirstDay, \* the days the model covers
    LastDay,
    Months    \* how many months the dashboard asks for: 6

\* No own amount: what those columns hold is positive.
Null == 0

Entry == [type : {"income", "expense"}, account : Accounts, day : Nat,
          amount : Nat, status : {"pending", "posted", "cancelled"}]
         \cup [type : {"transfer"}, from : Accounts, to : Accounts, day : Nat,
               amount : Nat, fromAmount : Nat, toAmount : Nat,
               status : {"pending", "posted", "cancelled"}]
ReportsAssumption ==
    /\ Entries \subseteq Entry /\ FirstDay \in Nat /\ LastDay \in Nat /\ Months \in Nat \ {0}
    /\ FirstDay <= LastDay /\ IsFiniteSet(Accounts) /\ IsFiniteSet(Entries)
    /\ \A e \in Entries : e.type = "transfer" =>
         e.from # e.to /\ (e.fromAmount = Null <=> e.toAmount = Null)

VARIABLES
    booked, \* the entries not deleted
    today

reportVars == <<booked, today>>

-----------------------------------------------------------------------------
Amount(entries) == MapThenSumSet(LAMBDA e : e.amount, entries)

\* COALESCE(to_amount, amount) and COALESCE(from_amount, amount) of a transfer: a
\* request may give each end an amount of its own.
Arrives(e) == IF e.toAmount = Null THEN e.amount ELSE e.toAmount
Leaves(e) == IF e.fromAmount = Null THEN e.amount ELSE e.fromAmount
Received(entries) == MapThenSumSet(LAMBDA e : Arrives(e), entries)
Sent(entries) == MapThenSumSet(LAMBDA e : Leaves(e), entries)

Flow(type, entries) == {e \in entries : e.type = type}

\* AccountBalanceSQL, over the posted entries that name the account.
Balance(a) ==
    LET posted == {e \in booked : e.status = "posted"}
    IN  Amount({e \in Flow("income", posted) : e.account = a})
        - Amount({e \in Flow("expense", posted) : e.account = a})
        + Received({e \in Flow("transfer", posted) : e.to = a})
        - Sent({e \in Flow("transfer", posted) : e.from = a})

\* ListAccountBalancesForUserTx, for a user who sees all accounts.
Balances == [a \in Accounts |-> Balance(a)]

\* Fault: the count of months leaves out the current one.
FirstMonthBefore(now) == Month(AddDate(now, 0 - Months, 0))

\* The month of the day so many months ago; GetCashflowTx then takes its first day.
FirstMonth(now) == Month(AddDate(now, 1 - Months, 0))

\* One row a month, up to the one it is for the database.
Rows(now, dbNow) == FirstMonth(now)..Month(dbNow)

\* Entries are grouped by month, deleted ones left out and pending ones not.
Row(type, month) == Amount({e \in Flow(type, booked) : Month(e.day) = month})

-----------------------------------------------------------------------------
Init == booked = {} /\ today = FirstDay

\* The ledger changes, and time passes.
Book(e) == e \notin booked /\ booked' = booked \cup {e} /\ UNCHANGED today
Delete(e) == e \in booked /\ booked' = booked \ {e} /\ UNCHANGED today
NextDay == today < LastDay /\ today' = today + 1 /\ UNCHANGED booked

Next == (\E e \in Entries : Book(e) \/ Delete(e)) \/ NextDay

Spec == Init /\ [][Next]_reportVars

-----------------------------------------------------------------------------
TypeOK == booked \subseteq Entries /\ today \in FirstDay..LastDay

TotalBalance == MapThenSumSet(LAMBDA a : Balances[a], Accounts)
TotalIncome(rows) == MapThenSumSet(LAMBDA m : Row("income", m), rows)

\* A transfer moves money between accounts: all balances together are what was
\* earned less what was spent, and what the transfers with amounts of their own
\* gained or lost on the way; the others cancel (ListAccountBalancesForUserTx).
BalancesAddUp ==
    LET posted == {e \in booked : e.status = "posted"}
        exchanged == {e \in Flow("transfer", posted) : e.toAmount # Null}
    IN  TotalBalance
          = Amount(Flow("income", posted)) - Amount(Flow("expense", posted))
            + Received(exchanged) - Sent(exchanged)

\* The cash flow ends with the current month, asks for no more months than it
\* should, and counts what was earned since the first of them once, although
\* midnight may pass while it is computed (GetCashflowTx).
CashflowIsRecent ==
    \A dbNow \in {today, today + 1} :
      LET rows == Rows(today, dbNow) IN
      /\ Month(today) \in rows /\ Cardinality(Rows(today, today)) <= Months
      /\ TotalIncome(rows)
           = Amount({e \in Flow("income", booked) :
                       Month(e.day) >= FirstMonth(today) /\ Month(e.day) <= Month(dbNow)})

\* The dashboard has the cash flow "for the last 6 months" (DashboardReport).  The
\* code does not keep this: on the last days of some months AddDate skips one.
CashflowHasEveryMonth == Cardinality(Rows(today, today)) = Months
=============================================================================
