-------------------------------- MODULE Budgets --------------------------------
(***************************************************************************)
(* The budgets of one user and what they show: BudgetService with          *)
(* BudgetRepo.                                                             *)
(*                                                                         *)
(* A budget is about the expenses of a category, and of the categories     *)
(* under it, on the days of one period; the end of the period is computed  *)
(* when the budget is created.  Every statement commits by itself: an      *)
(* update writes back the columns it read.  What has been spent is         *)
(* computed whenever a budget is shown, and an error there is ignored.     *)
(***************************************************************************)
EXTENDS Calendar, FiniteSets, FiniteSetsExt

CONSTANTS
    Categories, Parent, \* the tree migrations make
    Active,      \* the categories that are active
    Bodies,      \* what a client may ask a budget to be
    Patches,     \* what a client may change of it: [amount, threshold]
    Expenses,    \* line items of expenses there may be: [category, day, amount]
    Slots,       \* requests the server executes at the same time
    MaxBudgets,  \* bound: budgets ever created
    MaxRequests, \* bound: updates ever requested
    None

NoDate == -1   \* no date given
BadDate == -2  \* something PostgreSQL does not read as a date
Absent == -1   \* no amount or threshold given

Body == [period : {"month", "week", "custom"}, start : Int, end : Int,
         category : Categories, amount : Nat, threshold : Int]
BudgetIds == 1..MaxBudgets
BudgetsAssumption ==
    /\ Parent \in [Categories -> Categories \cup {None}] /\ Active \subseteq Categories
    /\ Bodies \subseteq Body /\ Patches \subseteq [amount : Int, threshold : Int]
    /\ Expenses \subseteq [category : Categories, day : Nat, amount : Nat]
    /\ MaxBudgets \in Nat /\ MaxRequests \in Nat
    /\ None \notin Categories \cup BudgetIds

VARIABLES
    budget,  \* budgets, by id
    created, \* ids given out: 1 to created
    spent,   \* the expenses there are
    req,     \* the update each slot serves
    begun,   \* how many updates have begun
    shown    \* the last budget shown: what it says was spent, and what was

budgetVars == <<budget, created, spent, req, begun, shown>>

-----------------------------------------------------------------------------
NoBudget == [state |-> "none", period |-> "month", start |-> 0, end |-> 0,
             category |-> None, amount |-> 0, threshold |-> Absent]
Idle == [id |-> None, row |-> NoBudget]
NotShown == [spent |-> 0, of |-> 0]

Readable(date) == date >= 0

\* Fault: the last day of the period is the first of the next.
EndOfNext(period, start, end) ==
    CASE period = "custom" -> end
      [] period = "week"   -> AddDate(start, 0, 7)
      [] OTHER             -> AddDate(start, 1, 0)

\* normalizeBudgetPeriod: a month ends the day before the next begins.
EndOf(period, start, end) ==
    CASE period = "custom" -> end
      [] period = "week"   -> AddDate(start, 0, 6)
      [] OTHER             -> AddDate(AddDate(start, 1, 0), 0, -1)

\* Dates are given, and read by Go or else by PostgreSQL.
Dated(b) == /\ Readable(b.start)
            /\ b.period = "custom" => Readable(b.end)

\* chk_budgets_alert_threshold
Threshold(n) == n = Absent \/ n \in 0..100

\* The category and those below it.
Tree(root) ==
    LET grow[n \in 0..Cardinality(Categories)] ==
          IF n = 0 THEN {root}
          ELSE grow[n - 1] \cup {c \in Categories : Parent[c] \in grow[n - 1]}
    IN  grow[Cardinality(Categories)]

\* The days from the first to the day after the last, which is excluded.
Window(b) == b.start..b.end
Counted(b) ==
    MapThenSumSet(LAMBDA e : e.amount,
                  {e \in spent : e.category \in Tree(b.category) /\ e.day \in Window(b)})

\* The query that adds up the line items looks for categories.deleted_at, a
\* column no migration makes.
SpentComputable == FALSE

\* withStats: "0" when the query fails.
Spent(b) == IF SpentComputable THEN Counted(b) ELSE 0

-----------------------------------------------------------------------------
Init ==
    /\ budget = [b \in BudgetIds |-> NoBudget]
    /\ created = 0
    /\ spent = {}
    /\ req = [r \in Slots |-> Idle]
    /\ begun = 0
    /\ shown = NotShown

\* POST /budgets: GetCategoryTx, the period, and one INSERT.
CreateBudget(body) ==
    /\ body.category \in Active /\ Dated(body) /\ Threshold(body.threshold)
    /\ created < MaxBudgets /\ created' = created + 1
    /\ budget' = [budget EXCEPT ![created'] =
                    [state |-> "live", period |-> body.period, start |-> body.start,
                     end |-> EndOf(body.period, body.start, body.end),
                     category |-> body.category, amount |-> body.amount,
                     threshold |-> body.threshold]]
    /\ UNCHANGED <<spent, req, begun, shown>>

\* PATCH /budgets/{id}: GetBudgetTx; what is given replaces what was read.
ReadBudget(r, b, patch) ==
    /\ req[r] = Idle /\ budget[b].state = "live"
    /\ begun < MaxRequests /\ begun' = begun + 1
    /\ req' = [req EXCEPT ![r] =
         [id |-> b,
          row |-> [budget[b] EXCEPT
                     !.amount = IF patch.amount = Absent THEN @ ELSE patch.amount,
                     !.threshold = IF patch.threshold = Absent THEN @ ELSE patch.threshold]]]
    /\ UNCHANGED <<budget, created, spent, shown>>

\* Fault: the row is written as it was read, deleted or not.
Rewritten(b, row) == row

\* UpdateBudgetTx writes the columns an update may change, where the budget is
\* not deleted.
Updated(b, row) ==
    IF budget[b].state = "live"
    THEN [budget[b] EXCEPT !.amount = row.amount, !.threshold = row.threshold]
    ELSE budget[b]

UpdateBudget(r) ==
    /\ req[r] # Idle
    /\ LET b == req[r].id IN
       budget' = IF Threshold(req[r].row.threshold)
                 THEN [budget EXCEPT ![b] = Updated(b, req[r].row)] ELSE budget
    /\ req' = [req EXCEPT ![r] = Idle]
    /\ UNCHANGED <<created, spent, begun, shown>>

\* The client leaves, or the connection is lost.
Abort(r) ==
    /\ req[r] # Idle /\ req' = [req EXCEPT ![r] = Idle]
    /\ UNCHANGED <<budget, created, spent, begun, shown>>

\* To delete a budget again only gives its row a later deleted_at, which nothing
\* reads.
DeleteBudget(b) ==
    /\ budget[b].state = "live"
    /\ budget' = [budget EXCEPT ![b].state = "deleted"]
    /\ UNCHANGED <<created, spent, req, begun, shown>>

\* Get and List.
ShowBudget(b) ==
    /\ budget[b].state = "live"
    /\ shown' = [spent |-> Spent(budget[b]), of |-> Counted(budget[b])]
    /\ UNCHANGED <<budget, created, spent, req, begun>>

\* The ledger changes: line items of posted and of deleted expenses.
Book(e) ==
    /\ spent' = IF e \in spent THEN spent \ {e} ELSE spent \cup {e}
    /\ UNCHANGED <<budget, created, req, begun, shown>>

Next ==
    \/ \E body \in Bodies : CreateBudget(body)
    \/ \E r \in Slots : \/ \E b \in BudgetIds, p \in Patches : ReadBudget(r, b, p)
                        \/ UpdateBudget(r) \/ Abort(r)
    \/ \E b \in BudgetIds : DeleteBudget(b) \/ ShowBudget(b)
    \/ \E e \in Expenses : Book(e)

Spec == Init /\ [][Next]_budgetVars

-----------------------------------------------------------------------------
TypeOK ==
    /\ \A b \in BudgetIds :
         /\ budget[b].state \in {"none", "live", "deleted"}
         /\ budget[b].category \in Categories \cup {None}
         /\ Threshold(budget[b].threshold)
    /\ created \in 0..MaxBudgets /\ begun \in 0..MaxRequests
    /\ spent \subseteq Expenses

\* Budgets a client makes for one month or week after the other count every day
\* once: the next one begins the day after the last day of the one before,
\* where the calendar has the same day in the next month
\* (normalizeBudgetPeriod, ComputeSpentTx).
PeriodsTile ==
    \A b, c \in BudgetIds :
      LET follows == \/ budget[b].period = "month" /\ SameDayNextMonth(budget[b].start, budget[c].start)
                     \/ budget[b].period = "week" /\ budget[c].start = budget[b].start + 7
      IN  /\ budget[b].state # "none" /\ budget[c].state # "none" /\ follows
          => /\ Window(budget[b]) \cap Window(budget[c]) = {}
             /\ budget[c].start - 1 \in Window(budget[b])

\* No update brings back or changes a budget that was deleted after the update
\* had read it (Update, UpdateBudgetTx).
DeletedBudgetsStay ==
    [][\A b \in BudgetIds : budget[b].state = "deleted" => budget'[b] = budget[b]]_budgetVars

\* A budget shows the "total amount spent in the current period"
\* (BudgetWithStatsResponse).  The code does not keep this: the query that adds it
\* up always fails.
SpentIsShown == shown.spent = shown.of
=============================================================================
