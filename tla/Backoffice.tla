------------------------------ MODULE Backoffice ------------------------------
(***************************************************************************)
(* The parts of the server that share no rows with each other, and the     *)
(* debts of one user: each runs by itself; part says which one, and the    *)
(* others stay as they began.                                              *)
(***************************************************************************)
EXTENDS DebtLedger, Calendar, Sequences

CONSTANTS
    Slots, \* requests the server executes at the same time
    FineDebts, FinePrincipals, FineAmounts, FineSubunits, \* debts in parts of a cent
    MaxTrades, TradeBodies, TradeRequests,
    Latest, Filters, Limits, DefaultLimit, MaxLimit, ExportLimit,
    People, Emails, Phones, Names, Blank, ContactBodies, MaxContacts, ContactRequests,
    Categories, Parent, Active, BudgetBodies, Patches, Expenses, MaxBudgets, BudgetRequests,
    Members, UserSlots, Contribution, Interest, Starts, SavedAmounts, MaxRecords,
    Booked, Bookings, FirstDay, LastDay, Months,
    Symbols, Securities, Asked, MaxQueue, Market,
    Changes, Retention, AuditDays,
    Taggers, TagNames, Lower, MaxTags

VARIABLES
    part,
    fineDebt, fineTxn, fineLink,
    trades, held, logs, entries, used, replaces, access, tradeReq, tradesBegun,
    live, walk, export,
    contact, contacts, email, phone, had, contactReq, contactsBegun,
    budget, budgets, spent, budgetReq, budgetsBegun, shown,
    group, history,
    booked, today,
    stream, todo, answer,
    change, log, draft, broken, day,
    tag, given, ask, told

-----------------------------------------------------------------------------
Fine == INSTANCE DebtLedger WITH
    Debts <- FineDebts, Principals <- FinePrincipals, Amounts <- FineAmounts,
    Subunits <- FineSubunits, debt <- fineDebt, txn <- fineTxn, link <- fineLink
fine == <<fineDebt, fineTxn, fineLink>>

Trading == INSTANCE Trades WITH
    Bodies <- TradeBodies, MaxRequests <- TradeRequests,
    req <- tradeReq, begun <- tradesBegun
trading == <<trades, held, logs, entries, used, replaces, access, tradeReq, tradesBegun>>

Paging == INSTANCE TransactionPages
paging == <<live, walk, export>>

Knowing == INSTANCE Contacts WITH
    Users <- People, Bodies <- ContactBodies, MaxRequests <- ContactRequests,
    created <- contacts, req <- contactReq, begun <- contactsBegun
knowing == <<contact, contacts, email, phone, had, contactReq, contactsBegun>>

Budgeting == INSTANCE Budgets WITH
    Bodies <- BudgetBodies, MaxRequests <- BudgetRequests,
    created <- budgets, req <- budgetReq, begun <- budgetsBegun
budgeting == <<budget, budgets, spent, budgetReq, budgetsBegun, shown>>

Scheduling == INSTANCE GroupSchedule WITH Amounts <- SavedAmounts
scheduling == <<group, history>>

Reporting == INSTANCE Reports WITH Accounts <- Booked, Entries <- Bookings
reporting == <<booked, today>>

Queueing == INSTANCE MarketJobs
queueing == <<stream, todo, answer>>

Auditing == INSTANCE AuditTrail WITH LastDay <- AuditDays, today <- day
auditing == <<change, log, draft, broken, day>>

Tagging == INSTANCE Tags WITH Users <- Taggers, Names <- TagNames
tagging == <<tag, given, ask, told>>

ASSUME BackofficeAssumption ==
    /\ Fine!ConstantsAssumption
    /\ Trading!TradesAssumption /\ Paging!PagesAssumption
    /\ Knowing!ContactsAssumption /\ Budgeting!BudgetsAssumption
    /\ Scheduling!ScheduleAssumption /\ Reporting!ReportsAssumption
    /\ Queueing!MarketAssumption /\ Auditing!AuditAssumption /\ Tagging!TagsAssumption

-----------------------------------------------------------------------------
Parts == {"debts", "cents", "trading", "paging", "knowing", "budgeting",
          "scheduling", "reporting", "queueing", "auditing", "tagging"}

BackofficeInit ==
    /\ part \in Parts
    /\ Init /\ Fine!Init /\ Trading!Init /\ Paging!Init /\ Knowing!Init
    /\ Budgeting!Init /\ Scheduling!Init /\ Reporting!Init /\ Queueing!Init
    /\ Auditing!Init /\ Tagging!Init

BackofficeNext ==
    /\ UNCHANGED part
    /\ IF part = "debts" THEN Next ELSE UNCHANGED vars
    /\ IF part = "cents" THEN Fine!Next ELSE UNCHANGED fine
    /\ IF part = "trading" THEN Trading!Next ELSE UNCHANGED trading
    /\ IF part = "paging" THEN Paging!Next ELSE UNCHANGED paging
    /\ IF part = "knowing" THEN Knowing!Next ELSE UNCHANGED knowing
    /\ IF part = "budgeting" THEN Budgeting!Next ELSE UNCHANGED budgeting
    /\ IF part = "scheduling" THEN Scheduling!Next ELSE UNCHANGED scheduling
    /\ IF part = "reporting" THEN Reporting!Next ELSE UNCHANGED reporting
    /\ IF part = "queueing" THEN Queueing!Next ELSE UNCHANGED queueing
    /\ IF part = "auditing" THEN Auditing!Next ELSE UNCHANGED auditing
    /\ IF part = "tagging" THEN Tagging!Next ELSE UNCHANGED tagging

BackofficeSpec ==
    BackofficeInit /\ [][BackofficeNext]_<<part, vars, fine, trading, paging, knowing, budgeting,
                       scheduling, reporting, queueing, auditing, tagging>>

-----------------------------------------------------------------------------
\* The types of all parts.  Here as below a part that does not run is as it began,
\* and is not looked at again.
TypesOK ==
    /\ part = "debts" => TypeOK
    /\ part = "cents" => Fine!TypeOK
    /\ part = "trading" => Trading!TypeOK
    /\ part = "paging" => Paging!TypeOK
    /\ part = "knowing" => Knowing!TypeOK
    /\ part = "budgeting" => Budgeting!TypeOK
    /\ part = "scheduling" => Scheduling!TypeOK
    /\ part = "reporting" => Reporting!TypeOK
    /\ part = "queueing" => Queueing!TypeOK
    /\ part = "auditing" => Auditing!TypeOK
    /\ part = "tagging" => Tagging!TypeOK

\* With amounts of any precision balance and links are rounded apart, but never
\* so that the debt is understated (DebtLedger: AddPaymentTx).
CentsNeverUnderstated == part = "cents" => Fine!NeverUnderstated

\* A trade is updated once, and gone with its lot when another stands for it (Trades).
TradesReplacedOnce == part = "trading" => Trading!TradesReplacedOnce

\* No fee or tax outlives its trade (Trades).
ChargesFollowTrades == part = "trading" => Trading!ChargesFollowTrades

\* A walk through the pages misses no entry that stays as it is while nothing is
\* deleted or moved back, and sees none twice while nothing is added or moved
\* forward (TransactionPages).
WalksAreWhole == part = "paging" => Paging!NothingMissed /\ Paging!NothingTwice

\* Contacts link to users who have had their address (Contacts).
LinksFollowAddresses == part = "knowing" => Knowing!LinksFollowAddresses

\* Budgets of one period after the other count every day once (Budgets).
PeriodsTile == part = "budgeting" => Budgeting!PeriodsTile

\* Deleted contacts and budgets are not brought back by an update that read
\* them before (Contacts, Budgets).
DeletedRowsStay == Knowing!DeletedContactsStay /\ Budgeting!DeletedBudgetsStay

\* Cycles fall due one after the other, and what remains is what the unpaid
\* ones ask for (GroupSchedule).
ScheduleAddsUp == part = "scheduling" => Scheduling!DueInOrder /\ Scheduling!RemainingIsUnpaid

\* Transfers make no money but what their exchange gains, and the cash flow counts
\* the entries of its months once (Reports).
ReportsAddUp == part = "reporting" => Reporting!BalancesAddUp /\ Reporting!CashflowIsRecent

\* What a client was told is there: a job that was acknowledged is in the stream
\* under its id (MarketJobs), a tag that was answered is stored, once (Tags).
AnswersHold ==
    /\ part = "queueing" => Queueing!AnsweredAreQueued
    /\ part = "tagging" => Tagging!TagsAreTold

\* There is no log of a change that was undone, and a change recorded in its
\* transaction is in the log until it expires (AuditTrail).
LogsMatchChanges == []Auditing!LogsAreOfChanges /\ Auditing!ChangesAreLogged

\* Budgets show what was spent; they do not (Budgets).
SpentIsShown == part = "budgeting" => Budgeting!SpentIsShown
=============================================================================
