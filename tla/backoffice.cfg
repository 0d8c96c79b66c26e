SPECIFICATION BackofficeSpec
CONSTANTS
    u1 = u1  u2 = u2  a1 = a1  f1 = f1
    food = food  lunch = lunch  car = car
    Users = {u1}
    Accounts = {a1}
    Debts = {d1, d2}
    Transactions = {t1, t2}
    None = None
    Perm <- OneOwner
    Principals = {1, 3}
    Amounts <- MCAmounts
    Modes = {"amount", "split"}
    Statuses = {"active", "overdue", "paid"}
    Subunits = 1
    Slots = {r1, r2}
    Blank = Blank
    FineDebts <- MCFineDebts  FinePrincipals <- MCFinePrincipals
    FineAmounts <- MCFineAmounts  FineSubunits = 4
    MaxTrades = 3  TradeBodies <- MCTradeBodies  TradeRequests = 3
    Latest = 4  Filters <- MCFilters  Limits = {0, 9}
    DefaultLimit = 1  MaxLimit = 2  ExportLimit = 3
    People <- MCPeople  Emails = {"e1", "e2"}  Phones = {"p1"}  Names = {"ann", "bob"}
    ContactBodies <- MCContactBodies  MaxContacts = 1  ContactRequests = 3
    Categories <- MCCategories  Active <- MCActive  Parent <- MCParent
    BudgetBodies <- MCBudgetBodies  Patches <- MCPatches  Expenses <- MCExpenses
    MaxBudgets = 2  BudgetRequests = 3
    Members = 3  UserSlots = 2  Contribution = 2  Interest = 1
    Starts <- MCStarts  SavedAmounts = {1, 3}  MaxRecords = 2
    Booked = {"a", "b"}  Bookings <- MCBookings
    FirstDay <- MCFirstDay  LastDay <- MCLastDay  Months = 6
    Symbols = {"a", "b", "x"}  Securities = {"a", "b"}  Asked <- MCAsked
    MaxQueue = 3  Market = "all"
    Changes = {"c1", "c2"}  Retention = 2  AuditDays = 4
    Taggers = {u1}  TagNames = {"Home", "home"}  Lower <- MCLower  MaxTags = 3
SYMMETRY BackofficeIds
INVARIANTS TypesOK Conservation CentsNeverUnderstated TradesReplacedOnce ChargesFollowTrades
           WalksAreWhole LinksFollowAddresses PeriodsTile ScheduleAddsUp ReportsAddUp
           AnswersHold
PROPERTIES DeletionCleansUp DeletedRowsStay LogsMatchChanges
CHECK_DEADLOCK FALSE
