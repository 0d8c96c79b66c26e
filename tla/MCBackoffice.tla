----------------------------- MODULE MCBackoffice -----------------------------
(* The instance of Backoffice for TLC. *)
EXTENDS MCDebtLedger, Backoffice

CONSTANTS f1, food, lunch, car

\* Debts in quarters of a cent: of 1, 2, 2.5, 2.75 or 3.25 cents, payments of up to
\* one and a half, and some that take back.
MCFineDebts == {f1}
MCFinePrincipals == {4, 8, 10, 11, 13}
MCFineAmounts == -2..6

\* Purchases, a stock dividend and a sale, which as the code stands cannot be
\* stored.
Trade(side, quantity, charges, provenance) ==
    [side |-> side, security |-> "s1", quantity |-> quantity, price |-> 1,
     charges |-> charges, provenance |-> provenance]
MCTradeBodies == {Trade("buy", 2, {"fee", "tax"}, "regular_buy"),
                  Trade("buy", -1, {}, "stock_dividend"),
                  Trade("sell", 1, {"tax"}, "regular_buy")}

\* Pages of one and of two entries, up to four of them.
MCFilters == {1..4, {1, 3, 4}}

\* Contacts with an e-mail address, a phone number, or neither.
Asks(n, e, p) == [name |-> n, email |-> e, phone |-> p]
MCPeople == {u1, u2}
MCContactBodies == {Asks("ann", "e1", None), Asks(None, "e2", None),
                    Asks(None, Blank, "p1"), Asks("bob", None, None)}

\* Budgets from days every month has and from days only some have.
Jan31 == Day(2024, 1, 31)
Budget(period, start, end, category) ==
    [period |-> period, start |-> start, end |-> end, category |-> category,
     amount |-> 2, threshold |-> 80]
MCCategories == {food, lunch, car}
MCActive == {food, lunch}
MCParent == food :> None @@ lunch :> food @@ car :> None
MCBudgetBodies ==
    {Budget("month", Day(2024, 1, 15), -1, food), Budget("month", Day(2024, 2, 15), -1, food),
     Budget("month", Jan31, -1, food), Budget("month", Day(2024, 12, 31), -1, food),
     Budget("month", Day(2025, 1, 31), -1, food), Budget("month", -2, -1, food),
     Budget("week", Jan31, -1, lunch), Budget("week", Jan31 + 7, -1, lunch),
     Budget("custom", Jan31, Jan31 - 1, food), Budget("custom", Jan31, Jan31, car)}
MCPatches == {[amount |-> 3, threshold |-> -1], [amount |-> -1, threshold |-> 101]}
MCExpenses == {[category |-> lunch, day |-> Jan31 + 3, amount |-> 1]}

\* A group of three members that starts on the last day of a month.
MCStarts == {Jan31, Day(2024, 11, 30)}

\* A dashboard on every day of a summer.
Entry(type, account, date, amount, status) ==
    [type |-> type, account |-> account, day |-> date, amount |-> amount, status |-> status]
Transfer(from, to, amount, sent, received) ==
    [type |-> "transfer", from |-> from, to |-> to, day |-> Day(2024, 3, 1),
     amount |-> amount, fromAmount |-> sent, toAmount |-> received, status |-> "posted"]
MCFirstDay == Day(2024, 7, 29)
MCLastDay == Day(2024, 9, 2)
MCBookings == {Entry("income", "a", Day(2024, 2, 29), 2, "posted"),
               Entry("income", "b", Day(2024, 8, 1), 2, "posted"),
               Entry("expense", "a", Day(2024, 7, 30), 2, "pending"),
               Entry("expense", "b", Day(2024, 7, 30), 3, "posted"),
               Transfer("a", "b", 5, 0, 0), Transfer("b", "a", 5, 4, 6)}

\* Jobs for two securities and for a symbol that is none.
MCAsked == {<<"a", "b", "x">>}

\* Names that differ in case only.
MCLower == [n \in TagNames |-> "home"]

\* The calendar is the Gregorian one.
ASSUME CalendarAssumption ==
    /\ \A n \in Day(2023, 1, 1)..Day(2025, 12, 31) :
         LET c == Civil(n)
             d == Civil(n + 1)
         IN  Day(c.year, c.month, c.day) = n /\ d.day \in {c.day + 1, 1}
    /\ AddDate(Jan31, 1, 0) = Day(2024, 3, 2) /\ AddDate(Day(2024, 7, 31), -5, 0) = Day(2024, 3, 2)

\* Debts, transactions and slots of requests are alike.
BackofficeIds == Permutations(Debts) \cup Permutations(Transactions) \cup Permutations(Slots)
=============================================================================
