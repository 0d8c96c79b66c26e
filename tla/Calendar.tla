------------------------------- MODULE Calendar -------------------------------
(* Dates as Go's time package counts them, as days since 1 March of year 0. *)
EXTENDS Integers

\* The number of a date, whose day may lie outside its month.
Day(year, month, day) ==
    LET y == IF month <= 2 THEN year - 1 ELSE year
        m == (month + 9) % 12
    IN  365 * y + y \div 4 - y \div 100 + y \div 400 + (153 * m + 2) \div 5 + day - 1

\* The year, month and day of a date.
Civil(n) ==
    LET era == n \div 146097
        e == n % 146097
        y == (e - e \div 1460 + e \div 36524 - e \div 146096) \div 365
        d == e - (365 * y + y \div 4 - y \div 100)
        m == (5 * d + 2) \div 153
    IN  [year  |-> y + 400 * era + (IF m < 10 THEN 0 ELSE 1),
         month |-> IF m < 10 THEN m + 3 ELSE m - 9,
         day   |-> d - (153 * m + 2) \div 5 + 1]

\* Months are counted from 0 for arithmetic.
Month(n) == Civil(n).year * 12 + Civil(n).month - 1
OnDay(month, day) == Day(month \div 12, (month % 12) + 1, day)

\* time.Time.AddDate: what the day of the month exceeds the month by is carried
\* into the next one.
AddDate(n, months, days) == OnDay(Month(n) + months, Civil(n).day + days)

\* The date a calendar has one month later on the same day, if it has one.
SameDayNextMonth(n, later) ==
    Month(later) = Month(n) + 1 /\ Civil(later).day = Civil(n).day
=============================================================================
