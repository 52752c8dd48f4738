\* Months of two days; entries dated before, in, at the end of and after the six
\* months; the clock crosses midnights and the end of a month.
SPECIFICATION Spec
CONSTANTS
    Ids = {1, 2}
    Amounts = {1, 3}
    Options = {1, 3}
    Dates = {1, 5, 12, 14}
    MonthDays = 2
    FirstDay = 12
    LastDay = 14
INVARIANTS
    TypeOK
    PieIsExpense
    ChartIsOfItsMonths
    DaysLeftCounts
CHECK_DEADLOCK FALSE
