\* The categories of a budget and of the form.
SPECIFICATION Spec
CONSTANTS
    Ids = {1, 2}
    Amounts = {1, 3}
    Options = {1, 3}
    Dates = {1, 5, 12, 14}
    MonthDays = 2
    FirstDay = 12
    LastDay = 14
INVARIANT SpentIsOfCategory
CHECK_DEADLOCK FALSE
