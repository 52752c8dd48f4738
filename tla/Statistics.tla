----------------------------- MODULE Statistics ------------------------------
(***************************************************************************)
(* What the pages compute from the lists: the cards, the pie and the chart *)
(* of src/frontend/src/pages/Dashboard.jsx, the money spent of a budget on *)
(* Budgets.jsx and the days left to a goal on Goals.jsx.  Amounts are in   *)
(* cents.  A month has MonthDays days, and the clock counts half days, so  *)
(* that a viewer may be west of Greenwich.                                 *)
(***************************************************************************)
EXTENDS Integers, FiniteSetsExt

CONSTANTS
    Ids,            \* the entries there may be
    Amounts,        \* what an entry may come to
    Options,        \* options of the form's select that are tried
    Dates,          \* the days an entry may be dated
    MonthDays,
    FirstDay, LastDay   \* bounds of the clock

ASSUME StatisticsAssumption ==
    /\ Amounts \subseteq Int /\ Dates \subseteq Nat
    /\ MonthDays \in Nat \ {0}
    /\ FirstDay \in Nat \ {0} /\ LastDay \in Nat /\ FirstDay <= LastDay
    /\ Options \subseteq {1, 2, 3, 4, 5, 7, 8}

\* CATEGORIES of Dashboard.jsx, as the options of its form, and of Budgets.jsx.
DashboardCategories ==
    [c \in {1, 2, 3, 4, 5, 7, 8} |->
        <<"Food", "Transport", "Housing", "Utilities", "Entertainment", "", "Shopping", "Other">>[c]]
BudgetsCategories ==
    <<"Housing", "Transportation", "Food", "Utilities", "Insurance", "Medical", "Investing",
      "Personal", "Entertainment", "Others">>

\* A category of schema.sql without an option.
Health == 6

Entry == [type : {"income", "expense"}, amount : Amounts, category_id : Options \cup {Health},
          expense_date : Dates]

VARIABLES
    expenses,   \* the entries by id
    picked,     \* the name of the category the user picked for each of them
    budgets,    \* the names of the categories that have a budget
    now,        \* the time, in half days
    west,       \* how far west the viewer is, in half days
    memo        \* the time at which useMemo computed last, for these expenses

vars == <<expenses, picked, budgets, now, west, memo>>

TypeOK ==
    /\ DOMAIN expenses \subseteq Ids /\ DOMAIN picked = DOMAIN expenses
    /\ \A i \in DOMAIN expenses : expenses[i] \in Entry
    /\ budgets \subseteq {BudgetsCategories[c] : c \in 1..10}
    /\ {now, memo} \subseteq (2 * FirstDay)..(2 * LastDay + 1) /\ memo <= now
    /\ west \in {0, 1}

Init ==
    /\ expenses = [i \in {} |-> 0] /\ picked = expenses /\ budgets = {}
    /\ now = 2 * FirstDay /\ memo = now
    /\ west \in {0, 1}

-----------------------------------------------------------------------------
(* Dates *)

LocalDay(time) == (time - west) \div 2
Month(day)     == day \div MonthDays

\* new Date("2024-03-01") is midnight in Greenwich.
Midnight(date)   == 2 * date
MonthOf(i)       == Month(LocalDay(Midnight(expenses[i].expense_date)))

-----------------------------------------------------------------------------
(* Dashboard.jsx *)

Of(type) == {i \in DOMAIN expenses : expenses[i].type = type}

SumOf(S) == MapThenSumSet(LAMBDA i : expenses[i].amount, S)

\* The cards, and the sums of the month useMemo found, which no card shows yet.
Stats ==
    LET ofMonth(type) == {i \in Of(type) : MonthOf(i) = Month(LocalDay(memo))}
    IN  [income |-> SumOf(Of("income")), expense |-> SumOf(Of("expense")),
         balance |-> SumOf(Of("income")) - SumOf(Of("expense")),
         monthIncome |-> SumOf(ofMonth("income")), monthExpense |-> SumOf(ofMonth("expense"))]

\* Mutant: a category without a name has no slice.
NameOfNone(c) == IF c \in DOMAIN DashboardCategories THEN DashboardCategories[c] ELSE "Unknown"

NameOf(c) == IF c \in DOMAIN DashboardCategories THEN DashboardCategories[c] ELSE "Other"

\* The slices of the names in the legend.
PieData ==
    [name \in {DashboardCategories[c] : c \in DOMAIN DashboardCategories} |->
        SumOf({i \in Of("expense") : NameOf(expenses[i].category_id) = name})]

\* Mutant: the loop ends before the month at hand.
LastMonths == Month(LocalDay(memo)) - 5 .. Month(LocalDay(memo)) - 1

\* Six months up to the one useMemo found.
Months == Month(LocalDay(memo)) - 5 .. Month(LocalDay(memo))

\* What is not income counts as expense.
AreaData ==
    [m \in Months |->
        [income  |-> SumOf({i \in Of("income") : MonthOf(i) = m}),
         expense |-> SumOf({i \in DOMAIN expenses \ Of("income") : MonthOf(i) = m})]]

-----------------------------------------------------------------------------
(* Budgets.jsx and Goals.jsx: computed anew whenever the page is drawn. *)

CatId(name) == CHOOSE c \in 1..10 : BudgetsCategories[c] = name

Spent(name) == SumOf({i \in Of("expense") : expenses[i].category_id = CatId(name)})

\* Mutant: rounded down.
DaysLeftFloor(deadline) ==
    LET days == (Midnight(deadline) - now) \div 2
    IN  IF days > 0 THEN days ELSE 0

\* Math.ceil of the difference in days; 0 stands for "Expired".
DaysLeft(deadline) ==
    LET days == -((now - Midnight(deadline)) \div 2)
    IN  IF days > 0 THEN days ELSE 0

-----------------------------------------------------------------------------

\* Mutant: an expense has a negative amount, as a withdrawal has on Savings.jsx.
KeepSigned(i, e, name) ==
    LET signed == [e EXCEPT !.amount = IF e.type = "expense" THEN -e.amount ELSE e.amount]
    IN  /\ expenses' = [j \in DOMAIN expenses \cup {i} |-> IF j = i THEN signed ELSE expenses[j]]
        /\ picked' = [j \in DOMAIN expenses \cup {i} |-> IF j = i THEN name ELSE picked[j]]

Keep(i, e, name) ==
    /\ expenses' = [j \in DOMAIN expenses \cup {i} |-> IF j = i THEN e ELSE expenses[j]]
    /\ picked' = [j \in DOMAIN expenses \cup {i} |-> IF j = i THEN name ELSE picked[j]]

\* The form of the dashboard; fetchExpenses then sets a new list.
HandleAddExpense(i, e) ==
    /\ i \notin DOMAIN expenses /\ e.category_id \in Options
    /\ Keep(i, e, DashboardCategories[e.category_id])
    /\ memo' = now
    /\ UNCHANGED <<budgets, now, west>>

\* Another client of the API may name a category of schema.sql that the form lacks.
AddByApi(i, e) ==
    /\ i \notin DOMAIN expenses /\ e.category_id = Health
    /\ Keep(i, e, "Health")
    /\ memo' = now
    /\ UNCHANGED <<budgets, now, west>>

\* A row is removed, and the list fetched again.
Remove(i) ==
    /\ i \in DOMAIN expenses
    /\ expenses' = [j \in DOMAIN expenses \ {i} |-> expenses[j]]
    /\ picked' = [j \in DOMAIN expenses \ {i} |-> picked[j]]
    /\ memo' = now
    /\ UNCHANGED <<budgets, now, west>>

HandleAddBudget(c) ==
    /\ budgets' = budgets \cup {BudgetsCategories[c]}
    /\ UNCHANGED <<expenses, picked, now, west, memo>>

\* Time goes by on a page that stays open.
Tick ==
    /\ now < 2 * LastDay + 1
    /\ now' = now + 1
    /\ UNCHANGED <<expenses, picked, budgets, west, memo>>

Next ==
    \/ \E i \in Ids, e \in Entry : HandleAddExpense(i, e) \/ AddByApi(i, e)
    \/ \E i \in Ids : Remove(i)
    \/ \E c \in Options : HandleAddBudget(c)
    \/ Tick

Spec == Init /\ [][Next]_vars

-----------------------------------------------------------------------------

\* The slices of the pie add up to the card Expense (Dashboard.jsx:142, :159-164).
PieIsExpense ==
    MapThenSumSet(LAMBDA name : PieData[name], DOMAIN PieData) = Stats.expense

\* A bar of the chart sums up the entries dated in its month, for a viewer whose
\* clock is Greenwich's.  Anywhere, the last bar agrees with the sums of the
\* month, and entries of these months add up to the balance (Dashboard.jsx:143-155, :166-184).
ChartIsOfItsMonths ==
    LET dated(m) == {i \in DOMAIN expenses :
                        expenses[i].expense_date \in m * MonthDays .. (m + 1) * MonthDays - 1}
    IN  /\ west = 0 => \A m \in (memo \div 2) \div MonthDays - 5 .. (memo \div 2) \div MonthDays :
              m \in Months /\ AreaData[m] = [income  |-> SumOf(dated(m) \cap Of("income")),
                                            expense |-> SumOf(dated(m) \cap Of("expense"))]
        /\ LET last == Month(LocalDay(memo)) IN
              last \in Months /\ AreaData[last] = [income  |-> Stats.monthIncome,
                                                  expense |-> Stats.monthExpense]
        /\ (\A i \in DOMAIN expenses : MonthOf(i) \in Months) =>
              MapThenSumSet(LAMBDA m : AreaData[m].income - AreaData[m].expense, DOMAIN AreaData)
                  = Stats.balance

\* A goal has as many days left as there are midnights to its deadline (Goals.jsx:76).
DaysLeftCounts == \A d \in Dates : LET today == now \div 2
                                   IN  DaysLeft(d) = IF d > today THEN d - today ELSE 0

-----------------------------------------------------------------------------
(* What the code does not do *)

\* "Set category-specific targets and monitor utilization" (README.md:9): a budget
\* is measured by the expenses the user filed under its category.
SpentIsOfCategory ==
    \A name \in budgets : Spent(name) = SumOf({i \in Of("expense") : picked[i] = name})
=============================================================================
