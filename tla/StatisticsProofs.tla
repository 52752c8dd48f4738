-------------------------- MODULE StatisticsProofs ---------------------------
(***************************************************************************)
(* Proofs about Statistics: whatever the entries, the figures of the pages *)
(* agree with one another and with the entries.  Each sum is brought into  *)
(* the form of Sums, where a sum may be taken by kind.                     *)
(***************************************************************************)
EXTENDS Statistics, Sums

\* Only finitely many entries can have been made, so that their sums exist.
StatisticsInv == TypeOK /\ IsFiniteSet(DOMAIN expenses)

\* The amounts by id.
Amount == [i \in DOMAIN expenses |-> expenses[i].amount]

-----------------------------------------------------------------------------
(* The invariant *)

LEMMA InitStatistics == Init => StatisticsInv
BY StatisticsAssumption, FS_EmptySet DEF Init, StatisticsInv, TypeOK, Entry

LEMMA KeepStatistics ==
    ASSUME StatisticsInv, NEW i \in Ids, NEW e \in Entry, NEW name, Keep(i, e, name),
           memo' = now, UNCHANGED <<budgets, now, west>>
    PROVE  StatisticsInv'
<1>1. DOMAIN expenses' = DOMAIN expenses \cup {i} /\ DOMAIN picked' = DOMAIN expenses \cup {i}
  BY DEF Keep
<1>2. \A j \in DOMAIN expenses' : expenses'[j] \in Entry
  BY DEF Keep, StatisticsInv, TypeOK
<1>3. IsFiniteSet(DOMAIN expenses')
  BY <1>1, FS_AddElement DEF StatisticsInv
<1>4. TypeOK'
  BY <1>1, <1>2 DEF StatisticsInv, TypeOK
<1> QED
  BY <1>3, <1>4 DEF StatisticsInv

LEMMA NextStatistics == StatisticsInv /\ [Next]_vars => StatisticsInv'
<1> SUFFICES ASSUME StatisticsInv, [Next]_vars
             PROVE  StatisticsInv'
  OBVIOUS
<1>1. ASSUME NEW i \in Ids, NEW e \in Entry, HandleAddExpense(i, e)
      PROVE  StatisticsInv'
  BY <1>1, KeepStatistics DEF HandleAddExpense
<1>2. ASSUME NEW i \in Ids, NEW e \in Entry, AddByApi(i, e)
      PROVE  StatisticsInv'
  BY <1>2, KeepStatistics DEF AddByApi
<1>3. ASSUME NEW i \in Ids, Remove(i)
      PROVE  StatisticsInv'
  <2>1. IsFiniteSet(DOMAIN expenses')
    <3>1. DOMAIN expenses' \in SUBSET DOMAIN expenses
      BY <1>3 DEF Remove
    <3> QED
      BY <3>1, FS_Subset DEF StatisticsInv
  <2>2. TypeOK'
    BY <1>3 DEF Remove, StatisticsInv, TypeOK
  <2> QED
    BY <2>1, <2>2 DEF StatisticsInv
<1>4. ASSUME NEW c \in Options, HandleAddBudget(c)
      PROVE  StatisticsInv'
  <2>1. c \in 1..10
    BY StatisticsAssumption
  <2> QED
    BY <1>4, <2>1 DEF HandleAddBudget, StatisticsInv, TypeOK
<1>5. CASE Tick
  <2>1. now' \in (2 * FirstDay)..(2 * LastDay + 1) /\ memo <= now'
    BY <1>5, StatisticsAssumption DEF Tick, StatisticsInv, TypeOK
  <2> QED
    BY <1>5, <2>1 DEF Tick, StatisticsInv, TypeOK
<1>6. CASE UNCHANGED vars
  BY <1>6 DEF vars, StatisticsInv, TypeOK
<1> QED
  BY <1>1, <1>2, <1>3, <1>4, <1>5, <1>6 DEF Next

LEMMA StatisticsInvariant == Spec => []StatisticsInv
BY InitStatistics, NextStatistics, PTL DEF Spec

\* The lists have the entries that were made and not removed, each with the name
\* it was given, and useMemo computed at a time that has been (Dashboard.jsx:140-156).
THEOREM StatisticsTypeCorrect == Spec => []TypeOK
BY StatisticsInvariant, PTL DEF StatisticsInv

-----------------------------------------------------------------------------
(* What the invariant says of the entries *)

LEMMA EntriesTyped ==
    ASSUME StatisticsInv
    PROVE  /\ AllInt(Amount, DOMAIN expenses)
           /\ \A i \in DOMAIN expenses : /\ expenses[i].amount \in Int
                                         /\ expenses[i].category_id \in 1..8
                                         /\ expenses[i].expense_date \in Nat
<1>1. ASSUME NEW i \in DOMAIN expenses
      PROVE  /\ expenses[i].amount \in Int
             /\ expenses[i].category_id \in 1..8
             /\ expenses[i].expense_date \in Nat
  <2>1. expenses[i] \in Entry
    BY DEF StatisticsInv, TypeOK
  <2>2. Options \cup {Health} \subseteq 1..8
    BY StatisticsAssumption DEF Health
  <2> QED
    BY <2>1, <2>2, StatisticsAssumption DEF Entry
<1> QED
  BY <1>1 DEF Amount, AllInt

\* An entry is an income or an expense.
LEMMA Kinds ==
    ASSUME StatisticsInv
    PROVE  /\ \A type : Of(type) \in SUBSET DOMAIN expenses /\ IsFiniteSet(Of(type))
           /\ DOMAIN expenses \ Of("income") = Of("expense")
<1>1. ASSUME NEW type
      PROVE  Of(type) \in SUBSET DOMAIN expenses /\ IsFiniteSet(Of(type))
  <2>1. Of(type) \in SUBSET DOMAIN expenses
    BY DEF Of
  <2> QED
    BY <2>1, FS_Subset DEF StatisticsInv
<1>2. \A i \in DOMAIN expenses : expenses[i].type \in {"income", "expense"}
  BY DEF StatisticsInv, TypeOK, Entry
<1> QED
  BY <1>1, <1>2 DEF Of

LEMMA IntervalFinite == \A a, b \in Int : IsFiniteSet(a..b)
BY FS_Interval

LEMMA SumOfIsTotal ==
    ASSUME StatisticsInv, NEW S \in SUBSET DOMAIN expenses
    PROVE  SumOf(S) = Total(Amount, S)
<1> DEFINE Eq(g) == g = [T \in SUBSET S |->
                            IF T = {} THEN 0
                            ELSE LET x == CHOOSE x \in T : TRUE
                                 IN  expenses[x].amount + g[T \ {x}]]
<1>0. IsFiniteSet(S)
  BY FS_Subset DEF StatisticsInv
<1>1. SumOf(S) = (CHOOSE g : Eq(g))[S]
  BY Zenon DEF SumOf, MapThenSumSet, MapThenFoldSet
<1>2. \A g : Eq(g) <=> Summing(g, Amount, S)
  <2>1. ASSUME NEW T \in SUBSET S, T # {}
        PROVE  LET x == CHOOSE x \in T : TRUE IN Amount[x] = expenses[x].amount
    <3>1. (CHOOSE x \in T : TRUE) \in DOMAIN expenses
      BY <2>1
    <3> QED
      BY <3>1 DEF Amount
  <2> QED
    BY <2>1 DEF Summing
<1>3. PICK h : Summing(h, Amount, S)
  BY <1>0, SummingExists
<1>4. Eq(CHOOSE g : Eq(g))
  <2>1. Eq(h)
    BY <1>2, <1>3
  <2> HIDE DEF Eq
  <2> QED
    BY <2>1, Zenon
<1>5. Summing(CHOOSE g : Eq(g), Amount, S)
  <2> HIDE DEF Eq
  <2> QED
    BY <1>2, <1>4
<1>6. S \in SUBSET S
  OBVIOUS
<1> HIDE DEF Eq
<1> QED
  BY <1>0, <1>1, <1>5, <1>6, TotalIs

\* The sum of the sums of each kind.
LEMMA SumByKind ==
    ASSUME StatisticsInv, NEW S \in SUBSET DOMAIN expenses,
           NEW N, IsFiniteSet(N), NEW p, \A i \in S : p[i] \in N
    PROVE  Total([n \in N |-> SumOf({i \in S : p[i] = n})], N) = SumOf(S)
<1>1. IsFiniteSet(S) /\ AllInt(Amount, S)
  BY FS_Subset, EntriesTyped DEF StatisticsInv, AllInt
<1>2. \A n \in N : SumOf({i \in S : p[i] = n}) = Total(Amount, {i \in S : p[i] = n})
  <2>1. ASSUME NEW n \in N
        PROVE  SumOf({i \in S : p[i] = n}) = Total(Amount, {i \in S : p[i] = n})
    <3> DEFINE T == {i \in S : p[i] = n}
    <3>1. T \in SUBSET DOMAIN expenses
      OBVIOUS
    <3> HIDE DEF T
    <3>2. SumOf(T) = Total(Amount, T)
      BY <3>1, SumOfIsTotal
    <3> QED
      BY <3>2 DEF T
  <2> QED
    BY <2>1
<1>3. [n \in N |-> SumOf({i \in S : p[i] = n})] = [n \in N |-> Total(Amount, {i \in S : p[i] = n})]
  BY <1>2
<1>4. SumOf(S) = Total(Amount, S)
  BY SumOfIsTotal
<1> QED
  BY <1>1, <1>3, <1>4, TotalByKind

-----------------------------------------------------------------------------
(* The pie *)

\* Every entry has a slice, and only one: an unknown category is "Other".
THEOREM PieIsWhole == Spec => []PieIsExpense
<1>1. StatisticsInv => PieIsExpense
  <2> SUFFICES ASSUME StatisticsInv
               PROVE  PieIsExpense
    OBVIOUS
  <2> DEFINE N == {DashboardCategories[c] : c \in DOMAIN DashboardCategories}
             S == Of("expense")
             p == [i \in S |-> NameOf(expenses[i].category_id)]
  <2>1. IsFiniteSet(N)
    <3>1. IsFiniteSet(DOMAIN DashboardCategories)
      <4>1. DOMAIN DashboardCategories \in SUBSET (1..8)
        BY DEF DashboardCategories
      <4>2. IsFiniteSet(1..8)
        <5>1. 1 \in Int /\ 8 \in Int
          OBVIOUS
        <5> QED
          BY <5>1, IntervalFinite, Zenon
      <4> QED
        BY <4>1, <4>2, FS_Subset
    <3>2. DashboardCategories \in [DOMAIN DashboardCategories -> N]
      BY DEF DashboardCategories
    <3>3. DashboardCategories \in Surjection(DOMAIN DashboardCategories, N)
      BY <3>2 DEF Surjection
    <3> HIDE DEF N
    <3> QED
      BY <3>1, <3>3, FS_Surjection
  <2>2. \A i \in S : p[i] \in N
    BY DEF NameOf, DashboardCategories
  <2>3. PieData = [n \in N |-> SumOf({i \in S : p[i] = n})]
    <3>1. \A n : {i \in Of("expense") : NameOf(expenses[i].category_id) = n} = {i \in S : p[i] = n}
      OBVIOUS
    <3> HIDE DEF p, S, N
    <3>2. PieData = [n \in N |-> SumOf({i \in Of("expense") : NameOf(expenses[i].category_id) = n})]
      BY DEF PieData, N
    <3> QED
      BY <3>1, <3>2
  <2>4. S \in SUBSET DOMAIN expenses
    BY Kinds
  <2>5. Total(PieData, N) = SumOf(S)
    <3> HIDE DEF S, N, p
    <3> QED
      BY <2>1, <2>2, <2>3, <2>4, SumByKind
  <2>6. MapThenSumSet(LAMBDA name : PieData[name], N) = Total(PieData, N)
    BY Zenon DEF Total
  <2>7. DOMAIN PieData = N
    BY DEF PieData
  <2>8. Stats.expense = SumOf(S)
    BY DEF Stats
  <2> QED
    BY <2>5, <2>6, <2>7, <2>8, Zenon DEF PieIsExpense
<1> QED
  BY <1>1, StatisticsInvariant, PTL

-----------------------------------------------------------------------------
(* The goals *)

\* Half a day left counts as a day, and none is left from the midnight of the deadline on.
THEOREM DaysLeftAreMidnights == Spec => []DaysLeftCounts
<1>1. TypeOK => DaysLeftCounts
  <2> SUFFICES ASSUME TypeOK, NEW d \in Dates
               PROVE  DaysLeft(d) = IF d > now \div 2 THEN d - now \div 2 ELSE 0
    BY DEF DaysLeftCounts
  <2>1. d \in Nat /\ now \in Nat
    BY StatisticsAssumption DEF TypeOK
  <2>2. -((now - 2 * d) \div 2) = d - now \div 2
    BY <2>1
  <2>3. d - now \div 2 \in Int /\ (d - now \div 2 > 0 <=> d > now \div 2)
    BY <2>1
  <2> QED
    BY <2>2, <2>3 DEF DaysLeft, Midnight
<1> QED
  BY <1>1, StatisticsTypeCorrect, PTL

-----------------------------------------------------------------------------
(* The chart *)

\* a \div k is the m of the interval of length k that a is in.
LEMMA DivIsInterval ==
    ASSUME NEW a \in Int, NEW k \in Nat \ {0}, NEW m \in Int
    PROVE  a \div k = m <=> a \in m * k .. (m + 1) * k - 1
<1> DEFINE q == a \div k
           r == a % k
<1>1. q \in Int /\ r \in 0..(k - 1) /\ a = k * q + r
  OBVIOUS
<1>2. \A x, y \in Int : x <= y => x * k <= y * k
  OBVIOUS
<1> HIDE DEF q, r
<1>3. ASSUME q = m
      PROVE  a \in m * k .. (m + 1) * k - 1
  BY <1>1, <1>3
<1>4. ASSUME q < m
      PROVE  a < m * k
  <2>1. q + 1 <= m
    BY <1>1, <1>4
  <2>2. (q + 1) * k <= m * k
    BY <1>1, <1>2, <2>1
  <2>3. (q + 1) * k = k * q + k
    BY <1>1
  <2> QED
    BY <1>1, <2>2, <2>3
<1>5. ASSUME m < q
      PROVE  a > (m + 1) * k - 1
  <2>1. m + 1 <= q
    BY <1>1, <1>5
  <2>2. (m + 1) * k <= q * k
    BY <1>1, <1>2, <2>1
  <2> QED
    BY <1>1, <2>2
<1>6. q = m <=> a \in m * k .. (m + 1) * k - 1
  BY <1>1, <1>3, <1>4, <1>5
<1> QED
  BY <1>6 DEF q

\* The days of a month are those from its first up to the one before the next month's.
LEMMA DaysOfMonth ==
    ASSUME NEW day \in Int, NEW m \in Int
    PROVE  Month(day) = m <=> day \in m * MonthDays .. (m + 1) * MonthDays - 1
BY DivIsInterval, StatisticsAssumption DEF Month

\* The months of the entries, and of the chart, are integers.
LEMMA MonthsTyped ==
    ASSUME StatisticsInv
    PROVE  /\ Month(LocalDay(memo)) \in Int
           /\ \A i \in DOMAIN expenses : MonthOf(i) \in Int
           /\ Month(LocalDay(memo)) \in Months
           /\ IsFiniteSet(Months)
<1>1. ASSUME NEW day \in Int
      PROVE  Month(day) \in Int
  BY StatisticsAssumption DEF Month
<1>2. memo \in Int /\ west \in {0, 1}
  BY StatisticsAssumption DEF StatisticsInv, TypeOK
<1>3. LocalDay(memo) \in Int
  BY <1>2 DEF LocalDay
<1>4. ASSUME NEW i \in DOMAIN expenses
      PROVE  LocalDay(Midnight(expenses[i].expense_date)) \in Int
  BY <1>2, EntriesTyped DEF LocalDay, Midnight
<1>5. Month(LocalDay(memo)) \in Int
  BY <1>1, <1>3
<1>6. Month(LocalDay(memo)) \in Months
  BY <1>5 DEF Months
<1>7. IsFiniteSet(Months)
  BY <1>5, IntervalFinite DEF Months
<1> QED
  BY <1>1, <1>4, <1>5, <1>6, <1>7 DEF MonthOf

\* In Greenwich a bar has the entries dated in its month.
LEMMA ChartInGreenwich ==
    ASSUME StatisticsInv, west = 0,
           NEW m \in (memo \div 2) \div MonthDays - 5 .. (memo \div 2) \div MonthDays
    PROVE  LET dated == {i \in DOMAIN expenses :
                            expenses[i].expense_date \in m * MonthDays .. (m + 1) * MonthDays - 1}
           IN  m \in Months /\ AreaData[m] = [income  |-> SumOf(dated \cap Of("income")),
                                              expense |-> SumOf(dated \cap Of("expense"))]
<1> DEFINE dated == {i \in DOMAIN expenses :
                        expenses[i].expense_date \in m * MonthDays .. (m + 1) * MonthDays - 1}
<1>1. memo \in Int
  BY StatisticsAssumption DEF StatisticsInv, TypeOK
<1>2. Month(LocalDay(memo)) = (memo \div 2) \div MonthDays
  BY <1>1 DEF LocalDay, Month
<1>3. m \in Months /\ m \in Int
  <2>1. (memo \div 2) \div MonthDays \in Int
    BY <1>2, MonthsTyped
  <2> QED
    BY <1>2, <2>1 DEF Months
<1>4. \A i \in DOMAIN expenses : MonthOf(i) = m <=> i \in dated
  <2>1. ASSUME NEW i \in DOMAIN expenses
        PROVE  MonthOf(i) = m <=> i \in dated
    <3>1. expenses[i].expense_date \in Int
      BY EntriesTyped
    <3>2. MonthOf(i) = Month(expenses[i].expense_date)
      BY <3>1 DEF MonthOf, LocalDay, Midnight
    <3> QED
      BY <1>3, <3>1, <3>2, DaysOfMonth
  <2> QED
    BY <2>1
<1> HIDE DEF dated
<1>5. {i \in Of("income") : MonthOf(i) = m} = dated \cap Of("income")
  BY <1>4, Kinds
<1>6. {i \in DOMAIN expenses \ Of("income") : MonthOf(i) = m} = dated \cap Of("expense")
  BY <1>4, Kinds
<1>7. AreaData[m] = [income  |-> SumOf({i \in Of("income") : MonthOf(i) = m}),
                     expense |-> SumOf({i \in DOMAIN expenses \ Of("income") : MonthOf(i) = m})]
  BY <1>3 DEF AreaData
<1>8. m \in Months /\ AreaData[m] = [income  |-> SumOf(dated \cap Of("income")),
                                     expense |-> SumOf(dated \cap Of("expense"))]
  BY <1>3, <1>5, <1>6, <1>7
<1> QED
  BY <1>8 DEF dated

\* The last bar is what useMemo found for the month.
LEMMA LastBar ==
    ASSUME StatisticsInv
    PROVE  LET last == Month(LocalDay(memo))
           IN  last \in Months /\ AreaData[last] = [income  |-> Stats.monthIncome,
                                                   expense |-> Stats.monthExpense]
<1> DEFINE last == Month(LocalDay(memo))
<1>1. last \in Months
  BY MonthsTyped
<1>2. AreaData[last] = [income  |-> SumOf({i \in Of("income") : MonthOf(i) = last}),
                        expense |-> SumOf({i \in DOMAIN expenses \ Of("income") : MonthOf(i) = last})]
  <2> HIDE DEF last
  <2> QED BY <1>1 DEF AreaData
<1>3. {i \in DOMAIN expenses \ Of("income") : MonthOf(i) = last} = {i \in Of("expense") : MonthOf(i) = last}
  BY Kinds
<1>4. /\ Stats.monthIncome = SumOf({i \in Of("income") : MonthOf(i) = last})
      /\ Stats.monthExpense = SumOf({i \in Of("expense") : MonthOf(i) = last})
  BY DEF Stats
<1> HIDE DEF last
<1>5. last \in Months /\ AreaData[last] = [income  |-> Stats.monthIncome,
                                           expense |-> Stats.monthExpense]
  BY <1>1, <1>2, <1>3, <1>4
<1> QED
  BY <1>5 DEF last

\* When the chart has the months of all entries, it has all their money.
LEMMA ChartIsWhole ==
    ASSUME StatisticsInv, \A i \in DOMAIN expenses : MonthOf(i) \in Months
    PROVE  MapThenSumSet(LAMBDA m : AreaData[m].income - AreaData[m].expense, DOMAIN AreaData)
               = Stats.balance
<1> DEFINE p    == [i \in DOMAIN expenses |-> MonthOf(i)]
           I    == Of("income")
           E    == Of("expense")
           inc  == [m \in Months |-> SumOf({i \in I : p[i] = m})]
           exp  == [m \in Months |-> SumOf({i \in E : p[i] = m})]
           d    == [m \in Months |-> inc[m] - exp[m]]
           Eq(g) == g = [T \in SUBSET Months |->
                            IF T = {} THEN 0
                            ELSE LET x == CHOOSE x \in T : TRUE
                                 IN  (AreaData[x].income - AreaData[x].expense) + g[T \ {x}]]
<1>1. IsFiniteSet(Months)
  BY MonthsTyped
<1>2. I \in SUBSET DOMAIN expenses /\ E \in SUBSET DOMAIN expenses
  BY Kinds
<1>3. (\A i \in I : p[i] \in Months) /\ (\A i \in E : p[i] \in Months)
  BY <1>2
<1>4. Total(inc, Months) = SumOf(I) /\ Total(exp, Months) = SumOf(E)
  <2> HIDE DEF I, E, p
  <2> QED BY <1>1, <1>2, <1>3, SumByKind
<1>5. inc \in [Months -> Int] /\ exp \in [Months -> Int]
  <2>1. ASSUME NEW S \in SUBSET DOMAIN expenses, NEW m
        PROVE  SumOf({i \in S : p[i] = m}) \in Int
    <3> DEFINE T == {i \in S : p[i] = m}
    <3>1. T \in SUBSET DOMAIN expenses
      OBVIOUS
    <3> HIDE DEF T
    <3>2. IsFiniteSet(T) /\ AllInt(Amount, T)
      BY <3>1, FS_Subset, EntriesTyped DEF StatisticsInv, AllInt
    <3>3. SumOf(T) \in Int
      BY <3>1, <3>2, SumOfIsTotal, TotalInt
    <3> QED
      BY <3>3 DEF T
  <2> HIDE DEF I, E, p
  <2> QED
    BY <1>2, <2>1
<1>6. Total(d, Months) = SumOf(I) - SumOf(E)
  <2> HIDE DEF inc, exp, I, E
  <2> QED BY <1>1, <1>4, <1>5, TotalDifference
<1>7. \A m \in Months : AreaData[m].income - AreaData[m].expense = d[m]
  <2>1. ASSUME NEW m \in Months
        PROVE  AreaData[m].income = inc[m] /\ AreaData[m].expense = exp[m]
    <3>1. /\ AreaData[m].income = SumOf({i \in Of("income") : MonthOf(i) = m})
          /\ AreaData[m].expense = SumOf({i \in DOMAIN expenses \ Of("income") : MonthOf(i) = m})
      BY DEF AreaData
    <3>2. {i \in Of("income") : MonthOf(i) = m} = {i \in I : p[i] = m}
      BY Kinds
    <3>3. {i \in DOMAIN expenses \ Of("income") : MonthOf(i) = m} = {i \in E : p[i] = m}
      BY Kinds
    <3>4. inc[m] = SumOf({i \in I : p[i] = m}) /\ exp[m] = SumOf({i \in E : p[i] = m})
      OBVIOUS
    <3> HIDE DEF inc, exp, I, E, p
    <3> QED
      BY <3>1, <3>2, <3>3, <3>4
  <2> HIDE DEF inc, exp
  <2> QED
    BY <2>1
<1>8. MapThenSumSet(LAMBDA m : AreaData[m].income - AreaData[m].expense, Months) = (CHOOSE g : Eq(g))[Months]
  BY Zenon DEF MapThenSumSet, MapThenFoldSet
<1>9. \A g : Eq(g) <=> Summing(g, d, Months)
  <2>1. ASSUME NEW T \in SUBSET Months, T # {}
        PROVE  LET x == CHOOSE x \in T : TRUE IN AreaData[x].income - AreaData[x].expense = d[x]
    <3>1. (CHOOSE x \in T : TRUE) \in Months
      BY <2>1
    <3> HIDE DEF d
    <3> QED
      BY <1>7, <3>1
  <2> HIDE DEF d
  <2> QED
    BY <2>1 DEF Summing
<1>10. PICK h : Summing(h, d, Months)
  <2> HIDE DEF d
  <2> QED
    BY <1>1, SummingExists
<1>11. Summing(CHOOSE g : Eq(g), d, Months)
  <2> HIDE DEF Eq, d
  <2>1. Eq(CHOOSE g : Eq(g))
    BY <1>9, <1>10, Zenon
  <2> QED
    BY <1>9, <2>1
<1>12. (CHOOSE g : Eq(g))[Months] = Total(d, Months)
  <2> HIDE DEF Eq, d
  <2>1. Months \in SUBSET Months
    OBVIOUS
  <2> QED
    BY <1>1, <1>11, <2>1, TotalIs
<1>13. Stats.balance = SumOf(I) - SumOf(E)
  BY DEF Stats
<1>14. DOMAIN AreaData = Months
  BY DEF AreaData
<1> HIDE DEF Eq, d, inc, exp, I, E
<1> QED
  BY <1>6, <1>8, <1>12, <1>13, <1>14, Zenon

\* The bars agree with the entries, the sums of the month and the balance (Dashboard.jsx:143-184).
THEOREM ChartAgrees == Spec => []ChartIsOfItsMonths
<1>1. StatisticsInv => ChartIsOfItsMonths
  <2> SUFFICES ASSUME StatisticsInv
               PROVE  ChartIsOfItsMonths
    OBVIOUS
  <2> QED
    BY ChartInGreenwich, LastBar, ChartIsWhole, Zenon DEF ChartIsOfItsMonths
<1> QED
  BY <1>1, StatisticsInvariant, PTL
=============================================================================
