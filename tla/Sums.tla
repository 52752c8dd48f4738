-------------------------------- MODULE Sums --------------------------------
(***************************************************************************)
(* Sums over finite sets, as MapThenSumSet gives them: the order in which  *)
(* the elements are taken does not matter, and a sum may be taken by kind. *)
(* Induction here is over sets of subsets: a set that has {} and every     *)
(* subset whose smaller ones it has is the set of all subsets.             *)
(***************************************************************************)
EXTENDS FiniteSetsExt, FiniteSetTheorems, TLAPS

\* The sum of f[x] over the elements x of S.
Total(f, S) == MapThenSumSet(LAMBDA x : f[x], S)

\* h[T] is that sum for each subset T of S, the elements taken as CHOOSE gives them.
Summing(h, f, S) ==
    h = [T \in SUBSET S |->
            IF T = {} THEN 0
            ELSE LET x == CHOOSE x \in T : TRUE IN f[x] + h[T \ {x}]]

-----------------------------------------------------------------------------
(* Induction *)

\* A set of subsets with each subset whose proper subsets it has, has them all.
LEMMA SubsetInduction ==
    ASSUME NEW S, IsFiniteSet(S), NEW G \in SUBSET SUBSET S,
           \A T \in SUBSET S : (\A U \in SUBSET T : U # T => U \in G) => T \in G
    PROVE  G = SUBSET S
<1> DEFINE Bad == (SUBSET S) \ G
<1>1. SUFFICES ASSUME Bad # {} PROVE FALSE
  OBVIOUS
<1>2. IsWellFoundedOn(StrictSubsetOrdering(S), SUBSET S)
  BY FS_StrictSubsetOrderingWellFounded, FS_FiniteSubsetsOfFinite
<1>3. PICK T \in Bad : \A U \in Bad : <<U, T>> \notin StrictSubsetOrdering(S)
  <2>1. Bad \subseteq SUBSET S
    OBVIOUS
  <2> HIDE DEF Bad
  <2> QED
    BY <1>1, <1>2, <2>1, WFMin
<1>4. \A U \in SUBSET T : U # T => U \in G
  BY <1>3 DEF StrictSubsetOrdering
<1> QED
  BY <1>3, <1>4

-----------------------------------------------------------------------------
(* The sum exists, and there is one. *)

\* Two functions that satisfy the equation are equal.
LEMMA SummingUnique ==
    ASSUME NEW S, IsFiniteSet(S), NEW f, NEW h, NEW k, Summing(h, f, S), Summing(k, f, S)
    PROVE  h = k
<1> DEFINE G == {T \in SUBSET S : h[T] = k[T]}
<1>1. \A T \in SUBSET S : (\A U \in SUBSET T : U # T => U \in G) => T \in G
  <2> SUFFICES ASSUME NEW T \in SUBSET S, \A U \in SUBSET T : U # T => U \in G
               PROVE  h[T] = k[T]
    OBVIOUS
  <2>1. CASE T = {}
    BY <2>1 DEF Summing
  <2>2. CASE T # {}
    <3> DEFINE x == CHOOSE x \in T : TRUE
    <3>1. x \in T
      BY <2>2
    <3>2. h[T] = f[x] + h[T \ {x}] /\ k[T] = f[x] + k[T \ {x}]
      BY <2>2 DEF Summing
    <3>3. T \ {x} \in G
      BY <3>1
    <3> QED
      BY <3>2, <3>3
  <2> QED
    BY <2>1, <2>2
<1>2. G = SUBSET S
  <2>1. G \in SUBSET SUBSET S
    OBVIOUS
  <2> HIDE DEF G
  <2> QED
    BY <1>1, <2>1, SubsetInduction
<1> QED
  BY <1>2 DEF Summing

\* So is it on the subsets of a subset.
LEMMA SummingSubset ==
    ASSUME NEW S, NEW f, NEW h, Summing(h, f, S), NEW T \in SUBSET S
    PROVE  Summing([U \in SUBSET T |-> h[U]], f, T)
BY DEF Summing

LEMMA SummingExists ==
    ASSUME NEW S, IsFiniteSet(S), NEW f
    PROVE  \E h : Summing(h, f, S)
<1> DEFINE G == {T \in SUBSET S : \E h : Summing(h, f, T)}
<1>1. \A T \in SUBSET S : (\A U \in SUBSET T : U # T => U \in G) => T \in G
  <2> SUFFICES ASSUME NEW T \in SUBSET S, \A U \in SUBSET T : U # T => U \in G
               PROVE  \E h : Summing(h, f, T)
    OBVIOUS
  <2> DEFINE of == [U \in SUBSET T |-> CHOOSE h : Summing(h, f, U)]
             x(U) == CHOOSE y \in U : TRUE
             all  == [U \in SUBSET T |->
                         IF U = {} THEN 0
                         ELSE f[x(U)] + of[U \ {x(U)}][U \ {x(U)}]]
  <2>1. ASSUME NEW U \in SUBSET T, U # T
        PROVE  Summing(of[U], f, U)
    <3>1. \E h : Summing(h, f, U)
      BY <2>1
    <3>2. of[U] = CHOOSE h : Summing(h, f, U)
      OBVIOUS
    <3> HIDE DEF of
    <3> QED
      BY <3>1, <3>2, Zenon
  <2>2. ASSUME NEW U \in SUBSET T, U # {}
        PROVE  x(U) \in U /\ U \ {x(U)} \in SUBSET T /\ U \ {x(U)} # T
    BY <2>2
  <2>3. ASSUME NEW U \in SUBSET T, U # T
        PROVE  all[U] = of[U][U]
    <3>1. CASE U = {}
      BY <2>1, <2>3, <3>1 DEF Summing
    <3>2. CASE U # {}
      <4> DEFINE V == U \ {x(U)}
      <4>1. V \in SUBSET U /\ V \in SUBSET T /\ V # T
        BY <2>2, <3>2
      <4>2. of[U][U] = f[x(U)] + of[U][V]
        BY <2>1, <2>3, <3>2 DEF Summing
      <4>3. Summing(of[V], f, V) /\ Summing(of[U], f, U)
        BY <2>1, <2>3, <4>1
      <4>4. Summing([W \in SUBSET V |-> of[U][W]], f, V)
        <5> HIDE DEF V, of
        <5> QED BY <4>1, <4>3, SummingSubset
      <4>5. IsFiniteSet(V)
        BY <4>1, FS_Subset
      <4>6. of[V] = [W \in SUBSET V |-> of[U][W]]
        <5> HIDE DEF V, of
        <5> QED BY <4>3, <4>4, <4>5, SummingUnique
      <4>7. V \in SUBSET V
        OBVIOUS
      <4>8. of[V][V] = of[U][V]
        <5> HIDE DEF V, of
        <5> QED BY <4>6, <4>7
      <4> QED
        BY <3>2, <4>2, <4>8
    <3> QED
      BY <3>1, <3>2
  <2>4. all = [U \in SUBSET T |-> IF U = {} THEN 0 ELSE f[x(U)] + all[U \ {x(U)}]]
    <3>1. ASSUME NEW U \in SUBSET T, U # {}
          PROVE  all[U] = f[x(U)] + all[U \ {x(U)}]
      <4>1. all[U] = f[x(U)] + of[U \ {x(U)}][U \ {x(U)}]
        BY <3>1
      <4> HIDE DEF all, of, x
      <4> QED BY <2>2, <2>3, <3>1, <4>1
    <3>2. all[{}] = 0
      OBVIOUS
    <3>3. all = [U \in SUBSET T |-> all[U]]
      OBVIOUS
    <3> HIDE DEF all, of, x
    <3> QED BY <3>1, <3>2, <3>3
  <2>5. Summing(all, f, T)
    <3> HIDE DEF all
    <3> QED BY <2>4 DEF Summing
  <2> QED
    BY <2>5
<1>2. G = SUBSET S
  <2>1. G \in SUBSET SUBSET S
    OBVIOUS
  <2> HIDE DEF G
  <2> QED
    BY <1>1, <2>1, SubsetInduction
<1>3. S \in G
  <2> HIDE DEF G
  <2> QED BY <1>2
<1> QED
  BY <1>3

\* What MapThenSumSet chooses satisfies the equation.
LEMMA SumIsFold ==
    ASSUME NEW f, NEW S, IsFiniteSet(S)
    PROVE  \E g : Summing(g, f, S) /\ Total(f, S) = g[S]
<1> DEFINE Eq(g) == g = [T \in SUBSET S |->
                            IF T = {} THEN 0
                            ELSE LET x == CHOOSE x \in T : TRUE IN f[x] + g[T \ {x}]]
<1>1. MapThenSumSet(LAMBDA x : f[x], S) = (CHOOSE g : Eq(g))[S]
  BY Zenon DEF MapThenSumSet, MapThenFoldSet
<1>2. PICK h : Summing(h, f, S)
  BY SummingExists
<1>3. Eq(h)
  BY <1>2, Zenon DEF Summing
<1>4. Eq(CHOOSE g : Eq(g))
  <2> HIDE DEF Eq
  <2> QED BY <1>3, Zenon
<1> QED
  BY <1>1, <1>4, Zenon DEF Summing, Total

\* The sum is what any such function says, of each subset.
LEMMA TotalIs ==
    ASSUME NEW f, NEW S, IsFiniteSet(S), NEW h, Summing(h, f, S), NEW T \in SUBSET S
    PROVE  Total(f, T) = h[T]
<1>1. IsFiniteSet(T)
  BY FS_Subset
<1>2. PICK g : Summing(g, f, T) /\ Total(f, T) = g[T]
  BY <1>1, SumIsFold
<1>3. Summing([U \in SUBSET T |-> h[U]], f, T)
  BY SummingSubset
<1>4. g = [U \in SUBSET T |-> h[U]]
  BY <1>1, <1>2, <1>3, SummingUnique
<1> QED
  BY <1>2, <1>4

LEMMA TotalEmpty ==
    ASSUME NEW f
    PROVE  Total(f, {}) = 0
<1>1. IsFiniteSet({})
  BY FS_EmptySet
<1>2. PICK g : Summing(g, f, {}) /\ Total(f, {}) = g[{}]
  BY <1>1, SumIsFold
<1> QED
  BY <1>2 DEF Summing

\* The element CHOOSE gives, and the rest.
LEMMA TotalChoice ==
    ASSUME NEW f, NEW S, IsFiniteSet(S), S # {}
    PROVE  \E x \in S : Total(f, S) = f[x] + Total(f, S \ {x})
<1>1. PICK g : Summing(g, f, S) /\ Total(f, S) = g[S]
  BY SumIsFold
<1> DEFINE x == CHOOSE x \in S : TRUE
<1>2. x \in S
  OBVIOUS
<1>3. g[S] = f[x] + g[S \ {x}]
  BY <1>1 DEF Summing
<1>4. S \ {x} \in SUBSET S
  OBVIOUS
<1>5. Total(f, S \ {x}) = g[S \ {x}]
  <2> HIDE DEF x
  <2> QED BY <1>1, <1>4, TotalIs
<1> QED
  BY <1>1, <1>2, <1>3, <1>5

-----------------------------------------------------------------------------
(* Sums of integers *)

\* f gives an integer for each element of S.
AllInt(f, S) == \A x \in S : f[x] \in Int

LEMMA TotalInt ==
    ASSUME NEW f, NEW S, IsFiniteSet(S), AllInt(f, S)
    PROVE  Total(f, S) \in Int
<1> DEFINE G == {T \in SUBSET S : Total(f, T) \in Int}
<1>1. \A T \in SUBSET S : (\A U \in SUBSET T : U # T => U \in G) => T \in G
  <2> SUFFICES ASSUME NEW T \in SUBSET S, \A U \in SUBSET T : U # T => U \in G
               PROVE  Total(f, T) \in Int
    OBVIOUS
  <2>1. CASE T = {}
    BY <2>1, TotalEmpty
  <2>2. CASE T # {}
    <3>1. IsFiniteSet(T)
      BY FS_Subset
    <3>2. PICK x \in T : Total(f, T) = f[x] + Total(f, T \ {x})
      BY <2>2, <3>1, TotalChoice
    <3>3. Total(f, T \ {x}) \in Int
      BY <3>2
    <3> QED
      BY <3>2, <3>3 DEF AllInt
  <2> QED
    BY <2>1, <2>2
<1>2. G = SUBSET S
  <2>1. G \in SUBSET SUBSET S
    OBVIOUS
  <2> HIDE DEF G
  <2> QED
    BY <1>1, <2>1, SubsetInduction
<1> QED
  BY <1>2

\* Any element may be the one to be taken.
LEMMA TotalRemove ==
    ASSUME NEW f, NEW S, IsFiniteSet(S), AllInt(f, S), NEW x \in S
    PROVE  Total(f, S) = f[x] + Total(f, S \ {x})
<1> DEFINE G == {T \in SUBSET S : \A y \in T : Total(f, T) = f[y] + Total(f, T \ {y})}
<1>1. \A T \in SUBSET S : (\A U \in SUBSET T : U # T => U \in G) => T \in G
  <2> SUFFICES ASSUME NEW T \in SUBSET S, \A U \in SUBSET T : U # T => U \in G,
                      NEW y \in T
               PROVE  Total(f, T) = f[y] + Total(f, T \ {y})
    OBVIOUS
  <2>1. IsFiniteSet(T)
    BY FS_Subset
  <2>2. PICK z \in T : Total(f, T) = f[z] + Total(f, T \ {z})
    BY <2>1, TotalChoice
  <2>3. CASE z # y
    <3>1. T \ {z} \in G /\ T \ {y} \in G
      BY <2>2
    <3>2. Total(f, T \ {z}) = f[y] + Total(f, (T \ {z}) \ {y})
      BY <2>3, <3>1
    <3>3. Total(f, T \ {y}) = f[z] + Total(f, (T \ {y}) \ {z})
      BY <2>3, <3>1
    <3>4. Total(f, (T \ {z}) \ {y}) = Total(f, (T \ {y}) \ {z})
      <4>1. (T \ {z}) \ {y} = (T \ {y}) \ {z}
        OBVIOUS
      <4> QED
        BY <4>1
    <3>5. f[y] \in Int /\ f[z] \in Int
      BY DEF AllInt
    <3>6. Total(f, (T \ {z}) \ {y}) \in Int
      <4>1. IsFiniteSet((T \ {z}) \ {y})
        BY <2>1, FS_Subset
      <4> QED
        BY <4>1, TotalInt DEF AllInt
    <3>7. \A a, b, c \in Int : a + (b + c) = b + (a + c)
      OBVIOUS
    <3>8. Total(f, T) = f[z] + (f[y] + Total(f, (T \ {z}) \ {y}))
      BY <2>2, <3>2
    <3>9. Total(f, T \ {y}) = f[z] + Total(f, (T \ {z}) \ {y})
      BY <3>3, <3>4
    <3>10. Total(f, T) = f[y] + (f[z] + Total(f, (T \ {z}) \ {y}))
      BY <3>5, <3>6, <3>7, <3>8
    <3> QED
      BY <3>9, <3>10
  <2> QED
    BY <2>2, <2>3
<1>2. G = SUBSET S
  <2>1. G \in SUBSET SUBSET S
    OBVIOUS
  <2> HIDE DEF G
  <2> QED
    BY <1>1, <2>1, SubsetInduction
<1> QED
  BY <1>2

\* Only the values on S matter.
LEMMA TotalSame ==
    ASSUME NEW f, NEW g, NEW S, IsFiniteSet(S), \A x \in S : f[x] = g[x]
    PROVE  Total(f, S) = Total(g, S)
<1>1. PICK h : Summing(h, f, S) /\ Total(f, S) = h[S]
  BY SumIsFold
<1>2. Summing(h, g, S)
  <2>1. ASSUME NEW T \in SUBSET S, T # {}
        PROVE  LET x == CHOOSE x \in T : TRUE IN f[x] = g[x]
    <3>1. (CHOOSE x \in T : TRUE) \in S
      BY <2>1
    <3> QED
      BY <3>1
  <2>2. h = [T \in SUBSET S |-> h[T]]
    BY <1>1 DEF Summing
  <2>3. ASSUME NEW T \in SUBSET S
        PROVE  h[T] = IF T = {} THEN 0
                      ELSE LET x == CHOOSE x \in T : TRUE IN g[x] + h[T \ {x}]
    BY <1>1, <2>1 DEF Summing
  <2> QED
    BY <2>2, <2>3 DEF Summing
<1>3. S \in SUBSET S
  OBVIOUS
<1> QED
  BY <1>1, <1>2, <1>3, TotalIs

\* The sum of nothing but 0.
LEMMA TotalZero ==
    ASSUME NEW f, NEW S, IsFiniteSet(S), \A x \in S : f[x] = 0
    PROVE  Total(f, S) = 0
<1> DEFINE h == [T \in SUBSET S |-> 0]
<1>1. Summing(h, f, S)
  <2>1. ASSUME NEW T \in SUBSET S, T # {}
        PROVE  (CHOOSE x \in T : TRUE) \in S
    BY <2>1
  <2>2. ASSUME NEW T \in SUBSET S, T # {}
        PROVE  LET x == CHOOSE x \in T : TRUE IN f[x] + h[T \ {x}] = 0
    BY <2>1, <2>2
  <2> QED
    BY <2>2 DEF Summing
<1>2. S \in SUBSET S
  OBVIOUS
<1>3. Total(f, S) = h[S]
  <2> HIDE DEF h
  <2> QED BY <1>1, <1>2, TotalIs
<1> QED
  BY <1>3

\* The sum of the differences is the difference of the sums.
LEMMA TotalDifference ==
    ASSUME NEW S, IsFiniteSet(S), NEW f \in [S -> Int], NEW g \in [S -> Int]
    PROVE  Total([x \in S |-> f[x] - g[x]], S) = Total(f, S) - Total(g, S)
<1> DEFINE d == [x \in S |-> f[x] - g[x]]
           G == {T \in SUBSET S : Total(d, T) = Total(f, T) - Total(g, T)}
<1>0. \A T \in SUBSET S : IsFiniteSet(T) /\ AllInt(d, T) /\ AllInt(f, T) /\ AllInt(g, T)
  BY FS_Subset DEF AllInt
<1>1. \A T \in SUBSET S : (\A U \in SUBSET T : U # T => U \in G) => T \in G
  <2> SUFFICES ASSUME NEW T \in SUBSET S, \A U \in SUBSET T : U # T => U \in G
               PROVE  Total(d, T) = Total(f, T) - Total(g, T)
    OBVIOUS
  <2>1. CASE T = {}
    <3> HIDE DEF d
    <3> QED BY <2>1, TotalEmpty
  <2>2. CASE T # {}
    <3>1. PICK x \in T : TRUE
      BY <2>2
    <3>2. T \ {x} \in G
      BY <3>1
    <3>3. d[x] = f[x] - g[x] /\ f[x] \in Int /\ g[x] \in Int
      OBVIOUS
    <3>4. Total(f, T \ {x}) \in Int /\ Total(g, T \ {x}) \in Int
      BY <1>0, TotalInt
    <3>5. Total(d, T \ {x}) = Total(f, T \ {x}) - Total(g, T \ {x})
      BY <3>2
    <3>6. /\ Total(d, T) = d[x] + Total(d, T \ {x})
          /\ Total(f, T) = f[x] + Total(f, T \ {x})
          /\ Total(g, T) = g[x] + Total(g, T \ {x})
      <4> HIDE DEF d, G
      <4> QED BY <1>0, <3>1, TotalRemove
    <3> HIDE DEF d, G
    <3> QED
      BY <3>3, <3>4, <3>5, <3>6
  <2> QED
    BY <2>1, <2>2
<1>2. G = SUBSET S
  <2>1. G \in SUBSET SUBSET S
    OBVIOUS
  <2> HIDE DEF G
  <2> QED
    BY <1>1, <2>1, SubsetInduction
<1> QED
  BY <1>2

\* A sum may be taken by kind: every element of S has its kind p[x] in N.
LEMMA TotalByKind ==
    ASSUME NEW S, IsFiniteSet(S), NEW f, AllInt(f, S),
           NEW N, IsFiniteSet(N), NEW p, \A x \in S : p[x] \in N
    PROVE  Total([n \in N |-> Total(f, {x \in S : p[x] = n})], N) = Total(f, S)
<1> DEFINE Kind(T) == [n \in N |-> Total(f, {x \in T : p[x] = n})]
           G == {T \in SUBSET S : Total(Kind(T), N) = Total(f, T)}
<1>0. \A T \in SUBSET S : IsFiniteSet(T) /\ AllInt(f, T)
  BY FS_Subset DEF AllInt
<1>1. \A T \in SUBSET S : (\A U \in SUBSET T : U # T => U \in G) => T \in G
  <2> SUFFICES ASSUME NEW T \in SUBSET S, \A U \in SUBSET T : U # T => U \in G
               PROVE  Total(Kind(T), N) = Total(f, T)
    OBVIOUS
  <2>1. CASE T = {}
    <3>1. \A n \in N : Kind(T)[n] = 0
      <4>1. ASSUME NEW n \in N
            PROVE  Kind(T)[n] = Total(f, {x \in T : p[x] = n})
        OBVIOUS
      <4>2. ASSUME NEW n \in N
            PROVE  {x \in T : p[x] = n} = {}
        BY <2>1
      <4> QED BY <4>1, <4>2, TotalEmpty
    <3>2. Total(f, T) = 0
      BY <2>1, TotalEmpty
    <3> HIDE DEF Kind
    <3> QED BY <3>1, <3>2, TotalZero
  <2>2. CASE T # {}
    <3>1. PICK y \in T : TRUE
      BY <2>2
    <3> DEFINE U == T \ {y}
               m == p[y]
    <3>2. U \in SUBSET S /\ U # T /\ U \in SUBSET T /\ y \notin U /\ m \in N
      OBVIOUS
    <3>3. Total(Kind(U), N) = Total(f, U)
      BY <3>2
    <3>4. Total(f, T) = f[y] + Total(f, U)
      BY <1>0, TotalRemove
    <3>5. \A n \in N : Kind(T)[n] = Total(f, {x \in T : p[x] = n})
                    /\ Kind(U)[n] = Total(f, {x \in U : p[x] = n})
      OBVIOUS
    <3>6. \A n \in N : Kind(U)[n] \in Int /\ Kind(T)[n] \in Int
      <4>1. ASSUME NEW V \in SUBSET S, NEW n \in N
            PROVE  Total(f, {x \in V : p[x] = n}) \in Int
        <5> DEFINE W == {x \in V : p[x] = n}
        <5>1. W \in SUBSET S
          OBVIOUS
        <5> HIDE DEF W
        <5>2. Total(f, W) \in Int
          BY <1>0, <5>1, TotalInt
        <5> QED
          BY <5>2 DEF W
      <4>2. \A n \in N : Total(f, {x \in U : p[x] = n}) \in Int
                      /\ Total(f, {x \in T : p[x] = n}) \in Int
        BY <3>2, <4>1
      <4> HIDE DEF Kind, U, m
      <4> QED BY <3>5, <4>2
    <3>7. \A n \in N \ {m} : Kind(T)[n] = Kind(U)[n]
      <4>1. ASSUME NEW n \in N \ {m}
            PROVE  {x \in T : p[x] = n} = {x \in U : p[x] = n}
        OBVIOUS
      <4> HIDE DEF Kind, U, m
      <4> QED BY <3>5, <4>1
    <3>8. Kind(T)[m] = f[y] + Kind(U)[m]
      <4> DEFINE V == {x \in T : p[x] = m}
      <4>1. V \ {y} = {x \in U : p[x] = m} /\ V \in SUBSET S /\ y \in V
        OBVIOUS
      <4>2. Total(f, V) = f[y] + Total(f, V \ {y})
        <5> HIDE DEF V
        <5> QED BY <1>0, <4>1, TotalRemove
      <4>3. Kind(T)[m] = Total(f, V) /\ Kind(U)[m] = Total(f, {x \in U : p[x] = m})
        BY <3>2, <3>5
      <4> HIDE DEF V, Kind, U, m
      <4> QED BY <4>1, <4>2, <4>3
    <3>9. Total(Kind(T), N) = Kind(T)[m] + Total(Kind(T), N \ {m})
      <4>1. AllInt(Kind(T), N)
        BY <3>6 DEF AllInt
      <4> HIDE DEF Kind, U, m
      <4> QED BY <3>2, <4>1, TotalRemove
    <3>10. Total(Kind(U), N) = Kind(U)[m] + Total(Kind(U), N \ {m})
      <4>1. AllInt(Kind(U), N)
        BY <3>6 DEF AllInt
      <4> HIDE DEF Kind, U, m
      <4> QED BY <3>2, <4>1, TotalRemove
    <3>11. Total(Kind(T), N \ {m}) = Total(Kind(U), N \ {m})
      <4>1. IsFiniteSet(N \ {m})
        BY FS_Subset
      <4> HIDE DEF Kind, U, m
      <4> QED BY <3>7, <4>1, TotalSame
    <3>12. Total(Kind(U), N \ {m}) \in Int
      <4>1. IsFiniteSet(N \ {m})
        BY FS_Subset
      <4>2. AllInt(Kind(U), N \ {m})
        BY <3>6 DEF AllInt
      <4> HIDE DEF Kind, U, m
      <4> QED BY <4>1, <4>2, TotalInt
    <3>13. f[y] \in Int /\ Kind(U)[m] \in Int
      <4>1. f[y] \in Int
        BY DEF AllInt
      <4> HIDE DEF Kind, U
      <4> QED BY <3>2, <3>6, <4>1
    <3> HIDE DEF Kind, U, m, G
    <3> QED
      BY <3>3, <3>4, <3>8, <3>9, <3>10, <3>11, <3>12, <3>13
  <2> QED
    BY <2>1, <2>2
<1>2. G = SUBSET S
  <2>1. G \in SUBSET SUBSET S
    OBVIOUS
  <2> HIDE DEF G
  <2> QED
    BY <1>1, <2>1, SubsetInduction
<1> QED
  BY <1>2
=============================================================================
