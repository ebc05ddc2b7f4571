-------------------------- MODULE Analytics_proofs --------------------------
(***************************************************************************)
(* Proofs about what is shown of a teacher: the rows it comes from, the    *)
(* dashboards and the reports, for any number of submissions, semesters,   *)
(* versions and pipelines, and any answers, scores, labels and topics.     *)
(***************************************************************************)
EXTENDS FacultyReport, Dashboards, FiniteSetTheorems, WellFoundedInduction,
        TLAPS

-----------------------------------------------------------------------------
(* Numbers.  What holds of every number is proved by a least one for which *)
(* it would not.                                                           *)

LEMMA LeastOf ==
  ASSUME NEW S \in SUBSET Nat, S # {}
  PROVE  \E m \in S : \A y \in S : m <= y
<1>1. PICK m \in S : \A y \in S : ~(<<y, m>> \in OpToRel(<, Nat))
  BY NatLessThanWellFounded, WFMin
<1>2. ASSUME NEW y \in S PROVE m <= y
  <2>1. y \in Nat /\ m \in Nat
    OBVIOUS
  <2>2. ~(y < m)
    BY <1>1, <2>1 DEF OpToRel
  <2> QED BY <2>1, <2>2
<1> QED BY <1>2

LEMMA MinIsLeast ==
  ASSUME NEW S \in SUBSET Nat, S # {}
  PROVE  Min(S) \in S /\ \A x \in S : Min(S) <= x
BY LeastOf DEF Min

LEMMA MaxIsGreatest ==
  ASSUME NEW n \in Nat, NEW S \in SUBSET (0..n), S # {}
  PROVE  Max(S) \in S /\ \A x \in S : x <= Max(S)
<1> DEFINE T == {n - x : x \in S}
<1>1. T \in SUBSET Nat /\ T # {}
  <2>1. PICK x \in S : TRUE
    OBVIOUS
  <2>2. n - x \in T
    OBVIOUS
  <2> QED BY <2>2
<1>2. PICK m \in T : \A y \in T : m <= y
  <2> HIDE DEF T
  <2> QED BY <1>1, LeastOf
<1>3. PICK x \in S : m = n - x
  OBVIOUS
<1>4. \A y \in S : n - x <= n - y
  BY <1>2, <1>3
<1>5. ASSUME NEW y \in S PROVE x >= y
  <2>1. n - x <= n - y /\ x \in Int /\ y \in Int
    BY <1>4
  <2> QED BY <2>1
<1> QED BY <1>5 DEF Max

\* A factor that is not negative keeps an order.
LEMMA TimesKeeps ==
  ASSUME NEW a \in Int, NEW b \in Int, NEW k \in Nat, a <= b
  PROVE  a * k <= b * k
OBVIOUS

LEMMA DivBetween ==
  ASSUME NEW a \in Int, NEW d \in Nat \ {0}, NEW lo \in Int, NEW hi \in Int,
         lo * d <= a, a < (hi + 1) * d
  PROVE  a \div d \in lo..hi
<1> DEFINE q == a \div d
           r == a % d
<1>1. q \in Int /\ r \in 0..(d - 1) /\ a = d * q + r
  OBVIOUS
<1> HIDE DEF q, r
<1>2. ~(q < lo)
  <2> SUFFICES ASSUME q + 1 <= lo PROVE FALSE
    BY <1>1
  <2>1. (q + 1) * d <= lo * d
    BY <1>1, TimesKeeps
  <2>2. (q + 1) * d = d * q + d
    BY <1>1
  <2> QED BY <1>1, <2>1, <2>2
<1>3. ~(q > hi)
  <2> SUFFICES ASSUME hi + 1 <= q PROVE FALSE
    BY <1>1
  <2>1. (hi + 1) * d <= q * d
    BY <1>1, TimesKeeps
  <2>2. q * d = d * q
    BY <1>1
  <2> QED BY <1>1, <2>1, <2>2
<1> QED BY <1>1, <1>2, <1>3 DEF q

\* A rounded mean is between the least and the greatest of what it is a mean of.
LEMMA RoundBetween ==
  ASSUME NEW a \in Int, NEW b \in Nat \ {0}, NEW lo \in Int, NEW hi \in Int,
         lo * b <= a, a <= hi * b
  PROVE  RoundDiv(a, b) \in lo..hi
<1>1. lo * (2 * b) <= 2 * a + b
  <2>1. lo * (2 * b) = 2 * (lo * b) /\ lo * b \in Int
    OBVIOUS
  <2> QED BY <2>1
<1>2. 2 * a + b < (hi + 1) * (2 * b)
  <2>1. (hi + 1) * (2 * b) = 2 * (hi * b) + 2 * b /\ hi * b \in Int
    OBVIOUS
  <2> QED BY <2>1
<1>3. 2 * a + b \in Int /\ 2 * b \in Nat \ {0}
  OBVIOUS
<1> QED BY <1>1, <1>2, <1>3, DivBetween DEF RoundDiv

-----------------------------------------------------------------------------
(* SumTo.                                                                  *)

\* s has the sums of f up to n.
Summed(s, f, n) ==
  s \in [0..n -> Int] /\ s[0] = 0 /\ \A i \in 1..n : s[i] = s[i - 1] + f[i]

LEMMA SumsExist ==
  ASSUME NEW n \in Nat, NEW f, \A i \in 1..n : f[i] \in Int
  PROVE  \E s : Summed(s, f, n)
<1> DEFINE Bad == {k \in 0..n : ~ \E s : Summed(s, f, k)}
<1> SUFFICES ASSUME Bad # {} PROVE FALSE
  OBVIOUS
<1>1. PICK k \in Bad : \A y \in Bad : k <= y
  <2>1. Bad \in SUBSET Nat
    OBVIOUS
  <2> HIDE DEF Bad
  <2> QED BY <2>1, LeastOf
<1>2. CASE k = 0
  <2>1. Summed([i \in 0..0 |-> 0], f, 0)
    BY DEF Summed
  <2> QED BY <1>1, <1>2, <2>1
<1>3. CASE k # 0
  <2>1. k - 1 \in 0..n /\ k - 1 \notin Bad
    BY <1>1, <1>3
  <2>2. PICK s : Summed(s, f, k - 1)
    BY <2>1
  <2> DEFINE t == [i \in 0..k |-> IF i = k THEN s[k - 1] + f[k] ELSE s[i]]
  <2>3. k \in 1..n /\ s \in [0..(k - 1) -> Int] /\ s[0] = 0
        /\ \A i \in 1..(k - 1) : s[i] = s[i - 1] + f[i]
    BY <1>1, <1>3, <2>2 DEF Summed
  <2>4. t \in [0..k -> Int]
    <3>1. ASSUME NEW i \in 0..k PROVE t[i] \in Int
      <4>1. i = k \/ i \in 0..(k - 1)
        BY <2>3
      <4> QED BY <2>3, <4>1
    <3> QED BY <3>1
  <2>5. t[0] = 0
    BY <2>3
  <2>6. ASSUME NEW i \in 1..k PROVE t[i] = t[i - 1] + f[i]
    <3>1. i - 1 \in 0..(k - 1) /\ (i = k \/ i \in 1..(k - 1))
      BY <2>3
    <3>2. t[i - 1] = s[i - 1]
      BY <2>3, <3>1
    <3> QED BY <2>3, <3>1, <3>2
  <2> HIDE DEF t
  <2>7. Summed(t, f, k)
    BY <2>4, <2>5, <2>6 DEF Summed
  <2> QED BY <1>1, <2>7
<1> QED BY <1>2, <1>3

LEMMA SumToIs ==
  ASSUME NEW n \in Nat, NEW f, NEW s, Summed(s, f, n), NEW k \in 0..n
  PROVE  SumTo(f, k) = s[k]
<1> DEFINE IsSum(g) == g = [i \in 0..k |-> IF i = 0 THEN 0 ELSE g[i - 1] + f[i]]
           g == CHOOSE g : IsSum(g)
           t == [i \in 0..k |-> s[i]]
<1>1. IsSum(t)
  <2>1. ASSUME NEW i \in 0..k PROVE t[i] = IF i = 0 THEN 0 ELSE t[i - 1] + f[i]
    <3>1. CASE i = 0
      BY <3>1 DEF Summed
    <3>2. CASE i # 0
      <4>1. i \in 1..n /\ i - 1 \in 0..k
        BY <3>2
      <4> QED BY <3>2, <4>1 DEF Summed
    <3> QED BY <3>1, <3>2
  <2> HIDE DEF t
  <2>2. t = [i \in 0..k |-> t[i]]
    BY DEF t
  <2> QED BY <2>1, <2>2
<1>2. IsSum(g)
  <2> HIDE DEF t, IsSum
  <2> QED BY <1>1
<1>3. SumTo(f, k) = g[k]
  BY DEF SumTo
<1> HIDE DEF g
<1>4. g[0] = 0 /\ \A i \in 1..k : g[i] = g[i - 1] + f[i]
  BY <1>2
<1> HIDE DEF IsSum
<1> DEFINE Bad == {i \in 0..k : g[i] # s[i]}
<1>5. ASSUME Bad # {} PROVE FALSE
  <2>1. PICK i \in Bad : \A y \in Bad : i <= y
    <3>1. Bad \in SUBSET Nat
      OBVIOUS
    <3> HIDE DEF Bad
    <3> QED BY <1>5, <3>1, LeastOf
  <2>2. i # 0
    BY <1>4 DEF Summed
  <2>3. i \in 1..k /\ i \in 1..n /\ i - 1 \in 0..k /\ i - 1 \notin Bad
    BY <2>1, <2>2
  <2>4. g[i - 1] = s[i - 1]
    BY <2>3
  <2>5. g[i] = s[i]
    BY <1>4, <2>3, <2>4 DEF Summed
  <2> QED BY <2>1, <2>5
<1> QED BY <1>3, <1>5

\* The sum up to k adds f[k] to the sum before.
LEMMA SumToRule ==
  ASSUME NEW n \in Nat, NEW f, \A i \in 1..n : f[i] \in Int
  PROVE  /\ SumTo(f, 0) = 0
         /\ \A k \in 0..n : SumTo(f, k) \in Int
         /\ \A k \in 1..n : SumTo(f, k) = SumTo(f, k - 1) + f[k]
<1>1. PICK s : Summed(s, f, n)
  BY SumsExist
<1>2. \A k \in 0..n : SumTo(f, k) = s[k]
  BY <1>1, SumToIs
<1>3. 0 \in 0..n /\ \A k \in 1..n : k \in 0..n /\ k - 1 \in 0..n
  OBVIOUS
<1> QED BY <1>1, <1>2, <1>3 DEF Summed

-----------------------------------------------------------------------------
(* SumFunction: the sum of f over a finite set, one element after another. *)

One(T) == CHOOSE x \in T : TRUE

\* The subsets of S with up to n elements, and the sums of f over them.
Small(S, n) == {T \in SUBSET S : Cardinality(T) <= n}
Adds(g, f, D) ==
  g = [T \in D |-> IF T = {} THEN 0 ELSE f[One(T)] + g[T \ {One(T)}]]

LEMMA OneLess ==
  ASSUME NEW T, IsFiniteSet(T), T # {}
  PROVE  /\ One(T) \in T /\ IsFiniteSet(T \ {One(T)})
         /\ Cardinality(T) \in Nat /\ Cardinality(T) # 0
         /\ Cardinality(T \ {One(T)}) = Cardinality(T) - 1
<1>1. One(T) \in T
  BY DEF One
<1>2. Cardinality(T) # 0
  BY FS_EmptySet
<1> QED BY <1>1, <1>2, FS_CardinalityType, FS_RemoveElement

LEMMA AdderExists ==
  ASSUME NEW S, IsFiniteSet(S), NEW f
  PROVE  \E g : Adds(g, f, SUBSET S)
<1> DEFINE c == Cardinality(S)
           Bad == {n \in 0..c : ~ \E g : Adds(g, f, Small(S, n))}
<1>0. c \in Nat
  BY FS_CardinalityType
<1>1. \A T \in SUBSET S : IsFiniteSet(T) /\ Cardinality(T) \in 0..c
  BY FS_Subset, FS_CardinalityType
<1>2. ASSUME Bad # {} PROVE FALSE
  <2>1. PICK n \in Bad : \A y \in Bad : n <= y
    <3>1. Bad \in SUBSET Nat
      OBVIOUS
    <3> HIDE DEF Bad
    <3> QED BY <1>2, <3>1, LeastOf
  <2>2. CASE n = 0
    <3> DEFINE g == [T \in Small(S, 0) |-> 0]
    <3>1. \A T \in Small(S, 0) : T = {}
      <4>1. ASSUME NEW T \in Small(S, 0) PROVE T = {}
        <5>1. IsFiniteSet(T) /\ Cardinality(T) = 0
          BY <1>1 DEF Small
        <5> QED BY <5>1, FS_EmptySet
      <4> QED BY <4>1
    <3>2. Adds(g, f, Small(S, 0))
      BY <3>1 DEF Adds
    <3> HIDE DEF g
    <3> QED BY <2>1, <2>2, <3>2
  <2>3. CASE n # 0
    <3>1. n - 1 \in 0..c /\ n - 1 \notin Bad
      BY <1>0, <2>1, <2>3
    <3>2. PICK g : Adds(g, f, Small(S, n - 1))
      BY <3>1
    <3> DEFINE h == [T \in Small(S, n) |->
                       IF T = {} THEN 0 ELSE f[One(T)] + g[T \ {One(T)}]]
    <3>3. \A T \in Small(S, n - 1) : T \in Small(S, n) /\ h[T] = g[T]
      <4>1. ASSUME NEW T \in Small(S, n - 1) PROVE T \in Small(S, n)
        BY <1>0, <1>1, <2>1 DEF Small
      <4>2. ASSUME NEW T \in Small(S, n - 1) PROVE h[T] = g[T]
        BY <3>2, <4>1 DEF Adds
      <4> QED BY <4>1, <4>2
    <3>4. ASSUME NEW T \in Small(S, n), T # {}
          PROVE  T \ {One(T)} \in Small(S, n - 1)
      <4>1. T \in SUBSET S /\ IsFiniteSet(T) /\ Cardinality(T) <= n
        BY <1>1 DEF Small
      <4>2. /\ Cardinality(T) \in Nat
            /\ Cardinality(T \ {One(T)}) = Cardinality(T) - 1
        BY <3>4, <4>1, OneLess
      <4>3. Cardinality(T \ {One(T)}) <= n - 1
        BY <1>0, <2>1, <4>1, <4>2
      <4> QED BY <4>1, <4>3 DEF Small
    <3>5. ASSUME NEW T \in Small(S, n)
          PROVE  h[T] = IF T = {} THEN 0 ELSE f[One(T)] + h[T \ {One(T)}]
      BY <3>3, <3>4
    <3>6. h = [T \in Small(S, n) |-> h[T]]
      OBVIOUS
    <3> HIDE DEF h
    <3>7. Adds(h, f, Small(S, n))
      BY <3>5, <3>6 DEF Adds
    <3> QED BY <2>1, <3>7
  <2> QED BY <2>2, <2>3
<1>3. Small(S, c) = SUBSET S
  BY <1>1 DEF Small
<1>4. c \in 0..c /\ c \notin Bad
  BY <1>0, <1>2
<1> HIDE DEF c
<1> QED BY <1>3, <1>4

LEMMA SumIs ==
  ASSUME NEW S, IsFiniteSet(S), NEW f
  PROVE  \E g : Adds(g, f, SUBSET S) /\ SumFunctionOnSet(f, S) = g[S]
<1> DEFINE h == CHOOSE g : Adds(g, f, SUBSET S)
<1>1. Adds(h, f, SUBSET S)
  BY AdderExists
<1>2. SumFunctionOnSet(f, S) = h[S]
  BY DEF SumFunctionOnSet, FoldFunctionOnSet, MapThenFoldSet, Adds, One
<1> QED BY <1>1, <1>2

\* The elements of S keep a relation of f and w that adding keeps: here bounds.
LEMMA SumBounds ==
  ASSUME NEW S, IsFiniteSet(S), NEW f, NEW w, NEW lo \in Int, NEW hi \in Int,
         \A x \in S : /\ f[x] \in Int /\ w[x] \in Int
                      /\ lo * w[x] <= f[x] /\ f[x] <= hi * w[x]
  PROVE  /\ SumFunctionOnSet(f, S) \in Int /\ SumFunctionOnSet(w, S) \in Int
         /\ lo * SumFunctionOnSet(w, S) <= SumFunctionOnSet(f, S)
         /\ SumFunctionOnSet(f, S) <= hi * SumFunctionOnSet(w, S)
<1>1. PICK g : Adds(g, f, SUBSET S) /\ SumFunctionOnSet(f, S) = g[S]
  BY SumIs
<1>2. PICK h : Adds(h, w, SUBSET S) /\ SumFunctionOnSet(w, S) = h[S]
  BY SumIs
<1> DEFINE Good(T) == /\ g[T] \in Int /\ h[T] \in Int
                      /\ lo * h[T] <= g[T] /\ g[T] <= hi * h[T]
           Bad == {T \in SUBSET S : ~Good(T)}
           Sizes == {Cardinality(T) : T \in Bad}
<1>3. \A T \in SUBSET S : IsFiniteSet(T) /\ Cardinality(T) \in Nat
  BY FS_Subset, FS_CardinalityType
<1>4. ASSUME Bad # {} PROVE FALSE
  <2>1. Sizes \in SUBSET Nat /\ Sizes # {}
    BY <1>3, <1>4
  <2>2. PICK m \in Sizes : \A y \in Sizes : m <= y
    <3> HIDE DEF Sizes
    <3> QED BY <2>1, LeastOf
  <2>3. PICK T \in Bad : Cardinality(T) = m
    OBVIOUS
  <2>4. CASE T = {}
    <3>1. g[{}] = 0 /\ h[{}] = 0
      BY <1>1, <1>2 DEF Adds
    <3>2. Good({})
      BY <3>1
    <3> QED BY <2>3, <2>4, <3>2
  <2>5. CASE T # {}
    <3> DEFINE x == One(T)
               R == T \ {One(T)}
    <3>1. T \in SUBSET S /\ IsFiniteSet(T) /\ ~Good(T)
      BY <1>3, <2>3
    <3>2. /\ x \in S /\ R \in SUBSET S
          /\ Cardinality(T) \in Nat /\ Cardinality(R) = Cardinality(T) - 1
      BY <2>5, <3>1, OneLess
    <3>3. Good(R)
      <4>1. SUFFICES ASSUME R \in Bad PROVE FALSE
        BY <3>2
      <4>2. Cardinality(R) \in Sizes
        BY <4>1
      <4> HIDE DEF Sizes, Bad, R
      <4>3. m <= Cardinality(R)
        BY <2>2, <4>2
      <4> QED BY <2>3, <3>2, <4>3
    <3>4. g[T] = f[x] + g[R] /\ h[T] = w[x] + h[R]
      BY <1>1, <1>2, <2>5, <3>1 DEF Adds
    <3> HIDE DEF x, R
    <3>5. /\ f[x] \in Int /\ w[x] \in Int
          /\ lo * w[x] <= f[x] /\ f[x] <= hi * w[x]
      BY <3>2
    <3>6. g[T] \in Int /\ h[T] \in Int
      BY <3>3, <3>4, <3>5
    <3>7. lo * h[T] = lo * w[x] + lo * h[R] /\ hi * h[T] = hi * w[x] + hi * h[R]
      BY <3>3, <3>4, <3>5
    <3>8. /\ lo * w[x] \in Int /\ lo * h[R] \in Int
          /\ hi * w[x] \in Int /\ hi * h[R] \in Int
      BY <3>3, <3>5
    <3>9. lo * h[T] <= g[T] /\ g[T] <= hi * h[T]
      BY <3>3, <3>4, <3>5, <3>7, <3>8
    <3> QED BY <3>1, <3>6, <3>9
  <2> QED BY <2>4, <2>5
<1>5. Good(S)
  BY <1>4
<1> QED BY <1>1, <1>2, <1>5

LEMMA SumOfOnes ==
  ASSUME NEW S, IsFiniteSet(S)
  PROVE  SumFunctionOnSet([x \in S |-> 1], S) = Cardinality(S)
<1> DEFINE one == [x \in S |-> 1]
<1>1. PICK g : Adds(g, one, SUBSET S) /\ SumFunctionOnSet(one, S) = g[S]
  BY SumIs
<1> DEFINE Bad == {T \in SUBSET S : g[T] # Cardinality(T)}
           Sizes == {Cardinality(T) : T \in Bad}
<1>2. \A T \in SUBSET S : IsFiniteSet(T) /\ Cardinality(T) \in Nat
  BY FS_Subset, FS_CardinalityType
<1>3. ASSUME Bad # {} PROVE FALSE
  <2>1. Sizes \in SUBSET Nat /\ Sizes # {}
    BY <1>2, <1>3
  <2>2. PICK m \in Sizes : \A y \in Sizes : m <= y
    <3> HIDE DEF Sizes
    <3> QED BY <2>1, LeastOf
  <2>3. PICK T \in Bad : Cardinality(T) = m
    OBVIOUS
  <2>4. CASE T = {}
    <3>1. g[{}] = 0 /\ Cardinality({}) = 0
      BY <1>1, FS_EmptySet DEF Adds
    <3> QED BY <2>3, <2>4, <3>1
  <2>5. CASE T # {}
    <3> DEFINE R == T \ {One(T)}
    <3>1. T \in SUBSET S /\ IsFiniteSet(T) /\ g[T] # Cardinality(T)
      BY <1>2, <2>3
    <3>2. /\ One(T) \in S /\ R \in SUBSET S
          /\ Cardinality(T) \in Nat /\ Cardinality(R) = Cardinality(T) - 1
      BY <2>5, <3>1, OneLess
    <3>3. g[R] = Cardinality(R)
      <4>1. SUFFICES ASSUME R \in Bad PROVE FALSE
        BY <3>2
      <4>2. Cardinality(R) \in Sizes
        BY <4>1
      <4> HIDE DEF Sizes, Bad, R
      <4>3. m <= Cardinality(R)
        BY <2>2, <4>2
      <4> QED BY <2>3, <3>2, <4>3
    <3>4. g[T] = one[One(T)] + g[R]
      BY <1>1, <2>5, <3>1 DEF Adds
    <3>5. one[One(T)] = 1
      BY <3>2
    <3> HIDE DEF R, one
    <3> QED BY <3>1, <3>2, <3>3, <3>4, <3>5
  <2> QED BY <2>4, <2>5
<1>4. g[S] = Cardinality(S)
  BY <1>3
<1> QED BY <1>1, <1>4

\* The sum of numbers between lo and hi, and of weights that are not zero.
LEMMA SumBetween ==
  ASSUME NEW S, IsFiniteSet(S), NEW f, NEW lo \in Int, NEW hi \in Int,
         \A x \in S : f[x] \in Int /\ lo <= f[x] /\ f[x] <= hi
  PROVE  /\ SumFunctionOnSet(f, S) \in Int
         /\ lo * Cardinality(S) <= SumFunctionOnSet(f, S)
         /\ SumFunctionOnSet(f, S) <= hi * Cardinality(S)
<1> DEFINE one == [x \in S |-> 1]
<1>1. \A x \in S : /\ f[x] \in Int /\ one[x] \in Int
                   /\ lo * one[x] <= f[x] /\ f[x] <= hi * one[x]
  <2>1. lo * 1 = lo /\ hi * 1 = hi
    OBVIOUS
  <2>2. \A x \in S : one[x] = 1
    OBVIOUS
  <2> HIDE DEF one
  <2> QED BY <2>1, <2>2
<1>2. SumFunctionOnSet(one, S) = Cardinality(S)
  BY SumOfOnes
<1> HIDE DEF one
<1>3. /\ SumFunctionOnSet(f, S) \in Int
      /\ lo * SumFunctionOnSet(one, S) <= SumFunctionOnSet(f, S)
      /\ SumFunctionOnSet(f, S) <= hi * SumFunctionOnSet(one, S)
  BY <1>1, SumBounds
<1> QED BY <1>2, <1>3

LEMMA SumPositive ==
  ASSUME NEW S, IsFiniteSet(S), S # {}, NEW w, NEW hi \in Int,
         \A x \in S : w[x] \in Nat \ {0} /\ w[x] <= hi
  PROVE  SumFunctionOnSet(w, S) \in Nat \ {0}
<1>1. Cardinality(S) \in Nat \ {0}
  BY FS_CardinalityType, FS_EmptySet
<1>2. \A x \in S : w[x] \in Int /\ 1 <= w[x] /\ w[x] <= hi
  OBVIOUS
<1>3. 1 \in Int
  OBVIOUS
<1>4. /\ SumFunctionOnSet(w, S) \in Int
      /\ 1 * Cardinality(S) <= SumFunctionOnSet(w, S)
  BY <1>2, <1>3, SumBetween
<1> QED BY <1>1, <1>4

LEMMA SumFunctionOf ==
  ASSUME NEW f
  PROVE  SumFunction(f) = SumFunctionOnSet(f, DOMAIN f)
BY DEF SumFunction

\* An average lies between bounds that its sum lies between.
LEMMA AverageBetween ==
  ASSUME NEW sum \in Int, NEW n \in Nat \ {0}, NEW lo \in Int, NEW hi \in Int,
         lo * n <= sum, sum <= hi * n
  PROVE  Average(sum, n) \in (100 * lo)..(100 * hi)
<1>1. (100 * lo) * n = 100 * (lo * n) /\ (100 * hi) * n = 100 * (hi * n)
  OBVIOUS
<1>2. lo * n \in Int /\ hi * n \in Int
  OBVIOUS
<1>3. (100 * lo) * n <= 100 * sum /\ 100 * sum <= (100 * hi) * n
  BY <1>1, <1>2
<1>4. 100 * sum \in Int /\ 100 * lo \in Int /\ 100 * hi \in Int
  OBVIOUS
<1> QED BY <1>3, <1>4, RoundBetween DEF Average

-----------------------------------------------------------------------------
(* The rows.                                                               *)


\* What is marked by a pipeline is among what it covers and still stored; it
\* covers comments of its semester; before its labels it has nothing.
PipeOK(q) ==
  /\ \A s \in Submission :
       q.label[s] # None \/ q.theme[s] # 0 => s \in q.covers /\ s \in Stored
  /\ q.covers \subseteq Cleaned(Submission)
  /\ \A s \in q.covers : rows[s].state # "none" /\ rows[s].term = q.term
  /\ q.status \in {"none", "sentiment"} =>
       q.stamp = 0 /\ \A s \in Submission : q.label[s] = None /\ q.theme[s] = 0

\* Pipelines are stamped one after another.
Stamped == {p \in Pipe : pipes[p].stamp # 0}

EvaluationsInv ==
  /\ EvaluationsTypeOK
  /\ \A p \in Pipe : PipeOK(pipes[p])
  /\ \A p \in Pipe : pipes[p].stamp <= Cardinality(Stamped)

\* What the readers' steps do to the rows, and what all others do.
RowsStep ==
  \/ EvaluationsStep
  \/ \E p \in Pipe : Complete(p)
  \/ /\ faults < MaxFaults /\ faults' = faults + 1
     /\ UNCHANGED <<term, active, rows, pipes, wipe>>
  \/ UNCHANGED evaluations

RowRecord ==
  [state : {"none", "in", "bare", "gone"}, term : Term, version : Version]

WipeRecord ==
  [pc : {"idle", "assignments", "labels", "answers", "rows", "ended"},
   ids : SUBSET Submission]

LEMMA TypeFacts ==
  ASSUME EvaluationsInv
  PROVE  /\ term \in Term /\ active \in [RatedType -> Version]
         /\ rows \in [Submission -> RowRecord] /\ pipes \in [Pipe -> PipeRecord]
         /\ wipe \in WipeRecord /\ faults \in 0..MaxFaults
BY DEF EvaluationsInv, EvaluationsTypeOK, RowRecord, WipeRecord

\* The bounds are numbers, and the pipelines' scopes are owned or not.
LEMMA Bounds ==
  /\ MaxPipes \in Nat /\ MaxFaults \in Nat /\ MaxThemes \in {1, 2}
  /\ MaxTerm \in Nat \ {0} /\ MaxVersion \in Nat \ {0}
  /\ Scopes \subseteq BOOLEAN
BY EvaluationsAssumption DEF EvaluationsAssumption

LEMMA PipesAreFinite == IsFiniteSet(Pipe) /\ Cardinality(Pipe) = MaxPipes
BY Bounds, FS_Interval DEF Pipe

LEMMA StampedIsSmall ==
  IsFiniteSet(Stamped) /\ Cardinality(Stamped) \in 0..MaxPipes
<1>1. Stamped \subseteq Pipe
  BY DEF Stamped
<1> QED BY <1>1, PipesAreFinite, FS_Subset, FS_CardinalityType

LEMMA EvaluationsStart == EvaluationsInit => EvaluationsInv
<1> SUFFICES ASSUME EvaluationsInit PROVE EvaluationsInv
  OBVIOUS
<1>1. NoPipe \in PipeRecord
  BY Bounds DEF NoPipe, PipeRecord, Term
<1>2. EvaluationsTypeOK
  <2>1. \A p \in Pipe : \A s \in Submission : pipes[p].label[s] = None
    BY DEF EvaluationsInit, NoPipe
  <2>2. term \in Term /\ active \in [RatedType -> Version]
    BY Bounds DEF EvaluationsInit, Term, Version
  <2>3. rows \in [Submission -> [state : {"none", "in", "bare", "gone"}, term : Term,
                                 version : Version]]
    BY Bounds DEF EvaluationsInit, Term, Version
  <2>4. /\ wipe \in [pc : {"idle", "assignments", "labels", "answers", "rows", "ended"},
                     ids : SUBSET Submission]
        /\ faults \in 0..MaxFaults
    BY Bounds DEF EvaluationsInit
  <2>5. pipes \in [Pipe -> PipeRecord]
    BY <1>1 DEF EvaluationsInit
  <2> QED BY <2>1, <2>2, <2>3, <2>4, <2>5 DEF EvaluationsTypeOK
<1>3. \A p \in Pipe : pipes[p] = NoPipe
  BY DEF EvaluationsInit
<1>4. PipeOK(NoPipe)
  BY DEF PipeOK, NoPipe
<1>5. \A p \in Pipe : pipes[p].stamp <= Cardinality(Stamped)
  BY <1>3, StampedIsSmall DEF NoPipe
<1> QED BY <1>2, <1>3, <1>4, <1>5 DEF EvaluationsInv

\* One pipeline changes, and neither rows nor stamps do.
LEMMA OnePipeKeeps ==
  ASSUME EvaluationsInv, NEW p \in Pipe, NEW q \in PipeRecord,
         pipes' = [pipes EXCEPT ![p] = q], PipeOK(q), q.stamp = pipes[p].stamp,
         UNCHANGED <<term, active, rows, wipe, faults>>
  PROVE  EvaluationsInv'
<1>1. pipes \in [Pipe -> PipeRecord]
  BY TypeFacts
<1>2. /\ pipes' \in [Pipe -> PipeRecord] /\ pipes'[p] = q
      /\ \A r \in Pipe \ {p} : pipes'[r] = pipes[r]
      /\ \A r \in Pipe : pipes'[r].stamp = pipes[r].stamp
  BY <1>1
<1>3. \A r \in Pipe : PipeOK(pipes'[r])
  BY <1>2 DEF EvaluationsInv
<1>4. \A r : PipeOK(r)' <=> PipeOK(r)
  BY DEF PipeOK, Stored
<1>5. \A r \in Pipe : PipeOK(pipes[r])'
  <2>1. ASSUME NEW r \in Pipe PROVE PipeOK(pipes[r])'
    BY <1>3 DEF PipeOK, Stored
  <2> QED BY <2>1
<1>6. EvaluationsTypeOK'
  BY <1>2, <1>3 DEF EvaluationsInv, EvaluationsTypeOK, PipeOK, Stored
<1>7. Stamped' = Stamped
  BY <1>2 DEF Stamped
<1>8. \A r \in Pipe : pipes'[r].stamp <= Cardinality(Stamped')
  BY <1>2, <1>7 DEF EvaluationsInv
<1> QED BY <1>5, <1>6, <1>8 DEF EvaluationsInv

LEMMA DispatchKeeps ==
  ASSUME EvaluationsInv, NEW p \in Pipe, Dispatch(p)
  PROVE  EvaluationsInv'
<1> DEFINE of(m) == {s \in Cleaned(Stored) : rows[s].term = m}
<1>0. PICK own \in Scopes, m \in 1..term :
        /\ pipes[p].status = "none"
        /\ pipes' = [pipes EXCEPT ![p].status = "sentiment", ![p].own = own,
                                  ![p].term = m, ![p].covers = of(m)]
        /\ UNCHANGED <<term, active, rows, wipe, faults>>
  BY DEF Dispatch
<1> DEFINE covers == of(m)
<1>1. /\ pipes[p].status = "none" /\ covers = {s \in Cleaned(Stored) : rows[s].term = m}
      /\ pipes' = [pipes EXCEPT ![p].status = "sentiment", ![p].own = own,
                                ![p].term = m, ![p].covers = covers]
      /\ UNCHANGED <<term, active, rows, wipe, faults>>
  BY <1>0
<1> HIDE DEF covers
<1> DEFINE q == [pipes[p] EXCEPT !.status = "sentiment", !.own = own, !.term = m,
                                 !.covers = covers]
<1>2. /\ pipes \in [Pipe -> PipeRecord] /\ term \in Term
      /\ PipeOK(pipes[p]) /\ rows \in [Submission -> RowRecord]
  BY TypeFacts DEF EvaluationsInv
<1>3. covers \in SUBSET Submission /\ m \in Term /\ own \in BOOLEAN
  BY <1>0, <1>1, <1>2, Bounds DEF Cleaned, Stored, Term
<1>4. /\ q \in PipeRecord /\ q.status = "sentiment" /\ q.term = m /\ q.covers = covers
      /\ q.stamp = pipes[p].stamp /\ q.label = pipes[p].label /\ q.theme = pipes[p].theme
  <2>1. pipes[p] \in PipeRecord
    BY <1>2
  <2>2. q \in PipeRecord
    BY <1>3, <2>1 DEF PipeRecord
  <2>3. q.status = "sentiment" /\ q.term = m /\ q.covers = covers
    BY <2>1 DEF PipeRecord
  <2>4. q.stamp = pipes[p].stamp /\ q.label = pipes[p].label /\ q.theme = pipes[p].theme
    BY <2>1 DEF PipeRecord
  <2> QED BY <2>2, <2>3, <2>4
<1>5. pipes' = [pipes EXCEPT ![p] = q]
  BY <1>1, <1>2
<1>6. \A s \in covers : /\ s \in Cleaned(Submission) /\ rows[s].state # "none"
                        /\ rows[s].term = m
  BY <1>1 DEF Cleaned, Stored
<1> HIDE DEF q
<1>7. PipeOK(q)
  BY <1>1, <1>2, <1>4, <1>6 DEF PipeOK
<1> QED BY <1>1, <1>4, <1>5, <1>7, OnePipeKeeps

\* The topics, the completion or the failure of a pipeline.
LEMMA LaterKeeps ==
  ASSUME EvaluationsInv, NEW p \in Pipe, Topics(p) \/ Complete(p) \/ PipeFails(p)
  PROVE  EvaluationsInv'
<1>1. /\ pipes \in [Pipe -> PipeRecord] /\ PipeOK(pipes[p])
  BY TypeFacts DEF EvaluationsInv
<1>2. CASE Topics(p)
  <2>0. PICK th \in [Gated(p) -> Theme] :
          pipes' = [pipes EXCEPT
            ![p].status = "recommendations",
            ![p].theme = [s \in Submission |-> IF s \in Gated(p) THEN th[s] ELSE 0],
            ![p].topics = IF Cardinality({s \in Gated(p) : th[s] = 2}) = 0
                          THEN 1 ELSE 2]
    BY <1>2 DEF Topics
  <2> DEFINE k == IF Cardinality({s \in Gated(p) : th[s] = 2}) = 0 THEN 1 ELSE 2
  <2>1. /\ k \in {1, 2}
        /\ k = 2 => Cardinality({s \in Gated(p) : th[s] = 2}) # 0
        /\ pipes' = [pipes EXCEPT
             ![p].status = "recommendations",
             ![p].theme = [s \in Submission |-> IF s \in Gated(p) THEN th[s] ELSE 0],
             ![p].topics = k]
        /\ UNCHANGED <<term, active, rows, wipe, faults>>
    <3>1. UNCHANGED <<term, active, rows, wipe, faults>>
      BY <1>2 DEF Topics
    <3>2. k \in {1, 2} /\ (k = 2 => Cardinality({s \in Gated(p) : th[s] = 2}) # 0)
      OBVIOUS
    <3> QED BY <2>0, <3>1, <3>2
  <2> HIDE DEF k
  <2> DEFINE new == [s \in Submission |-> IF s \in Gated(p) THEN th[s] ELSE 0]
             q == [pipes[p] EXCEPT !.status = "recommendations", !.theme = new,
                                   !.topics = k]
  <2>2. \A s \in Gated(p) : pipes[p].label[s] # None /\ s \in Submission
    BY DEF Gated, Stored
  <2>3. /\ new \in [Submission -> Theme \cup {0}]
        /\ \A s \in Submission : new[s] # 0 => s \in Gated(p)
    OBVIOUS
  <2>4. k \in 0..MaxThemes
    <3>1. CASE k = 2
      <4>1. {s \in Gated(p) : th[s] = 2} # {}
        BY <2>1, <3>1, FS_EmptySet
      <4>2. 2 \in Theme
        BY <4>1
      <4> QED BY <3>1, <4>2 DEF Theme
    <3>2. CASE k = 1
      BY <3>2, Bounds
    <3> QED BY <2>1, <3>1, <3>2
  <2>5. pipes' = [pipes EXCEPT ![p] = q]
    BY <1>1, <2>1
  <2> HIDE DEF new
  <2>6. /\ q \in PipeRecord /\ q.status = "recommendations" /\ q.theme = new
        /\ q.stamp = pipes[p].stamp /\ q.label = pipes[p].label
        /\ q.covers = pipes[p].covers /\ q.term = pipes[p].term
    BY <1>1, <2>3, <2>4 DEF PipeRecord
  <2> HIDE DEF q
  <2>7. PipeOK(q)
    BY <1>1, <2>2, <2>3, <2>6 DEF PipeOK
  <2> QED BY <2>1, <2>5, <2>6, <2>7, OnePipeKeeps
<1>3. ASSUME NEW to \in {"completed", "failed"}, pipes[p].status # "none",
             pipes' = [pipes EXCEPT ![p].status = to],
             UNCHANGED <<term, active, rows, wipe, faults>>
      PROVE  EvaluationsInv'
  <2> DEFINE q == [pipes[p] EXCEPT !.status = to]
  <2>1. /\ q \in PipeRecord /\ q.status = to
        /\ q.stamp = pipes[p].stamp
        /\ q.label = pipes[p].label /\ q.theme = pipes[p].theme
        /\ q.covers = pipes[p].covers /\ q.term = pipes[p].term
    BY <1>1 DEF PipeRecord
  <2>2. pipes' = [pipes EXCEPT ![p] = q]
    BY <1>1, <1>3
  <2> HIDE DEF q
  <2>3. PipeOK(q)
    BY <1>1, <2>1 DEF PipeOK
  <2> QED BY <1>3, <2>1, <2>2, <2>3, OnePipeKeeps
<1> QED BY <1>2, <1>3 DEF Complete, PipeFails, Active

LEMMA AnalyseKeeps ==
  ASSUME EvaluationsInv, NEW p \in Pipe, Analyse(p)
  PROVE  EvaluationsInv'
<1> DEFINE stamps == {pipes[r].stamp : r \in Pipe}
<1>1. PICK l \in [pipes[p].covers -> Label] :
        /\ pipes[p].status = "sentiment" /\ pipes[p].covers \subseteq Stored
        /\ pipes' = [pipes EXCEPT
             ![p].status = "topics",
             ![p].label = [s \in Submission |->
                             IF s \in pipes[p].covers THEN l[s] ELSE None],
             ![p].stamp = 1 + Max(stamps)]
        /\ UNCHANGED <<term, active, rows, wipe, faults>>
  BY DEF Analyse
<1>2. /\ pipes \in [Pipe -> PipeRecord] /\ PipeOK(pipes[p])
      /\ \A r \in Pipe : /\ pipes[r].stamp \in 0..MaxPipes
                         /\ pipes[r].stamp <= Cardinality(Stamped)
  BY TypeFacts DEF EvaluationsInv, PipeRecord
<1>3. Max(stamps) \in 0..MaxPipes /\ Max(stamps) <= Cardinality(Stamped)
  <2>1. stamps \in SUBSET (0..MaxPipes) /\ stamps # {} /\ MaxPipes \in Nat
    BY <1>2, Bounds
  <2>2. \A x \in stamps : x <= Cardinality(Stamped)
    BY <1>2
  <2> HIDE DEF stamps
  <2>3. Max(stamps) \in stamps
    BY <2>1, MaxIsGreatest
  <2> QED BY <2>1, <2>2, <2>3
<1> DEFINE n == 1 + Max(stamps)
           new == [s \in Submission |-> IF s \in pipes[p].covers THEN l[s] ELSE None]
           q == [pipes[p] EXCEPT !.status = "topics", !.label = new, !.stamp = n]
<1>4. /\ pipes[p].stamp = 0 /\ pipes[p].covers \subseteq Submission
      /\ \A s \in Submission : pipes[p].theme[s] = 0
  BY <1>1, <1>2 DEF PipeOK, PipeRecord
<1>5. /\ new \in [Submission -> Label \cup {None}]
      /\ \A s \in Submission : new[s] # None => s \in pipes[p].covers
  BY <1>4
<1>6. n \in Nat \ {0} /\ n <= 1 + Cardinality(Stamped)
  <2> HIDE DEF stamps
  <2> QED BY <1>3, StampedIsSmall
<1>7. pipes' = [pipes EXCEPT ![p] = q]
  <2> HIDE DEF stamps
  <2> QED BY <1>1, <1>2
<1> HIDE DEF stamps, new, n
<1>8. /\ q.status = "topics" /\ q.label = new /\ q.stamp = n
      /\ q.theme = pipes[p].theme /\ q.covers = pipes[p].covers
      /\ q.term = pipes[p].term
      /\ n \in 0..MaxPipes => q \in PipeRecord
  <2>1. pipes[p] \in PipeRecord
    BY <1>2
  <2>2. q.status = "topics" /\ q.label = new /\ q.stamp = n
    BY <2>1 DEF PipeRecord
  <2>3. /\ q.theme = pipes[p].theme /\ q.covers = pipes[p].covers
        /\ q.term = pipes[p].term
    BY <2>1 DEF PipeRecord
  <2>4. ASSUME n \in 0..MaxPipes PROVE q \in PipeRecord
    BY <1>5, <2>1, <2>4 DEF PipeRecord
  <2> QED BY <2>2, <2>3, <2>4
<1> HIDE DEF q
<1>9. PipeOK(q)
  BY <1>1, <1>2, <1>4, <1>5, <1>8 DEF PipeOK
<1>10. pipes'[p] = q /\ \A r \in Pipe \ {p} : pipes'[r] = pipes[r]
  BY <1>2, <1>7
<1>11. Stamped' = Stamped \cup {p} /\ p \notin Stamped
  BY <1>4, <1>6, <1>8, <1>10 DEF Stamped
<1>12. Cardinality(Stamped') = Cardinality(Stamped) + 1
  BY <1>11, StampedIsSmall, FS_AddElement
<1>13. Cardinality(Stamped') <= MaxPipes
  <2>1. Stamped' \subseteq Pipe
    BY <1>11 DEF Stamped
  <2> QED BY <2>1, PipesAreFinite, FS_Subset
<1>14. q \in PipeRecord
  BY <1>6, <1>8, <1>12, <1>13, StampedIsSmall, Bounds
<1>15. pipes' \in [Pipe -> PipeRecord] /\ \A r \in Pipe : PipeOK(pipes'[r])
  BY <1>2, <1>7, <1>9, <1>10, <1>14 DEF EvaluationsInv
<1>16. \A r \in Pipe : PipeOK(pipes[r])'
  <2>1. Stored' = Stored /\ rows' = rows
    BY <1>1 DEF Stored
  <2>2. ASSUME NEW r \in Pipe PROVE PipeOK(pipes[r])'
    <3>1. PipeOK(pipes'[r])
      BY <1>15
    <3> QED BY <2>1, <3>1 DEF PipeOK
  <2> QED BY <2>2
<1>17. EvaluationsTypeOK'
  BY <1>1, <1>15 DEF EvaluationsInv, EvaluationsTypeOK, PipeOK, Stored
<1>18. ASSUME NEW r \in Pipe PROVE pipes'[r].stamp <= Cardinality(Stamped')
  <2>1. CASE r = p
    <3>1. pipes'[r].stamp = n
      BY <1>8, <1>10, <2>1
    <3> QED BY <1>6, <1>12, <3>1, StampedIsSmall
  <2>2. CASE r # p
    BY <1>2, <1>10, <1>12, <2>2, StampedIsSmall
  <2> QED BY <2>1, <2>2
<1> QED BY <1>16, <1>17, <1>18 DEF EvaluationsInv

\* Every other step leaves the pipelines their state and only takes marks away.
MarksTaken ==
  \A p \in Pipe :
    /\ pipes'[p].status = pipes[p].status /\ pipes'[p].own = pipes[p].own
    /\ pipes'[p].term = pipes[p].term /\ pipes'[p].covers = pipes[p].covers
    /\ pipes'[p].stamp = pipes[p].stamp
    /\ \A s \in Submission : /\ pipes'[p].label[s] \in {pipes[p].label[s], None}
                             /\ pipes'[p].theme[s] \in {pipes[p].theme[s], 0}

LEMMA RowsKeep ==
  ASSUME EvaluationsInv, MarksTaken,
         term' \in Term, active' \in [RatedType -> Version],
         rows' \in [Submission -> RowRecord], pipes' \in [Pipe -> PipeRecord],
         wipe' \in WipeRecord, faults' \in 0..MaxFaults,
         \A s \in Submission :
           rows[s].state # "none" => /\ rows'[s].state # "none"
                                     /\ rows'[s].term = rows[s].term,
         \A p \in Pipe, s \in Submission :
           pipes'[p].label[s] # None \/ pipes'[p].theme[s] # 0 => s \in Stored'
  PROVE  EvaluationsInv'
<1>1. Stamped' = Stamped
  BY DEF Stamped, MarksTaken
<1>2. \A p \in Pipe : pipes'[p].stamp <= Cardinality(Stamped')
  BY <1>1 DEF EvaluationsInv, MarksTaken
<1>3. ASSUME NEW p \in Pipe PROVE PipeOK(pipes[p])'
  <2>1. PipeOK(pipes[p])
    BY DEF EvaluationsInv
  <2>2. pipes[p].covers \subseteq Submission
    BY TypeFacts DEF PipeRecord
  <2>3. ASSUME NEW s \in Submission,
               pipes'[p].label[s] # None \/ pipes'[p].theme[s] # 0
        PROVE  s \in pipes'[p].covers /\ s \in Stored'
    BY <2>1, <2>3 DEF PipeOK, MarksTaken
  <2>4. /\ pipes'[p].covers \subseteq Cleaned(Submission)
        /\ \A s \in pipes'[p].covers : /\ rows'[s].state # "none"
                                       /\ rows'[s].term = pipes'[p].term
    BY <2>1, <2>2 DEF PipeOK, MarksTaken
  <2>5. pipes'[p].status \in {"none", "sentiment"} =>
          /\ pipes'[p].stamp = 0
          /\ \A s \in Submission : pipes'[p].label[s] = None /\ pipes'[p].theme[s] = 0
    BY <2>1 DEF PipeOK, MarksTaken
  <2>6. Cleaned(Submission)' = Cleaned(Submission)
    BY DEF Cleaned
  <2> QED BY <2>3, <2>4, <2>5, <2>6 DEF PipeOK
<1>4. EvaluationsTypeOK'
  BY <1>3 DEF EvaluationsTypeOK, PipeOK, Stored, RowRecord, WipeRecord
<1> QED BY <1>2, <1>3, <1>4 DEF EvaluationsInv

\* Where neither the pipelines nor the rows change.
LEMMA NothingKeeps ==
  ASSUME EvaluationsInv, UNCHANGED <<rows, pipes>>,
         term' \in Term, active' \in [RatedType -> Version],
         wipe' \in WipeRecord, faults' \in 0..MaxFaults
  PROVE  EvaluationsInv'
<1>1. MarksTaken
  BY DEF MarksTaken
<1>2. ASSUME NEW p \in Pipe, NEW s \in Submission,
             pipes'[p].label[s] # None \/ pipes'[p].theme[s] # 0
      PROVE  s \in Stored'
  <2>1. s \in Stored
    BY <1>2 DEF EvaluationsInv, PipeOK
  <2> QED BY <2>1 DEF Stored
<1> QED BY <1>1, <1>2, RowsKeep, TypeFacts

LEMMA PostKeeps ==
  ASSUME EvaluationsInv, NEW s \in Submission, Post(s)
  PROVE  EvaluationsInv'
<1>1. /\ rows[s].state = "none" /\ UNCHANGED <<term, active, pipes, wipe, faults>>
      /\ rows' = [rows EXCEPT ![s] =
           [state |-> "in", term |-> term, version |-> active[Sheet[s].type]]]
  BY DEF Post
<1>2. Sheet[s].type \in RatedType
  BY EvaluationsAssumption DEF EvaluationsAssumption
<1>3. [state |-> "in", term |-> term, version |-> active[Sheet[s].type]] \in RowRecord
  BY <1>2, TypeFacts DEF RowRecord
<1>4. /\ rows' \in [Submission -> RowRecord]
      /\ \A r \in Submission \ {s} : rows'[r] = rows[r]
      /\ rows'[s].state = "in"
  BY <1>1, <1>3, TypeFacts
<1>5. MarksTaken
  BY <1>1 DEF MarksTaken
<1>6. \A r \in Submission : rows[r].state # "none" => rows'[r] = rows[r]
  BY <1>1, <1>4
<1>7. Stored \subseteq Stored'
  BY <1>4 DEF Stored
<1>8. \A p \in Pipe, r \in Submission :
        pipes'[p].label[r] # None \/ pipes'[p].theme[r] # 0 => r \in Stored'
  BY <1>1, <1>7 DEF EvaluationsInv, PipeOK
<1> QED BY <1>1, <1>4, <1>5, <1>6, <1>8, RowsKeep, TypeFacts

\* The submissions of a wipe change their state, without losing a marked one.
LEMMA StatesKeep ==
  ASSUME EvaluationsInv, NEW to \in {"bare", "gone"},
         rows' = [s \in Submission |->
                    IF s \in wipe.ids THEN [rows[s] EXCEPT !.state = to] ELSE rows[s]],
         wipe' \in WipeRecord, UNCHANGED <<term, active, pipes, faults>>,
         to = "gone" => \A p \in Pipe, s \in wipe.ids :
                          pipes[p].label[s] = None /\ pipes[p].theme[s] = 0
  PROVE  EvaluationsInv'
<1>1. /\ rows \in [Submission -> RowRecord] /\ wipe.ids \subseteq Submission
  BY TypeFacts DEF WipeRecord
<1>2. \A s \in Submission : [rows[s] EXCEPT !.state = to] \in RowRecord
  BY <1>1 DEF RowRecord
<1>3. \A s \in Submission : /\ [rows[s] EXCEPT !.state = to].state = to
                            /\ [rows[s] EXCEPT !.state = to].term = rows[s].term
  BY <1>1 DEF RowRecord
<1>4. rows' \in [Submission -> RowRecord]
  BY <1>1, <1>2
<1>5. \A s \in Submission : /\ rows'[s].term = rows[s].term
                            /\ rows[s].state # "none" => rows'[s].state # "none"
  BY <1>3
<1>6. MarksTaken
  BY DEF MarksTaken
<1>7. ASSUME NEW p \in Pipe, NEW s \in Submission,
             pipes'[p].label[s] # None \/ pipes'[p].theme[s] # 0
      PROVE  s \in Stored'
  <2>1. s \in Stored
    BY <1>7 DEF EvaluationsInv, PipeOK
  <2>2. CASE s \in wipe.ids
    <3>1. rows'[s].state = "bare"
      BY <1>3, <1>7, <2>2
    <3> QED BY <3>1 DEF Stored
  <2>3. CASE s \notin wipe.ids
    BY <2>1, <2>3 DEF Stored
  <2> QED BY <2>2, <2>3
<1> QED BY <1>4, <1>5, <1>6, <1>7, RowsKeep, TypeFacts

\* A statement that takes one kind of marks away.
LEMMA TakingKeeps ==
  ASSUME EvaluationsInv, WipeAssignments \/ WipeLabels
  PROVE  EvaluationsInv' /\ MarksTaken
<1>1. /\ pipes \in [Pipe -> PipeRecord] /\ wipe \in WipeRecord
      /\ UNCHANGED <<term, active, rows, faults>>
  BY TypeFacts DEF WipeAssignments, WipeLabels
<1>2. wipe' \in WipeRecord
  BY <1>1 DEF WipeAssignments, WipeLabels, WipeRecord
<1>3. pipes' \in [Pipe -> PipeRecord] /\ MarksTaken
  <2>1. CASE WipeAssignments
    <3> DEFINE th(p) == [s \in Submission |->
                           IF s \in wipe.ids THEN 0 ELSE pipes[p].theme[s]]
               q(p) == [pipes[p] EXCEPT !.theme = th(p)]
    <3>1. pipes' = [p \in Pipe |-> q(p)]
      BY <2>1 DEF WipeAssignments
    <3>2. ASSUME NEW p \in Pipe PROVE th(p) \in [Submission -> Theme \cup {0}]
      BY <1>1 DEF PipeRecord
    <3>3. \A p \in Pipe, s \in Submission : th(p)[s] \in {pipes[p].theme[s], 0}
      OBVIOUS
    <3> HIDE DEF th
    <3>4. ASSUME NEW p \in Pipe
          PROVE  /\ q(p) \in PipeRecord /\ q(p).status = pipes[p].status
                 /\ q(p).own = pipes[p].own /\ q(p).term = pipes[p].term
                 /\ q(p).covers = pipes[p].covers /\ q(p).stamp = pipes[p].stamp
                 /\ q(p).label = pipes[p].label /\ q(p).theme = th(p)
      <4>1. pipes[p] \in PipeRecord
        BY <1>1
      <4> QED BY <3>2, <4>1 DEF PipeRecord
    <3> HIDE DEF q
    <3> QED BY <3>1, <3>3, <3>4 DEF MarksTaken
  <2>2. CASE WipeLabels
    <3> DEFINE lb(p) == [s \in Submission |->
                           IF s \in wipe.ids THEN None ELSE pipes[p].label[s]]
               q(p) == [pipes[p] EXCEPT !.label = lb(p)]
    <3>1. pipes' = [p \in Pipe |-> q(p)]
      BY <2>2 DEF WipeLabels
    <3>2. ASSUME NEW p \in Pipe PROVE lb(p) \in [Submission -> Label \cup {None}]
      BY <1>1 DEF PipeRecord
    <3>3. \A p \in Pipe, s \in Submission : lb(p)[s] \in {pipes[p].label[s], None}
      OBVIOUS
    <3> HIDE DEF lb
    <3>4. ASSUME NEW p \in Pipe
          PROVE  /\ q(p) \in PipeRecord /\ q(p).status = pipes[p].status
                 /\ q(p).own = pipes[p].own /\ q(p).term = pipes[p].term
                 /\ q(p).covers = pipes[p].covers /\ q(p).stamp = pipes[p].stamp
                 /\ q(p).theme = pipes[p].theme /\ q(p).label = lb(p)
      <4>1. pipes[p] \in PipeRecord
        BY <1>1
      <4> QED BY <3>2, <4>1 DEF PipeRecord
    <3> HIDE DEF q
    <3> QED BY <3>1, <3>3, <3>4 DEF MarksTaken
  <2> QED BY <2>1, <2>2
<1>4. ASSUME NEW p \in Pipe, NEW s \in Submission,
             pipes'[p].label[s] # None \/ pipes'[p].theme[s] # 0
      PROVE  s \in Stored'
  <2>1. s \in Stored
    BY <1>3, <1>4 DEF EvaluationsInv, PipeOK, MarksTaken
  <2> QED BY <1>1, <2>1 DEF Stored
<1> QED BY <1>1, <1>2, <1>3, <1>4, RowsKeep, TypeFacts

LEMMA WipeKeeps == ASSUME EvaluationsInv, WipeStep PROVE EvaluationsInv'
<1>1. [pc |-> "ended", ids |-> {}] \in WipeRecord
  BY DEF WipeRecord
<1>2. CASE WipeStart
  <2>1. PICK t \in Wiped, v \in Version :
          wipe' = [pc |-> "assignments",
                   ids |-> {s \in Stored : Sheet[s].type = t /\ rows[s].version = v}]
    BY <1>2 DEF WipeStart
  <2>2. wipe' \in WipeRecord /\ UNCHANGED <<term, active, rows, pipes, faults>>
    BY <1>2, <2>1 DEF WipeStart, WipeRecord, Stored
  <2> QED BY <2>2, NothingKeeps, TypeFacts
<1>3. CASE WipeAssignments \/ WipeLabels
  BY <1>3, TakingKeeps
<1>4. CASE WipeAnswers
  <2>1. wipe' \in WipeRecord
    BY <1>4, TypeFacts DEF WipeAnswers, WipeRecord
  <2> QED BY <1>4, <2>1, StatesKeep DEF WipeAnswers
<1>5. CASE WipeRows
  <2>1. wipe' \in WipeRecord /\ UNCHANGED <<term, active, pipes, faults>>
    BY <1>1, <1>5 DEF WipeRows
  <2>2. CASE \A p \in Pipe, s \in wipe.ids :
               pipes[p].label[s] = None /\ pipes[p].theme[s] = 0
    <3>1. rows' = [s \in Submission |->
            IF s \in wipe.ids THEN [rows[s] EXCEPT !.state = "gone"] ELSE rows[s]]
      BY <1>5, <2>2 DEF WipeRows
    <3> QED BY <2>1, <2>2, <3>1, StatesKeep
  <2>3. CASE ~\A p \in Pipe, s \in wipe.ids :
                pipes[p].label[s] = None /\ pipes[p].theme[s] = 0
    <3>1. UNCHANGED rows
      BY <1>5, <2>3 DEF WipeRows
    <3> QED BY <2>1, <3>1, NothingKeeps, TypeFacts
  <2> QED BY <2>2, <2>3
<1>6. CASE WipeStops
  <2>1. faults' \in 0..MaxFaults
    BY <1>6, TypeFacts, Bounds DEF WipeStops
  <2> QED BY <1>1, <1>6, <2>1, NothingKeeps, TypeFacts DEF WipeStops
<1> QED BY <1>2, <1>3, <1>4, <1>5, <1>6 DEF WipeStep

LEMMA EvaluationsKept == ASSUME EvaluationsInv, RowsStep PROVE EvaluationsInv'
<1>1. CASE NextTerm
  <2>1. term' \in Term
    BY <1>1, TypeFacts, Bounds DEF NextTerm, Term
  <2> QED BY <1>1, <2>1, NothingKeeps, TypeFacts DEF NextTerm
<1>2. CASE \E t \in Versioned : Publish(t)
  <2>1. PICK t \in Versioned : Publish(t)
    BY <1>2
  <2>2. t \in RatedType
    BY EvaluationsAssumption DEF EvaluationsAssumption
  <2>3. active[t] \in Version /\ active[t] + 1 \in Version
    BY <2>1, <2>2, TypeFacts, Bounds DEF Publish, Version
  <2>4. active' \in [RatedType -> Version]
    BY <2>1, <2>3, TypeFacts DEF Publish
  <2> QED BY <2>1, <2>4, NothingKeeps, TypeFacts DEF Publish
<1>3. CASE \E s \in Submission : Post(s)
  BY <1>3, PostKeeps
<1>4. CASE WipeStep
  BY <1>4, WipeKeeps
<1>5. CASE \E p \in Pipe : PipeStep(p) \/ Complete(p)
  BY <1>5, DispatchKeeps, LaterKeeps, AnalyseKeeps DEF PipeStep
<1>6. CASE /\ faults < MaxFaults /\ faults' = faults + 1
           /\ UNCHANGED <<term, active, rows, pipes, wipe>>
  <2>1. faults' \in 0..MaxFaults
    BY <1>6, TypeFacts, Bounds
  <2> QED BY <1>6, <2>1, NothingKeeps, TypeFacts
<1>7. CASE UNCHANGED evaluations
  BY <1>7, NothingKeeps, TypeFacts DEF evaluations
<1> QED BY <1>1, <1>2, <1>3, <1>4, <1>5, <1>6, <1>7 DEF RowsStep, EvaluationsStep

\* How far a wipe has come: the statements of it that have run.
Rank(pc) ==
  CASE pc \in {"idle", "assignments"} -> 0
    [] pc = "labels" -> 1
    [] pc = "answers" -> 2
    [] pc = "rows" -> 3
    [] OTHER -> 4

\* What a pipeline with labels keeps in a step, and what a completed one keeps
\* as long as no statement of a wipe runs.
Kept(p) ==
  /\ pipes[p].status \notin {"none", "sentiment"} =>
       /\ pipes'[p].status \notin {"none", "sentiment"}
       /\ pipes'[p].own = pipes[p].own /\ pipes'[p].term = pipes[p].term
       /\ pipes'[p].covers = pipes[p].covers /\ pipes'[p].stamp = pipes[p].stamp
       /\ \A s \in Submission : pipes'[p].label[s] \in {pipes[p].label[s], None}
  /\ pipes[p].status \in {"recommendations", "completed", "failed"} =>
       pipes'[p].status \in {"recommendations", "completed", "failed"}
  /\ pipes[p].status = "completed" => pipes'[p].status = "completed"
  /\ pipes[p].status = "completed" /\ Rank(wipe'.pc) = Rank(wipe.pc) =>
       pipes'[p].label = pipes[p].label /\ pipes'[p].theme = pipes[p].theme

LEMMA WipeGoesOn ==
  ASSUME EvaluationsInv, RowsStep
  PROVE  /\ Rank(wipe.pc) \in Nat /\ Rank(wipe'.pc) \in Nat
         /\ Rank(wipe.pc) <= Rank(wipe'.pc)
<1>1. wipe \in WipeRecord
  BY TypeFacts
<1>2. CASE WipeStep
  <2>1. CASE WipeStart
    <3>1. wipe.pc = "idle" /\ wipe'.pc = "assignments"
      BY <2>1 DEF WipeStart
    <3> QED BY <3>1 DEF Rank
  <2>2. CASE WipeAssignments
    <3>1. wipe.pc = "assignments" /\ wipe'.pc = "labels"
      BY <1>1, <2>2 DEF WipeAssignments, WipeRecord
    <3> QED BY <3>1 DEF Rank
  <2>3. CASE WipeLabels
    <3>1. wipe.pc = "labels" /\ wipe'.pc = "answers"
      BY <1>1, <2>3 DEF WipeLabels, WipeRecord
    <3> QED BY <3>1 DEF Rank
  <2>4. CASE WipeAnswers
    <3>1. wipe.pc = "answers" /\ wipe'.pc = "rows"
      BY <1>1, <2>4 DEF WipeAnswers, WipeRecord
    <3> QED BY <3>1 DEF Rank
  <2>5. CASE WipeRows \/ WipeStops
    <3>1. wipe.pc \in {"labels", "answers", "rows"} /\ wipe'.pc = "ended"
      BY <2>5 DEF WipeRows, WipeStops
    <3> QED BY <3>1 DEF Rank
  <2> QED BY <1>2, <2>1, <2>2, <2>3, <2>4, <2>5 DEF WipeStep
<1>3. CASE UNCHANGED wipe
  BY <1>1, <1>3 DEF Rank, WipeRecord
<1>4. CASE \E p \in Pipe : PipeStep(p) \/ Complete(p)
  <2>1. UNCHANGED wipe
    <3>1. PICK p \in Pipe : PipeStep(p) \/ Complete(p)
      BY <1>4
    <3>2. CASE Dispatch(p)
      BY <3>2 DEF Dispatch
    <3>3. CASE Analyse(p)
      BY <3>3 DEF Analyse
    <3>4. CASE Topics(p)
      BY <3>4 DEF Topics
    <3>5. CASE PipeFails(p) \/ Complete(p)
      BY <3>5 DEF PipeFails, Complete
    <3> QED BY <3>1, <3>2, <3>3, <3>4, <3>5 DEF PipeStep
  <2> QED BY <1>3, <2>1
<1>5. CASE \/ NextTerm
           \/ \E t \in Versioned : Publish(t)
           \/ \E s \in Submission : Post(s)
  <2>1. UNCHANGED wipe
    BY <1>5 DEF NextTerm, Publish, Post
  <2> QED BY <1>3, <2>1
<1>6. CASE \/ UNCHANGED evaluations
           \/ UNCHANGED <<term, active, rows, pipes, wipe>>
  BY <1>3, <1>6 DEF evaluations
<1>7. CASE EvaluationsStep
  <2>1. CASE WipeStep
    BY <1>2, <2>1
  <2>2. CASE \E r \in Pipe : PipeStep(r)
    BY <1>4, <2>2
  <2>3. CASE NextTerm
    BY <1>5, <2>3
  <2>4. CASE \E t \in Versioned : Publish(t)
    BY <1>5, <2>4
  <2>5. CASE \E s \in Submission : Post(s)
    BY <1>5, <2>5
  <2> QED BY <1>7, <2>1, <2>2, <2>3, <2>4, <2>5 DEF EvaluationsStep
<1> QED BY <1>4, <1>6, <1>7 DEF RowsStep

LEMMA PipesKept ==
  ASSUME EvaluationsInv, RowsStep, NEW p \in Pipe
  PROVE  Kept(p)
<1>1. pipes \in [Pipe -> PipeRecord] /\ wipe \in WipeRecord
  BY TypeFacts
<1>2. CASE UNCHANGED pipes
  BY <1>2 DEF Kept
<1>3. CASE WipeStep
  <2>1. CASE WipeAssignments \/ WipeLabels
    <3>1. MarksTaken
      BY <2>1, TakingKeeps
    <3>2. Rank(wipe.pc) # Rank(wipe'.pc)
      <4>1. \/ wipe.pc = "assignments" /\ wipe'.pc = "labels"
            \/ wipe.pc = "labels" /\ wipe'.pc = "answers"
        BY <1>1, <2>1 DEF WipeAssignments, WipeLabels, WipeRecord
      <4> QED BY <4>1 DEF Rank
    <3> QED BY <3>1, <3>2 DEF Kept, MarksTaken
  <2>2. CASE WipeStart \/ WipeAnswers \/ WipeRows \/ WipeStops
    BY <1>2, <2>2 DEF WipeStart, WipeAnswers, WipeRows, WipeStops
  <2> QED BY <1>3, <2>1, <2>2 DEF WipeStep
<1>4. ASSUME NEW r \in Pipe, PipeStep(r) \/ Complete(r)
      PROVE  Kept(p)
  <2>1. CASE p # r
    <3>1. pipes'[p] = pipes[p]
      BY <1>1, <1>4, <2>1 DEF PipeStep, Complete, Dispatch, Analyse, Topics, PipeFails
    <3> QED BY <3>1 DEF Kept
  <2>2. CASE p = r /\ (Dispatch(r) \/ Analyse(r))
    <3>1. pipes[p].status \in {"none", "sentiment"}
      BY <2>2 DEF Dispatch, Analyse
    <3> QED BY <3>1 DEF Kept
  <2>3. CASE p = r /\ Topics(r)
    <3>1. /\ pipes[p].status = "topics" /\ pipes'[p].status = "recommendations"
          /\ pipes'[p].own = pipes[p].own /\ pipes'[p].term = pipes[p].term
          /\ pipes'[p].covers = pipes[p].covers /\ pipes'[p].stamp = pipes[p].stamp
          /\ pipes'[p].label = pipes[p].label
      <4>1. pipes[p].status = "topics" /\ pipes[p] \in PipeRecord
        BY <1>1, <2>3 DEF Topics
      <4>2. PICK new, k : pipes' = [pipes EXCEPT ![p].status = "recommendations",
                                                 ![p].theme = new, ![p].topics = k]
        BY <2>3 DEF Topics
      <4>3. pipes'[p] = [pipes[p] EXCEPT !.status = "recommendations",
                                         !.theme = new, !.topics = k]
        BY <1>1, <4>2
      <4> QED BY <4>1, <4>3 DEF PipeRecord
    <3> QED BY <3>1 DEF Kept
  <2>4. CASE p = r /\ (Complete(r) \/ PipeFails(r))
    <3>1. /\ pipes[p].status \in {"sentiment", "topics", "recommendations"}
          /\ pipes'[p].status \in {"completed", "failed"}
          /\ pipes'[p].own = pipes[p].own /\ pipes'[p].term = pipes[p].term
          /\ pipes'[p].covers = pipes[p].covers /\ pipes'[p].stamp = pipes[p].stamp
          /\ pipes'[p].label = pipes[p].label
      BY <1>1, <2>4 DEF Complete, PipeFails, Active, PipeRecord
    <3> QED BY <3>1 DEF Kept
  <2> QED BY <1>4, <2>1, <2>2, <2>3, <2>4 DEF PipeStep
<1>5. CASE \/ NextTerm
           \/ \E t \in Versioned : Publish(t)
           \/ \E s \in Submission : Post(s)
  BY <1>2, <1>5 DEF NextTerm, Publish, Post
<1>6. CASE \/ UNCHANGED evaluations
           \/ UNCHANGED <<term, active, rows, pipes, wipe>>
  BY <1>2, <1>6 DEF evaluations
<1>7. CASE EvaluationsStep
  <2>1. CASE WipeStep
    BY <1>3, <2>1
  <2>2. CASE \E r \in Pipe : PipeStep(r)
    BY <1>4, <2>2
  <2>3. CASE NextTerm
    BY <1>5, <2>3
  <2>4. CASE \E t \in Versioned : Publish(t)
    BY <1>5, <2>4
  <2>5. CASE \E s \in Submission : Post(s)
    BY <1>5, <2>5
  <2> QED BY <1>7, <2>1, <2>2, <2>3, <2>4, <2>5 DEF EvaluationsStep
<1> QED BY <1>4, <1>6, <1>7 DEF RowsStep

-----------------------------------------------------------------------------
(* The evidence of recommendations and the drill-down of FacultyReport.    *)

LEMMA SubmissionsAreFinite ==
  \A S \in SUBSET Submission : IsFiniteSet(S) /\ Cardinality(S) \in Nat
BY FS_Subset, FS_CardinalityType, EvaluationsAssumption DEF EvaluationsAssumption

LEMMA SmallerSet ==
  ASSUME NEW T \in SUBSET Submission, NEW S \in SUBSET T
  PROVE  Cardinality(S) <= Cardinality(T)
BY SubmissionsAreFinite, FS_Subset

\* The labels of a split are of different submissions.
LEMMA SplitBounded ==
  ASSUME NEW S \in SUBSET Submission, NEW T \in SUBSET Submission, NEW label,
         \A s \in S : label[s] \in Kind => s \in T
  PROVE  /\ Breakdown(label, S) \in [Kind -> Nat]
         /\ Total(Breakdown(label, S)) \in Nat
         /\ Total(Breakdown(label, S)) <= Cardinality(T)
<1> DEFINE of(k) == {s \in S : label[s] = k}
           pos == of("positive")  neu == of("neutral")  neg == of("negative")
<1>1. /\ Breakdown(label, S) = [k \in Kind |-> Cardinality(of(k))]
      /\ Total(Breakdown(label, S))
           = Cardinality(pos) + Cardinality(neu) + Cardinality(neg)
  BY DEF Breakdown, Total, Kind
<1>2. \A k \in Kind : of(k) \subseteq T /\ of(k) \in SUBSET Submission
  BY DEF Kind
<1>3. /\ pos \subseteq T /\ neu \subseteq T /\ neg \subseteq T
      /\ pos \cap neu = {} /\ (pos \cup neu) \cap neg = {}
  BY DEF Kind
<1>4. \A k \in Kind : Cardinality(of(k)) \in Nat
  BY <1>2, SubmissionsAreFinite
<1>5. "positive" \in Kind /\ "neutral" \in Kind /\ "negative" \in Kind
  BY DEF Kind
<1>6. /\ Cardinality(pos) \in Nat /\ Cardinality(neu) \in Nat /\ Cardinality(neg) \in Nat
      /\ IsFiniteSet(pos) /\ IsFiniteSet(neu) /\ IsFiniteSet(neg)
  BY <1>3, SubmissionsAreFinite
<1>7. \A k \in Kind : Breakdown(label, S)[k] \in Nat
  BY <1>1, <1>4
<1> HIDE DEF pos, neu, neg
<1>8. Cardinality(pos \cup neu) = Cardinality(pos) + Cardinality(neu)
  <2>1. Cardinality(pos \cap neu) = 0
    BY <1>3, FS_EmptySet
  <2>2. Cardinality(pos \cup neu)
          = Cardinality(pos) + Cardinality(neu) - Cardinality(pos \cap neu)
    BY <1>6, FS_Union
  <2> QED BY <1>6, <2>1, <2>2
<1>9. /\ IsFiniteSet(pos \cup neu)
      /\ Cardinality((pos \cup neu) \cup neg)
           = Cardinality(pos \cup neu) + Cardinality(neg)
  <2>1. IsFiniteSet(pos \cup neu)
    BY <1>6, FS_Union
  <2>2. Cardinality((pos \cup neu) \cap neg) = 0
    BY <1>3, FS_EmptySet
  <2>3. Cardinality((pos \cup neu) \cup neg)
          = Cardinality(pos \cup neu) + Cardinality(neg)
              - Cardinality((pos \cup neu) \cap neg)
    BY <1>6, <2>1, FS_Union
  <2> QED BY <1>6, <1>8, <2>1, <2>2, <2>3
<1>10. Cardinality((pos \cup neu) \cup neg) <= Cardinality(T)
  BY <1>3, SmallerSet
<1> QED BY <1>1, <1>4, <1>6, <1>8, <1>9, <1>10

GenRecord ==
  [step : {"ids", "labels", "evidence", "done"}, ids : SUBSET Submission,
   seen : [Submission -> Label \cup {None}],
   told : SUBSET [of : Nat, comments : Nat, split : [Kind -> Nat],
                  facet : RatedType \cup {"overall"},
                  confidence : {"LOW", "MEDIUM", "HIGH"}]]

\* The evidence has no more labels than comments, and no more comments than ids.
AddsUp(g) ==
  \A e \in g.told : /\ Total(e.split) <= e.comments
                    /\ e.comments <= Cardinality(g.ids)

\* What Generate holds while its pipeline goes on: every label it has read, and
\* before that every label there is, is of a submission among its ids.
GenOK(g, q) ==
  /\ g.step # "ids" => q.status \in {"recommendations", "completed", "failed"}
  /\ g.step # "done" => g.told = {}
  /\ g.step = "labels" => \A s \in Submission : q.label[s] # None => s \in g.ids
  /\ g.step \in {"evidence", "done"} =>
       \A s \in Submission : g.seen[s] # None => s \in g.ids
  /\ AddsUp(g)

\* What a reader has on the screen was true of a completed pipeline, and is until
\* a statement of a wipe runs.
ReaderOK ==
  LET p == reader.pipe IN
  p # 0 =>
    /\ p \in Pipe /\ pipes[p].status = "completed"
    /\ Rank(reader.wiped) \in Nat /\ Rank(reader.wiped) <= Rank(wipe.pc)
    /\ Rank(reader.wiped) = Rank(wipe.pc) =>
         /\ \A th \in Theme : reader.counts[th] = ThemeCount(p, th)
         /\ reader.split = Distribution(p)

ReportInv ==
  /\ EvaluationsInv
  /\ gen \in [Pipe -> GenRecord]
  /\ \A p \in Pipe : GenOK(gen[p], pipes[p])
  /\ reader.wiped \in {"idle", "assignments", "labels", "answers", "rows", "ended"}
  /\ ReaderOK

LEMMA ReportStart == Init => ReportInv
<1> SUFFICES ASSUME Init PROVE ReportInv
  OBVIOUS
<1>1. EvaluationsInv
  BY EvaluationsStart DEF Init
<1>2. /\ NoGen \in GenRecord /\ NoGen.step = "ids" /\ NoGen.told = {}
  BY DEF NoGen, GenRecord
<1>3. gen \in [Pipe -> GenRecord] /\ \A p \in Pipe : gen[p] = NoGen
  BY <1>2 DEF Init
<1>4. \A q : GenOK(NoGen, q)
  BY <1>2 DEF GenOK, AddsUp
<1>5. reader.wiped = "idle" /\ reader.pipe = 0
  BY DEF Init, NoReader
<1> QED BY <1>1, <1>3, <1>4, <1>5 DEF ReportInv, ReaderOK

LEMMA ReportSteps == Next \/ UNCHANGED vars => RowsStep
BY DEF Next, RowsStep, Finish, GenerateIds, GenerateLabels, GenerateEvidence,
       OpenSummary, CloseSummary, vars, evaluations

\* The steps of the rows leave Generate and the reader right.
LEMMA GenStays ==
  ASSUME ReportInv, RowsStep, NEW p \in Pipe, gen'[p] = gen[p]
  PROVE  GenOK(gen'[p], pipes'[p])
<1>1. GenOK(gen[p], pipes[p]) /\ Kept(p)
  BY PipesKept DEF ReportInv
<1>2. CASE gen[p].step = "ids"
  BY <1>1, <1>2 DEF GenOK
<1>3. CASE gen[p].step # "ids"
  <2>1. pipes[p].status \in {"recommendations", "completed", "failed"}
    BY <1>1, <1>3 DEF GenOK
  <2>2. /\ pipes'[p].status \in {"recommendations", "completed", "failed"}
        /\ \A s \in Submission : pipes'[p].label[s] \in {pipes[p].label[s], None}
    BY <1>1, <2>1 DEF Kept
  <2> QED BY <1>1, <2>2 DEF GenOK
<1> QED BY <1>2, <1>3

LEMMA ReaderStays ==
  ASSUME ReportInv, RowsStep, UNCHANGED reader
  PROVE  ReaderOK'
<1> DEFINE p == reader.pipe
<1> SUFFICES ASSUME p # 0
             PROVE  /\ p \in Pipe /\ pipes'[p].status = "completed"
                    /\ Rank(reader.wiped) \in Nat /\ Rank(reader.wiped) <= Rank(wipe'.pc)
                    /\ Rank(reader.wiped) = Rank(wipe'.pc) =>
                         /\ \A th \in Theme : reader.counts[th] = ThemeCount(p, th)'
                         /\ reader.split = Distribution(p)'
  BY DEF ReaderOK
<1>1. /\ p \in Pipe /\ pipes[p].status = "completed"
      /\ Rank(reader.wiped) \in Nat /\ Rank(reader.wiped) <= Rank(wipe.pc)
      /\ Rank(reader.wiped) = Rank(wipe.pc) =>
           /\ \A th \in Theme : reader.counts[th] = ThemeCount(p, th)
           /\ reader.split = Distribution(p)
  BY DEF ReportInv, ReaderOK
<1>2. /\ Rank(wipe.pc) \in Nat /\ Rank(wipe'.pc) \in Nat
      /\ Rank(wipe.pc) <= Rank(wipe'.pc)
      /\ Kept(p)
  BY <1>1, WipeGoesOn, PipesKept DEF ReportInv
<1>3. pipes'[p].status = "completed"
  BY <1>1, <1>2 DEF Kept
<1>4. ASSUME Rank(reader.wiped) = Rank(wipe'.pc)
      PROVE  /\ \A th \in Theme : reader.counts[th] = ThemeCount(p, th)'
             /\ reader.split = Distribution(p)'
  <2>1. Rank(reader.wiped) = Rank(wipe.pc) /\ Rank(wipe'.pc) = Rank(wipe.pc)
    BY <1>1, <1>2, <1>4
  <2>2. pipes'[p].label = pipes[p].label /\ pipes'[p].theme = pipes[p].theme
    BY <1>1, <1>2, <2>1 DEF Kept
  <2>3. \A th \in Theme : ThemeCount(p, th)' = ThemeCount(p, th)
    BY <2>2 DEF ThemeCount
  <2>4. Distribution(p)' = Distribution(p)
    BY <2>2 DEF Distribution, Breakdown
  <2> QED BY <1>1, <2>1, <2>3, <2>4
<1> QED BY <1>1, <1>2, <1>3, <1>4

LEMMA LatestIsCompleted ==
  ASSUME NEW m, LatestCompleted(m) # 0
  PROVE  LatestCompleted(m) \in Pipe /\ pipes[LatestCompleted(m)].status = "completed"
<1> DEFINE done == {p \in Pipe : /\ pipes[p].own /\ pipes[p].term = m
                                 /\ pipes[p].status = "completed"}
<1>1. done # {} /\ LatestCompleted(m) = Max(done)
  BY DEF LatestCompleted
<1>2. done \in SUBSET (0..MaxPipes) /\ MaxPipes \in Nat
  BY Bounds DEF Pipe
<1>3. Max(done) \in done
  <2> HIDE DEF done
  <2> QED BY <1>1, <1>2, MaxIsGreatest
<1> QED BY <1>1, <1>3

\* A step of Generate: only the entry of p changes, and neither rows nor reader.
LEMMA GenKeeps ==
  ASSUME ReportInv, NEW p \in Pipe, NEW g \in GenRecord, gen' = [gen EXCEPT ![p] = g],
         GenOK(g, pipes[p]), UNCHANGED <<evaluations, reader>>
  PROVE  ReportInv'
<1>1. RowsStep
  BY DEF RowsStep
<1>2. EvaluationsInv'
  BY <1>1, EvaluationsKept DEF ReportInv
<1>3. /\ gen' \in [Pipe -> GenRecord] /\ gen'[p] = g
      /\ \A r \in Pipe \ {p} : gen'[r] = gen[r]
  BY DEF ReportInv
<1>4. pipes' = pipes
  BY DEF evaluations
<1>5. \A r \in Pipe : GenOK(gen'[r], pipes'[r])
  BY <1>3, <1>4 DEF ReportInv
<1>6. ReaderOK'
  BY <1>1, ReaderStays
<1>7. \A r \in Pipe : GenOK(gen[r], pipes[r])'
  <2>1. ASSUME NEW r \in Pipe PROVE GenOK(gen[r], pipes[r])'
    BY <1>5 DEF GenOK, AddsUp
  <2> QED BY <2>1
<1> QED BY <1>2, <1>3, <1>6, <1>7 DEF ReportInv

LEMMA IdsKeep ==
  ASSUME ReportInv, NEW p \in Pipe, GenerateIds(p)
  PROVE  ReportInv'
<1> DEFINE read == {s \in Cleaned(Stored) : rows[s].term = pipes[p].term}
           g == [gen[p] EXCEPT !.step = "labels", !.ids = read]
<1>1. /\ gen \in [Pipe -> GenRecord] /\ gen[p] \in GenRecord
      /\ GenOK(gen[p], pipes[p]) /\ PipeOK(pipes[p])
  BY DEF ReportInv, EvaluationsInv
<1>2. read \in SUBSET Submission
  BY DEF Cleaned, Stored
<1>3. \A s \in Submission : pipes[p].label[s] # None => s \in read
  BY <1>1 DEF PipeOK, Cleaned, Stored
<1>4. gen' = [gen EXCEPT ![p] = g]
  BY <1>1 DEF GenerateIds
<1> HIDE DEF read
<1>5. g \in GenRecord
  BY <1>1, <1>2 DEF GenRecord
<1>6. /\ g.step = "labels" /\ g.ids = read
      /\ g.told = gen[p].told /\ g.seen = gen[p].seen
  BY <1>1 DEF GenRecord
<1>7. gen[p].step = "ids" /\ pipes[p].status = "recommendations"
  BY DEF GenerateIds
<1> HIDE DEF g
<1>8. g.told = {}
  BY <1>1, <1>6, <1>7 DEF GenOK
<1>9. GenOK(g, pipes[p])
  BY <1>3, <1>6, <1>7, <1>8 DEF GenOK, AddsUp
<1> QED BY <1>4, <1>5, <1>9, GenKeeps DEF GenerateIds

LEMMA LabelsKeep ==
  ASSUME ReportInv, NEW p \in Pipe, GenerateLabels(p)
  PROVE  ReportInv'
<1> DEFINE g == [gen[p] EXCEPT !.step = "evidence", !.seen = pipes[p].label]
<1>1. /\ gen \in [Pipe -> GenRecord] /\ gen[p] \in GenRecord
      /\ GenOK(gen[p], pipes[p])
      /\ pipes[p].label \in [Submission -> Label \cup {None}]
  BY TypeFacts DEF ReportInv, PipeRecord
<1>2. gen' = [gen EXCEPT ![p] = g]
  BY <1>1 DEF GenerateLabels
<1>3. g \in GenRecord
  BY <1>1 DEF GenRecord
<1>4. /\ g.step = "evidence" /\ g.ids = gen[p].ids
      /\ g.told = gen[p].told /\ g.seen = pipes[p].label
  BY <1>1 DEF GenRecord
<1>5. gen[p].step = "labels" /\ pipes[p].status = "recommendations"
  BY DEF GenerateLabels
<1> HIDE DEF g
<1>6. g.told = {}
  BY <1>1, <1>4, <1>5 DEF GenOK
<1>7. GenOK(g, pipes[p])
  BY <1>1, <1>4, <1>5, <1>6 DEF GenOK, AddsUp
<1> QED BY <1>2, <1>3, <1>7, GenKeeps DEF GenerateLabels

\* An entry of the evidence, about n comments.
Entries == [of : Nat, comments : Nat, split : [Kind -> Nat],
            facet : RatedType \cup {"overall"}, confidence : {"LOW", "MEDIUM", "HIGH"}]

LEMMA EntryType ==
  ASSUME NEW of \in Nat, NEW n \in Nat, NEW split \in [Kind -> Nat],
         NEW facet \in RatedType \cup {"overall"}
  PROVE  /\ Entry(of, n, split, facet) \in Entries
         /\ Entry(of, n, split, facet).split = split
         /\ Entry(of, n, split, facet).comments = n
<1>1. Confidence(n, split) \in {"LOW", "MEDIUM", "HIGH"}
  <2>1. CASE n < MinComments
    BY <2>1 DEF Confidence
  <2>2. CASE ~(n < MinComments)
    <3>1. n >= MinComments
      BY <2>2, FacultyReportAssumption DEF FacultyReportAssumption
    <3> QED BY <2>2, <3>1 DEF Confidence
  <2> QED BY <2>1, <2>2
<1> QED BY <1>1 DEF Entry, Entries

LEMMA FacetType == ASSUME NEW S PROVE Facet(S) \in RatedType \cup {"overall"}
BY DEF Facet

LEMMA EvidenceRight ==
  ASSUME ReportInv, NEW p \in Pipe, gen[p].step = "evidence", NEW e \in Evidence(p)
  PROVE  /\ e \in Entries
         /\ Total(e.split) <= e.comments
         /\ e.comments <= Cardinality(gen[p].ids)
<1> DEFINE ids == gen[p].ids
           seen == gen[p].seen
<1>1. /\ ids \in SUBSET Submission
      /\ \A s \in Submission : seen[s] # None => s \in ids
  BY DEF ReportInv, GenRecord, GenOK
<1>2. \A s \in Submission : seen[s] \in Kind => s \in ids
  BY <1>1 DEF Kind, None
<1>3. CASE e = GeneralEntry(p)
  <2>1. /\ Breakdown(seen, Submission) \in [Kind -> Nat]
        /\ Total(Breakdown(seen, Submission)) <= Cardinality(ids)
    BY <1>1, <1>2, SplitBounded
  <2>2. Cardinality(ids) \in Nat
    BY <1>1, SubmissionsAreFinite
  <2>3. e = Entry(0, Cardinality(ids), Breakdown(seen, Submission), "overall")
    BY <1>3 DEF GeneralEntry
  <2> HIDE DEF ids, seen
  <2>4. /\ e \in Entries /\ e.comments = Cardinality(ids)
        /\ e.split = Breakdown(seen, Submission)
    BY <2>1, <2>2, <2>3, EntryType
  <2> QED BY <2>1, <2>2, <2>4 DEF ids
<1>4. ASSUME NEW th \in 1..pipes[p].topics, e = ThemeEntry(p, th)
      PROVE  /\ e \in Entries /\ Total(e.split) <= e.comments
             /\ e.comments <= Cardinality(ids)
  <2> DEFINE S == Assigned(p, th) \cap ids
  <2>1. S \in SUBSET Submission /\ S \subseteq ids
    BY <1>1
  <2>2. e = Entry(th, Cardinality(S), Breakdown(seen, S), Facet(S))
    BY <1>4 DEF ThemeEntry
  <2> HIDE DEF S, ids, seen
  <2>3. /\ Breakdown(seen, S) \in [Kind -> Nat]
        /\ Total(Breakdown(seen, S)) <= Cardinality(S)
    BY <2>1, SplitBounded
  <2>4. Cardinality(S) \in Nat
    BY <2>1, SubmissionsAreFinite
  <2>5. th \in Nat /\ Facet(S) \in RatedType \cup {"overall"}
    BY FacetType
  <2>6. /\ e \in Entries /\ e.comments = Cardinality(S)
        /\ e.split = Breakdown(seen, S)
    BY <2>2, <2>3, <2>4, <2>5, EntryType
  <2>7. Cardinality(S) <= Cardinality(ids)
    BY <1>1, <2>1, SmallerSet
  <2> QED BY <2>3, <2>6, <2>7
<1> QED BY <1>3, <1>4 DEF Evidence

LEMMA EvidenceKeeps ==
  ASSUME ReportInv, NEW p \in Pipe, GenerateEvidence(p)
  PROVE  ReportInv'
<1> DEFINE g == [gen[p] EXCEPT !.step = "done", !.told = Evidence(p)]
<1>1. /\ gen \in [Pipe -> GenRecord] /\ gen[p] \in GenRecord
      /\ GenOK(gen[p], pipes[p])
      /\ gen[p].step = "evidence" /\ pipes[p].status = "recommendations"
  BY DEF ReportInv, GenerateEvidence
<1>2. /\ Evidence(p) \in SUBSET Entries
      /\ \A e \in Evidence(p) : /\ Total(e.split) <= e.comments
                                /\ e.comments <= Cardinality(gen[p].ids)
  BY <1>1, EvidenceRight
<1>3. gen' = [gen EXCEPT ![p] = g]
  BY <1>1 DEF GenerateEvidence
<1>4. g \in GenRecord
  BY <1>1, <1>2 DEF GenRecord, Entries
<1>5. /\ g.step = "done" /\ g.ids = gen[p].ids
      /\ g.told = Evidence(p) /\ g.seen = gen[p].seen
  BY <1>1 DEF GenRecord
<1> HIDE DEF g
<1>6. GenOK(g, pipes[p])
  BY <1>1, <1>2, <1>5 DEF GenOK, AddsUp
<1> QED BY <1>3, <1>4, <1>6, GenKeeps DEF GenerateEvidence

\* What a reader opens or closes.
LEMMA ReaderKeeps ==
  ASSUME ReportInv, CloseSummary \/ \E m \in Term : OpenSummary(m)
  PROVE  ReportInv'
<1>1. UNCHANGED <<evaluations, gen>>
  BY DEF CloseSummary, OpenSummary
<1>2. RowsStep
  BY <1>1 DEF RowsStep
<1>3. /\ EvaluationsInv' /\ gen' \in [Pipe -> GenRecord]
      /\ \A p \in Pipe : GenOK(gen[p], pipes[p])'
  <2>1. \A p \in Pipe : GenOK(gen'[p], pipes'[p])
    BY <1>1, <1>2, GenStays
  <2>2. ASSUME NEW p \in Pipe PROVE GenOK(gen[p], pipes[p])'
    BY <2>1 DEF GenOK, AddsUp
  <2> QED BY <1>1, <1>2, <2>2, EvaluationsKept DEF ReportInv
<1>4. CASE CloseSummary
  <2>1. reader'.pipe = 0 /\ reader'.wiped = "idle"
    BY <1>4 DEF CloseSummary, NoReader
  <2> QED BY <1>3, <2>1 DEF ReportInv, ReaderOK
<1>5. ASSUME NEW m \in Term, OpenSummary(m)
      PROVE  ReportInv'
  <2>0. LatestCompleted(m) \in Pipe /\ pipes[LatestCompleted(m)].status = "completed"
    BY <1>5, LatestIsCompleted DEF OpenSummary
  <2>1. PICK p \in Pipe : p = LatestCompleted(m) /\ pipes[p].status = "completed"
    BY <2>0
  <2>2. /\ reader'.pipe = p /\ reader'.wiped = wipe.pc
        /\ reader'.counts = [th \in Theme |-> ThemeCount(p, th)]
        /\ reader'.split = Distribution(p)
    BY <1>5, <2>1 DEF OpenSummary
  <2>3. pipes' = pipes /\ wipe' = wipe
    BY <1>1 DEF evaluations
  <2>4. wipe.pc \in {"idle", "assignments", "labels", "answers", "rows", "ended"}
    BY TypeFacts DEF ReportInv, WipeRecord
  <2>5. Rank(wipe.pc) \in Nat
    BY <2>4 DEF Rank
  <2>6. /\ \A th \in Theme : reader'.counts[th] = ThemeCount(p, th)'
        /\ reader'.split = Distribution(p)'
    <3>1. \A th \in Theme : ThemeCount(p, th)' = ThemeCount(p, th)
      BY <2>3 DEF ThemeCount
    <3>2. Distribution(p)' = Distribution(p)
      BY <2>3 DEF Distribution, Breakdown
    <3> QED BY <2>2, <3>1, <3>2
  <2>7. ReaderOK'
    BY <2>1, <2>2, <2>3, <2>5, <2>6 DEF ReaderOK
  <2> QED BY <1>3, <2>2, <2>4, <2>7 DEF ReportInv
<1> QED BY <1>4, <1>5

LEMMA ReportKept == ReportInv /\ [Next]_vars => ReportInv'
<1> SUFFICES ASSUME ReportInv, [Next]_vars PROVE ReportInv'
  OBVIOUS
<1>1. RowsStep
  BY ReportSteps
<1>2. ASSUME UNCHANGED <<gen, reader>> PROVE ReportInv'
  <2>1. \A p \in Pipe : GenOK(gen'[p], pipes'[p])
    BY <1>1, <1>2, GenStays
  <2>2. ASSUME NEW p \in Pipe PROVE GenOK(gen[p], pipes[p])'
    BY <2>1 DEF GenOK, AddsUp
  <2>3. ReaderOK'
    BY <1>1, <1>2, ReaderStays
  <2> QED BY <1>1, <1>2, <2>2, <2>3, EvaluationsKept DEF ReportInv
<1>3. CASE UNCHANGED vars
  BY <1>2, <1>3 DEF vars
<1>4. CASE Next
  BY <1>2, <1>4, IdsKeep, LabelsKeep, EvidenceKeeps, ReaderKeeps DEF Next, Finish
<1> QED BY <1>3, <1>4

LEMMA ReportInvAlways == Spec => []ReportInv
<1>1. Init => ReportInv
  BY ReportStart
<1>2. ReportInv /\ [Next]_vars => ReportInv'
  BY ReportKept
<1> QED BY <1>1, <1>2, PTL DEF Spec

\* The numbers of a recommendation's evidence add up, whatever is posted or wiped
\* while RecommendationGenerationService reads the ids, then the labels, then the
\* assignments of the topics.
THEOREM EvidenceAddsUpCorrect == Spec => []EvidenceAddsUp
<1>1. ReportInv => EvidenceAddsUp
  BY DEF ReportInv, GenOK, AddsUp, EvidenceAddsUp
<1> QED BY <1>1, ReportInvAlways, PTL

LEMMA IntactIsRank ==
  ASSUME ReportInv, Intact
  PROVE  Rank(reader.wiped) = Rank(wipe.pc)
<1>1. CASE wipe.pc = reader.wiped
  BY <1>1
<1>2. CASE {wipe.pc, reader.wiped} \subseteq {"idle", "assignments"}
  BY <1>2 DEF Rank
<1> QED BY <1>1, <1>2 DEF Intact

\* All types' comments under a mark are those that have it: what is marked is
\* stored, of the pipeline's semester, and has a comment.
LEMMA ListedAreMarked ==
  ASSUME EvaluationsInv, NEW p \in Pipe, LatestCompleted(pipes[p].term) = p
  PROVE  /\ \A th \in Theme :
              UNION {ThemeComments(t, pipes[p].term, th) : t \in RatedType}
                = {s \in Submission : pipes[p].theme[s] = th}
         /\ \A l \in Label :
              UNION {SentimentComments(t, pipes[p].term, l) : t \in RatedType}
                = {s \in Submission : pipes[p].label[s] = l}
<1> DEFINE m == pipes[p].term
<1>1. p # 0 /\ PipeOK(pipes[p])
  BY Bounds DEF EvaluationsInv, Pipe
<1>2. \A s \in Submission : Sheet[s].type \in RatedType
  BY EvaluationsAssumption DEF EvaluationsAssumption
<1>3. ASSUME NEW s \in Submission, pipes[p].label[s] # None \/ pipes[p].theme[s] # 0
      PROVE  \E t \in RatedType : s \in Commented(Filed(t, m))
  <2>1. s \in Stored /\ rows[s].term = m /\ s \in Cleaned(Submission)
    BY <1>1, <1>3 DEF PipeOK
  <2>2. Sheet[s].comment # "none"
    BY <2>1 DEF Cleaned
  <2> QED BY <1>2, <2>1, <2>2 DEF Commented, Filed
<1>4. \A t : Commented(Filed(t, m)) \subseteq Submission
  BY DEF Commented, Filed, Stored
<1>5. \A th \in Theme : th # 0
  BY DEF Theme
<1>6. \A l \in Label : l # None
  BY EvaluationsAssumption DEF EvaluationsAssumption, Kind, None
<1>7. ASSUME NEW th \in Theme
      PROVE  UNION {ThemeComments(t, m, th) : t \in RatedType}
               = {s \in Submission : pipes[p].theme[s] = th}
  <2>1. \A t : ThemeComments(t, m, th)
                 = {s \in Commented(Filed(t, m)) : pipes[p].theme[s] = th}
    BY <1>1 DEF ThemeComments
  <2> QED BY <1>3, <1>4, <1>5, <2>1
<1>8. ASSUME NEW l \in Label
      PROVE  UNION {SentimentComments(t, m, l) : t \in RatedType}
               = {s \in Submission : pipes[p].label[s] = l}
  <2>1. \A t : SentimentComments(t, m, l)
                 = {s \in Commented(Filed(t, m)) : pipes[p].label[s] = l}
    BY <1>1 DEF SentimentComments
  <2> QED BY <1>3, <1>4, <1>6, <2>1
<1> QED BY <1>7, <1>8

\* From the qualitative summary to the comments behind it: with no newer completed
\* pipeline and no statement of a wipe since, the lists are as long as the counts,
\* for any submissions, pipelines and semesters, and whatever is posted meanwhile.
THEOREM DrillDownCorrect == Spec => []DrillDownAgrees
<1>1. ReportInv => DrillDownAgrees
  <2> SUFFICES ASSUME ReportInv PROVE DrillDownAgrees
    OBVIOUS
  <2> DEFINE p == reader.pipe
  <2>1. ASSUME p # 0, LatestCompleted(pipes[p].term) = p, Intact
        PROVE  /\ \A th \in Theme :
                    reader.counts[th] = Cardinality(
                      UNION {ThemeComments(t, pipes[p].term, th) : t \in RatedType})
               /\ \A l \in Label :
                    reader.split[l] = Cardinality(
                      UNION {SentimentComments(t, pipes[p].term, l) : t \in RatedType})
    <3>1. p \in Pipe /\ Rank(reader.wiped) = Rank(wipe.pc)
      BY <2>1, IntactIsRank DEF ReportInv, ReaderOK
    <3>2. /\ \A th \in Theme : reader.counts[th] = ThemeCount(p, th)
          /\ reader.split = Distribution(p)
      BY <2>1, <3>1 DEF ReportInv, ReaderOK
    <3>3. \A l \in Label :
            reader.split[l] = Cardinality({s \in Submission : pipes[p].label[s] = l})
      <4>1. Label \subseteq Kind
        BY EvaluationsAssumption DEF EvaluationsAssumption
      <4> QED BY <3>2, <4>1 DEF Distribution, Breakdown
    <3>4. \A th \in Theme :
            reader.counts[th] = Cardinality({s \in Submission : pipes[p].theme[s] = th})
      BY <3>2 DEF ThemeCount
    <3>5. EvaluationsInv
      BY DEF ReportInv
    <3> HIDE DEF p
    <3>6. /\ \A th \in Theme :
               UNION {ThemeComments(t, pipes[p].term, th) : t \in RatedType}
                 = {s \in Submission : pipes[p].theme[s] = th}
          /\ \A l \in Label :
               UNION {SentimentComments(t, pipes[p].term, l) : t \in RatedType}
                 = {s \in Submission : pipes[p].label[s] = l}
      BY <2>1, <3>1, <3>5, ListedAreMarked
    <3> QED BY <3>3, <3>4, <3>6
  <2> QED BY <2>1 DEF DrillDownAgrees
<1> QED BY <1>1, ReportInvAlways, PTL

-----------------------------------------------------------------------------
(* The trend: the sign of a slope.                                         *)

\* One more point adds this to the slope.
LEMMA SlopeGrows ==
  ASSUME NEW n \in Int, NEW a \in Int, NEW b \in Int, NEW c \in Int, NEW y \in Int
  PROVE  (n + 1) * (c + (n + 1) * y) - (a + (n + 1)) * (b + y)
           = (n * c - a * b) + (y * ((n + 1) * n - a) - (n + 1) * b + c)
<1>1. /\ (n + 1) * (c + (n + 1) * y) = n * c + c + (n + 1) * (n + 1) * y
      /\ (a + (n + 1)) * (b + y) = a * b + a * y + (n + 1) * b + (n + 1) * y
      /\ y * ((n + 1) * n - a) = (n + 1) * n * y - a * y
      /\ (n + 1) * (n + 1) * y = (n + 1) * n * y + (n + 1) * y
  OBVIOUS
<1> QED BY <1>1

\* A difference of two points adds to that what is not negative.
LEMMA DifferenceGrows ==
  ASSUME NEW n \in Int, NEW k \in Int, NEW a \in Int, NEW b \in Int, NEW c \in Int,
         NEW y \in Int, NEW z \in Int
  PROVE  y * ((n + 1) * k - (a + k)) - (n + 1) * (b + z) + (c + k * z)
           = (y * ((n + 1) * (k - 1) - a) - (n + 1) * b + c) + (n + 1 - k) * (y - z)
<1>1. /\ y * ((n + 1) * k - (a + k)) = (n + 1) * k * y - a * y - k * y
      /\ (n + 1) * (b + z) = (n + 1) * b + (n + 1) * z
      /\ y * ((n + 1) * (k - 1) - a) = (n + 1) * k * y - (n + 1) * y - a * y
      /\ (n + 1 - k) * (y - z) = (n + 1) * y - (n + 1) * z - k * y + k * z
  OBVIOUS
<1> QED BY <1>1

\* What holds at 0 and goes on from each number to the next holds up to n: the
\* numbers where it does not would have a least one.
LEMMA UpTo ==
  ASSUME NEW n \in Nat, NEW Good, 0 \in Good,
         \A k \in 1..n : k - 1 \in Good => k \in Good
  PROVE  0..n \subseteq Good
<1> DEFINE Bad == (0..n) \ Good
<1> SUFFICES ASSUME Bad # {} PROVE FALSE
  OBVIOUS
<1>1. Bad \in SUBSET Nat
  OBVIOUS
<1>2. PICK k \in Bad : \A y \in Bad : k <= y
  <2> HIDE DEF Bad
  <2> QED BY <1>1, LeastOf
<1>3. k \in 1..n /\ k - 1 \in 0..n
  BY <1>1
<1>4. k - 1 \in Good
  BY <1>2, <1>3
<1> QED BY <1>3, <1>4

\* The sums of the points 1..n, of their ordinals, values and products.
Points(n, y, a, b, c) ==
  /\ y \in [1..n -> Int]
  /\ a \in [0..n -> Int] /\ b \in [0..n -> Int] /\ c \in [0..n -> Int]
  /\ a[0] = 0 /\ b[0] = 0 /\ c[0] = 0
  /\ \A k \in 1..n : /\ a[k] = a[k - 1] + k
                     /\ b[k] = b[k - 1] + y[k]
                     /\ c[k] = c[k - 1] + k * y[k]

Rises(n, y) == \A k \in 2..n : y[k - 1] <= y[k]

LEMMA RisesUpTo ==
  ASSUME NEW n \in Nat, NEW y \in [1..n -> Int], Rises(n, y), NEW m \in 1..n
  PROVE  \A k \in 1..m : y[k] <= y[m]
<1> DEFINE Good == {d \in Nat : m - d \in 1..m => y[m - d] <= y[m]}
<1>1. 0 \in Good
  OBVIOUS
<1>2. ASSUME NEW d \in 1..m, d - 1 \in Good PROVE d \in Good
  <2> SUFFICES ASSUME m - d \in 1..m PROVE y[m - d] <= y[m]
    OBVIOUS
  <2>1. m - (d - 1) \in 2..n /\ (m - (d - 1)) - 1 = m - d /\ m - (d - 1) \in 1..m
    OBVIOUS
  <2>2. y[m - d] <= y[m - (d - 1)]
    BY <2>1 DEF Rises
  <2>3. y[m - (d - 1)] <= y[m]
    BY <1>2, <2>1
  <2>4. y[m - d] \in Int /\ y[m - (d - 1)] \in Int /\ y[m] \in Int
    BY <2>1
  <2> QED BY <2>2, <2>3, <2>4
<1>3. 0..m \subseteq Good
  <2>1. m \in Nat
    OBVIOUS
  <2> HIDE DEF Good
  <2> QED BY <1>1, <1>2, <2>1, UpTo
<1>4. ASSUME NEW k \in 1..m PROVE y[k] <= y[m]
  <2>1. m - k \in 0..m /\ m - (m - k) = k
    OBVIOUS
  <2>2. m - k \in Good
    BY <1>3, <2>1
  <2> QED BY <2>1, <2>2
<1> QED BY <1>4

\* Values that only rise have no negative slope.
LEMMA SlopeOfRises ==
  ASSUME NEW n \in Nat, NEW y, NEW a, NEW b, NEW c, Points(n, y, a, b, c), Rises(n, y)
  PROVE  n * c[n] - a[n] * b[n] >= 0
<1> DEFINE D(m) == m * c[m] - a[m] * b[m]
           G(m, k) == y[m] * (m * k - a[k]) - m * b[k] + c[k]
           Good == {m \in Nat : m \in 0..n => D(m) >= 0}
<1>1. 0 \in Good
  BY DEF Points
<1>2. ASSUME NEW m \in 1..n, m - 1 \in Good PROVE m \in Good
  <2> DEFINE Fine == {k \in Nat : k \in 0..(m - 1) => G(m, k) >= 0}
  <2>1. 0 \in Fine
    <3>1. a[0] = 0 /\ b[0] = 0 /\ c[0] = 0 /\ y[m] \in Int
      BY DEF Points
    <3>2. y[m] * (m * 0 - 0) - m * 0 + 0 = 0
      BY <3>1
    <3> QED BY <3>1, <3>2
  <2>2. ASSUME NEW k \in 1..(m - 1), k - 1 \in Fine PROVE k \in Fine
    <3>0. k \in 1..n /\ k - 1 \in 0..n /\ k \in 1..m
      OBVIOUS
    <3>1. /\ y[m] \in Int /\ y[k] \in Int /\ y[k] <= y[m]
      <4>1. y \in [1..n -> Int]
        BY DEF Points
      <4> QED BY <3>0, <4>1, RisesUpTo
    <3>2. /\ a[k - 1] \in Int /\ b[k - 1] \in Int /\ c[k - 1] \in Int
          /\ a[k] = a[k - 1] + k /\ b[k] = b[k - 1] + y[k]
          /\ c[k] = c[k - 1] + k * y[k]
      BY <3>0 DEF Points
    <3>3. G(m, k) = G(m, k - 1) + (m - k) * (y[m] - y[k])
      <4>1. m - 1 \in Int /\ (m - 1) + 1 = m /\ k \in Int
        OBVIOUS
      <4> QED BY <3>1, <3>2, <4>1, DifferenceGrows
    <3>4. G(m, k - 1) >= 0
      BY <2>2
    <3>5. (m - k) * (y[m] - y[k]) >= 0
      <4>1. m - k \in Nat /\ y[m] - y[k] \in Nat
        BY <3>1
      <4> QED BY <4>1
    <3>6. G(m, k - 1) \in Int /\ (m - k) * (y[m] - y[k]) \in Int
      BY <3>1, <3>2
    <3> HIDE DEF G
    <3> QED BY <3>3, <3>4, <3>5, <3>6
  <2>3. m - 1 \in Fine
    <3> HIDE DEF Fine
    <3>1. 0..(m - 1) \subseteq Fine /\ m - 1 \in Nat
      BY <2>1, <2>2, UpTo
    <3> QED BY <3>1
  <2>4. G(m, m - 1) >= 0 /\ D(m - 1) >= 0
    BY <1>2, <2>3
  <2>5. /\ a[m - 1] \in Int /\ b[m - 1] \in Int /\ c[m - 1] \in Int /\ y[m] \in Int
        /\ a[m] = a[m - 1] + m /\ b[m] = b[m - 1] + y[m]
        /\ c[m] = c[m - 1] + m * y[m]
    BY DEF Points
  <2>6. D(m) = D(m - 1) + G(m, m - 1)
    <3>1. m - 1 \in Int /\ (m - 1) + 1 = m
      OBVIOUS
    <3> QED BY <2>5, <3>1, SlopeGrows
  <2>7. D(m - 1) \in Int /\ G(m, m - 1) \in Int
    BY <2>5
  <2> HIDE DEF D, G
  <2> QED BY <2>4, <2>6, <2>7
<1>3. 0..n \subseteq Good
  <2> HIDE DEF Good
  <2> QED BY <1>1, <1>2, UpTo
<1> QED BY <1>3

LEMMA TimesMinus ==
  \A k, z \in Int : k * (-z) = -(k * z) /\ k * z \in Int
OBVIOUS

\* And values that only fall have no positive one.
LEMMA SlopeOfFalls ==
  ASSUME NEW n \in Nat, NEW y, NEW a, NEW b, NEW c, Points(n, y, a, b, c),
         \A k \in 2..n : y[k] <= y[k - 1]
  PROVE  n * c[n] - a[n] * b[n] <= 0
<1> DEFINE yy == [k \in 1..n |-> -y[k]]
           bb == [k \in 0..n |-> -b[k]]
           cc == [k \in 0..n |-> -c[k]]
<1>1. ASSUME NEW k \in 1..n PROVE k * (-y[k]) = -(k * y[k]) /\ k * y[k] \in Int
  <2>1. y[k] \in Int
    BY DEF Points
  <2> QED BY <2>1, TimesMinus
<1>2. Points(n, yy, a, bb, cc)
  <2>1. /\ yy \in [1..n -> Int] /\ bb \in [0..n -> Int] /\ cc \in [0..n -> Int]
        /\ bb[0] = 0 /\ cc[0] = 0
    BY DEF Points
  <2>2. ASSUME NEW k \in 1..n
        PROVE  bb[k] = bb[k - 1] + yy[k] /\ cc[k] = cc[k - 1] + k * yy[k]
    <3>1. /\ b[k] = b[k - 1] + y[k] /\ c[k] = c[k - 1] + k * y[k]
          /\ b[k - 1] \in Int /\ c[k - 1] \in Int /\ y[k] \in Int
      BY DEF Points
    <3>2. yy[k] = -y[k] /\ bb[k - 1] = -b[k - 1] /\ cc[k - 1] = -c[k - 1]
      OBVIOUS
    <3>3. k * yy[k] = -(k * y[k]) /\ k * y[k] \in Int
      BY <1>1, <3>2
    <3>4. bb[k] = -b[k] /\ cc[k] = -c[k]
      OBVIOUS
    <3> HIDE DEF yy, bb, cc
    <3> QED BY <3>1, <3>2, <3>3, <3>4
  <2> HIDE DEF yy, bb, cc
  <2> QED BY <2>1, <2>2 DEF Points
<1>3. Rises(n, yy)
  <2>1. ASSUME NEW k \in 2..n PROVE yy[k - 1] <= yy[k]
    <3>1. k \in 1..n /\ k - 1 \in 1..n
      OBVIOUS
    <3>2. yy[k - 1] = -y[k - 1] /\ yy[k] = -y[k]
      BY <3>1
    <3>3. y[k - 1] \in Int /\ y[k] \in Int /\ y[k] <= y[k - 1]
      BY <3>1 DEF Points
    <3> HIDE DEF yy
    <3> QED BY <3>2, <3>3
  <2> QED BY <2>1 DEF Rises
<1>4. n * cc[n] - a[n] * bb[n] >= 0
  <2> HIDE DEF yy, bb, cc
  <2> QED BY <1>2, <1>3, SlopeOfRises
<1>5. a[n] \in Int /\ b[n] \in Int /\ c[n] \in Int
  BY DEF Points
<1>6. n * (-c[n]) = -(n * c[n]) /\ a[n] * (-b[n]) = -(a[n] * b[n])
  BY <1>5, TimesMinus
<1>7. n * c[n] \in Int /\ a[n] * b[n] \in Int
  BY <1>5
<1> QED BY <1>4, <1>5, <1>6, <1>7

\* A total over the points 1..n is a sum up to n: there is nothing behind it.
LEMMA TotalIs ==
  ASSUME NEW n \in 0..MaxTerm, NEW f, \A m \in 1..n : f[m] \in Int
  PROVE  \E s \in [0..n -> Int] :
           /\ s[0] = 0
           /\ \A k \in 1..n : s[k] = s[k - 1] + f[k]
           /\ s[n] = SumTo([m \in Term |-> IF m \in 1..n THEN f[m] ELSE 0], MaxTerm)
<1> DEFINE F == [m \in Term |-> IF m \in 1..n THEN f[m] ELSE 0]
           s == [k \in 0..n |-> SumTo(F, k)]
           Good == {d \in Nat : n + d <= MaxTerm => SumTo(F, n + d) = SumTo(F, n)}
<1>1. MaxTerm \in Nat /\ n \in Nat /\ n <= MaxTerm /\ Term = 1..MaxTerm
  BY Bounds DEF Term
<1>2. /\ \A k \in 1..MaxTerm : F[k] \in Int
      /\ \A k \in 1..n : F[k] = f[k]
      /\ \A k \in (n + 1)..MaxTerm : F[k] = 0
  BY <1>1
<1> HIDE DEF F
<1>3. /\ SumTo(F, 0) = 0
      /\ \A k \in 0..MaxTerm : SumTo(F, k) \in Int
      /\ \A k \in 1..MaxTerm : SumTo(F, k) = SumTo(F, k - 1) + F[k]
  BY <1>1, <1>2, SumToRule
<1>4. 0 \in Good
  BY <1>1
<1>5. ASSUME NEW d \in 1..(MaxTerm - n), d - 1 \in Good PROVE d \in Good
  <2>1. n + d \in (n + 1)..MaxTerm /\ n + d \in 1..MaxTerm /\ (n + d) - 1 = n + (d - 1)
    BY <1>1
  <2>2. SumTo(F, n + d) = SumTo(F, n + (d - 1)) + 0
    BY <1>2, <1>3, <2>1
  <2>3. SumTo(F, n + (d - 1)) = SumTo(F, n) /\ SumTo(F, n) \in Int
    BY <1>1, <1>3, <1>5
  <2> QED BY <2>2, <2>3
<1>6. SumTo(F, MaxTerm) = SumTo(F, n)
  <2>1. MaxTerm - n \in Nat
    BY <1>1
  <2>2. 0..(MaxTerm - n) \subseteq Good
    <3> HIDE DEF Good
    <3> QED BY <1>4, <1>5, <2>1, UpTo
  <2>3. MaxTerm - n \in Good /\ n + (MaxTerm - n) = MaxTerm
    BY <1>1, <2>1, <2>2
  <2> QED BY <2>1, <2>3
<1>7. /\ s \in [0..n -> Int] /\ s[0] = 0 /\ s[n] = SumTo(F, MaxTerm)
      /\ \A k \in 1..n : s[k] = s[k - 1] + f[k]
  <2>1. \A k \in 0..n : k \in 0..MaxTerm
    BY <1>1
  <2>2. ASSUME NEW k \in 1..n PROVE s[k] = s[k - 1] + f[k]
    <3>1. k \in 1..MaxTerm /\ k \in 0..n /\ k - 1 \in 0..n
      BY <1>1
    <3>2. s[k] = SumTo(F, k) /\ s[k - 1] = SumTo(F, k - 1)
      BY <3>1
    <3> QED BY <1>2, <1>3, <3>1, <3>2
  <2> QED BY <1>1, <1>3, <1>6, <2>1, <2>2
<1> QED BY <1>7 DEF F

\* The slope of a fit has the sign of the changes from point to point.
LEMMA FitHasTheSign ==
  ASSUME NEW n \in 0..MaxTerm, NEW y \in [1..n -> Int]
  PROVE  LET fit == Fit(1..n, [m \in 1..n |-> m], y) IN
         /\ fit.slope \in Int
         /\ Rises(n, y) => fit.slope >= 0
         /\ (\A k \in 2..n : y[k] <= y[k - 1]) => fit.slope <= 0
<1> DEFINE x == [m \in 1..n |-> m]
           xy == [m \in 1..n |-> x[m] * y[m]]
           yy == [m \in 1..n |-> y[m] * y[m]]
           xx == [m \in 1..n |-> x[m] * x[m]]
           T(f) == SumTo([m \in Term |-> IF m \in 1..n THEN f[m] ELSE 0], MaxTerm)
           slope == n * T(xy) - T(x) * T(y)
           yspread == n * T(yy) - T(y) * T(y)
           xspread == n * T(xx) - T(x) * T(x)
<1>1. n \in Nat /\ Cardinality(1..n) = n
  BY FS_Interval, Bounds
<1>2. Fit(1..n, x, y) =
        CASE n < 2 -> [slope |-> 0, num |-> 0, den |-> 0]
          [] n >= 2 /\ yspread = 0 -> [slope |-> 0, num |-> 1, den |-> 1]
          [] OTHER -> [slope |-> slope, num |-> slope * slope, den |-> xspread * yspread]
  BY <1>1 DEF Fit
<1>3. /\ \A m \in 1..n : x[m] \in Int /\ y[m] \in Int
      /\ \A m \in 1..n : xy[m] = m * y[m] /\ xy[m] \in Int
  <2>1. ASSUME NEW m \in 1..n PROVE xy[m] = m * y[m] /\ xy[m] \in Int
    <3>1. xy[m] = m * y[m] /\ m \in Int /\ y[m] \in Int
      OBVIOUS
    <3> QED BY <3>1, TimesMinus
  <2> QED BY <2>1
<1>4. PICK a \in [0..n -> Int] : /\ a[0] = 0 /\ \A k \in 1..n : a[k] = a[k - 1] + x[k]
                                 /\ a[n] = T(x)
  <2> HIDE DEF x
  <2> QED BY <1>3, TotalIs
<1>5. PICK b \in [0..n -> Int] : /\ b[0] = 0 /\ \A k \in 1..n : b[k] = b[k - 1] + y[k]
                                 /\ b[n] = T(y)
  BY <1>3, TotalIs
<1>6. PICK c \in [0..n -> Int] : /\ c[0] = 0 /\ \A k \in 1..n : c[k] = c[k - 1] + xy[k]
                                 /\ c[n] = T(xy)
  <2> HIDE DEF xy
  <2> QED BY <1>3, TotalIs
<1>7. Points(n, y, a, b, c)
  <2>1. \A k \in 1..n : a[k] = a[k - 1] + k /\ c[k] = c[k - 1] + k * y[k]
    BY <1>3, <1>4, <1>6
  <2> QED BY <1>4, <1>5, <1>6, <2>1 DEF Points
<1> HIDE DEF x, xy, T
<1>8. slope = n * c[n] - a[n] * b[n]
  BY <1>4, <1>5, <1>6
<1>9. /\ slope \in Int
      /\ Rises(n, y) => slope >= 0
      /\ (\A k \in 2..n : y[k] <= y[k - 1]) => slope <= 0
  <2>1. n * c[n] - a[n] * b[n] \in Int
    <3>1. n \in Int /\ c[n] \in Int /\ a[n] \in Int /\ b[n] \in Int
      BY <1>1
    <3> QED BY <3>1
  <2> HIDE DEF slope
  <2> QED BY <1>1, <1>7, <1>8, <2>1, SlopeOfRises, SlopeOfFalls
<1> HIDE DEF slope, xspread, yspread
<1>10. Fit(1..n, x, y).slope \in {0, slope}
  BY <1>2
<1> QED BY <1>9, <1>10 DEF x

-----------------------------------------------------------------------------
(* Dashboards.                                                             *)

StatsRow(r) ==
  /\ r.submissions \in Nat /\ r.comments \in Nat /\ r.analyzed \in Nat /\ r.score \in Int
  /\ r.analyzed <= r.comments /\ r.comments <= r.submissions

\* Up to the last of the semesters with a row, if all before it have one too,
\* the ordinals are the semesters.
LEMMA WholeIsAll ==
  ASSUME NEW st, \A m \in Term : st[m].submissions \in Nat,
         NEW n, n = Cardinality({m \in Term : st[m].submissions > 0}),
         \A m \in 2..n : st[m].submissions > 0 /\ st[m - 1].submissions > 0,
         n >= 2
  PROVE  /\ n \in 0..MaxTerm /\ {m \in Term : st[m].submissions > 0} = 1..n
         /\ \A m \in 1..n : Ordinal(st, m) = m
<1> DEFINE known == {m \in Term : st[m].submissions > 0}
<1>1. /\ MaxTerm \in Nat /\ IsFiniteSet(Term) /\ Cardinality(Term) = MaxTerm
      /\ Term = 1..MaxTerm
  BY FS_Interval, Bounds DEF Term
<1>2. /\ IsFiniteSet(known) /\ n \in Nat /\ n <= MaxTerm
  <2>1. known \subseteq Term
    OBVIOUS
  <2> QED BY <1>1, <2>1, FS_Subset, FS_CardinalityType
<1>3. \A m \in 1..n : m \in Term /\ st[m].submissions > 0
  <2>1. ASSUME NEW m \in 1..n PROVE st[m].submissions > 0
    <3>1. CASE m = 1
      <4>1. 2 \in 2..n /\ 2 - 1 = 1
        BY <1>2
      <4> QED BY <3>1, <4>1
    <3>2. CASE m # 1
      BY <3>2
    <3> QED BY <3>1, <3>2
  <2>2. \A m \in 1..n : m \in Term
    BY <1>1, <1>2
  <2> QED BY <2>1, <2>2
<1>4. known = 1..n
  <2>1. 1..n \subseteq known
    BY <1>3
  <2>2. Cardinality(1..n) = n /\ IsFiniteSet(1..n)
    BY <1>2, FS_Interval
  <2>3. Cardinality(known) = n
    OBVIOUS
  <2> HIDE DEF known
  <2> QED BY <1>2, <2>1, <2>2, <2>3, FS_Subset
<1>5. ASSUME NEW m \in 1..n PROVE Ordinal(st, m) = m
  <2>1. {k \in 1..m : st[k].submissions > 0} = 1..m
    BY <1>2, <1>3
  <2>2. Cardinality(1..m) = m
    BY <1>2, FS_Interval
  <2> QED BY <2>1, <2>2 DEF Ordinal
<1> QED BY <1>2, <1>4, <1>5

\* A trend computed from the stats does not contradict them.
LEMMA TrendsAgree ==
  ASSUME \A m \in Term : StatsRow(stats[m]), trends = TrendsOf(stats)
  PROVE  SignsAgree
<1> DEFINE known == {m \in Term : stats[m].submissions > 0}
           n == Cardinality(known)
           ordinal == [m \in known |-> Ordinal(stats, m)]
           y == [m \in known |-> stats[m].score]
           fit == Fit(known, ordinal, y)
<1>1. trends.semesters = n /\ trends.score = fit
  BY DEF TrendsOf
<1>2. n \in Nat
  <2>1. IsFiniteSet(Term) /\ known \subseteq Term
    BY FS_Interval, Bounds DEF Term
  <2> QED BY <2>1, FS_Subset, FS_CardinalityType
<1>3. ASSUME \A m \in 2..n : HasDelta(m)
      PROVE  /\ fit.slope \in Int
             /\ (\A m \in 2..n : ScoreDelta(m) >= 0) => fit.slope >= 0
             /\ (\A m \in 2..n : ScoreDelta(m) <= 0) => fit.slope <= 0
  <2>1. CASE n < 2
    <3>1. fit.slope = 0
      <4>1. Cardinality(known) < 2
        BY <2>1
      <4> HIDE DEF known
      <4>2. fit = [slope |-> 0, num |-> 0, den |-> 0]
        BY <4>1, <1>2 DEF Fit
      <4> HIDE DEF fit
      <4> QED BY <4>2
    <3> HIDE DEF fit
    <3> QED BY <3>1
  <2>2. CASE n >= 2
    <3>1. /\ n \in 0..MaxTerm /\ known = 1..n
          /\ \A m \in 1..n : Ordinal(stats, m) = m
      <4>1. \A m \in Term : stats[m].submissions \in Nat
        BY DEF StatsRow
      <4>2. \A m \in 2..n : stats[m].submissions > 0 /\ stats[m - 1].submissions > 0
        BY <1>3 DEF HasDelta
      <4> QED BY <2>2, <4>1, <4>2, WholeIsAll
    <3>2. ordinal = [m \in 1..n |-> m]
      BY <3>1
    <3>3. y \in [1..n -> Int] /\ \A m \in 1..n : y[m] = stats[m].score
      <4>1. \A m \in known : stats[m].score \in Int
        BY DEF StatsRow
      <4> QED BY <3>1, <4>1
    <3>4. \A m \in 2..n : /\ m \in 1..n /\ m - 1 \in 1..n
                          /\ ScoreDelta(m) = y[m] - y[m - 1]
      <4>1. ASSUME NEW m \in 2..n
            PROVE  /\ m \in 1..n /\ m - 1 \in 1..n
                   /\ ScoreDelta(m) = y[m] - y[m - 1]
        <5>1. m \in 1..n /\ m - 1 \in 1..n
          BY <1>2
        <5> QED BY <3>3, <5>1 DEF ScoreDelta
      <4> QED BY <4>1
    <3> HIDE DEF known, n, ordinal, y
    <3>5. fit = Fit(1..n, [m \in 1..n |-> m], y)
      BY <3>1, <3>2
    <3>6. /\ fit.slope \in Int
          /\ Rises(n, y) => fit.slope >= 0
          /\ (\A k \in 2..n : y[k] <= y[k - 1]) => fit.slope <= 0
      BY <3>1, <3>3, <3>5, FitHasTheSign
    <3>7. (\A m \in 2..n : ScoreDelta(m) >= 0) => Rises(n, y)
      BY <3>3, <3>4 DEF Rises
    <3>8. (\A m \in 2..n : ScoreDelta(m) <= 0) => \A k \in 2..n : y[k] <= y[k - 1]
      BY <3>3, <3>4
    <3> HIDE DEF fit
    <3> QED BY <3>6, <3>7, <3>8
  <2> QED BY <1>2, <2>1, <2>2
<1> HIDE DEF fit
<1>4. ASSUME fit.slope \in Int
      PROVE  /\ fit.slope >= 0 => TrendDirection # "declining"
             /\ fit.slope <= 0 => TrendDirection # "improving"
             /\ TrendDirection = "declining" => Declining(trends.score)
  <2>1. trends.semesters < MinSemesters \/ ~(trends.semesters < MinSemesters)
    OBVIOUS
  <2>2. ~(trends.semesters < MinSemesters) => trends.semesters >= MinSemesters
    BY <1>1, <1>2, DashboardsAssumption DEF DashboardsAssumption
  <2> HIDE DEF n
  <2>3. CASE trends.semesters < MinSemesters \/ ~Significant(trends.score)
    BY <2>3 DEF TrendDirection
  <2>4. CASE ~(trends.semesters < MinSemesters \/ ~Significant(trends.score))
    BY <1>1, <1>4, <2>2, <2>4 DEF TrendDirection, Declining
  <2> QED BY <2>3, <2>4
<1>5. Declining(trends.score) => \A m \in Term : "declining_trend" \in Attention(m)
  BY DEF Attention
<1> HIDE DEF n
<1>6. (\A m \in 2..n : HasDelta(m)) =>
        /\ (\A m \in 2..n : ScoreDelta(m) >= 0) => TrendDirection # "declining"
        /\ (\A m \in 2..n : ScoreDelta(m) <= 0) => TrendDirection # "improving"
        /\ TrendDirection = "declining" =>
             \A m \in Term : "declining_trend" \in Attention(m)
  BY <1>3, <1>4, <1>5
<1> QED BY <1>6 DEF SignsAgree, n, known

\* What the completed pipelines of a semester cover.
Covered(m) ==
  UNION {pipes[p].covers : p \in {q \in Pipe : /\ pipes[q].status = "completed"
                                               /\ pipes[q].term = m}}

LEMMA LatestIsASource ==
  ASSUME EvaluationsInv, NEW s \in Submission, Sources(s) # {}
  PROVE  \E p \in Sources(s) : LatestLabel(s) = pipes[p].label[s]
<1> DEFINE stamps == {pipes[p].stamp : p \in Sources(s)}
           last == CHOOSE p \in Sources(s) :
                     \A q \in Sources(s) : pipes[q].stamp <= pipes[p].stamp
<1>1. stamps \in SUBSET (0..MaxPipes) /\ stamps # {} /\ MaxPipes \in Nat
  <2>1. \A p \in Pipe : pipes[p].stamp \in 0..MaxPipes
    BY TypeFacts DEF PipeRecord
  <2> QED BY <2>1, Bounds DEF Sources
<1>2. Max(stamps) \in stamps /\ \A x \in stamps : x <= Max(stamps)
  <2> HIDE DEF stamps
  <2> QED BY <1>1, MaxIsGreatest
<1>3. \E p \in Sources(s) : \A q \in Sources(s) : pipes[q].stamp <= pipes[p].stamp
  BY <1>2
<1>4. last \in Sources(s)
  BY <1>3
<1> QED BY <1>4 DEF LatestLabel

\* A label that a view counts is of a comment of its semester, and of a pipeline
\* that completed.
LEMMA CountedIsRight ==
  ASSUME EvaluationsInv, NEW s \in Submission, LatestLabel(s) \in Kind
  PROVE  s \in Covered(rows[s].term) /\ Sheet[s].comment # "none"
<1>1. Sources(s) # {}
  BY DEF LatestLabel, Kind, None
<1>2. PICK p \in Sources(s) : LatestLabel(s) = pipes[p].label[s]
  BY <1>1, LatestIsASource
<1>3. /\ p \in Pipe /\ pipes[p].status = "completed" /\ pipes[p].label[s] # None
      /\ PipeOK(pipes[p])
  BY <1>2 DEF Sources, EvaluationsInv
<1>4. /\ s \in pipes[p].covers /\ rows[s].term = pipes[p].term
      /\ s \in Cleaned(Submission)
  BY <1>3 DEF PipeOK
<1>5. Sheet[s].comment # "none"
  BY <1>4 DEF Cleaned
<1> QED BY <1>3, <1>4, <1>5 DEF Covered

LEMMA CoveredIsSmall ==
  ASSUME EvaluationsInv
  PROVE  \A m : Covered(m) \in SUBSET Submission
BY TypeFacts DEF Covered, PipeRecord

LEMMA ScoreType ==
  ASSUME NEW s \in Submission
  PROVE  Sheet[s].type \in RatedType /\ Sheet[s].score \in 0..100
BY EvaluationsAssumption DEF EvaluationsAssumption

LEMMA AverageIsInt ==
  ASSUME NEW sum \in Int, NEW n \in Nat \ {0}, 0 * n <= sum, sum <= 100 * n
  PROVE  Average(sum, n) \in Int
<1> DEFINE lo == 0
           hi == 100
<1>1. lo \in Int /\ hi \in Int /\ lo * n <= sum /\ sum <= hi * n
  OBVIOUS
<1> HIDE DEF lo, hi
<1>2. Average(sum, n) \in (100 * lo)..(100 * hi)
  BY <1>1, AverageBetween
<1> QED BY <1>1, <1>2

LEMMA StatsAreRight ==
  ASSUME EvaluationsInv, NEW m \in Term
  PROVE  /\ StatsRow(StatsOf(m))
         /\ StatsOf(m).analyzed <= Cardinality(Covered(m))
<1> DEFINE in == {s \in Stored : rows[s].term = m}
           latest == [s \in Submission |-> LatestLabel(s)]
           split == Breakdown(latest, in)
           scores == [s \in in |-> Sheet[s].score]
           score == IF in = {} THEN NoRating
                    ELSE Average(SumFunction(scores), Cardinality(in))
<1>1. /\ StatsOf(m).submissions = Cardinality(in)
      /\ StatsOf(m).comments = Cardinality(Commented(in))
      /\ StatsOf(m).score = score
      /\ StatsOf(m).analyzed = Total(split)
  BY DEF StatsOf
<1>2. /\ in \in SUBSET Submission /\ IsFiniteSet(in) /\ Commented(in) \subseteq in
      /\ Cardinality(in) \in Nat /\ Cardinality(Commented(in)) \in Nat
  <2>1. in \in SUBSET Submission /\ Commented(in) \subseteq in
    BY DEF Stored, Commented
  <2> HIDE DEF in
  <2> QED BY <2>1, SubmissionsAreFinite
<1>3. /\ \A s \in in : latest[s] = LatestLabel(s)
      /\ \A s \in in : rows[s].term = m
  BY <1>2
<1>4. /\ \A s \in in : latest[s] \in Kind => s \in Commented(in)
      /\ \A s \in in : latest[s] \in Kind => s \in Covered(m)
  <2> HIDE DEF latest, in
  <2> QED BY <1>2, <1>3, CountedIsRight DEF Commented
<1>5. Total(split) \in Nat /\ Total(split) <= Cardinality(Commented(in))
  <2> HIDE DEF latest, in
  <2>1. Commented(in) \in SUBSET Submission
    BY <1>2
  <2> QED BY <1>2, <1>4, <2>1, SplitBounded
<1>6. Total(split) <= Cardinality(Covered(m))
  <2> HIDE DEF latest, in
  <2>1. Covered(m) \in SUBSET Submission
    BY CoveredIsSmall
  <2> QED BY <1>2, <1>4, <2>1, SplitBounded
<1>7. Cardinality(Commented(in)) <= Cardinality(in)
  <2> HIDE DEF in
  <2> QED BY <1>2, SmallerSet
<1>8. score \in Int
  <2>1. CASE in = {}
    BY <2>1 DEF NoRating
  <2>2. CASE in # {}
    <3>1. ASSUME NEW s \in in
          PROVE  scores[s] \in Int /\ 0 <= scores[s] /\ scores[s] <= 100
      <4>1. scores[s] = Sheet[s].score /\ s \in Submission
        BY <1>2
      <4> HIDE DEF in, scores
      <4>2. Sheet[s].score \in 0..100
        BY <4>1, ScoreType
      <4> QED BY <4>1, <4>2
    <3>2. SumFunction(scores) = SumFunctionOnSet(scores, in)
      BY SumFunctionOf
    <3> HIDE DEF in, scores
    <3>3. /\ SumFunctionOnSet(scores, in) \in Int
          /\ 0 * Cardinality(in) <= SumFunctionOnSet(scores, in)
          /\ SumFunctionOnSet(scores, in) <= 100 * Cardinality(in)
      BY <1>2, <3>1, SumBetween
    <3>4. Cardinality(in) \in Nat \ {0}
      BY <1>2, <2>2, FS_EmptySet
    <3>6. Average(SumFunction(scores), Cardinality(in)) \in Int
      BY <3>2, <3>3, <3>4, AverageIsInt
    <3>7. score = Average(SumFunction(scores), Cardinality(in))
      BY <2>2
    <3> HIDE DEF score
    <3> QED BY <3>6, <3>7
  <2> QED BY <2>1, <2>2
<1> HIDE DEF in, split, score
<1> QED BY <1>1, <1>2, <1>5, <1>6, <1>7, <1>8 DEF StatsRow

RefreshRecord ==
  [state : {"none", "unsent", "lost", "queued", "stats", "trends", "done", "failed"},
   made : Nat]

\* The stats of every semester are those of completed pipelines, a refresh is one
\* of a completed pipeline, and the trends are those of the stats or about to be.
DashboardsInv ==
  /\ EvaluationsInv
  /\ \A m \in Term : /\ StatsRow(stats[m])
                     /\ stats[m].analyzed <= Cardinality(Covered(m))
  /\ refresh \in [Pipe -> RefreshRecord]
  /\ \A p \in Pipe : refresh[p].state # "none" => pipes[p].status = "completed"
  /\ trends = TrendsOf(stats) \/ Between

LEMMA DashboardsStart == DashboardsInit => DashboardsInv
<1> SUFFICES ASSUME DashboardsInit PROVE DashboardsInv
  OBVIOUS
<1>1. EvaluationsInv
  BY EvaluationsStart DEF DashboardsInit
<1>2. \A m \in Term : stats[m] = EmptyStats
  BY DEF DashboardsInit
<1>3. StatsRow(EmptyStats) /\ EmptyStats.analyzed = 0
  BY DEF StatsRow, EmptyStats, NoRating
<1>4. ASSUME NEW m \in Term PROVE stats[m].analyzed <= Cardinality(Covered(m))
  <2>1. Cardinality(Covered(m)) \in Nat
    BY <1>1, CoveredIsSmall, SubmissionsAreFinite
  <2> QED BY <1>2, <1>3, <2>1
<1>5. /\ refresh \in [Pipe -> RefreshRecord]
      /\ \A p \in Pipe : refresh[p].state = "none"
  BY DEF DashboardsInit, RefreshRecord
<1>6. trends = TrendsOf(stats)
  BY DEF DashboardsInit, NoTrends
<1> QED BY <1>1, <1>2, <1>3, <1>4, <1>5, <1>6 DEF DashboardsInv

LEMMA DashboardsSteps == DashboardsNext \/ UNCHANGED dashboardsVars => RowsStep
BY DEF DashboardsNext, RowsStep, Conclude, Enqueue, EnqueueFails, RefreshStep,
       RefreshStats, RefreshTrends, Record, RefreshFails, dashboardsVars, evaluations

\* What completed pipelines cover only grows.
LEMMA CoveredGrows ==
  ASSUME EvaluationsInv, RowsStep, NEW m
  PROVE  Cardinality(Covered(m)) <= Cardinality(Covered(m)')
<1>1. \A p \in Pipe : Kept(p)
  BY PipesKept
<1>2. Covered(m) \subseteq Covered(m)'
  BY <1>1 DEF Covered, Kept
<1>3. Covered(m)' \in SUBSET Submission
  <2>1. \A p \in Pipe : pipes'[p].covers \in SUBSET Submission
    BY EvaluationsKept DEF EvaluationsInv, EvaluationsTypeOK, PipeRecord
  <2> QED BY <2>1 DEF Covered
<1> QED BY <1>2, <1>3, SmallerSet

\* The step of a refresh, or none: what it must leave right.
LEMMA ViewsKeep ==
  ASSUME DashboardsInv, RowsStep,
         refresh' \in [Pipe -> RefreshRecord],
         \A p \in Pipe : refresh'[p].state # "none" => pipes'[p].status = "completed",
         \/ UNCHANGED stats
         \/ UNCHANGED evaluations /\ stats' = [m \in Term |-> StatsOf(m)],
         trends' = TrendsOf(stats') \/ Between'
  PROVE  DashboardsInv'
<1>1. EvaluationsInv /\ EvaluationsInv'
  BY EvaluationsKept DEF DashboardsInv
<1>2. ASSUME NEW m \in Term
      PROVE  StatsRow(stats'[m]) /\ stats'[m].analyzed <= Cardinality(Covered(m)')
  <2>1. CASE UNCHANGED stats
    <3>1. StatsRow(stats[m]) /\ stats[m].analyzed <= Cardinality(Covered(m))
      BY DEF DashboardsInv
    <3>2. Cardinality(Covered(m)) <= Cardinality(Covered(m)')
      BY <1>1, CoveredGrows
    <3>3. Cardinality(Covered(m)) \in Nat /\ Cardinality(Covered(m)') \in Nat
      <4>1. Covered(m) \in SUBSET Submission
        BY <1>1, CoveredIsSmall
      <4>2. Covered(m)' \in SUBSET Submission
        <5>1. \A p \in Pipe : pipes'[p].covers \in SUBSET Submission
          BY <1>1 DEF EvaluationsInv, EvaluationsTypeOK, PipeRecord
        <5> QED BY <5>1 DEF Covered
      <4> QED BY <4>1, <4>2, SubmissionsAreFinite
    <3>4. stats[m].analyzed \in Nat
      BY <3>1 DEF StatsRow
    <3> QED BY <2>1, <3>1, <3>2, <3>3, <3>4
  <2>2. CASE UNCHANGED evaluations /\ stats' = [k \in Term |-> StatsOf(k)]
    <3>1. StatsRow(StatsOf(m)) /\ StatsOf(m).analyzed <= Cardinality(Covered(m))
      BY <1>1, StatsAreRight
    <3>2. Covered(m)' = Covered(m)
      BY <2>2 DEF Covered, evaluations
    <3>3. stats'[m] = StatsOf(m)
      BY <2>2
    <3> QED BY <3>1, <3>2, <3>3
  <2> QED BY <2>1, <2>2
<1>3. \A m \in Term : /\ StatsRow(stats[m])'
                      /\ (stats[m].analyzed <= Cardinality(Covered(m)))'
  <2>1. ASSUME NEW m \in Term PROVE StatsRow(stats[m])'
    BY <1>2 DEF StatsRow
  <2> QED BY <1>2, <2>1
<1>4. (trends = TrendsOf(stats) \/ Between)'
  <2>1. TrendsOf(stats)' = TrendsOf(stats')
    BY DEF TrendsOf, Fit, Ordinal, RoundDiv, SumTo
  <2> QED BY <2>1
<1> QED BY <1>1, <1>3, <1>4 DEF DashboardsInv

\* The job of p goes from one state to another, without touching the views.
LEMMA JobMoves ==
  ASSUME DashboardsInv, NEW p \in Pipe, NEW r \in RefreshRecord,
         refresh' = [refresh EXCEPT ![p] = r], UNCHANGED <<stats, trends>>,
         RowsStep, r.state # "none" => pipes'[p].status = "completed",
         Between => Between'
  PROVE  DashboardsInv'
<1>1. refresh \in [Pipe -> RefreshRecord]
  BY DEF DashboardsInv
<1>2. /\ refresh' \in [Pipe -> RefreshRecord] /\ refresh'[p] = r
      /\ \A q \in Pipe \ {p} : refresh'[q] = refresh[q]
  BY <1>1
<1>3. ASSUME NEW q \in Pipe, refresh'[q].state # "none"
      PROVE  pipes'[q].status = "completed"
  <2>1. CASE q = p
    BY <1>2, <1>3, <2>1
  <2>2. CASE q # p
    <3>1. pipes[q].status = "completed"
      BY <1>2, <1>3, <2>2 DEF DashboardsInv
    <3>2. Kept(q)
      BY PipesKept DEF DashboardsInv
    <3> QED BY <3>1, <3>2 DEF Kept
  <2> QED BY <2>1, <2>2
<1>4. trends' = TrendsOf(stats') \/ Between'
  BY DEF DashboardsInv
<1> QED BY <1>2, <1>3, <1>4, ViewsKeep

\* Where p has the refresh, it is between its statements.
BetweenAt(r) ==
  r.state = "stats" \/ (r.made > 0 /\ r.state \in {"queued", "failed"})

LEMMA BetweenIs == Between <=> \E p \in Pipe : BetweenAt(refresh[p])
BY DEF Between, BetweenAt

LEMMA BetweenStays ==
  ASSUME refresh \in [Pipe -> RefreshRecord], NEW p \in Pipe, NEW r,
         refresh' = [refresh EXCEPT ![p] = r], BetweenAt(refresh[p]) => BetweenAt(r),
         Between
  PROVE  Between'
<1>1. PICK q \in Pipe : BetweenAt(refresh[q])
  BY BetweenIs
<1>2. BetweenAt(refresh'[q])
  BY <1>1
<1> QED BY <1>2 DEF Between, BetweenAt

\* Conclude, and the moves of a job that leave the views alone.
LEMMA QuietStepKeeps ==
  ASSUME DashboardsInv, NEW p \in Pipe,
         Conclude(p) \/ Enqueue(p) \/ EnqueueFails(p) \/ Record(p)
  PROVE  DashboardsInv'
<1>1. refresh \in [Pipe -> RefreshRecord] /\ refresh[p] \in RefreshRecord
  BY DEF DashboardsInv
<1>2. RowsStep
  BY DashboardsSteps DEF DashboardsNext, RefreshStep
<1>3. PICK to \in {"unsent", "queued", "lost", "done"} :
        /\ refresh' = [refresh EXCEPT ![p].state = to]
        /\ to = "queued" => refresh[p].state = "unsent"
        /\ to = "lost" => refresh[p].state = "unsent"
        /\ to = "done" => refresh[p].state = "trends"
        /\ to = "unsent" => Complete(p)
  <2>1. CASE Conclude(p)
    BY <2>1 DEF Conclude
  <2>2. CASE Enqueue(p)
    BY <2>2 DEF Enqueue, Moves
  <2>3. CASE EnqueueFails(p)
    BY <2>3 DEF EnqueueFails
  <2>4. CASE Record(p)
    BY <2>4 DEF Record, Moves
  <2> QED BY <2>1, <2>2, <2>3, <2>4
<1> DEFINE r == [refresh[p] EXCEPT !.state = to]
<1>4. /\ r \in RefreshRecord /\ r.state = to /\ r.made = refresh[p].made
      /\ refresh' = [refresh EXCEPT ![p] = r]
  BY <1>1, <1>3 DEF RefreshRecord
<1>5. pipes'[p].status = "completed"
  <2>1. CASE to = "unsent"
    BY <1>3, <2>1, TypeFacts DEF Complete, DashboardsInv, PipeRecord
  <2>2. CASE to # "unsent"
    <3>1. pipes[p].status = "completed" /\ Kept(p)
      BY <1>2, <1>3, <2>2, PipesKept DEF DashboardsInv
    <3> QED BY <3>1 DEF Kept
  <2> QED BY <2>1, <2>2
<1>6. refresh[p].state \in {"unsent", "trends", "none"}
  <2>1. CASE to = "unsent"
    <3>1. pipes[p].status = "recommendations"
      BY <1>3, <2>1 DEF Complete
    <3> QED BY <3>1 DEF DashboardsInv
  <2>2. CASE to # "unsent"
    BY <1>3, <2>2
  <2> QED BY <2>1, <2>2
<1>7. ~BetweenAt(refresh[p])
  BY <1>6 DEF BetweenAt
<1>8. UNCHANGED <<stats, trends>>
  BY DEF Conclude, Enqueue, EnqueueFails, Record
<1> HIDE DEF r
<1>9. Between => Between'
  BY <1>1, <1>4, <1>7, BetweenStays
<1> QED BY <1>2, <1>4, <1>5, <1>8, <1>9, JobMoves

LEMMA RefreshFailsKeeps ==
  ASSUME DashboardsInv, NEW p \in Pipe, RefreshFails(p)
  PROVE  DashboardsInv'
<1>1. refresh \in [Pipe -> RefreshRecord] /\ refresh[p] \in RefreshRecord
  BY DEF DashboardsInv
<1>2. RowsStep
  BY DashboardsSteps DEF DashboardsNext
<1>3. PICK to \in {"queued", "failed"} :
        refresh' = [refresh EXCEPT ![p] = [made |-> refresh[p].made + 1, state |-> to]]
  BY <1>1 DEF RefreshFails
<1> DEFINE r == [made |-> refresh[p].made + 1, state |-> to]
<1>4. r \in RefreshRecord /\ BetweenAt(r)
  BY <1>1 DEF RefreshRecord, BetweenAt
<1>5. pipes'[p].status = "completed"
  <2>1. pipes[p].status = "completed" /\ Kept(p)
    BY <1>2, PipesKept DEF DashboardsInv, RefreshFails
  <2> QED BY <2>1 DEF Kept
<1> HIDE DEF r
<1>6. Between => Between'
  BY <1>1, <1>3, <1>4, BetweenStays DEF r
<1> QED BY <1>2, <1>3, <1>4, <1>5, <1>6, JobMoves DEF RefreshFails, r

\* The two statements that write the views.
LEMMA ViewStepKeeps ==
  ASSUME DashboardsInv, NEW p \in Pipe, RefreshStats(p) \/ RefreshTrends(p)
  PROVE  DashboardsInv'
<1>1. refresh \in [Pipe -> RefreshRecord] /\ refresh[p] \in RefreshRecord
  BY DEF DashboardsInv
<1>2. UNCHANGED evaluations /\ RowsStep
  BY DashboardsSteps DEF DashboardsNext, RefreshStep, RefreshStats, RefreshTrends
<1>3. PICK to \in {"stats", "trends"} :
        /\ refresh' = [refresh EXCEPT ![p].state = to]
        /\ refresh[p].state \in {"queued", "stats"}
        /\ to = "stats" => stats' = [m \in Term |-> StatsOf(m)]
        /\ to = "trends" => UNCHANGED stats /\ trends' = TrendsOf(stats)
  BY DEF RefreshStats, RefreshTrends, Moves
<1>4. /\ refresh' \in [Pipe -> RefreshRecord] /\ refresh'[p].state = to
      /\ \A q \in Pipe \ {p} : refresh'[q] = refresh[q]
  BY <1>1, <1>3 DEF RefreshRecord
<1>5. \A q \in Pipe : refresh'[q].state # "none" => pipes'[q].status = "completed"
  BY <1>2, <1>3, <1>4 DEF DashboardsInv, evaluations
<1>6. \/ UNCHANGED stats
      \/ UNCHANGED evaluations /\ stats' = [m \in Term |-> StatsOf(m)]
  BY <1>2, <1>3
<1>7. trends' = TrendsOf(stats') \/ Between'
  <2>1. CASE to = "stats"
    BY <1>4, <2>1 DEF Between
  <2>2. CASE to = "trends"
    BY <1>3, <2>2
  <2> QED BY <2>1, <2>2
<1> QED BY <1>2, <1>4, <1>5, <1>6, <1>7, ViewsKeep

LEMMA DashboardsKept == DashboardsInv /\ [DashboardsNext]_dashboardsVars => DashboardsInv'
<1> SUFFICES ASSUME DashboardsInv, [DashboardsNext]_dashboardsVars PROVE DashboardsInv'
  OBVIOUS
<1>1. RowsStep
  BY DashboardsSteps
<1>2. ASSUME UNCHANGED views PROVE DashboardsInv'
  <2>1. UNCHANGED stats /\ UNCHANGED trends /\ UNCHANGED refresh
    BY <1>2 DEF views
  <2>2. refresh' \in [Pipe -> RefreshRecord]
    BY <2>1 DEF DashboardsInv
  <2>3. ASSUME NEW p \in Pipe, refresh'[p].state # "none"
        PROVE  pipes'[p].status = "completed"
    <3>1. Kept(p) /\ pipes[p].status = "completed"
      BY <1>1, <2>1, <2>3, PipesKept DEF DashboardsInv
    <3> QED BY <3>1 DEF Kept
  <2>4. trends' = TrendsOf(stats') \/ Between'
    BY <2>1 DEF DashboardsInv, Between
  <2> QED BY <1>1, <2>1, <2>2, <2>3, <2>4, ViewsKeep
<1>3. CASE UNCHANGED dashboardsVars
  BY <1>2, <1>3 DEF dashboardsVars, views
<1>4. CASE DashboardsNext
  BY <1>2, <1>4, QuietStepKeeps, RefreshFailsKeeps, ViewStepKeeps
  DEF DashboardsNext, RefreshStep
<1> QED BY <1>3, <1>4

LEMMA DashboardsInvAlways == DashboardsSpec => []DashboardsInv
<1>1. DashboardsInit => DashboardsInv
  BY DashboardsStart
<1>2. DashboardsInv /\ [DashboardsNext]_dashboardsVars => DashboardsInv'
  BY DashboardsKept
<1> QED BY <1>1, <1>2, PTL DEF DashboardsSpec

\* The rows keep their types, and a label row is of a submission that its pipeline
\* covers and that is stored, through every wipe and every failure of one.
THEOREM EvaluationsTypeCorrect == DashboardsSpec => []EvaluationsTypeOK
<1>1. DashboardsInv => EvaluationsTypeOK
  BY DEF DashboardsInv, EvaluationsInv
<1> QED BY <1>1, DashboardsInvAlways, PTL

\* The dashboards do not contradict each other: every semester counts no more
\* labels than comments, and only those of completed pipelines; and, unless a
\* refresh stands between its two statements, the direction of a trend has the
\* sign of the changes that the overviews show, over any number of semesters.
THEOREM DashboardsAgreeCorrect == DashboardsSpec => []DashboardsAgree
<1>1. DashboardsInv => DashboardsAgree
  <2> SUFFICES ASSUME DashboardsInv PROVE DashboardsAgree
    OBVIOUS
  <2>1. CountedOnce
    BY DEF DashboardsInv, StatsRow, Covered, CountedOnce
  <2>2. ASSUME ~Between PROVE trends = TrendsOf(stats) /\ SignsAgree
    BY <2>2, TrendsAgree DEF DashboardsInv
  <2> QED BY <2>1, <2>2 DEF DashboardsAgree
<1> QED BY <1>1, DashboardsInvAlways, PTL

-----------------------------------------------------------------------------
(* The faculty report.                                                     *)

\* How S divides by its answers, and what it adds up to, as QuestionAverage does.
LEMMA AnswersBetween ==
  ASSUME NEW S \in SUBSET Submission, NEW a, NEW lo \in Int, NEW hi \in Int,
         \A s \in S : a[s] \in 1..5 /\ lo <= a[s] /\ a[s] <= hi
  PROVE  LET sum == SumTo([x \in 1..5 |-> x * Cardinality({s \in S : a[s] = x})], 5) IN
         /\ sum \in Int
         /\ lo * Cardinality(S) <= sum /\ sum <= hi * Cardinality(S)
<1> DEFINE Of(x) == {s \in S : a[s] = x}
           UpToAnswer(k) == {s \in S : a[s] <= k}
           f == [x \in 1..5 |-> x * Cardinality(Of(x))]
           Good == {k \in Nat : k \in 0..5 =>
                      /\ lo * Cardinality(UpToAnswer(k)) <= SumTo(f, k)
                      /\ SumTo(f, k) <= hi * Cardinality(UpToAnswer(k))}
<1>1. ASSUME NEW x \in 1..5
      PROVE  /\ Cardinality(Of(x)) \in Nat /\ IsFiniteSet(Of(x))
             /\ f[x] = x * Cardinality(Of(x)) /\ f[x] \in Int
  <2>1. Cardinality(Of(x)) \in Nat /\ IsFiniteSet(Of(x))
    BY SubmissionsAreFinite
  <2>2. f[x] = x * Cardinality(Of(x))
    OBVIOUS
  <2> HIDE DEF Of, f
  <2>3. x * Cardinality(Of(x)) \in Int
    BY <2>1
  <2> QED BY <2>1, <2>2, <2>3
<1>2. ASSUME NEW k \in 0..5
      PROVE  Cardinality(UpToAnswer(k)) \in Nat /\ IsFiniteSet(UpToAnswer(k))
  BY SubmissionsAreFinite
<1>3. /\ SumTo(f, 0) = 0
      /\ \A k \in 0..5 : SumTo(f, k) \in Int
      /\ \A k \in 1..5 : SumTo(f, k) = SumTo(f, k - 1) + f[k]
  <2> HIDE DEF f
  <2> QED BY <1>1, SumToRule
<1>4. 0 \in Good
  <2>1. UpToAnswer(0) = {}
    OBVIOUS
  <2>2. Cardinality(UpToAnswer(0)) = 0
    BY <2>1, FS_EmptySet
  <2> HIDE DEF f, UpToAnswer
  <2> QED BY <1>3, <2>2
<1>5. ASSUME NEW k \in 1..5, k - 1 \in Good PROVE k \in Good
  <2>1. /\ UpToAnswer(k) = UpToAnswer(k - 1) \cup Of(k)
        /\ UpToAnswer(k - 1) \cap Of(k) = {}
        /\ k - 1 \in 0..5 /\ k \in 0..5
    OBVIOUS
  <2> DEFINE c == Cardinality(Of(k))
             d == Cardinality(UpToAnswer(k - 1))
             e == Cardinality(UpToAnswer(k))
  <2>2. e = d + c
    <3>1. Cardinality(UpToAnswer(k - 1) \cap Of(k)) = 0
      BY <2>1, FS_EmptySet
    <3>2. /\ IsFiniteSet(UpToAnswer(k - 1)) /\ IsFiniteSet(Of(k))
          /\ Cardinality(UpToAnswer(k - 1)) \in Nat /\ Cardinality(Of(k)) \in Nat
      BY <1>1, <1>2, <2>1
    <3> HIDE DEF UpToAnswer, Of
    <3>3. Cardinality(UpToAnswer(k - 1) \cup Of(k))
            = Cardinality(UpToAnswer(k - 1)) + Cardinality(Of(k))
                - Cardinality(UpToAnswer(k - 1) \cap Of(k))
      BY <3>2, FS_Union
    <3> QED BY <2>1, <3>1, <3>2, <3>3
  <2>3. c \in Nat /\ d \in Nat /\ e \in Nat
    BY <1>1, <1>2, <2>1
  <2>4. lo * c <= k * c /\ k * c <= hi * c
    <3>1. CASE c = 0
      <4> HIDE DEF c
      <4> QED BY <3>1
    <3>2. CASE c # 0
      <4>1. Of(k) # {}
        BY <3>2, FS_EmptySet
      <4>2. lo <= k /\ k <= hi
        BY <4>1
      <4> HIDE DEF c
      <4> QED BY <2>3, <4>2, TimesKeeps
    <3> QED BY <3>1, <3>2
  <2>5. SumTo(f, k) = SumTo(f, k - 1) + k * c /\ SumTo(f, k - 1) \in Int
    BY <1>1, <1>3, <2>1
  <2>6. lo * d <= SumTo(f, k - 1) /\ SumTo(f, k - 1) <= hi * d
    BY <1>5, <2>1
  <2> HIDE DEF c, d, e, f, UpToAnswer
  <2>7. lo * e = lo * d + lo * c /\ hi * e = hi * d + hi * c
    BY <2>2, <2>3
  <2>8. /\ lo * d \in Int /\ lo * c \in Int /\ hi * d \in Int /\ hi * c \in Int
        /\ k * c \in Int
    BY <2>3
  <2>9. lo * e <= SumTo(f, k) /\ SumTo(f, k) <= hi * e
    BY <2>4, <2>5, <2>6, <2>7, <2>8
  <2> QED BY <2>9 DEF e
<1>6. 5 \in Good
  <2> HIDE DEF Good
  <2>1. 0..5 \subseteq Good
    BY <1>4, <1>5, UpTo
  <2> QED BY <2>1
<1>7. UpToAnswer(5) = S
  OBVIOUS
<1>8. /\ SumTo(f, 5) \in Int
      /\ lo * Cardinality(S) <= SumTo(f, 5) /\ SumTo(f, 5) <= hi * Cardinality(S)
  <2> HIDE DEF f, UpToAnswer
  <2>1. /\ lo * Cardinality(UpToAnswer(5)) <= SumTo(f, 5)
        /\ SumTo(f, 5) <= hi * Cardinality(UpToAnswer(5))
    BY <1>6
  <2> QED BY <1>3, <1>7, <2>1
<1> QED BY <1>8

\* What a report of a type reads: its submissions, all with their answers.
Reported(filed) ==
  /\ filed \in SUBSET Submission /\ filed # {} /\ filed \subseteq Answered
  /\ \A s \in filed : rows[s].version \in Version

LEMMA AnswerType ==
  ASSUME NEW s \in Submission, NEW q \in Question
  PROVE  Sheet[s].answers[q] \in 1..5
<1>1. Sheet[s].answers \in [Question -> 1..5]
  BY EvaluationsAssumption DEF EvaluationsAssumption
<1> QED BY <1>1

LEMMA QuestionBetween ==
  ASSUME NEW filed, Reported(filed), NEW q \in Question, NEW sec,
         Given(filed, q, sec) # {}, NEW lo \in Int, NEW hi \in Int,
         \A s \in filed : lo <= Sheet[s].answers[q] /\ Sheet[s].answers[q] <= hi
  PROVE  QuestionAverage(filed, q, sec) \in (100 * lo)..(100 * hi)
<1> DEFINE S == Given(filed, q, sec)
           a == [s \in S |-> Sheet[s].answers[q]]
           sum == SumTo([x \in 1..5 |-> x * Cardinality({s \in S : a[s] = x})], 5)
           given == SumTo([x \in 1..5 |->
                             x * Cardinality({s \in S : Sheet[s].answers[q] = x})], 5)
<1>1. S \in SUBSET Submission /\ S \subseteq filed /\ S # {}
  BY DEF Given, Reported
<1>2. \A s \in S : a[s] = Sheet[s].answers[q]
  OBVIOUS
<1> HIDE DEF S
<1>3. \A s \in S : a[s] \in 1..5 /\ lo <= a[s] /\ a[s] <= hi
  BY <1>1, <1>2, AnswerType
<1>4. \A x : {s \in S : a[s] = x} = {s \in S : Sheet[s].answers[q] = x}
  BY <1>2
<1>5. given = sum
  BY <1>4
<1> HIDE DEF a
<1>6. sum \in Int /\ lo * Cardinality(S) <= sum /\ sum <= hi * Cardinality(S)
  BY <1>1, <1>3, AnswersBetween
<1>7. Cardinality(S) \in Nat \ {0}
  <2>1. Cardinality(S) \in Nat /\ IsFiniteSet(S)
    BY <1>1, SubmissionsAreFinite
  <2> QED BY <1>1, <2>1, FS_EmptySet
<1>8. QuestionAverage(filed, q, sec) = Average(given, Cardinality(S))
  BY DEF QuestionAverage, S
<1> HIDE DEF given, sum
<1> QED BY <1>5, <1>6, <1>7, <1>8, AverageBetween

\* The newest version of what is reported has answers of every question there.
LEMMA NewestIsAsked ==
  ASSUME NEW filed, Reported(filed), NEW q \in Question
  PROVE  /\ Canonical(filed) \in Version
         /\ SectionOf[Canonical(filed)][q] \in Section
         /\ q \in Asked(filed, SectionOf[Canonical(filed)][q])
<1> DEFINE versions == {rows[s].version : s \in filed}
<1>1. versions \in SUBSET (0..MaxVersion) /\ versions # {} /\ MaxVersion \in Nat
  BY Bounds DEF Reported, Version
<1>2. Canonical(filed) \in versions
  <2>1. Canonical(filed) = Max(versions)
    BY DEF Canonical
  <2> HIDE DEF versions
  <2> QED BY <1>1, <2>1, MaxIsGreatest
<1>3. PICK s \in filed : rows[s].version = Canonical(filed)
  BY <1>2
<1>4. s \in Answered /\ Canonical(filed) \in Version
  BY <1>3 DEF Reported
<1>5. s \in Given(filed, q, SectionOf[Canonical(filed)][q])
  BY <1>3, <1>4 DEF Given
<1>6. SectionOf[Canonical(filed)] \in [Question -> Section]
  BY <1>4, FacultyReportAssumption DEF FacultyReportAssumption
<1> QED BY <1>4, <1>5, <1>6 DEF Asked

LEMMA SectionBetween ==
  ASSUME NEW filed, Reported(filed), NEW sec, Asked(filed, sec) # {},
         NEW lo \in Int, NEW hi \in Int,
         \A s \in filed, q \in Question :
           lo <= Sheet[s].answers[q] /\ Sheet[s].answers[q] <= hi
  PROVE  SectionAverage(filed, Asked(filed, sec), sec) \in (100 * lo)..(100 * hi)
<1> DEFINE asked == Asked(filed, sec)
           f == [q \in asked |-> QuestionAverage(filed, q, sec)]
<1>1. asked \subseteq Question /\ \A q \in asked : Given(filed, q, sec) # {}
  BY DEF Asked
<1>2. IsFiniteSet(asked) /\ Cardinality(asked) \in Nat \ {0}
  <2>1. IsFiniteSet(asked)
    BY <1>1, FS_Subset, EvaluationsAssumption DEF EvaluationsAssumption
  <2> QED BY <2>1, FS_CardinalityType, FS_EmptySet
<1> HIDE DEF asked
<1> DEFINE low == 100 * lo
           high == 100 * hi
<1>3. ASSUME NEW q \in asked PROVE f[q] \in Int /\ low <= f[q] /\ f[q] <= high
  <2>1. f[q] = QuestionAverage(filed, q, sec)
    OBVIOUS
  <2>2. QuestionAverage(filed, q, sec) \in low..high
    BY <1>1, QuestionBetween
  <2> QED BY <2>1, <2>2
<1>4. low \in Int /\ high \in Int
  OBVIOUS
<1>5. DOMAIN f = asked
  OBVIOUS
<1> HIDE DEF low, high, f
<1>6. /\ SumFunctionOnSet(f, asked) \in Int
      /\ low * Cardinality(asked) <= SumFunctionOnSet(f, asked)
      /\ SumFunctionOnSet(f, asked) <= high * Cardinality(asked)
  BY <1>2, <1>3, <1>4, SumBetween
<1>7. RoundDiv(SumFunctionOnSet(f, asked), Cardinality(asked)) \in low..high
  BY <1>2, <1>4, <1>6, RoundBetween
<1> QED BY <1>5, <1>7, SumFunctionOf DEF SectionAverage, f, low, high, asked

LEMMA OverallBetween ==
  ASSUME NEW t, NEW m, Reported(Filed(t, m)), NEW lo \in Int, NEW hi \in Int,
         \A s \in Filed(t, m), q \in Question :
           lo <= Sheet[s].answers[q] /\ Sheet[s].answers[q] <= hi
  PROVE  OverallRating(t, m) \in (100 * lo)..(100 * hi)
<1> DEFINE filed == Filed(t, m)
           Sections == {sec \in Section : Asked(filed, sec) # {}}
           f == [sec \in Sections |->
                   SectionWeight[sec] * SectionAverage(filed, Asked(filed, sec), sec)]
           low == 100 * lo
           high == 100 * hi
<1>1. filed # {} /\ Sections # {}
  <2>1. \E q : q \in Question
    BY EvaluationsAssumption DEF EvaluationsAssumption
  <2> QED BY <2>1, NewestIsAsked DEF Reported
<1>2. IsFiniteSet(Sections) /\ \A sec \in Sections : SectionWeight[sec] \in 1..100
  <2>1. Sections \subseteq Section
    OBVIOUS
  <2> QED BY <2>1, FS_Subset, FacultyReportAssumption DEF FacultyReportAssumption
<1>3. OverallRating(t, m)
        = RoundDiv(SumFunction(f), SumFunctionOnSet(SectionWeight, Sections))
  BY <1>1 DEF OverallRating
<1>4. low \in Int /\ high \in Int
  OBVIOUS
<1>5. ASSUME NEW sec \in Sections
      PROVE  /\ f[sec] \in Int /\ SectionWeight[sec] \in Int
             /\ low * SectionWeight[sec] <= f[sec]
             /\ f[sec] <= high * SectionWeight[sec]
  <2> DEFINE w == SectionWeight[sec]
             r == SectionAverage(filed, Asked(filed, sec), sec)
  <2>1. f[sec] = w * r
    OBVIOUS
  <2>2. r \in low..high
    BY SectionBetween
  <2>3. w \in Nat
    BY <1>2
  <2> HIDE DEF w, r, low, high, f
  <2>4. low * w <= r * w /\ r * w <= high * w
    BY <1>4, <2>2, <2>3, TimesKeeps
  <2>5. w * r = r * w /\ w * r \in Int
    BY <1>4, <2>2, <2>3
  <2> QED BY <2>1, <2>3, <2>4, <2>5 DEF w
<1>6. DOMAIN f = Sections
  OBVIOUS
<1> HIDE DEF Sections, f, low, high, filed
<1>7. /\ SumFunctionOnSet(f, Sections) \in Int
      /\ low * SumFunctionOnSet(SectionWeight, Sections) <= SumFunctionOnSet(f, Sections)
      /\ SumFunctionOnSet(f, Sections) <= high * SumFunctionOnSet(SectionWeight, Sections)
  BY <1>2, <1>4, <1>5, SumBounds
<1>8. SumFunctionOnSet(SectionWeight, Sections) \in Nat \ {0}
  <2>1. \A sec \in Sections :
          SectionWeight[sec] \in Nat \ {0} /\ SectionWeight[sec] <= 100
    BY <1>2
  <2>2. 100 \in Int
    OBVIOUS
  <2> QED BY <1>1, <1>2, <2>1, <2>2, SumPositive
<1>9. RoundDiv(SumFunctionOnSet(f, Sections), SumFunctionOnSet(SectionWeight, Sections))
        \in low..high
  BY <1>4, <1>7, <1>8, RoundBetween
<1> QED BY <1>3, <1>6, <1>9, SumFunctionOf DEF low, high

LEMMA DimensionBetween ==
  ASSUME NEW t, NEW m, Reported(Filed(t, m)), NEW q \in Question,
         NEW lo \in Int, NEW hi \in Int,
         \A s \in Filed(t, m) : lo <= Sheet[s].answers[q] /\ Sheet[s].answers[q] <= hi
  PROVE  DimensionAverage(t, m, q) \in (100 * lo)..(100 * hi)
<1> DEFINE filed == Filed(t, m)
           in == {sec \in Section : Given(filed, q, sec) # {}}
           count == [sec \in in |-> Cardinality(Given(filed, q, sec))]
           f == [sec \in in |-> QuestionAverage(filed, q, sec) * count[sec]]
           low == 100 * lo
           high == 100 * hi
<1>1. in # {}
  BY NewestIsAsked DEF Asked
<1>2. IsFiniteSet(in)
  <2>1. in \subseteq Section
    OBVIOUS
  <2> QED BY <2>1, FS_Subset, FacultyReportAssumption DEF FacultyReportAssumption
<1>3. DimensionAverage(t, m, q) = RoundDiv(SumFunction(f), SumFunction(count))
  BY DEF DimensionAverage
<1>4. low \in Int /\ high \in Int
  OBVIOUS
<1>5. ASSUME NEW sec \in in
      PROVE  count[sec] \in Nat \ {0} /\ count[sec] <= Cardinality(Submission)
  <2> DEFINE S == Given(filed, q, sec)
  <2>1. count[sec] = Cardinality(S) /\ S # {}
    OBVIOUS
  <2>2. S \in SUBSET Submission
    BY DEF Given, Reported
  <2> HIDE DEF S, count
  <2>3. /\ Cardinality(S) \in Nat /\ IsFiniteSet(S)
        /\ Cardinality(S) <= Cardinality(Submission)
    BY <2>2, SubmissionsAreFinite, SmallerSet
  <2> QED BY <2>1, <2>3, FS_EmptySet
<1>6. ASSUME NEW sec \in in
      PROVE  /\ f[sec] \in Int /\ count[sec] \in Int
             /\ low * count[sec] <= f[sec] /\ f[sec] <= high * count[sec]
  <2> DEFINE w == count[sec]
             r == QuestionAverage(filed, q, sec)
  <2>1. f[sec] = r * w
    OBVIOUS
  <2>2. r \in low..high
    BY QuestionBetween
  <2>3. w \in Nat
    BY <1>5
  <2> HIDE DEF w, r, low, high, f
  <2>4. low * w <= r * w /\ r * w <= high * w
    BY <1>4, <2>2, <2>3, TimesKeeps
  <2>5. r * w \in Int
    BY <1>4, <2>2, <2>3
  <2> QED BY <2>1, <2>3, <2>4, <2>5 DEF w
<1>7. DOMAIN f = in /\ DOMAIN count = in
  OBVIOUS
<1>8. Cardinality(Submission) \in Int
  BY SubmissionsAreFinite
<1> HIDE DEF in, f, count, low, high, filed
<1>9. /\ SumFunctionOnSet(f, in) \in Int
      /\ low * SumFunctionOnSet(count, in) <= SumFunctionOnSet(f, in)
      /\ SumFunctionOnSet(f, in) <= high * SumFunctionOnSet(count, in)
  BY <1>2, <1>4, <1>6, SumBounds
<1>10. SumFunctionOnSet(count, in) \in Nat \ {0}
  BY <1>1, <1>2, <1>5, <1>8, SumPositive
<1>11. RoundDiv(SumFunctionOnSet(f, in), SumFunctionOnSet(count, in)) \in low..high
  BY <1>4, <1>9, <1>10, RoundBetween
<1> QED BY <1>3, <1>7, <1>11, SumFunctionOf DEF low, high

LEMMA GoesInto ==
  ASSUME NEW a \in Nat, NEW b \in Nat \ {0}
  PROVE  0 * b <= a /\ a <= a * b
<1>1. 1 * a <= b * a
  BY TimesKeeps
<1> QED BY <1>1

\* The composite is there exactly when the students' feedback has a rating.
LEMMA CompositeHasFeedback ==
  ASSUME NEW r, \A t \in RatedType : r[t] \in Nat \/ r[t] = NoRating
  PROVE  Composite(r) # NoRating <=> r["FEEDBACK"] # NoRating
<1> DEFINE others == {"OUT", "IN"} \cap Present(r)
<1>1. CASE r["FEEDBACK"] # NoRating
  <2>1. CoverageStatus(r) \in {"FULL", "PARTIAL", "FEEDBACK_ONLY"}
    BY <1>1 DEF CoverageStatus
  <2>2. CoverageWeight(r) \in Nat \ {0}
    BY <1>1 DEF CoverageWeight, WeightOf, Weight
  <2>3. \A t \in RatedType : Contribution(r, t) \in Nat
    <3>1. ASSUME NEW t \in RatedType, r[t] # NoRating
          PROVE  RoundDiv(r[t] * Weight(t), CoverageWeight(r)) \in Nat
      <4> DEFINE a == r[t] * Weight(t)
                 b == CoverageWeight(r)
      <4>1. r[t] \in Nat /\ Weight(t) \in Nat /\ b \in Nat \ {0}
        BY <2>2, <3>1 DEF Weight
      <4>2. a \in Nat
        BY <4>1
      <4> HIDE DEF a, b
      <4>3. 0 * b <= a /\ a <= a * b /\ a \in Int /\ 0 \in Int
        BY <4>1, <4>2, GoesInto
      <4>4. RoundDiv(a, b) \in 0..a
        BY <4>1, <4>3, RoundBetween
      <4> QED BY <4>2, <4>4 DEF a, b
    <3> QED BY <3>1 DEF Contribution
  <2>4. /\ Contribution(r, "FEEDBACK") \in Nat /\ Contribution(r, "OUT") \in Nat
        /\ Contribution(r, "IN") \in Nat
    BY <2>3 DEF RatedType
  <2>5. Composite(r) = Contribution(r, "FEEDBACK") + Contribution(r, "OUT")
                         + Contribution(r, "IN")
    BY <2>1 DEF Composite
  <2> QED BY <1>1, <2>4, <2>5 DEF NoRating
<1>2. CASE r["FEEDBACK"] = NoRating
  <2>1. CoverageStatus(r) \in {"PARTIAL_NO_FEEDBACK", "NO_DATA", "INSUFFICIENT"}
    <3>1. others = {"OUT", "IN"} \/ others # {"OUT", "IN"}
      OBVIOUS
    <3> QED BY <1>2, <3>1 DEF CoverageStatus
  <2>2. Composite(r) = NoRating
    BY <2>1 DEF Composite
  <2> QED BY <1>2, <2>2
<1> QED BY <1>1, <1>2

\* What is offered and has all its answers is reported between them.
LEMMA OfferedIsReported ==
  ASSUME EvaluationsInv, NEW m \in Term, NEW t \in Offered(m),
         \A s \in Stored : rows[s].term = m => s \in Answered
  PROVE  Reported(Filed(t, m))
<1>1. /\ Filed(t, m) \in SUBSET Submission /\ Filed(t, m) # {}
      /\ Filed(t, m) \subseteq Answered
  BY DEF Filed, Stored, Offered
<1>2. \A s \in Submission : rows[s].version \in Version
  BY TypeFacts DEF RowRecord
<1> QED BY <1>1, <1>2 DEF Reported

LEMMA ReportIsRight ==
  ASSUME NEW t, NEW m, Reported(Filed(t, m))
  PROVE  ReportHolds(t, m) /\ OverallRating(t, m) \in Nat
<1> DEFINE filed == Filed(t, m)
           given == {Sheet[s].answers[q] : s \in filed, q \in Question}
           lo == Min(given)
           hi == Max(given)
<1>1. filed \in SUBSET Submission /\ filed # {} /\ \E q : q \in Question
  BY EvaluationsAssumption DEF Reported, EvaluationsAssumption
<1>2. given \in SUBSET (0..5) /\ given # {} /\ given \in SUBSET Nat
  <2>1. \A s \in filed, q \in Question : Sheet[s].answers[q] \in 1..5
    BY <1>1, AnswerType
  <2> QED BY <1>1, <2>1
<1>3. \A s \in filed, q \in Question : Sheet[s].answers[q] \in given
  OBVIOUS
<1>4. Canonical(filed) = Max({rows[s].version : s \in filed})
  BY DEF Canonical
<1> HIDE DEF filed, given
<1>5. /\ lo \in Nat /\ hi \in Nat
      /\ \A s \in filed, q \in Question :
           lo <= Sheet[s].answers[q] /\ Sheet[s].answers[q] <= hi
  <2>1. 5 \in Nat
    OBVIOUS
  <2>2. /\ lo \in given /\ hi \in given
        /\ \A x \in given : lo <= x /\ x <= hi
    BY <1>2, <2>1, MinIsLeast, MaxIsGreatest
  <2> QED BY <1>2, <1>3, <2>2
<1> HIDE DEF lo, hi
<1>6. OverallRating(t, m) \in (100 * lo)..(100 * hi)
  BY <1>5, OverallBetween DEF filed
<1>7. \A q \in Question : DimensionAverage(t, m, q) \in (100 * lo)..(100 * hi)
  BY <1>5, DimensionBetween DEF filed
<1>8. \A q \in Question :
        q \in Asked(filed, SectionOf[Max({rows[s].version : s \in filed})][q])
  BY <1>4, NewestIsAsked DEF filed
<1>9. OverallRating(t, m) \in Nat
  BY <1>5, <1>6
<1> QED BY <1>6, <1>7, <1>8, <1>9 DEF ReportHolds, filed, given, lo, hi

LEMMA OnlyOfferedIsRated ==
  ASSUME NEW t \in RatedType, NEW m, t \notin Offered(m)
  PROVE  OverallRating(t, m) = NoRating
<1>1. Filed(t, m) = {}
  BY DEF Offered
<1> QED BY <1>1 DEF OverallRating

\* Whatever versions answers were given to, and with or without pipelines: the
\* reports that the code computes on every request lie between the lowest and the
\* highest answer, show every question of the newest version, and make a composite
\* exactly when there is students' feedback.  For any numbers of submissions,
\* questions, sections, weights and versions.
THEOREM ReportMatchesAnswersCorrect == Spec => []ReportMatchesAnswers
<1>1. ReportInv => ReportMatchesAnswers
  <2> SUFFICES ASSUME ReportInv PROVE ReportMatchesAnswers
    OBVIOUS
  <2>1. ASSUME NEW m \in Term, \A s \in Stored : rows[s].term = m => s \in Answered
        PROVE  /\ \A t \in Offered(m) : ReportHolds(t, m)
               /\ CompositeRating(m) # NoRating <=> "FEEDBACK" \in Offered(m)
    <3>1. \A t \in Offered(m) : ReportHolds(t, m) /\ OverallRating(t, m) \in Nat
      BY <2>1, OfferedIsReported, ReportIsRight DEF ReportInv
    <3>2. \A t \in RatedType : t \notin Offered(m) => OverallRating(t, m) = NoRating
      BY OnlyOfferedIsRated
    <3>3. \A t \in RatedType : TypeRatings(m)[t] = OverallRating(t, m)
      BY DEF TypeRatings
    <3>4. \A t \in RatedType : TypeRatings(m)[t] \in Nat \/ TypeRatings(m)[t] = NoRating
      BY <3>1, <3>2, <3>3
    <3>5. CompositeRating(m) # NoRating <=> TypeRatings(m)["FEEDBACK"] # NoRating
      BY <3>4, CompositeHasFeedback DEF CompositeRating
    <3>6. "FEEDBACK" \in RatedType /\ NoRating \notin Nat
      BY DEF RatedType, NoRating
    <3>7. TypeRatings(m)["FEEDBACK"] # NoRating <=> "FEEDBACK" \in Offered(m)
      BY <3>1, <3>2, <3>3, <3>6
    <3> QED BY <3>1, <3>5, <3>7
  <2> QED BY <2>1 DEF ReportMatchesAnswers
<1> QED BY <1>1, ReportInvAlways, PTL

=============================================================================
