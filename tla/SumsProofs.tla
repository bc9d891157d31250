---------------------------- MODULE SumsProofs ----------------------------
EXTENDS Sums, FiniteSetTheorems, SequenceTheorems, WellFoundedInduction, TLAPS

(* A set of naturals has a least member.  It stands in for induction. *)
LEMMA LeastNatural ==
    ASSUME NEW T \in SUBSET Nat, T # {}
    PROVE  \E x \in T : \A y \in T : x <= y
<1> DEFINE R == OpToRel(<, Nat)
<1>1. \A x, y \in Nat : <<y, x>> \in R <=> y < x
  BY DEF OpToRel
<1>2. IsWellFoundedOn(R, Nat)
  BY NatLessThanWellFounded
<1> HIDE DEF R
<1>3. PICK x \in T : \A y \in T : ~ (<<y, x>> \in R)
  BY <1>2, WFMin
<1>4. \A y \in T : ~ (y < x)
  BY <1>1, <1>3
<1>5. \A y \in T : x <= y
  BY <1>4
<1> QED BY <1>5

(* The recursive equation of the prefix sums has a solution: a least index  *)
(* without one would follow from the index before it.                       *)
LEMMA SumExists ==
    ASSUME NEW n \in Nat, NEW f \in [1 .. n -> Nat]
    PROVE  \E s : s = [i \in 0 .. n |-> IF i = 0 THEN 0 ELSE s[i - 1] + f[i]]
<1> DEFINE Good(m) == \E s \in [0 .. m -> Nat] :
               \A i \in 0 .. m : s[i] = IF i = 0 THEN 0 ELSE s[i - 1] + f[i]
           Bad == {m \in 0 .. n : ~ Good(m)}
<1>1. Bad = {}
  <2> SUFFICES ASSUME Bad # {} PROVE FALSE
    OBVIOUS
  <2>0. Bad \in SUBSET Nat
    OBVIOUS
  <2> HIDE DEF Bad, Good
  <2>1. PICK m \in Bad : \A k \in Bad : m <= k
    BY <2>0, LeastNatural
  <2> USE DEF Bad
  <2> USE DEF Good
  <2>2. CASE m = 0
    <3> DEFINE s == [i \in 0 .. 0 |-> 0]
    <3>1. s \in [0 .. 0 -> Nat] /\ \A i \in 0 .. 0 : s[i] = IF i = 0 THEN 0 ELSE s[i - 1] + f[i]
      OBVIOUS
    <3> QED BY <3>1, <2>2
  <2>3. CASE m # 0
    <3>1. m \in 1 .. n /\ m - 1 \in 0 .. n /\ ~ (m <= m - 1)
      BY <2>3
    <3>5. m - 1 \notin Bad
      BY <2>1, <3>1
    <3>2. PICK s \in [0 .. m - 1 -> Nat] : \A i \in 0 .. m - 1 : s[i] = IF i = 0 THEN 0 ELSE s[i - 1] + f[i]
      BY <3>1, <3>5
    <3> DEFINE t == [i \in 0 .. m |-> IF i = m THEN s[m - 1] + f[m] ELSE s[i]]
    <3>3. t \in [0 .. m -> Nat]
      BY <3>1, <3>2
    <3>4. \A i \in 0 .. m : t[i] = IF i = 0 THEN 0 ELSE t[i - 1] + f[i]
      <4> TAKE i \in 0 .. m
      <4>1. CASE i = m
        BY <4>1, <2>3, <3>1
      <4>2. CASE i # m /\ i # 0
        BY <4>2, <3>1, <3>2
      <4>3. CASE i = 0
        BY <4>3, <3>1, <3>2
      <4> QED BY <4>1, <4>2, <4>3
    <3> QED BY <3>3, <3>4
  <2> QED BY <2>2, <2>3
<1>3. Good(n)
  <2> HIDE DEF Good
  <2> QED BY <1>1
<1>2. PICK s \in [0 .. n -> Nat] :
         \A i \in 0 .. n : s[i] = IF i = 0 THEN 0 ELSE s[i - 1] + f[i]
  BY <1>3
<1>4. s = [i \in 0 .. n |-> IF i = 0 THEN 0 ELSE s[i - 1] + f[i]]
  BY <1>2
<1> QED BY <1>4

(* So SumTo solves it. *)
LEMMA SumRecursion ==
    ASSUME NEW n \in Nat, NEW f \in [1 .. n -> Nat]
    PROVE  SumTo(f, n) = [i \in 0 .. n |-> IF i = 0 THEN 0 ELSE SumTo(f, n)[i - 1] + f[i]]
BY SumExists DEF SumTo

(* The two cases of the equation. *)
LEMMA SumStep ==
    ASSUME NEW n \in Nat, NEW f \in [1 .. n -> Nat]
    PROVE  /\ SumTo(f, n)[0] = 0
           /\ \A i \in 1 .. n : SumTo(f, n)[i] = SumTo(f, n)[i - 1] + f[i]
<1> DEFINE s == SumTo(f, n)
<1> HIDE DEF s
<1>1. s = [i \in 0 .. n |-> IF i = 0 THEN 0 ELSE s[i - 1] + f[i]]
  BY SumRecursion DEF s
<1>2. s[0] = 0
  BY <1>1
<1>3. \A i \in 1 .. n : s[i] = s[i - 1] + f[i]
  BY <1>1
<1> QED BY <1>2, <1>3 DEF s

(* Prefix sums are naturals and no summand is above its sum. *)
LEMMA SumBounds ==
    ASSUME NEW n \in Nat, NEW f \in [1 .. n -> Nat]
    PROVE  /\ \A i \in 0 .. n : SumTo(f, n)[i] \in Nat
           /\ \A i \in 0 .. n, k \in 1 .. n : k <= i => f[k] <= SumTo(f, n)[i]
<1> DEFINE s == SumTo(f, n)
<1>0. s[0] = 0 /\ \A i \in 1 .. n : s[i] = s[i - 1] + f[i]
  BY SumStep
<1> HIDE DEF s
<1> DEFINE Good(i) == s[i] \in Nat /\ \A k \in 1 .. n : k <= i => f[k] <= s[i]
           Bad == {i \in 0 .. n : ~ Good(i)}
<1>1. Bad = {}
  <2> SUFFICES ASSUME Bad # {} PROVE FALSE
    OBVIOUS
  <2>1. Bad \in SUBSET Nat
    OBVIOUS
  <2> HIDE DEF Good, Bad
  <2>2. PICK m \in Bad : \A k \in Bad : m <= k
    BY <2>1, LeastNatural
  <2>3. m \in 0 .. n /\ ~ Good(m)
    BY <2>2 DEF Bad
  <2>4. Good(0)
    BY <1>0 DEF Good
  <2>5. m \in 1 .. n /\ m - 1 \in 0 .. n /\ ~ (m <= m - 1)
    BY <2>3, <2>4
  <2>6. Good(m - 1)
    BY <2>2, <2>5 DEF Bad
  <2>7. s[m] = s[m - 1] + f[m] /\ f[m] \in Nat /\ s[m - 1] \in Nat
    BY <1>0, <2>5, <2>6 DEF Good
  <2>8. \A k \in 1 .. n : k <= m => f[k] <= s[m]
    <3> SUFFICES ASSUME NEW k \in 1 .. n, k <= m PROVE f[k] <= s[m]
      OBVIOUS
    <3>1. CASE k = m
      BY <3>1, <2>7
    <3>2. CASE k # m
      <4>1. f[k] <= s[m - 1] /\ f[k] \in Nat
        BY <3>2, <2>6, <2>5 DEF Good
      <4> QED BY <4>1, <2>7
    <3> QED BY <3>1, <3>2
  <2> QED BY <2>3, <2>7, <2>8 DEF Good
<1>2. \A i \in 0 .. n : Good(i)
  <2> HIDE DEF Good
  <2> QED BY <1>1
<1> QED BY <1>2 DEF s

(* Changing one summand changes the sum by the difference. *)
LEMMA SumChange ==
    ASSUME NEW n \in Nat, NEW f \in [1 .. n -> Nat], NEW g \in [1 .. n -> Nat],
           NEW k \in 1 .. n, \A i \in 1 .. n : i # k => g[i] = f[i]
    PROVE  Total(g, n) = Total(f, n) + g[k] - f[k]
<1> DEFINE s == SumTo(f, n)
           t == SumTo(g, n)
<1>0. /\ s[0] = 0 /\ \A i \in 1 .. n : s[i] = s[i - 1] + f[i]
      /\ t[0] = 0 /\ \A i \in 1 .. n : t[i] = t[i - 1] + g[i]
      /\ \A i \in 0 .. n : s[i] \in Nat /\ t[i] \in Nat
  BY SumStep, SumBounds
<1> HIDE DEF s, t
<1> DEFINE Good(i) == t[i] = IF i < k THEN s[i] ELSE s[i] + g[k] - f[k]
           Bad == {i \in 0 .. n : ~ Good(i)}
<1>1. Bad = {}
  <2> SUFFICES ASSUME Bad # {} PROVE FALSE
    OBVIOUS
  <2>1. Bad \in SUBSET Nat
    OBVIOUS
  <2> HIDE DEF Good, Bad
  <2>2. PICK m \in Bad : \A i \in Bad : m <= i
    BY <2>1, LeastNatural
  <2>3. m \in 0 .. n /\ ~ Good(m)
    BY <2>2 DEF Bad
  <2>4. Good(0)
    BY <1>0 DEF Good
  <2>5. m \in 1 .. n /\ m - 1 \in 0 .. n /\ ~ (m <= m - 1)
    BY <2>3, <2>4
  <2>6. Good(m - 1)
    BY <2>2, <2>5 DEF Bad
  <2>7. /\ s[m] = s[m - 1] + f[m] /\ t[m] = t[m - 1] + g[m]
        /\ s[m] \in Nat /\ t[m] \in Nat /\ s[m - 1] \in Nat /\ t[m - 1] \in Nat
        /\ f[m] \in Nat /\ g[m] \in Nat /\ f[k] \in Nat /\ g[k] \in Nat
    BY <1>0, <2>5
  <2>8. m # k => g[m] = f[m]
    BY <2>5
  <2>9. Good(m)
    <3>1. CASE m < k
      BY <3>1, <2>5, <2>6, <2>7, <2>8 DEF Good
    <3>2. CASE m = k
      <4>1. t[m - 1] = s[m - 1]
        BY <3>2, <2>5, <2>6 DEF Good
      <4>2. t[m] = s[m] + g[k] - f[k]
        BY <4>1, <2>7, <3>2
      <4> QED BY <4>2, <3>2 DEF Good
    <3>3. CASE m > k
      <4>1. t[m - 1] = s[m - 1] + g[k] - f[k]
        BY <3>3, <2>5, <2>6 DEF Good
      <4>2. g[m] = f[m]
        BY <3>3, <2>5, <2>8
      <4>3. t[m] = s[m] + g[k] - f[k]
        BY <4>1, <4>2, <2>7
      <4> QED BY <4>3, <3>3, <2>5 DEF Good
    <3> QED BY <3>1, <3>2, <3>3, <2>5
  <2> QED BY <2>3, <2>9
<1>2. Good(n)
  <2> HIDE DEF Good
  <2> QED BY <1>1
<1> QED BY <1>2 DEF s, t, Total

(* Nothing adds up to nothing. *)
LEMMA TotalZero ==
    ASSUME NEW n \in Nat, NEW f \in [1 .. n -> Nat], \A i \in 1 .. n : f[i] = 0
    PROVE  Total(f, n) = 0
<1> DEFINE s == SumTo(f, n)
           Bad == {i \in 0 .. n : s[i] # 0}
<1>1. s[0] = 0 /\ \A i \in 1 .. n : s[i] = s[i - 1] + f[i]
  BY SumStep
<1> HIDE DEF s
<1>2. Bad = {}
  <2> SUFFICES ASSUME Bad # {} PROVE FALSE
    OBVIOUS
  <2>1. PICK m \in Bad : \A i \in Bad : m <= i
    <3>1. Bad \in SUBSET Nat
      OBVIOUS
    <3> HIDE DEF Bad
    <3> QED BY <3>1, LeastNatural
  <2>2. m \in 1 .. n /\ m - 1 \in 0 .. n /\ ~ (m <= m - 1)
    BY <1>1
  <2>3. s[m - 1] = 0
    BY <2>1, <2>2
  <2> QED BY <1>1, <2>2, <2>3
<1> QED BY <1>2 DEF s, Total

(* A sum of smaller summands is smaller. *)
LEMMA SumMonotone ==
    ASSUME NEW n \in Nat, NEW f \in [1 .. n -> Nat], NEW g \in [1 .. n -> Nat],
           \A i \in 1 .. n : f[i] <= g[i]
    PROVE  Total(f, n) <= Total(g, n)
<1> DEFINE s == SumTo(f, n)
           t == SumTo(g, n)
           Bad == {i \in 0 .. n : ~ (s[i] <= t[i])}
<1>1. /\ s[0] = 0 /\ \A i \in 1 .. n : s[i] = s[i - 1] + f[i]
      /\ t[0] = 0 /\ \A i \in 1 .. n : t[i] = t[i - 1] + g[i]
      /\ \A i \in 0 .. n : s[i] \in Nat /\ t[i] \in Nat
  BY SumStep, SumBounds
<1> HIDE DEF s, t
<1>2. Bad = {}
  <2> SUFFICES ASSUME Bad # {} PROVE FALSE
    OBVIOUS
  <2>1. PICK m \in Bad : \A i \in Bad : m <= i
    <3>1. Bad \in SUBSET Nat
      OBVIOUS
    <3> HIDE DEF Bad
    <3> QED BY <3>1, LeastNatural
  <2>2. m \in 1 .. n /\ m - 1 \in 0 .. n /\ ~ (m <= m - 1) /\ ~ (s[m] <= t[m])
    BY <1>1
  <2>3. s[m - 1] <= t[m - 1]
    BY <2>1, <2>2
  <2>4. f[m] \in Nat /\ g[m] \in Nat /\ f[m] <= g[m]
    BY <2>2
  <2>5. /\ s[m] = s[m - 1] + f[m] /\ t[m] = t[m - 1] + g[m]
        /\ s[m - 1] \in Nat /\ t[m - 1] \in Nat
    BY <1>1, <2>2
  <2> QED BY <2>2, <2>3, <2>4, <2>5
<1> QED BY <1>2 DEF s, t, Total

(* What one summand falls short of, the sum falls short of. *)
LEMMA SumRoom ==
    ASSUME NEW n \in Nat, NEW f \in [1 .. n -> Nat], NEW g \in [1 .. n -> Nat],
           \A i \in 1 .. n : f[i] <= g[i],
           NEW k \in 1 .. n, NEW d \in Nat, f[k] + d <= g[k]
    PROVE  Total(f, n) + d <= Total(g, n)
<1> DEFINE h == [f EXCEPT ![k] = @ + d]
<1>1. h \in [1 .. n -> Nat] /\ h[k] = f[k] + d /\ \A i \in 1 .. n : i # k => h[i] = f[i]
  OBVIOUS
<1>2. f[k] \in Nat /\ Total(f, n) \in Nat
  <2>1. n \in 0 .. n
    OBVIOUS
  <2> QED BY <2>1, SumBounds DEF Total
<1> HIDE DEF h
<1>3. Total(h, n) = Total(f, n) + h[k] - f[k]
  BY <1>1, SumChange
<1>4. Total(h, n) <= Total(g, n)
  <2>1. \A i \in 1 .. n : h[i] <= g[i]
    BY <1>1
  <2> QED BY <1>1, <2>1, SumMonotone
<1> QED BY <1>1, <1>2, <1>3, <1>4

-----------------------------------------------------------------------------
(* Sums over a finite set, which are taken in the order that CHOOSE gives. *)

FirstOf(T) == CHOOSE x \in T : TRUE

(* Solves(s, f, S): s is what the fold over S computes. *)
Solves(s, f, S) ==
    s = [T \in SUBSET S |-> IF T = {} THEN 0 ELSE f[FirstOf(T)] + s[T \ {FirstOf(T)}]]

(* The fold is what solves its recursive equation. *)
LEMMA SumOverFold ==
    ASSUME NEW f, NEW S
    PROVE  SumOver(f, S) = (CHOOSE s : Solves(s, f, S))[S]
BY DEF SumOver, MapThenSumSet, MapThenFoldSet, Solves, FirstOf

(* In a non-empty set of subsets of a finite set, one has no other below it. *)
LEMMA MinimalSubset ==
    ASSUME NEW S, IsFiniteSet(S), NEW B \in SUBSET SUBSET S, B # {}
    PROVE  \E T \in B : \A U \in B : Cardinality(T) <= Cardinality(U)
<1> DEFINE N == {Cardinality(T) : T \in B}
<1>1. \A T \in B : IsFiniteSet(T) /\ Cardinality(T) \in Nat
  BY FS_Subset, FS_CardinalityType
<1>2. N \in SUBSET Nat /\ N # {}
  BY <1>1
<1>3. \E n \in N : \A m \in N : n <= m
  <2> HIDE DEF N
  <2> QED BY <1>2, LeastNatural
<1> QED BY <1>3

(* What is left of a finite set without its first element. *)
LEMMA FirstRemoved ==
    ASSUME NEW S, IsFiniteSet(S), NEW T \in SUBSET S, T # {}
    PROVE  /\ FirstOf(T) \in T /\ FirstOf(T) \in S
           /\ T \ {FirstOf(T)} \in SUBSET S
           /\ Cardinality(T) \in Nat \ {0}
           /\ Cardinality(T \ {FirstOf(T)}) = Cardinality(T) - 1
<1>1. FirstOf(T) \in T
  BY DEF FirstOf
<1>2. IsFiniteSet(T) /\ Cardinality(T) \in Nat
  BY FS_Subset, FS_CardinalityType
<1>3. Cardinality(T \ {FirstOf(T)}) = Cardinality(T) - 1
  BY <1>1, <1>2, FS_RemoveElement
<1>4. Cardinality(T) # 0
  BY <1>2, FS_EmptySet
<1> QED BY <1>1, <1>2, <1>3, <1>4

(* The equation has a solution, built one cardinality after the other. *)
LEMMA SumOverExists ==
    ASSUME NEW S, IsFiniteSet(S), NEW f \in [S -> Nat]
    PROVE  \E s \in [SUBSET S -> Nat] : Solves(s, f, S)
<1> DEFINE Level(n) == {T \in SUBSET S : Cardinality(T) <= n}
           Next(s, T) == IF T = {} THEN 0 ELSE f[FirstOf(T)] + s[T \ {FirstOf(T)}]
           Good(n) == \E s \in [Level(n) -> Nat] : \A T \in Level(n) : s[T] = Next(s, T)
           Bad == {n \in Nat : ~ Good(n)}
<1>0. \A T \in SUBSET S : IsFiniteSet(T) /\ Cardinality(T) \in Nat
  BY FS_Subset, FS_CardinalityType
<1>1. Bad = {}
  <2> SUFFICES ASSUME Bad # {} PROVE FALSE
    OBVIOUS
  <2>0. Bad \in SUBSET Nat
    OBVIOUS
  <2> HIDE DEF Bad, Good
  <2>1. PICK n \in Bad : \A k \in Bad : n <= k
    BY <2>0, LeastNatural
  <2>2. n \in Nat /\ ~ Good(n)
    BY <2>1 DEF Bad
  <2>3. CASE n = 0
    <3> DEFINE s == [T \in Level(0) |-> 0]
    <3>1. \A T \in Level(0) : T = {}
      BY <1>0, FS_EmptySet
    <3>2. s \in [Level(0) -> Nat] /\ \A T \in Level(0) : s[T] = Next(s, T)
      BY <3>1
    <3> QED BY <2>2, <2>3, <3>2 DEF Good
  <2>4. CASE n # 0
    <3>1. n - 1 \in Nat /\ ~ (n <= n - 1)
      BY <2>2, <2>4
    <3>2. Good(n - 1)
      BY <2>1, <3>1 DEF Bad
    <3>3. PICK s \in [Level(n - 1) -> Nat] : \A T \in Level(n - 1) : s[T] = Next(s, T)
      BY <3>2 DEF Good
    <3> DEFINE t == [T \in Level(n) |-> Next(s, T)]
    <3>4. \A T \in Level(n) : T # {} => /\ T \ {FirstOf(T)} \in Level(n - 1)
                                        /\ FirstOf(T) \in S
      <4> SUFFICES ASSUME NEW T \in Level(n), T # {}
                   PROVE  T \ {FirstOf(T)} \in Level(n - 1) /\ FirstOf(T) \in S
        OBVIOUS
      <4>1. /\ FirstOf(T) \in S /\ T \ {FirstOf(T)} \in SUBSET S
            /\ Cardinality(T) \in Nat \ {0} /\ Cardinality(T) <= n
            /\ Cardinality(T \ {FirstOf(T)}) = Cardinality(T) - 1
        BY FirstRemoved
      <4>2. Cardinality(T) - 1 <= n - 1
        BY <4>1, <2>2
      <4> QED BY <4>1, <4>2
    <3>5. \A T \in Level(n) : T # {} => s[T \ {FirstOf(T)}] \in Nat /\ f[FirstOf(T)] \in Nat
      BY <3>3, <3>4
    <3>6. t \in [Level(n) -> Nat]
      BY <3>5
    <3>7. \A T \in Level(n - 1) : T \in Level(n)
      BY <1>0, <2>2, <3>1
    <3>8. \A T \in Level(n - 1) : t[T] = s[T]
      BY <3>3, <3>7
    <3>9. \A T \in Level(n) : t[T] = Next(t, T)
      <4> SUFFICES ASSUME NEW T \in Level(n) PROVE t[T] = Next(t, T)
        OBVIOUS
      <4>1. t[T] = Next(s, T)
        OBVIOUS
      <4> HIDE DEF t, Level
      <4>2. T # {} => t[T \ {FirstOf(T)}] = s[T \ {FirstOf(T)}]
        BY <3>4, <3>8
      <4> QED BY <4>1, <4>2
    <3> HIDE DEF t, Next, Level
    <3>10. Good(n)
      BY <3>6, <3>9 DEF Good
    <3> QED BY <2>2, <3>10
  <2> QED BY <2>3, <2>4
<1> DEFINE c == Cardinality(S)
<1>2. c \in Nat /\ Level(c) = SUBSET S
  BY FS_CardinalityType, FS_Subset
<1>3. Good(c)
  <2> HIDE DEF Good
  <2> QED BY <1>1, <1>2
<1>4. PICK s \in [Level(c) -> Nat] : \A T \in Level(c) : s[T] = Next(s, T)
  BY <1>3
<1>5. s \in [SUBSET S -> Nat] /\ \A T \in SUBSET S : s[T] = Next(s, T)
  BY <1>2, <1>4
<1>6. Solves(s, f, S)
  BY <1>5 DEF Solves
<1> QED BY <1>5, <1>6

(* The sums of the subsets, with the equation that they satisfy. *)
Sums(f, S) == CHOOSE s : Solves(s, f, S)

LEMMA SumOverStep ==
    ASSUME NEW S, IsFiniteSet(S), NEW f \in [S -> Nat]
    PROVE  /\ SumOver(f, S) = Sums(f, S)[S]
           /\ Sums(f, S)[{}] = 0
           /\ \A T \in SUBSET S : T # {} =>
                  Sums(f, S)[T] = f[FirstOf(T)] + Sums(f, S)[T \ {FirstOf(T)}]
<1> DEFINE s == Sums(f, S)
<1>1. Solves(s, f, S)
  BY SumOverExists DEF Sums
<1>2. SumOver(f, S) = s[S]
  BY SumOverFold DEF Sums
<1> HIDE DEF s
<1>3. s[{}] = 0
  BY <1>1 DEF Solves
<1>4. \A T \in SUBSET S : T # {} => s[T] = f[FirstOf(T)] + s[T \ {FirstOf(T)}]
  BY <1>1 DEF Solves
<1> QED BY <1>2, <1>3, <1>4 DEF s

(* Sums of naturals are naturals. *)
LEMMA SumOverType ==
    ASSUME NEW S, IsFiniteSet(S), NEW f \in [S -> Nat]
    PROVE  \A T \in SUBSET S : Sums(f, S)[T] \in Nat
<1> DEFINE s == Sums(f, S)
           Bad == {T \in SUBSET S : s[T] \notin Nat}
<1>1. /\ s[{}] = 0
      /\ \A T \in SUBSET S : T # {} => s[T] = f[FirstOf(T)] + s[T \ {FirstOf(T)}]
  BY SumOverStep
<1> HIDE DEF s
<1>2. SUFFICES ASSUME Bad # {} PROVE FALSE
  BY DEF s
<1>3. PICK T \in Bad : \A U \in Bad : Cardinality(T) <= Cardinality(U)
  <2>1. Bad \in SUBSET SUBSET S
    OBVIOUS
  <2> HIDE DEF Bad
  <2> QED BY <1>2, <2>1, MinimalSubset
<1>4. T \in SUBSET S /\ s[T] \notin Nat
  OBVIOUS
<1>8. T # {}
  <2>1. 0 \in Nat
    OBVIOUS
  <2> QED BY <1>1, <1>4, <2>1, Zenon
<1>5. /\ FirstOf(T) \in S /\ T \ {FirstOf(T)} \in SUBSET S
      /\ Cardinality(T) \in Nat
      /\ Cardinality(T \ {FirstOf(T)}) = Cardinality(T) - 1
  BY <1>4, <1>8, FirstRemoved
<1>6. ~ (Cardinality(T) <= Cardinality(T \ {FirstOf(T)}))
  BY <1>5
<1>7. s[T \ {FirstOf(T)}] \in Nat
  BY <1>3, <1>5, <1>6
<1>9. f[FirstOf(T)] \in Nat
  BY <1>5
<1>10. s[T] = f[FirstOf(T)] + s[T \ {FirstOf(T)}]
  BY <1>1, <1>4, <1>8
<1>11. s[T] \in Nat
  BY <1>7, <1>9, <1>10
<1> QED BY <1>4, <1>11

(* And here too nothing adds up to nothing. *)
LEMMA SumOverZero ==
    ASSUME NEW S, IsFiniteSet(S), NEW f \in [S -> Nat], \A x \in S : f[x] = 0
    PROVE  SumOver(f, S) = 0
<1> DEFINE s == Sums(f, S)
           Bad == {T \in SUBSET S : s[T] # 0}
<1>1. /\ s[{}] = 0 /\ SumOver(f, S) = s[S]
      /\ \A T \in SUBSET S : T # {} => s[T] = f[FirstOf(T)] + s[T \ {FirstOf(T)}]
  BY SumOverStep
<1> HIDE DEF s
<1>2. SUFFICES ASSUME Bad # {} PROVE FALSE
  BY <1>1
<1>3. PICK T \in Bad : \A U \in Bad : Cardinality(T) <= Cardinality(U)
  <2>1. Bad \in SUBSET SUBSET S
    OBVIOUS
  <2> HIDE DEF Bad
  <2> QED BY <1>2, <2>1, MinimalSubset
<1>4. T \in SUBSET S /\ T # {} /\ s[T] # 0
  BY <1>1
<1>5. /\ FirstOf(T) \in S /\ T \ {FirstOf(T)} \in SUBSET S
      /\ Cardinality(T) \in Nat
      /\ Cardinality(T \ {FirstOf(T)}) = Cardinality(T) - 1
  BY <1>4, FirstRemoved
<1>6. ~ (Cardinality(T) <= Cardinality(T \ {FirstOf(T)}))
  BY <1>5
<1>7. s[T \ {FirstOf(T)}] = 0
  BY <1>3, <1>5, <1>6
<1> QED BY <1>1, <1>4, <1>5, <1>7

(* Changing one summand changes the sum by the difference: both sums are    *)
(* taken in the same order.                                                 *)
LEMMA SumOverChange ==
    ASSUME NEW S, IsFiniteSet(S), NEW f \in [S -> Nat], NEW g \in [S -> Nat],
           NEW k \in S, \A x \in S : x # k => g[x] = f[x]
    PROVE  /\ SumOver(f, S) \in Nat
           /\ SumOver(g, S) = SumOver(f, S) + g[k] - f[k]
<1> DEFINE s == Sums(f, S)
           t == Sums(g, S)
           Good(T) == t[T] = IF k \in T THEN s[T] + g[k] - f[k] ELSE s[T]
           Bad == {T \in SUBSET S : ~ Good(T)}
<1>1. /\ s[{}] = 0 /\ SumOver(f, S) = s[S]
      /\ \A T \in SUBSET S : T # {} => s[T] = f[FirstOf(T)] + s[T \ {FirstOf(T)}]
  BY SumOverStep
<1>2. /\ t[{}] = 0 /\ SumOver(g, S) = t[S]
      /\ \A T \in SUBSET S : T # {} => t[T] = g[FirstOf(T)] + t[T \ {FirstOf(T)}]
  BY SumOverStep
<1>3. \A T \in SUBSET S : s[T] \in Nat /\ t[T] \in Nat
  BY SumOverType
<1> HIDE DEF s, t
<1>4. Bad = {}
  <2> SUFFICES ASSUME Bad # {} PROVE FALSE
    OBVIOUS
  <2>1. PICK T \in Bad : \A U \in Bad : Cardinality(T) <= Cardinality(U)
    <3>1. Bad \in SUBSET SUBSET S
      OBVIOUS
    <3> HIDE DEF Bad
    <3> QED BY <3>1, MinimalSubset
  <2>2. T \in SUBSET S /\ ~ Good(T)
    OBVIOUS
  <2>3. T # {}
    BY <2>2, <1>1, <1>2
  <2> DEFINE x == FirstOf(T)
             R == T \ {x}
  <2>4. /\ x \in T /\ x \in S /\ R \in SUBSET S
        /\ Cardinality(T) \in Nat /\ Cardinality(R) = Cardinality(T) - 1
    BY <2>2, <2>3, FirstRemoved
  <2>5. ~ (Cardinality(T) <= Cardinality(R))
    BY <2>4
  <2>6. Good(R)
    BY <2>1, <2>4, <2>5
  <2>7. s[T] = f[x] + s[R] /\ t[T] = g[x] + t[R]
    BY <1>1, <1>2, <2>2, <2>3
  <2>8. /\ f[x] \in Nat /\ g[x] \in Nat /\ f[k] \in Nat /\ g[k] \in Nat
        /\ s[R] \in Nat /\ t[R] \in Nat
    BY <1>3, <2>4
  <2>9. x \notin R /\ (k \in T <=> k \in R \/ k = x)
    BY <2>4
  <2>10. x # k => g[x] = f[x]
    BY <2>4
  <2> HIDE DEF x, R
  <2>11. CASE x = k
    <3>1. t[R] = s[R] /\ k \in T
      BY <2>6, <2>9, <2>11
    <3>2. t[T] = s[T] + g[k] - f[k]
      BY <3>1, <2>7, <2>8, <2>11
    <3> QED BY <3>1, <3>2, <2>2
  <2>12. CASE x # k /\ k \in R
    <3>1. t[R] = s[R] + g[k] - f[k] /\ k \in T
      BY <2>6, <2>9, <2>12
    <3>2. t[T] = s[T] + g[k] - f[k]
      BY <3>1, <2>7, <2>8, <2>10, <2>12
    <3> QED BY <3>1, <3>2, <2>2
  <2>13. CASE x # k /\ k \notin R
    <3>1. t[R] = s[R] /\ k \notin T
      BY <2>6, <2>9, <2>13
    <3>2. t[T] = s[T]
      BY <3>1, <2>7, <2>8, <2>10, <2>13
    <3> QED BY <3>1, <3>2, <2>2
  <2> QED BY <2>11, <2>12, <2>13
<1>5. Good(S)
  <2> HIDE DEF Good
  <2> QED BY <1>4
<1> QED BY <1>1, <1>2, <1>3, <1>5

-----------------------------------------------------------------------------
(* The greedy split. *)

SplitCases(ladder) == Nat \X (0 .. Len(ladder))

LadderNotes(ladder) == {ladder[i] : i \in 1 .. Len(ladder)}

(* The case p of the split, where s is the split of the smaller cases. *)
SplitCase(ladder, s, p) ==
    IF p[2] = 0 THEN <<>>
    ELSE IF p[1] >= ladder[p[2]]
         THEN <<ladder[p[2]]>> \o s[<<p[1] - ladder[p[2]], p[2]>>]
    ELSE s[<<p[1], p[2] - 1>>]

(* The cases of a measure of at most n. *)
CasesTo(ladder, n) == {p \in SplitCases(ladder) : p[1] + p[2] <= n}

SplitsTo(ladder, n, s) ==
    /\ s \in [CasesTo(ladder, n) -> Seq(LadderNotes(ladder))]
    /\ \A p \in CasesTo(ladder, n) : s[p] = SplitCase(ladder, s, p)

(* The case that comes before p. *)
Before(ladder, p) ==
    IF p[1] >= ladder[p[2]] THEN <<p[1] - ladder[p[2]], p[2]>> ELSE <<p[1], p[2] - 1>>

(* It has a smaller measure, so that the recursion is well-founded. *)
LEMMA BeforeSmaller ==
    ASSUME NEW ladder \in Seq(Nat \ {0}), NEW p \in SplitCases(ladder), p[2] # 0
    PROVE  /\ Before(ladder, p) \in SplitCases(ladder)
           /\ Before(ladder, p)[1] + Before(ladder, p)[2] < p[1] + p[2]
           /\ ladder[p[2]] \in LadderNotes(ladder) /\ ladder[p[2]] \in Nat \ {0}
<1>1. p[1] \in Nat /\ p[2] \in 1 .. Len(ladder) /\ Len(ladder) \in Nat
  BY DEF SplitCases
<1>2. ladder[p[2]] \in Nat \ {0} /\ ladder[p[2]] \in LadderNotes(ladder)
  BY <1>1 DEF LadderNotes
<1> DEFINE a == p[1]
           i == p[2]
           d == ladder[p[2]]
           q == Before(ladder, p)
<1>3. CASE a >= d
  <2>1. q = <<a - d, i>>
    BY <1>3 DEF Before
  <2>2. a - d \in Nat /\ i \in 0 .. Len(ladder) /\ (a - d) + i < a + i
    BY <1>1, <1>2, <1>3
  <2> QED BY <1>2, <2>1, <2>2 DEF SplitCases
<1>4. CASE ~ (a >= d)
  <2>1. q = <<a, i - 1>>
    BY <1>4 DEF Before
  <2>2. i - 1 \in 0 .. Len(ladder) /\ a + (i - 1) < a + i
    BY <1>1
  <2> QED BY <1>1, <1>2, <2>1, <2>2 DEF SplitCases
<1> QED BY <1>3, <1>4

(* What a case is, in terms of the case before it. *)
LEMMA SplitCaseBefore ==
    ASSUME NEW ladder, NEW s, NEW p
    PROVE  /\ p[2] = 0 => SplitCase(ladder, s, p) = <<>>
           /\ p[2] # 0 =>
                SplitCase(ladder, s, p) =
                    IF p[1] >= ladder[p[2]]
                    THEN <<ladder[p[2]]>> \o s[Before(ladder, p)]
                    ELSE s[Before(ladder, p)]
BY DEF SplitCase, Before

(* There is a split up to every measure. *)
LEMMA SplitsToExist ==
    ASSUME NEW ladder \in Seq(Nat \ {0}), NEW n \in Nat
    PROVE  \E s : SplitsTo(ladder, n, s)
<1> DEFINE Bad == {k \in Nat : ~ \E s : SplitsTo(ladder, k, s)}
<1> SUFFICES ASSUME Bad # {} PROVE FALSE
  OBVIOUS
<1>1. PICK k \in Bad : \A j \in Bad : k <= j
  <2>1. Bad \in SUBSET Nat
    OBVIOUS
  <2> HIDE DEF Bad
  <2> QED BY <2>1, LeastNatural
<1>2. k \in Nat /\ ~ \E s : SplitsTo(ladder, k, s)
  BY <1>1
<1> DEFINE R == Seq(LadderNotes(ladder))
<1>3. \E s : /\ \A p \in CasesTo(ladder, k) : p[2] # 0 => s[Before(ladder, p)] \in R
             /\ \A p \in CasesTo(ladder, k - 1) : s[p] = SplitCase(ladder, s, p)
             /\ \A p \in CasesTo(ladder, k) : p[2] # 0 => Before(ladder, p) \in CasesTo(ladder, k - 1)
  <2>1. CASE k = 0
    <3>1. \A p \in CasesTo(ladder, 0) : p[2] = 0
      BY DEF CasesTo, SplitCases
    <3>2. CasesTo(ladder, 0 - 1) = {}
      BY DEF CasesTo, SplitCases
    <3> QED BY <2>1, <3>1, <3>2
  <2>2. CASE k # 0
    <3>1. k - 1 \in Nat /\ ~ (k <= k - 1)
      BY <1>2, <2>2
    <3>2. PICK s : SplitsTo(ladder, k - 1, s)
      BY <1>1, <3>1
    <3>3. ASSUME NEW p \in CasesTo(ladder, k), p[2] # 0
          PROVE  Before(ladder, p) \in CasesTo(ladder, k - 1)
      <4> DEFINE q == Before(ladder, p)
      <4>1. p \in SplitCases(ladder) /\ p[1] + p[2] <= k /\ p[1] + p[2] \in Nat
        BY DEF CasesTo, SplitCases
      <4>2. q \in SplitCases(ladder) /\ q[1] + q[2] < p[1] + p[2] /\ q[1] + q[2] \in Nat
        BY <3>3, <4>1, BeforeSmaller DEF SplitCases
      <4> HIDE DEF q
      <4>3. q[1] + q[2] <= k - 1
        BY <1>2, <4>1, <4>2
      <4> QED BY <4>2, <4>3 DEF CasesTo, q
    <3> QED BY <3>2, <3>3 DEF SplitsTo
  <2> QED BY <2>1, <2>2
<1>4. PICK s : /\ \A p \in CasesTo(ladder, k) : p[2] # 0 => s[Before(ladder, p)] \in R
               /\ \A p \in CasesTo(ladder, k - 1) : s[p] = SplitCase(ladder, s, p)
               /\ \A p \in CasesTo(ladder, k) : p[2] # 0 => Before(ladder, p) \in CasesTo(ladder, k - 1)
  BY <1>3
<1> DEFINE t == [p \in CasesTo(ladder, k) |-> SplitCase(ladder, s, p)]
<1>5. t \in [CasesTo(ladder, k) -> R]
  <2> SUFFICES ASSUME NEW p \in CasesTo(ladder, k) PROVE SplitCase(ladder, s, p) \in R
    OBVIOUS
  <2>1. CASE p[2] = 0
    BY <2>1, SplitCaseBefore, EmptySeq
  <2>2. CASE p[2] # 0
    <3>1. s[Before(ladder, p)] \in R /\ <<ladder[p[2]]>> \in R
      BY <1>4, <2>2, BeforeSmaller DEF CasesTo
    <3>2. <<ladder[p[2]]>> \o s[Before(ladder, p)] \in R
      BY <3>1, ConcatProperties
    <3> QED BY <2>2, <3>1, <3>2, SplitCaseBefore
  <2> QED BY <2>1, <2>2
<1>6. \A p \in CasesTo(ladder, k) : t[p] = SplitCase(ladder, t, p)
  <2> SUFFICES ASSUME NEW p \in CasesTo(ladder, k) PROVE t[p] = SplitCase(ladder, t, p)
    OBVIOUS
  <2>1. t[p] = SplitCase(ladder, s, p)
    OBVIOUS
  <2>2. ASSUME p[2] # 0 PROVE t[Before(ladder, p)] = s[Before(ladder, p)]
    <3>1. Before(ladder, p) \in CasesTo(ladder, k - 1) /\ Before(ladder, p) \in CasesTo(ladder, k)
      BY <1>2, <1>4, <2>2 DEF CasesTo, SplitCases
    <3> QED BY <1>4, <3>1
  <2> HIDE DEF t
  <2> QED BY <2>1, <2>2, SplitCaseBefore
<1> HIDE DEF t
<1>7. SplitsTo(ladder, k, t)
  BY <1>5, <1>6 DEF SplitsTo
<1> QED BY <1>2, <1>7

(* Two of them agree where both are defined. *)
LEMMA SplitsToAgree ==
    ASSUME NEW ladder \in Seq(Nat \ {0}), NEW n \in Nat, NEW m \in Nat, NEW s, NEW t,
           SplitsTo(ladder, n, s), SplitsTo(ladder, m, t), n <= m
    PROVE  \A p \in CasesTo(ladder, n) : s[p] = t[p]
<1> DEFINE Bad == {k \in Nat : \E p \in CasesTo(ladder, n) : s[p] # t[p] /\ p[1] + p[2] = k}
<1> SUFFICES ASSUME Bad # {} PROVE FALSE
  <2>1. \A p \in CasesTo(ladder, n) : p[1] + p[2] \in Nat
    BY DEF CasesTo, SplitCases
  <2> QED BY <2>1
<1>1. PICK k \in Bad : \A j \in Bad : k <= j
  <2>1. Bad \in SUBSET Nat
    OBVIOUS
  <2> HIDE DEF Bad
  <2> QED BY <2>1, LeastNatural
<1>2. PICK p \in CasesTo(ladder, n) : s[p] # t[p] /\ p[1] + p[2] = k
  BY <1>1
<1>3. p \in CasesTo(ladder, m) /\ p \in SplitCases(ladder)
  BY DEF CasesTo, SplitCases
<1>4. s[p] = SplitCase(ladder, s, p) /\ t[p] = SplitCase(ladder, t, p)
  BY <1>3 DEF SplitsTo
<1>5. p[2] # 0
  BY <1>2, <1>4, SplitCaseBefore
<1> DEFINE q == Before(ladder, p)
<1>6. q \in SplitCases(ladder) /\ q[1] + q[2] < p[1] + p[2]
  BY <1>3, <1>5, BeforeSmaller
<1>7. s[q] # t[q]
  BY <1>2, <1>4, <1>5, SplitCaseBefore
<1> HIDE DEF q
<1>8. q \in CasesTo(ladder, n) /\ q[1] + q[2] \in Nat
  BY <1>3, <1>6 DEF CasesTo, SplitCases
<1>9. q[1] + q[2] \in Bad
  BY <1>7, <1>8
<1>10. k <= q[1] + q[2]
  BY <1>1, <1>9
<1> QED BY <1>2, <1>6, <1>8, <1>10

(* The greedy split is defined, into notes of the ladder, by its equation.  *)
LEMMA GreedySplit ==
    ASSUME NEW ladder \in Seq(Nat \ {0})
    PROVE  /\ GreedySplits(ladder) \in [SplitCases(ladder) -> Seq(LadderNotes(ladder))]
           /\ \A p \in SplitCases(ladder) :
                GreedySplits(ladder)[p] = SplitCase(ladder, GreedySplits(ladder), p)
<1> DEFINE Is(s) == s = [p \in SplitCases(ladder) |-> SplitCase(ladder, s, p)]
           To(n) == CHOOSE s : SplitsTo(ladder, n, s)
           all == [p \in SplitCases(ladder) |-> To(p[1] + p[2])[p]]
<1>1. \A n \in Nat : SplitsTo(ladder, n, To(n))
  BY SplitsToExist
<1>2. \A n, m \in Nat : n <= m => \A p \in CasesTo(ladder, n) : To(n)[p] = To(m)[p]
  <2> HIDE DEF To
  <2> QED BY <1>1, SplitsToAgree
<1> HIDE DEF To
<1>3. \A p \in SplitCases(ladder) : p[1] + p[2] \in Nat /\ p \in CasesTo(ladder, p[1] + p[2])
  BY DEF SplitCases, CasesTo
<1>4. \A p \in SplitCases(ladder) :
          /\ all[p] \in Seq(LadderNotes(ladder))
          /\ all[p] = SplitCase(ladder, all, p)
  <2> SUFFICES ASSUME NEW p \in SplitCases(ladder)
               PROVE  /\ all[p] \in Seq(LadderNotes(ladder))
                      /\ all[p] = SplitCase(ladder, all, p)
    OBVIOUS
  <2> DEFINE n == p[1] + p[2]
             q == Before(ladder, p)
  <2>1. n \in Nat /\ p \in CasesTo(ladder, n) /\ SplitsTo(ladder, n, To(n))
    BY <1>1, <1>3
  <2>2. all[p] = To(n)[p]
    OBVIOUS
  <2> HIDE DEF n
  <2>3. To(n)[p] \in Seq(LadderNotes(ladder)) /\ To(n)[p] = SplitCase(ladder, To(n), p)
    BY <2>1 DEF SplitsTo
  <2>4. ASSUME p[2] # 0 PROVE all[q] = To(n)[q]
    <3>1. q \in SplitCases(ladder) /\ q[1] + q[2] < n
      BY <2>4, BeforeSmaller DEF n
    <3> HIDE DEF q
    <3>2. all[q] = To(q[1] + q[2])[q]
      BY <3>1
    <3> HIDE DEF all
    <3>3. q[1] + q[2] \in Nat /\ q \in CasesTo(ladder, q[1] + q[2])
      BY <1>3, <3>1
    <3>4. To(q[1] + q[2])[q] = To(n)[q]
      BY <1>2, <2>1, <3>1, <3>3
    <3> QED BY <3>2, <3>4
  <2> HIDE DEF all
  <2> QED BY <2>2, <2>3, <2>4, SplitCaseBefore
<1>5. Is(all)
  BY <1>4
<1> DEFINE s == GreedySplits(ladder)
<1>6. s = CHOOSE x : Is(x)
  BY DEF GreedySplits, SplitCases, SplitCase
<1> HIDE DEF s, all, Is
<1>7. Is(s)
  BY <1>5, <1>6
<1>8. s \in [SplitCases(ladder) -> Seq(LadderNotes(ladder))]
  <2> DEFINE Bad == {k \in Nat : \E p \in SplitCases(ladder) :
                                      s[p] \notin Seq(LadderNotes(ladder)) /\ p[1] + p[2] = k}
  <2>1. s = [p \in SplitCases(ladder) |-> SplitCase(ladder, s, p)]
    BY <1>7 DEF Is
  <2>2. Bad = {}
    <3> SUFFICES ASSUME Bad # {} PROVE FALSE
      OBVIOUS
    <3>1. PICK k \in Bad : \A j \in Bad : k <= j
      <4>1. Bad \in SUBSET Nat
        OBVIOUS
      <4> HIDE DEF Bad
      <4> QED BY <4>1, LeastNatural
    <3>2. PICK p \in SplitCases(ladder) : s[p] \notin Seq(LadderNotes(ladder)) /\ p[1] + p[2] = k
      BY <3>1
    <3>3. s[p] = SplitCase(ladder, s, p)
      BY <2>1
    <3>4. p[2] # 0
      BY <3>2, <3>3, SplitCaseBefore, EmptySeq
    <3> DEFINE q == Before(ladder, p)
    <3>5. /\ q \in SplitCases(ladder) /\ q[1] + q[2] < p[1] + p[2]
          /\ ladder[p[2]] \in LadderNotes(ladder)
      BY <3>4, BeforeSmaller
    <3>6. s[q] \notin Seq(LadderNotes(ladder))
      <4> SUFFICES ASSUME s[q] \in Seq(LadderNotes(ladder)) PROVE FALSE
        OBVIOUS
      <4>1. <<ladder[p[2]]>> \o s[q] \in Seq(LadderNotes(ladder))
        <5>1. <<ladder[p[2]]>> \in Seq(LadderNotes(ladder))
          BY <3>5
        <5> QED BY <5>1, ConcatProperties
      <4> QED BY <3>2, <3>3, <3>4, <4>1, SplitCaseBefore
    <3> HIDE DEF q
    <3>7. q[1] + q[2] \in Nat
      <4>1. q[1] \in Nat /\ q[2] \in 0 .. Len(ladder)
        BY <3>5 DEF SplitCases
      <4> QED BY <4>1
    <3>8. q[1] + q[2] \in Bad
      BY <3>5, <3>6, <3>7
    <3>9. k <= q[1] + q[2]
      BY <3>1, <3>8
    <3> QED BY <3>2, <3>5, <3>7, <3>9
  <2>3. \A p \in SplitCases(ladder) : s[p] \in Seq(LadderNotes(ladder))
    BY <1>3, <2>2
  <2> QED BY <2>1, <2>3
<1>9. \A p \in SplitCases(ladder) : s[p] = SplitCase(ladder, s, p)
  BY <1>7 DEF Is
<1> QED BY <1>8, <1>9 DEF s

(* The split of an amount over a non-empty ladder takes a note, when the    *)
(* amount covers the smallest.                                              *)
LEMMA GreedyTakes ==
    ASSUME NEW ladder \in Seq(Nat \ {0}), NEW r \in Nat, NEW i \in 1 .. Len(ladder),
           r >= ladder[1]
    PROVE  GreedySplits(ladder)[<<r, i>>] # <<>>
<1> DEFINE s == GreedySplits(ladder)
           Bad == {j \in 1 .. Len(ladder) : s[<<r, j>>] = <<>>}
<1>1. /\ s \in [SplitCases(ladder) -> Seq(LadderNotes(ladder))]
      /\ \A p \in SplitCases(ladder) : s[p] = SplitCase(ladder, s, p)
  BY GreedySplit
<1> HIDE DEF s
<1>2. SUFFICES ASSUME Bad # {} PROVE FALSE
  BY DEF s
<1>3. PICK j \in Bad : \A k \in Bad : j <= k
  <2>1. Bad \in SUBSET Nat
    OBVIOUS
  <2> HIDE DEF Bad
  <2> QED BY <1>2, <2>1, LeastNatural
<1> DEFINE p == <<r, j>>
<1>4. /\ j \in 1 .. Len(ladder) /\ s[p] = <<>> /\ Len(ladder) \in Nat
      /\ p \in SplitCases(ladder) /\ p[1] = r /\ p[2] = j /\ j # 0
  BY <1>3 DEF SplitCases
<1>a. Before(ladder, p) = IF r >= ladder[j] THEN <<r - ladder[j], j>> ELSE <<r, j - 1>>
  BY DEF Before
<1> HIDE DEF p
<1>5. s[p] = IF r >= ladder[j] THEN <<ladder[j]>> \o s[Before(ladder, p)]
                               ELSE s[Before(ladder, p)]
  <2>1. SplitCase(ladder, s, p) = IF p[1] >= ladder[p[2]]
                                  THEN <<ladder[p[2]]>> \o s[Before(ladder, p)]
                                  ELSE s[Before(ladder, p)]
    BY <1>4, SplitCaseBefore
  <2> QED BY <1>1, <1>4, <2>1
<1>6. Before(ladder, p) \in SplitCases(ladder) /\ ladder[j] \in LadderNotes(ladder)
  BY <1>4, BeforeSmaller
<1>7. ~ (r >= ladder[j])
  <2> SUFFICES ASSUME r >= ladder[j] PROVE FALSE
    OBVIOUS
  <2>1. /\ <<ladder[j]>> \in Seq(LadderNotes(ladder))
        /\ s[Before(ladder, p)] \in Seq(LadderNotes(ladder))
    BY <1>1, <1>6
  <2>2. Len(<<ladder[j]>> \o s[Before(ladder, p)]) = 1 + Len(s[Before(ladder, p)])
    BY <2>1, ConcatProperties
  <2>3. Len(s[Before(ladder, p)]) \in Nat
    BY <2>1
  <2>4. Len(<<ladder[j]>> \o s[Before(ladder, p)]) # 0
    BY <2>2, <2>3
  <2>5. Len(s[p]) # 0
    BY <1>5, <2>4
  <2> QED BY <1>4, <2>5
<1>8. j - 1 \in 1 .. Len(ladder) /\ ~ (j <= j - 1)
  BY <1>4, <1>7
<1>9. s[<<r, j - 1>>] = <<>>
  BY <1>4, <1>5, <1>7, <1>a
<1> QED BY <1>3, <1>8, <1>9
=============================================================================
