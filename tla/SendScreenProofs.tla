-------------------------- MODULE SendScreenProofs --------------------------
(***************************************************************************)
(* The send screen: the plan is the best one for any set of notes and any  *)
(* fee, and no step of any number of tabs, nor the melt beside them, makes *)
(* a record count money that is not there, or hides money that is.         *)
(***************************************************************************)
EXTENDS SendScreen, SumsProofs

-----------------------------------------------------------------------------
(* What a set of notes holds. *)

Records == [wallet : Wallets, denom : Nat]

Finite(S) == S \subseteq Records /\ IsFiniteSet(S)

Denominations(S) == [n \in S |-> n.denom]

(* A part of a finite set of notes is one, and has a cardinality. *)
LEMMA FiniteParts ==
    ASSUME NEW S, Finite(S), NEW T \in SUBSET S
    PROVE  Finite(T) /\ Cardinality(T) \in Nat /\ Cardinality(T) <= Cardinality(S)
BY FS_Subset, FS_CardinalityType DEF Finite

(* The sum of spend.ts (balanceOfNotes) as one of Sums. *)
LEMMA HeldIsSum ==
    ASSUME NEW S
    PROVE  Held(S) = SumOver(Denominations(S), S)
<1> DEFINE Iter(s) == s = [T \in SUBSET S |->
                             IF T = {} THEN 0 ELSE FirstOf(T).denom + s[T \ {FirstOf(T)}]]
<1>1. Held(S) = (CHOOSE s : Iter(s))[S]
  BY DEF Held, MapThenSumSet, MapThenFoldSet, FirstOf
<1>2. ASSUME NEW s PROVE Iter(s) <=> Solves(s, Denominations(S), S)
  <2>1. \A T \in SUBSET S : T # {} => Denominations(S)[FirstOf(T)] = FirstOf(T).denom
    BY DEF FirstOf, Denominations
  <2>2. [T \in SUBSET S |-> IF T = {} THEN 0 ELSE FirstOf(T).denom + s[T \ {FirstOf(T)}]]
        = [T \in SUBSET S |-> IF T = {} THEN 0
                              ELSE Denominations(S)[FirstOf(T)] + s[T \ {FirstOf(T)}]]
    BY <2>1
  <2> QED BY <2>2 DEF Solves
<1> HIDE DEF Iter
<1>3. (CHOOSE s : Iter(s)) = (CHOOSE s : Solves(s, Denominations(S), S))
  BY <1>2
<1> QED BY <1>1, <1>3, SumOverFold

(* The sum over a part is the one that the sum over the whole passes.       *)
LEMMA HeldOfPart ==
    ASSUME NEW S, Finite(S), NEW T \in SUBSET S
    PROVE  Held(T) = Sums(Denominations(S), S)[T]
<1> DEFINE s == Sums(Denominations(S), S)
           t == Sums(Denominations(T), T)
           Bad == {U \in SUBSET T : t[U] # s[U]}
<1>0. IsFiniteSet(S) /\ IsFiniteSet(T) /\ T \subseteq Records /\ S \subseteq Records
  BY FiniteParts DEF Finite
<1>f. /\ Denominations(S) \in [S -> Nat] /\ Denominations(T) \in [T -> Nat]
      /\ \A n \in T : Denominations(S)[n] = Denominations(T)[n]
  BY <1>0 DEF Denominations, Records
<1>1. /\ s[{}] = 0
      /\ \A U \in SUBSET S : U # {} =>
           s[U] = Denominations(S)[FirstOf(U)] + s[U \ {FirstOf(U)}]
  BY <1>0, <1>f, SumOverStep
<1>2. /\ t[{}] = 0 /\ SumOver(Denominations(T), T) = t[T]
      /\ \A U \in SUBSET T : U # {} =>
           t[U] = Denominations(T)[FirstOf(U)] + t[U \ {FirstOf(U)}]
  BY <1>0, <1>f, SumOverStep
<1> HIDE DEF s, t
<1>3. Bad = {}
  <2> SUFFICES ASSUME Bad # {} PROVE FALSE
    OBVIOUS
  <2>1. PICK U \in Bad : \A V \in Bad : Cardinality(U) <= Cardinality(V)
    <3>1. Bad \in SUBSET SUBSET T
      OBVIOUS
    <3> HIDE DEF Bad
    <3> QED BY <1>0, <3>1, MinimalSubset
  <2>2. U \in SUBSET T /\ U # {} /\ U \in SUBSET S /\ t[U] # s[U]
    BY <1>1, <1>2
  <2>3. /\ FirstOf(U) \in T /\ U \ {FirstOf(U)} \in SUBSET T
        /\ Cardinality(U) \in Nat
        /\ Cardinality(U \ {FirstOf(U)}) = Cardinality(U) - 1
    BY <1>0, <2>2, FirstRemoved
  <2>4. ~ (Cardinality(U) <= Cardinality(U \ {FirstOf(U)}))
    BY <2>3
  <2>5. t[U \ {FirstOf(U)}] = s[U \ {FirstOf(U)}]
    BY <2>1, <2>3, <2>4
  <2> QED BY <1>1, <1>2, <1>f, <2>2, <2>3, <2>5
<1>4. t[T] = s[T]
  BY <1>3
<1> QED BY <1>2, <1>4, HeldIsSum DEF s

LEMMA HeldFirst ==
    ASSUME NEW S, Finite(S)
    PROVE  /\ Held(S) \in Nat
           /\ S = {} => Held(S) = 0
           /\ S # {} => Held(S) = FirstOf(S).denom + Held(S \ {FirstOf(S)})
<1> DEFINE s == Sums(Denominations(S), S)
<1>0. IsFiniteSet(S) /\ Denominations(S) \in [S -> Nat]
  BY DEF Finite, Denominations, Records
<1>1. /\ s[{}] = 0
      /\ S # {} => s[S] = Denominations(S)[FirstOf(S)] + s[S \ {FirstOf(S)}]
      /\ s[S] \in Nat
  <2>1. S \in SUBSET S
    OBVIOUS
  <2> QED BY <1>0, <2>1, SumOverStep, SumOverType
<1>2. Held(S) = s[S] /\ Held(S \ {FirstOf(S)}) = s[S \ {FirstOf(S)}]
  BY HeldOfPart
<1>3. S # {} => Denominations(S)[FirstOf(S)] = FirstOf(S).denom
  BY DEF Denominations, FirstOf
<1> HIDE DEF s
<1> QED BY <1>1, <1>2, <1>3

(* A set of parts of a finite set of notes has a smallest one. *)
LEMMA SmallestPart ==
    ASSUME NEW S, Finite(S), NEW B \in SUBSET SUBSET S, B # {}
    PROVE  \E T \in B :
             /\ Finite(T) /\ T \in SUBSET S
             /\ \A x \in T : /\ T \ {x} \notin B /\ Finite(T \ {x})
                             /\ T \ {x} \in SUBSET S /\ x \in Records
                             /\ Cardinality(T) = Cardinality(T \ {x}) + 1
                             /\ Cardinality(T \ {x}) \in Nat
<1>1. PICK T \in B : \A U \in B : Cardinality(T) <= Cardinality(U)
  BY MinimalSubset DEF Finite
<1>2. Finite(T) /\ T \in SUBSET S
  BY FiniteParts
<1>3. ASSUME NEW x \in T
      PROVE  /\ T \ {x} \notin B /\ Finite(T \ {x})
             /\ T \ {x} \in SUBSET S /\ x \in Records
             /\ Cardinality(T) = Cardinality(T \ {x}) + 1
             /\ Cardinality(T \ {x}) \in Nat
  <2>1. Finite(T \ {x}) /\ Cardinality(T \ {x}) \in Nat /\ Cardinality(T) \in Nat
    BY <1>2, FiniteParts
  <2>2. Cardinality(T \ {x}) = Cardinality(T) - 1
    BY <1>2, FS_RemoveElement DEF Finite
  <2>3. ~ (Cardinality(T) <= Cardinality(T \ {x}))
    BY <2>1, <2>2
  <2> QED BY <1>1, <1>2, <2>1, <2>2, <2>3 DEF Finite
<1> QED BY <1>1, <1>2, <1>3

(* Any note may be the one that is counted first. *)
LEMMA HeldWithout ==
    ASSUME NEW S, Finite(S), NEW x \in S
    PROVE  Held(S) = x.denom + Held(S \ {x})
<1> DEFINE Good(T) == \A y \in T : Held(T) = y.denom + Held(T \ {y})
           Bad == {T \in SUBSET S : ~ Good(T)}
<1>1. Bad = {}
  <2> SUFFICES ASSUME Bad # {} PROVE FALSE
    OBVIOUS
  <2>1. PICK T \in Bad :
             /\ Finite(T) /\ T \in SUBSET S
             /\ \A z \in T : /\ T \ {z} \notin Bad /\ Finite(T \ {z})
                             /\ T \ {z} \in SUBSET S /\ z \in Records
                             /\ Cardinality(T) = Cardinality(T \ {z}) + 1
                             /\ Cardinality(T \ {z}) \in Nat
    <3>1. Bad \in SUBSET SUBSET S
      OBVIOUS
    <3> HIDE DEF Bad
    <3> QED BY <3>1, SmallestPart
  <2>2. PICK y \in T : Held(T) # y.denom + Held(T \ {y})
    OBVIOUS
  <2> DEFINE f == FirstOf(T)
  <2>3. f \in T /\ Held(T) = f.denom + Held(T \ {f}) /\ y # f
    BY <2>1, <2>2, HeldFirst DEF FirstOf
  <2> HIDE DEF f
  <2>4. Good(T \ {f}) /\ Good(T \ {y})
    BY <2>1, <2>2, <2>3
  <2>5. /\ Held(T \ {f}) = y.denom + Held((T \ {f}) \ {y})
        /\ Held(T \ {y}) = f.denom + Held((T \ {y}) \ {f})
    BY <2>2, <2>3, <2>4
  <2>6. (T \ {f}) \ {y} = (T \ {y}) \ {f}
    OBVIOUS
  <2>7. /\ y.denom \in Nat /\ f.denom \in Nat /\ Held((T \ {y}) \ {f}) \in Nat
    <3>1. Finite((T \ {y}) \ {f})
      BY <2>1, <2>2, FiniteParts
    <3> QED BY <2>1, <2>2, <2>3, <3>1, HeldFirst DEF Records
  <2> QED BY <2>2, <2>3, <2>5, <2>6, <2>7
<1>2. Good(S)
  <2> HIDE DEF Good
  <2> QED BY <1>1
<1> QED BY <1>2

(* Two sets of notes without a common one. *)
LEMMA HeldUnion ==
    ASSUME NEW S, Finite(S), NEW T \in SUBSET S
    PROVE  /\ Held(S) = Held(T) + Held(S \ T)
           /\ Cardinality(S) = Cardinality(T) + Cardinality(S \ T)
<1> DEFINE Good(U) == Held(U) = Held(U \cap T) + Held(U \ T)
           Bad == {U \in SUBSET S : ~ Good(U)}
<1>1. Bad = {}
  <2> SUFFICES ASSUME Bad # {} PROVE FALSE
    OBVIOUS
  <2>1. PICK U \in Bad :
             /\ Finite(U) /\ U \in SUBSET S
             /\ \A z \in U : /\ U \ {z} \notin Bad /\ Finite(U \ {z})
                             /\ U \ {z} \in SUBSET S /\ z \in Records
                             /\ Cardinality(U) = Cardinality(U \ {z}) + 1
                             /\ Cardinality(U \ {z}) \in Nat
    <3>1. Bad \in SUBSET SUBSET S
      OBVIOUS
    <3> HIDE DEF Bad
    <3> QED BY <3>1, SmallestPart
  <2>2. ~ Good(U) /\ Finite(U \cap T) /\ Finite(U \ T)
    BY <2>1, FiniteParts
  <2>3. U # {}
    <3> SUFFICES ASSUME U = {} PROVE FALSE
      OBVIOUS
    <3>1. U \cap T = {} /\ U \ T = {}
      OBVIOUS
    <3>2. Held(U) = 0 /\ Held(U \cap T) = 0 /\ Held(U \ T) = 0
      BY <2>1, <2>2, <3>1, HeldFirst
    <3> QED BY <2>2, <3>2
  <2>4. PICK z \in U : TRUE
    BY <2>3
  <2>5. /\ Held(U \ {z}) = Held((U \ {z}) \cap T) + Held((U \ {z}) \ T)
        /\ Held(U) = z.denom + Held(U \ {z}) /\ z.denom \in Nat
    <3>1. Good(U \ {z})
      BY <2>1, <2>4
    <3> QED BY <2>1, <2>4, <3>1, HeldWithout DEF Records
  <2>6. CASE z \in T
    <3>1. (U \ {z}) \cap T = (U \cap T) \ {z} /\ (U \ {z}) \ T = U \ T /\ z \in U \cap T
      BY <2>4, <2>6
    <3>2. Held(U \cap T) = z.denom + Held((U \cap T) \ {z})
      BY <2>2, <3>1, HeldWithout
    <3>3. Held((U \cap T) \ {z}) \in Nat /\ Held(U \ T) \in Nat
      <4>1. Finite((U \cap T) \ {z})
        BY <2>2, FiniteParts
      <4> QED BY <2>2, <4>1, HeldFirst
    <3>4. Held(U \ {z}) = Held((U \cap T) \ {z}) + Held(U \ T)
      BY <2>5, <3>1
    <3>5. Held(U) = Held(U \cap T) + Held(U \ T)
      BY <2>5, <3>2, <3>3, <3>4
    <3> QED BY <2>2, <3>5
  <2>7. CASE z \notin T
    <3>1. (U \ {z}) \cap T = U \cap T /\ (U \ {z}) \ T = (U \ T) \ {z} /\ z \in U \ T
      BY <2>4, <2>7
    <3>2. Held(U \ T) = z.denom + Held((U \ T) \ {z})
      BY <2>2, <3>1, HeldWithout
    <3>3. Held((U \ T) \ {z}) \in Nat /\ Held(U \cap T) \in Nat
      <4>1. Finite((U \ T) \ {z})
        BY <2>2, FiniteParts
      <4> QED BY <2>2, <4>1, HeldFirst
    <3>4. Held(U \ {z}) = Held(U \cap T) + Held((U \ T) \ {z})
      BY <2>5, <3>1
    <3>5. Held(U) = Held(U \cap T) + Held(U \ T)
      BY <2>5, <3>2, <3>3, <3>4
    <3> QED BY <2>2, <3>5
  <2> QED BY <2>6, <2>7
<1>2. Good(S) /\ S \cap T = T
  <2>1. Good(S)
    <3> HIDE DEF Good
    <3> QED BY <1>1
  <2> QED BY <2>1
<1>3. Cardinality(S \ T) = Cardinality(S) - Cardinality(S \cap T)
  BY FS_Difference DEF Finite
<1>4. Cardinality(S) \in Nat /\ Cardinality(T) \in Nat
  BY FiniteParts
<1> QED BY <1>2, <1>3, <1>4

(* A multiple of a cardinality, one note after the other. *)
LEMMA OneMore ==
    ASSUME NEW k \in Nat, NEW c \in Nat
    PROVE  /\ (k + 1) * c = k * c + c /\ k * c \in Nat /\ 0 * c = 0
           /\ (k + 2) * c = k * c + 2 * c
OBVIOUS

(* Notes of at least, or at most, a certain denomination. *)
LEMMA HeldBounds ==
    ASSUME NEW S, Finite(S), NEW c \in Nat
    PROVE  /\ (\A n \in S : n.denom >= c) => Held(S) >= Cardinality(S) * c
           /\ (\A n \in S : n.denom <= c) => Held(S) <= Cardinality(S) * c
<1> DEFINE Good(U) == /\ (\A n \in S : n.denom >= c) => Held(U) >= Cardinality(U) * c
                      /\ (\A n \in S : n.denom <= c) => Held(U) <= Cardinality(U) * c
           Bad == {U \in SUBSET S : ~ Good(U)}
<1>1. Bad = {}
  <2> SUFFICES ASSUME Bad # {} PROVE FALSE
    OBVIOUS
  <2>1. PICK U \in Bad :
             /\ Finite(U) /\ U \in SUBSET S
             /\ \A z \in U : /\ U \ {z} \notin Bad /\ Finite(U \ {z})
                             /\ U \ {z} \in SUBSET S /\ z \in Records
                             /\ Cardinality(U) = Cardinality(U \ {z}) + 1
                             /\ Cardinality(U \ {z}) \in Nat
    <3>1. Bad \in SUBSET SUBSET S
      OBVIOUS
    <3> HIDE DEF Bad
    <3> QED BY <3>1, SmallestPart
  <2>2. ~ Good(U)
    OBVIOUS
  <2>3. U # {}
    <3> SUFFICES ASSUME U = {} PROVE FALSE
      OBVIOUS
    <3>1. Held(U) = 0 /\ Cardinality(U) = 0
      BY <2>1, HeldFirst, FS_EmptySet
    <3>2. Cardinality(U) * c = 0
      BY <3>1, OneMore
    <3> QED BY <2>2, <3>1, <3>2
  <2>4. PICK z \in U : TRUE
    BY <2>3
  <2>5. /\ Held(U) = z.denom + Held(U \ {z}) /\ z.denom \in Nat /\ Held(U \ {z}) \in Nat
        /\ z \in S
    BY <2>1, <2>4, HeldWithout, HeldFirst DEF Records
  <2>6. Good(U \ {z})
    BY <2>1, <2>4
  <2>7. Cardinality(U) * c = Cardinality(U \ {z}) * c + c /\ Cardinality(U \ {z}) * c \in Nat
    BY <2>1, <2>4, OneMore
  <2>8. ASSUME \A n \in S : n.denom >= c PROVE Held(U) >= Cardinality(U) * c
    BY <2>5, <2>6, <2>7, <2>8
  <2>9. ASSUME \A n \in S : n.denom <= c PROVE Held(U) <= Cardinality(U) * c
    BY <2>5, <2>6, <2>7, <2>9
  <2> QED BY <2>2, <2>8, <2>9
<1>2. Good(S)
  <2> HIDE DEF Good
  <2> QED BY <1>1
<1> QED BY <1>2

-----------------------------------------------------------------------------
(* The largest notes. *)

(* A set of notes with some note has one of the largest denomination. *)
LEMMA LargestNote ==
    ASSUME NEW S, Finite(S), S # {}
    PROVE  \E x \in S : \A y \in S : x.denom >= y.denom
<1> DEFINE Gaps == {g \in Nat : \E x \in S : g = Held(S) - x.denom}
<1>1. \A x \in S : x.denom \in Nat /\ Held(S) - x.denom \in Nat /\ Held(S) \in Nat
  <2> SUFFICES ASSUME NEW x \in S
               PROVE  x.denom \in Nat /\ Held(S) - x.denom \in Nat /\ Held(S) \in Nat
    OBVIOUS
  <2>1. Finite(S \ {x})
    BY FiniteParts
  <2>2. /\ Held(S) = x.denom + Held(S \ {x}) /\ Held(S) \in Nat
        /\ Held(S \ {x}) \in Nat /\ x.denom \in Nat
    BY <2>1, HeldWithout, HeldFirst DEF Finite, Records
  <2> QED BY <2>2
<1>2. Gaps \in SUBSET Nat /\ Gaps # {}
  BY <1>1
<1>3. PICK g \in Gaps : \A h \in Gaps : g <= h
  <2> HIDE DEF Gaps
  <2> QED BY <1>2, LeastNatural
<1>4. PICK x \in S : g = Held(S) - x.denom
  BY <1>3
<1>5. ASSUME NEW y \in S PROVE x.denom >= y.denom
  <2>1. Held(S) - y.denom \in Gaps
    BY <1>1
  <2>2. g <= Held(S) - y.denom
    BY <1>3, <2>1
  <2> QED BY <1>1, <1>4, <2>2
<1> QED BY <1>4, <1>5

TopNotes(S, k, T) ==
    T \in kSubset(k, S) /\ \A x \in T, y \in S \ T : x.denom >= y.denom

(* LargestOf chooses among sets that exist: k largest notes are the k - 1   *)
(* largest and the largest of the others.                                   *)
LEMMA LargestOfIs ==
    ASSUME NEW S, Finite(S), NEW k \in 0 .. Cardinality(S)
    PROVE  TopNotes(S, k, LargestOf(S, k))
<1> DEFINE Bad == {j \in Nat : j <= Cardinality(S) /\ ~ \E T : TopNotes(S, j, T)}
<1>0. Cardinality(S) \in Nat /\ IsFiniteSet(S)
  BY FiniteParts DEF Finite
<1>1. Bad = {}
  <2> SUFFICES ASSUME Bad # {} PROVE FALSE
    OBVIOUS
  <2>1. PICK j \in Bad : \A i \in Bad : j <= i
    <3>1. Bad \in SUBSET Nat
      OBVIOUS
    <3> HIDE DEF Bad
    <3> QED BY <3>1, LeastNatural
  <2>2. TopNotes(S, 0, {})
    BY FS_EmptySet DEF TopNotes, kSubset
  <2>3. j # 0
    BY <2>2
  <2>4. j - 1 \in Nat /\ j - 1 <= Cardinality(S) /\ ~ (j <= j - 1)
    BY <2>3, <1>0
  <2>5. PICK T : TopNotes(S, j - 1, T)
    BY <2>1, <2>4
  <2>6. T \in SUBSET S /\ Cardinality(T) = j - 1 /\ IsFiniteSet(T)
    BY <2>5, <1>0, FS_Subset DEF TopNotes, kSubset
  <2>7. S \ T # {}
    <3> SUFFICES ASSUME S \ T = {} PROVE FALSE
      OBVIOUS
    <3>1. S = T
      BY <2>6
    <3> QED BY <2>4, <2>6, <3>1, <1>0
  <2>8. PICK x \in S \ T : \A y \in S \ T : x.denom >= y.denom
    <3>1. Finite(S \ T)
      BY FiniteParts
    <3> QED BY <2>7, <3>1, LargestNote
  <2>9. Cardinality(T \cup {x}) = j
    <3>1. Cardinality(T \cup {x}) = Cardinality(T) + 1
      BY <2>6, FS_AddElement
    <3> QED BY <2>4, <2>6, <3>1
  <2>10. T \cup {x} \in kSubset(j, S)
    BY <2>6, <2>9 DEF kSubset
  <2>11. \A w \in T \cup {x}, y \in S \ (T \cup {x}) : w.denom >= y.denom
    BY <2>5, <2>8 DEF TopNotes
  <2>12. TopNotes(S, j, T \cup {x})
    BY <2>10, <2>11 DEF TopNotes
  <2> QED BY <2>1, <2>12
<1>2. \E T : TopNotes(S, k, T)
  BY <1>0, <1>1
<1>3. \E T \in kSubset(k, S) : \A x \in T, y \in S \ T : x.denom >= y.denom
  BY <1>2 DEF TopNotes
<1> QED BY <1>3 DEF LargestOf, TopNotes

(* As many other notes hold no more. *)
LEMMA LargestOfHolds ==
    ASSUME NEW S, Finite(S), NEW U \in SUBSET S
    PROVE  /\ LargestOf(S, Cardinality(U)) \in SUBSET S
           /\ Cardinality(LargestOf(S, Cardinality(U))) = Cardinality(U)
           /\ Held(U) <= Held(LargestOf(S, Cardinality(U)))
<1> DEFINE k == Cardinality(U)
           T == LargestOf(S, k)
<1>1. k \in 0 .. Cardinality(S) /\ k \in Nat
  BY FiniteParts
<1>2. T \in SUBSET S /\ Cardinality(T) = k /\ \A x \in T, y \in S \ T : x.denom >= y.denom
  BY <1>1, LargestOfIs DEF TopNotes, kSubset
<1> HIDE DEF k, T
<1>3. Finite(T) /\ Finite(U) /\ Finite(T \ U) /\ Finite(U \ T) /\ Finite(T \cap U)
  BY <1>2, FiniteParts
<1>4. /\ Held(T) = Held(T \cap U) + Held(T \ U) /\ Held(U) = Held(T \cap U) + Held(U \ T)
      /\ Cardinality(T) = Cardinality(T \cap U) + Cardinality(T \ U)
      /\ Cardinality(U) = Cardinality(T \cap U) + Cardinality(U \ T)
  <2>1. T \ (T \cap U) = T \ U /\ U \ (T \cap U) = U \ T
    OBVIOUS
  <2>2. T \cap U \in SUBSET T /\ T \cap U \in SUBSET U
    OBVIOUS
  <2> QED BY <1>3, <2>1, <2>2, HeldUnion
<1>5. /\ Held(T \cap U) \in Nat /\ Held(T \ U) \in Nat /\ Held(U \ T) \in Nat
      /\ Cardinality(T \cap U) \in Nat /\ Cardinality(T \ U) \in Nat
      /\ Cardinality(U \ T) \in Nat
  BY <1>3, HeldFirst, FS_CardinalityType DEF Finite
<1>6. Cardinality(T \ U) = Cardinality(U \ T)
  <2>1. Cardinality(T) = Cardinality(U)
    BY <1>2 DEF k
  <2>2. Cardinality(T \cap U) + Cardinality(T \ U) = Cardinality(T \cap U) + Cardinality(U \ T)
    BY <1>4, <2>1
  <2> QED BY <1>5, <2>2
<1>7. Held(U \ T) <= Held(T \ U)
  <2>1. CASE T \ U = {}
    <3>1. Cardinality(U \ T) = 0
      BY <1>6, <2>1, FS_EmptySet
    <3>2. U \ T = {}
      BY <1>3, <3>1, FS_EmptySet DEF Finite
    <3> QED BY <1>5, <2>1, <3>2
  <2>2. CASE T \ U # {}
    <3>1. \A y \in U \ T, x \in T \ U : y.denom <= x.denom /\ y.denom \in Nat /\ x.denom \in Nat
      <4>1. \A y \in U \ T, x \in T \ U : x.denom >= y.denom /\ y \in Records /\ x \in Records
        BY <1>2, <1>3 DEF Finite
      <4> QED BY <4>1 DEF Records
    <3>2. CASE U \ T = {}
      <4>1. Held(U \ T) = 0
        BY <1>3, <3>2, HeldFirst
      <4> QED BY <1>5, <4>1
    <3>3. CASE U \ T # {}
      <4>1. PICK y \in U \ T : \A z \in U \ T : y.denom >= z.denom
        BY <1>3, <3>3, LargestNote
      <4>2. y.denom \in Nat /\ \A z \in U \ T : z.denom <= y.denom
        BY <2>2, <3>1, <4>1
      <4>3. \A x \in T \ U : x.denom >= y.denom
        BY <3>1, <4>1
      <4>4. /\ Held(U \ T) <= Cardinality(U \ T) * y.denom
            /\ Held(T \ U) >= Cardinality(T \ U) * y.denom
        BY <1>3, <4>2, <4>3, HeldBounds
      <4>5. Cardinality(U \ T) * y.denom \in Nat
        BY <1>5, <4>2, OneMore
      <4> QED BY <1>5, <1>6, <4>4, <4>5
    <3> QED BY <3>2, <3>3
  <2> QED BY <2>1, <2>2
<1>8. Held(U) <= Held(T)
  BY <1>4, <1>5, <1>7
<1> QED BY <1>2, <1>8 DEF T, k

-----------------------------------------------------------------------------
(* The plan. *)

(* Notes that cannot pay for their own transfer deliver nothing. *)
LEMMA WithoutSmall ==
    ASSUME NEW R, Finite(R), NEW T \in SUBSET R, NEW c \in Nat
    PROVE  LET U == {n \in T : n.denom > c}
           IN  /\ U \in SUBSET {n \in R : n.denom > c}
               /\ Cardinality(U) \in Nat /\ Cardinality(T) \in Nat
               /\ Cardinality(U) <= Cardinality(T)
               /\ Deliver(U, c) \in Int /\ Deliver(T, c) \in Int
               /\ Deliver(T, c) <= Deliver(U, c)
<1> DEFINE U == {n \in T : n.denom > c}
<1>1. /\ Finite(T) /\ Finite(U) /\ Finite(T \ U) /\ U \in SUBSET T
      /\ Cardinality(U) \in Nat /\ Cardinality(T) \in Nat /\ Cardinality(T \ U) \in Nat
  <2>1. Finite(T) /\ U \in SUBSET T /\ T \ U \in SUBSET T
    BY FiniteParts
  <2> HIDE DEF U
  <2> QED BY <2>1, FiniteParts
<1>2. \A n \in T \ U : n.denom <= c
  BY <1>1 DEF Finite, Records
<1>3. U \in SUBSET {n \in R : n.denom > c}
  OBVIOUS
<1> HIDE DEF U
<1>4. /\ Held(T) = Held(U) + Held(T \ U) /\ Cardinality(T) = Cardinality(U) + Cardinality(T \ U)
      /\ Held(U) \in Nat /\ Held(T \ U) \in Nat /\ Held(T) \in Nat
  BY <1>1, HeldUnion, HeldFirst
<1>5. Held(T \ U) <= Cardinality(T \ U) * c
  BY <1>1, <1>2, HeldBounds
<1>6. /\ (Cardinality(T) + 1) * c = (Cardinality(U) + 1) * c + Cardinality(T \ U) * c
      /\ (Cardinality(U) + 1) * c \in Nat /\ Cardinality(T \ U) * c \in Nat
  BY <1>1, <1>4
<1>7. /\ Deliver(U, c) \in Int /\ Deliver(T, c) \in Int /\ Deliver(T, c) <= Deliver(U, c)
  BY <1>4, <1>5, <1>6 DEF Deliver
<1> QED BY <1>1, <1>3, <1>4, <1>7 DEF U

(* What Enough means: the k largest notes deliver the amount. *)
LEMMA EnoughIs ==
    ASSUME NEW s \in Screens, Finite(notes[s]), cost[s] \in Nat,
           NEW amount \in Nat \ {0}, NEW k \in Enough(s, amount)
    PROVE  LET T == LargestOf(Spendable(s), k)
           IN  /\ T \in SUBSET notes[s] /\ Finite(T) /\ Cardinality(T) = k /\ k \in Nat \ {0}
               /\ \A n \in T : n.denom > cost[s]
               /\ Deliver(T, cost[s]) >= amount
               /\ Held(T) - amount - Legs(k) * cost[s] \in Nat
<1> DEFINE T == LargestOf(Spendable(s), k)
           c == cost[s]
<1>1. Finite(Spendable(s)) /\ Spendable(s) \in SUBSET notes[s] /\ Cardinality(Spendable(s)) \in Nat
  <2>1. Spendable(s) \in SUBSET notes[s]
    BY DEF Spendable
  <2> QED BY <2>1, FiniteParts
<1>2. k \in 1 .. Cardinality(Spendable(s)) /\ Held(T) >= amount + Legs(k) * c
  BY DEF Enough
<1>3. k \in 0 .. Cardinality(Spendable(s)) /\ k \in Nat \ {0}
  BY <1>1, <1>2
<1>4. T \in SUBSET Spendable(s) /\ Cardinality(T) = k
  BY <1>1, <1>3, LargestOfIs DEF TopNotes, kSubset
<1>5. Finite(T) /\ Held(T) \in Nat
  BY <1>1, <1>4, FiniteParts, HeldFirst
<1>6. \A n \in T : n.denom > c
  BY <1>4 DEF Spendable
<1>7. Legs(k) * c \in Nat /\ (Cardinality(T) + 1) * c = Legs(k) * c
  <2>1. Legs(k) = k + 1 /\ Cardinality(T) + 1 = k + 1
    BY <1>4 DEF Legs
  <2>2. (k + 1) * c \in Nat
    BY <1>3
  <2> QED BY <2>1, <2>2
<1> HIDE DEF T
<1>8. Deliver(T, c) >= amount /\ Held(T) - amount - Legs(k) * c \in Nat
  BY <1>2, <1>5, <1>7 DEF Deliver
<1> QED BY <1>1, <1>3, <1>4, <1>5, <1>6, <1>8 DEF T

(* A set that delivers the amount gives a number of notes that is enough.   *)
LEMMA AbleIsEnough ==
    ASSUME NEW s \in Screens, Finite(notes[s]), cost[s] \in Nat,
           NEW amount \in Nat \ {0}, NEW T \in SUBSET notes[s], Deliver(T, cost[s]) >= amount
    PROVE  \E k \in Enough(s, amount) : k <= Cardinality(T) /\ Cardinality(T) \in Nat
<1> DEFINE c == cost[s]
           U == {n \in T : n.denom > c}
           k == Cardinality(U)
<1>1. /\ U \in SUBSET Spendable(s) /\ k \in Nat /\ Cardinality(T) \in Nat /\ k <= Cardinality(T)
      /\ Deliver(U, c) \in Int /\ Deliver(T, c) \in Int /\ Deliver(T, c) <= Deliver(U, c)
  BY WithoutSmall DEF Spendable
<1>2. Finite(Spendable(s)) /\ Finite(U)
  <2>1. Spendable(s) \in SUBSET notes[s] /\ U \in SUBSET notes[s]
    BY DEF Spendable
  <2> HIDE DEF U
  <2> QED BY <2>1, FiniteParts
<1> HIDE DEF U
<1>3. Held(U) >= amount + (k + 1) * c /\ (k + 1) * c \in Nat /\ Held(U) \in Nat
  <2>1. Held(U) \in Nat /\ (k + 1) * c \in Nat
    <3>1. Held(U) \in Nat
      BY <1>2, HeldFirst
    <3>2. k \in Nat /\ c \in Nat
      BY <1>1
    <3> HIDE DEF k, c
    <3>3. (k + 1) * c \in Nat
      BY <3>2
    <3> QED BY <3>1, <3>3
  <2>2. Held(U) - (k + 1) * c >= amount
    BY <1>1, <2>1 DEF Deliver
  <2> HIDE DEF k, c
  <2> QED BY <2>1, <2>2
<1>4. k # 0
  <2> SUFFICES ASSUME k = 0 PROVE FALSE
    OBVIOUS
  <2>1. U = {}
    BY <1>2, FS_EmptySet DEF Finite
  <2>2. Held(U) = 0
    BY <1>2, <2>1, HeldFirst
  <2> HIDE DEF k, c
  <2> QED BY <1>3, <2>2
<1>5. /\ k \in 1 .. Cardinality(Spendable(s))
      /\ Held(U) <= Held(LargestOf(Spendable(s), k))
      /\ Held(LargestOf(Spendable(s), k)) \in Nat
  <2>1. /\ Held(U) <= Held(LargestOf(Spendable(s), k))
        /\ LargestOf(Spendable(s), k) \in SUBSET Spendable(s)
    BY <1>1, <1>2, LargestOfHolds
  <2>2. k <= Cardinality(Spendable(s)) /\ Cardinality(Spendable(s)) \in Nat
    BY <1>1, <1>2, FiniteParts
  <2>3. Held(LargestOf(Spendable(s), k)) \in Nat
    BY <1>2, <2>1, FiniteParts, HeldFirst
  <2> QED BY <1>1, <1>4, <2>1, <2>2, <2>3
<1> HIDE DEF k
<1>6. Held(LargestOf(Spendable(s), k)) >= amount + Legs(k) * c
  BY <1>3, <1>5 DEF Legs
<1>7. k \in Enough(s, amount)
  BY <1>5, <1>6 DEF Enough
<1> QED BY <1>1, <1>7 DEF k

(* planSweep takes the least number that is enough. *)
LEMMA PlanIs ==
    ASSUME NEW s \in Screens, Finite(notes[s]), cost[s] \in Nat,
           NEW amount \in Nat \ {0}, Enough(s, amount) # {}
    PROVE  LET p == planSweep(s, amount)
           IN  /\ p.notes \in SUBSET notes[s] /\ Finite(p.notes)
               /\ p.amount = amount
               /\ \A n \in p.notes : n.denom > cost[s]
               /\ Deliver(p.notes, cost[s]) >= amount
               /\ \A k \in Enough(s, amount) : Cardinality(p.notes) <= k
               /\ p.remainder = Held(p.notes) - amount - (Cardinality(p.notes) + 1) * cost[s]
               /\ p.remainder \in Nat
               /\ p = [notes |-> p.notes, amount |-> p.amount, remainder |-> p.remainder]
<1> DEFINE k == CHOOSE i \in Enough(s, amount) : \A j \in Enough(s, amount) : i <= j
<1>1. k \in Enough(s, amount) /\ \A j \in Enough(s, amount) : k <= j
  <2>1. Enough(s, amount) \in SUBSET Nat
    <3>1. Cardinality(Spendable(s)) \in Nat
      <4>1. Spendable(s) \in SUBSET notes[s]
        BY DEF Spendable
      <4> QED BY <4>1, FiniteParts
    <3> QED BY <3>1 DEF Enough
  <2>2. \E i \in Enough(s, amount) : \A j \in Enough(s, amount) : i <= j
    BY <2>1, LeastNatural
  <2> QED BY <2>2
<1>2. /\ planSweep(s, amount).notes = LargestOf(Spendable(s), k)
      /\ planSweep(s, amount).amount = amount
      /\ planSweep(s, amount).remainder =
            Held(LargestOf(Spendable(s), k)) - amount - Legs(k) * cost[s]
      /\ planSweep(s, amount) = [notes |-> planSweep(s, amount).notes,
                                 amount |-> planSweep(s, amount).amount,
                                 remainder |-> planSweep(s, amount).remainder]
  BY DEF planSweep
<1> HIDE DEF k
<1>3. LET T == LargestOf(Spendable(s), k)
      IN  /\ T \in SUBSET notes[s] /\ Finite(T) /\ Cardinality(T) = k /\ k \in Nat \ {0}
          /\ \A n \in T : n.denom > cost[s]
          /\ Deliver(T, cost[s]) >= amount
          /\ Held(T) - amount - Legs(k) * cost[s] \in Nat
  BY <1>1, EnoughIs
<1>4. Legs(k) = k + 1
  BY DEF Legs
<1> QED BY <1>1, <1>2, <1>3, <1>4

(* InsufficientFunds names the most that any set of the notes delivers.     *)
LEMMA AvailableIs ==
    ASSUME NEW s \in Screens, Finite(notes[s]), cost[s] \in Nat
    PROVE  Available(s) = Max({0} \cup {Deliver(T, cost[s]) : T \in SUBSET notes[s]})
<1> DEFINE c == cost[s]
           all == Spendable(s)
           best == Deliver(all, c)
           Values == {0} \cup {Deliver(T, c) : T \in SUBSET notes[s]}
<1>1. Finite(all) /\ all \in SUBSET notes[s] /\ Cardinality(all) \in Nat
  <2>1. all \in SUBSET notes[s]
    BY DEF Spendable
  <2> HIDE DEF all
  <2> QED BY <2>1, FiniteParts
<1>2. best \in Int /\ (Held(all) - Legs(Cardinality(all)) * c) = best
  <2> HIDE DEF all
  <2>1. Held(all) \in Nat
    BY <1>1, HeldFirst
  <2>2. (Cardinality(all) + 1) * c \in Nat
    BY <1>1
  <2> QED BY <2>1, <2>2 DEF Deliver, Legs
<1>3. Available(s) = IF best > 0 THEN best ELSE 0
  BY <1>2 DEF Available
<1>4. ASSUME NEW T \in SUBSET notes[s] PROVE Deliver(T, c) \in Int /\ Deliver(T, c) <= best
  <2> DEFINE U == {n \in T : n.denom > c}
  <2>1. /\ U \in SUBSET all /\ Cardinality(U) \in Nat
        /\ Deliver(U, c) \in Int /\ Deliver(T, c) \in Int /\ Deliver(T, c) <= Deliver(U, c)
    <3>1. all = {n \in notes[s] : n.denom > c}
      BY DEF Spendable
    <3> HIDE DEF all, c
    <3>2. c \in Nat
      BY DEF c
    <3> DEFINE R == notes[s]
    <3>3. Finite(R) /\ T \in SUBSET R /\ all = {n \in R : n.denom > c}
      BY <3>1
    <3> HIDE DEF R
    <3>4. /\ U \in SUBSET {n \in R : n.denom > c} /\ Cardinality(U) \in Nat
          /\ Deliver(U, c) \in Int /\ Deliver(T, c) \in Int /\ Deliver(T, c) <= Deliver(U, c)
      BY <3>2, <3>3, WithoutSmall
    <3> QED BY <3>3, <3>4
  <2> HIDE DEF U
  <2>2. \A n \in all \ U : n.denom >= c
    BY <1>1 DEF Spendable, Finite, Records
  <2> HIDE DEF all
  <2>3. /\ Finite(U) /\ Finite(all \ U) /\ Cardinality(all \ U) \in Nat
        /\ Held(all) = Held(U) + Held(all \ U)
        /\ Cardinality(all) = Cardinality(U) + Cardinality(all \ U)
    BY <1>1, <2>1, FiniteParts, HeldUnion
  <2>4. Held(all \ U) >= Cardinality(all \ U) * c
    BY <2>2, <2>3, HeldBounds
  <2>5. Held(all \ U) \in Nat /\ Held(U) \in Nat
    BY <2>3, HeldFirst
  <2>6. /\ (Cardinality(all) + 1) * c = (Cardinality(U) + 1) * c + Cardinality(all \ U) * c
        /\ (Cardinality(U) + 1) * c \in Nat /\ Cardinality(all \ U) * c \in Nat
    BY <2>1, <2>3
  <2>7. Deliver(U, c) <= best
    BY <2>3, <2>4, <2>5, <2>6 DEF Deliver
  <2> QED BY <1>2, <2>1, <2>7
<1>5. best \in Values
  BY <1>1
<1>6. Values \in SUBSET Int /\ 0 \in Values
  BY <1>4
<1> DEFINE top == IF best > 0 THEN best ELSE 0
<1>7. top \in Values /\ \A y \in Values : top >= y
  <2>1. \A y \in Values : y = 0 \/ y <= best
    BY <1>4
  <2> HIDE DEF Values, best
  <2> QED BY <1>2, <1>5, <1>6, <2>1
<1> HIDE DEF Values, top
<1>8. Max(Values) = top
  <2>1. Max(Values) \in Values /\ \A y \in Values : Max(Values) >= y
    BY <1>7 DEF Max
  <2> QED BY <1>6, <1>7, <2>1
<1> QED BY <1>3, <1>8 DEF top, Values

-----------------------------------------------------------------------------
(* Types, and what a screen has in memory. *)

Plans == [notes : SUBSET Records, amount : Nat, remainder : Nat]
Melts == [at : {"none", "balance", "pass", "spent", "dust"},
          wallet : Wallets \cup {NoWallet}, denom : Nat,
          balance : Nat, reserve : Nat, pass : 0 .. PASSES]
Places == {"closed", "idle", "pocket", "sweep", "record", "confirm", "change"}

Sending == {"pocket", "sweep", "record", "confirm", "change"}
Active == {"sweep", "record", "confirm", "change"}

ChainTyped ==
    /\ money \in [Wallets -> Nat] /\ fee \in Fees
    /\ swept \subseteq Wallets /\ given \subseteq Pockets
    /\ bounced \in [Wallets -> Nat] /\ stuck \subseteq Wallets

DbTyped ==
    /\ status \in [Wallets -> {"none", "claimed", "spent", "dust"}]
    /\ denom \in [Wallets -> Nat]

ScreensTyped ==
    /\ pc \in [Screens -> Places] /\ cost \in [Screens -> Nat]
    /\ notes \in [Screens -> SUBSET Records] /\ plan \in [Screens -> Plans]
    /\ left \in [Screens -> SUBSET Records]
    /\ pocket \in [Screens -> Pockets \cup {NoWallet}]

MeltTyped ==
    /\ melt \in Melts
    /\ melt.at # "none" => melt.wallet \in Wallets
    /\ melt.at = "pass" => melt.reserve \in Reserves

(* The price of a screen is one of the network.  The plan of a send that is *)
(* under way still adds up, and what is left of it is part of it.           *)
ScreenOK(s) ==
    /\ Finite(notes[s]) /\ Finite(plan[s].notes)
    /\ left[s] \subseteq plan[s].notes
    /\ pc[s] # "closed" => \E f \in Fees : cost[s] = LegCost(f)
    /\ pc[s] \in Sending =>
         /\ \A n \in plan[s].notes : n.denom > cost[s]
         /\ plan[s].remainder = Held(plan[s].notes) - plan[s].amount
                                - (Cardinality(plan[s].notes) + 1) * cost[s]
    /\ pc[s] = "pocket" => left[s] = plan[s].notes
    /\ pc[s] = "record" => left[s] # {}
    /\ pc[s] \in {"confirm", "change"} => left[s] = {}
    /\ pc[s] \in Active => pocket[s] \in given

Base ==
    /\ ChainTyped /\ DbTyped /\ ScreensTyped /\ MeltTyped
    /\ \A s \in Screens : ScreenOK(s)

LEMMA LegCostNat ==
    ASSUME NEW f \in Nat
    PROVE  LegCost(f) \in Nat /\ f <= LegCost(f)
BY DEF LegCost, DUST

(* A screen that a step leaves alone. *)
LEMMA ScreenSame ==
    ASSUME NEW t, ScreenOK(t), given \subseteq given',
           pc'[t] = pc[t], cost'[t] = cost[t], notes'[t] = notes[t], plan'[t] = plan[t],
           left'[t] = left[t], pocket'[t] = pocket[t]
    PROVE  ScreenOK(t)'
BY DEF ScreenOK

(* The records of the claimed wallets are a finite set of notes. *)
LEMMA SnapshotFinite ==
    ASSUME NEW W \in SUBSET Wallets, NEW d \in [Wallets -> Nat]
    PROVE  Finite({[wallet |-> w, denom |-> d[w]] : w \in W})
<1> DEFINE S == {[wallet |-> w, denom |-> d[w]] : w \in W}
           f == [n \in S |-> n.wallet]
<1>1. S \subseteq Records
  BY DEF Records
<1>2. f \in Injection(S, Wallets)
  BY DEF Injection, IsInjective
<1>3. IsFiniteSet(Wallets)
  BY SendAssumption
<1> HIDE DEF f
<1>4. IsFiniteSet(S)
  BY <1>2, <1>3, FS_Injection
<1> QED BY <1>1, <1>4 DEF Finite

LEMMA NothingFinite == Finite({}) /\ NoPlan \in Plans /\ Finite(NoPlan.notes)
BY FS_EmptySet DEF Finite, NoPlan, Plans

LEMMA LargestIs ==
    ASSUME Base, NEW s \in Screens, left[s] # {}
    PROVE  /\ Largest(s) \in left[s] /\ Largest(s) \in plan[s].notes /\ Largest(s) \in Records
           /\ Largest(s).wallet \in Wallets /\ Largest(s).denom \in Nat
<1>1. left[s] \subseteq plan[s].notes /\ Finite(plan[s].notes)
  BY DEF Base, ScreenOK
<1>2. Finite(left[s])
  BY <1>1, FiniteParts
<1>3. \E n \in left[s] : \A k \in left[s] : n.denom >= k.denom
  BY <1>2, LargestNote
<1>4. Largest(s) \in left[s]
  BY <1>3 DEF Largest
<1> QED BY <1>1, <1>4 DEF Finite, Records

(* The steps of a screen change nothing of another. *)
LEMMA ScreenStep ==
    ASSUME Base, NEW s \in Screens, given \subseteq given',
           ChainTyped', DbTyped', ScreensTyped', melt' = melt, ScreenOK(s)',
           \A t \in Screens \ {s} :
              /\ pc'[t] = pc[t] /\ cost'[t] = cost[t] /\ notes'[t] = notes[t]
              /\ plan'[t] = plan[t] /\ left'[t] = left[t] /\ pocket'[t] = pocket[t]
    PROVE  Base'
<1>1. ASSUME NEW t \in Screens PROVE ScreenOK(t)'
  <2>1. CASE t = s
    BY <2>1
  <2>2. CASE t # s
    BY <2>2, ScreenSame DEF Base
  <2> QED BY <2>1, <2>2
<1>2. MeltTyped'
  BY DEF Base, MeltTyped
<1> QED BY <1>1, <1>2 DEF Base

LEMMA OpenBase ==
    ASSUME Base, NEW s \in Screens, Open(s)
    PROVE  Base'
<1>1. Snapshot \subseteq Records /\ Finite(Snapshot)
  <2>1. Claimed \in SUBSET Wallets
    BY DEF Claimed
  <2>2. Finite(Snapshot)
    BY <2>1, SnapshotFinite DEF Snapshot, Base, DbTyped
  <2> QED BY <2>2 DEF Finite
<1>2. LegCost(fee) \in Nat
  BY SendAssumption, LegCostNat DEF Base, ChainTyped
<1>3. /\ pc' = [pc EXCEPT ![s] = "idle"] /\ cost' = [cost EXCEPT ![s] = LegCost(fee)]
      /\ notes' = [notes EXCEPT ![s] = Snapshot]
      /\ UNCHANGED <<money, fee, swept, given, bounced, stuck, status, denom, plan, left, pocket, melt>>
      /\ pc[s] = "closed"
  BY DEF Open, Go, chain, db
<1>4. ChainTyped' /\ DbTyped' /\ ScreensTyped'
  BY <1>1, <1>2, <1>3 DEF Base, ChainTyped, DbTyped, ScreensTyped, Places
<1>5. ScreenOK(s)'
  <2>1. /\ pc'[s] = "idle" /\ cost'[s] = LegCost(fee) /\ notes'[s] = Snapshot
        /\ plan'[s] = plan[s] /\ left'[s] = left[s] /\ fee \in Fees
    BY <1>3 DEF Base, ScreensTyped, ChainTyped
  <2> QED BY <1>1, <2>1 DEF Base, ScreenOK, Sending, Active
<1>6. given \subseteq given'
  BY <1>3
<1>7. \A t \in Screens \ {s} :
         /\ pc'[t] = pc[t] /\ cost'[t] = cost[t] /\ notes'[t] = notes[t]
         /\ plan'[t] = plan[t] /\ left'[t] = left[t] /\ pocket'[t] = pocket[t]
  BY <1>3 DEF Base, ScreensTyped
<1> QED BY <1>3, <1>4, <1>5, <1>6, <1>7, ScreenStep

LEMMA StartBase ==
    ASSUME Base, NEW s \in Screens, NEW amount \in Amounts, Start(s, amount)
    PROVE  Base'
<1> DEFINE p == planSweep(s, amount)
<1>1. amount \in Nat \ {0} /\ Finite(notes[s]) /\ cost[s] \in Nat
  BY SendAssumption DEF Base, ScreensTyped, ScreenOK
<1>2. /\ p.notes \in SUBSET notes[s] /\ Finite(p.notes) /\ p.amount = amount
      /\ \A n \in p.notes : n.denom > cost[s]
      /\ p.remainder = Held(p.notes) - amount - (Cardinality(p.notes) + 1) * cost[s]
      /\ p.remainder \in Nat
      /\ p = [notes |-> p.notes, amount |-> p.amount, remainder |-> p.remainder]
  BY <1>1, PlanIs DEF Start
<1>3. /\ pc' = [pc EXCEPT ![s] = "pocket"] /\ plan' = [plan EXCEPT ![s] = p]
      /\ left' = [left EXCEPT ![s] = p.notes] /\ pc[s] = "idle"
      /\ UNCHANGED <<money, fee, swept, given, bounced, stuck, status, denom, cost, notes, pocket, melt>>
  BY DEF Start, Go, chain, db
<1> HIDE DEF p
<1>4. p \in Plans
  BY <1>1, <1>2 DEF Plans, Finite
<1>5. ChainTyped' /\ DbTyped' /\ ScreensTyped'
  BY <1>2, <1>3, <1>4 DEF Base, ChainTyped, DbTyped, ScreensTyped, Places, Finite
<1>6. ScreenOK(s)'
  <2>1. /\ pc'[s] = "pocket" /\ cost'[s] = cost[s] /\ notes'[s] = notes[s]
        /\ plan'[s] = p /\ left'[s] = p.notes
    BY <1>3 DEF Base, ScreensTyped
  <2>2. \E f \in Fees : cost[s] = LegCost(f)
    BY <1>3 DEF Base, ScreenOK
  <2> QED BY <1>1, <1>2, <2>1, <2>2 DEF ScreenOK, Sending, Active
<1>7. given \subseteq given'
  BY <1>3
<1>8. \A t \in Screens \ {s} :
         /\ pc'[t] = pc[t] /\ cost'[t] = cost[t] /\ notes'[t] = notes[t]
         /\ plan'[t] = plan[t] /\ left'[t] = left[t] /\ pocket'[t] = pocket[t]
  BY <1>3 DEF Base, ScreensTyped
<1> QED BY <1>3, <1>5, <1>6, <1>7, <1>8, ScreenStep

LEMMA TakePocketBase ==
    ASSUME Base, NEW s \in Screens, TakePocket(s)
    PROVE  Base'
<1>1. PICK w \in Pockets \ given : pocket' = [pocket EXCEPT ![s] = w] /\ given' = given \cup {w}
  BY DEF TakePocket
<1>3. /\ pc' = [pc EXCEPT ![s] = "sweep"] /\ pc[s] = "pocket"
      /\ UNCHANGED <<money, fee, swept, bounced, stuck, status, denom, cost, notes, plan, left, melt>>
  BY DEF TakePocket, Go, db
<1>5. ChainTyped' /\ DbTyped' /\ ScreensTyped'
  BY <1>1, <1>3 DEF Base, ChainTyped, DbTyped, ScreensTyped, Places
<1>6. ScreenOK(s)'
  <2>1. /\ pc'[s] = "sweep" /\ cost'[s] = cost[s] /\ notes'[s] = notes[s]
        /\ plan'[s] = plan[s] /\ left'[s] = left[s] /\ pocket'[s] \in given'
    BY <1>1, <1>3 DEF Base, ScreensTyped
  <2> QED BY <1>3, <2>1 DEF Base, ScreenOK, Sending, Active
<1>7. given \subseteq given'
  BY <1>1
<1>8. \A t \in Screens \ {s} :
         /\ pc'[t] = pc[t] /\ cost'[t] = cost[t] /\ notes'[t] = notes[t]
         /\ plan'[t] = plan[t] /\ left'[t] = left[t] /\ pocket'[t] = pocket[t]
  BY <1>1, <1>3 DEF Base, ScreensTyped
<1> QED BY <1>3, <1>5, <1>6, <1>7, <1>8, ScreenStep

(* What a sweep pays, and that it can. *)
LEMMA SweepIs ==
    ASSUME Base, NEW s \in Screens, Sweep(s)
    PROVE  LET w == Largest(s).wallet
           IN  /\ w \in Wallets /\ pocket[s] \in Pockets
               /\ Share(s) \in Nat /\ Share(s) = Largest(s).denom - cost[s]
               /\ cost[s] \in Nat /\ Largest(s).denom \in Nat /\ left[s] # {}
               /\ Largest(s) \in left[s] /\ Largest(s) \in plan[s].notes
               /\ \E f \in Fees :
                    /\ money[w] - Share(s) - f \in Nat
                    /\ money' = [money EXCEPT ![w] = @ - Share(s) - f, ![pocket[s]] = @ + Share(s)]
               /\ swept' = swept \cup {w}
               /\ pc[s] = "sweep" /\ pc' = [pc EXCEPT ![s] = "record"]
               /\ UNCHANGED <<fee, given, bounced, stuck, status, denom, cost, notes, plan, left, pocket, melt>>
<1> DEFINE w == Largest(s).wallet
<1>1. /\ pc[s] = "sweep" /\ left[s] # {} /\ CanSweep(s) /\ pc' = [pc EXCEPT ![s] = "record"]
      /\ swept' = swept \cup {w}
      /\ UNCHANGED <<fee, given, bounced, stuck, status, denom, cost, notes, plan, left, pocket, melt>>
  BY DEF Sweep, Go, db
<1>2. PICK f \in Charged :
         money' = [money EXCEPT ![w] = @ - Share(s) - f, ![pocket[s]] = @ + Share(s)]
  BY DEF Sweep
<1>3. /\ Largest(s) \in left[s] /\ Largest(s) \in plan[s].notes /\ w \in Wallets
      /\ Largest(s).denom \in Nat
  BY <1>1, LargestIs
<1>4. Largest(s).denom > cost[s] /\ cost[s] \in Nat /\ pocket[s] \in Pockets
  <2>1. pocket[s] \in given
    BY <1>1 DEF Base, ScreenOK, Active
  <2> QED BY <1>1, <1>3, <2>1 DEF Base, ScreenOK, ScreensTyped, ChainTyped, Sending
<1>5. Share(s) = Largest(s).denom - cost[s] /\ Share(s) \in Nat
  BY <1>3, <1>4 DEF Share
<1>6. f \in Fees /\ f \in Nat /\ f <= fee /\ fee \in Nat /\ money[w] \in Nat
  BY <1>2, <1>3, SendAssumption DEF Charged, Base, ChainTyped
<1>7. money[w] >= Share(s) + fee + 1
  BY <1>1 DEF CanSweep, DUST
<1> HIDE DEF w
<1>8. money[w] - Share(s) - f \in Nat
  BY <1>5, <1>6, <1>7
<1> QED BY <1>1, <1>2, <1>3, <1>4, <1>5, <1>6, <1>8 DEF w

LEMMA SweepBase ==
    ASSUME Base, NEW s \in Screens, Sweep(s)
    PROVE  Base'
<1> DEFINE w == Largest(s).wallet
<1>1. /\ w \in Wallets /\ pocket[s] \in Pockets /\ Share(s) \in Nat /\ left[s] # {}
      /\ \E f \in Fees :
           /\ money[w] - Share(s) - f \in Nat
           /\ money' = [money EXCEPT ![w] = @ - Share(s) - f, ![pocket[s]] = @ + Share(s)]
      /\ swept' = swept \cup {w}
      /\ pc[s] = "sweep" /\ pc' = [pc EXCEPT ![s] = "record"]
      /\ UNCHANGED <<fee, given, bounced, stuck, status, denom, cost, notes, plan, left, pocket, melt>>
  BY SweepIs
<1> HIDE DEF w
<1>2. PICK f \in Fees :
           /\ money[w] - Share(s) - f \in Nat
           /\ money' = [money EXCEPT ![w] = @ - Share(s) - f, ![pocket[s]] = @ + Share(s)]
  BY <1>1
<1>3. money' \in [Wallets -> Nat]
  <2>0. money \in [Wallets -> Nat] /\ pocket[s] \in Wallets /\ f \in Nat
    BY <1>1, <1>2, SendAssumption DEF Base, ChainTyped, Wallets
  <2>1. /\ money \in [Wallets -> Nat] /\ pocket[s] \in Wallets
        /\ money[w] \in Nat /\ f \in Nat
        /\ money[w] - Share(s) - f + Share(s) \in Nat /\ money[pocket[s]] + Share(s) \in Nat
    BY <1>1, <1>2, <2>0
  <2> QED BY <1>1, <1>2, <2>1
<1>5. ChainTyped' /\ DbTyped' /\ ScreensTyped'
  BY <1>1, <1>3 DEF Base, ChainTyped, DbTyped, ScreensTyped, Places
<1>6. ScreenOK(s)'
  <2>1. /\ pc'[s] = "record" /\ cost'[s] = cost[s] /\ notes'[s] = notes[s]
        /\ plan'[s] = plan[s] /\ left'[s] = left[s] /\ pocket'[s] = pocket[s] /\ given' = given
    BY <1>1 DEF Base, ScreensTyped
  <2> QED BY <1>1, <2>1 DEF Base, ScreenOK, Sending, Active
<1>7. given \subseteq given'
  BY <1>1
<1>8. \A t \in Screens \ {s} :
         /\ pc'[t] = pc[t] /\ cost'[t] = cost[t] /\ notes'[t] = notes[t]
         /\ plan'[t] = plan[t] /\ left'[t] = left[t] /\ pocket'[t] = pocket[t]
  BY <1>1 DEF Base, ScreensTyped
<1> QED BY <1>1, <1>5, <1>6, <1>7, <1>8, ScreenStep

LEMMA RecordSpentBase ==
    ASSUME Base, NEW s \in Screens, RecordSpent(s)
    PROVE  Base'
<1>1. /\ pc[s] = "record" /\ pc' = [pc EXCEPT ![s] = "sweep"]
      /\ left' = [left EXCEPT ![s] = @ \ {Largest(s)}]
      /\ UNCHANGED <<money, fee, swept, given, bounced, stuck, cost, notes, plan, pocket, melt>>
  BY DEF RecordSpent, Go, chain
<1>2. DbTyped'
  <2>1. \A w \in Wallets : status[w] \in {"none", "claimed", "spent", "dust"} /\ denom[w] \in Nat
    BY DEF Base, DbTyped
  <2>2. /\ status' = [w \in Wallets |-> IF w \in WalletsOf(Landed(s)) THEN "spent" ELSE status[w]]
        /\ denom' = [w \in Wallets |-> IF w \in WalletsOf(Landed(s)) THEN 0 ELSE denom[w]]
    BY DEF RecordSpent
  <2> QED BY <2>1, <2>2 DEF DbTyped
<1>5. ChainTyped' /\ ScreensTyped'
  BY <1>1 DEF Base, ChainTyped, ScreensTyped, Places
<1>6. ScreenOK(s)'
  <2>1. /\ pc'[s] = "sweep" /\ cost'[s] = cost[s] /\ notes'[s] = notes[s]
        /\ plan'[s] = plan[s] /\ left'[s] \subseteq left[s] /\ pocket'[s] = pocket[s]
        /\ given' = given
    BY <1>1 DEF Base, ScreensTyped
  <2> QED BY <1>1, <2>1 DEF Base, ScreenOK, Sending, Active
<1>7. given \subseteq given'
  BY <1>1
<1>8. \A t \in Screens \ {s} :
         /\ pc'[t] = pc[t] /\ cost'[t] = cost[t] /\ notes'[t] = notes[t]
         /\ plan'[t] = plan[t] /\ left'[t] = left[t] /\ pocket'[t] = pocket[t]
  BY <1>1 DEF Base, ScreensTyped
<1> QED BY <1>1, <1>2, <1>5, <1>6, <1>7, <1>8, ScreenStep

LEMMA CheckPayBase ==
    ASSUME Base, NEW s \in Screens, CheckPay(s)
    PROVE  Base'
<1>1. /\ pc[s] = "sweep" /\ left[s] = {} /\ pc' = [pc EXCEPT ![s] = "confirm"]
      /\ UNCHANGED <<money, fee, swept, given, bounced, stuck, status, denom, cost, notes, plan, left, pocket, melt>>
  BY DEF CheckPay, Go, chain, db
<1>5. ChainTyped' /\ DbTyped' /\ ScreensTyped'
  BY <1>1 DEF Base, ChainTyped, DbTyped, ScreensTyped, Places
<1>6. ScreenOK(s)'
  <2>1. /\ pc'[s] = "confirm" /\ cost'[s] = cost[s] /\ notes'[s] = notes[s]
        /\ plan'[s] = plan[s] /\ left'[s] = left[s] /\ pocket'[s] = pocket[s]
        /\ given' = given
    BY <1>1 DEF Base, ScreensTyped
  <2> QED BY <1>1, <2>1 DEF Base, ScreenOK, Sending, Active
<1>7. given \subseteq given'
  BY <1>1
<1>8. \A t \in Screens \ {s} :
         /\ pc'[t] = pc[t] /\ cost'[t] = cost[t] /\ notes'[t] = notes[t]
         /\ plan'[t] = plan[t] /\ left'[t] = left[t] /\ pocket'[t] = pocket[t]
  BY <1>1 DEF Base, ScreensTyped
<1> QED BY <1>1, <1>5, <1>6, <1>7, <1>8, ScreenStep

LEMMA PayIs ==
    ASSUME Base, NEW s \in Screens, Pay(s)
    PROVE  /\ pc[s] = "confirm" /\ pc' = [pc EXCEPT ![s] = "change"]
           /\ pocket[s] \in Pockets /\ pocket[s] \in Wallets
           /\ plan[s].amount \in Nat /\ money[pocket[s]] \in Nat
           /\ \E f \in Fees, back \in {0, plan[s].amount} :
                /\ f \in Nat /\ money[pocket[s]] - plan[s].amount - f + back \in Nat
                /\ money' = [money EXCEPT ![pocket[s]] = money[pocket[s]] - plan[s].amount - f + back]
                /\ \/ bounced' = bounced /\ back = 0
                   \/ bounced' = [bounced EXCEPT ![pocket[s]] = back]
           /\ UNCHANGED <<fee, swept, given, stuck, status, denom, cost, notes, plan, left, pocket, melt>>
<1>1. /\ pc[s] = "confirm" /\ pc' = [pc EXCEPT ![s] = "change"]
      /\ money[pocket[s]] >= plan[s].amount + fee
      /\ UNCHANGED <<fee, swept, given, stuck, status, denom, cost, notes, plan, left, pocket, melt>>
  BY DEF Pay, Go, db
<1>2. PICK f \in Charged : Delivered(s, f) \/ Reverted(s, f)
  BY DEF Pay
<1>3. f \in Fees /\ f \in Nat /\ f <= fee /\ fee \in Nat
  BY SendAssumption DEF Charged, Base, ChainTyped
<1>4. pocket[s] \in Pockets /\ pocket[s] \in Wallets
  BY <1>1 DEF Base, ScreenOK, Active, ChainTyped, Wallets
<1>5. plan[s].amount \in Nat /\ money[pocket[s]] \in Nat
  BY <1>4 DEF Base, ScreensTyped, Plans, ChainTyped
<1> DEFINE m == money[pocket[s]]
           a == plan[s].amount
<1>6. m - a - f + 0 \in Nat /\ m - a - f + a \in Nat /\ m - a - f + 0 = m - a - f /\ m - a - f + a = m - f
  <2> HIDE DEF m, a
  <2>1. m \in Nat /\ a \in Nat /\ m >= a + fee
    BY <1>1, <1>5 DEF m, a
  <2> QED BY <1>3, <2>1
<1>7. CASE Delivered(s, f)
  <2>1. money' = [money EXCEPT ![pocket[s]] = m - a - f + 0] /\ bounced' = bounced
    BY <1>6, <1>7 DEF Delivered
  <2> QED BY <1>1, <1>3, <1>4, <1>5, <1>6, <2>1
<1>8. CASE Reverted(s, f)
  <2>1. /\ money' = [money EXCEPT ![pocket[s]] = m - a - f + a]
        /\ bounced' = [bounced EXCEPT ![pocket[s]] = a]
    BY <1>6, <1>8 DEF Reverted
  <2> QED BY <1>1, <1>3, <1>4, <1>5, <1>6, <2>1
<1> QED BY <1>2, <1>7, <1>8

LEMMA PayBase ==
    ASSUME Base, NEW s \in Screens, Pay(s)
    PROVE  Base'
<1>1. /\ pc[s] = "confirm" /\ pc' = [pc EXCEPT ![s] = "change"]
      /\ plan[s].amount \in Nat
      /\ \E f \in Fees, back \in {0, plan[s].amount} :
           /\ f \in Nat /\ money[pocket[s]] - plan[s].amount - f + back \in Nat
           /\ money' = [money EXCEPT ![pocket[s]] = money[pocket[s]] - plan[s].amount - f + back]
           /\ \/ bounced' = bounced /\ back = 0
              \/ bounced' = [bounced EXCEPT ![pocket[s]] = back]
      /\ UNCHANGED <<fee, swept, given, stuck, status, denom, cost, notes, plan, left, pocket, melt>>
  BY PayIs
<1>2. money' \in [Wallets -> Nat] /\ bounced' \in [Wallets -> Nat]
  <2>0. money \in [Wallets -> Nat] /\ bounced \in [Wallets -> Nat]
    BY DEF Base, ChainTyped
  <2>1. money' \in [Wallets -> Nat]
    BY <1>1, <2>0
  <2>2. PICK back \in {0, plan[s].amount} :
           bounced' = bounced \/ bounced' = [bounced EXCEPT ![pocket[s]] = back]
    BY <1>1
  <2>3. back \in Nat
    BY <1>1
  <2>4. bounced' \in [Wallets -> Nat]
    BY <2>0, <2>2, <2>3
  <2> QED BY <2>1, <2>4
<1>5. ChainTyped' /\ DbTyped' /\ ScreensTyped'
  BY <1>1, <1>2 DEF Base, ChainTyped, DbTyped, ScreensTyped, Places
<1>6. ScreenOK(s)'
  <2>1. /\ pc'[s] = "change" /\ cost'[s] = cost[s] /\ notes'[s] = notes[s]
        /\ plan'[s] = plan[s] /\ left'[s] = left[s] /\ pocket'[s] = pocket[s]
        /\ given' = given
    BY <1>1 DEF Base, ScreensTyped
  <2> QED BY <1>1, <2>1 DEF Base, ScreenOK, Sending, Active
<1>7. given \subseteq given'
  BY <1>1
<1>8. \A t \in Screens \ {s} :
         /\ pc'[t] = pc[t] /\ cost'[t] = cost[t] /\ notes'[t] = notes[t]
         /\ plan'[t] = plan[t] /\ left'[t] = left[t] /\ pocket'[t] = pocket[t]
  BY <1>1 DEF Base, ScreensTyped
<1> QED BY <1>1, <1>5, <1>6, <1>7, <1>8, ScreenStep

(* A send that is over, however it ended. *)
LEMMA ForgetBase ==
    ASSUME Base, NEW s \in Screens, Forget(s), NEW at \in {"idle", "closed"}, Go(s, at),
           NEW snap, Finite(snap), notes' = [notes EXCEPT ![s] = snap],
           pc[s] # "closed", DbTyped', UNCHANGED <<chain, cost, melt>>
    PROVE  Base'
<1>1. /\ pc' = [pc EXCEPT ![s] = at] /\ plan' = [plan EXCEPT ![s] = NoPlan]
      /\ left' = [left EXCEPT ![s] = {}] /\ pocket' = [pocket EXCEPT ![s] = NoWallet]
      /\ UNCHANGED <<money, fee, swept, given, bounced, stuck, cost, melt>>
  BY DEF Forget, Go, chain
<1>5. ChainTyped' /\ ScreensTyped'
  <2>1. snap \subseteq Records /\ at \in Places /\ NoPlan \in Plans
    BY NothingFinite DEF Finite, Places
  <2> QED BY <1>1, <2>1 DEF Base, ChainTyped, ScreensTyped
<1>6. ScreenOK(s)'
  <2>1. /\ pc'[s] = at /\ cost'[s] = cost[s] /\ notes'[s] = snap
        /\ plan'[s] = NoPlan /\ left'[s] = {}
    BY <1>1 DEF Base, ScreensTyped
  <2> QED BY <1>1, <2>1, NothingFinite DEF Base, ScreenOK, Sending, Active
<1>7. given \subseteq given'
  BY <1>1
<1>8. \A t \in Screens \ {s} :
         /\ pc'[t] = pc[t] /\ cost'[t] = cost[t] /\ notes'[t] = notes[t]
         /\ plan'[t] = plan[t] /\ left'[t] = left[t] /\ pocket'[t] = pocket[t]
  BY <1>1 DEF Base, ScreensTyped
<1> QED BY <1>1, <1>5, <1>6, <1>7, <1>8, ScreenStep

LEMMA PutChangeIs ==
    ASSUME Base, NEW s \in Screens, PutChange(s)
    PROVE  /\ pc[s] = "change" /\ pocket[s] \in Wallets /\ pocket[s] \in given
           /\ plan[s].remainder \in Nat
           /\ \/ /\ plan[s].remainder > 0
                 /\ status' = [status EXCEPT ![pocket[s]] = "claimed"]
                 /\ denom' = [denom EXCEPT ![pocket[s]] = plan[s].remainder]
              \/ UNCHANGED <<status, denom>>
           /\ notes' = [notes EXCEPT ![s] = {[wallet |-> w, denom |-> denom'[w]] :
                            w \in {v \in Wallets : status'[v] = "claimed"}}]
           /\ DbTyped'
           /\ Forget(s) /\ Go(s, "idle") /\ UNCHANGED <<chain, cost, melt>>
<1>1. pc[s] = "change"
  BY DEF PutChange
<1>2. pocket[s] \in Wallets /\ pocket[s] \in given /\ plan[s].remainder \in Nat
  BY <1>1 DEF Base, ScreenOK, Active, ChainTyped, Wallets, ScreensTyped, Plans
<1>3. \/ /\ plan[s].remainder > 0
         /\ status' = [status EXCEPT ![pocket[s]] = "claimed"]
         /\ denom' = [denom EXCEPT ![pocket[s]] = plan[s].remainder]
      \/ UNCHANGED <<status, denom>>
  BY DEF PutChange, db
<1>4. DbTyped'
  BY <1>2, <1>3 DEF Base, DbTyped
<1>5. /\ notes' = [notes EXCEPT ![s] = {[wallet |-> w, denom |-> denom'[w]] :
                       w \in {v \in Wallets : status'[v] = "claimed"}}]
      /\ Forget(s) /\ Go(s, "idle") /\ UNCHANGED <<chain, cost, melt>>
  BY DEF PutChange
<1> QED BY <1>1, <1>2, <1>3, <1>4, <1>5

LEMMA PutChangeBase ==
    ASSUME Base, NEW s \in Screens, PutChange(s)
    PROVE  Base'
<1> DEFINE W == {v \in Wallets : status'[v] = "claimed"}
           snap == {[wallet |-> w, denom |-> denom'[w]] : w \in W}
<1>1. /\ pc[s] = "change" /\ notes' = [notes EXCEPT ![s] = snap] /\ DbTyped'
      /\ Forget(s) /\ Go(s, "idle") /\ UNCHANGED <<chain, cost, melt>>
  BY PutChangeIs
<1>2. Finite(snap)
  <2>1. W \in SUBSET Wallets /\ denom' \in [Wallets -> Nat]
    BY <1>1 DEF DbTyped
  <2> HIDE DEF W
  <2> QED BY <2>1, SnapshotFinite
<1> HIDE DEF snap
<1> QED BY <1>1, <1>2, ForgetBase

LEMMA SnapshotIs == Base => Finite(Snapshot)
<1> SUFFICES ASSUME Base PROVE Finite(Snapshot)
  OBVIOUS
<1>1. Claimed \in SUBSET Wallets
  BY DEF Claimed
<1> QED BY <1>1, SnapshotFinite DEF Snapshot, Base, DbTyped

LEMMA GivesUpBase ==
    ASSUME Base, NEW s \in Screens, SendFails(s) \/ Reload(s)
    PROVE  Base'
<1>1. CASE SendFails(s)
  <2>1. pc[s] # "closed"
    BY <1>1 DEF SendFails, CannotCover
  <2>2. /\ notes' = [notes EXCEPT ![s] = Snapshot] /\ Forget(s) /\ Go(s, "idle")
        /\ UNCHANGED <<chain, db, cost, melt>>
    BY <1>1 DEF SendFails
  <2>3. DbTyped'
    BY <2>2 DEF Base, DbTyped, db
  <2> QED BY <2>1, <2>2, <2>3, SnapshotIs, ForgetBase
<1>2. CASE Reload(s)
  <2>1. pc[s] # "closed"
    BY <1>2 DEF Reload
  <2>2. /\ notes' = [notes EXCEPT ![s] = {}] /\ Forget(s) /\ Go(s, "closed")
        /\ UNCHANGED <<chain, db, cost, melt>>
    BY <1>2 DEF Reload
  <2>3. DbTyped'
    BY <2>2 DEF Base, DbTyped, db
  <2> QED BY <2>1, <2>2, <2>3, NothingFinite, ForgetBase
<1> QED BY <1>1, <1>2

(* The numbers of a melt, and what a pass asks for. *)
LEMMA GuessIs ==
    ASSUME Base
    PROVE  /\ Guess \in Int /\ melt.balance \in Nat /\ melt.reserve \in Nat
           /\ melt.pass \in Nat /\ melt.pass <= PASSES /\ PASSES \in Nat \ {0} /\ DUST = 1
           /\ \A miss \in Misses : miss \in Nat /\ Limit(miss) \in Nat
           /\ \A burn \in Burns : burn \in Nat
<1>1. /\ melt.balance \in Nat /\ melt.reserve \in Nat /\ melt.pass \in Nat
      /\ melt.pass <= PASSES /\ PASSES \in Nat \ {0} /\ RUNG \in Nat
  BY SendAssumption DEF Base, MeltTyped, Melts
<1>2. melt.pass * RUNG \in Nat
  BY <1>1
<1>3. Guess \in Int /\ DUST = 1
  BY <1>1, <1>2 DEF Guess, DUST
<1>4. \A miss \in Misses : miss \in Nat /\ Limit(miss) \in Nat
  BY <1>1, SendAssumption DEF Limit
<1>5. \A burn \in Burns : burn \in Nat
  BY SendAssumption
<1> QED BY <1>1, <1>3, <1>4, <1>5

(* What a pass that the node takes leaves in the wallet. *)
LEMMA MeltSendIs ==
    ASSUME Base, MeltSend
    PROVE  /\ melt.at = "pass" /\ melt.pass < PASSES /\ melt.wallet \in Wallets
           /\ melt' = [melt EXCEPT !.at = "spent"] /\ swept' = swept \cup {melt.wallet}
           /\ Guess \in Nat /\ money[melt.wallet] \in Nat
           /\ \E burn \in Burns :
                /\ burn \in Nat /\ money[melt.wallet] - Guess - burn \in Nat
                /\ money' = [money EXCEPT ![melt.wallet] = @ - Guess - burn]
           /\ UNCHANGED <<fee, given, bounced, stuck, status, denom, pc, cost, notes, plan, left, pocket>>
<1>1. /\ melt.at = "pass" /\ melt.pass < PASSES /\ Guess > 0
      /\ melt' = [melt EXCEPT !.at = "spent"] /\ swept' = swept \cup {melt.wallet}
      /\ UNCHANGED <<fee, given, bounced, stuck, status, denom, pc, cost, notes, plan, left, pocket>>
  BY DEF MeltSend, InPass, db, screens
<1>2. PICK miss \in Misses, burn \in Burns :
         /\ burn <= Limit(miss) /\ money[melt.wallet] >= Guess + Limit(miss)
         /\ money' = [money EXCEPT ![melt.wallet] = @ - Guess - burn]
  BY DEF MeltSend
<1>3. melt.wallet \in Wallets /\ money[melt.wallet] \in Nat
  BY <1>1 DEF Base, MeltTyped, ChainTyped
<1>4. Guess \in Int /\ Limit(miss) \in Nat /\ burn \in Nat
  BY GuessIs
<1>5. Guess \in Nat
  BY <1>1, <1>4
<1>6. money[melt.wallet] - Guess - burn \in Nat
  BY <1>2, <1>3, <1>4, <1>5
<1> QED BY <1>1, <1>2, <1>3, <1>4, <1>5, <1>6

(* A step of the melt that writes nothing but its own memory. *)
LEMMA MeltThinks ==
    ASSUME Base, ReadBalance \/ NextPass \/ MeltEnds
    PROVE  /\ melt' \in Melts /\ melt'.wallet = melt.wallet /\ melt.wallet \in Wallets
           /\ melt'.at = "pass" => melt'.reserve \in Reserves
           /\ melt.at # "none" /\ UNCHANGED <<chain, db, screens>>
           /\ \/ /\ melt.at = "balance" /\ melt'.at = "pass"
                 /\ melt'.balance = money[melt.wallet]
              \/ /\ melt.at = "pass" /\ melt'.at = "pass" /\ melt'.balance = melt.balance
              \/ /\ melt.at = "pass" /\ melt'.at = "dust"
                 /\ melt'.pass = melt.pass
                 /\ melt.pass = PASSES \/ Guess <= 0
<1>0. /\ melt \in Melts /\ melt.pass \in Nat /\ melt.pass <= PASSES /\ PASSES \in Nat
      /\ melt.at # "none" => melt.wallet \in Wallets /\ money[melt.wallet] \in Nat
      /\ melt.at = "pass" => melt.reserve \in Reserves
  BY GuessIs DEF Base, MeltTyped, ChainTyped
<1>1. CASE ReadBalance
  <2>1. melt.at = "balance" /\ UNCHANGED <<chain, db, screens>>
    BY <1>1 DEF ReadBalance
  <2>2. PICK r \in Reserves :
           melt' = [melt EXCEPT !.at = "pass", !.balance = money[melt.wallet], !.reserve = r]
    BY <1>1 DEF ReadBalance
  <2>3. r \in Nat /\ money[melt.wallet] \in Nat
    BY <1>0, <2>1, SendAssumption
  <2> QED BY <1>0, <2>1, <2>2, <2>3 DEF Melts
<1>2. CASE NextPass
  <2>1. /\ melt.at = "pass" /\ melt.pass < PASSES /\ UNCHANGED <<chain, db, screens>>
        /\ melt' = [melt EXCEPT !.pass = @ + 1]
    BY <1>2 DEF NextPass, InPass
  <2>2. melt.pass + 1 \in 0 .. PASSES
    BY <1>0, <2>1
  <2> QED BY <1>0, <2>1, <2>2 DEF Melts
<1>3. CASE MeltEnds
  <2>1. /\ melt.at = "pass" /\ UNCHANGED <<chain, db, screens>>
        /\ melt.pass = PASSES \/ Guess <= 0
        /\ melt' = [melt EXCEPT !.at = "dust"]
    BY <1>3 DEF MeltEnds
  <2> QED BY <1>0, <1>3, <2>1 DEF Melts, MeltEnds
<1> QED BY <1>1, <1>2, <1>3

LEMMA PickChangeIs ==
    ASSUME Base, NEW w \in Wallets, PickChange(w)
    PROVE  /\ melt' \in Melts /\ melt'.at = "balance" /\ melt'.wallet = w
           /\ status[w] = "claimed" /\ UNCHANGED <<chain, db, screens>>
<1>1. /\ melt' = [at |-> "balance", wallet |-> w, denom |-> denom[w],
                  balance |-> 0, reserve |-> 0, pass |-> 0]
      /\ status[w] = "claimed" /\ UNCHANGED <<chain, db, screens>>
  BY DEF PickChange, NoMelt, Claimed
<1>2. denom[w] \in Nat /\ 0 \in 0 .. PASSES
  BY SendAssumption DEF Base, DbTyped
<1> QED BY <1>1, <1>2 DEF Melts

LEMMA NoMeltTyped == NoMelt \in Melts /\ NoMelt.at = "none"
<1>1. 0 \in 0 .. PASSES
  BY SendAssumption
<1> QED BY <1>1 DEF NoMelt, Melts

(* The melt and the network leave the screens alone. *)
LEMMA MeltBase ==
    ASSUME Base,
           \/ \E w \in Wallets : PickChange(w)
           \/ ReadBalance \/ NextPass \/ MeltSend \/ MeltEnds \/ RecordMelt \/ MeltStops \/ FeeMoves
    PROVE  Base'
<1>1. UNCHANGED <<given, pc, cost, notes, plan, left, pocket>>
  BY DEF PickChange, ReadBalance, NextPass, MeltSend, MeltEnds, RecordMelt, MeltStops, FeeMoves,
         chain, db, screens
<1>2. ScreensTyped' /\ \A s \in Screens : ScreenOK(s)'
  BY <1>1 DEF Base, ScreensTyped, ScreenOK
<1>3. ChainTyped' /\ DbTyped' /\ MeltTyped'
  <2>1. CASE \E w \in Wallets : PickChange(w)
    <3>1. PICK w \in Wallets : PickChange(w)
      BY <2>1
    <3>2. melt' \in Melts /\ melt'.at = "balance" /\ melt'.wallet = w /\ UNCHANGED <<chain, db>>
      BY <3>1, PickChangeIs
    <3> QED BY <3>2 DEF Base, ChainTyped, DbTyped, MeltTyped, chain, db
  <2>2. CASE ReadBalance \/ NextPass \/ MeltEnds
    <3>1. /\ melt' \in Melts /\ melt'.wallet \in Wallets /\ UNCHANGED <<chain, db>>
          /\ melt'.at = "pass" => melt'.reserve \in Reserves
      BY <2>2, MeltThinks
    <3> QED BY <3>1 DEF Base, ChainTyped, DbTyped, MeltTyped, chain, db
  <2>3. CASE MeltSend
    <3>1. /\ melt.wallet \in Wallets /\ swept' = swept \cup {melt.wallet}
          /\ melt' = [melt EXCEPT !.at = "spent"]
          /\ UNCHANGED <<fee, given, bounced, stuck, status, denom>>
      BY <2>3, MeltSendIs
    <3>2. money' \in [Wallets -> Nat]
      BY <2>3, MeltSendIs DEF Base, ChainTyped
    <3>3. melt' \in Melts /\ melt'.at = "spent" /\ melt'.wallet = melt.wallet
      BY <3>1 DEF Base, MeltTyped, Melts
    <3> QED BY <3>1, <3>2, <3>3 DEF Base, ChainTyped, DbTyped, MeltTyped
  <2>4. CASE RecordMelt
    <3>1. PICK d \in Nat, a \in {"spent", "dust"} :
             /\ status' = [status EXCEPT ![melt.wallet] = a]
             /\ denom' = [denom EXCEPT ![melt.wallet] = d]
      <4>1. melt.at \in {"spent", "dust"} /\ melt.denom \in Nat
        BY <2>4 DEF RecordMelt, Base, MeltTyped, Melts
      <4> QED BY <2>4, <4>1 DEF RecordMelt
    <3>2. /\ melt' = NoMelt /\ UNCHANGED <<money, fee, swept, given, bounced>>
          /\ melt.wallet \in Wallets /\ stuck' \subseteq stuck \cup {melt.wallet}
      BY <2>4 DEF RecordMelt, Base, MeltTyped
    <3> QED BY <3>1, <3>2, NoMeltTyped DEF Base, ChainTyped, DbTyped, MeltTyped
  <2>5. CASE MeltStops
    <3>1. melt' = NoMelt /\ UNCHANGED <<chain, db>>
      BY <2>5 DEF MeltStops
    <3> QED BY <3>1, NoMeltTyped DEF Base, ChainTyped, DbTyped, MeltTyped, chain, db
  <2>6. CASE FeeMoves
    BY <2>6 DEF FeeMoves, Base, ChainTyped, DbTyped, MeltTyped, db
  <2> QED BY <2>1, <2>2, <2>3, <2>4, <2>5, <2>6
<1> QED BY <1>2, <1>3 DEF Base

LEMMA BaseStep ==
    ASSUME Base, [Next]_vars
    PROVE  Base'
<1>1. CASE UNCHANGED vars
  BY <1>1 DEF vars, chain, db, screens, Base, ChainTyped, DbTyped, ScreensTyped, MeltTyped, ScreenOK
<1>2. CASE \E s \in Screens :
          \/ Open(s) \/ TakePocket(s) \/ Sweep(s) \/ RecordSpent(s)
          \/ CheckPay(s) \/ Pay(s) \/ PutChange(s) \/ SendFails(s) \/ Reload(s)
          \/ \E amount \in Amounts : Start(s, amount)
  BY <1>2, OpenBase, TakePocketBase, SweepBase, RecordSpentBase, CheckPayBase, PayBase,
     PutChangeBase, GivesUpBase, StartBase
<1>3. CASE \/ \E w \in Wallets : PickChange(w)
           \/ ReadBalance \/ NextPass \/ MeltSend \/ MeltEnds \/ RecordMelt \/ MeltStops \/ FeeMoves
  BY <1>3, MeltBase
<1> QED BY <1>1, <1>2, <1>3 DEF Next

LEMMA BaseInit ==
    ASSUME Init
    PROVE  Base
<1>1. PICK worth \in [Notes -> LADDER] :
         /\ money = [w \in Wallets |-> IF w \in Notes THEN worth[w] ELSE 0]
         /\ denom = money
  BY DEF Init
<1>2. money \in [Wallets -> Nat]
  BY <1>1, SendAssumption
<1>3. ChainTyped /\ DbTyped
  BY <1>1, <1>2 DEF Init, ChainTyped, DbTyped
<1>4. ScreensTyped
  BY NothingFinite DEF Init, ScreensTyped, Places, Finite
<1>5. MeltTyped
  BY SendAssumption DEF Init, MeltTyped, Melts, NoMelt
<1>6. \A s \in Screens : ScreenOK(s)
  BY NothingFinite DEF Init, ScreenOK, Sending, Active
<1> QED BY <1>3, <1>4, <1>5, <1>6 DEF Base

(***************************************************************************)
(* For any tabs, notes, prices and amounts, what the screens have in       *)
(* memory stays typed, and the plan of a send that is under way still adds *)
(* up: what it takes is the amount, the change and the price of each leg.  *)
(***************************************************************************)
THEOREM BaseAlways == Spec => []Base
<1>1. Init => Base
  BY BaseInit
<1>2. Base /\ [Next]_vars => Base'
  BY BaseStep
<1> QED BY <1>1, <1>2, PTL DEF Spec

LEMMA PlanOfBase == Base => PlanIsBest
<1> SUFFICES ASSUME Base, NEW s \in Screens, pc[s] = "idle"
             PROVE  LET sets == SUBSET notes[s]
                    IN  /\ \A amount \in Amounts :
                              LET able == {T \in sets : Deliver(T, cost[s]) >= amount}
                              IN  /\ able = {} <=> Enough(s, amount) = {}
                                  /\ able # {} =>
                                        LET chosen == planSweep(s, amount)
                                        IN  /\ chosen.notes \in able
                                            /\ \A T \in able :
                                                  Cardinality(chosen.notes) <= Cardinality(T)
                        /\ Available(s) = Max({0} \cup {Deliver(T, cost[s]) : T \in sets})
  BY DEF PlanIsBest
<1>1. Finite(notes[s]) /\ cost[s] \in Nat
  BY DEF Base, ScreenOK, ScreensTyped
<1>2. Available(s) = Max({0} \cup {Deliver(T, cost[s]) : T \in SUBSET notes[s]})
  BY <1>1, AvailableIs
<1>3. ASSUME NEW amount \in Amounts,
             NEW able, able = {T \in SUBSET notes[s] : Deliver(T, cost[s]) >= amount}
      PROVE  /\ able = {} <=> Enough(s, amount) = {}
             /\ able # {} =>
                  /\ planSweep(s, amount).notes \in able
                  /\ \A T \in able :
                        Cardinality(planSweep(s, amount).notes) <= Cardinality(T)
  <2>1. amount \in Nat \ {0}
    BY SendAssumption
  <2>2. ASSUME NEW T \in able
        PROVE  \E k \in Enough(s, amount) : k <= Cardinality(T) /\ Cardinality(T) \in Nat
    BY <1>1, <1>3, <2>1, <2>2, AbleIsEnough
  <2>3. ASSUME Enough(s, amount) # {}
        PROVE  /\ planSweep(s, amount).notes \in able
               /\ Cardinality(planSweep(s, amount).notes) \in Nat
               /\ \A k \in Enough(s, amount) :
                     k \in Nat /\ Cardinality(planSweep(s, amount).notes) <= k
    <3>1. /\ planSweep(s, amount).notes \in SUBSET notes[s]
          /\ Deliver(planSweep(s, amount).notes, cost[s]) >= amount
          /\ \A k \in Enough(s, amount) : Cardinality(planSweep(s, amount).notes) <= k
      BY <1>1, <2>1, <2>3, PlanIs
    <3>2. Cardinality(planSweep(s, amount).notes) \in Nat
      BY <1>1, <3>1, FiniteParts
    <3>3. \A k \in Enough(s, amount) : k \in Nat
      BY <1>1, <2>1, EnoughIs
    <3> QED BY <1>3, <3>1, <3>2, <3>3
  <2>4. ASSUME NEW T \in able
        PROVE  Cardinality(planSweep(s, amount).notes) <= Cardinality(T)
    <3>1. PICK k \in Enough(s, amount) : k <= Cardinality(T) /\ Cardinality(T) \in Nat
      BY <2>2
    <3>2. k \in Nat /\ Cardinality(planSweep(s, amount).notes) <= k
          /\ Cardinality(planSweep(s, amount).notes) \in Nat
      BY <2>3
    <3> QED BY <3>1, <3>2
  <2> QED BY <2>2, <2>3, <2>4
<1> QED BY <1>2, <1>3

(* planSweep (spend.ts) refuses only what no set of notes can deliver, and  *)
(* takes as few as any set that can.  The amount that the screen names is   *)
(* the most that can be sent.                                               *)
THEOREM PlanIsBestAlways == Spec => []PlanIsBest
BY BaseAlways, PlanOfBase, PTL

-----------------------------------------------------------------------------
(* The pockets, and what the wallets of the records hold. *)

(* The network asks no price above this one for a leg of a plan. *)
FeeTop == LegCost(Max(Fees))

(* A pocket holds what the notes that landed brought, less their own legs. *)
Holds(s, rest) ==
    money[pocket[s]] + Cardinality(plan[s].notes \ rest) * cost[s]
        = Held(plan[s].notes \ rest)

PocketOK(s) ==
    pc[s] \in Active =>
        /\ status[pocket[s]] = "none"
        /\ pc[s] \in {"sweep", "confirm"} => Holds(s, left[s])
        /\ pc[s] = "record" =>
             /\ Holds(s, left[s] \ {Largest(s)})
             /\ money[Largest(s).wallet] <= Leftover + bounced[Largest(s).wallet]
        /\ pc[s] = "change" =>
             \E f \in Fees :
                /\ plan[s].remainder + cost[s] <= money[pocket[s]] + f
                /\ money[pocket[s]] + f <= plan[s].remainder + cost[s] + bounced[pocket[s]]

(* A wallet that a screen read about is on record since, and holds at most  *)
(* what the record said, the price of one leg and what bounced.             *)
SeenOK(s) ==
    \A n \in notes[s] \cup plan[s].notes :
        /\ status[n.wallet] # "none"
        /\ money[n.wallet] <= n.denom + FeeTop + bounced[n.wallet]

WalletOK(w) ==
    /\ w \in Pockets \ given => status[w] = "none" /\ money[w] = 0
    /\ status[w] = "claimed" => money[w] <= denom[w] + FeeTop + bounced[w]
    /\ status[w] \in {"spent", "dust"} => w \in stuck \/ money[w] <= Leftover + bounced[w]

OnePocketEach ==
    \A s, t \in Screens :
        s # t /\ pc[s] \in Active /\ pc[t] \in Active => pocket[s] # pocket[t]

MeltOK ==
    melt.at # "none" =>
        /\ status[melt.wallet] # "none"
        /\ melt.at = "pass" => money[melt.wallet] <= melt.balance
        /\ melt.at \in {"spent", "dust"} =>
              melt.pass = PASSES \/ money[melt.wallet] <= MeltTop

Purses ==
    /\ Base /\ OnePocketEach /\ MeltOK
    /\ \A s \in Screens : PocketOK(s) /\ SeenOK(s)
    /\ \A w \in Wallets : WalletOK(w)

(* A finite set of numbers has a highest one. *)
LEMMA HighestOf ==
    ASSUME NEW S \in SUBSET Nat, IsFiniteSet(S), S # {}
    PROVE  Max(S) \in S /\ \A f \in S : f <= Max(S)
<1> DEFINE HasTop(T) == \E x \in T : \A y \in T : x >= y
           Bad == {T \in SUBSET S : T # {} /\ ~ HasTop(T)}
<1>0. IsFiniteSet(S) /\ S \subseteq Nat
  OBVIOUS
<1>1. Bad = {}
  <2> SUFFICES ASSUME Bad # {} PROVE FALSE
    OBVIOUS
  <2>1. PICK T \in Bad : \A U \in Bad : Cardinality(T) <= Cardinality(U)
    <3>1. Bad \in SUBSET SUBSET S
      OBVIOUS
    <3> HIDE DEF Bad
    <3> QED BY <1>0, <3>1, MinimalSubset
  <2>2. T \in SUBSET S /\ T # {} /\ ~ HasTop(T) /\ IsFiniteSet(T)
    BY <1>0, FS_Subset
  <2>3. PICK x \in T : TRUE
    BY <2>2
  <2>4. /\ T \ {x} \in SUBSET S /\ Cardinality(T) \in Nat
        /\ Cardinality(T \ {x}) = Cardinality(T) - 1
    BY <2>2, <2>3, FS_RemoveElement, FS_CardinalityType
  <2>5. T \ {x} \notin Bad
    <3> HIDE DEF Bad
    <3> QED BY <2>1, <2>4
  <2>6. T \ {x} # {}
    <3> SUFFICES ASSUME T \ {x} = {} PROVE FALSE
      OBVIOUS
    <3>1. \A y \in T : y = x /\ x \in Nat
      BY <1>0, <2>2, <2>3
    <3> QED BY <2>2, <2>3, <3>1
  <2>7. PICK z \in T \ {x} : \A y \in T \ {x} : z >= y
    BY <2>4, <2>5, <2>6
  <2>8. x \in Nat /\ z \in Nat /\ z \in T /\ \A y \in T : y \in Nat
    BY <1>0, <2>2, <2>3
  <2>9. CASE z >= x
    BY <2>2, <2>7, <2>8, <2>9
  <2>10. CASE x > z
    <3>1. \A y \in T : x >= y
      BY <2>7, <2>8, <2>10
    <3> QED BY <2>2, <2>3, <3>1
  <2> QED BY <2>8, <2>9, <2>10
<1>2. HasTop(S)
  <2> HIDE DEF HasTop
  <2> QED BY <1>1
<1>3. Max(S) \in S /\ \A y \in S : Max(S) >= y
  BY <1>2 DEF Max
<1> QED BY <1>0, <1>3

LEMMA FeeTopIs ==
    ASSUME NEW f \in Fees
    PROVE  /\ f \in Nat /\ FeeTop \in Nat /\ f <= FeeTop
           /\ LegCost(f) \in Nat /\ LegCost(f) <= FeeTop
<1> DEFINE top == Max(Fees)
<1>1. top \in Fees /\ f <= top
  BY HighestOf, SendAssumption
<1> HIDE DEF top
<1>2. top \in Nat /\ f \in Nat
  BY <1>1, SendAssumption
<1>3. LegCost(f) <= LegCost(top) /\ LegCost(top) \in Nat /\ LegCost(f) \in Nat /\ top <= LegCost(top)
  BY <1>1, <1>2 DEF LegCost, DUST
<1> QED BY <1>1, <1>2, <1>3 DEF FeeTop, top

(* The price of an open screen is below it too. *)
LEMMA CostIs ==
    ASSUME Base, NEW s \in Screens, pc[s] # "closed"
    PROVE  cost[s] \in Nat /\ cost[s] <= FeeTop /\ FeeTop \in Nat
<1>1. PICK f \in Fees : cost[s] = LegCost(f)
  BY DEF Base, ScreenOK
<1> QED BY <1>1, FeeTopIs

LEMMA LeftoverIs ==
    ASSUME Base
    PROVE  /\ FeeTop \in Nat /\ MeltTop \in Nat /\ Leftover = 2 * FeeTop + MeltTop
           /\ Leftover \in Nat /\ DUST = 1
<1>1. fee \in Fees
  BY DEF Base, ChainTyped
<1>2. FeeTop \in Nat
  BY <1>1, FeeTopIs
<1>3. MeltTop \in Nat
  <2>1. Max(Reserves) \in Nat
    BY HighestOf, SendAssumption
  <2>2. (PASSES - 1) * RUNG \in Nat
    BY SendAssumption
  <2> QED BY <2>1, <2>2 DEF MeltTop, DUST
<1> QED BY <1>2, <1>3 DEF Leftover, FeeTop, DUST

(* What a pass does not ask for is at most what the last one keeps back.    *)
LEMMA PassKeepsBack ==
    ASSUME Base, melt.at = "pass", melt.pass < PASSES
    PROVE  melt.balance - Guess <= MeltTop
<1> DEFINE i == melt.pass
           r == melt.reserve
           top == Max(Reserves)
<1>1. i \in Nat /\ r \in Reserves /\ melt.balance \in Nat /\ PASSES \in Nat /\ RUNG \in Nat
  BY SendAssumption DEF Base, MeltTyped, Melts
<1>2. r <= top /\ r \in Nat /\ top \in Nat
  BY <1>1, HighestOf, SendAssumption
<1>3. i <= PASSES - 1
  BY <1>1
<1>4. Guess = melt.balance - r - 1 - i * RUNG /\ MeltTop = top + 1 + (PASSES - 1) * RUNG
  BY DEF Guess, MeltTop, DUST
<1> HIDE DEF i, r, top
<1>5. i * RUNG \in Nat /\ (PASSES - 1) * RUNG \in Nat /\ i * RUNG <= (PASSES - 1) * RUNG
  BY <1>1, <1>3
<1> QED BY <1>1, <1>2, <1>4, <1>5

(* One more note of a plan lands. *)
LEMMA HoldsOneMore ==
    ASSUME NEW U, Finite(U), NEW T \in SUBSET U, NEW n \in T, NEW k \in Nat
    PROVE  /\ Held(U \ (T \ {n})) = n.denom + Held(U \ T)
           /\ Cardinality(U \ (T \ {n})) * k = Cardinality(U \ T) * k + k
           /\ Held(U \ T) \in Nat /\ Cardinality(U \ T) * k \in Nat /\ n.denom \in Nat
<1> DEFINE more == U \ (T \ {n})
           less == U \ T
<1>1. /\ more \in SUBSET U /\ less \in SUBSET U /\ n \in more /\ more \ {n} = less
  OBVIOUS
<1> HIDE DEF more, less
<1>2. Finite(more) /\ Finite(less) /\ Cardinality(more) \in Nat /\ Cardinality(less) \in Nat
  BY <1>1, FiniteParts
<1>3. Held(more) = n.denom + Held(less)
  BY <1>1, <1>2, HeldWithout
<1>4. Cardinality(more) = Cardinality(less) + 1
  <2>1. Cardinality(more \ {n}) = Cardinality(more) - 1
    BY <1>1, <1>2, FS_RemoveElement DEF Finite
  <2>2. more \ {n} = less
    BY <1>1
  <2>3. Cardinality(less) = Cardinality(more) - 1
    BY <2>1, <2>2
  <2> QED BY <1>2, <2>3
<1>5. (Cardinality(less) + 1) * k = Cardinality(less) * k + k /\ Cardinality(less) * k \in Nat
  BY <1>2, OneMore
<1>6. Held(less) \in Nat /\ n.denom \in Nat
  BY <1>2, HeldFirst DEF Finite, Records
<1> QED BY <1>3, <1>4, <1>5, <1>6 DEF more, less

(* No step takes a record away, or brings money to a wallet on record.      *)
Falls ==
    /\ stuck \subseteq stuck'
    /\ \A w \in Wallets :
          status[w] # "none" => /\ status'[w] # "none" /\ money'[w] <= money[w]
                                /\ bounced'[w] = bounced[w]

Alone(t) ==
    /\ pc'[t] = pc[t] /\ cost'[t] = cost[t] /\ notes'[t] = notes[t]
    /\ plan'[t] = plan[t] /\ left'[t] = left[t] /\ pocket'[t] = pocket[t]
    /\ pc[t] \in Active => /\ money'[pocket[t]] = money[pocket[t]]
                           /\ bounced'[pocket[t]] = bounced[pocket[t]]
                           /\ status'[pocket[t]] = "none"

LEMMA SeenFalls ==
    ASSUME Purses, Base', Falls, NEW n \in Records, NEW d \in Nat,
           status[n.wallet] # "none", money[n.wallet] <= n.denom + d + bounced[n.wallet]
    PROVE  /\ status'[n.wallet] # "none"
           /\ money'[n.wallet] <= n.denom + d + bounced'[n.wallet]
<1>1. n.wallet \in Wallets /\ n.denom \in Nat
  BY DEF Records
<1>2. money[n.wallet] \in Nat /\ money'[n.wallet] \in Nat /\ bounced[n.wallet] \in Nat
  BY <1>1 DEF Purses, Base, ChainTyped
<1>3. /\ status'[n.wallet] # "none" /\ money'[n.wallet] <= money[n.wallet]
      /\ bounced'[n.wallet] = bounced[n.wallet]
  BY <1>1 DEF Falls
<1> QED BY <1>1, <1>2, <1>3

LEMMA NotesTyped ==
    ASSUME Base, NEW s \in Screens
    PROVE  notes[s] \subseteq Records /\ plan[s].notes \subseteq Records /\ FeeTop \in Nat
BY LeftoverIs DEF Base, ScreenOK, Finite

LEMMA AloneOK ==
    ASSUME Purses, Base', Falls, NEW t \in Screens, Alone(t)
    PROVE  PocketOK(t)' /\ SeenOK(t)'
<1>0. Base /\ PocketOK(t) /\ SeenOK(t)
  BY DEF Purses
<1>1. SeenOK(t)'
  <2>1. notes[t] \subseteq Records /\ plan[t].notes \subseteq Records /\ FeeTop \in Nat
    BY <1>0, NotesTyped
  <2>2. ASSUME NEW n \in notes[t] \cup plan[t].notes
        PROVE  status'[n.wallet] # "none" /\ money'[n.wallet] <= n.denom + FeeTop + bounced'[n.wallet]
    <3>1. n \in Records /\ status[n.wallet] # "none" /\ money[n.wallet] <= n.denom + FeeTop + bounced[n.wallet]
      BY <1>0, <2>1 DEF SeenOK
    <3> QED BY <2>1, <3>1, SeenFalls
  <2> QED BY <2>2 DEF SeenOK, Alone
<1>2. PocketOK(t)'
  <2> SUFFICES ASSUME pc[t] \in Active PROVE PocketOK(t)'
    BY DEF PocketOK, Alone
  <2>1. Largest(t)' = Largest(t)
    BY DEF Largest, Alone
  <2>2. \A rest : Holds(t, rest)' <=> Holds(t, rest)
    BY DEF Holds, Alone
  <2>3. ASSUME pc[t] = "record"
        PROVE  money'[Largest(t).wallet] <= Leftover + bounced'[Largest(t).wallet]
    <3>1. left[t] # {}
      BY <1>0, <2>3 DEF Base, ScreenOK
    <3>2. Largest(t) \in plan[t].notes /\ Largest(t).wallet \in Wallets
      BY <1>0, <3>1, LargestIs
    <3>3. status[Largest(t).wallet] # "none"
      BY <1>0, <3>2 DEF SeenOK
    <3>4. /\ money'[Largest(t).wallet] <= money[Largest(t).wallet]
          /\ bounced'[Largest(t).wallet] = bounced[Largest(t).wallet]
      BY <3>2, <3>3 DEF Falls
    <3>5. money[Largest(t).wallet] <= Leftover + bounced[Largest(t).wallet]
      BY <1>0, <2>3 DEF PocketOK, Active
    <3>6. /\ money[Largest(t).wallet] \in Nat /\ money'[Largest(t).wallet] \in Nat
          /\ bounced[Largest(t).wallet] \in Nat
      BY <3>2 DEF Purses, Base, ChainTyped
    <3> QED BY <1>0, <3>4, <3>5, <3>6, LeftoverIs
  <2>4. /\ status'[pocket'[t]] = "none" /\ money'[pocket'[t]] = money[pocket[t]]
        /\ bounced'[pocket'[t]] = bounced[pocket[t]]
        /\ pc'[t] = pc[t] /\ plan'[t] = plan[t] /\ cost'[t] = cost[t] /\ left'[t] = left[t]
    BY DEF Alone
  <2>5. pc[t] \in {"sweep", "confirm"} => Holds(t, left[t])'
    BY <1>0, <2>4 DEF PocketOK, Holds
  <2>6. pc[t] = "record" => (Holds(t, left[t] \ {Largest(t)}))'
    BY <1>0, <2>1, <2>4 DEF PocketOK, Holds
  <2>7. pc[t] = "change" =>
           \E f \in Fees :
              /\ plan'[t].remainder + cost'[t] <= money'[pocket'[t]] + f
              /\ money'[pocket'[t]] + f <= plan'[t].remainder + cost'[t] + bounced'[pocket'[t]]
    BY <1>0, <2>4 DEF PocketOK, Active
  <2> QED BY <2>1, <2>3, <2>4, <2>5, <2>6, <2>7 DEF PocketOK
<1> QED BY <1>1, <1>2

LEMMA MeltStays ==
    ASSUME Purses, Base', Falls, melt' = melt
    PROVE  MeltOK'
<1> SUFFICES ASSUME melt.at # "none"
             PROVE  /\ status'[melt.wallet] # "none"
                    /\ melt.at = "pass" => money'[melt.wallet] <= melt.balance
                    /\ melt.at \in {"spent", "dust"} =>
                          melt.pass = PASSES \/ money'[melt.wallet] <= MeltTop
  BY DEF MeltOK, MeltTop
<1>1. Base /\ melt.wallet \in Wallets /\ MeltOK
  BY DEF Purses, Base, MeltTyped
<1>2. status'[melt.wallet] # "none" /\ money'[melt.wallet] <= money[melt.wallet]
  BY <1>1 DEF MeltOK, Falls
<1>3. money[melt.wallet] \in Nat /\ money'[melt.wallet] \in Nat
  BY <1>1 DEF Purses, Base, ChainTyped
<1>4. MeltTop \in Nat /\ melt.balance \in Nat
  BY <1>1, LeftoverIs, GuessIs
<1> QED BY <1>1, <1>2, <1>3, <1>4 DEF MeltOK

(* A step of a screen, the others let alone. *)
LEMMA PurseStep ==
    ASSUME Purses, Base', Falls, melt' = melt, NEW s \in Screens,
           \A t \in Screens \ {s} : Alone(t),
           PocketOK(s)', SeenOK(s)', \A w \in Wallets : WalletOK(w)',
           pc'[s] \in Active => \/ pc[s] \in Active /\ pocket'[s] = pocket[s]
                                \/ pocket'[s] \notin given
    PROVE  Purses'
<1>1. \A t \in Screens : PocketOK(t)' /\ SeenOK(t)'
  BY AloneOK
<1>2. OnePocketEach'
  <2> SUFFICES ASSUME NEW t \in Screens \ {s}, pc'[t] \in Active, pc'[s] \in Active
               PROVE  pocket'[s] # pocket'[t]
    <3>1. ASSUME NEW t \in Screens, NEW u \in Screens, t # u,
                 pc'[t] \in Active, pc'[u] \in Active, t # s, u # s
          PROVE  pocket'[t] # pocket'[u]
      BY <3>1 DEF Alone, Purses, OnePocketEach
    <3> QED BY <3>1 DEF OnePocketEach
  <2>1. pc[t] \in Active /\ pocket'[t] = pocket[t]
    BY DEF Alone
  <2>2. pocket[t] \in given
    BY <2>1 DEF Purses, Base, ScreenOK
  <2> QED BY <2>1, <2>2 DEF Purses, OnePocketEach
<1>3. MeltOK'
  BY MeltStays
<1> QED BY <1>1, <1>2, <1>3 DEF Purses
-----------------------------------------------------------------------------
(* The steps of a send. *)

(* A step that moves no money and writes no record. *)
LEMMA QuietStep ==
    ASSUME Purses, Base', NEW s \in Screens,
           UNCHANGED <<money, swept, given, bounced, stuck, status, denom, melt>>,
           \A t \in Screens \ {s} :
              /\ pc'[t] = pc[t] /\ cost'[t] = cost[t] /\ notes'[t] = notes[t]
              /\ plan'[t] = plan[t] /\ left'[t] = left[t] /\ pocket'[t] = pocket[t],
           PocketOK(s)', SeenOK(s)',
           pc'[s] \in Active => pc[s] \in Active /\ pocket'[s] = pocket[s]
    PROVE  Purses'
<1>1. Falls
  <2>1. \A w \in Wallets : money[w] \in Nat
    BY DEF Purses, Base, ChainTyped
  <2> QED BY <2>1 DEF Falls
<1>2. \A t \in Screens \ {s} : Alone(t)
  <2>1. \A t \in Screens : PocketOK(t)
    BY DEF Purses
  <2> QED BY <2>1 DEF Alone, PocketOK
<1>3. \A w \in Wallets : WalletOK(w)'
  BY DEF Purses, WalletOK
<1> QED BY <1>1, <1>2, <1>3, PurseStep

(* A set of records that the screen has just read. *)
LEMMA ReadIsSeen ==
    ASSUME NEW W, NEW st, NEW d, NEW m, NEW x, NEW S,
           S = {[wallet |-> w, denom |-> d[w]] : w \in {v \in W : st[v] = "claimed"}},
           \A w \in W : st[w] = "claimed" => m[w] <= d[w] + FeeTop + x[w]
    PROVE  \A n \in S : st[n.wallet] # "none" /\ m[n.wallet] <= n.denom + FeeTop + x[n.wallet]
OBVIOUS

LEMMA SnapshotSeen ==
    ASSUME Purses
    PROVE  \A n \in Snapshot :
              status[n.wallet] # "none" /\ money[n.wallet] <= n.denom + FeeTop + bounced[n.wallet]
<1>1. \A w \in Wallets : status[w] = "claimed" => money[w] <= denom[w] + FeeTop + bounced[w]
  BY DEF Purses, WalletOK
<1>2. Snapshot = {[wallet |-> w, denom |-> denom[w]] :
                     w \in {v \in Wallets : status[v] = "claimed"}}
  BY DEF Snapshot, Claimed
<1> QED BY <1>1, <1>2, ReadIsSeen

LEMMA OpenPurses ==
    ASSUME Purses, Base', NEW s \in Screens, Open(s)
    PROVE  Purses'
<1>0. Base /\ SeenOK(s)
  BY DEF Purses
<1>1. /\ pc' = [pc EXCEPT ![s] = "idle"] /\ cost' = [cost EXCEPT ![s] = LegCost(fee)]
      /\ notes' = [notes EXCEPT ![s] = Snapshot]
      /\ UNCHANGED <<money, fee, swept, given, bounced, stuck, status, denom, plan, left, pocket, melt>>
  BY DEF Open, Go, chain, db
<1>2. /\ pc'[s] = "idle" /\ notes'[s] = Snapshot /\ plan'[s] = plan[s]
  BY <1>0, <1>1 DEF Base, ScreensTyped
<1>3. PocketOK(s)'
  BY <1>2 DEF PocketOK, Active
<1>4. SeenOK(s)'
  BY <1>0, <1>1, <1>2, SnapshotSeen DEF SeenOK
<1>5. \A t \in Screens \ {s} :
         /\ pc'[t] = pc[t] /\ cost'[t] = cost[t] /\ notes'[t] = notes[t]
         /\ plan'[t] = plan[t] /\ left'[t] = left[t] /\ pocket'[t] = pocket[t]
  BY <1>0, <1>1 DEF Base, ScreensTyped
<1>6. pc'[s] \notin Active
  BY <1>2 DEF Active
<1> QED BY <1>1, <1>3, <1>4, <1>5, <1>6, QuietStep

LEMMA StartPurses ==
    ASSUME Purses, Base', NEW s \in Screens, NEW amount \in Amounts, Start(s, amount)
    PROVE  Purses'
<1> DEFINE p == planSweep(s, amount)
<1>0. Base /\ SeenOK(s)
  BY DEF Purses
<1>1. amount \in Nat \ {0} /\ Finite(notes[s]) /\ cost[s] \in Nat
  BY <1>0, SendAssumption DEF Base, ScreensTyped, ScreenOK
<1>2. p.notes \in SUBSET notes[s]
  BY <1>1, PlanIs DEF Start
<1>3. /\ pc' = [pc EXCEPT ![s] = "pocket"] /\ plan' = [plan EXCEPT ![s] = p]
      /\ left' = [left EXCEPT ![s] = p.notes] /\ pc[s] = "idle"
      /\ UNCHANGED <<money, fee, swept, given, bounced, stuck, status, denom, cost, notes, pocket, melt>>
  BY DEF Start, Go, chain, db
<1> HIDE DEF p
<1>4. pc'[s] = "pocket" /\ notes'[s] = notes[s] /\ plan'[s] = p
  BY <1>0, <1>3 DEF Base, ScreensTyped
<1>5. PocketOK(s)' /\ pc'[s] \notin Active
  BY <1>4 DEF PocketOK, Active
<1>6. SeenOK(s)'
  BY <1>0, <1>2, <1>3, <1>4 DEF SeenOK
<1>7. \A t \in Screens \ {s} :
         /\ pc'[t] = pc[t] /\ cost'[t] = cost[t] /\ notes'[t] = notes[t]
         /\ plan'[t] = plan[t] /\ left'[t] = left[t] /\ pocket'[t] = pocket[t]
  BY <1>0, <1>3 DEF Base, ScreensTyped
<1> QED BY <1>3, <1>5, <1>6, <1>7, QuietStep

(* A send that gives up leaves its pocket, and what is in it, without a record. *)
LEMMA GivesUpPurses ==
    ASSUME Purses, Base', NEW s \in Screens, SendFails(s) \/ Reload(s)
    PROVE  Purses'
<1>0. Base /\ SeenOK(s)
  BY DEF Purses
<1>1. PICK at \in {"idle", "closed"}, snap \in {Snapshot, {}} :
         /\ pc' = [pc EXCEPT ![s] = at] /\ notes' = [notes EXCEPT ![s] = snap]
         /\ plan' = [plan EXCEPT ![s] = NoPlan]
  BY DEF SendFails, Reload, Forget, Go
<1>2. /\ left' = [left EXCEPT ![s] = {}] /\ pocket' = [pocket EXCEPT ![s] = NoWallet]
      /\ UNCHANGED <<money, fee, swept, given, bounced, stuck, status, denom, cost, melt>>
  BY DEF SendFails, Reload, Forget, chain, db
<1>3. pc'[s] = at /\ notes'[s] = snap /\ plan'[s] = NoPlan
  BY <1>0, <1>1 DEF Base, ScreensTyped
<1>4. PocketOK(s)' /\ pc'[s] \notin Active
  BY <1>3 DEF PocketOK, Active
<1>5. SeenOK(s)'
  <2>1. plan'[s].notes = {}
    BY <1>3 DEF NoPlan
  <2>2. \A n \in snap : status[n.wallet] # "none" /\ money[n.wallet] <= n.denom + FeeTop + bounced[n.wallet]
    BY SnapshotSeen
  <2> QED BY <1>2, <1>3, <2>1, <2>2 DEF SeenOK
<1>6. \A t \in Screens \ {s} :
         /\ pc'[t] = pc[t] /\ cost'[t] = cost[t] /\ notes'[t] = notes[t]
         /\ plan'[t] = plan[t] /\ left'[t] = left[t] /\ pocket'[t] = pocket[t]
  BY <1>0, <1>1, <1>2 DEF Base, ScreensTyped
<1> QED BY <1>2, <1>4, <1>5, <1>6, QuietStep

LEMMA CheckPayPurses ==
    ASSUME Purses, Base', NEW s \in Screens, CheckPay(s)
    PROVE  Purses'
<1>0. Base /\ SeenOK(s) /\ PocketOK(s)
  BY DEF Purses
<1>1. /\ pc[s] = "sweep" /\ left[s] = {} /\ pc' = [pc EXCEPT ![s] = "confirm"]
      /\ UNCHANGED <<money, fee, swept, given, bounced, stuck, status, denom, cost, notes, plan, left, pocket, melt>>
  BY DEF CheckPay, Go, chain, db
<1>2. pc'[s] = "confirm" /\ pc[s] \in Active
  BY <1>0, <1>1 DEF Base, ScreensTyped, Active
<1>3. PocketOK(s)'
  BY <1>0, <1>1, <1>2 DEF PocketOK, Holds
<1>4. SeenOK(s)'
  BY <1>0, <1>1 DEF SeenOK
<1>5. \A t \in Screens \ {s} :
         /\ pc'[t] = pc[t] /\ cost'[t] = cost[t] /\ notes'[t] = notes[t]
         /\ plan'[t] = plan[t] /\ left'[t] = left[t] /\ pocket'[t] = pocket[t]
  BY <1>0, <1>1 DEF Base, ScreensTyped
<1> QED BY <1>1, <1>2, <1>3, <1>4, <1>5, QuietStep

(* A new pocket is empty, and no other screen has it. *)
LEMMA TakePocketPurses ==
    ASSUME Purses, Base', NEW s \in Screens, TakePocket(s)
    PROVE  Purses'
<1>0. Base /\ SeenOK(s) /\ (\A w \in Wallets : WalletOK(w)) /\ \A t \in Screens : PocketOK(t)
  BY DEF Purses
<1>1. PICK w \in Pockets \ given : pocket' = [pocket EXCEPT ![s] = w] /\ given' = given \cup {w}
  BY DEF TakePocket
<1>2. /\ pc' = [pc EXCEPT ![s] = "sweep"] /\ pc[s] = "pocket"
      /\ UNCHANGED <<money, fee, swept, bounced, stuck, status, denom, cost, notes, plan, left, melt>>
  BY DEF TakePocket, Go, db
<1>3. /\ pc'[s] = "sweep" /\ pocket'[s] = w /\ left'[s] = left[s] /\ plan'[s] = plan[s]
      /\ cost'[s] = cost[s] /\ notes'[s] = notes[s] /\ left[s] = plan[s].notes
  BY <1>0, <1>1, <1>2 DEF Base, ScreensTyped, ScreenOK
<1>4. status[w] = "none" /\ money[w] = 0 /\ w \in Wallets
  BY <1>0 DEF WalletOK, Wallets
<1>5. (Holds(s, left[s]))'
  <2>1. plan[s].notes \ left[s] = {} /\ Held({}) = 0 /\ Cardinality({}) = 0
    BY <1>3, NothingFinite, HeldFirst, FS_EmptySet
  <2>2. cost[s] \in Nat
    BY <1>0 DEF Base, ScreensTyped
  <2>3. 0 * cost[s] = 0
    BY <2>2, OneMore
  <2>4. plan'[s].notes \ left'[s] = {}
    BY <1>3, <2>1
  <2>5. money'[pocket'[s]] = 0 /\ cost'[s] = cost[s]
    BY <1>2, <1>3, <1>4
  <2>6. money'[pocket'[s]] + Cardinality({}) * cost'[s] = Held({})
    BY <2>1, <2>3, <2>5
  <2> QED BY <2>4, <2>6 DEF Holds
<1>6. PocketOK(s)'
  BY <1>2, <1>3, <1>4, <1>5 DEF PocketOK
<1>7. SeenOK(s)'
  BY <1>0, <1>2 DEF SeenOK
<1>8. Falls
  <2>1. \A v \in Wallets : money[v] \in Nat
    BY <1>0 DEF Base, ChainTyped
  <2> QED BY <1>2, <2>1 DEF Falls
<1>9. \A t \in Screens \ {s} : Alone(t)
  BY <1>0, <1>1, <1>2 DEF Base, ScreensTyped, Alone, PocketOK
<1>10. \A v \in Wallets : WalletOK(v)'
  BY <1>0, <1>1, <1>2 DEF WalletOK
<1> QED BY <1>1, <1>2, <1>3, <1>6, <1>7, <1>8, <1>9, <1>10, PurseStep

(* The pockets of other screens, and what is on record, are other wallets.  *)
LEMMA Apart ==
    ASSUME Purses, NEW s \in Screens, pc[s] \in Active
    PROVE  /\ status[pocket[s]] = "none" /\ pocket[s] \in given /\ pocket[s] \in Wallets
           /\ \A t \in Screens \ {s} : pc[t] \in Active =>
                 pocket[t] # pocket[s] /\ status[pocket[t]] = "none"
           /\ \A n \in plan[s].notes : status[n.wallet] # "none"
<1>1. status[pocket[s]] = "none" /\ pocket[s] \in given
  BY DEF Purses, PocketOK, Base, ScreenOK
<1>2. pocket[s] \in Wallets
  BY <1>1 DEF Purses, Base, ChainTyped, Wallets
<1>3. \A t \in Screens \ {s} : pc[t] \in Active =>
         pocket[t] # pocket[s] /\ status[pocket[t]] = "none"
  BY DEF Purses, OnePocketEach, PocketOK
<1>4. \A n \in plan[s].notes : status[n.wallet] # "none"
  BY DEF Purses, SeenOK
<1> QED BY <1>1, <1>2, <1>3, <1>4

(* The money of a note moves to the pocket. *)
LEMMA SweepPurses ==
    ASSUME Purses, Base', NEW s \in Screens, Sweep(s)
    PROVE  Purses'
<1> DEFINE w == Largest(s).wallet
           p == pocket[s]
           P == plan[s].notes
           L == left[s]
           c == cost[s]
<1>0. /\ Base /\ PocketOK(s) /\ SeenOK(s) /\ (\A v \in Wallets : WalletOK(v))
      /\ \A t \in Screens : PocketOK(t)
  BY DEF Purses
<1>1. /\ w \in Wallets /\ p \in Pockets
      /\ Share(s) \in Nat /\ Share(s) = Largest(s).denom - c
      /\ c \in Nat /\ Largest(s).denom \in Nat /\ L # {}
      /\ Largest(s) \in L /\ Largest(s) \in P
      /\ pc[s] = "sweep"
  BY <1>0, SweepIs
<1>2. PICK f \in Fees :
         /\ money[w] - Share(s) - f \in Nat
         /\ money' = [money EXCEPT ![w] = @ - Share(s) - f, ![p] = @ + Share(s)]
  BY <1>0, SweepIs
<1>3. /\ swept' = swept \cup {w} /\ pc' = [pc EXCEPT ![s] = "record"]
      /\ UNCHANGED <<fee, given, bounced, stuck, status, denom, cost, notes, plan, left, pocket, melt>>
  BY <1>0, SweepIs
<1>4. /\ status[p] = "none" /\ p \in Wallets /\ p \in given
      /\ \A t \in Screens \ {s} : pc[t] \in Active => pocket[t] # p /\ status[pocket[t]] = "none"
      /\ status[w] # "none"
  BY <1>1, Apart DEF Active
<1>5. /\ f \in Nat /\ money[w] \in Nat /\ money[p] \in Nat
      /\ \A v \in Wallets : money[v] \in Nat
  BY <1>0, <1>1, <1>4, FeeTopIs DEF Base, ChainTyped
<1>6. L \subseteq P /\ Finite(P)
  BY <1>0 DEF Base, ScreenOK
<1>7. pc'[s] = "record" /\ Largest(s)' = Largest(s)
  BY <1>0, <1>3 DEF Base, ScreensTyped, Largest
<1> HIDE DEF w, p, P, L, c
<1>8. w # p
  BY <1>4
<1>9. /\ money'[w] = money[w] - Share(s) - f /\ money'[p] = money[p] + Share(s)
      /\ \A v \in Wallets : v # w /\ v # p => money'[v] = money[v]
  <2>1. money \in [Wallets -> Nat]
    BY <1>0 DEF Base, ChainTyped
  <2> QED BY <1>1, <1>2, <1>4, <1>8, <2>1
<1>10. money'[w] <= money[w] /\ money'[w] \in Nat
  BY <1>1, <1>2, <1>5, <1>9
<1>11. Falls
  <2> SUFFICES ASSUME NEW v \in Wallets, status[v] # "none"
               PROVE  /\ status'[v] # "none" /\ money'[v] <= money[v]
                      /\ bounced'[v] = bounced[v]
    BY <1>3 DEF Falls
  <2>1. v # p
    BY <1>4
  <2> QED BY <1>3, <1>5, <1>9, <1>10, <2>1
<1>12. ASSUME NEW t \in Screens \ {s} PROVE Alone(t)
  <2>1. /\ pc'[t] = pc[t] /\ cost'[t] = cost[t] /\ notes'[t] = notes[t]
        /\ plan'[t] = plan[t] /\ left'[t] = left[t] /\ pocket'[t] = pocket[t]
    BY <1>0, <1>3 DEF Base, ScreensTyped
  <2>2. ASSUME pc[t] \in Active
        PROVE  /\ money'[pocket[t]] = money[pocket[t]] /\ status'[pocket[t]] = "none"
               /\ bounced'[pocket[t]] = bounced[pocket[t]]
    <3>1. pocket[t] # p /\ pocket[t] # w /\ status[pocket[t]] = "none"
      BY <1>4, <2>2
    <3>2. pocket[t] \in Wallets
      BY <2>2, Apart
    <3> QED BY <1>3, <1>9, <3>1, <3>2
  <2> QED BY <2>1, <2>2 DEF Alone
<1>13. money'[w] <= Leftover + bounced[w]
  <2>1. Largest(s).denom - c \in Nat /\ money[w] <= Largest(s).denom + FeeTop + bounced[w]
    BY <1>0, <1>1 DEF SeenOK, w, P
  <2>2. c <= FeeTop /\ FeeTop \in Nat
    BY <1>0, <1>1, CostIs DEF c
  <2>3. Leftover = 2 * FeeTop + MeltTop /\ MeltTop \in Nat /\ bounced[w] \in Nat
    BY <1>0, <1>1, LeftoverIs DEF Base, ChainTyped
  <2> QED BY <1>1, <1>5, <1>9, <2>1, <2>2, <2>3
<1>14. money'[p] + Cardinality(P \ (L \ {Largest(s)})) * c = Held(P \ (L \ {Largest(s)}))
  <2>1. money[p] + Cardinality(P \ L) * c = Held(P \ L)
    BY <1>0, <1>1 DEF PocketOK, Holds, Active, p, P, L, c
  <2>2. /\ Held(P \ (L \ {Largest(s)})) = Largest(s).denom + Held(P \ L)
        /\ Cardinality(P \ (L \ {Largest(s)})) * c = Cardinality(P \ L) * c + c
        /\ Held(P \ L) \in Nat /\ Cardinality(P \ L) * c \in Nat
    <3> DEFINE x == Largest(s)
    <3>1. x \in L /\ L \in SUBSET P /\ c \in Nat /\ Finite(P)
      BY <1>1, <1>6
    <3> HIDE DEF x
    <3>2. x \in L
      BY <3>1
    <3>3. L \in SUBSET P
      BY <3>1
    <3>4. c \in Nat
      BY <3>1
    <3>5. Finite(P)
      BY <3>1
    <3>6. Held(P \ (L \ {x})) = x.denom + Held(P \ L)
      BY <3>2, <3>3, <3>4, <3>5, HoldsOneMore
    <3>7. Cardinality(P \ (L \ {x})) * c = Cardinality(P \ L) * c + c
      BY <3>2, <3>3, <3>4, <3>5, HoldsOneMore
    <3>8. Held(P \ L) \in Nat /\ Cardinality(P \ L) * c \in Nat
      BY <3>2, <3>3, <3>4, <3>5, HoldsOneMore
    <3> QED BY <3>6, <3>7, <3>8 DEF x
  <2> QED BY <1>1, <1>5, <1>9, <2>1, <2>2
<1>15. PocketOK(s)'
  <2>1. (Holds(s, left[s] \ {Largest(s)}))'
    BY <1>3, <1>7, <1>14 DEF Holds, p, P, L, c
  <2>2. money'[Largest(s)'.wallet] <= Leftover + bounced'[Largest(s)'.wallet]
    BY <1>3, <1>7, <1>13 DEF w
  <2>3. status'[pocket'[s]] = "none"
    BY <1>3, <1>4 DEF p
  <2> QED BY <1>7, <2>1, <2>2, <2>3 DEF PocketOK
<1>16. SeenOK(s)'
  <2>1. notes[s] \subseteq Records /\ plan[s].notes \subseteq Records /\ FeeTop \in Nat
    BY <1>0, NotesTyped
  <2>2. ASSUME NEW n \in notes[s] \cup plan[s].notes
        PROVE  status'[n.wallet] # "none" /\ money'[n.wallet] <= n.denom + FeeTop + bounced'[n.wallet]
    <3>1. n \in Records /\ status[n.wallet] # "none" /\ money[n.wallet] <= n.denom + FeeTop + bounced[n.wallet]
      BY <1>0, <2>1 DEF SeenOK
    <3> QED BY <1>11, <2>1, <3>1, SeenFalls
  <2> QED BY <1>3, <2>2 DEF SeenOK
<1>17. ASSUME NEW v \in Wallets PROVE WalletOK(v)'
  <2>1. WalletOK(v) /\ FeeTop \in Nat
    BY <1>0, LeftoverIs
  <2>2. CASE v = p
    BY <1>3, <1>4, <2>2 DEF WalletOK
  <2>3. CASE v = w
    <3>1. status[v] = "claimed" => money'[v] <= denom[v] + FeeTop + bounced[v]
      <4>1. denom[v] \in Nat /\ bounced[v] \in Nat
        BY <1>0 DEF Base, DbTyped, ChainTyped
      <4> QED BY <1>5, <1>10, <2>1, <2>3, <4>1 DEF WalletOK
    <3> QED BY <1>3, <1>4, <1>13, <2>1, <2>3, <3>1 DEF WalletOK
  <2>4. CASE v # p /\ v # w
    <3>1. /\ money'[v] = money[v] /\ status'[v] = status[v] /\ denom'[v] = denom[v]
          /\ given' = given /\ bounced' = bounced /\ stuck' = stuck
      BY <1>3, <1>9, <2>4
    <3> QED BY <2>1, <3>1 DEF WalletOK
  <2> QED BY <2>2, <2>3, <2>4
<1>18. pc[s] \in Active /\ pocket'[s] = pocket[s] /\ melt' = melt
  BY <1>1, <1>3 DEF Active
<1> QED BY <1>11, <1>12, <1>15, <1>16, <1>17, <1>18, PurseStep

LEMMA RecordSpentPurses ==
    ASSUME Purses, Base', NEW s \in Screens, RecordSpent(s)
    PROVE  Purses'
<1> DEFINE w == Largest(s).wallet
<1>0. /\ Base /\ PocketOK(s) /\ SeenOK(s) /\ (\A v \in Wallets : WalletOK(v))
      /\ \A t \in Screens : PocketOK(t)
  BY DEF Purses
<1>1. /\ pc[s] = "record" /\ pc' = [pc EXCEPT ![s] = "sweep"]
      /\ left' = [left EXCEPT ![s] = @ \ {Largest(s)}]
      /\ UNCHANGED <<money, fee, swept, given, bounced, stuck, cost, notes, plan, pocket, melt>>
  BY DEF RecordSpent, Go, chain
<1>2. \A v \in Wallets : /\ status'[v] = IF v = w THEN "spent" ELSE status[v]
                         /\ denom'[v] = IF v = w THEN 0 ELSE denom[v]
  <2>1. WalletsOf(Landed(s)) = {w}
    BY DEF WalletsOf, Landed
  <2> HIDE DEF w
  <2> QED BY <2>1 DEF RecordSpent
<1>3. left[s] # {}
  BY <1>0, <1>1 DEF Base, ScreenOK
<1>4. w \in Wallets /\ Largest(s) \in plan[s].notes
  BY <1>0, <1>3, LargestIs
<1>5. /\ status[pocket[s]] = "none" /\ pocket[s] \in Wallets
      /\ \A t \in Screens \ {s} : pc[t] \in Active => pocket[t] # pocket[s] /\ status[pocket[t]] = "none"
      /\ status[w] # "none"
  BY <1>1, <1>4, Apart DEF Active
<1>6. money[w] <= Leftover + bounced[w] /\ Holds(s, left[s] \ {Largest(s)})
  BY <1>0, <1>1 DEF PocketOK, Active
<1>7. pc'[s] = "sweep" /\ left'[s] = left[s] \ {Largest(s)}
  BY <1>0, <1>1 DEF Base, ScreensTyped
<1> HIDE DEF w
<1>8. Falls
  <2>1. \A v \in Wallets : money[v] \in Nat
    BY <1>0 DEF Base, ChainTyped
  <2> QED BY <1>1, <1>2, <2>1 DEF Falls
<1>9. ASSUME NEW t \in Screens \ {s} PROVE Alone(t)
  <2>1. /\ pc'[t] = pc[t] /\ cost'[t] = cost[t] /\ notes'[t] = notes[t]
        /\ plan'[t] = plan[t] /\ left'[t] = left[t] /\ pocket'[t] = pocket[t]
    BY <1>0, <1>1 DEF Base, ScreensTyped
  <2>2. ASSUME pc[t] \in Active
        PROVE  /\ money'[pocket[t]] = money[pocket[t]] /\ status'[pocket[t]] = "none"
               /\ bounced'[pocket[t]] = bounced[pocket[t]]
    <3>1. pocket[t] # w /\ status[pocket[t]] = "none" /\ pocket[t] \in Wallets
      BY <1>5, <2>2, Apart
    <3> QED BY <1>1, <1>2, <3>1
  <2> QED BY <2>1, <2>2 DEF Alone
<1>10. PocketOK(s)'
  <2>1. status'[pocket'[s]] = "none"
    BY <1>1, <1>2, <1>5
  <2>2. (Holds(s, left[s]))'
    BY <1>1, <1>6, <1>7 DEF Holds
  <2> QED BY <1>7, <2>1, <2>2 DEF PocketOK
<1>11. SeenOK(s)'
  <2>1. notes[s] \subseteq Records /\ plan[s].notes \subseteq Records /\ FeeTop \in Nat
    BY <1>0, NotesTyped
  <2>2. ASSUME NEW n \in notes[s] \cup plan[s].notes
        PROVE  status'[n.wallet] # "none" /\ money'[n.wallet] <= n.denom + FeeTop + bounced'[n.wallet]
    <3>1. n \in Records /\ status[n.wallet] # "none" /\ money[n.wallet] <= n.denom + FeeTop + bounced[n.wallet]
      BY <1>0, <2>1 DEF SeenOK
    <3> QED BY <1>8, <2>1, <3>1, SeenFalls
  <2> QED BY <1>1, <2>2 DEF SeenOK
<1>12. ASSUME NEW v \in Wallets PROVE WalletOK(v)'
  <2>1. CASE v = w
    <3>1. w \notin Pockets \ given
      BY <1>0, <1>4, <1>5 DEF WalletOK
    <3> QED BY <1>1, <1>2, <1>6, <2>1, <3>1 DEF WalletOK
  <2>2. CASE v # w
    <3>1. WalletOK(v) /\ status'[v] = status[v] /\ denom'[v] = denom[v]
      BY <1>0, <1>2, <2>2
    <3> QED BY <1>1, <3>1 DEF WalletOK
  <2> QED BY <2>1, <2>2
<1>13. pc[s] \in Active /\ pocket'[s] = pocket[s] /\ melt' = melt
  BY <1>1 DEF Active
<1> QED BY <1>8, <1>9, <1>10, <1>11, <1>12, <1>13, PurseStep

(* What the payment leaves in the pocket is the change of the plan, what the *)
(* network did not take of the price of one leg, and what bounced.           *)
LEMMA PayPurses ==
    ASSUME Purses, Base', NEW s \in Screens, Pay(s)
    PROVE  Purses'
<1> DEFINE p == pocket[s]
           a == plan[s].amount
           P == plan[s].notes
           c == cost[s]
<1>0. /\ Base /\ PocketOK(s) /\ SeenOK(s) /\ (\A v \in Wallets : WalletOK(v))
      /\ \A t \in Screens : PocketOK(t)
  BY DEF Purses
<1>1. /\ pc[s] = "confirm" /\ pc' = [pc EXCEPT ![s] = "change"]
      /\ p \in Wallets /\ a \in Nat /\ money[p] \in Nat
      /\ UNCHANGED <<fee, swept, given, stuck, status, denom, cost, notes, plan, left, pocket, melt>>
  BY <1>0, PayIs
<1>2. PICK f \in Fees, back \in {0, a} :
         /\ f \in Nat /\ money[p] - a - f + back \in Nat
         /\ money' = [money EXCEPT ![p] = money[p] - a - f + back]
         /\ \/ bounced' = bounced /\ back = 0
            \/ bounced' = [bounced EXCEPT ![p] = back]
  BY <1>0, PayIs
<1>3. /\ status[p] = "none" /\ p \in given
      /\ \A t \in Screens \ {s} : pc[t] \in Active => pocket[t] # p /\ status[pocket[t]] = "none"
  BY <1>1, Apart DEF Active
<1>4. pc'[s] = "change"
  BY <1>0, <1>1 DEF Base, ScreensTyped
<1>5. money[p] + Cardinality(P) * c = Held(P)
  <2>1. left[s] = {} /\ P \ {} = P
    BY <1>0, <1>1 DEF Base, ScreenOK
  <2>2. Holds(s, left[s])
    BY <1>0, <1>1 DEF PocketOK, Active
  <2> QED BY <2>1, <2>2 DEF Holds
<1>6. plan[s].remainder = Held(P) - a - (Cardinality(P) + 1) * c
  BY <1>0, <1>1 DEF Base, ScreenOK, Sending
<1>7. Finite(P) /\ c \in Nat
  BY <1>0 DEF Base, ScreenOK, ScreensTyped
<1> HIDE DEF p, a, P, c
<1>8. /\ money'[p] = money[p] - a - f + back /\ back \in Nat
      /\ bounced[p] \in Nat /\ bounced'[p] \in Nat /\ back <= bounced'[p]
      /\ \A v \in Wallets : v # p => money'[v] = money[v] /\ bounced'[v] = bounced[v]
  <2>1. money \in [Wallets -> Nat] /\ bounced \in [Wallets -> Nat] /\ back \in Nat
    BY <1>0, <1>1, <1>2 DEF Base, ChainTyped
  <2>2. CASE bounced' = bounced /\ back = 0
    BY <1>1, <1>2, <2>1, <2>2
  <2>3. CASE bounced' = [bounced EXCEPT ![p] = back]
    BY <1>1, <1>2, <2>1, <2>3
  <2> QED BY <1>2, <2>2, <2>3
<1>9. /\ plan[s].remainder + c <= money'[p] + f
      /\ money'[p] + f <= plan[s].remainder + c + bounced'[p]
  <2>1. Cardinality(P) \in Nat /\ Held(P) \in Nat
    BY <1>7, FiniteParts, HeldFirst
  <2>2. (Cardinality(P) + 1) * c = Cardinality(P) * c + c /\ Cardinality(P) * c \in Nat
    BY <1>7, <2>1, OneMore
  <2>3. money'[p] + f = plan[s].remainder + c + back /\ plan[s].remainder + c \in Int
    BY <1>1, <1>2, <1>5, <1>6, <1>7, <1>8, <2>1, <2>2
  <2> QED BY <1>8, <2>3
<1>10. Falls
  <2> SUFFICES ASSUME NEW v \in Wallets, status[v] # "none"
               PROVE  /\ status'[v] # "none" /\ money'[v] <= money[v]
                      /\ bounced'[v] = bounced[v]
    BY <1>1 DEF Falls
  <2>1. v # p /\ money[v] \in Nat
    BY <1>0, <1>3 DEF Base, ChainTyped
  <2> QED BY <1>1, <1>8, <2>1
<1>11. ASSUME NEW t \in Screens \ {s} PROVE Alone(t)
  <2>1. /\ pc'[t] = pc[t] /\ cost'[t] = cost[t] /\ notes'[t] = notes[t]
        /\ plan'[t] = plan[t] /\ left'[t] = left[t] /\ pocket'[t] = pocket[t]
    BY <1>0, <1>1 DEF Base, ScreensTyped
  <2>2. ASSUME pc[t] \in Active
        PROVE  /\ money'[pocket[t]] = money[pocket[t]] /\ status'[pocket[t]] = "none"
               /\ bounced'[pocket[t]] = bounced[pocket[t]]
    <3>1. pocket[t] # p /\ status[pocket[t]] = "none" /\ pocket[t] \in Wallets
      BY <1>3, <2>2, Apart
    <3> QED BY <1>1, <1>8, <3>1
  <2> QED BY <2>1, <2>2 DEF Alone
<1>12. PocketOK(s)'
  BY <1>1, <1>2, <1>3, <1>4, <1>9 DEF PocketOK, p, c
<1>13. SeenOK(s)'
  <2>1. notes[s] \subseteq Records /\ plan[s].notes \subseteq Records /\ FeeTop \in Nat
    BY <1>0, NotesTyped
  <2>2. ASSUME NEW n \in notes[s] \cup plan[s].notes
        PROVE  status'[n.wallet] # "none" /\ money'[n.wallet] <= n.denom + FeeTop + bounced'[n.wallet]
    <3>1. n \in Records /\ status[n.wallet] # "none" /\ money[n.wallet] <= n.denom + FeeTop + bounced[n.wallet]
      BY <1>0, <2>1 DEF SeenOK
    <3> QED BY <1>10, <2>1, <3>1, SeenFalls
  <2> QED BY <1>1, <2>2 DEF SeenOK
<1>14. ASSUME NEW v \in Wallets PROVE WalletOK(v)'
  <2>1. CASE v = p
    BY <1>1, <1>3, <2>1 DEF WalletOK
  <2>2. CASE v # p
    <3>1. WalletOK(v) /\ money'[v] = money[v] /\ bounced'[v] = bounced[v]
      BY <1>0, <1>8, <2>2
    <3> QED BY <1>1, <3>1 DEF WalletOK
  <2> QED BY <2>1, <2>2
<1>15. pc[s] \in Active /\ pocket'[s] = pocket[s] /\ melt' = melt
  BY <1>1 DEF Active
<1> QED BY <1>10, <1>11, <1>12, <1>13, <1>14, <1>15, PurseStep

(* The change is on record with what the pocket holds, up to one leg. *)
LEMMA PutChangePurses ==
    ASSUME Purses, Base', NEW s \in Screens, PutChange(s)
    PROVE  Purses'
<1> DEFINE p == pocket[s]
           r == plan[s].remainder
           snap == {[wallet |-> w, denom |-> denom'[w]] :
                        w \in {v \in Wallets : status'[v] = "claimed"}}
<1>0. /\ Base /\ PocketOK(s) /\ (\A v \in Wallets : WalletOK(v))
      /\ \A t \in Screens : PocketOK(t)
  BY DEF Purses
<1>1. /\ pc[s] = "change" /\ p \in Wallets /\ r \in Nat
      /\ \/ /\ r > 0 /\ status' = [status EXCEPT ![p] = "claimed"]
            /\ denom' = [denom EXCEPT ![p] = r]
         \/ UNCHANGED <<status, denom>>
      /\ notes' = [notes EXCEPT ![s] = snap]
  BY <1>0, PutChangeIs
<1>2. /\ pc' = [pc EXCEPT ![s] = "idle"] /\ plan' = [plan EXCEPT ![s] = NoPlan]
      /\ left' = [left EXCEPT ![s] = {}] /\ pocket' = [pocket EXCEPT ![s] = NoWallet]
      /\ UNCHANGED <<money, fee, swept, given, bounced, stuck, cost, melt>>
  BY DEF PutChange, Forget, Go, chain
<1>3. /\ status[p] = "none" /\ p \in given
      /\ \A t \in Screens \ {s} : pc[t] \in Active => pocket[t] # p /\ status[pocket[t]] = "none"
  BY <1>1, Apart DEF Active
<1>4. pc'[s] = "idle" /\ notes'[s] = snap /\ plan'[s] = NoPlan
  BY <1>0, <1>1, <1>2 DEF Base, ScreensTyped
<1>5. PICK f \in Fees : money[p] + f <= r + cost[s] + bounced[p]
  BY <1>0, <1>1 DEF PocketOK, Active
<1>6. money[p] <= r + FeeTop + bounced[p]
  <2>1. cost[s] \in Nat /\ cost[s] <= FeeTop /\ FeeTop \in Nat /\ f \in Nat
    BY <1>0, <1>1, CostIs, FeeTopIs
  <2>2. money[p] \in Nat /\ bounced[p] \in Nat
    BY <1>0, <1>1 DEF Base, ChainTyped
  <2> HIDE DEF p, r
  <2> QED BY <1>1, <1>5, <2>1, <2>2
<1> HIDE DEF p, r, snap
<1>7. \A v \in Wallets :
         v # p => status'[v] = status[v] /\ denom'[v] = denom[v]
  <2>1. status \in [Wallets -> {"none", "claimed", "spent", "dust"}] /\ denom \in [Wallets -> Nat]
    BY <1>0 DEF Base, DbTyped
  <2> QED BY <1>1, <2>1
<1>8. \/ status'[p] = "claimed" /\ denom'[p] = r
      \/ status'[p] = "none" /\ denom'[p] = denom[p]
  <2>1. status \in [Wallets -> {"none", "claimed", "spent", "dust"}] /\ denom \in [Wallets -> Nat]
    BY <1>0 DEF Base, DbTyped
  <2> QED BY <1>1, <1>3, <2>1
<1>9. Falls
  <2>1. \A v \in Wallets : money[v] \in Nat
    BY <1>0 DEF Base, ChainTyped
  <2> QED BY <1>2, <1>3, <1>7, <2>1 DEF Falls
<1>10. ASSUME NEW t \in Screens \ {s} PROVE Alone(t)
  <2>1. /\ pc'[t] = pc[t] /\ cost'[t] = cost[t] /\ notes'[t] = notes[t]
        /\ plan'[t] = plan[t] /\ left'[t] = left[t] /\ pocket'[t] = pocket[t]
    BY <1>0, <1>1, <1>2 DEF Base, ScreensTyped
  <2>2. ASSUME pc[t] \in Active
        PROVE  /\ money'[pocket[t]] = money[pocket[t]] /\ status'[pocket[t]] = "none"
               /\ bounced'[pocket[t]] = bounced[pocket[t]]
    <3>1. pocket[t] # p /\ status[pocket[t]] = "none" /\ pocket[t] \in Wallets
      BY <1>3, <2>2, Apart
    <3> QED BY <1>2, <1>7, <3>1
  <2> QED BY <2>1, <2>2 DEF Alone
<1>11. PocketOK(s)' /\ pc'[s] \notin Active
  BY <1>4 DEF PocketOK, Active
<1>12. ASSUME NEW v \in Wallets PROVE WalletOK(v)'
  <2>1. CASE v = p
    BY <1>2, <1>3, <1>6, <1>8, <2>1 DEF WalletOK
  <2>2. CASE v # p
    <3>1. WalletOK(v) /\ status'[v] = status[v] /\ denom'[v] = denom[v]
      BY <1>0, <1>7, <2>2
    <3> QED BY <1>2, <3>1 DEF WalletOK
  <2> QED BY <2>1, <2>2
<1>13. SeenOK(s)'
  <2>1. plan'[s].notes = {}
    BY <1>4 DEF NoPlan
  <2>2. \A v \in Wallets : status'[v] = "claimed" => money'[v] <= denom'[v] + FeeTop + bounced'[v]
    BY <1>12 DEF WalletOK
  <2>3. \A n \in snap : status'[n.wallet] # "none" /\ money'[n.wallet] <= n.denom + FeeTop + bounced'[n.wallet]
    BY <2>2, ReadIsSeen DEF snap
  <2> QED BY <1>4, <2>1, <2>3 DEF SeenOK
<1> QED BY <1>2, <1>9, <1>10, <1>11, <1>12, <1>13, PurseStep

-----------------------------------------------------------------------------
(* The steps of the settler. *)

(* The screens do not move. *)
LEMMA MeltStep ==
    ASSUME Purses, Base', Falls,
           UNCHANGED <<given, pc, cost, notes, plan, left, pocket>>,
           \A t \in Screens : pc[t] \in Active =>
              /\ money'[pocket[t]] = money[pocket[t]] /\ status'[pocket[t]] = "none"
         /\ bounced'[pocket[t]] = bounced[pocket[t]],
           MeltOK', \A w \in Wallets : WalletOK(w)'
    PROVE  Purses'
<1>1. \A t \in Screens : Alone(t)
  BY DEF Alone
<1>2. \A t \in Screens : PocketOK(t)' /\ SeenOK(t)'
  BY <1>1, AloneOK
<1>3. OnePocketEach'
  BY DEF Purses, OnePocketEach
<1> QED BY <1>2, <1>3 DEF Purses

LEMMA PocketsBare ==
    ASSUME Purses, NEW t \in Screens, pc[t] \in Active
    PROVE  status[pocket[t]] = "none" /\ pocket[t] \in Wallets
BY Apart

(* What picks a change, thinks about it or stops, changes no wallet. *)
LEMMA MeltQuiet ==
    ASSUME Purses, Base',
           \/ \E w \in Wallets : PickChange(w)
           \/ ReadBalance \/ NextPass \/ MeltEnds \/ MeltStops \/ FeeMoves \/ UNCHANGED vars
    PROVE  Purses'
<1>0. Base /\ (\A w \in Wallets : WalletOK(w)) /\ MeltOK
  BY DEF Purses
<1>1. UNCHANGED <<money, swept, given, bounced, stuck, status, denom, pc, cost, notes, plan, left, pocket>>
  BY DEF PickChange, ReadBalance, NextPass, MeltEnds, MeltStops, FeeMoves, vars, chain, db, screens
<1>2. Falls
  <2>1. \A w \in Wallets : money[w] \in Nat
    BY <1>0 DEF Base, ChainTyped
  <2> QED BY <1>1, <2>1 DEF Falls
<1>3. \A t \in Screens : pc[t] \in Active =>
         /\ money'[pocket[t]] = money[pocket[t]] /\ status'[pocket[t]] = "none"
         /\ bounced'[pocket[t]] = bounced[pocket[t]]
  BY <1>1, PocketsBare
<1>4. \A w \in Wallets : WalletOK(w)'
  BY <1>0, <1>1 DEF WalletOK
<1>5. MeltOK'
  <2>1. CASE \E w \in Wallets : PickChange(w)
    <3>1. PICK w \in Wallets : PickChange(w)
      BY <2>1
    <3>2. melt'.at = "balance" /\ melt'.wallet = w /\ status[w] # "none"
      BY <1>0, <3>1, PickChangeIs
    <3> QED BY <1>1, <3>2 DEF MeltOK
  <2>2. CASE ReadBalance \/ NextPass \/ MeltEnds
    <3> DEFINE w == melt.wallet
    <3>1. /\ melt'.wallet = w /\ w \in Wallets /\ status'[w] # "none" /\ money'[w] = money[w]
          /\ \/ melt'.at = "pass" /\ melt'.balance = money[w]
             \/ melt.at = "pass" /\ melt'.at = "pass" /\ melt'.balance = melt.balance
             \/ /\ melt.at = "pass" /\ melt'.at = "dust" /\ melt'.pass = melt.pass
                /\ melt.pass = PASSES \/ Guess <= 0
      BY <1>0, <1>1, <2>2, MeltThinks DEF MeltOK
    <3>2. money[w] \in Nat
      BY <1>0, <3>1 DEF Base, ChainTyped
    <3>3. melt.at = "pass" => money[w] <= melt.balance
      BY <1>0 DEF MeltOK
    <3> HIDE DEF w
    <3>4. CASE melt'.at = "pass"
      BY <3>1, <3>2, <3>3, <3>4 DEF MeltOK
    <3>5. CASE melt.at = "pass" /\ melt'.at = "dust" /\ melt'.pass = PASSES
      BY <3>1, <3>5 DEF MeltOK
    <3>6. CASE melt.at = "pass" /\ melt'.at = "dust" /\ melt.pass # PASSES /\ Guess <= 0
      <4>1. melt.balance - Guess <= MeltTop /\ MeltTop \in Nat
        BY <1>0, <3>6, PassKeepsBack, GuessIs, LeftoverIs
      <4>2. melt.balance \in Nat /\ Guess \in Int
        BY <1>0, GuessIs
      <4>3. money[w] <= MeltTop
        BY <3>2, <3>3, <3>6, <4>1, <4>2
      <4> QED BY <3>1, <3>6, <4>3 DEF MeltOK, MeltTop
    <3> QED BY <3>1, <3>4, <3>5, <3>6
  <2>3. CASE MeltStops
    BY <2>3, NoMeltTyped DEF MeltStops, MeltOK
  <2>4. CASE FeeMoves \/ UNCHANGED vars
    <3>1. melt' = melt
      BY <2>4 DEF FeeMoves, vars
    <3> QED BY <1>2, <3>1, MeltStays
  <2> QED BY <2>1, <2>2, <2>3, <2>4
<1> QED BY <1>1, <1>2, <1>3, <1>4, <1>5, MeltStep

LEMMA MeltSendPurses ==
    ASSUME Purses, Base', MeltSend
    PROVE  Purses'
<1> DEFINE w == melt.wallet
<1>0. Base /\ (\A v \in Wallets : WalletOK(v)) /\ MeltOK
  BY DEF Purses
<1>1. /\ melt.at = "pass" /\ melt.pass < PASSES /\ w \in Wallets
      /\ melt' = [melt EXCEPT !.at = "spent"] /\ Guess \in Nat /\ money[w] \in Nat
      /\ UNCHANGED <<fee, given, bounced, stuck, status, denom, pc, cost, notes, plan, left, pocket>>
  BY <1>0, MeltSendIs
<1>2. PICK burn \in Burns :
         /\ burn \in Nat /\ money[w] - Guess - burn \in Nat
         /\ money' = [money EXCEPT ![w] = @ - Guess - burn]
  BY <1>0, MeltSendIs
<1>3. status[w] # "none" /\ melt'.at = "spent" /\ melt'.wallet = w /\ money[w] <= melt.balance
  BY <1>0, <1>1 DEF Base, MeltTyped, Melts, MeltOK
<1>4. /\ money \in [Wallets -> Nat] /\ denom \in [Wallets -> Nat] /\ bounced \in [Wallets -> Nat]
      /\ Leftover \in Nat /\ FeeTop \in Nat /\ MeltTop \in Nat /\ Leftover = 2 * FeeTop + MeltTop
      /\ melt.balance \in Nat
  BY <1>0, LeftoverIs, GuessIs DEF Base, ChainTyped, DbTyped
<1>5. melt.balance - Guess <= MeltTop
  BY <1>0, <1>1, PassKeepsBack
<1> HIDE DEF w
<1>6. money'[w] = money[w] - Guess - burn /\ \A v \in Wallets : v # w => money'[v] = money[v]
  BY <1>1, <1>2, <1>4
<1>7. money'[w] <= MeltTop /\ money'[w] <= money[w] /\ money'[w] <= Leftover
  BY <1>1, <1>2, <1>3, <1>4, <1>5, <1>6
<1>8. Falls
  BY <1>1, <1>4, <1>6, <1>7 DEF Falls
<1>9. \A t \in Screens : pc[t] \in Active =>
         /\ money'[pocket[t]] = money[pocket[t]] /\ status'[pocket[t]] = "none"
         /\ bounced'[pocket[t]] = bounced[pocket[t]]
  BY <1>1, <1>3, <1>6, PocketsBare
<1>10. MeltOK'
  BY <1>1, <1>3, <1>7 DEF MeltOK, MeltTop
<1>11. ASSUME NEW v \in Wallets PROVE WalletOK(v)'
  <2>1. WalletOK(v) /\ denom[v] \in Nat /\ money[v] \in Nat /\ bounced[v] \in Nat
    BY <1>0, <1>4
  <2>2. CASE v = w
    <3>1. v \notin Pockets \ given
      BY <1>3, <2>1, <2>2 DEF WalletOK
    <3>2. status[v] = "claimed" => money'[v] <= denom[v] + FeeTop + bounced[v]
      <4>1. status[v] = "claimed" => money[v] <= denom[v] + FeeTop + bounced[v]
        BY <2>1 DEF WalletOK
      <4>2. money'[v] <= money[v] /\ money'[v] \in Nat
        BY <1>2, <1>6, <1>7, <2>2
      <4> QED BY <1>4, <2>1, <4>1, <4>2
    <3>3. money'[v] <= Leftover + bounced[v]
      BY <1>2, <1>4, <1>6, <1>7, <2>1, <2>2
    <3> QED BY <1>1, <3>1, <3>2, <3>3 DEF WalletOK, Leftover, FeeTop, MeltTop
  <2>3. CASE v # w
    <3>1. money'[v] = money[v]
      BY <1>6, <2>3
    <3> QED BY <1>1, <2>1, <3>1 DEF WalletOK
  <2> QED BY <2>2, <2>3
<1> QED BY <1>1, <1>8, <1>9, <1>10, <1>11, MeltStep

LEMMA RecordMeltPurses ==
    ASSUME Purses, Base', RecordMelt
    PROVE  Purses'
<1> DEFINE w == melt.wallet
<1>0. Base /\ (\A v \in Wallets : WalletOK(v)) /\ MeltOK
  BY DEF Purses
<1>1. /\ melt.at \in {"spent", "dust"} /\ melt' = NoMelt
      /\ status' = [status EXCEPT ![w] = melt.at]
      /\ stuck' = IF melt.pass = PASSES THEN stuck \cup {w} ELSE stuck
      /\ UNCHANGED <<money, given, bounced, pc, cost, notes, plan, left, pocket>>
  BY DEF RecordMelt, screens
<1>2. PICK d : denom' = [denom EXCEPT ![w] = d]
  BY DEF RecordMelt
<1>3. /\ w \in Wallets /\ status[w] # "none"
      /\ melt.pass = PASSES \/ money[w] <= MeltTop
  BY <1>0, <1>1 DEF Base, MeltTyped, MeltOK
<1>4. /\ money \in [Wallets -> Nat] /\ bounced \in [Wallets -> Nat]
      /\ status \in [Wallets -> {"none", "claimed", "spent", "dust"}]
      /\ denom \in [Wallets -> Nat]
      /\ Leftover \in Nat /\ FeeTop \in Nat /\ MeltTop \in Nat /\ Leftover = 2 * FeeTop + MeltTop
  BY <1>0, LeftoverIs DEF Base, ChainTyped, DbTyped
<1> HIDE DEF w
<1>5. /\ status'[w] \in {"spent", "dust"}
      /\ \A v \in Wallets : v # w => status'[v] = status[v] /\ denom'[v] = denom[v]
  BY <1>1, <1>2, <1>3, <1>4
<1>6. w \in stuck' \/ money[w] <= Leftover + bounced[w]
  BY <1>1, <1>3, <1>4
<1>7. stuck \subseteq stuck'
  BY <1>1
<1>8. Falls
  BY <1>1, <1>4, <1>5, <1>7 DEF Falls
<1>9. \A t \in Screens : pc[t] \in Active =>
         /\ money'[pocket[t]] = money[pocket[t]] /\ status'[pocket[t]] = "none"
         /\ bounced'[pocket[t]] = bounced[pocket[t]]
  BY <1>1, <1>3, <1>5, PocketsBare
<1>10. MeltOK'
  BY <1>1, NoMeltTyped DEF MeltOK
<1>11. ASSUME NEW v \in Wallets PROVE WalletOK(v)'
  <2>1. WalletOK(v)
    BY <1>0
  <2>2. CASE v = w
    <3>1. v \notin Pockets \ given
      BY <1>3, <2>1, <2>2 DEF WalletOK
    <3> QED BY <1>1, <1>5, <1>6, <2>2, <3>1 DEF WalletOK
  <2>3. CASE v # w
    BY <1>1, <1>5, <1>7, <2>1, <2>3 DEF WalletOK
  <2> QED BY <2>2, <2>3
<1> QED BY <1>1, <1>8, <1>9, <1>10, <1>11, MeltStep

LEMMA PursesStep ==
    ASSUME Purses, [Next]_vars
    PROVE  Purses'
<1>0. Base'
  BY BaseStep DEF Purses
<1>1. CASE \E s \in Screens :
          \/ Open(s) \/ TakePocket(s) \/ Sweep(s) \/ RecordSpent(s)
          \/ CheckPay(s) \/ Pay(s) \/ PutChange(s) \/ SendFails(s) \/ Reload(s)
          \/ \E amount \in Amounts : Start(s, amount)
  BY <1>0, <1>1, OpenPurses, TakePocketPurses, SweepPurses, RecordSpentPurses, CheckPayPurses,
     PayPurses, PutChangePurses, GivesUpPurses, StartPurses
<1>2. CASE \/ \E w \in Wallets : PickChange(w)
           \/ ReadBalance \/ NextPass \/ MeltSend \/ MeltEnds \/ RecordMelt \/ MeltStops \/ FeeMoves
           \/ UNCHANGED vars
  BY <1>0, <1>2, MeltQuiet, MeltSendPurses, RecordMeltPurses
<1> QED BY <1>1, <1>2 DEF Next

LEMMA PursesInit ==
    ASSUME Init
    PROVE  Purses
<1>1. Base
  BY BaseInit
<1>2. PICK worth \in [Notes -> LADDER] :
         /\ money = [w \in Wallets |-> IF w \in Notes THEN worth[w] ELSE 0]
         /\ denom = money
  BY DEF Init
<1>3. OnePocketEach /\ MeltOK
  BY DEF Init, OnePocketEach, MeltOK, NoMelt, Active
<1>4. \A s \in Screens : PocketOK(s) /\ SeenOK(s)
  BY DEF Init, PocketOK, SeenOK, Active, NoPlan
<1>5. ASSUME NEW w \in Wallets PROVE WalletOK(w)
  <2>1. FeeTop \in Nat /\ money[w] \in Nat /\ denom[w] = money[w] /\ bounced[w] \in Nat
    BY <1>1, <1>2, LeftoverIs DEF Base, ChainTyped
  <2>2. status[w] = IF w \in Notes THEN "claimed" ELSE "none"
    BY DEF Init
  <2>3. w \in Pockets => w \notin Notes
    BY SendAssumption
  <2>4. w \notin Notes => money[w] = 0
    BY <1>2
  <2> QED BY <2>1, <2>2, <2>3, <2>4 DEF WalletOK
<1> QED BY <1>1, <1>3, <1>4, <1>5 DEF Purses

(***************************************************************************)
(* No two sends pay into one pocket, no record names the pocket of a send  *)
(* that is under way, and the pocket holds at every step what the plan     *)
(* says.  No wallet on record holds more than its record, one leg and what *)
(* bounced when it paid.                                                   *)
(***************************************************************************)
THEOREM PursesAlways == Spec => []Purses
<1>1. Init => Purses
  BY PursesInit
<1>2. Purses /\ [Next]_vars => Purses'
  BY PursesStep
<1> QED BY <1>1, <1>2, PTL DEF Spec

(* No write of a send or a melt, however stale, hides money: a wallet that  *)
(* the records call spent or dust holds no more than two legs and the last  *)
(* pass of a melt keep back, and the payment of its own that reverted.  The *)
(* exception is the wallet of a melt that ran out of passes.                *)
THEOREM HiddenIsEmptyAlways == Spec => []HiddenIsEmpty
<1>1. Purses => HiddenIsEmpty
  BY DEF Purses, WalletOK, HiddenIsEmpty
<1> QED BY <1>1, PursesAlways, PTL

(* The state of the screens, the store and the chain is what the module     *)
(* says, and a plan is never left with more to pay than it has.             *)
THEOREM TypeCorrect == Spec => []TypeOK
<1>1. Base => TypeOK
  <2> SUFFICES ASSUME Base PROVE TypeOK
    OBVIOUS
  <2>1. ChainTyped /\ DbTyped /\ ScreensTyped /\ MeltTyped
    BY DEF Base
  <2>2. \A s \in Screens :
           /\ notes[s] \subseteq [wallet : Wallets, denom : Nat]
           /\ left[s] \subseteq plan[s].notes /\ plan[s].remainder \in Nat
    BY <2>1 DEF Base, ScreenOK, Finite, Records, ScreensTyped, Plans
  <2>3. /\ melt.at \in {"none", "balance", "pass", "spent", "dust"}
        /\ melt.wallet \in Wallets \cup {NoWallet} /\ melt.pass \in 0 .. PASSES
    BY <2>1 DEF MeltTyped, Melts
  <2> QED BY <2>1, <2>2, <2>3 DEF TypeOK, ChainTyped, DbTyped, ScreensTyped, Places
<1> QED BY <1>1, BaseAlways, PTL

-----------------------------------------------------------------------------
(* The price may rise up to the margin of a plan: by one half and the unit. *)
FeesInMargin == \A f, g \in Fees : f <= LegCost(g)

LEMMA CountedStep ==
    ASSUME FeesInMargin, Purses, CountedIsHeld, [Next]_vars
    PROVE  CountedIsHeld'
<1>0. Base /\ Base' /\ MeltOK /\ (\A w \in Wallets : WalletOK(w))
  BY BaseStep DEF Purses
<1> SUFFICES ASSUME NEW w \in Wallets, status'[w] = "claimed", w \notin swept'
             PROVE  money'[w] >= denom'[w]
  BY DEF CountedIsHeld, Claimed
<1>1. status[w] = "claimed" /\ w \notin swept => money[w] >= denom[w]
  BY DEF CountedIsHeld, Claimed
<1>2. ASSUME UNCHANGED <<money, status, denom, swept>>
      PROVE  money'[w] >= denom'[w]
  BY <1>1, <1>2
<1>3. CASE \E s \in Screens : Sweep(s)
  <2>1. PICK s \in Screens : Sweep(s)
    BY <1>3
  <2> DEFINE v == Largest(s).wallet
             p == pocket[s]
  <2>2. PICK f \in Fees :
           /\ money[v] - Share(s) - f \in Nat
           /\ money' = [money EXCEPT ![v] = @ - Share(s) - f, ![p] = @ + Share(s)]
    BY <1>0, <2>1, SweepIs
  <2>3. /\ pc[s] = "sweep" /\ swept' = swept \cup {v}
        /\ UNCHANGED <<status, denom>> /\ Share(s) \in Nat
    BY <1>0, <2>1, SweepIs
  <2>4. status[p] = "none" /\ p \in Wallets
    BY <2>3, Apart DEF Active
  <2> HIDE DEF v, p
  <2>5. w # v /\ w # p /\ status[w] = "claimed" /\ w \notin swept /\ denom'[w] = denom[w]
    BY <2>3, <2>4
  <2>6. money'[w] = money[w]
    <3>1. money \in [Wallets -> Nat]
      BY <1>0 DEF Base, ChainTyped
    <3> QED BY <2>2, <2>5, <3>1
  <2> QED BY <1>1, <2>5, <2>6
<1>4. CASE \E s \in Screens : Pay(s)
  <2>1. PICK s \in Screens : Pay(s)
    BY <1>4
  <2> DEFINE p == pocket[s]
  <2>2. PICK m : money' = [money EXCEPT ![p] = m]
    BY <1>0, <2>1, PayIs
  <2>3. pc[s] = "confirm" /\ UNCHANGED <<swept, status, denom>>
    BY <1>0, <2>1, PayIs
  <2>4. status[p] = "none"
    BY <2>3, Apart DEF Active
  <2> HIDE DEF p
  <2>5. w # p /\ status[w] = "claimed" /\ w \notin swept /\ denom'[w] = denom[w]
    BY <2>3, <2>4
  <2>6. money'[w] = money[w]
    <3>1. money \in [Wallets -> Nat]
      BY <1>0 DEF Base, ChainTyped
    <3> QED BY <2>2, <2>5, <3>1
  <2> QED BY <1>1, <2>5, <2>6
<1>5. CASE \E s \in Screens : RecordSpent(s)
  <2>1. PICK s \in Screens : RecordSpent(s)
    BY <1>5
  <2>2. /\ UNCHANGED <<money, swept>>
        /\ status' = [u \in Wallets |-> IF u \in WalletsOf(Landed(s)) THEN "spent" ELSE status[u]]
        /\ denom' = [u \in Wallets |-> IF u \in WalletsOf(Landed(s)) THEN 0 ELSE denom[u]]
    BY <2>1 DEF RecordSpent, chain
  <2>3. w \notin WalletsOf(Landed(s))
    BY <2>2
  <2> QED BY <1>1, <2>2, <2>3
<1>6. CASE \E s \in Screens : PutChange(s)
  <2>1. PICK s \in Screens : PutChange(s)
    BY <1>6
  <2> DEFINE p == pocket[s]
             r == plan[s].remainder
  <2>2. /\ pc[s] = "change" /\ p \in Wallets /\ r \in Nat
        /\ \/ /\ status' = [status EXCEPT ![p] = "claimed"]
              /\ denom' = [denom EXCEPT ![p] = r]
           \/ UNCHANGED <<status, denom>>
    BY <1>0, <2>1, PutChangeIs
  <2>3. UNCHANGED <<money, swept>>
    BY <2>1 DEF PutChange, chain, Forget
  <2>4. status[p] = "none" /\ PocketOK(s)
    BY <2>2, Apart DEF Active, Purses
  <2>5. PICK f \in Fees : r + cost[s] <= money[p] + f
    BY <2>2, <2>4 DEF PocketOK, Active
  <2>6. money[p] >= r
    <3>1. PICK g \in Fees : cost[s] = LegCost(g)
      BY <1>0, <2>2 DEF Base, ScreenOK
    <3>2. f <= cost[s] /\ f \in Nat /\ cost[s] \in Nat
      BY <3>1, FeeTopIs DEF FeesInMargin
    <3>3. money[p] \in Nat
      BY <1>0, <2>2 DEF Base, ChainTyped
    <3> HIDE DEF p, r
    <3> QED BY <2>2, <2>5, <3>2, <3>3
  <2> HIDE DEF p, r
  <2>7. status \in [Wallets -> {"none", "claimed", "spent", "dust"}] /\ denom \in [Wallets -> Nat]
    BY <1>0 DEF Base, DbTyped
  <2>8. CASE w = p
    <3>1. denom'[p] = r
      BY <2>2, <2>4, <2>7, <2>8
    <3> QED BY <2>3, <2>6, <2>8, <3>1
  <2>9. CASE w # p
    <3>1. status[w] = "claimed" /\ denom'[w] = denom[w]
      BY <2>2, <2>7, <2>9
    <3> QED BY <1>1, <2>3, <3>1
  <2> QED BY <2>8, <2>9
<1>7. CASE MeltSend
  <2>1. PICK m :
           /\ money' = [money EXCEPT ![melt.wallet] = m]
           /\ swept' = swept \cup {melt.wallet} /\ UNCHANGED <<status, denom>>
    BY <1>7 DEF MeltSend, db
  <2>2. w # melt.wallet /\ w \notin swept /\ status[w] = "claimed"
    BY <2>1
  <2>3. money'[w] = money[w]
    <3>1. money \in [Wallets -> Nat]
      BY <1>0 DEF Base, ChainTyped
    <3> QED BY <2>1, <2>2, <3>1
  <2> QED BY <1>1, <2>1, <2>2, <2>3
<1>8. CASE RecordMelt
  <2> DEFINE d == denom'[melt.wallet]
  <2>1. PICK a \in {"spent", "dust"} :
           /\ status' = [status EXCEPT ![melt.wallet] = a]
           /\ denom' = [denom EXCEPT ![melt.wallet] = d]
    BY <1>8 DEF RecordMelt
  <2>2. UNCHANGED <<money, swept>>
    BY <1>8 DEF RecordMelt, chain
  <2>3. w # melt.wallet
    BY <1>0, <2>1 DEF Base, DbTyped
  <2>4. status'[w] = status[w] /\ denom'[w] = denom[w]
    BY <1>0, <2>1, <2>3 DEF Base, DbTyped
  <2> QED BY <1>1, <2>2, <2>4
<1>9. CASE \/ \E s \in Screens :
                \/ Open(s) \/ TakePocket(s) \/ CheckPay(s) \/ SendFails(s) \/ Reload(s)
                \/ \E amount \in Amounts : Start(s, amount)
           \/ \E v \in Wallets : PickChange(v)
           \/ ReadBalance \/ NextPass \/ MeltEnds \/ MeltStops \/ FeeMoves \/ UNCHANGED vars
  <2>1. UNCHANGED <<money, status, denom, swept>>
    BY <1>9 DEF Open, TakePocket, CheckPay, SendFails, Reload, Start, PickChange, ReadBalance,
                NextPass, MeltEnds, MeltStops, FeeMoves, vars, chain, db
  <2> QED BY <1>2, <2>1
<1> QED BY <1>3, <1>4, <1>5, <1>6, <1>7, <1>8, <1>9 DEF Next

(* While the price stays within the margin that a plan pays for, a claimed  *)
(* record of a wallet that nothing swept holds its denomination or more,    *)
(* the change of a send included, for any tabs, reloads and stale plans.    *)
THEOREM CountedIsHeldAlways ==
    ASSUME FeesInMargin
    PROVE  Spec => []CountedIsHeld
<1>1. Init => CountedIsHeld
  <2> SUFFICES ASSUME Init, NEW w \in Wallets PROVE money[w] >= denom[w]
    BY DEF CountedIsHeld, Claimed
  <2>1. Base /\ denom = money
    BY BaseInit DEF Init
  <2>2. money[w] \in Nat
    BY <2>1 DEF Base, ChainTyped
  <2> QED BY <2>1, <2>2
<1>2. Purses /\ CountedIsHeld /\ [Next]_vars => CountedIsHeld'
  BY CountedStep
<1> QED BY <1>1, <1>2, PursesAlways, PTL DEF Spec
=============================================================================
