----------------------------- MODULE MintProofs -----------------------------
(***************************************************************************)
(* The mint.  Its split is what the contract wants and needs the points    *)
(* that the client brings, for every ladder whose denominations are        *)
(* multiples of the smallest, every deposit and every number of points.    *)
(* Its workflow answers once what waits, for any number of deposits,       *)
(* overlapping sweeps, reports in flight and restarts.                     *)
(***************************************************************************)
EXTENDS Ladder, MintWorkflow, SumsProofs, SequenceTheorems

-----------------------------------------------------------------------------
(* The split. *)

m == MIN_DENOM
Rungs(a) == \E k \in Nat : a = k * m

LadderInv ==
    /\ SplitTypeOK
    /\ verdict # "inexpressible"
    /\ rest + Value(out) = Mintable(amount)
    /\ Rungs(rest)
    /\ level < Len(LADDER) => rest < LADDER[level + 1]
    /\ Len(out) <= maxPoints
    /\ verdict = "ok" => rest = 0

-----------------------------------------------------------------------------
(* Numbers. *)

LEMMA SmallestPositive ==
    /\ Len(LADDER) \in Nat /\ Len(LADDER) >= 1
    /\ m \in Nat \ {0}
    /\ \A i \in Levels : LADDER[i] \in Nat \ {0} /\ Rungs(LADDER[i])
<1>1. Len(LADDER) \in Nat /\ Len(LADDER) >= 1
  <2>1. Len(LADDER) # 0 /\ Len(LADDER) \in Nat
    BY LadderAssumption, EmptySeq
  <2> QED BY <2>1
<1>2. \A i \in Levels : LADDER[i] \in Nat \ {0}
  BY LadderAssumption DEF Levels
<1>3. m \in Nat \ {0}
  BY <1>1, <1>2 DEF m, MIN_DENOM, Levels
<1>4. ASSUME NEW i \in Levels PROVE Rungs(LADDER[i])
  <2>1. PICK k \in 1 .. LADDER[i] : LADDER[i] = k * LADDER[1]
    BY LadderAssumption
  <2>2. k \in Nat
    BY <1>2, <2>1
  <2> QED BY <2>1, <2>2 DEF Rungs, m, MIN_DENOM
<1> QED BY <1>1, <1>2, <1>3, <1>4

(* Multiples of the smallest note: their differences, ...                   *)
LEMMA RungsLess ==
    ASSUME NEW a \in Nat, NEW b \in Nat, Rungs(a), Rungs(b), b <= a
    PROVE  Rungs(a - b)
<1>1. PICK k \in Nat : a = k * m
  BY DEF Rungs
<1>2. PICK j \in Nat : b = j * m
  BY DEF Rungs
<1>3. m \in Nat \ {0}
  BY SmallestPositive
<1>4. ASSUME k < j PROVE FALSE
  <2>1. j - k \in Nat /\ j - k >= 1
    BY <1>4
  <2>2. (j - k) * m >= m
    BY <1>3, <2>1
  <2>3. (j - k) * m = j * m - k * m
    BY <1>3
  <2> QED BY <1>1, <1>2, <1>3, <2>2, <2>3
<1>5. k - j \in Nat /\ (k - j) * m = k * m - j * m
  BY <1>3, <1>4
<1> QED BY <1>1, <1>2, <1>5 DEF Rungs

(* ... those below it, ...                                                  *)
LEMMA RungsSmall ==
    ASSUME NEW a \in Nat, Rungs(a), a < m
    PROVE  a = 0
<1>1. PICK k \in Nat : a = k * m
  BY DEF Rungs
<1>2. m \in Nat \ {0}
  BY SmallestPositive
<1>3. ASSUME k >= 1 PROVE FALSE
  <2>1. k * m >= m
    BY <1>2, <1>3
  <2> QED BY <1>1, <1>2, <2>1
<1> QED BY <1>1, <1>2, <1>3

(* ... and what the mint mints.                                             *)
LEMMA MintableRungs ==
    ASSUME NEW a \in Nat
    PROVE  Mintable(a) \in Nat /\ Rungs(Mintable(a))
<1>1. m \in Nat \ {0}
  BY SmallestPositive
<1>2. CASE a < m
  <2>1. Mintable(a) = 0 /\ 0 = 0 * m
    BY <1>1, <1>2 DEF Mintable, m
  <2> QED BY <2>1 DEF Rungs
<1>3. CASE ~ (a < m)
  <2> DEFINE q == a \div m
  <2>1. Mintable(a) = (q - 1) * m
    BY <1>3 DEF Mintable, m
  <2>2. q \in Nat /\ q >= 1
    BY <1>1, <1>3
  <2> HIDE DEF q
  <2>3. q - 1 \in Nat /\ (q - 1) * m \in Nat
    BY <1>1, <2>2
  <2> QED BY <2>1, <2>3 DEF Rungs
<1> QED BY <1>2, <1>3

(* The sum of a sequence that grew by one. *)
LEMMA SumAppend ==
    ASSUME NEW n \in Nat, NEW f \in [1 .. n -> Nat], NEW g \in [1 .. n + 1 -> Nat],
           \A i \in 1 .. n : g[i] = f[i]
    PROVE  Total(g, n + 1) = Total(f, n) + g[n + 1]
<1> DEFINE s == SumTo(f, n)
           t == SumTo(g, n + 1)
           Bad == {i \in 0 .. n : t[i] # s[i]}
<1>s. s[0] = 0 /\ \A i \in 1 .. n : s[i] = s[i - 1] + f[i]
  BY SumStep
<1>t. t[0] = 0 /\ \A i \in 1 .. n + 1 : t[i] = t[i - 1] + g[i]
  <2>1. n + 1 \in Nat
    OBVIOUS
  <2> QED BY <2>1, SumStep
<1>0. /\ s[0] = 0 /\ \A i \in 1 .. n : s[i] = s[i - 1] + f[i]
      /\ t[0] = 0 /\ \A i \in 1 .. n + 1 : t[i] = t[i - 1] + g[i]
  BY <1>s, <1>t
<1> HIDE DEF s, t
<1>1. Bad = {}
  <2> SUFFICES ASSUME Bad # {} PROVE FALSE
    OBVIOUS
  <2>1. Bad \in SUBSET Nat
    OBVIOUS
  <2>2. PICK i \in Bad : \A j \in Bad : i <= j
    <3> HIDE DEF Bad
    <3> QED BY <2>1, LeastNatural
  <2>3. i \in 1 .. n /\ i - 1 \in 0 .. n /\ ~ (i <= i - 1)
    BY <1>0, <2>2
  <2>4. t[i - 1] = s[i - 1]
    BY <2>2, <2>3
  <2> QED BY <1>0, <2>2, <2>3, <2>4
<1>2. t[n] = s[n]
  BY <1>1
<1>3. t[n + 1] = t[n + 1 - 1] + g[n + 1] /\ n + 1 - 1 = n
  BY <1>0
<1>4. t[n + 1] = s[n] + g[n + 1]
  BY <1>2, <1>3
<1> QED BY <1>4 DEF Total, s, t

(* The value of the notes, as the split takes one.                          *)
LEMMA ValueAppend ==
    ASSUME NEW notes \in Seq(Nat), NEW d \in Nat
    PROVE  /\ Value(Append(notes, d)) = Value(notes) + d
           /\ Value(notes) \in Nat
<1> DEFINE n == Len(notes)
           g == Append(notes, d)
<1>1. /\ n \in Nat /\ notes \in [1 .. n -> Nat] /\ Len(g) = n + 1
      /\ g \in [1 .. n + 1 -> Nat] /\ g[n + 1] = d
      /\ \A i \in 1 .. n : g[i] = notes[i]
  <2>1. n \in Nat /\ notes \in [1 .. n -> Nat]
    OBVIOUS
  <2>2. Len(g) = n + 1 /\ g[n + 1] = d
    OBVIOUS
  <2>3. \A i \in 1 .. n : g[i] = notes[i]
    OBVIOUS
  <2>4. g \in Seq(Nat)
    OBVIOUS
  <2>5. g \in [1 .. n + 1 -> Nat]
    <3> HIDE DEF g
    <3>1. g \in [1 .. Len(g) -> Nat]
      BY <2>4
    <3> HIDE DEF n
    <3> QED BY <2>2, <3>1
  <2> QED BY <2>1, <2>2, <2>3, <2>5
<1> HIDE DEF n, g
<1>2. Total(g, n + 1) = Total(notes, n) + d
  BY <1>1, SumAppend
<1>3. Total(notes, n) \in Nat
  BY <1>1, SumBounds DEF Total
<1> QED BY <1>1, <1>2, <1>3 DEF Value, n, g

LEMMA ValueEmpty == Value(<<>>) = 0
<1>1. 0 \in Nat /\ <<>> \in [1 .. 0 -> Nat] /\ Len(<<>>) = 0
  OBVIOUS
<1>2. SumTo(<<>>, 0)[0] = 0
  BY <1>1, SumStep
<1> QED BY <1>1, <1>2 DEF Value, Total

-----------------------------------------------------------------------------
LEMMA LadderInit == SplitInit => LadderInv
<1> SUFFICES ASSUME SplitInit PROVE LadderInv
  OBVIOUS
<1>1. amount \in Nat /\ maxPoints \in Nat
  BY SplitAssumption DEF SplitInit
<1>2. rest \in Nat /\ Rungs(rest) /\ rest = Mintable(amount)
  BY <1>1, MintableRungs DEF SplitInit
<1>3. out = <<>> /\ Len(out) = 0 /\ Value(out) = 0
  BY ValueEmpty DEF SplitInit
<1>4. SplitTypeOK
  BY <1>2, <1>3, SmallestPositive DEF SplitInit, SplitTypeOK
<1> QED BY <1>1, <1>2, <1>3, <1>4, SmallestPositive DEF SplitInit, LadderInv

(* LadderInv is inductive.                                                  *)
LEMMA LadderStep == LadderInv /\ [SplitNext]_splitVars => LadderInv'
<1> SUFFICES ASSUME LadderInv, [SplitNext]_splitVars PROVE LadderInv'
  OBVIOUS
<1>0. /\ rest \in Nat /\ level \in 0 .. Len(LADDER) /\ maxPoints \in Nat
      /\ out \in Seq(Nat) /\ Len(out) \in Nat /\ Value(out) \in Nat
      /\ out \in Seq({LADDER[i] : i \in Levels})
  <2>1. {LADDER[i] : i \in Levels} \subseteq Nat
    BY SmallestPositive
  <2>2. out \in Seq({LADDER[i] : i \in Levels})
    BY DEF LadderInv, SplitTypeOK
  <2>3. out \in Seq(Nat)
    <3> HIDE DEF LadderInv
    <3> DEFINE D == {LADDER[i] : i \in Levels}
    <3>1. D \subseteq Nat /\ out \in Seq(D)
      BY <2>1, <2>2
    <3> HIDE DEF D
    <3> QED BY <3>1, SeqMonotonic
  <2>4. Value(out) \in Nat /\ Len(out) \in Nat
    BY <2>3, ValueAppend
  <2> QED BY <2>2, <2>3, <2>4, SplitAssumption DEF LadderInv, SplitTypeOK
<1>1. CASE NoValue \/ NoPoints \/ TooFewPoints
  BY <1>1 DEF NoValue, NoPoints, TooFewPoints, Conclude, LadderInv, SplitTypeOK
<1>2. CASE MintsNothing
  BY <1>2 DEF MintsNothing, Conclude, LadderInv, SplitTypeOK
<1>3. CASE SplitEnds
  <2>1. rest < LADDER[1] /\ UNCHANGED <<amount, maxPoints, rest, level, out>>
        /\ verdict' = IF rest = 0 THEN "ok" ELSE "inexpressible"
    BY <1>3, SmallestPositive DEF SplitEnds, Conclude, LadderInv
  <2>2. rest = 0
    BY <1>0, <2>1, RungsSmall DEF LadderInv, m, MIN_DENOM
  <2> QED BY <2>1, <2>2 DEF LadderInv, SplitTypeOK
<1>4. CASE NextLevel
  <2>1. /\ level > 0 /\ rest < LADDER[level] /\ level' = level - 1
        /\ UNCHANGED <<amount, maxPoints, rest, out, verdict>>
    BY <1>4 DEF NextLevel, ladder
  <2>2. level' \in 0 .. Len(LADDER) /\ level' + 1 = level
    BY <1>0, <2>1
  <2> QED BY <2>1, <2>2 DEF LadderInv, SplitTypeOK
<1>5. CASE TakeNote
  <2> DEFINE d == LADDER[level]
  <2>1. /\ level \in Levels /\ verdict = "split"
        /\ rest >= d /\ Len(out) # maxPoints
        /\ out' = Append(out, d) /\ rest' = rest - d
        /\ UNCHANGED <<amount, maxPoints, level, verdict>>
    BY <1>0, <1>5 DEF TakeNote, Splitting, Full, ladder, Levels
  <2>2. d \in Nat \ {0} /\ Rungs(d) /\ d \in {LADDER[i] : i \in Levels}
    BY <2>1, SmallestPositive
  <2> HIDE DEF d
  <2>3. rest' \in Nat /\ rest' < rest /\ Rungs(rest')
    BY <1>0, <2>1, <2>2, RungsLess DEF LadderInv
  <2>4. /\ out' \in Seq({LADDER[i] : i \in Levels})
        /\ Len(out') = Len(out) + 1
    BY <1>0, <2>1, <2>2
  <2>5. Value(out)' = Value(out) + d
    BY <1>0, <2>1, <2>2, ValueAppend
  <2>6. rest' + Value(out)' = Mintable(amount)'
    BY <1>0, <2>1, <2>2, <2>5 DEF LadderInv
  <2>7. Len(out') <= maxPoints'
    BY <1>0, <2>1, <2>4 DEF LadderInv
  <2>8. level < Len(LADDER) => rest' < LADDER[level + 1]
    <3>1. level < Len(LADDER) => LADDER[level + 1] \in Nat
      BY <1>0, SmallestPositive DEF Levels
    <3> QED BY <1>0, <2>3, <3>1 DEF LadderInv
  <2> QED BY <2>1, <2>3, <2>4, <2>6, <2>7, <2>8 DEF LadderInv, SplitTypeOK
<1>6. CASE UNCHANGED splitVars
  BY <1>6 DEF splitVars, LadderInv, SplitTypeOK, Value
<1> QED BY <1>1, <1>2, <1>3, <1>4, <1>5, <1>6 DEF SplitNext

LEMMA LadderAlways == SplitSpec => []LadderInv
BY LadderInit, LadderStep, PTL DEF SplitSpec

(* The contract accepts what the mint splits: the notes add up to what it   *)
(* mints for the deposit, and no point is missing.                          *)
THEOREM ContractTakes == SplitSpec => []ContractAccepts
<1>1. LadderInv => ContractAccepts
  <2> SUFFICES ASSUME LadderInv, verdict = "ok"
               PROVE  Value(out) = contractMintable(amount) /\ Len(out) <= maxPoints
    BY DEF ContractAccepts
  <2>1. contractMintable(amount) = Mintable(amount)
    BY DEF contractMintable, Mintable
  <2>2. Value(out) \in Nat
    <3>1. out \in Seq(Nat)
      BY SmallestPositive DEF LadderInv, SplitTypeOK
    <3> QED BY <3>1, ValueAppend
  <2> QED BY <2>1, <2>2 DEF LadderInv
<1> QED BY <1>1, LadderAlways, PTL

(* The mint never finds a deposit that the ladder cannot express.           *)
THEOREM AlwaysExpressible == SplitSpec => []NeverInexpressible
<1>1. LadderInv => NeverInexpressible
  BY DEF LadderInv, NeverInexpressible
<1> QED BY <1>1, LadderAlways, PTL

-----------------------------------------------------------------------------
(* The count of the client: while the mint splits, what it has taken and    *)
(* what the client's split of the rest takes are together the split that    *)
(* the client counted.  An amount of zero never leaves the start.           *)
PointsInv ==
    /\ verdict = "split" =>
         /\ Len(out) + Len(GreedySplits(LADDER)[<<rest, level>>])
              = Len(splitGreedy[Mintable(amount)])
         /\ Mintable(amount) = 0 => AtStart
    /\ ClientBringsThePoints

(* One step of the client's split. *)
LEMMA SplitUnfold ==
    ASSUME NEW r \in Nat, NEW i \in 0 .. Len(LADDER)
    PROVE  LET s == GreedySplits(LADDER)
           IN  /\ Len(s[<<r, i>>]) \in Nat
               /\ i = 0 => Len(s[<<r, i>>]) = 0
               /\ i # 0 /\ r >= LADDER[i] => Len(s[<<r, i>>]) = 1 + Len(s[<<r - LADDER[i], i>>])
               /\ i # 0 /\ r < LADDER[i] => s[<<r, i>>] = s[<<r, i - 1>>]
<1> DEFINE s == GreedySplits(LADDER)
           N == LadderNotes(LADDER)
           p == <<r, i>>
<1>1. /\ s \in [SplitCases(LADDER) -> Seq(N)]
      /\ \A q \in SplitCases(LADDER) : s[q] = SplitCase(LADDER, s, q)
  BY GreedySplit, LadderAssumption
<1>2. p \in SplitCases(LADDER) /\ p[1] = r /\ p[2] = i
  BY DEF SplitCases
<1>3. \A q \in SplitCases(LADDER) : s[q] \in Seq(N) /\ Len(s[q]) \in Nat
  <2> HIDE DEF s, N
  <2>1. \A q \in SplitCases(LADDER) : s[q] \in Seq(N)
    BY <1>1
  <2> QED BY <2>1, LenProperties
<1> HIDE DEF s, N
<1>4. s[<<r, i>>] = IF i = 0 THEN <<>>
                    ELSE IF r >= LADDER[i] THEN <<LADDER[i]>> \o s[<<r - LADDER[i], i>>]
                    ELSE s[<<r, i - 1>>]
  BY <1>1, <1>2 DEF SplitCase
<1>5. ASSUME i # 0, r >= LADDER[i]
      PROVE  Len(<<LADDER[i]>> \o s[<<r - LADDER[i], i>>]) = 1 + Len(s[<<r - LADDER[i], i>>])
  <2>1. LADDER[i] \in Nat \ {0} /\ LADDER[i] \in N
    BY <1>5, SmallestPositive DEF Levels, N, LadderNotes
  <2>2. r - LADDER[i] \in Nat
    BY <1>5, <2>1
  <2>3. <<r - LADDER[i], i>> \in SplitCases(LADDER)
    BY <2>2 DEF SplitCases
  <2>4. s[<<r - LADDER[i], i>>] \in Seq(N) /\ <<LADDER[i]>> \in Seq(N)
    BY <1>3, <2>1, <2>3
  <2> QED BY <2>4, ConcatProperties
<1>6. /\ Len(s[<<r, i>>]) \in Nat
      /\ i = 0 => Len(s[<<r, i>>]) = 0
      /\ i # 0 /\ r >= LADDER[i] => Len(s[<<r, i>>]) = 1 + Len(s[<<r - LADDER[i], i>>])
  <2>1. Len(s[<<r, i>>]) \in Nat
    BY <1>2, <1>3
  <2>2. i = 0 => Len(s[<<r, i>>]) = 0
    BY <1>4
  <2>3. i # 0 /\ r >= LADDER[i] => Len(s[<<r, i>>]) = 1 + Len(s[<<r - LADDER[i], i>>])
    BY <1>4, <1>5
  <2> QED BY <2>1, <2>2, <2>3
<1>7. i # 0 /\ r < LADDER[i] => s[<<r, i>>] = s[<<r, i - 1>>]
  <2>1. i # 0 => LADDER[i] \in Nat
    BY SmallestPositive DEF Levels
  <2> QED BY <1>4, <2>1
<1> QED BY <1>6, <1>7 DEF s

(* What the client counts, in terms of its split. *)
LEMMA PointCount ==
    ASSUME NEW a \in Nat
    PROVE  /\ Mintable(a) = 0 => pointCount(a) = 0
           /\ Mintable(a) # 0 => pointCount(a) = Len(splitGreedy[Mintable(a)])
           /\ splitGreedy[Mintable(a)] = GreedySplits(LADDER)[<<Mintable(a), Len(LADDER)>>]
           /\ Len(splitGreedy[Mintable(a)]) \in Nat
<1>1. contractMintable(a) = Mintable(a) /\ Mintable(a) \in Nat
  BY MintableRungs DEF contractMintable, Mintable
<1>4. clientMintable(a) = Mintable(a)
  BY DEF clientMintable, Mintable
<1>2. splitGreedy[Mintable(a)] = GreedySplits(LADDER)[<<Mintable(a), Len(LADDER)>>]
  BY <1>1 DEF splitGreedy
<1>3. Len(splitGreedy[Mintable(a)]) \in Nat
  BY <1>1, <1>2, SplitUnfold, SmallestPositive
<1> HIDE DEF Mintable
<1> QED BY <1>2, <1>3, <1>4 DEF pointCount, SLACK

LEMMA PointsInit == SplitInit => PointsInv
<1> SUFFICES ASSUME SplitInit PROVE PointsInv
  OBVIOUS
<1>1. amount \in Nat /\ out = <<>> /\ Len(out) = 0 /\ verdict = "split"
  BY SplitAssumption DEF SplitInit
<1>2. Len(splitGreedy[Mintable(amount)]) \in Nat
      /\ splitGreedy[Mintable(amount)] = GreedySplits(LADDER)[<<rest, level>>]
  BY <1>1, PointCount DEF SplitInit
<1> QED BY <1>1, <1>2 DEF PointsInv, AtStart, ClientBringsThePoints, SplitInit

(* The notes taken and the split of what is left have the length of the     *)
(* whole split.                                                             *)
LEMMA PointsStep == LadderInv /\ PointsInv /\ [SplitNext]_splitVars => PointsInv'
<1> SUFFICES ASSUME LadderInv, PointsInv, [SplitNext]_splitVars PROVE PointsInv'
  OBVIOUS
<1> DEFINE s == GreedySplits(LADDER)
           all == Len(splitGreedy[Mintable(amount)])
           now == Len(s[<<rest, level>>])
<1>0. /\ rest \in Nat /\ level \in 0 .. Len(LADDER) /\ amount \in Nat
      /\ out \in Seq(Nat) /\ Len(out) \in Nat /\ Value(out) \in Nat
  <2>1. out \in Seq(Nat)
    BY SmallestPositive DEF LadderInv, SplitTypeOK
  <2>2. Value(out) \in Nat /\ Len(out) \in Nat
    BY <2>1, ValueAppend
  <2> QED BY <2>1, <2>2, SplitAssumption DEF LadderInv, SplitTypeOK
<1>1. /\ now \in Nat
      /\ level = 0 => now = 0
      /\ level # 0 /\ rest >= LADDER[level] =>
            now = 1 + Len(s[<<rest - LADDER[level], level>>])
      /\ level # 0 /\ rest < LADDER[level] => s[<<rest, level>>] = s[<<rest, level - 1>>]
  BY <1>0, SplitUnfold
<1>2. /\ all \in Nat
      /\ Mintable(amount) = 0 => pointCount(amount) = 0
      /\ Mintable(amount) # 0 => pointCount(amount) = all
      /\ splitGreedy[Mintable(amount)] = s[<<Mintable(amount), Len(LADDER)>>]
  BY <1>0, PointCount
<1>3. Mintable(amount) = rest + Value(out)
  BY DEF LadderInv
<1>4. /\ verdict = "split" => Len(out) + now = all
      /\ verdict = "split" /\ Mintable(amount) = 0 => AtStart
      /\ ClientBringsThePoints
  BY DEF PointsInv
<1>5. AtStart => Value(out) = 0 /\ Len(out) = 0
  BY ValueEmpty DEF AtStart
<1>6. ASSUME Splitting PROVE Mintable(amount) # 0
  <2> SUFFICES ASSUME Mintable(amount) = 0 PROVE FALSE
    OBVIOUS
  <2>1. AtStart /\ rest = 0
    BY <1>0, <1>3, <1>4, <1>6 DEF Splitting
  <2> QED BY <1>6, <2>1 DEF Splitting
<1> HIDE DEF s, all, now
<1>7. CASE NoValue
  BY <1>7 DEF NoValue, Conclude, PointsInv, ClientBringsThePoints
<1>8. CASE MintsNothing
  <2>1. /\ verdict' = "ok" /\ UNCHANGED <<amount, maxPoints, rest, level, out>>
        /\ Len(out) = 0 /\ Mintable(amount) = 0
    BY <1>3, <1>5, <1>8 DEF MintsNothing, Conclude
  <2> QED BY <1>2, <2>1 DEF PointsInv, ClientBringsThePoints
<1>9. CASE NoPoints
  <2>1. /\ verdict' = "refused" /\ UNCHANGED <<amount, maxPoints, rest, level, out>>
        /\ AtStart /\ rest > 0 /\ maxPoints = 0 /\ Rungs(rest)
    BY <1>9 DEF NoPoints, Conclude, LadderInv
  <2>2. LADDER[1] \in Nat /\ rest >= LADDER[1]
    <3>1. LADDER[1] \in Nat /\ m = LADDER[1]
      BY SmallestPositive DEF Levels, m, MIN_DENOM
    <3> QED BY <1>0, <2>1, <3>1, RungsSmall
  <2>3. rest = Mintable(amount) /\ level = Len(LADDER) /\ Len(LADDER) \in 1 .. Len(LADDER)
    BY <1>0, <1>3, <1>5, <2>1, SmallestPositive DEF AtStart
  <2>4. s[<<rest, level>>] # <<>>
    BY <1>0, <2>2, <2>3, GreedyTakes, LadderAssumption DEF s
  <2>5. all # 0
    <3>1. s[<<rest, level>>] \in Seq(LadderNotes(LADDER))
      <4>1. <<rest, level>> \in SplitCases(LADDER)
        BY <1>0 DEF SplitCases
      <4> QED BY <4>1, GreedySplit, LadderAssumption DEF s
    <3>2. all = Len(s[<<rest, level>>])
      BY <1>2, <2>3 DEF all
    <3> QED BY <2>4, <3>1, <3>2, EmptySeq
  <2>6. maxPoints # pointCount(amount)
    BY <1>2, <2>1, <2>3, <2>5
  <2> QED BY <2>1, <2>6 DEF PointsInv, ClientBringsThePoints
<1>10. CASE TooFewPoints
  <2>1. /\ verdict' = "refused" /\ UNCHANGED <<amount, maxPoints, rest, level, out>>
        /\ Len(out) = maxPoints /\ level # 0 /\ rest >= LADDER[level]
        /\ verdict = "split" /\ Splitting
    BY <1>0, <1>10 DEF TooFewPoints, Conclude, Full, ladder, Splitting
  <2>2. now # 0
    <3>1. LADDER[level] \in Nat
      BY <1>0, <2>1, SmallestPositive DEF Levels
    <3>2. Len(s[<<rest - LADDER[level], level>>]) \in Nat
      <4>1. rest - LADDER[level] \in Nat
        BY <1>0, <2>1, <3>1
      <4> QED BY <1>0, <4>1, SplitUnfold DEF s
    <3> QED BY <1>1, <2>1, <3>2
  <2>3. maxPoints # pointCount(amount)
    BY <1>0, <1>1, <1>2, <1>4, <1>6, <2>1, <2>2
  <2> QED BY <2>1, <2>3 DEF PointsInv, ClientBringsThePoints
<1>11. CASE TakeNote
  <2>1. /\ level # 0 /\ rest >= LADDER[level] /\ verdict = "split" /\ Splitting
        /\ out' = Append(out, LADDER[level]) /\ rest' = rest - LADDER[level]
        /\ UNCHANGED <<amount, maxPoints, level, verdict>>
    BY <1>0, <1>11 DEF TakeNote, Splitting, ladder
  <2>2. LADDER[level] \in Nat
    BY <1>0, <2>1, SmallestPositive DEF Levels
  <2>3. Len(out') = Len(out) + 1
    BY <1>0, <2>1, <2>2
  <2>4. now = 1 + Len(s[<<rest', level'>>]) /\ Len(s[<<rest', level'>>]) \in Nat
    <3>1. rest' \in Nat
      BY <1>0, <2>1, <2>2
    <3>2. Len(s[<<rest', level>>]) \in Nat
      BY <1>0, <3>1, SplitUnfold DEF s
    <3> QED BY <1>1, <2>1, <3>2
  <2>5. Len(out') + Len(s[<<rest', level'>>]) = all
    <3> DEFINE left == Len(s[<<rest', level'>>])
    <3>1. Len(out) + now = all
      BY <1>4, <2>1
    <3>2. now = 1 + left /\ left \in Nat
      BY <2>4
    <3> HIDE DEF left
    <3>3. Len(out') + left = all
      BY <1>0, <2>3, <3>1, <3>2
    <3> QED BY <3>3 DEF left
  <2> QED BY <1>6, <2>1, <2>5 DEF PointsInv, ClientBringsThePoints, s, all
<1>12. CASE NextLevel
  <2>1. /\ level # 0 /\ rest < LADDER[level] /\ verdict = "split" /\ Splitting
        /\ level' = level - 1
        /\ UNCHANGED <<amount, maxPoints, rest, out, verdict>>
    BY <1>0, <1>12 DEF NextLevel, Splitting, ladder
  <2>2. now = Len(s[<<rest', level'>>])
    BY <1>1, <2>1 DEF now
  <2> QED BY <1>4, <1>6, <2>1, <2>2 DEF PointsInv, ClientBringsThePoints, s, all
<1>13. CASE SplitEnds
  <2>1. /\ level = 0 /\ verdict = "split" /\ Splitting
        /\ verdict' \in {"ok", "inexpressible"}
        /\ UNCHANGED <<amount, maxPoints, rest, level, out>>
    BY <1>13 DEF SplitEnds, Splitting, Conclude
  <2>2. Len(out) = pointCount(amount)
    BY <1>0, <1>1, <1>2, <1>4, <1>6, <2>1
  <2> QED BY <2>1, <2>2 DEF PointsInv, ClientBringsThePoints
<1>14. CASE UNCHANGED splitVars
  BY <1>14 DEF splitVars, PointsInv, ClientBringsThePoints, AtStart
<1> QED BY <1>7, <1>8, <1>9, <1>10, <1>11, <1>12, <1>13, <1>14 DEF SplitNext

(* A client that brings pointCount points for its deposit is never refused, *)
(* and the mint takes every one of them: splitGreedy of the client and      *)
(* Split of the mint are the same split, for every ladder and deposit.      *)
THEOREM PointsSuffice == SplitSpec => []ClientBringsThePoints
<1>1. PointsInv => ClientBringsThePoints
  BY DEF PointsInv
<1> QED BY <1>1, PointsInit, PointsStep, LadderAlways, PTL DEF SplitSpec

-----------------------------------------------------------------------------
(* grossFor is exact up to a whole rung: the contract mints of the deposit  *)
(* it computes what was asked, less the part below the smallest note.       *)
THEOREM GrossMintsRungs ==
    ASSUME NEW net \in Nat
    PROVE  contractMintable(grossFor(net)) = WholeRungs(net)
<1> DEFINE q == net \div m
<1>1. m \in Nat \ {0}
  BY SmallestPositive
<1>2. (net + m) \div m = q + 1 /\ q \in Nat /\ ~ (net + m < m)
  BY <1>1
<1> HIDE DEF q
<1>3. contractMintable(net + m) = (q + 1 - 1) * m
  BY <1>2 DEF contractMintable, m
<1>4. WholeRungs(net) = q * m
  BY DEF WholeRungs, m, q
<1> QED BY <1>2, <1>3, <1>4 DEF grossFor, m

-----------------------------------------------------------------------------
(* The fewest notes. *)

(* Each denomination divides the next, as 1 and 10 cent, 1, 10 and 100 USDC *)
(* do.  Without it the largest note first is not always the fewest notes.   *)
EachDividesTheNext ==
    \A i \in 1 .. Len(LADDER) - 1 : \E k \in Nat : LADDER[i + 1] = k * LADDER[i]

(* So many notes of each denomination, and what they are worth. *)
Counts == [Levels -> Nat]
Values(c) == [i \in Levels |-> c[i] * LADDER[i]]
Worth(c) == Total(Values(c), Len(LADDER))
Number(c) == Total(c, Len(LADDER))

(* A choice of notes for r among the l smallest denominations. *)
Choice(c, r, l) == c \in Counts /\ Worth(c) = r /\ \A i \in Levels : i > l => c[i] = 0

LEMMA CountsTyped ==
    ASSUME NEW c \in Counts
    PROVE  /\ Len(LADDER) \in Nat /\ Levels = 1 .. Len(LADDER)
           /\ c \in [1 .. Len(LADDER) -> Nat]
           /\ Values(c) \in [1 .. Len(LADDER) -> Nat]
           /\ Number(c) \in Nat /\ Worth(c) \in Nat
           /\ \A i \in Levels : c[i] * LADDER[i] <= Worth(c)
<1>1. Len(LADDER) \in Nat /\ Len(LADDER) >= 1 /\ Levels = 1 .. Len(LADDER)
  BY SmallestPositive DEF Levels
<1>2. c \in [1 .. Len(LADDER) -> Nat]
  BY <1>1 DEF Counts
<1>3. ASSUME NEW i \in Levels PROVE c[i] * LADDER[i] \in Nat
  <2>1. c[i] \in Nat /\ LADDER[i] \in Nat
    BY SmallestPositive DEF Counts
  <2> QED BY <2>1
<1>4. Values(c) \in [1 .. Len(LADDER) -> Nat] /\ \A i \in Levels : Values(c)[i] = c[i] * LADDER[i]
  BY <1>1, <1>3 DEF Values
<1>5. Number(c) \in Nat
  BY <1>1, <1>2, SumBounds DEF Number, Total
<1>6. Worth(c) \in Nat /\ \A i \in 1 .. Len(LADDER) : Values(c)[i] <= Worth(c)
  BY <1>1, <1>4, SumBounds DEF Worth, Total
<1> QED BY <1>1, <1>2, <1>4, <1>5, <1>6

(* Another number of notes of one denomination. *)
LEMMA WorthChange ==
    ASSUME NEW c \in Counts, NEW k \in Levels, NEW n \in Nat
    PROVE  LET d == [c EXCEPT ![k] = n]
           IN  /\ d \in Counts /\ d[k] = n /\ \A i \in Levels : i # k => d[i] = c[i]
               /\ Worth(d) = Worth(c) + n * LADDER[k] - c[k] * LADDER[k]
               /\ Number(d) = Number(c) + n - c[k]
<1> DEFINE d == [c EXCEPT ![k] = n]
<1>1. d \in Counts /\ d[k] = n /\ \A i \in Levels : i # k => d[i] = c[i]
  BY DEF Counts
<1> HIDE DEF d
<1>2. /\ Len(LADDER) \in Nat /\ Levels = 1 .. Len(LADDER)
      /\ c \in [1 .. Len(LADDER) -> Nat] /\ d \in [1 .. Len(LADDER) -> Nat]
      /\ Values(c) \in [1 .. Len(LADDER) -> Nat] /\ Values(d) \in [1 .. Len(LADDER) -> Nat]
  BY <1>1, CountsTyped
<1>3. Number(d) = Number(c) + d[k] - c[k]
  BY <1>1, <1>2, SumChange DEF Number
<1>4. \A i \in 1 .. Len(LADDER) : i # k => Values(d)[i] = Values(c)[i]
  BY <1>1, <1>2 DEF Values
<1>5. Worth(d) = Worth(c) + Values(d)[k] - Values(c)[k]
  BY <1>2, <1>4, SumChange DEF Worth
<1>6. Values(d)[k] = n * LADDER[k] /\ Values(c)[k] = c[k] * LADDER[k]
  BY <1>1 DEF Values
<1> QED BY <1>1, <1>3, <1>5, <1>6 DEF d

(* Some choice has the fewest notes. *)
LEMMA FewestChoice ==
    ASSUME NEW r, NEW l, NEW c, Choice(c, r, l)
    PROVE  \E d : /\ Choice(d, r, l) /\ Number(d) <= Number(c)
                  /\ \A e : Choice(e, r, l) => Number(d) <= Number(e)
<1> DEFINE Sizes == {n \in Nat : \E d \in Counts : Choice(d, r, l) /\ n = Number(d)}
<1>1. \A d : Choice(d, r, l) => d \in Counts /\ Number(d) \in Sizes
  BY CountsTyped DEF Choice
<1>2. PICK n \in Sizes : \A k \in Sizes : n <= k
  <2>1. Sizes \in SUBSET Nat /\ Sizes # {}
    BY <1>1
  <2> HIDE DEF Sizes
  <2> QED BY <2>1, LeastNatural
<1>3. PICK d \in Counts : Choice(d, r, l) /\ n = Number(d)
  OBVIOUS
<1> HIDE DEF Sizes
<1> QED BY <1>1, <1>2, <1>3

(* Plain numbers: notes that make one of the next denomination. *)
LEMMA OneForMany ==
    ASSUME NEW a \in Nat \ {0}, NEW b \in Nat, NEW k \in Nat, b = k * a, a < b,
           NEW n \in Nat, NEW j \in Nat, n * a + a > b
    PROVE  /\ k >= 2 /\ n >= k /\ n - k \in Nat
           /\ (n - k) * a = n * a - b
           /\ (j + 1) * b = j * b + b /\ n * a \in Nat /\ j * b \in Nat
<1>1. k # 0 /\ k # 1
  BY DEF Nat
<1>2. (n + 1) * a = n * a + a
  OBVIOUS
<1>3. n + 1 > k
  <2> SUFFICES ASSUME k >= n + 1 PROVE FALSE
    OBVIOUS
  <2>1. k - (n + 1) \in Nat
    OBVIOUS
  <2>2. (k - (n + 1)) * a \in Nat
    BY <2>1
  <2>3. (k - (n + 1)) * a = k * a - (n + 1) * a
    OBVIOUS
  <2>4. k * a >= (n + 1) * a
    BY <2>2, <2>3
  <2> QED BY <1>2, <2>4
<1>4. n >= k /\ n - k \in Nat /\ k >= 2
  BY <1>1, <1>3
<1>5. (n - k) * a = n * a - k * a
  OBVIOUS
<1>6. (j + 1) * b = j * b + b /\ n * a \in Nat /\ j * b \in Nat
  OBVIOUS
<1> QED BY <1>4, <1>5, <1>6

(* The choice with the fewest notes has no notes that make one of the next. *)
LEMMA FewestIsTight ==
    ASSUME EachDividesTheNext, NEW r, NEW l \in 0 .. Len(LADDER), NEW d, Choice(d, r, l),
           \A e : Choice(e, r, l) => Number(d) <= Number(e),
           NEW j \in Levels, j < l
    PROVE  d[j] * LADDER[j] + LADDER[j] <= LADDER[j + 1]
<1> DEFINE a == LADDER[j]
           b == LADDER[j + 1]
<1>0. d \in Counts /\ Len(LADDER) \in Nat /\ Levels = 1 .. Len(LADDER) /\ l \in Nat
  BY CountsTyped DEF Choice
<1>1. /\ j + 1 \in Levels /\ j \in Nat /\ j \in 1 .. Len(LADDER) - 1
      /\ d[j] \in Nat /\ d[j + 1] \in Nat
  BY <1>0 DEF Counts
<1>2. a \in Nat \ {0} /\ b \in Nat \ {0} /\ a < b
  BY <1>0, <1>1, SmallestPositive, LadderAssumption
<1>3. PICK k \in Nat : b = k * a
  BY <1>1 DEF EachDividesTheNext
<1> SUFFICES ASSUME ~ (d[j] * a + a <= b) PROVE FALSE
  OBVIOUS
<1> HIDE DEF a, b
<1>4. d[j] * a \in Nat
  BY <1>1, <1>2
<1>5. /\ k >= 2 /\ d[j] - k \in Nat
      /\ (d[j] - k) * a = d[j] * a - b
      /\ (d[j + 1] + 1) * b = d[j + 1] * b + b /\ d[j + 1] * b \in Nat
  <2>1. d[j] * a + a > b
    BY <1>2, <1>4
  <2> DEFINE n == d[j]
             i == d[j + 1]
  <2>2. n \in Nat /\ i \in Nat /\ n * a + a > b
    BY <1>1, <2>1
  <2> HIDE DEF n, i
  <2>3. /\ k >= 2 /\ n - k \in Nat /\ (n - k) * a = n * a - b
        /\ (i + 1) * b = i * b + b /\ i * b \in Nat
    BY <1>2, <1>3, <2>2, OneForMany
  <2> QED BY <2>3 DEF n, i
<1> DEFINE e == [d EXCEPT ![j] = d[j] - k]
           g == [e EXCEPT ![j + 1] = d[j + 1] + 1]
<1>6. /\ e \in Counts /\ e[j] = d[j] - k /\ (\A i \in Levels : i # j => e[i] = d[i])
      /\ Worth(e) = Worth(d) + (d[j] - k) * a - d[j] * a
      /\ Number(e) = Number(d) + (d[j] - k) - d[j]
  BY <1>0, <1>5, WorthChange DEF a
<1>7. e[j + 1] = d[j + 1] /\ d[j + 1] + 1 \in Nat
  BY <1>1, <1>6
<1> HIDE DEF e
<1>8. /\ g \in Counts /\ (\A i \in Levels : i # j + 1 => g[i] = e[i])
      /\ Worth(g) = Worth(e) + (d[j + 1] + 1) * b - e[j + 1] * b
      /\ Number(g) = Number(e) + (d[j + 1] + 1) - e[j + 1]
  BY <1>1, <1>6, <1>7, WorthChange DEF b
<1> HIDE DEF g
<1>9. Worth(d) \in Nat /\ Number(d) \in Nat
  BY <1>0, CountsTyped
<1>10. Worth(g) = Worth(d)
  <2> DEFINE x == d[j] * a
             y == d[j + 1] * b
             z == (d[j] - k) * a
             w == (d[j + 1] + 1) * b
             v == e[j + 1] * b
  <2>1. x \in Nat /\ y \in Nat /\ z = x - b /\ w = y + b /\ b \in Nat
    BY <1>2, <1>4, <1>5
  <2>2. v = y
    BY <1>7
  <2>3. Worth(e) = Worth(d) + z - x
    BY <1>6
  <2>4. Worth(g) = Worth(e) + w - v
    BY <1>8
  <2> HIDE DEF x, y, z, w, v
  <2>5. Worth(e) = Worth(d) - b
    BY <1>9, <2>1, <2>3
  <2> QED BY <1>9, <2>1, <2>2, <2>4, <2>5
<1>11. Number(g) < Number(d)
  <2> DEFINE x == d[j]
             y == d[j + 1]
  <2>1. x \in Nat /\ y \in Nat /\ k >= 2 /\ e[j + 1] = y
    BY <1>1, <1>5, <1>7
  <2>2. Number(e) = Number(d) + (x - k) - x
    BY <1>6
  <2>3. Number(g) = Number(e) + (y + 1) - y
    BY <1>8, <2>1
  <2> HIDE DEF x, y
  <2>4. Number(e) = Number(d) - k
    BY <1>9, <2>1, <2>2
  <2> QED BY <1>9, <2>1, <2>3, <2>4
<1>12. \A i \in Levels : i > l => g[i] = 0
  <2> SUFFICES ASSUME NEW i \in Levels, i > l PROVE g[i] = 0
    OBVIOUS
  <2>1. i # j /\ i # j + 1
    BY <1>0, <1>1
  <2> QED BY <1>6, <1>8, <2>1 DEF Choice
<1>13. Choice(g, r, l)
  BY <1>8, <1>10, <1>12 DEF Choice
<1>14. Number(g) \in Nat
  BY <1>8, CountsTyped
<1> QED BY <1>9, <1>11, <1>13, <1>14

(* So the notes below a denomination add up to less than one of it. *)
LEMMA BelowIsLess ==
    ASSUME NEW d \in Counts, NEW l \in 1 .. Len(LADDER),
           \A j \in 1 .. l - 1 : d[j] * LADDER[j] + LADDER[j] <= LADDER[j + 1],
           \A i \in Levels : i > l => d[i] = 0
    PROVE  Worth(d) < d[l] * LADDER[l] + LADDER[l]
<1> DEFINE N == Len(LADDER)
           f == Values(d)
           s == SumTo(f, N)
<1>1. /\ N \in Nat /\ Levels = 1 .. N /\ f \in [1 .. N -> Nat]
      /\ \A i \in 1 .. N : d[i] \in Nat /\ LADDER[i] \in Nat \ {0} /\ f[i] = d[i] * LADDER[i]
  BY CountsTyped, SmallestPositive DEF Counts, Values
<1>2. s[0] = 0 /\ \A i \in 1 .. N : s[i] = s[i - 1] + f[i]
  <2> HIDE DEF f, N
  <2> QED BY <1>1, SumStep
<1>3. \A i \in 0 .. N : s[i] \in Nat
  <2> HIDE DEF f, N
  <2> QED BY <1>1, SumBounds
<1>4. Worth(d) = s[N]
  BY DEF Worth, Total
<1>a. \A j \in 1 .. l - 1 : f[j] + LADDER[j] <= LADDER[j + 1]
  BY <1>1
<1>b. \A i \in 1 .. N : i > l => f[i] = 0
  <2> SUFFICES ASSUME NEW i \in 1 .. N, i > l PROVE f[i] = 0
    OBVIOUS
  <2>1. f[i] = 0 * LADDER[i]
    BY <1>1
  <2> QED BY <1>1, <2>1
<1>c. f[l] = d[l] * LADDER[l]
  BY <1>1
<1> HIDE DEF N, f, s
<1>l. l \in Nat /\ l >= 1 /\ l <= N
  BY <1>1 DEF N
<1>5. \A i \in 0 .. l - 1 : s[i] < LADDER[i + 1]
  <2> DEFINE Bad == {i \in 0 .. l - 1 : ~ (s[i] < LADDER[i + 1])}
  <2> SUFFICES ASSUME Bad # {} PROVE FALSE
    OBVIOUS
  <2>1. Bad \in SUBSET Nat
    BY <1>l
  <2>2. PICK i \in Bad : \A j \in Bad : i <= j
    <3> HIDE DEF Bad
    <3> QED BY <2>1, LeastNatural
  <2>3. i # 0
    BY <1>1, <1>2, <1>l, <2>2
  <2>4. i \in 1 .. l - 1 /\ i - 1 \in 0 .. l - 1 /\ i \in 1 .. N /\ i - 1 \in 0 .. N
        /\ i + 1 \in 1 .. N
    BY <1>1, <1>l, <2>2, <2>3
  <2>5. s[i - 1] < LADDER[i]
    <3>1. i - 1 \notin Bad
      BY <2>2, <2>4
    <3>2. i - 1 + 1 = i
      BY <2>4
    <3> QED BY <2>4, <3>1, <3>2
  <2>6. s[i] = s[i - 1] + f[i] /\ f[i] + LADDER[i] <= LADDER[i + 1]
    BY <1>2, <1>a, <2>4
  <2>7. /\ s[i - 1] \in Nat /\ f[i] \in Nat /\ LADDER[i] \in Nat /\ LADDER[i + 1] \in Nat
    BY <1>1, <1>3, <2>4
  <2>8. s[i] < LADDER[i + 1]
    BY <2>5, <2>6, <2>7
  <2> QED BY <2>2, <2>8
<1>6. \A i \in l .. N : s[i] = s[l]
  <2> DEFINE Bad == {i \in l .. N : s[i] # s[l]}
  <2> SUFFICES ASSUME Bad # {} PROVE FALSE
    OBVIOUS
  <2>1. Bad \in SUBSET Nat
    BY <1>l
  <2>2. PICK i \in Bad : \A j \in Bad : i <= j
    <3> HIDE DEF Bad
    <3> QED BY <2>1, LeastNatural
  <2>3. i \in Nat /\ i > l /\ i \in 1 .. N /\ i - 1 \in l .. N /\ i - 1 \in 0 .. N
    BY <1>1, <1>l, <2>2
  <2>4. s[i - 1] = s[l]
    BY <2>2, <2>3
  <2>5. s[i] = s[i - 1] + 0 /\ s[i - 1] \in Nat
    BY <1>2, <1>3, <1>b, <2>3
  <2> QED BY <2>2, <2>4, <2>5
<1>7. s[N] = s[l]
  BY <1>1, <1>6, <1>l
<1>8. s[l] = s[l - 1] + f[l] /\ s[l - 1] < LADDER[l]
  <2>1. l - 1 + 1 = l /\ l - 1 \in 0 .. l - 1 /\ l \in 1 .. N
    BY <1>l
  <2> QED BY <1>2, <1>5, <2>1
<1>9. s[l - 1] \in Nat /\ f[l] \in Nat /\ LADDER[l] \in Nat
  BY <1>1, <1>3, <1>l
<1>10. s[l] < f[l] + LADDER[l]
  BY <1>8, <1>9
<1> QED BY <1>4, <1>7, <1>10, <1>c

(* Taking a note of the largest denomination that fits is never worse. *)
LEMMA TakeOne ==
    ASSUME EachDividesTheNext, NEW r \in Nat, NEW l \in Levels, r >= LADDER[l],
           NEW c, Choice(c, r, l)
    PROVE  \E e : Choice(e, r - LADDER[l], l) /\ Number(e) + 1 <= Number(c)
<1>1. PICK d : /\ Choice(d, r, l) /\ Number(d) <= Number(c)
               /\ \A e : Choice(e, r, l) => Number(d) <= Number(e)
  BY FewestChoice
<1>2. /\ Len(LADDER) \in Nat /\ Levels = 1 .. Len(LADDER)
      /\ d \in Counts /\ Worth(d) = r /\ d[l] \in Nat /\ LADDER[l] \in Nat \ {0}
      /\ Number(d) \in Nat /\ Number(c) \in Nat
  BY <1>1, CountsTyped, SmallestPositive DEF Choice, Counts
<1>3. \A j \in 1 .. l - 1 : d[j] * LADDER[j] + LADDER[j] <= LADDER[j + 1]
  <2> SUFFICES ASSUME NEW j \in 1 .. l - 1
               PROVE  d[j] * LADDER[j] + LADDER[j] <= LADDER[j + 1]
    OBVIOUS
  <2>1. j \in Levels /\ j < l /\ l \in 0 .. Len(LADDER)
    BY <1>2
  <2> QED BY <1>1, <2>1, FewestIsTight
<1>4. r < d[l] * LADDER[l] + LADDER[l]
  <2>1. \A i \in Levels : i > l => d[i] = 0
    BY <1>1 DEF Choice
  <2>2. l \in 1 .. Len(LADDER)
    BY <1>2
  <2>3. Worth(d) < d[l] * LADDER[l] + LADDER[l]
    BY <1>2, <1>3, <2>1, <2>2, BelowIsLess
  <2> QED BY <1>2, <2>3
<1>5. d[l] # 0
  <2> SUFFICES ASSUME d[l] = 0 PROVE FALSE
    OBVIOUS
  <2>1. d[l] * LADDER[l] = 0
    BY <1>2
  <2> QED BY <1>2, <1>4, <2>1
<1> DEFINE e == [d EXCEPT ![l] = d[l] - 1]
<1>6. d[l] - 1 \in Nat
  BY <1>2, <1>5
<1>7. /\ e \in Counts /\ (\A i \in Levels : i # l => e[i] = d[i])
      /\ Worth(e) = Worth(d) + (d[l] - 1) * LADDER[l] - d[l] * LADDER[l]
      /\ Number(e) = Number(d) + (d[l] - 1) - d[l]
  <2> DEFINE n == d[l] - 1
  <2>1. n \in Nat /\ d \in Counts
    BY <1>2, <1>6
  <2> HIDE DEF n
  <2> QED BY <2>1, WorthChange DEF n
<1> HIDE DEF e
<1>8. (d[l] - 1) * LADDER[l] = d[l] * LADDER[l] - LADDER[l] /\ d[l] * LADDER[l] \in Nat
  BY <1>2, <1>6
<1>9. Worth(e) = r - LADDER[l]
  <2> DEFINE x == d[l] * LADDER[l]
             y == (d[l] - 1) * LADDER[l]
  <2>1. x \in Nat /\ y = x - LADDER[l] /\ Worth(e) = r + y - x
    BY <1>2, <1>7, <1>8
  <2> HIDE DEF x, y
  <2> QED BY <1>2, <2>1
<1>10. Number(e) = Number(d) - 1
  BY <1>2, <1>7
<1>11. \A i \in Levels : i > l => e[i] = 0
  <2> SUFFICES ASSUME NEW i \in Levels, i > l PROVE e[i] = 0
    OBVIOUS
  <2>1. i # l /\ d[i] = 0
    BY <1>1, <1>2 DEF Choice
  <2> QED BY <1>7, <2>1
<1>12. Choice(e, r - LADDER[l], l)
  BY <1>7, <1>9, <1>11 DEF Choice
<1> QED BY <1>1, <1>2, <1>10, <1>12

(* A denomination above the rest has no note. *)
LEMMA NoneTooLarge ==
    ASSUME NEW r \in Nat, NEW l \in Levels, r < LADDER[l], NEW c, Choice(c, r, l)
    PROVE  Choice(c, r, l - 1)
<1>1. /\ Levels = 1 .. Len(LADDER) /\ Len(LADDER) \in Nat
      /\ c \in Counts /\ Worth(c) = r /\ c[l] * LADDER[l] <= r
      /\ c[l] \in Nat /\ LADDER[l] \in Nat \ {0}
  BY CountsTyped, SmallestPositive DEF Choice, Counts
<1>2. c[l] = 0
  <2> SUFFICES ASSUME c[l] # 0 PROVE FALSE
    OBVIOUS
  <2>1. c[l] - 1 \in Nat
    BY <1>1
  <2>2. (c[l] - 1) * LADDER[l] \in Nat
    BY <1>1, <2>1
  <2>3. (c[l] - 1) * LADDER[l] = c[l] * LADDER[l] - LADDER[l]
    BY <1>1
  <2>4. c[l] * LADDER[l] \in Nat
    BY <1>1
  <2>5. c[l] * LADDER[l] >= LADDER[l]
    BY <1>1, <2>2, <2>3, <2>4
  <2> QED BY <1>1, <2>4, <2>5
<1>3. \A i \in Levels : i > l - 1 => c[i] = 0
  BY <1>1, <1>2 DEF Choice
<1> QED BY <1>1, <1>3 DEF Choice

(* What the split has taken and the best choice for the rest are no more    *)
(* notes than any choice for the whole deposit.                             *)
FewInv ==
    \A c \in Counts : Worth(c) = Mintable(amount) =>
        \E d : Choice(d, rest, level) /\ Len(out) + Number(d) <= Number(c)

(* FewInv is inductive, with LadderInv.                                     *)
LEMMA FewInit == SplitInit => FewInv
<1> SUFFICES ASSUME SplitInit, NEW c \in Counts, Worth(c) = Mintable(amount)
             PROVE  \E d : Choice(d, rest, level) /\ Len(out) + Number(d) <= Number(c)
  BY DEF FewInv
<1>1. Levels = 1 .. Len(LADDER) /\ Len(LADDER) \in Nat /\ Number(c) \in Nat
  BY CountsTyped
<1>2. Len(out) = 0 /\ rest = Mintable(amount) /\ level = Len(LADDER)
  BY DEF SplitInit
<1>3. Choice(c, rest, level)
  BY <1>1, <1>2 DEF Choice
<1> QED BY <1>1, <1>2, <1>3

LEMMA FewStep ==
    ASSUME EachDividesTheNext, LadderInv, LadderInv', FewInv, [SplitNext]_splitVars
    PROVE  FewInv'
<1>0. /\ rest \in Nat /\ level \in 0 .. Len(LADDER) /\ Len(out) \in Nat
      /\ out \in Seq({LADDER[i] : i \in Levels})
  BY DEF LadderInv, SplitTypeOK
<1>1. CASE UNCHANGED <<amount, rest, level, out>>
  BY <1>1 DEF FewInv
<1>2. CASE NextLevel
  <2>1. /\ level \in Levels /\ rest < LADDER[level] /\ level' = level - 1
        /\ UNCHANGED <<amount, rest, out>>
    BY <1>0, <1>2, SmallestPositive DEF NextLevel, ladder, Levels
  <2> SUFFICES ASSUME NEW c \in Counts, Worth(c) = Mintable(amount)
               PROVE  \E d : Choice(d, rest, level - 1) /\ Len(out) + Number(d) <= Number(c)
    BY <2>1 DEF FewInv
  <2>2. PICK d : Choice(d, rest, level) /\ Len(out) + Number(d) <= Number(c)
    BY DEF FewInv
  <2>3. Choice(d, rest, level - 1)
    BY <1>0, <2>1, <2>2, NoneTooLarge
  <2> QED BY <2>2, <2>3
<1>3. CASE TakeNote
  <2>1. /\ level \in Levels /\ rest >= LADDER[level] /\ level' = level /\ amount' = amount
        /\ rest' = rest - LADDER[level] /\ out' = Append(out, LADDER[level])
    BY <1>0, <1>3, SmallestPositive DEF TakeNote, ladder, Levels
  <2>2. Len(out') = Len(out) + 1
    BY <1>0, <2>1
  <2> SUFFICES ASSUME NEW c \in Counts, Worth(c) = Mintable(amount)
               PROVE  \E e : /\ Choice(e, rest - LADDER[level], level)
                             /\ Len(out) + 1 + Number(e) <= Number(c)
    BY <2>1, <2>2 DEF FewInv
  <2>3. PICK d : Choice(d, rest, level) /\ Len(out) + Number(d) <= Number(c)
    BY DEF FewInv
  <2>4. PICK e : Choice(e, rest - LADDER[level], level) /\ Number(e) + 1 <= Number(d)
    BY <1>0, <2>1, <2>3, TakeOne
  <2>5. Number(c) \in Nat /\ Number(d) \in Nat /\ Number(e) \in Nat
    BY <2>3, <2>4, CountsTyped DEF Choice
  <2> QED BY <1>0, <2>3, <2>4, <2>5
<1>4. CASE NoValue \/ MintsNothing \/ NoPoints \/ TooFewPoints \/ SplitEnds
  BY <1>1, <1>4 DEF NoValue, MintsNothing, NoPoints, TooFewPoints, SplitEnds, Conclude
<1>5. CASE UNCHANGED splitVars
  BY <1>1, <1>5 DEF splitVars
<1> QED BY <1>2, <1>3, <1>4, <1>5 DEF SplitNext

(* The mint covers a deposit with the fewest notes there are, wherever each *)
(* denomination divides the next one: the largest note first is then the    *)
(* best choice, and the deposit needs the fewest points.                    *)
THEOREM FewestAlways ==
    ASSUME EachDividesTheNext
    PROVE  SplitSpec => []FewestNotes
<1>1. LadderInv /\ LadderInv' /\ FewInv /\ [SplitNext]_splitVars => FewInv'
  BY FewStep
<1>2. LadderInv /\ FewInv => FewestNotes
  <2> SUFFICES ASSUME LadderInv, FewInv, verdict = "ok",
                      NEW c \in [Levels -> 0 .. Len(out)], Worth(c) = Mintable(amount)
               PROVE  Len(out) <= Number(c)
    BY DEF FewestNotes, Worth, Values, Number
  <2>1. Len(out) \in Nat
    BY DEF LadderInv, SplitTypeOK
  <2>2. c \in Counts
    BY <2>1 DEF Counts
  <2>3. PICK d : Choice(d, rest, level) /\ Len(out) + Number(d) <= Number(c)
    BY <2>2 DEF FewInv
  <2>4. Number(d) \in Nat /\ Number(c) \in Nat
    BY <2>2, <2>3, CountsTyped DEF Choice
  <2> QED BY <2>1, <2>3, <2>4
<1> QED BY <1>1, <1>2, FewInit, LadderAlways, PTL DEF SplitSpec

-----------------------------------------------------------------------------
(* The workflow. *)

(* A sweep lists what it passed, below the counter it read, in order.  The  *)
(* head it reads after the last row is ahead of every event it lists.       *)
RunInv(run) ==
    /\ run.row <= run.next /\ run.next <= nextId
    /\ \A i \in DOMAIN run.waiting : run.waiting[i] < run.row
    /\ \A i, j \in DOMAIN run.waiting : i < j => run.waiting[i] < run.waiting[j]
    /\ run.at = "rows" =>
          \A id \in 1 .. run.row - 1 :
              status[id] = "Pending" => InList(id, run.waiting)
    /\ run.at = "answer" =>
          /\ run.waiting # <<>>
          /\ run.from = StartOfRange(run.to)
          /\ \A i \in DOMAIN run.waiting : born[run.waiting[i]] <= run.to

(* A row past the counter is empty, so a deposit starts from no status and  *)
(* no announcement.                                                         *)
LedgerInv ==
    /\ \A id \in Ids : id >= nextId => status[id] = "None"
    /\ \A id \in Ids : born[id] <= head
    /\ NothingDoubleMints

WorkflowInv == TypeOK /\ LedgerInv /\ \A s \in Sweeps : RunInv(sweep[s])

-----------------------------------------------------------------------------
LEMMA IdleType == Idle \in Run
<1>1. 1 \in 1 .. MaxDeposits + 1 /\ 0 \in 0 .. MaxHead
  BY WorkflowAssumption
<1>2. <<>> \in Seq(Ids)
  OBVIOUS
<1> QED BY <1>1, <1>2 DEF Idle, Run

LEMMA IdleInv ==
    ASSUME TypeOK
    PROVE  RunInv(Idle)
BY WorkflowAssumption DEF RunInv, Idle, TypeOK

(* The steps of the chain and the DON leave the sweeps alone.               *)
LEMMA ChainStep ==
    ASSUME WorkflowInv,
           \/ Deposit \/ Block
           \/ \E id \in Ids : RefundByDepositor(id) \/ Deliver(id) \/ LoseReport(id)
                              \/ MissTrigger(id)
    PROVE  WorkflowInv'
<1> USE DEF WorkflowInv
<1>0. /\ head \in Nat /\ nextId \in Nat /\ MaxDeposits \in Nat
      /\ \A s \in Sweeps : /\ sweep[s] \in Run
                           /\ \A i \in DOMAIN sweep[s].waiting :
                                 sweep[s].waiting[i] \in Ids
  BY WorkflowAssumption DEF TypeOK, Run
<1>1. CASE Deposit
  <2>1. /\ nextId \in Ids /\ nextId' = nextId + 1
        /\ status' = [status EXCEPT ![nextId] = "Pending"]
        /\ born' = [born EXCEPT ![nextId] = head]
        /\ triggers' = triggers \cup {nextId}
        /\ UNCHANGED <<head, announced, reports, mint>>
    BY <1>1 DEF Deposit
  <2>2. TypeOK'
    BY <2>1, WorkflowAssumption DEF TypeOK, mint, Ids
  <2>3. LedgerInv'
    <3>1. ASSUME NEW id \in Ids
          PROVE  /\ id >= nextId' => status'[id] = "None"
                 /\ born'[id] <= head'
                 /\ announced'[id] = IF status'[id] = "Announced" THEN 1 ELSE 0
      <4>1. CASE id = nextId
        BY <1>0, <2>1, <4>1 DEF LedgerInv, NothingDoubleMints, TypeOK
      <4>2. CASE id # nextId
        BY <1>0, <2>1, <4>2 DEF LedgerInv, NothingDoubleMints, TypeOK, Ids
      <4> QED BY <4>1, <4>2
    <3> QED BY <3>1 DEF LedgerInv, NothingDoubleMints
  <2>4. ASSUME NEW s \in Sweeps PROVE RunInv(sweep[s])'
    <3>1. sweep'[s] = sweep[s]
      BY <2>1 DEF mint
    <3>2. \A id \in Ids : id < nextId =>
              status'[id] = status[id] /\ born'[id] = born[id]
      BY <1>0, <2>1 DEF TypeOK, Ids
    <3>3. sweep[s].row \in Nat /\ sweep[s].next \in Nat
      BY <1>0 DEF Run, Ids
    <3> QED BY <1>0, <2>1, <3>1, <3>2, <3>3 DEF RunInv, Ids, InList
  <2> QED BY <2>2, <2>3, <2>4
<1>2. CASE Block
  <2>1. TypeOK' /\ LedgerInv'
    <3>1. TypeOK'
      BY <1>2, WorkflowAssumption DEF Block, TypeOK, mint
    <3>2. \A id \in Ids : born[id] \in Nat /\ born[id] <= head + 1
      BY <1>0 DEF LedgerInv, TypeOK
    <3>3. LedgerInv'
      BY <1>2, <3>2 DEF Block, LedgerInv, NothingDoubleMints
    <3> QED BY <3>1, <3>3
  <2>2. \A s \in Sweeps : RunInv(sweep[s])'
    BY <1>2 DEF Block, mint, RunInv
  <2> QED BY <2>1, <2>2
<1>3. ASSUME UNCHANGED <<head, nextId, born, mint>>, TypeOK',
             NEW id \in Ids, status[id] = "Pending",
             NEW to \in {"Announced", "Refunded"},
             status' = [status EXCEPT ![id] = to],
             announced' = [announced EXCEPT ![id] =
                               IF to = "Announced" THEN @ + 1 ELSE @]
      PROVE  WorkflowInv'
  <2>1. \A i \in Ids : status'[i] = IF i = id THEN to ELSE status[i]
    BY <1>3 DEF TypeOK
  <2>2. LedgerInv'
    BY <1>3, <2>1 DEF LedgerInv, NothingDoubleMints, TypeOK
  <2>3. ASSUME NEW s \in Sweeps PROVE RunInv(sweep[s])'
    <3>1. sweep'[s] = sweep[s] /\ nextId' = nextId /\ born' = born
      BY <1>3 DEF mint
    <3>2. \A i \in 1 .. sweep[s].row - 1 : status'[i] = "Pending" =>
              status[i] = "Pending"
      BY <1>0, <1>3 DEF TypeOK
    <3> QED BY <3>1, <3>2 DEF RunInv, InList
  <2> QED BY <1>3, <2>2, <2>3
<1>4. ASSUME NEW id \in Ids, RefundByDepositor(id) PROVE WorkflowInv'
  <2>1. TypeOK'
    BY <1>4 DEF RefundByDepositor, TypeOK, mint
  <2>2. announced' = [announced EXCEPT ![id] = @]
    BY <1>4 DEF RefundByDepositor, TypeOK
  <2> QED BY <1>3, <1>4, <2>1, <2>2 DEF RefundByDepositor
<1>5. ASSUME UNCHANGED <<chain, mint>>, TypeOK' PROVE WorkflowInv'
  BY <1>5 DEF chain, mint, LedgerInv, NothingDoubleMints, RunInv
<1>6. ASSUME NEW id \in Ids, Deliver(id) PROVE WorkflowInv'
  <2>1. /\ reports' \in [Ids -> 0 .. MaxReports]
        /\ UNCHANGED <<head, nextId, born, triggers, mint>>
    BY <1>6, WorkflowAssumption DEF Deliver, TypeOK
  <2>2. CASE Awaits(id)
    <3>1. /\ status' = [status EXCEPT ![id] = "Announced"]
          /\ announced' = [announced EXCEPT ![id] = @ + 1]
          /\ status[id] = "Pending"
      BY <1>6, <2>2 DEF Deliver, Awaits
    <3>2. TypeOK'
      BY <2>1, <3>1 DEF TypeOK, mint
    <3> QED BY <1>3, <2>1, <3>1, <3>2
  <2>3. CASE ~ Awaits(id)
    <3>1. UNCHANGED <<chain, mint>>
      BY <1>6, <2>1, <2>3 DEF Deliver, chain
    <3>2. TypeOK'
      BY <2>1, <3>1 DEF TypeOK, chain, mint
    <3> QED BY <1>5, <3>1, <3>2
  <2> QED BY <2>2, <2>3
<1>7. ASSUME NEW id \in Ids, LoseReport(id) \/ MissTrigger(id) PROVE WorkflowInv'
  <2>1. TypeOK'
    BY <1>7, WorkflowAssumption DEF LoseReport, MissTrigger, TypeOK, chain, mint
  <2> QED BY <1>5, <1>7, <2>1 DEF LoseReport, MissTrigger
<1> QED BY <1>1, <1>2, <1>4, <1>6, <1>7

-----------------------------------------------------------------------------
(* A run of the sweep goes on, and nothing but the reports changes with it. *)
LEMMA BecomeStep ==
    ASSUME WorkflowInv, NEW s \in Sweeps, NEW run \in Run, RunInv(run),
           Become(s, run), reports' \in [Ids -> 0 .. MaxReports]
    PROVE  WorkflowInv'
<1>1. TypeOK'
  BY DEF Become, WorkflowInv, TypeOK, chain
<1>2. LedgerInv'
  BY DEF Become, WorkflowInv, LedgerInv, NothingDoubleMints, chain
<1>3. ASSUME NEW t \in Sweeps PROVE RunInv(sweep[t])'
  <2>1. sweep'[t] = IF t = s THEN run ELSE sweep[t]
    BY DEF Become, WorkflowInv, TypeOK
  <2>2. RunInv(sweep'[t])
    BY <2>1 DEF WorkflowInv
  <2>3. UNCHANGED <<status, born, nextId>>
    BY DEF Become, chain
  <2> QED BY <2>2, <2>3 DEF RunInv
<1> QED BY <1>1, <1>2, <1>3 DEF WorkflowInv

LEMMA AfterThisInv ==
    ASSUME WorkflowInv, NEW run \in Run, RunInv(run), run.at = "answer",
           run.waiting # <<>>
    PROVE  AfterThis(run) \in Run /\ RunInv(AfterThis(run))
<1>1. CASE Len(run.waiting) = 1
  BY <1>1, IdleType, IdleInv DEF AfterThis, WorkflowInv
<1>2. CASE Len(run.waiting) # 1
  <2> DEFINE behind == Tail(run.waiting)
  <2>1. run.waiting \in Seq(Ids)
    BY DEF Run
  <2>2. behind \in Seq(Ids) /\ Len(behind) = Len(run.waiting) - 1
        /\ Len(run.waiting) \in Nat
    BY <2>1
  <2>3. \A i \in DOMAIN behind : /\ i + 1 \in DOMAIN run.waiting
                                  /\ behind[i] = run.waiting[i + 1]
    BY <2>1, <2>2
  <2>4. /\ AfterThis(run).waiting = behind
        /\ AfterThis(run).at = "answer" /\ AfterThis(run).row = run.row
        /\ AfterThis(run).next = run.next /\ AfterThis(run).from = run.from
        /\ AfterThis(run).to = run.to
        /\ AfterThis(run) \in Run
    BY <1>2, <2>2 DEF AfterThis, Run
  <2>5. DOMAIN behind \subseteq Int
    BY <2>2
  <2>6. \A i, j \in DOMAIN behind : i < j => behind[i] < behind[j]
    <3> SUFFICES ASSUME NEW i \in DOMAIN behind, NEW j \in DOMAIN behind, i < j
                 PROVE  behind[i] < behind[j]
      OBVIOUS
    <3>1. i + 1 \in DOMAIN run.waiting /\ j + 1 \in DOMAIN run.waiting
          /\ i + 1 < j + 1
      BY <2>3, <2>5
    <3>2. run.waiting[i + 1] < run.waiting[j + 1]
      BY <3>1 DEF RunInv
    <3> QED BY <2>3, <3>2
  <2>7. \A i \in DOMAIN behind : behind[i] < run.row /\ born[behind[i]] <= run.to
    BY <2>3 DEF RunInv
  <2>8. behind # <<>>
    <3>1. Len(run.waiting) # 0
      BY <2>1, EmptySeq
    <3>2. Len(behind) # 0
      BY <1>2, <2>2, <3>1
    <3> QED BY <3>2, <2>2, EmptySeq
  <2> HIDE DEF behind
  <2> QED BY <2>8, <2>4, <2>6, <2>7 DEF RunInv
<1> QED BY <1>1, <1>2

(* A row that waits joins the list, behind the rows before it. *)
LEMMA ReadRowStep ==
    ASSUME WorkflowInv, NEW s \in Sweeps, ReadRow(s)
    PROVE  WorkflowInv'
<1> DEFINE run == sweep[s]
           id == run.row
           list == IF Waiting(id) THEN Append(run.waiting, id) ELSE run.waiting
           new == [run EXCEPT !.row = @ + 1, !.waiting = list]
<1>1. /\ run.at = "rows" /\ id < run.next
      /\ Become(s, new) /\ UNCHANGED reports
  BY DEF ReadRow
<1>2. /\ run \in Run /\ id \in Nat /\ run.next \in 1 .. MaxDeposits + 1
      /\ run.waiting \in Seq(Ids) /\ nextId \in Int /\ MaxDeposits \in Nat
      /\ run.row \in 1 .. MaxDeposits + 1 /\ RunInv(run)
  BY WorkflowAssumption DEF WorkflowInv, TypeOK, Run
<1>3. id \in Ids
  BY <1>1, <1>2 DEF Ids
<1>4. list \in Seq(Ids)
  BY <1>2, <1>3
<1>5. new \in Run /\ new.row = id + 1 /\ new.waiting = list
      /\ new.next = run.next /\ new.at = "rows"
  <2>1. id + 1 \in 1 .. MaxDeposits + 1
    BY <1>1, <1>2
  <2> HIDE DEF list
  <2>2. new.row = id + 1 /\ new.waiting = list
    BY <1>2 DEF Run
  <2>3. new.at = "rows" /\ new.next = run.next
    BY <1>1, <1>2 DEF Run
  <2>4. new \in Run
    BY <1>2, <1>4, <2>1 DEF Run
  <2> QED BY <2>2, <2>3, <2>4
<1>6. \A i \in DOMAIN run.waiting : /\ i \in DOMAIN list
                                     /\ list[i] = run.waiting[i]
                                     /\ list[i] < id
  BY <1>2 DEF RunInv
<1>7. \A i \in DOMAIN list :
          \/ i \in DOMAIN run.waiting
          \/ /\ i = Len(run.waiting) + 1 /\ list[i] = id
             /\ \A j \in DOMAIN run.waiting : j < i
  BY <1>2
<1>8. \A i, j \in DOMAIN list : i < j => list[i] < list[j]
  <2> SUFFICES ASSUME NEW i \in DOMAIN list, NEW j \in DOMAIN list, i < j
               PROVE  list[i] < list[j]
    OBVIOUS
  <2>1. i \in Int /\ j \in Int
    BY <1>4
  <2>2. i \in DOMAIN run.waiting
    BY <1>2, <1>7, <2>1
  <2>3. CASE j \in DOMAIN run.waiting
    BY <1>2, <1>6, <2>2, <2>3 DEF RunInv
  <2>4. CASE j \notin DOMAIN run.waiting
    BY <1>6, <1>7, <2>2, <2>4
  <2> QED BY <2>3, <2>4
<1>9. \A i \in DOMAIN list : list[i] < id + 1
  BY <1>2, <1>3, <1>4, <1>6, <1>7 DEF Ids
<1>10. ASSUME NEW k \in 1 .. id, status[k] = "Pending"
       PROVE  InList(k, list)
  <2>1. CASE k = id
    <3>1. list = Append(run.waiting, id)
      BY <1>10, <2>1 DEF Waiting
    <3>2. Len(run.waiting) + 1 \in DOMAIN list
          /\ list[Len(run.waiting) + 1] = id
      BY <1>2, <3>1
    <3> QED BY <2>1, <3>2 DEF InList
  <2>2. CASE k # id
    <3>1. k \in 1 .. run.row - 1
      BY <1>2, <2>2
    <3>2. InList(k, run.waiting)
      BY <1>1, <1>2, <1>10, <3>1 DEF RunInv
    <3> QED BY <1>6, <3>2 DEF InList
  <2> QED BY <2>1, <2>2
<1> HIDE DEF list, new
<1>11. RunInv(new)
  <2>1. new.row - 1 = id /\ new.row <= new.next
    BY <1>1, <1>2, <1>5
  <2> QED BY <1>2, <1>5, <1>8, <1>9, <1>10, <2>1 DEF RunInv
<1>12. reports' \in [Ids -> 0 .. MaxReports]
  BY <1>1 DEF WorkflowInv, TypeOK
<1> QED BY <1>1, <1>5, <1>11, <1>12, BecomeStep

LEMMA SweepStep ==
    ASSUME WorkflowInv, NEW s \in Sweeps,
           \/ SweepStart(s) \/ ReadRow(s) \/ NothingWaits(s) \/ ReadHead(s)
           \/ SweepFails(s)
           \/ \E id \in Ids : SweepAnswers(s, id) \/ SweepSkips(s, id)
    PROVE  WorkflowInv'
<1>0. /\ sweep[s] \in Run /\ RunInv(sweep[s]) /\ TypeOK /\ LedgerInv
      /\ reports \in [Ids -> 0 .. MaxReports]
      /\ nextId \in 1 .. MaxDeposits + 1 /\ MaxDeposits \in Nat
  BY WorkflowAssumption DEF WorkflowInv, TypeOK
<1>1. ASSUME Become(s, Idle), UNCHANGED reports PROVE WorkflowInv'
  BY <1>0, <1>1, IdleType, IdleInv, BecomeStep
<1>2. CASE SweepStart(s)
  <2> DEFINE new == [Idle EXCEPT !.at = "rows", !.next = NextIdRead]
  <2>1. Become(s, new) /\ UNCHANGED reports
    BY <1>2 DEF SweepStart
  <2>2. new \in Run
    BY <1>0, IdleType DEF Run, NextIdRead
  <2>3. /\ Idle.row = 1 /\ Idle.waiting = <<>>
        /\ new.at = "rows" /\ new.next = nextId
        /\ new.row = Idle.row /\ new.waiting = Idle.waiting
    BY IdleType DEF Idle, NextIdRead
  <2>4. RunInv(new)
    BY <1>0, <2>3 DEF RunInv
  <2> HIDE DEF new
  <2> QED BY <1>0, <2>1, <2>2, <2>4, BecomeStep
<1>3. CASE NothingWaits(s) \/ SweepFails(s)
  BY <1>1, <1>3 DEF NothingWaits, SweepFails
<1>4. CASE ReadHead(s)
  <2> DEFINE run == sweep[s]
             new == [run EXCEPT !.at = "answer", !.to = SearchEnd,
                                !.from = StartOfRange(SearchEnd)]
  <2>1. /\ Become(s, new) /\ UNCHANGED reports
        /\ run.at = "rows" /\ run.waiting # <<>>
    BY <1>4 DEF ReadHead
  <2>2. /\ head \in 0 .. MaxHead /\ CatchUpBlocks \in Nat /\ MaxHead \in Nat
        /\ StartOfRange(head) \in 0 .. MaxHead
    BY <1>0, WorkflowAssumption DEF TypeOK, StartOfRange
  <2> HIDE DEF run
  <2>3. run \in Run /\ RunInv(run)
    BY <1>0 DEF run
  <2>4. new \in Run
    BY <2>2, <2>3 DEF Run, SearchEnd
  <2>5. /\ new.to = head /\ new.from = StartOfRange(head)
        /\ new.at = "answer" /\ new.row = run.row
        /\ new.next = run.next /\ new.waiting = run.waiting
    BY <2>3 DEF Run, SearchEnd
  <2>6. \A i \in DOMAIN run.waiting : born[run.waiting[i]] <= head
    BY <1>0, <2>3 DEF LedgerInv, Run
  <2> HIDE DEF new
  <2>7. RunInv(new)
    BY <2>1, <2>3, <2>5, <2>6 DEF RunInv
  <2> QED BY <1>0, <2>1, <2>4, <2>7, BecomeStep
<1>5. ASSUME NEW id \in Ids, SweepAnswers(s, id) \/ SweepSkips(s, id)
      PROVE  WorkflowInv'
  <2>1. /\ sweep[s].at = "answer"
        /\ Become(s, AfterThis(sweep[s]))
    BY <1>5 DEF SweepAnswers, SweepSkips, SweepContinues
  <2>2. reports' \in [Ids -> 0 .. MaxReports]
    BY <1>0, <1>5, WorkflowAssumption
       DEF SweepAnswers, SweepSkips, SignAndAnnounce
  <2>3. sweep[s].waiting # <<>>
    BY <1>0, <2>1 DEF RunInv
  <2> QED BY <1>0, <2>1, <2>2, <2>3, AfterThisInv, BecomeStep
<1> QED BY <1>0, <1>2, <1>3, <1>4, <1>5, ReadRowStep

(* The mint itself: a log it takes, a stop and a start. *)
LEMMA MintStep ==
    ASSUME WorkflowInv,
           Crash \/ Restart \/ \E id \in Ids : OnDeposit(id)
    PROVE  WorkflowInv'
<1>1. ASSUME UNCHANGED chain, TypeOK', \A s \in Sweeps : RunInv(sweep'[s])
      PROVE  WorkflowInv'
  BY <1>1 DEF WorkflowInv, LedgerInv, NothingDoubleMints, RunInv, chain
<1>2. ASSUME NEW id \in Ids, OnDeposit(id) PROVE WorkflowInv'
  <2>1. TypeOK'
    BY <1>2, WorkflowAssumption
       DEF OnDeposit, SignAndAnnounce, WorkflowInv, TypeOK, chain
  <2> QED BY <1>1, <1>2, <2>1 DEF OnDeposit, WorkflowInv
<1>3. CASE Crash
  <2>1. TypeOK'
    <3>1. sweep' \in [Sweeps -> Run]
      BY <1>3, IdleType DEF Crash
    <3>2. /\ crashes \in 0 .. MaxCrashes /\ MaxCrashes \in Nat
          /\ crashes < MaxCrashes /\ crashes' = crashes + 1 /\ up' = FALSE
      BY <1>3, WorkflowAssumption DEF Crash, WorkflowInv, TypeOK
    <3>4. up' \in BOOLEAN
      BY <1>3 DEF Crash
    <3>3. crashes' \in 0 .. MaxCrashes /\ up' \in BOOLEAN
      BY <3>2, <3>4
    <3> QED BY <1>3, <3>1, <3>3 DEF Crash, WorkflowInv, TypeOK, chain
  <2>2. \A s \in Sweeps : RunInv(sweep'[s])
    BY <1>3, IdleInv DEF Crash, WorkflowInv
  <2> QED BY <1>1, <1>3, <2>1, <2>2 DEF Crash
<1>4. CASE Restart
  <2>1. TypeOK'
    BY <1>4 DEF Restart, WorkflowInv, TypeOK, chain
  <2> QED BY <1>1, <1>4, <2>1 DEF Restart, WorkflowInv
<1> QED BY <1>2, <1>3, <1>4

-----------------------------------------------------------------------------
(* The invariant holds in every reachable state, whatever is lost, repeated *)
(* or restarted.                                                            *)
THEOREM Invariance == Spec => []WorkflowInv
<1>1. Init => WorkflowInv
  <2> SUFFICES ASSUME Init PROVE WorkflowInv
    OBVIOUS
  <2>1. TypeOK
    BY IdleType, WorkflowAssumption DEF Init, TypeOK
  <2>2. LedgerInv
    BY DEF Init, LedgerInv, NothingDoubleMints
  <2>3. \A s \in Sweeps : RunInv(sweep[s])
    BY <2>1, IdleInv DEF Init
  <2> QED BY <2>1, <2>2, <2>3 DEF WorkflowInv
<1>2. WorkflowInv /\ [Next]_vars => WorkflowInv'
  <2> SUFFICES ASSUME WorkflowInv, [Next]_vars PROVE WorkflowInv'
    OBVIOUS
  <2>1. CASE UNCHANGED vars
    BY <2>1 DEF vars, chain, mint, WorkflowInv, TypeOK, LedgerInv,
                NothingDoubleMints, RunInv
  <2>2. CASE Deposit \/ Block
    BY <2>2, ChainStep
  <2>3. CASE Crash \/ Restart
    BY <2>3, MintStep
  <2>4. ASSUME NEW id \in Ids,
               \/ RefundByDepositor(id) \/ Deliver(id) \/ LoseReport(id)
               \/ OnDeposit(id) \/ MissTrigger(id)
        PROVE  WorkflowInv'
    BY <2>4, ChainStep, MintStep
  <2>5. ASSUME NEW s \in Sweeps,
               \/ SweepStart(s) \/ ReadRow(s) \/ NothingWaits(s) \/ ReadHead(s)
               \/ SweepFails(s)
               \/ \E id \in Ids : SweepAnswers(s, id) \/ SweepSkips(s, id)
        PROVE  WorkflowInv'
    BY <2>5, SweepStep
  <2> QED BY <2>1, <2>2, <2>3, <2>4, <2>5 DEF Next
<1> QED BY <1>1, <1>2, PTL DEF Spec

(* The state of the mint and of the chain is what the module says it is.    *)
THEOREM TypeCorrect == Spec => []TypeOK
<1>1. WorkflowInv => TypeOK
  BY DEF WorkflowInv
<1> QED BY <1>1, Invariance, PTL

(* waitingDeposits lists every deposit it passed that still waits, however  *)
(* the chain moves between two rows.                                        *)
THEOREM RowsKnown == Spec => []RowsReadAreKnown
<1>1. WorkflowInv => RowsReadAreKnown
  BY DEF WorkflowInv, RunInv, RowsReadAreKnown
<1> QED BY <1>1, Invariance, PTL

(* The search of a sweep covers every deposit it has to answer that is not  *)
(* older than catchUpBlocks, because the head is read after the rows.       *)
THEOREM SearchCovers == Spec => []SearchCoversWaiting
<1>1. WorkflowInv => SearchCoversWaiting
  <2> SUFFICES ASSUME WorkflowInv, NEW s \in Sweeps, sweep[s].at = "answer",
                      NEW id \in Ids, InList(id, sweep[s].waiting)
               PROVE  /\ born[id] <= sweep[s].to
                      /\ sweep[s].to - born[id] <= CatchUpBlocks
                             => InRange(sweep[s], id)
    BY DEF SearchCoversWaiting
  <2>1. /\ born[id] <= sweep[s].to
        /\ sweep[s].from = StartOfRange(sweep[s].to)
    BY DEF WorkflowInv, RunInv, InList
  <2>2. born[id] \in Nat /\ sweep[s].to \in Nat /\ CatchUpBlocks \in Nat
    BY WorkflowAssumption DEF WorkflowInv, TypeOK, Run
  <2> QED BY <2>1, <2>2 DEF InRange, StartOfRange
<1> QED BY <1>1, Invariance, PTL

(* However many triggers, sweeps and reports carry a deposit, it is         *)
(* announced once and never beside a refund.                                *)
THEOREM MintsOnce == Spec => []NothingDoubleMints
<1>1. WorkflowInv => NothingDoubleMints
  BY DEF WorkflowInv, LedgerInv
<1> QED BY <1>1, Invariance, PTL


=============================================================================
