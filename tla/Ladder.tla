------------------------------- MODULE Ladder -------------------------------
(***************************************************************************)
(* The split of the mint (Split in workflow/mint/mint.go), a note at a      *)
(* time, on any deposit and any number of points.  The client counts the   *)
(* blinded points of a deposit, the mint splits the deposit over them, and *)
(* the contract checks the sum: Denominations has what each computes.      *)
(***************************************************************************)
EXTENDS Denominations

CONSTANTS
    Amounts,    \* deposits to split
    Points      \* point counts to split them over

ASSUME SplitAssumption == Amounts \subseteq Nat /\ Points \subseteq Nat

VARIABLES
    amount,     \* the deposit
    maxPoints,  \* the blinded points it brought
    rest,       \* what the split has still to cover
    level,      \* the denomination it tries, 0 after the smallest
    out,        \* the notes chosen
    verdict     \* "split" | "ok" | "refused" | "inexpressible"

splitVars == <<amount, maxPoints, rest, level, out, verdict>>

Ascending(i) == LADDER[Len(LADDER) + 1 - i]
ladder(i) == LADDER[i]

SplitInit ==
    /\ amount \in Amounts /\ maxPoints \in Points
    /\ rest = Mintable(amount)
    /\ level = Len(LADDER) /\ out = <<>> /\ verdict = "split"

Conclude(v) ==
    /\ verdict' = v
    /\ UNCHANGED <<amount, maxPoints, rest, level, out>>

AtStart == level = Len(LADDER) /\ out = <<>>

NoValue ==
    /\ verdict = "split" /\ AtStart /\ amount = 0
    /\ Conclude("refused")

(* A deposit that mints nothing carries no point and needs none. *)
MintsNothing ==
    /\ verdict = "split" /\ AtStart /\ amount > 0 /\ rest = 0
    /\ Conclude("ok")

NoPoints ==
    /\ verdict = "split" /\ AtStart /\ rest > 0 /\ maxPoints = 0
    /\ Conclude("refused")

Splitting == verdict = "split" /\ ~ (AtStart /\ (rest = 0 \/ maxPoints = 0))

OneTooMany == Len(out) = maxPoints + 1
Full == Len(out) = maxPoints

TooFewPoints ==
    /\ Splitting /\ level > 0 /\ rest >= ladder(level) /\ Full
    /\ Conclude("refused")

TakeNote ==
    /\ Splitting /\ level > 0 /\ rest >= ladder(level) /\ ~ Full
    /\ out' = Append(out, ladder(level))
    /\ rest' = rest - ladder(level)
    /\ UNCHANGED <<amount, maxPoints, level, verdict>>

NextLevel ==
    /\ Splitting /\ level > 0 /\ rest < ladder(level)
    /\ level' = level - 1
    /\ UNCHANGED <<amount, maxPoints, rest, out, verdict>>

(* Below the smallest denomination nothing must be left. *)
SplitEnds ==
    /\ Splitting /\ level = 0
    /\ Conclude(IF rest = 0 THEN "ok" ELSE "inexpressible")

SplitNext ==
    \/ NoValue \/ MintsNothing \/ NoPoints \/ TooFewPoints
    \/ TakeNote \/ NextLevel \/ SplitEnds

SplitSpec == SplitInit /\ [][SplitNext]_splitVars

-----------------------------------------------------------------------------
Value(notes) == Total(notes, Len(notes))

SplitTypeOK ==
    /\ amount \in Amounts /\ maxPoints \in Points
    /\ rest \in Nat
    /\ level \in 0 .. Len(LADDER)
    /\ out \in Seq({LADDER[i] : i \in Levels})
    /\ verdict \in {"split", "ok", "refused", "inexpressible"}

(* The contract accepts every announcement the mint makes: the notes add up *)
(* to what the contract mints for the deposit, and no point is needed that  *)
(* the deposit did not bring.                                               *)
ContractAccepts ==
    verdict = "ok" => /\ Value(out) = contractMintable(amount)
                      /\ Len(out) <= maxPoints

(* The ladder expresses every deposit: the mint refuses for want of points  *)
(* and for nothing else.                                                    *)
NeverInexpressible == verdict # "inexpressible"

(* The client brings the points that the mint takes, all of them and no     *)
(* more: a point short refuses the deposit, a point over costs a wallet.    *)
ClientBringsThePoints ==
    amount > 0 /\ maxPoints = pointCount(amount) =>
        /\ verdict # "refused"
        /\ verdict = "ok" => Len(out) = maxPoints

(* No other choice of denominations covers the deposit with fewer notes.    *)
FewestNotes ==
    verdict = "ok" =>
        \A c \in [Levels -> 0 .. Len(out)] :
            LET value == [i \in Levels |-> c[i] * LADDER[i]]
            IN  Total(value, Len(LADDER)) = Mintable(amount)
                  => Len(out) <= Total(c, Len(LADDER))

=============================================================================
