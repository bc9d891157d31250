---------------------------- MODULE Denominations ----------------------------
(***************************************************************************)
(* The arithmetic of the denomination ladder, as three programs compute    *)
(* it: the contract (BlindMint.mintable), the mint (Mintable in            *)
(* workflow/mint) and the client (lib-blind/src/denominations.ts).         *)
(***************************************************************************)
EXTENDS Integers, Sequences, Sums

CONSTANT LADDER     \* the denominations, from small to large

Levels == 1 .. Len(LADDER)

(* The smallest denomination is the rung, and it divides the others.       *)
ASSUME LadderAssumption ==
    /\ LADDER \in Seq(Nat \ {0}) /\ LADDER # <<>>
    /\ \A i, j \in Levels : i < j => LADDER[i] < LADDER[j]
    /\ \A i \in Levels : \E k \in 1 .. LADDER[i] : LADDER[i] = k * LADDER[1]

MIN_DENOM == LADDER[1]

-----------------------------------------------------------------------------
(* The value that a deposit mints, as the contract computes it ... *)
contractMintable(a) ==
    IF a < MIN_DENOM THEN 0 ELSE (a \div MIN_DENOM - 1) * MIN_DENOM

(* ... as the client computes it ... *)
clientMintable(a) ==
    IF a < MIN_DENOM THEN 0 ELSE (a \div MIN_DENOM - 1) * MIN_DENOM

(* ... and as the mint computes it. *)
WholeRungs(a) == (a \div MIN_DENOM) * MIN_DENOM
MintableUnguarded(a) == (a \div MIN_DENOM - 1) * MIN_DENOM
MintableLessTax(a) == IF a < MIN_DENOM THEN 0 ELSE a - MIN_DENOM
Mintable(a) ==
    IF a < MIN_DENOM THEN 0 ELSE (a \div MIN_DENOM - 1) * MIN_DENOM

(* The greedy split, largest note first.  It is empty for an amount of zero. *)
splitGreedy == [r \in Nat |-> GreedySplits(LADDER)[<<r, Len(LADDER)>>]]

SLACK == 0

(* The points a client brings for a deposit of this value. *)
pointCountOfGross(a) == Len(splitGreedy[WholeRungs(a)]) + SLACK
pointCount(a) ==
    IF clientMintable(a) = 0 THEN 0
    ELSE Len(splitGreedy[clientMintable(a)]) + SLACK

(* The deposit that mints a net amount: the tax is extra. *)
grossOfNothing(net) == net
grossFor(net) == net + MIN_DENOM

=============================================================================
