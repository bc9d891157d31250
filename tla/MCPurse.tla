------------------------------- MODULE MCPurse -------------------------------
(* A deposit of the user beside the melts of one change wallet in two tabs, *)
(* one of them when the change is too small for a note.                     *)
EXTENDS Purse, TLC

CONSTANTS d1, m1, m2, w1, w2, e1, e2

MCPointsOf == [k \in Tasks |-> IF k = m2 THEN 0 ELSE 1]
Symmetry == Permutations(Wallets) \cup Permutations(Erasers)

=============================================================================
