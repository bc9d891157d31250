---------------------------- MODULE MCSendScreen ----------------------------
(* Two tabs send over one store.  A fee of 2 lets a transfer plan for 4,    *)
(* so the price may rise to 3, or to half as much again.  A note of 50      *)
(* sends 40 alone, two of 36 do it together and leave a change worth a      *)
(* melt, and 89 is one more than any two notes deliver.                     *)
EXTENDS SendScreen, TLC

CONSTANTS a, b, n1, n2, p1, p2

Symmetry == Permutations(Screens)

=============================================================================
