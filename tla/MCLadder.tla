------------------------------ MODULE MCLadder ------------------------------
(* A ladder of three rungs in the ratio of small integers, and every deposit *)
(* up to several of its largest notes, remainders below the rung included.   *)
EXTENDS Ladder

MCLadder == <<2, 6, 18>>
MCAmounts == 0 .. 60
MCPoints == 0 .. 9

=============================================================================
