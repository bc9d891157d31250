-------------------------------- MODULE MCCli --------------------------------
(* A deposit of ours, of two notes or of dust, and one of somebody else.    *)
EXTENDS Cli

MCLadder == <<2, 4>>

=============================================================================
