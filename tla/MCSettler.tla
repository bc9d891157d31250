------------------------------ MODULE MCSettler ------------------------------
(* The settler of one deposit, in one tab or two, beside a chain of two or  *)
(* three blocks.  The code searches 7,200 blocks; here the window is shorter *)
(* or longer than the chain.                                                *)
EXTENDS Settler

CONSTANTS t1, t2

=============================================================================
