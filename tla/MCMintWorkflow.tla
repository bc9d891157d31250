--------------------------- MODULE MCMintWorkflow ---------------------------
(* The mint beside a short chain.  The defaults of the code search 20,000   *)
(* blocks every five minutes; here a search covers one block.  Two runs of  *)
(* onSweep share no state and meet only through their reports, so one of    *)
(* them with two reports in flight stands for both.                         *)
EXTENDS MintWorkflow

CONSTANT s1

MCSweeps == {s1}

=============================================================================
