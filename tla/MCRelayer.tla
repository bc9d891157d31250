------------------------------ MODULE MCRelayer ------------------------------
(* A claim and its retry, from one caller, while a third party may claim a  *)
(* second note, so a claim of the relayer meets a bound that is reached and *)
(* a wallet that is already paid.  A burst is one request, so the retry     *)
(* comes in after a pause, also after one that makes the limiter forget.    *)
EXTENDS Relayer

CONSTANTS r1, r2, n1, n2, c1

MCNoteOf == [r \in Requests |-> n1]
MCDenom == [n \in Notes |-> 1]
MCCallerOf == [r \in Requests |-> c1]

=============================================================================
