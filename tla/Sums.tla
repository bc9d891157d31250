------------------------------- MODULE Sums -------------------------------
(***************************************************************************)
(* The recursive definitions that several modules use.  The recursion is   *)
(* in functions and not in operators, so that SumsProofs can reason about  *)
(* it.                                                                     *)
(***************************************************************************)
EXTENDS Integers, Sequences, FiniteSetsExt

(* The sum of a function on 1 .. n, by its prefix sums. *)
SumTo(f, n) ==
    LET sum[i \in 0 .. n] == IF i = 0 THEN 0 ELSE sum[i - 1] + f[i]
    IN  sum

Total(f, n) == SumTo(f, n)[n]

(* The sum of a function on a finite set. *)
SumOver(f, S) == MapThenSumSet(LAMBDA x : f[x], S)

(* The greedy split of r over the i smallest denominations of a ladder, the *)
(* largest first.                                                           *)
GreedySplits(ladder) ==
    LET split[p \in Nat \X (0 .. Len(ladder))] ==
            LET r == p[1]
                i == p[2]
            IN  IF i = 0 THEN <<>>
                ELSE IF r >= ladder[i] THEN <<ladder[i]>> \o split[<<r - ladder[i], i>>]
                ELSE split[<<r, i - 1>>]
    IN  split

=============================================================================
