----------------------------- MODULE IdealMint -----------------------------
(***************************************************************************)
(* What contracts/src/BlindMint.sol promises, without calls, reverts or    *)
(* running totals.  One step is one complete transaction, which may open   *)
(* and settle any number of deposits and pay any number of notes.          *)
(*                                                                         *)
(* A deposit is pending, then minted or returned, and stays so.  A wallet  *)
(* is paid one note, once.  The notes that are paid never exceed the notes *)
(* that the minted deposits bought, and the till holds the rest.           *)
(***************************************************************************)
EXTENDS Integers, Sums

CONSTANTS
    Wallets, Denoms,
    NumIds,         \* deposits are numbered from 1
    mintable(_)     \* what a deposit of a value buys

VARIABLES
    status,         \* [1 .. NumIds -> lifecycle]
    amount,         \* [1 .. NumIds -> Nat]
    paid,           \* [Wallets -> Denoms, or 0 before the note is paid]
    till            \* the money held

vars == <<status, amount, paid, till>>

IdealIds == 1 .. NumIds

May ==
    [None |-> {"None", "Pending", "Announced", "Refunded"},
     Pending |-> {"Pending", "Announced", "Refunded"},
     Announced |-> {"Announced"}, Refunded |-> {"Refunded"}]

Pending == Total([id \in IdealIds |->
                     IF status[id] = "Pending" THEN amount[id] ELSE 0], NumIds)
Bought == Total([id \in IdealIds |->
                    IF status[id] = "Announced" THEN mintable(amount[id]) ELSE 0],
                NumIds)
Paid == SumOver(paid, Wallets)

Books ==
    /\ Paid <= Bought
    /\ till = Pending + Bought - Paid

Init ==
    /\ status = [id \in IdealIds |-> "None"]
    /\ amount = [id \in IdealIds |-> 0]
    /\ paid = [w \in Wallets |-> 0]
    /\ till = 0

Transaction ==
    /\ \A id \in IdealIds :
          /\ status'[id] \in May[status[id]]
          /\ amount'[id] # amount[id] => status[id] = "None"
    /\ \A w \in Wallets :
          paid'[w] # paid[w] => paid[w] = 0 /\ paid'[w] \in Denoms
    /\ Books'

Spec == Init /\ [][Transaction]_vars

=============================================================================
