-------------------------- MODULE MintRefinement --------------------------
(***************************************************************************)
(* The contract BlindMint as an implementation of IdealMint: the storage   *)
(* that the last complete transaction left, read as an ideal mint.         *)
(***************************************************************************)
EXTENDS BlindMint

(* The Claimed events that paid a wallet, of which there is one at most.    *)
ClaimsOf(log, wallet) ==
    {i \in DOMAIN log : log[i].event = "Claimed" /\ log[i].wallet = wallet}

ClaimPaying(log, wallet) == CHOOSE i \in ClaimsOf(log, wallet) : TRUE

(* What each wallet was paid. *)
PaidNotes(log) ==
    [a \in Accounts |->
        IF ClaimsOf(log, a) = {} THEN 0
        ELSE log[ClaimPaying(log, a)].amount]

Ideal == INSTANCE IdealMint WITH
            Wallets <- Accounts, NumIds <- MaxDeposits,
            status <- [id \in Ids |-> Committed.deposits[id].status],
            amount <- [id \in Ids |-> Committed.deposits[id].amount],
            paid <- PaidNotes(Committed.log),
            till <- Committed.balance

(***************************************************************************)
(* Seen transaction by transaction, the contract is the ideal mint: the    *)
(* books balance, a deposit ends once, a wallet is paid once, and a        *)
(* transaction in which a payee refuses its value leaves no trace.         *)
(***************************************************************************)
ImplementsIdealMint == Ideal!Spec

=============================================================================
