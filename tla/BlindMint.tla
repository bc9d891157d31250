----------------------------- MODULE BlindMint -----------------------------
(***************************************************************************)
(* The contract contracts/src/BlindMint.sol: deposits wait for the mint,   *)
(* an announcement turns one into notes, a claim pays a note, a refund     *)
(* returns a deposit.                                                      *)
(*                                                                         *)
(* Every payment is a low-level call (_send), so the payee may be a        *)
(* contract that calls back before the payment returns, and that may still *)
(* refuse the value, which reverts the operation that paid it.  The model  *)
(* keeps the calls in progress in "stack", each with the storage it        *)
(* reverts to.  The stack is empty exactly between two transactions.       *)
(*                                                                         *)
(* The signatures themselves are cryptography: Signed is the set of pairs  *)
(* <<denomination, wallet>> for which somebody can show a signature that   *)
(* BLS.verify accepts.  It is not tied to the announcements, so the        *)
(* contract is checked against a mint key that signs too much.             *)
(***************************************************************************)
EXTENDS Integers, Sequences, FiniteSets, SequencesExt, Functions, Sums

CONSTANTS
    Accounts,       \* every address
    Contracts,      \* the addresses that run code when they are paid
    Forwarder,      \* the CRE forwarder, the only caller of announce
    Treasury,       \* receives the mint tax
    Denoms,         \* the denominations that have a key (mintPubkeys)
    Signed,         \* the <<denomination, wallet>> pairs that verify
    MaxPoints,      \* MAX_POINTS
    MapBits,        \* the width of the duplicate map of announce
    AmountLimit,    \* type(uint96).max
    RefundDelay,
    Values,         \* the values a deposit may carry (enumeration bound)
    PointCounts,    \* the numbers of points it may carry (enumeration bound)
    Reports,        \* the announcements the forwarder may deliver (bound)
    MaxDeposits,    \* bound on nextId
    MaxTime,        \* type(uint64).max, where the clock of the model ends
    CallDepth       \* bound on nested calls

Ids == 1 .. MaxDeposits
Statuses == {"None", "Pending", "Announced", "Refunded"}
None == [depositor |-> Forwarder, amount |-> 0, points |-> 0, deadline |-> 0,
         status |-> "None"]

ASSUME AccountsAssumption ==
    /\ Forwarder \in Accounts /\ Treasury \in Accounts
    /\ Contracts \subseteq Accounts /\ IsFiniteSet(Accounts)
    /\ Signed \subseteq Denoms \X Accounts

ASSUME DenomsAssumption == Denoms # {} /\ Denoms \subseteq Nat \ {0}

ASSUME BoundsAssumption ==
    /\ MaxPoints \in Nat /\ MapBits \in Nat /\ MaxPoints <= MapBits
    /\ AmountLimit \in Nat /\ RefundDelay \in Nat
    /\ Values \subseteq Nat /\ PointCounts \subseteq Nat
    /\ MaxDeposits \in Nat /\ MaxTime \in Nat /\ CallDepth \in Nat
    /\ Reports \subseteq [id : Ids, points : Seq(Nat), denoms : Seq(Nat)]

VARIABLES
    st,     \* the storage, the balance and the event log of the contract
    stack,  \* the payments that have not returned, outermost first
    now     \* block.timestamp

vars == <<st, stack, now>>

-----------------------------------------------------------------------------
(* The value that a deposit mints.  The rest is the tax. *)

rung == CHOOSE d \in Denoms : \A e \in Denoms : d <= e

mintablePlusRung(amount) == (amount \div rung + 1) * rung

mintable(amount) == IF amount < rung THEN 0 ELSE (amount \div rung - 1) * rung

-----------------------------------------------------------------------------
(* The storage that the last complete transaction left. *)
Committed == IF stack = <<>> THEN st ELSE stack[1].saved

(* Only the payee of the innermost payment runs code while one is open. *)

Callers == IF stack = <<>> THEN Accounts ELSE {Last(stack).to}

(***************************************************************************)
(* _send is the last statement of every operation that pays.  s is the     *)
(* storage after the operation's writes.  A balance that does not cover    *)
(* the amount makes the call fail, and the operation reverts.              *)
(***************************************************************************)
Send(s, to, amount) ==
    /\ amount <= s.balance
    /\ st' = [s EXCEPT !.balance = @ - amount]
    /\ IF to \in Contracts
       THEN /\ Len(stack) < CallDepth
            /\ stack' = Append(stack, [to |-> to, saved |-> st])
       ELSE stack' = stack

(* The payee returns, and the operation that paid it is complete. *)
Return ==
    /\ stack # <<>>
    /\ stack' = Front(stack)
    /\ UNCHANGED <<st, now>>

RefuseUnnoticed ==
    /\ stack # <<>>
    /\ st' = [st EXCEPT !.balance = Last(stack).saved.balance]
    /\ stack' = Front(stack)
    /\ UNCHANGED now

(* The payee refuses the value: TransferFailed reverts the operation. *)
Refuse ==
    /\ stack # <<>>
    /\ st' = Last(stack).saved
    /\ stack' = Front(stack)
    /\ UNCHANGED now

Emit(s, event) == [s EXCEPT !.log = Append(@, event)]

-----------------------------------------------------------------------------
FitsAny(value) == TRUE
FitsUint96(value) == value <= AmountLimit

FitsMapPlusOne(points) == points <= MaxPoints + 1
FitsMap(points) == points <= MaxPoints

Deposit(sender, value, points) ==
    /\ sender \in Callers
    /\ ~ (points = 0 /\ mintable(value) # 0)
    /\ FitsMap(points)
    /\ value # 0
    /\ FitsUint96(value)
    /\ now + RefundDelay <= MaxTime
    /\ st.nextId \in Ids
    /\ LET id == st.nextId
           opened == [st EXCEPT
                        !.nextId = id + 1,
                        !.balance = @ + value,
                        !.deposits[id] =
                            [depositor |-> sender,
                             amount |-> value % (AmountLimit + 1),
                             points |-> points,
                             deadline |-> now + RefundDelay,
                             status |-> "Pending"]]
       IN st' = Emit(opened, [event |-> "Deposited", id |-> id,
                              amount |-> value])
    /\ UNCHANGED <<stack, now>>

AwaitsSinceStart(id) == Committed.deposits[id].status = "Pending"
Awaits(id) == st.deposits[id].status = "Pending"

(***************************************************************************)
(* The loop of _announce.  "seen" is a word of MapBits bits: shifting 1 by *)
(* MapBits or more gives zero, and such an index is never seen.            *)
(***************************************************************************)
Bit(idx) == IF idx < MapBits THEN {idx} ELSE {}

RepeatsPoint(points) ==
    \E i \in 1 .. Len(points), j \in 1 .. Len(points) :
        i < j /\ Bit(points[j]) \cap Bit(points[i]) # {}

(* _announce: report is [id, points, denoms], in the order of the deposit. *)
Announce(sender, report) ==
    LET id == report.id
        d == st.deposits[id]
        sum == Total(report.denoms, Len(report.denoms))
        taken == d.amount - sum
        announced == Emit([st EXCEPT !.deposits[id].status = "Announced",
                                     !.totalAnnounced = @ + sum],
                          [event |-> "Announced", id |-> id,
                           points |-> report.points, sum |-> sum])
    IN  /\ sender \in Callers /\ sender = Forwarder
        /\ Awaits(id)
        /\ Len(report.points) = Len(report.denoms)
        /\ \A i \in 1 .. Len(report.points) : report.points[i] < d.points
        /\ ~ RepeatsPoint(report.points)
        /\ \A i \in 1 .. Len(report.denoms) : report.denoms[i] \in Denoms
        /\ sum = mintable(d.amount)
        /\ IF taken # 0
           THEN Send(Emit(announced, [event |-> "Taxed", id |-> id,
                                      amount |-> taken]),
                     Treasury, taken)
           ELSE st' = announced /\ stack' = stack
        /\ UNCHANGED now

UnclaimedAtStart(wallet) == ~ Committed.claimed[wallet]
Unclaimed(wallet) == ~ st.claimed[wallet]

CoveredBefore(denom) == st.totalClaimed < st.totalAnnounced
Covered(denom) == st.totalClaimed + denom <= st.totalAnnounced

Claim(sender, denom, wallet) ==
    /\ sender \in Callers
    /\ denom \in Denoms
    /\ Unclaimed(wallet)
    /\ Covered(denom)
    /\ <<denom, wallet>> \in Signed
    /\ Send(Emit([st EXCEPT !.claimed[wallet] = TRUE,
                            !.totalClaimed = @ + denom],
                 [event |-> "Claimed", wallet |-> wallet, amount |-> denom]),
            wallet, denom)
    /\ UNCHANGED now

PayeeTreasury(d) == Treasury
Payee(d) == d.depositor

(* _refund: the whole deposit goes back, no tax. *)
Refund(id) ==
    LET d == st.deposits[id]
    IN  /\ Awaits(id)
        /\ Send(Emit([st EXCEPT !.deposits[id].status = "Refunded"],
                     [event |-> "Refunded", id |-> id, amount |-> d.amount]),
                Payee(d), d.amount)

RefundByMint(sender, id) ==
    /\ sender \in Callers /\ sender = Forwarder
    /\ Refund(id)
    /\ UNCHANGED now

DelayAlmostPassed(id) == now + 1 >= st.deposits[id].deadline
DelayPassed(id) == now >= st.deposits[id].deadline

RefundByDepositor(sender, id) ==
    /\ sender \in Callers
    /\ st.deposits[id].depositor = sender
    /\ DelayPassed(id)
    /\ Refund(id)
    /\ UNCHANGED now

(* One block follows another, never in the middle of a transaction. *)
Tick ==
    /\ stack = <<>>
    /\ now < MaxTime
    /\ now' = now + 1
    /\ UNCHANGED <<st, stack>>

-----------------------------------------------------------------------------
(* The constructor. *)
Init ==
    /\ st = [deposits |-> [id \in Ids |-> None],
             claimed |-> [a \in Accounts |-> FALSE],
             nextId |-> 1, totalAnnounced |-> 0, totalClaimed |-> 0,
             balance |-> 0, log |-> <<>>]
    /\ stack = <<>>
    /\ now = 0

Next ==
    \/ \E sender \in Accounts, value \in Values, points \in PointCounts :
           Deposit(sender, value, points)
    \/ \E sender \in Accounts, report \in Reports : Announce(sender, report)
    \/ \E sender \in Accounts, denom \in Denoms, wallet \in Accounts :
           Claim(sender, denom, wallet)
    \/ \E sender \in Accounts, id \in Ids :
           \/ RefundByMint(sender, id)
           \/ RefundByDepositor(sender, id)
    \/ Return
    \/ Refuse
    \/ Tick

Spec == Init /\ [][Next]_vars

-----------------------------------------------------------------------------
(* Correctness. *)

DepositRecord == [depositor : Accounts, amount : Nat, points : Nat,
                  deadline : Nat, status : Statuses]

Event == [event : {"Deposited", "Taxed", "Refunded"}, id : Ids, amount : Nat]
    \cup [event : {"Announced"}, id : Ids, points : Seq(Nat), sum : Nat]
    \cup [event : {"Claimed"}, wallet : Accounts, amount : Nat]

Storage == [deposits : [Ids -> DepositRecord], claimed : [Accounts -> BOOLEAN],
            nextId : Nat, totalAnnounced : Nat, totalClaimed : Nat,
            balance : Nat, log : Seq(Event)]

(* What the pending deposits are owed. *)
Held(s) == [id \in Ids |-> IF s.deposits[id].status = "Pending"
                           THEN s.deposits[id].amount ELSE 0]

(* Type correctness of the storage, of every saved storage and of the clock. *)
TypeOK ==
    /\ st \in Storage
    /\ stack \in Seq([to : Accounts, saved : Storage])
    /\ now \in Nat

(***************************************************************************)
(* The balance is exactly what the pending deposits and the unclaimed      *)
(* notes are worth, at every moment, also inside a payment that has not    *)
(* returned.  Each write of the four totals in BlindMint.sol must          *)
(* therefore come before the payment it belongs to (the comment at         *)
(* BlindMint.sol:258), and a reverted payment must take all of them back.  *)
(***************************************************************************)
Solvent ==
    st.balance = Total(Held(st), MaxDeposits)
                 + st.totalAnnounced - st.totalClaimed

(***************************************************************************)
(* "totalClaimed must stay at or below it" (BlindMint.sol:73), whatever    *)
(* the mint key has signed.                                                *)
(***************************************************************************)
NoOverdraft == st.totalClaimed <= st.totalAnnounced

(***************************************************************************)
(* A wallet is paid for one note at most, counted in the Claimed events,   *)
(* even when the wallet is a contract that presents a second signature     *)
(* while the first note is being paid.                                     *)
(***************************************************************************)
OneNotePerWallet ==
    \A i, j \in DOMAIN st.log :
        /\ st.log[i].event = "Claimed" /\ st.log[j].event = "Claimed"
        /\ st.log[i].wallet = st.log[j].wallet
        => i = j

(***************************************************************************)
(* A deposit has one outcome: its signatures are announced, or its value   *)
(* goes back, and never both or twice.  A client reads these events and    *)
(* takes the first one it finds.                                           *)
(***************************************************************************)
Outcomes == {"Announced", "Refunded"}

OneOutcome ==
    \A i, j \in DOMAIN st.log :
        /\ st.log[i].event \in Outcomes /\ st.log[j].event \in Outcomes
        /\ st.log[i].id = st.log[j].id
        => i = j

(***************************************************************************)
(* The duplicate map of _announce is exact for every deposit that deposit  *)
(* lets in: no announcement signs one blinded point for two notes.  A      *)
(* point has one wallet, and a wallet is paid once, so the second note     *)
(* would be lost.                                                          *)
(***************************************************************************)
NoPointSignedTwice ==
    \A n \in DOMAIN st.log :
        st.log[n].event = "Announced" => IsInjective(st.log[n].points)

(***************************************************************************)
(* A deposit returns before its deadline only when the forwarder says so.  *)
(* The depositor cannot race the mint before the delay has passed.         *)
(***************************************************************************)
NoEarlyRefund ==
    [][\A id \in Ids :
         /\ st.deposits[id].status = "Pending"
         /\ st'.deposits[id].status = "Refunded"
         => \/ now >= st.deposits[id].deadline
            \/ RefundByMint(Forwarder, id)]_vars

(***************************************************************************)
(* "A dead mint cannot keep the money" (BlindMint.sol:294): an ordinary    *)
(* account that keeps asking gets every deposit out of Pending, whatever   *)
(* other payees do with their calls.  Fairness: blocks follow blocks, a    *)
(* payee that does not revert returns (gas is finite), and the depositor   *)
(* asks again.                                                             *)
(***************************************************************************)
FairSpec ==
    /\ Spec
    /\ SF_vars(Tick)
    /\ WF_vars(Return)
    /\ \A a \in Accounts \ Contracts, id \in Ids :
           SF_vars(RefundByDepositor(a, id))

NoDepositStuck ==
    \A id \in Ids, a \in Accounts \ Contracts :
        (Committed.deposits[id].status = "Pending"
         /\ Committed.deposits[id].depositor = a)
        ~> (Committed.deposits[id].status # "Pending")

=============================================================================
