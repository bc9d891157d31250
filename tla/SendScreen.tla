----------------------------- MODULE SendScreen -----------------------------
(***************************************************************************)
(* The send of the browser: the plan (app/lib/spend.ts), the screen        *)
(* (app/app/send/page.tsx) and the transfers (app/lib/privy.ts).           *)
(*                                                                         *)
(* A send empties whole notes into a new wallet, the pocket, and pays the  *)
(* recipient from there in one transfer.  What is left in the pocket is    *)
(* the change, a note of no ladder value that the settler melts.  The plan *)
(* comes from records and a gas price that the screen read when it opened. *)
(* Several tabs send and melt over one store.                              *)
(***************************************************************************)
EXTENDS Integers, FiniteSets, FiniteSetsExt

CONSTANTS
    Screens,        \* open send screens
    Notes,          \* wallets that hold a claimed note at first
    Pockets,        \* wallets that createNoteWallets still can give
    LADDER,         \* the denominations of a note
    Amounts,        \* what a user sends
    Fees,           \* what a transfer costs the network asks
    Reserves,       \* what a melt keeps back for its gas
    Misses,         \* by how much the limit of a deposit exceeds the reserve
    Burns,          \* what the network charges for a deposit
    RUNG, PASSES,   \* of a melt: what each pass asks less, how many there are
    Reloads,        \* a page may stop at any await
    NoWallet

Wallets == Notes \cup Pockets
DUST == 1

ASSUME SendAssumption ==
    /\ IsFiniteSet(Wallets) /\ IsFiniteSet(Fees)
    /\ Notes \cap Pockets = {} /\ NoWallet \notin Wallets
    /\ LADDER \subseteq Nat \ {0} /\ Amounts \subseteq Nat \ {0}
    /\ Fees \subseteq Nat \ {0} /\ Reloads \in BOOLEAN
    /\ Reserves \subseteq Nat /\ IsFiniteSet(Reserves) /\ Reserves # {}
    /\ Misses \subseteq Nat /\ Burns \subseteq Nat
    /\ RUNG \in Nat \ {0} /\ PASSES \in Nat \ {0}

VARIABLES
    \* the chain
    money,          \* [Wallets -> Nat]
    fee,            \* what a transfer costs now
    swept,          \* wallets that a sweep or a melt has emptied
    given,          \* pockets that createNoteWallets gave
    bounced,        \* [Wallets -> Nat], the payment of a pocket that reverted
    stuck,          \* wallets whose melt ran out of passes: like bounced and
                    \* swept, a history that serves the properties alone
    \* the store: the status and the denomination of each wallet
    status, denom,
    \* the screens
    pc, cost, notes, plan, left, pocket,
    \* the settler that melts the change
    melt

chain == <<money, fee, swept, given, bounced, stuck>>
db == <<status, denom>>
screens == <<pc, cost, notes, plan, left, pocket>>
vars == <<chain, db, screens, melt>>

Go(s, at) == pc' = [pc EXCEPT ![s] = at]

-----------------------------------------------------------------------------
(* planSweep. *)

(* A margin of one half on the fee, and the unit an account keeps. *)
LegCost(f) == (f * 3) \div 2 + DUST

Claimed == {w \in Wallets : status[w] = "claimed"}

(* The notes the screen read that can pay for their own transfer.  A record *)
(* keeps its denomination while it is claimed, so the number is read here.  *)
Spendable(s) == {n \in notes[s] : n.denom > cost[s]}

Held(T) == MapThenSumSet(LAMBDA n : n.denom, T)

LargestOf(S, k) ==
    CHOOSE T \in kSubset(k, S) : \A x \in T, y \in S \ T : x.denom >= y.denom

OneLegShort(k) == k
Legs(k) == k + 1

Enough(s, amount) ==
    {k \in 1 .. Cardinality(Spendable(s)) :
        Held(LargestOf(Spendable(s), k)) >= amount + Legs(k) * cost[s]}

NoPlan == [notes |-> {}, amount |-> 0, remainder |-> 0]

planSweep(s, amount) ==
    LET k == CHOOSE i \in Enough(s, amount) : \A j \in Enough(s, amount) : i <= j
        chosen == LargestOf(Spendable(s), k)
    IN  [notes |-> chosen, amount |-> amount,
         remainder |-> Held(chosen) - amount - Legs(k) * cost[s]]

(* InsufficientFunds: what the notes can deliver. *)
Available(s) ==
    LET all == Spendable(s)
        deliverable == Held(all) - Legs(Cardinality(all)) * cost[s]
    IN  IF deliverable > 0 THEN deliverable ELSE 0

-----------------------------------------------------------------------------
(* The screen. *)

Snapshot == {[wallet |-> w, denom |-> denom[w]] : w \in Claimed}

(* The gas price is read once, the notes again after every send. *)
Open(s) ==
    /\ pc[s] = "closed"
    /\ cost' = [cost EXCEPT ![s] = LegCost(fee)]
    /\ notes' = [notes EXCEPT ![s] = Snapshot]
    /\ Go(s, "idle")
    /\ UNCHANGED <<chain, db, plan, left, pocket, melt>>

Start(s, amount) ==
    /\ pc[s] = "idle" /\ Enough(s, amount) # {}
    /\ plan' = [plan EXCEPT ![s] = planSweep(s, amount)]
    /\ left' = [left EXCEPT ![s] = planSweep(s, amount).notes]
    /\ Go(s, "pocket")
    /\ UNCHANGED <<chain, db, cost, notes, pocket, melt>>

TakePocket(s) ==
    /\ pc[s] = "pocket"
    /\ \E w \in Pockets \ given :
          pocket' = [pocket EXCEPT ![s] = w] /\ given' = given \cup {w}
    /\ Go(s, "sweep")
    /\ UNCHANGED <<money, fee, swept, bounced, stuck, db, cost, notes, plan, left, melt>>

(* sendFromWallet reads the balance and the price, then signs and sends.    *)
(* Between the two a balance only falls, and then the chain refuses.  The   *)
(* network asks for the price of the check or for less.                     *)
Largest(s) == CHOOSE n \in left[s] : \A m \in left[s] : n.denom >= m.denom
Share(s) == Largest(s).denom - cost[s]

CanSweep(s) == money[Largest(s).wallet] >= Share(s) + fee + DUST

Charged == {f \in Fees : f <= fee}

Sweep(s) ==
    LET w == Largest(s).wallet
    IN  /\ pc[s] = "sweep" /\ left[s] # {} /\ CanSweep(s)
        /\ \E f \in Charged :
              money' = [money EXCEPT ![w] = @ - Share(s) - f, ![pocket[s]] = @ + Share(s)]
        /\ swept' = swept \cup {w}
        /\ Go(s, "record")
        /\ UNCHANGED <<fee, given, bounced, stuck, db, cost, notes, plan, left, pocket, melt>>

(* Each record follows its own sweep. *)
Planned(s) == left[s]
Landed(s) == {Largest(s)}
WalletsOf(T) == {n.wallet : n \in T}

RecordSpent(s) ==
    /\ pc[s] = "record"
    /\ status' = [w \in Wallets |-> IF w \in WalletsOf(Landed(s)) THEN "spent" ELSE status[w]]
    /\ denom' = [w \in Wallets |-> IF w \in WalletsOf(Landed(s)) THEN 0 ELSE denom[w]]
    /\ left' = [left EXCEPT ![s] = @ \ {Largest(s)}]
    /\ Go(s, "sweep")
    /\ UNCHANGED <<chain, cost, notes, plan, pocket, melt>>

(* payFromWallet reads the balance and asks the user. *)
CanPay(s) == money[pocket[s]] >= plan[s].amount + fee + DUST

CheckPay(s) ==
    /\ pc[s] = "sweep" /\ left[s] = {} /\ CanPay(s)
    /\ Go(s, "confirm")
    /\ UNCHANGED <<chain, db, cost, notes, plan, left, pocket, melt>>

(* The receipt says that the payment is mined, and nobody reads whether it  *)
(* reverted, which costs the pocket the gas alone.                          *)
Delivered(s, f) ==
    /\ money' = [money EXCEPT ![pocket[s]] = @ - plan[s].amount - f]
    /\ UNCHANGED bounced

Reverted(s, f) ==
    /\ money' = [money EXCEPT ![pocket[s]] = @ - f]
    /\ bounced' = [bounced EXCEPT ![pocket[s]] = plan[s].amount]

Pay(s) ==
    /\ pc[s] = "confirm" /\ money[pocket[s]] >= plan[s].amount + fee
    /\ \E f \in Charged : Delivered(s, f) \/ Reverted(s, f)
    /\ Go(s, "change")
    /\ UNCHANGED <<fee, swept, given, stuck, db, cost, notes, plan, left, pocket, melt>>

Forget(s) ==
    /\ plan' = [plan EXCEPT ![s] = NoPlan]
    /\ left' = [left EXCEPT ![s] = {}]
    /\ pocket' = [pocket EXCEPT ![s] = NoWallet]

(* The change becomes a note, when there is any, and the screen reloads.    *)
PutChange(s) ==
    /\ pc[s] = "change"
    /\ IF plan[s].remainder > 0
       THEN /\ status' = [status EXCEPT ![pocket[s]] = "claimed"]
            /\ denom' = [denom EXCEPT ![pocket[s]] = plan[s].remainder]
       ELSE UNCHANGED db
    /\ notes' = [notes EXCEPT ![s] =
                    {[wallet |-> w, denom |-> denom'[w]] :
                        w \in {v \in Wallets : status'[v] = "claimed"}}]
    /\ Forget(s) /\ Go(s, "idle")
    /\ UNCHANGED <<chain, cost, melt>>

(* A wallet that cannot cover its step, a refused payment: the screen says  *)
(* that the send stopped and reads the records again.                       *)
CannotCover(s) ==
    pc[s] = "sweep" /\ ~ (IF left[s] # {} THEN CanSweep(s) ELSE CanPay(s))

SendFails(s) ==
    /\ CannotCover(s) \/ pc[s] = "confirm"
    /\ notes' = [notes EXCEPT ![s] = Snapshot]
    /\ Forget(s) /\ Go(s, "idle")
    /\ UNCHANGED <<chain, db, cost, melt>>

(* A page that closes between two sends loses nothing. *)
Reload(s) ==
    /\ Reloads /\ pc[s] \notin {"closed", "idle"}
    /\ notes' = [notes EXCEPT ![s] = {}]
    /\ Forget(s) /\ Go(s, "closed")
    /\ UNCHANGED <<chain, db, cost, melt>>

-----------------------------------------------------------------------------
(* The settler melts one note of no ladder value. *)

NoMelt == [at |-> "none", wallet |-> NoWallet, denom |-> 0,
           balance |-> 0, reserve |-> 0, pass |-> 0]

PickChange(w) ==
    /\ melt.at = "none"
    /\ w \in Claimed /\ denom[w] > 0 /\ denom[w] \notin LADDER
    /\ melt' = [NoMelt EXCEPT !.at = "balance", !.wallet = w, !.denom = denom[w]]
    /\ UNCHANGED <<chain, db, screens>>

(* The balance and the gas price are read once, for all passes. *)
ReadBalance ==
    /\ melt.at = "balance"
    /\ \E r \in Reserves :
          melt' = [melt EXCEPT !.at = "pass", !.balance = money[melt.wallet], !.reserve = r]
    /\ UNCHANGED <<chain, db, screens>>

(* What a pass asks for, and what the node must find in the wallet for it.  *)
Guess == melt.balance - melt.reserve - DUST - melt.pass * RUNG
Limit(miss) == melt.reserve + miss
Affords(miss) == melt.balance >= Guess + Limit(miss) + DUST
InPass == melt.at = "pass" /\ melt.pass < PASSES /\ Guess > 0

(* The deposit needs more gas than the pass kept back. *)
NextPass ==
    /\ InPass /\ money[melt.wallet] >= Guess
    /\ \E miss \in Misses : ~ Affords(miss)
    /\ melt' = [melt EXCEPT !.pass = @ + 1]
    /\ UNCHANGED <<chain, db, screens>>

MeltSend ==
    /\ InPass
    /\ \E miss \in Misses, burn \in Burns :
          /\ Affords(miss) /\ burn <= Limit(miss)
          /\ money[melt.wallet] >= Guess + Limit(miss)
          /\ money' = [money EXCEPT ![melt.wallet] = @ - Guess - burn]
    /\ swept' = swept \cup {melt.wallet}
    /\ melt' = [melt EXCEPT !.at = "spent"]
    /\ UNCHANGED <<fee, given, bounced, stuck, db, screens>>

(* meltWallet answers undefined: the gas takes all of the balance, or every *)
(* pass asked for too much.  The settler calls both dust.                   *)
MeltEnds ==
    /\ melt.at = "pass" /\ (melt.pass = PASSES \/ Guess <= 0)
    /\ melt' = [melt EXCEPT !.at = "dust"]
    /\ UNCHANGED <<chain, db, screens>>

RecordMelt ==
    /\ melt.at \in {"spent", "dust"}
    /\ status' = [status EXCEPT ![melt.wallet] = melt.at]
    /\ denom' = [denom EXCEPT ![melt.wallet] = IF melt.at = "spent" THEN 0 ELSE melt.denom]
    /\ stuck' = IF melt.pass = PASSES THEN stuck \cup {melt.wallet} ELSE stuck
    /\ melt' = NoMelt
    /\ UNCHANGED <<money, fee, swept, given, bounced, screens>>

(* A wallet that lost money meanwhile fails the estimate or the send. *)
MeltStops ==
    /\ melt.at # "none"
    /\ Reloads \/ (InPass /\ \E miss \in Misses : money[melt.wallet] < Guess + Limit(miss))
    /\ melt' = NoMelt
    /\ UNCHANGED <<chain, db, screens>>

FeeMoves ==
    /\ fee' \in Fees \ {fee}
    /\ UNCHANGED <<money, swept, given, bounced, stuck, db, screens, melt>>

-----------------------------------------------------------------------------
Init ==
    /\ \E worth \in [Notes -> LADDER] :
          /\ money = [w \in Wallets |-> IF w \in Notes THEN worth[w] ELSE 0]
          /\ denom = money
    /\ status = [w \in Wallets |-> IF w \in Notes THEN "claimed" ELSE "none"]
    /\ fee \in Fees /\ swept = {} /\ given = {}
    /\ bounced = [w \in Wallets |-> 0] /\ stuck = {}
    /\ pc = [s \in Screens |-> "closed"] /\ cost = [s \in Screens |-> 0]
    /\ notes = [s \in Screens |-> {}] /\ plan = [s \in Screens |-> NoPlan]
    /\ left = [s \in Screens |-> {}] /\ pocket = [s \in Screens |-> NoWallet]
    /\ melt = NoMelt

Next ==
    \/ \E s \in Screens :
          \/ Open(s) \/ TakePocket(s) \/ Sweep(s) \/ RecordSpent(s)
          \/ CheckPay(s) \/ Pay(s) \/ PutChange(s) \/ SendFails(s) \/ Reload(s)
          \/ \E amount \in Amounts : Start(s, amount)
    \/ \E w \in Wallets : PickChange(w)
    \/ ReadBalance \/ NextPass \/ MeltSend \/ MeltEnds \/ RecordMelt \/ MeltStops
    \/ FeeMoves

Spec == Init /\ [][Next]_vars

-----------------------------------------------------------------------------
TypeOK ==
    /\ money \in [Wallets -> Nat] /\ fee \in Fees
    /\ swept \subseteq Wallets /\ given \subseteq Pockets
    /\ bounced \in [Wallets -> Nat] /\ stuck \subseteq Wallets
    /\ status \in [Wallets -> {"none", "claimed", "spent", "dust"}]
    /\ denom \in [Wallets -> Nat]
    /\ pc \in [Screens -> {"closed", "idle", "pocket", "sweep", "record", "confirm", "change"}]
    /\ cost \in [Screens -> Nat]
    /\ \A s \in Screens :
          /\ notes[s] \subseteq [wallet : Wallets, denom : Nat]
          /\ left[s] \subseteq plan[s].notes /\ plan[s].remainder \in Nat
    /\ pocket \in [Screens -> Pockets \cup {NoWallet}]
    /\ melt.at \in {"none", "balance", "pass", "spent", "dust"}
    /\ melt.wallet \in Wallets \cup {NoWallet} /\ melt.pass \in 0 .. PASSES

(* What the notes of T deliver when each pays for its own transfer.         *)
Deliver(T, c) == Held(T) - (Cardinality(T) + 1) * c

(* planSweep refuses only what no set of notes can deliver, it takes as few *)
(* notes as any set that delivers, and the amount it says the user can send *)
(* is exactly the most that can be sent.                                    *)
PlanIsBest ==
    \A s \in Screens : pc[s] = "idle" =>
        LET sets == SUBSET notes[s]
        IN  /\ \A amount \in Amounts :
                  LET able == {T \in sets : Deliver(T, cost[s]) >= amount}
                  IN  /\ able = {} <=> Enough(s, amount) = {}
                      /\ able # {} =>
                            LET chosen == planSweep(s, amount)
                            IN  /\ chosen.notes \in able
                                /\ \A T \in able :
                                      Cardinality(chosen.notes) <= Cardinality(T)
            /\ Available(s) = Max({0} \cup {Deliver(T, cost[s]) : T \in sets})

(* The balance never counts money that is not there: a claimed record of a  *)
(* wallet that nothing swept holds at least its denomination, the change of *)
(* a send included.                                                         *)
CountedIsHeld ==
    \A w \in Claimed \ swept : money[w] >= denom[w]

(* The most that a wallet can keep of what it was asked for: what a melt    *)
(* kept back in its last pass, and the margins of its own transfers.        *)
MeltTop == Max(Reserves) + DUST + (PASSES - 1) * RUNG
Leftover == 2 * LegCost(Max(Fees)) + MeltTop

(* No write of a send or a melt, however stale, hides money: a wallet that  *)
(* the records call spent or dust holds no more than its transfers and      *)
(* passes left.  The exceptions are the amount of a payment that reverted   *)
(* and the wallet of a melt that ran out of passes.                         *)
HiddenIsEmpty ==
    \A w \in Wallets \ stuck :
        status[w] \in {"spent", "dust"} => money[w] <= Leftover + bounced[w]

(* The record changes as each sweep lands, so a failure in the middle       *)
(* leaves a balance that matches the chain: when no send is under way, a    *)
(* wallet with money that a melt could move has a record that counts it.    *)
MoneyIsRecorded ==
    (\A s \in Screens : pc[s] \in {"closed", "idle"}) /\ melt.at = "none" =>
        \A w \in Wallets : money[w] > Leftover => status[w] = "claimed"

=============================================================================
