-------------------------- MODULE BlindMintProofs --------------------------
(***************************************************************************)
(* The contract: what a storage satisfies at every moment, what an         *)
(* operation may make of the storage before it, and from the two, that the *)
(* contract implements the ideal mint.                                     *)
(***************************************************************************)
EXTENDS MintRefinement, SumsProofs, SequenceTheorems

(* The set of denominations has a smallest member, and rung is it. *)
LEMMA RungIsSmallest == rung \in Nat \ {0} /\ rung \in Denoms
<1>1. \E d \in Denoms : \A e \in Denoms : d <= e
  BY DenomsAssumption, LeastNatural
<1> QED BY <1>1, DenomsAssumption DEF rung

(* A deposit never mints more than it carries: the tax is not negative. *)
LEMMA MintableBound ==
    ASSUME NEW a \in Nat
    PROVE  mintable(a) \in Nat /\ mintable(a) <= a
<1>1. rung \in Nat \ {0}
  BY RungIsSmallest
<1> DEFINE r == rung
           q == a \div r
<1>2. CASE a < r
  BY <1>2 DEF mintable
<1>3. CASE ~ (a < r)
  <2>1. q \in Nat /\ q * r <= a
    BY <1>1, <1>3
  <2>2. q >= 1
    BY <1>1, <1>3
  <2>3. q * r \in Nat /\ (q - 1) * r = q * r - r /\ r <= q * r
    BY <1>1, <2>1, <2>2
  <2> QED BY <1>3, <2>1, <2>3, <1>1 DEF mintable
<1> QED BY <1>2, <1>3

-----------------------------------------------------------------------------
(***************************************************************************)
(* The inductive invariant.  It speaks of the current storage and of every *)
(* storage that an open payment may restore, so it holds across a revert.  *)
(* Due is the money that an operation still has to send.                   *)
(***************************************************************************)

SolventWith(s, due) ==
    s.balance = Total(Held(s), MaxDeposits)
                + s.totalAnnounced - s.totalClaimed + due

ClaimsRecorded(s) ==
    /\ \A i \in DOMAIN s.log :
          s.log[i].event = "Claimed" => s.claimed[s.log[i].wallet]
    /\ \A i, j \in DOMAIN s.log :
          /\ s.log[i].event = "Claimed" /\ s.log[j].event = "Claimed"
          /\ s.log[i].wallet = s.log[j].wallet
          => i = j

OutcomesRecorded(s) ==
    /\ \A i \in DOMAIN s.log :
          s.log[i].event \in Outcomes
          => s.deposits[s.log[i].id].status \in Outcomes
    /\ \A i, j \in DOMAIN s.log :
          /\ s.log[i].event \in Outcomes /\ s.log[j].event \in Outcomes
          /\ s.log[i].id = s.log[j].id
          => i = j

Sound(s, due) ==
    /\ s \in Storage
    /\ SolventWith(s, due)
    /\ s.totalClaimed <= s.totalAnnounced
    /\ ClaimsRecorded(s)
    /\ OutcomesRecorded(s)
    /\ \A id \in Ids : id >= s.nextId => s.deposits[id].status = "None"
    
IInv ==
    /\ Sound(st, 0)
    /\ stack \in Seq([to : Accounts, saved : Storage])
    /\ \A i \in DOMAIN stack : Sound(stack[i].saved, 0)
    /\ now \in Nat

(* What a storage holds for its pending deposits is a sequence of numbers. *)
LEMMA HeldType ==
    ASSUME NEW s \in Storage
    PROVE  Held(s) \in [1 .. MaxDeposits -> Nat]
BY DEF Held, Storage, DepositRecord, Ids

(* One deposit changes what is held by the change of its own amount. *)
LEMMA HeldChange ==
    ASSUME NEW s \in Storage, NEW t \in Storage, NEW id \in Ids,
           \A i \in Ids : i # id => Held(t)[i] = Held(s)[i]
    PROVE  Total(Held(t), MaxDeposits)
           = Total(Held(s), MaxDeposits) + Held(t)[id] - Held(s)[id]
<1> DEFINE f == Held(s)
           g == Held(t)
<1>1. /\ f \in [1 .. MaxDeposits -> Nat] /\ g \in [1 .. MaxDeposits -> Nat]
      /\ id \in 1 .. MaxDeposits /\ MaxDeposits \in Nat
      /\ \A i \in 1 .. MaxDeposits : i # id => g[i] = f[i]
  BY HeldType, BoundsAssumption DEF Ids
<1> HIDE DEF f, g
<1>2. Total(g, MaxDeposits) = Total(f, MaxDeposits) + g[id] - f[id]
  BY <1>1, SumChange
<1> QED BY <1>2 DEF f, g

(* Sending what is due leaves a sound storage, in or out of a frame. *)
LEMMA SendSound ==
    ASSUME IInv, NEW s, NEW to \in Accounts, NEW amount \in Nat,
           Sound(s, amount), Send(s, to, amount), UNCHANGED now
    PROVE  IInv'
<1>1. st' = [s EXCEPT !.balance = s.balance - amount] /\ amount <= s.balance
  BY DEF Send
<1>2. s \in Storage
  BY DEF Sound
<1>3. st' \in Storage /\ st'.balance = s.balance - amount
  BY <1>1, <1>2 DEF Storage
<1>4. /\ st'.deposits = s.deposits /\ st'.claimed = s.claimed
      /\ st'.nextId = s.nextId /\ st'.log = s.log
      /\ st'.totalAnnounced = s.totalAnnounced
      /\ st'.totalClaimed = s.totalClaimed
  BY <1>1, <1>2 DEF Storage
<1>5. Held(st') = Held(s)
  BY <1>4 DEF Held
<1>6. Total(Held(s), MaxDeposits) \in Nat
  BY <1>2, HeldType, SumBounds, BoundsAssumption DEF Total
<1>7. SolventWith(st', 0)
  BY <1>2, <1>3, <1>4, <1>5, <1>6 DEF SolventWith, Sound, Storage
<1>8. Sound(st', 0)
  BY <1>3, <1>4, <1>7 DEF Sound, ClaimsRecorded, OutcomesRecorded
<1>9. CASE stack' = stack
  BY <1>8, <1>9 DEF IInv
<1>10. CASE stack' = Append(stack, [to |-> to, saved |-> st])
  <2>1. [to |-> to, saved |-> st] \in [to : Accounts, saved : Storage]
    BY DEF IInv, Sound
  <2>2. stack' \in Seq([to : Accounts, saved : Storage])
    BY <1>10, <2>1 DEF IInv
  <2>3. \A i \in DOMAIN stack' : Sound(stack'[i].saved, 0)
    BY <1>10 DEF IInv
  <2> QED BY <1>8, <2>2, <2>3 DEF IInv
<1> QED BY <1>9, <1>10 DEF Send

(* What Emit does to a log. *)
LEMMA EmitLog ==
    ASSUME NEW s \in Storage, NEW e \in Event
    PROVE  LET t == Emit(s, e)
               n == Len(s.log)
           IN  /\ t \in Storage
               /\ t = [s EXCEPT !.log = t.log]
               /\ n \in Nat /\ DOMAIN s.log = 1 .. n /\ DOMAIN t.log = 1 .. n + 1
               /\ \A i \in 1 .. n : t.log[i] = s.log[i]
               /\ t.log[n + 1] = e
<1>1. s.log \in Seq(Event)
  BY DEF Storage
<1>2. Emit(s, e) = [s EXCEPT !.log = Append(s.log, e)]
  BY DEF Emit
<1>3. /\ Emit(s, e).log = Append(s.log, e)
      /\ Append(s.log, e) \in Seq(Event)
  BY <1>1, <1>2 DEF Storage
<1>4. Emit(s, e) \in Storage
  BY <1>2, <1>3 DEF Storage
<1> QED BY <1>1, <1>2, <1>3, <1>4

(* An event that is neither a claim nor an outcome changes no record. *)
LEMMA EmitOther ==
    ASSUME NEW s, NEW due, Sound(s, due), NEW e \in Event,
           e.event \in {"Deposited", "Taxed"}
    PROVE  Sound(Emit(s, e), due)
<1> DEFINE t == Emit(s, e)
<1>1. s \in Storage
  BY DEF Sound
<1>2. /\ t \in Storage /\ t = [s EXCEPT !.log = t.log]
      /\ Len(s.log) \in Nat
      /\ DOMAIN s.log = 1 .. Len(s.log) /\ DOMAIN t.log = 1 .. Len(s.log) + 1
      /\ \A i \in 1 .. Len(s.log) : t.log[i] = s.log[i]
      /\ t.log[Len(s.log) + 1] = e
  BY <1>1, EmitLog
<1>3. /\ t.deposits = s.deposits /\ t.claimed = s.claimed
      /\ t.nextId = s.nextId /\ t.balance = s.balance
      /\ t.totalAnnounced = s.totalAnnounced
      /\ t.totalClaimed = s.totalClaimed
  BY <1>1, <1>2 DEF Storage
<1> HIDE DEF t
<1>4. SolventWith(t, due)
  <2>1. Held(t) = Held(s)
    BY <1>3 DEF Held
  <2> QED BY <1>3, <2>1 DEF Sound, SolventWith
<1>5. \A i \in DOMAIN t.log :
         t.log[i].event \in {"Claimed", "Announced", "Refunded"}
         => i \in DOMAIN s.log /\ t.log[i] = s.log[i]
  <2> TAKE i \in DOMAIN t.log
  <2>1. i \in 1 .. Len(s.log) \/ i = Len(s.log) + 1
    BY <1>2
  <2> QED BY <1>2, <2>1
<1>6. ClaimsRecorded(t)
  BY <1>3, <1>5 DEF Sound, ClaimsRecorded
<1>7. OutcomesRecorded(t)
  BY <1>3, <1>5 DEF Sound, OutcomesRecorded, Outcomes
<1> QED BY <1>2, <1>3, <1>4, <1>6, <1>7 DEF Sound, t

-----------------------------------------------------------------------------
(* One lemma per operation. *)

(* uint96(msg.value) changes no value that passed the check before it. *)
LEMMA ModuloSmall ==
    ASSUME NEW a \in Nat, NEW b \in Nat, a < b
    PROVE  a % b = a
OBVIOUS

(* deposit keeps IInv: the new record takes the number nobody has used. *)
LEMMA DepositSound ==
    ASSUME IInv, NEW sender \in Accounts, NEW value \in Nat,
           NEW points \in Nat, Deposit(sender, value, points)
    PROVE  IInv'
<1> DEFINE id == st.nextId
           d == [depositor |-> sender, amount |-> value % (AmountLimit + 1),
                 points |-> points, deadline |-> now + RefundDelay,
                 status |-> "Pending"]
           opened == [st EXCEPT !.nextId = id + 1,
                                !.balance = @ + value,
                                !.deposits[id] = d]
           e == [event |-> "Deposited", id |-> id, amount |-> value]
<1>1. st \in Storage /\ now \in Nat /\ Sound(st, 0)
  BY DEF IInv, Sound
<1>2. /\ id \in Ids /\ value <= AmountLimit
      /\ st' = Emit(opened, e)
      /\ UNCHANGED <<stack, now>>
  BY DEF Deposit, FitsUint96
<1>3. value % (AmountLimit + 1) = value
  <2>1. AmountLimit + 1 \in Nat /\ value < AmountLimit + 1
    BY <1>2, BoundsAssumption
  <2> QED BY <2>1, ModuloSmall
<1>4. d \in DepositRecord /\ e \in Event
  <2>1. now + RefundDelay \in Nat
    BY <1>1, BoundsAssumption
  <2>2. d \in DepositRecord
    BY <1>3, <2>1 DEF DepositRecord, Statuses
  <2>3. e \in Event
    BY <1>2 DEF Event
  <2> QED BY <2>2, <2>3
<1>5. /\ opened.nextId = id + 1 /\ opened.balance = st.balance + value
      /\ opened.deposits = [st.deposits EXCEPT ![id] = d]
      /\ opened.claimed = st.claimed /\ opened.log = st.log
      /\ opened.totalAnnounced = st.totalAnnounced
      /\ opened.totalClaimed = st.totalClaimed
  BY <1>1 DEF Storage
<1>6. opened \in Storage
  <2>1. id + 1 \in Nat /\ st.balance + value \in Nat
    BY <1>1, <1>2 DEF Ids, Storage
  <2>2. [st.deposits EXCEPT ![id] = d] \in [Ids -> DepositRecord]
    BY <1>1, <1>2, <1>4 DEF Storage
  <2> HIDE DEF d
  <2> QED BY <1>1, <2>1, <2>2 DEF Storage
<1> HIDE DEF d, e, opened
<1>7. st.deposits[id].status = "None"
  BY <1>1, <1>2 DEF Sound, Ids
<1>8. SolventWith(opened, 0)
  <2>1. d.amount = value /\ d.status = "Pending"
    BY <1>3 DEF d
  <2>2. /\ Held(st) \in [1 .. MaxDeposits -> Nat]
        /\ Held(opened) \in [1 .. MaxDeposits -> Nat]
    BY <1>1, <1>6, HeldType
  <2>3. /\ Held(st)[id] = 0 /\ Held(opened)[id] = value
        /\ \A i \in Ids : i # id => Held(opened)[i] = Held(st)[i]
    BY <1>1, <1>2, <1>5, <1>7, <2>1 DEF Held, Storage
  <2>4. Total(Held(opened), MaxDeposits) = Total(Held(st), MaxDeposits) + value - 0
    BY <1>2, <2>2, <2>3, SumChange, BoundsAssumption DEF Ids
  <2>5. Total(Held(st), MaxDeposits) \in Nat
    BY <2>2, SumBounds, BoundsAssumption DEF Total
  <2> QED BY <1>1, <1>5, <2>4, <2>5 DEF Sound, SolventWith, Storage
<1>9. ClaimsRecorded(opened)
  BY <1>1, <1>5 DEF Sound, ClaimsRecorded
<1>10. OutcomesRecorded(opened)
  <2>1. \A i \in DOMAIN st.log :
           st.log[i].event \in Outcomes => st.log[i].id # id
    BY <1>1, <1>7 DEF Sound, OutcomesRecorded, Outcomes
  <2> QED BY <1>1, <1>5, <2>1 DEF Sound, OutcomesRecorded, Storage
<1>11. Sound(opened, 0)
  BY <1>1, <1>2, <1>5, <1>6, <1>8, <1>9, <1>10
     DEF Sound, Storage, Ids
<1>12. Sound(st', 0)
  BY <1>2, <1>4, <1>11, EmitOther DEF e
<1> QED BY <1>2, <1>12 DEF IInv

(***************************************************************************)
(* A pending deposit that reaches an outcome: its amount is no longer held *)
(* and becomes due.  Shared by the announcement and the refunds.           *)
(***************************************************************************)
Settled(s, t, id, outcome, bought) ==
    /\ t.deposits =
         [s.deposits EXCEPT ![id] = [s.deposits[id] EXCEPT !.status = outcome]]
    /\ t.totalAnnounced = s.totalAnnounced + bought
    /\ t.claimed = s.claimed /\ t.nextId = s.nextId
    /\ t.balance = s.balance /\ t.log = s.log
    /\ t.totalClaimed = s.totalClaimed

(* Ending one pending deposit releases its whole amount, and "bought" of it *)
(* becomes notes: what is left is due for a payment.                        *)
LEMMA SettleSound ==
    ASSUME NEW s, Sound(s, 0), NEW id \in Ids,
           s.deposits[id].status = "Pending",
           NEW outcome \in Outcomes, NEW e \in Event,
           e.event = outcome, e.id = id,
           NEW bought \in Nat, bought <= s.deposits[id].amount,
           NEW t, Settled(s, t, id, outcome, bought),
           t = [s EXCEPT !.deposits = t.deposits,
                         !.totalAnnounced = t.totalAnnounced]
    PROVE  Sound(Emit(t, e), s.deposits[id].amount - bought)
<1> DEFINE d == s.deposits[id]
           u == Emit(t, e)
           due == d.amount - bought
<1>1. /\ s \in Storage /\ d \in DepositRecord /\ d.amount \in Nat
  BY DEF Sound, Storage, DepositRecord
<1>2. [d EXCEPT !.status = outcome] \in DepositRecord
  BY <1>1 DEF DepositRecord, Outcomes, Statuses
<1>3. /\ t.deposits = [s.deposits EXCEPT ![id] = [d EXCEPT !.status = outcome]]
      /\ t.totalAnnounced = s.totalAnnounced + bought
      /\ t.claimed = s.claimed /\ t.nextId = s.nextId
      /\ t.balance = s.balance /\ t.log = s.log
      /\ t.totalClaimed = s.totalClaimed
  BY DEF Settled
<1>4. t \in Storage
  <2>1. t.deposits \in [Ids -> DepositRecord]
    BY <1>1, <1>2, <1>3 DEF Storage
  <2>2. t.totalAnnounced \in Nat
    BY <1>1, <1>3 DEF Storage
  <2> QED BY <1>1, <1>3, <2>1, <2>2 DEF Storage
<1>15. /\ u \in Storage /\ u = [t EXCEPT !.log = u.log]
       /\ Len(t.log) \in Nat
       /\ DOMAIN t.log = 1 .. Len(t.log) /\ DOMAIN u.log = 1 .. Len(t.log) + 1
       /\ \A i \in 1 .. Len(t.log) : u.log[i] = t.log[i]
       /\ u.log[Len(t.log) + 1] = e
  BY <1>4, EmitLog
<1> HIDE DEF u
<1>5. /\ u \in Storage /\ u = [t EXCEPT !.log = u.log]
      /\ Len(s.log) \in Nat
      /\ DOMAIN s.log = 1 .. Len(s.log) /\ DOMAIN u.log = 1 .. Len(s.log) + 1
      /\ \A i \in 1 .. Len(s.log) : u.log[i] = s.log[i]
      /\ u.log[Len(s.log) + 1] = e
  BY <1>3, <1>15
<1>6. /\ u.deposits = t.deposits /\ u.totalAnnounced = t.totalAnnounced
      /\ u.claimed = s.claimed /\ u.nextId = s.nextId
      /\ u.balance = s.balance /\ u.totalClaimed = s.totalClaimed
  BY <1>3, <1>4, <1>5 DEF Storage
<1>7. \A i \in Ids : i # id => u.deposits[i] = s.deposits[i]
  BY <1>1, <1>3, <1>6 DEF Storage
<1>8. u.deposits[id].status = outcome /\ u.deposits[id].amount = d.amount
  BY <1>1, <1>3, <1>6 DEF Storage, DepositRecord
<1>9. SolventWith(u, due)
  <2>1. /\ Held(s) \in [1 .. MaxDeposits -> Nat]
        /\ Held(u) \in [1 .. MaxDeposits -> Nat]
    BY <1>1, <1>5, HeldType
  <2>2. /\ Held(s)[id] = d.amount /\ Held(u)[id] = 0
        /\ \A i \in Ids : i # id => Held(u)[i] = Held(s)[i]
    BY <1>7, <1>8 DEF Held, Outcomes
  <2>5. Total(Held(u), MaxDeposits)
         = Total(Held(s), MaxDeposits) + Held(u)[id] - Held(s)[id]
    BY <1>1, <1>5, <2>2, HeldChange
  <2>3. Total(Held(u), MaxDeposits) = Total(Held(s), MaxDeposits) + 0 - d.amount
    BY <2>2, <2>5
  <2>4. Total(Held(s), MaxDeposits) \in Nat
    BY <2>1, SumBounds, BoundsAssumption DEF Total
  <2> QED BY <1>1, <1>3, <1>6, <2>3, <2>4 DEF Sound, SolventWith, Storage
<1>10. \A i \in DOMAIN u.log : i \in DOMAIN s.log \/ i = Len(s.log) + 1
  BY <1>5
<1>11. ClaimsRecorded(u)
  <2>1. e.event # "Claimed"
    BY DEF Outcomes
  <2>2. \A i \in DOMAIN u.log :
           u.log[i].event = "Claimed"
           => i \in DOMAIN s.log /\ u.log[i] = s.log[i]
    BY <1>5, <1>10, <2>1
  <2> QED BY <1>6, <2>2 DEF Sound, ClaimsRecorded
<1>12. OutcomesRecorded(u)
  <2>1. \A i \in DOMAIN s.log :
           s.log[i].event \in Outcomes => s.log[i].id # id
    BY DEF Sound, OutcomesRecorded, Outcomes
  <2>2. \A i \in DOMAIN s.log : s.log[i].event \in Outcomes => s.log[i].id \in Ids
    BY <1>1 DEF Storage, Event, Outcomes
  <2>3. \A i \in DOMAIN u.log :
           u.log[i].event \in Outcomes
           => u.deposits[u.log[i].id].status \in Outcomes
    <3> SUFFICES ASSUME NEW i \in DOMAIN u.log, u.log[i].event \in Outcomes
                 PROVE  u.deposits[u.log[i].id].status \in Outcomes
      OBVIOUS
    <3>1. CASE i \in DOMAIN s.log
      <4>1. u.log[i] = s.log[i]
        BY <1>5, <3>1
      <4>2. /\ s.log[i].id \in Ids /\ s.log[i].id # id
            /\ s.deposits[s.log[i].id].status \in Outcomes
        BY <3>1, <4>1, <2>1, <2>2 DEF Sound, OutcomesRecorded
      <4> QED BY <4>1, <4>2, <1>7
    <3>2. CASE i = Len(s.log) + 1
      BY <3>2, <1>5, <1>8
    <3> QED BY <1>10, <3>1, <3>2
  <2>4. \A i, j \in DOMAIN u.log :
          /\ u.log[i].event \in Outcomes /\ u.log[j].event \in Outcomes
          /\ u.log[i].id = u.log[j].id
          => i = j
    BY <1>5, <1>10, <2>1 DEF Sound, OutcomesRecorded
  <2> QED BY <2>3, <2>4 DEF OutcomesRecorded
<1>13. u.totalClaimed <= u.totalAnnounced
  BY <1>1, <1>3, <1>6 DEF Sound, Storage
<1>14. \A i \in Ids : i >= u.nextId => u.deposits[i].status = "None"
  BY <1>6, <1>7 DEF Sound
<1> QED BY <1>5, <1>9, <1>11, <1>12, <1>13, <1>14 DEF Sound, u

(* _refund keeps IInv: the payment is the whole amount. *)
LEMMA RefundSound ==
    ASSUME IInv, NEW id \in Ids, Refund(id), UNCHANGED now
    PROVE  IInv'
<1> DEFINE d == st.deposits[id]
           e == [event |-> "Refunded", id |-> id, amount |-> d.amount]
           t == [st EXCEPT !.deposits[id].status = "Refunded"]
<1>1. /\ Sound(st, 0) /\ st \in Storage /\ d \in DepositRecord
      /\ d.amount \in Nat /\ d.depositor \in Accounts
  BY DEF IInv, Sound, Storage, DepositRecord
<1>2. d.status = "Pending" /\ Send(Emit(t, e), d.depositor, d.amount)
  BY DEF Refund, Awaits, Payee
<1>3. /\ e \in Event /\ e.event = "Refunded" /\ e.id = id
      /\ "Refunded" \in Outcomes
  BY <1>1 DEF Event, Outcomes
<1>8. 0 \in Nat /\ 0 <= d.amount
  BY <1>1
<1>4. Settled(st, t, id, "Refunded", 0)
  BY <1>1 DEF Storage, Settled
<1>7. t = [st EXCEPT !.deposits = t.deposits,
                     !.totalAnnounced = t.totalAnnounced]
  BY <1>1 DEF Storage
<1> HIDE DEF t
<1>5. Sound(Emit(t, e), d.amount - 0)
  <2> HIDE DEF e
  <2> QED BY <1>1, <1>2, <1>3, <1>4, <1>7, <1>8, SettleSound
<1>6. Sound(Emit(t, e), d.amount)
  BY <1>1, <1>5
<1> QED BY <1>1, <1>2, <1>6, SendSound

(* _announce keeps IInv: the payment is the amount less what is announced. *)
LEMMA AnnounceSound ==
    ASSUME IInv, NEW sender \in Accounts, NEW report \in Reports,
           Announce(sender, report)
    PROVE  IInv'
<1> DEFINE id == report.id
           d == st.deposits[id]
           sum == Total(report.denoms, Len(report.denoms))
           taken == d.amount - sum
           e == [event |-> "Announced", id |-> id,
                 points |-> report.points, sum |-> sum]
           t == [st EXCEPT !.deposits[id].status = "Announced",
                           !.totalAnnounced = @ + sum]
           f == [event |-> "Taxed", id |-> id, amount |-> taken]
<1>1. /\ Sound(st, 0) /\ st \in Storage /\ id \in Ids
      /\ d \in DepositRecord /\ d.amount \in Nat
  BY BoundsAssumption DEF IInv, Sound, Storage, DepositRecord
<1>2. /\ d.status = "Pending" /\ sum = mintable(d.amount)
      /\ IF taken # 0 THEN Send(Emit(Emit(t, e), f), Treasury, taken)
         ELSE st' = Emit(t, e) /\ stack' = stack
      /\ UNCHANGED now
  BY DEF Announce, Awaits
<1>3. sum \in Nat /\ sum <= d.amount /\ taken \in Nat
  <2>1. sum \in Nat /\ sum <= d.amount
    BY <1>1, <1>2, MintableBound
  <2> HIDE DEF sum
  <2> QED BY <1>1, <2>1
<1>4. e \in Event /\ e.event = "Announced" /\ e.id = id
  <2> HIDE DEF sum
  <2> QED BY <1>1, <1>3, BoundsAssumption DEF Event
<1>5. f \in Event /\ f.event \in {"Deposited", "Taxed"}
  <2> HIDE DEF taken
  <2> QED BY <1>1, <1>3 DEF Event
<1> HIDE DEF sum, e
<1>9. Settled(st, t, id, "Announced", sum)
  BY <1>1 DEF Storage, Settled
<1>10. t = [st EXCEPT !.deposits = t.deposits,
                      !.totalAnnounced = t.totalAnnounced]
  BY <1>1 DEF Storage
<1>6. Sound(Emit(t, e), taken)
  <2> HIDE DEF t
  <2>1. "Announced" \in Outcomes
    BY DEF Outcomes
  <2> QED BY <1>1, <1>2, <1>3, <1>4, <1>9, <1>10, <2>1, SettleSound
<1>7. CASE taken # 0
  <2>1. Sound(Emit(Emit(t, e), f), taken)
    <3> HIDE DEF f, t, taken
    <3> QED BY <1>5, <1>6, EmitOther
  <2> HIDE DEF f, t, taken
  <2> QED BY <1>2, <1>3, <1>7, <2>1, SendSound, AccountsAssumption
<1>8. CASE taken = 0
  <2> HIDE DEF t, taken
  <2> QED BY <1>2, <1>6, <1>8 DEF IInv
<1> QED BY <1>7, <1>8

(* claim keeps IInv: the wallet and the total are written before it pays. *)
LEMMA ClaimSound ==
    ASSUME IInv, NEW sender \in Accounts, NEW denom \in Denoms,
           NEW wallet \in Accounts, Claim(sender, denom, wallet)
    PROVE  IInv'
<1> DEFINE e == [event |-> "Claimed", wallet |-> wallet, amount |-> denom]
           t == [st EXCEPT !.claimed[wallet] = TRUE,
                           !.totalClaimed = @ + denom]
           u == Emit(t, e)
<1>1. Sound(st, 0) /\ st \in Storage /\ denom \in Nat
  BY DenomsAssumption DEF IInv, Sound
<1>2. /\ ~ st.claimed[wallet]
      /\ st.totalClaimed + denom <= st.totalAnnounced
      /\ Send(u, wallet, denom) /\ UNCHANGED now
  BY DEF Claim, Unclaimed, Covered
<1>3. /\ t.claimed = [st.claimed EXCEPT ![wallet] = TRUE]
      /\ t.totalClaimed = st.totalClaimed + denom
      /\ t.deposits = st.deposits /\ t.nextId = st.nextId
      /\ t.balance = st.balance /\ t.log = st.log
      /\ t.totalAnnounced = st.totalAnnounced
      /\ t.claimed \in [Accounts -> BOOLEAN]
      /\ t.totalClaimed \in Nat
  BY <1>1 DEF Storage
<1>4. t \in Storage
  BY <1>1, <1>3 DEF Storage
<1>5. e \in Event
  BY <1>1 DEF Event
<1> HIDE DEF t
<1>13. /\ u \in Storage /\ u = [t EXCEPT !.log = u.log]
       /\ Len(t.log) \in Nat
       /\ DOMAIN t.log = 1 .. Len(t.log) /\ DOMAIN u.log = 1 .. Len(t.log) + 1
       /\ \A i \in 1 .. Len(t.log) : u.log[i] = t.log[i]
       /\ u.log[Len(t.log) + 1] = e
  BY <1>4, <1>5, EmitLog
<1> HIDE DEF u
<1>6. /\ u \in Storage /\ u = [t EXCEPT !.log = u.log]
      /\ Len(st.log) \in Nat
      /\ DOMAIN st.log = 1 .. Len(st.log) /\ DOMAIN u.log = 1 .. Len(st.log) + 1
      /\ \A i \in 1 .. Len(st.log) : u.log[i] = st.log[i]
      /\ u.log[Len(st.log) + 1] = e
  BY <1>3, <1>13
<1>7. /\ u.claimed = t.claimed /\ u.totalClaimed = t.totalClaimed
      /\ u.deposits = st.deposits /\ u.nextId = st.nextId
      /\ u.balance = st.balance /\ u.totalAnnounced = st.totalAnnounced
  BY <1>3, <1>4, <1>6 DEF Storage
<1>8. SolventWith(u, denom)
  <2>1. Held(u) = Held(st)
    BY <1>7 DEF Held
  <2>2. Total(Held(st), MaxDeposits) \in Nat
    BY <1>1, HeldType, SumBounds, BoundsAssumption DEF Total
  <2> QED BY <1>1, <1>3, <1>7, <2>1, <2>2 DEF Sound, SolventWith, Storage
<1>9. \A i \in DOMAIN u.log : i \in DOMAIN st.log \/ i = Len(st.log) + 1
  BY <1>6
<1>10. ClaimsRecorded(u)
  <2>1. \A i \in DOMAIN st.log :
           st.log[i].event = "Claimed" => /\ st.log[i].wallet # wallet
                                         /\ st.log[i].wallet \in Accounts
    <3>1. \A i \in DOMAIN st.log :
            st.log[i].event = "Claimed" => st.log[i].wallet \in Accounts
      BY <1>1 DEF Storage, Event
    <3> QED BY <1>1, <1>2, <3>1 DEF Sound, ClaimsRecorded
  <2>2. u.claimed[wallet] /\ \A a \in Accounts : st.claimed[a] => u.claimed[a]
    BY <1>1, <1>3, <1>7 DEF Storage
  <2>3. \A i \in DOMAIN u.log :
           u.log[i].event = "Claimed" => u.claimed[u.log[i].wallet]
    <3> SUFFICES ASSUME NEW i \in DOMAIN u.log, u.log[i].event = "Claimed"
                 PROVE  u.claimed[u.log[i].wallet]
      OBVIOUS
    <3>1. CASE i \in DOMAIN st.log
      BY <1>1, <1>6, <3>1, <2>1, <2>2 DEF Sound, ClaimsRecorded
    <3>2. CASE i = Len(st.log) + 1
      BY <1>6, <3>2, <2>2
    <3> QED BY <1>9, <3>1, <3>2
  <2>4. \A i, j \in DOMAIN u.log :
          /\ u.log[i].event = "Claimed" /\ u.log[j].event = "Claimed"
          /\ u.log[i].wallet = u.log[j].wallet
          => i = j
    <3> SUFFICES ASSUME NEW i \in DOMAIN u.log, NEW j \in DOMAIN u.log,
                        u.log[i].event = "Claimed", u.log[j].event = "Claimed",
                        u.log[i].wallet = u.log[j].wallet
                 PROVE  i = j
      OBVIOUS
    <3>1. CASE i \in DOMAIN st.log /\ j \in DOMAIN st.log
      BY <1>1, <1>6, <3>1 DEF Sound, ClaimsRecorded
    <3>2. CASE i = Len(st.log) + 1 /\ j \in DOMAIN st.log
      BY <1>6, <3>2, <2>1
    <3>3. CASE i \in DOMAIN st.log /\ j = Len(st.log) + 1
      BY <1>6, <3>3, <2>1
    <3> QED BY <1>9, <3>1, <3>2, <3>3
  <2> QED BY <2>3, <2>4 DEF ClaimsRecorded
<1>11. OutcomesRecorded(u)
  <2>1. \A i \in DOMAIN u.log :
           u.log[i].event \in Outcomes
           => i \in DOMAIN st.log /\ u.log[i] = st.log[i]
    <3>1. e.event \notin Outcomes
      BY DEF Outcomes
    <3> HIDE DEF e
    <3> QED BY <1>6, <1>9, <3>1
  <2> QED BY <1>1, <1>7, <2>1 DEF Sound, OutcomesRecorded
<1>12. Sound(u, denom)
  BY <1>1, <1>2, <1>3, <1>6, <1>7, <1>8, <1>10, <1>11 DEF Sound
<1> QED BY <1>1, <1>2, <1>12, SendSound DEF u

-----------------------------------------------------------------------------
(* The constructor establishes IInv. *)
LEMMA InitSound == Init => IInv
<1> SUFFICES ASSUME Init PROVE IInv
  OBVIOUS
<1>1. st \in Storage
  <2>1. None \in DepositRecord
    BY AccountsAssumption DEF None, DepositRecord, Statuses
  <2> QED BY <2>1 DEF Init, Storage
<1>2. SolventWith(st, 0)
  <2> DEFINE f == Held(st)
  <2>1. f \in [1 .. MaxDeposits -> Nat] /\ \A i \in 1 .. MaxDeposits : f[i] = 0
    BY <1>1, HeldType DEF Init, None, Held, Ids
  <2> HIDE DEF f
  <2>2. Total(f, MaxDeposits) = 0
    BY <2>1, TotalZero, BoundsAssumption
  <2> QED BY <2>2 DEF SolventWith, Init, f
<1>3. DOMAIN st.log = {}
  BY DEF Init
<1>4. ClaimsRecorded(st) /\ OutcomesRecorded(st)
  BY <1>3 DEF ClaimsRecorded, OutcomesRecorded
<1>5. Sound(st, 0)
  BY <1>1, <1>2, <1>4 DEF Sound, Init, None
<1> QED BY <1>5 DEF IInv, Init

(* A payee that returns or refuses keeps IInv: every saved storage is sound. *)
LEMMA UnwindSound ==
    ASSUME IInv, Return \/ Refuse
    PROVE  IInv'
<1> DEFINE n == Len(stack)
<1>1. /\ stack \in Seq([to : Accounts, saved : Storage]) /\ stack # <<>>
      /\ n \in Nat \ {0} /\ stack' = Front(stack) /\ UNCHANGED now
  BY DEF IInv, Return, Refuse
<1>2. /\ stack' \in Seq([to : Accounts, saved : Storage])
      /\ \A i \in DOMAIN stack' : i \in DOMAIN stack /\ stack'[i] = stack[i]
  <2>1. n - 1 \in Nat /\ stack' = SubSeq(stack, 1, n - 1)
    BY <1>1 DEF Front
  <2> DEFINE Frame == [to : Accounts, saved : Storage]
  <2>7. stack \in Seq(Frame)
    BY <1>1
  <2>4. \A i \in 1 .. n - 1 : stack[i] \in Frame
    <3> HIDE DEF Frame
    <3> QED BY <1>1, <2>7
  <2>5. n - 1 \in Int /\ 1 \in Int
    BY <1>1
  <2> HIDE DEF Frame, n
  <2>6. /\ SubSeq(stack, 1, n - 1) \in Seq(Frame)
        /\ Len(SubSeq(stack, 1, n - 1)) = IF 1 <= n - 1 THEN n - 1 - 1 + 1 ELSE 0
        /\ \A i \in 1 .. n - 1 - 1 + 1 : SubSeq(stack, 1, n - 1)[i] = stack[1 + i - 1]
    BY <2>4, <2>5, SubSeqProperties
  <2>2. /\ Len(stack') = n - 1
        /\ \A i \in 1 .. n - 1 : stack'[i] = stack[i]
    BY <2>1, <2>6
  <2>3. stack' \in Seq([to : Accounts, saved : Storage])
    BY <2>1, <2>6 DEF Frame
  <2> USE DEF n
  <2> QED BY <1>1, <2>1, <2>2, <2>3
<1>3. Last(stack) = stack[n] /\ n \in DOMAIN stack
  BY <1>1 DEF Last
<1>4. Sound(st', 0)
  BY <1>3 DEF IInv, Return, Refuse
<1>5. \A i \in DOMAIN stack' : Sound(stack'[i].saved, 0)
  BY <1>2 DEF IInv
<1> QED BY <1>1, <1>2, <1>4, <1>5 DEF IInv

(* IInv is inductive. *)
LEMMA NextSound == IInv /\ [Next]_vars => IInv'
<1> SUFFICES ASSUME IInv, [Next]_vars PROVE IInv'
  OBVIOUS
<1>1. ASSUME NEW sender \in Accounts, NEW value \in Values,
             NEW points \in PointCounts, Deposit(sender, value, points)
      PROVE  IInv'
  BY <1>1, DepositSound, BoundsAssumption
<1>2. ASSUME NEW sender \in Accounts, NEW report \in Reports,
             Announce(sender, report)
      PROVE  IInv'
  BY <1>2, AnnounceSound
<1>3. ASSUME NEW sender \in Accounts, NEW denom \in Denoms,
             NEW wallet \in Accounts, Claim(sender, denom, wallet)
      PROVE  IInv'
  BY <1>3, ClaimSound
<1>4. ASSUME NEW sender \in Accounts, NEW id \in Ids,
             RefundByMint(sender, id) \/ RefundByDepositor(sender, id)
      PROVE  IInv'
  BY <1>4, RefundSound DEF RefundByMint, RefundByDepositor
<1>5. CASE Return \/ Refuse
  BY <1>5, UnwindSound
<1>6. CASE Tick
  BY <1>6 DEF Tick, IInv
<1>7. CASE UNCHANGED vars
  BY <1>7 DEF vars, IInv
<1> QED BY <1>1, <1>2, <1>3, <1>4, <1>5, <1>6, <1>7 DEF Next

-----------------------------------------------------------------------------
(* The inductive invariant holds in every behaviour of the contract: every  *)
(* storage, current or saved by an open payment, is sound, also in between. *)
THEOREM Invariance == Spec => []IInv
BY InitSound, NextSound, PTL DEF Spec

(* Every storage the contract reaches or may restore has its type. *)
THEOREM TypeCorrect == Spec => []TypeOK
<1>1. IInv => TypeOK
  BY DEF IInv, Sound, TypeOK
<1> QED BY <1>1, Invariance, PTL

(***************************************************************************)
(* The balance is what the pending deposits and the unclaimed notes are    *)
(* worth, for every ladder, any number of deposits, any signatures and any *)
(* depth of re-entrant calls.                                              *)
(***************************************************************************)
THEOREM Solvency == Spec => []Solvent
<1>1. IInv => Solvent
  <2> SUFFICES ASSUME IInv PROVE Solvent
    OBVIOUS
  <2>1. st \in Storage /\ SolventWith(st, 0)
    BY DEF IInv, Sound
  <2>2. Total(Held(st), MaxDeposits) \in Nat
    BY <2>1, HeldType, SumBounds, BoundsAssumption DEF Total
  <2> QED BY <2>1, <2>2 DEF SolventWith, Solvent, Storage
<1> QED BY <1>1, Invariance, PTL

(* No more value is claimed than was announced, whatever the key signed. *)
THEOREM NoteValueBounded == Spec => []NoOverdraft
<1>1. IInv => NoOverdraft
  BY DEF IInv, Sound, NoOverdraft
<1> QED BY <1>1, Invariance, PTL

(* A wallet is never paid for a second note. *)
THEOREM WalletPaidOnce == Spec => []OneNotePerWallet
<1>1. IInv => OneNotePerWallet
  BY DEF IInv, Sound, ClaimsRecorded, OneNotePerWallet
<1> QED BY <1>1, Invariance, PTL

(* A deposit is announced or refunded, and never both or twice. *)
THEOREM DepositEndsOnce == Spec => []OneOutcome
<1>1. IInv => OneOutcome
  BY DEF IInv, Sound, OutcomesRecorded, OneOutcome
<1> QED BY <1>1, Invariance, PTL

-----------------------------------------------------------------------------
(***************************************************************************)
(* What one operation of the contract may make of its ledger and its log,  *)
(* and what that means for a storage that an open payment may restore.     *)
(***************************************************************************)

(* No deposit carries more points than the duplicate map can tell apart,    *)
(* and no announcement repeats one.                                         *)
PointsOK(s) ==
    /\ \A id \in Ids : s.deposits[id].points <= MaxPoints
    /\ \A n \in DOMAIN s.log :
          s.log[n].event = "Announced" => IsInjective(s.log[n].points)

(* What the announced deposits have bought. *)
Sold(s) == [id \in Ids |-> IF s.deposits[id].status = "Announced"
                           THEN mintable(s.deposits[id].amount) ELSE 0]

(* The two running totals are what the ledger and the log say. *)
Booked(s) ==
    /\ s.totalAnnounced = Total(Sold(s), MaxDeposits)
    /\ s.totalClaimed = SumOver(PaidNotes(s.log), Accounts)

(* t may follow s: a deposit that ended has not changed, none has another   *)
(* amount, and the notes that were paid are what they were.                 *)
DepositEvolves(d, e) ==
    /\ e.status \in Ideal!May[d.status]
    /\ e.amount # d.amount => d.status = "None"

NoteEvolves(m, n) == n # m => m = 0 /\ n \in Denoms

Evolves(s, t) ==
    /\ \A id \in Ids : DepositEvolves(s.deposits[id], t.deposits[id])
    /\ \A a \in Accounts : NoteEvolves(PaidNotes(s.log)[a], PaidNotes(t.log)[a])

Kept(s) == PointsOK(s) /\ Booked(s)

(***************************************************************************)
(* Together with IInv the inductive invariant of the refinement: Evolves   *)
(* orders the storages that the open payments may restore, outermost       *)
(* first, and the current one comes last.                                  *)
(***************************************************************************)
HistoryInv ==
    /\ Kept(st)
    /\ \A i \in DOMAIN stack : Kept(stack[i].saved) /\ Evolves(stack[i].saved, st)
    /\ \A i, j \in DOMAIN stack : i < j => Evolves(stack[i].saved, stack[j].saved)

-----------------------------------------------------------------------------
(* Evolves is an order. *)

(* The life of a deposit has no way back. *)
LEMMA MayOrder ==
    /\ \A a \in Statuses : a \in Ideal!May[a] /\ Ideal!May[a] \subseteq Statuses
    /\ \A a, b, c \in Statuses :
          b \in Ideal!May[a] /\ c \in Ideal!May[b] => c \in Ideal!May[a]
    /\ \A a \in Statuses : "None" \in Ideal!May[a] => a = "None"
    /\ \A a \in Outcomes : Ideal!May[a] = {a}
BY DEF Ideal!May, Statuses, Outcomes

(* An operation that changes nothing evolves.                               *)
LEMMA EvolvesNot ==
    ASSUME NEW s \in Storage
    PROVE  Evolves(s, s)
<1>1. \A id \in Ids : s.deposits[id].status \in Statuses
  BY DEF Storage, DepositRecord
<1> QED BY <1>1, MayOrder DEF Evolves, DepositEvolves, NoteEvolves

(* Two operations in a row evolve.                                          *)
LEMMA EvolvesOn ==
    ASSUME NEW s \in Storage, NEW t \in Storage, NEW u \in Storage,
           Evolves(s, t), Evolves(t, u)
    PROVE  Evolves(s, u)
<1>1. ASSUME NEW id \in Ids
      PROVE  DepositEvolves(s.deposits[id], u.deposits[id])
  <2>1. /\ s.deposits[id].status \in Statuses /\ t.deposits[id].status \in Statuses
        /\ u.deposits[id].status \in Statuses
    BY DEF Storage, DepositRecord
  <2>2. /\ DepositEvolves(s.deposits[id], t.deposits[id])
        /\ DepositEvolves(t.deposits[id], u.deposits[id])
    BY DEF Evolves
  <2> QED BY <2>1, <2>2, MayOrder DEF DepositEvolves
<1>2. ASSUME NEW a \in Accounts
      PROVE  NoteEvolves(PaidNotes(s.log)[a], PaidNotes(u.log)[a])
  <2>1. /\ NoteEvolves(PaidNotes(s.log)[a], PaidNotes(t.log)[a])
        /\ NoteEvolves(PaidNotes(t.log)[a], PaidNotes(u.log)[a])
    BY DEF Evolves
  <2>2. 0 \notin Denoms
    BY DenomsAssumption
  <2> QED BY <2>1, <2>2 DEF NoteEvolves
<1> QED BY <1>1, <1>2 DEF Evolves

(* A deposit that has ended stays as it is. *)
LEMMA EvolvesFinal ==
    ASSUME NEW s \in Storage, NEW t \in Storage, Evolves(s, t),
           NEW id \in Ids, s.deposits[id].status \in Outcomes
    PROVE  t.deposits[id].status = s.deposits[id].status
BY MayOrder DEF Evolves, DepositEvolves

-----------------------------------------------------------------------------
(* What an event, a ledger entry or a claim makes of the books. *)

(* The notes are numbers, and depend on the Claimed events only. *)
LEMMA NotesType ==
    ASSUME NEW s \in Storage
    PROVE  PaidNotes(s.log) \in [Accounts -> Nat]
<1> SUFFICES ASSUME NEW a \in Accounts, ClaimsOf(s.log, a) # {}
             PROVE  s.log[ClaimPaying(s.log, a)].amount \in Nat
  BY DEF PaidNotes
<1> DEFINE i == ClaimPaying(s.log, a)
<1>1. i \in ClaimsOf(s.log, a)
  BY DEF ClaimPaying
<1> HIDE DEF i
<1>2. i \in DOMAIN s.log /\ s.log[i].event = "Claimed" /\ s.log \in Seq(Event)
  BY <1>1 DEF ClaimsOf, Storage
<1>3. s.log[i] \in Event
  BY <1>2
<1>4. s.log[i].amount \in Nat
  BY <1>2, <1>3 DEF Event
<1> QED BY <1>4 DEF i

(* The log u is the log l and one event more. *)
Longer(l, u, e) ==
    /\ Len(l) \in Nat
    /\ DOMAIN l = 1 .. Len(l) /\ DOMAIN u = 1 .. Len(l) + 1
    /\ \A i \in 1 .. Len(l) : u[i] = l[i]
    /\ u[Len(l) + 1] = e

(* An event other than a claim pays no wallet ...                           *)
LEMMA NotesSame ==
    ASSUME NEW l, NEW u, NEW e, Longer(l, u, e), e.event # "Claimed"
    PROVE  PaidNotes(u) = PaidNotes(l)
<1>1. \A a \in Accounts : ClaimsOf(u, a) = ClaimsOf(l, a)
  BY DEF ClaimsOf, Longer
<1>2. \A a \in Accounts : \A i \in ClaimsOf(l, a) : u[i] = l[i]
  BY DEF ClaimsOf, Longer
<1>3. ASSUME NEW a \in Accounts, ClaimsOf(l, a) # {}
      PROVE  ClaimPaying(l, a) \in ClaimsOf(l, a)
  BY <1>3 DEF ClaimPaying
<1>4. ASSUME NEW a \in Accounts
      PROVE  ClaimPaying(u, a) = ClaimPaying(l, a)
  BY <1>1, Zenon DEF ClaimPaying
<1>5. \A a \in Accounts : PaidNotes(u)[a] = PaidNotes(l)[a]
  BY <1>1, <1>2, <1>3, <1>4 DEF PaidNotes
<1> QED BY <1>5 DEF PaidNotes

(* ... and a claim pays one that had nothing.                               *)
LEMMA NotesPaid ==
    ASSUME NEW l, NEW u, NEW e, Longer(l, u, e), e.event = "Claimed",
           NEW w \in Accounts, e.wallet = w, ClaimsOf(l, w) = {}
    PROVE  /\ PaidNotes(l)[w] = 0 /\ PaidNotes(u)[w] = e.amount
           /\ \A a \in Accounts : a # w => PaidNotes(u)[a] = PaidNotes(l)[a]
<1>1. \A a \in Accounts : a # w => ClaimsOf(u, a) = ClaimsOf(l, a)
  BY DEF ClaimsOf, Longer
<1>2. \A a \in Accounts : \A i \in ClaimsOf(l, a) : u[i] = l[i]
  BY DEF ClaimsOf, Longer
<1>3. ASSUME NEW a \in Accounts, ClaimsOf(l, a) # {}
      PROVE  ClaimPaying(l, a) \in ClaimsOf(l, a)
  BY <1>3 DEF ClaimPaying
<1>4. ClaimsOf(u, w) = {Len(l) + 1}
  BY DEF ClaimsOf, Longer
<1>5. ClaimPaying(u, w) = Len(l) + 1
  BY <1>4 DEF ClaimPaying
<1>6. u[Len(l) + 1].amount = e.amount
  BY DEF Longer
<1>7. PaidNotes(u)[w] = e.amount
  BY <1>4, <1>5, <1>6 DEF PaidNotes
<1>9. ASSUME NEW a \in Accounts, a # w
      PROVE  ClaimPaying(u, a) = ClaimPaying(l, a)
  BY <1>1, <1>9, Zenon DEF ClaimPaying
<1>8. \A a \in Accounts : a # w => PaidNotes(u)[a] = PaidNotes(l)[a]
  BY <1>1, <1>2, <1>3, <1>9 DEF PaidNotes
<1> QED BY <1>7, <1>8 DEF PaidNotes

(* What is sold is a sequence of numbers. *)
LEMMA SoldType ==
    ASSUME NEW s \in Storage
    PROVE  Sold(s) \in [1 .. MaxDeposits -> Nat]
BY MintableBound DEF Sold, Storage, DepositRecord, Ids

(***************************************************************************)
(* One entry of the ledger changes, and what is announced changes with     *)
(* what the entry has sold: the books hold, and the storage has evolved.   *)
(***************************************************************************)
LEMMA EntryBooked ==
    ASSUME NEW s \in Storage, NEW t \in Storage, Booked(s), NEW id \in Ids,
           \A i \in Ids : i # id => t.deposits[i] = s.deposits[i],
           DepositEvolves(s.deposits[id], t.deposits[id]),
           t.totalAnnounced = s.totalAnnounced + Sold(t)[id] - Sold(s)[id],
           t.totalClaimed = s.totalClaimed,
           PaidNotes(t.log) = PaidNotes(s.log)
    PROVE  Booked(t) /\ Evolves(s, t)
<1> DEFINE f == Sold(s)
           g == Sold(t)
<1>1. /\ f \in [1 .. MaxDeposits -> Nat] /\ g \in [1 .. MaxDeposits -> Nat]
      /\ id \in 1 .. MaxDeposits /\ MaxDeposits \in Nat
      /\ \A i \in 1 .. MaxDeposits : i # id => g[i] = f[i]
  BY SoldType, BoundsAssumption DEF Ids, Sold
<1>2. t.totalAnnounced = s.totalAnnounced + g[id] - f[id]
  OBVIOUS
<1> HIDE DEF f, g
<1>3. Total(g, MaxDeposits) = Total(f, MaxDeposits) + g[id] - f[id]
  BY <1>1, SumChange
<1>4. Booked(t)
  BY <1>2, <1>3 DEF Booked, f, g
<1>5. \A i \in Ids : s.deposits[i].status \in Statuses
  BY DEF Storage, DepositRecord
<1>6. \A i \in Ids : DepositEvolves(s.deposits[i], t.deposits[i])
  BY <1>5, MayOrder DEF DepositEvolves
<1> QED BY <1>4, <1>6 DEF Evolves, NoteEvolves

(* One wallet is paid its first note, and what is claimed grows with it. *)
LEMMA ClaimBooked ==
    ASSUME NEW s \in Storage, NEW t \in Storage, Booked(s),
           t.deposits = s.deposits, t.totalAnnounced = s.totalAnnounced,
           NEW denom \in Denoms, NEW w \in Accounts,
           PaidNotes(s.log)[w] = 0, PaidNotes(t.log)[w] = denom,
           \A a \in Accounts : a # w => PaidNotes(t.log)[a] = PaidNotes(s.log)[a],
           t.totalClaimed = s.totalClaimed + denom
    PROVE  Booked(t) /\ Evolves(s, t)
<1> DEFINE f == PaidNotes(s.log)
           g == PaidNotes(t.log)
<1>1. f \in [Accounts -> Nat] /\ g \in [Accounts -> Nat]
  BY NotesType
<1>2. /\ f[w] = 0 /\ g[w] = denom /\ \A a \in Accounts : a # w => g[a] = f[a]
  OBVIOUS
<1> HIDE DEF f, g
<1>3. SumOver(f, Accounts) \in Nat /\ SumOver(g, Accounts) = SumOver(f, Accounts) + g[w] - f[w]
  BY <1>1, <1>2, SumOverChange, AccountsAssumption
<1>4. Sold(t) = Sold(s)
  BY DEF Sold
<1>5. denom \in Nat
  BY DenomsAssumption
<1>6. Booked(t)
  BY <1>2, <1>3, <1>4, <1>5 DEF Booked, f, g
<1>7. \A i \in Ids : DepositEvolves(s.deposits[i], t.deposits[i])
  <2>1. \A i \in Ids : s.deposits[i].status \in Statuses
    BY DEF Storage, DepositRecord
  <2> QED BY <2>1, MayOrder DEF DepositEvolves
<1>8. \A a \in Accounts : NoteEvolves(f[a], g[a])
  BY <1>2 DEF NoteEvolves
<1> QED BY <1>6, <1>7, <1>8 DEF Evolves, f, g

-----------------------------------------------------------------------------
(* What the statements of an operation leave alone. *)

(* An operation pays nobody, or leaves the storage behind in a new frame. *)
Pays == \/ stack' = stack
        \/ \E to \in Accounts : stack' = Append(stack, [to |-> to, saved |-> st])

(* What Send leaves alone. *)
LEMMA SendKeeps ==
    ASSUME NEW s \in Storage, NEW to \in Accounts, NEW amount, Send(s, to, amount)
    PROVE  /\ st'.deposits = s.deposits /\ st'.log = s.log
           /\ st'.totalAnnounced = s.totalAnnounced
           /\ st'.totalClaimed = s.totalClaimed
           /\ Pays
BY DEF Send, Storage, Pays

(* An event of its type keeps the storage typed and its points in order.    *)
LEMMA EmitKeeps ==
    ASSUME NEW s \in Storage, NEW e \in Event, PointsOK(s),
           e.event = "Announced" => IsInjective(e.points)
    PROVE  /\ Emit(s, e) \in Storage
           /\ Emit(s, e).deposits = s.deposits
           /\ Emit(s, e).totalAnnounced = s.totalAnnounced
           /\ Emit(s, e).totalClaimed = s.totalClaimed
           /\ Longer(s.log, Emit(s, e).log, e)
           /\ PointsOK(Emit(s, e))
<1> DEFINE t == Emit(s, e)
<1>1. /\ t \in Storage /\ t = [s EXCEPT !.log = t.log]
      /\ DOMAIN s.log = 1 .. Len(s.log) /\ DOMAIN t.log = 1 .. Len(s.log) + 1
      /\ \A i \in 1 .. Len(s.log) : t.log[i] = s.log[i]
      /\ t.log[Len(s.log) + 1] = e /\ Len(s.log) \in Nat
  BY EmitLog
<1> HIDE DEF t
<1>2. /\ t.deposits = s.deposits /\ t.totalAnnounced = s.totalAnnounced
      /\ t.totalClaimed = s.totalClaimed
  BY <1>1 DEF Storage
<1>3. \A n \in DOMAIN t.log : n \in DOMAIN s.log \/ n = Len(s.log) + 1
  BY <1>1
<1>4. \A n \in DOMAIN t.log :
          t.log[n].event = "Announced" => IsInjective(t.log[n].points)
  BY <1>1, <1>3 DEF PointsOK
<1>5. Longer(s.log, t.log, e)
  BY <1>1 DEF Longer
<1> QED BY <1>1, <1>2, <1>4, <1>5 DEF PointsOK, t

(* Either way the history is kept: the open payments come first.          *)
LEMMA OperationKeeps ==
    ASSUME IInv, IInv', HistoryInv, Kept(st'), Evolves(st, st'), Pays
    PROVE  HistoryInv'
<1>0. /\ st \in Storage /\ st' \in Storage
      /\ \A i \in DOMAIN stack : stack[i].saved \in Storage
  BY DEF IInv, Sound
<1>1. \A i \in DOMAIN stack : Evolves(stack[i].saved, st')
  BY <1>0, EvolvesOn DEF HistoryInv
<1>2. CASE stack' = stack
  BY <1>1, <1>2 DEF HistoryInv
<1>3. ASSUME NEW to \in Accounts,
             stack' = Append(stack, [to |-> to, saved |-> st])
      PROVE  HistoryInv'
  <2> DEFINE n == Len(stack)
  <2>1. /\ n \in Nat /\ DOMAIN stack = 1 .. n /\ DOMAIN stack' = 1 .. n + 1
        /\ \A i \in 1 .. n : stack'[i] = stack[i]
        /\ stack'[n + 1].saved = st
    BY <1>3 DEF IInv
  <2> HIDE DEF n
  <2>2. \A i \in DOMAIN stack' : i \in DOMAIN stack \/ i = n + 1
    BY <2>1
  <2>3. \A i \in DOMAIN stack' :
            Kept(stack'[i].saved) /\ Evolves(stack'[i].saved, st')
    BY <1>1, <2>1, <2>2 DEF HistoryInv
  <2>4. \A i, j \in DOMAIN stack' : i < j => Evolves(stack'[i].saved, stack'[j].saved)
    BY <2>1, <2>2 DEF HistoryInv
  <2> QED BY <2>3, <2>4 DEF HistoryInv
<1> QED BY <1>2, <1>3 DEF Pays

-----------------------------------------------------------------------------
(* One lemma per operation: what it makes of the ledger. *)

LEMMA DepositEffect ==
    ASSUME IInv, HistoryInv, NEW sender \in Accounts, NEW value \in Nat,
           NEW points \in Nat, Deposit(sender, value, points)
    PROVE  /\ HistoryInv' /\ Evolves(st, st') /\ Pays
           /\ \A id \in Ids : \/ st'.deposits[id] = st.deposits[id]
                              \/ st'.deposits[id].status = "Pending"
<1> DEFINE id == st.nextId
           d == [depositor |-> sender, amount |-> value % (AmountLimit + 1),
                 points |-> points, deadline |-> now + RefundDelay,
                 status |-> "Pending"]
           opened == [st EXCEPT !.nextId = id + 1,
                                !.balance = @ + value,
                                !.deposits[id] = d]
           e == [event |-> "Deposited", id |-> id, amount |-> value]
<1>1. st \in Storage /\ now \in Nat /\ Sound(st, 0) /\ Kept(st)
  BY DEF IInv, Sound, HistoryInv
<1>2. /\ id \in Ids /\ value <= AmountLimit /\ points <= MaxPoints
      /\ st' = Emit(opened, e)
      /\ UNCHANGED <<stack, now>>
  BY DEF Deposit, FitsUint96, FitsMap
<1>14. IInv' /\ st' \in Storage
  BY DepositSound DEF IInv, Sound
<1>3. value % (AmountLimit + 1) = value
  <2>1. AmountLimit + 1 \in Nat /\ value < AmountLimit + 1
    BY <1>2, BoundsAssumption
  <2> QED BY <2>1, ModuloSmall
<1>4. d \in DepositRecord /\ e \in Event
  <2>1. now + RefundDelay \in Nat
    BY <1>1, BoundsAssumption
  <2>2. d \in DepositRecord
    BY <1>3, <2>1 DEF DepositRecord, Statuses
  <2>3. e \in Event
    BY <1>2 DEF Event
  <2> QED BY <2>2, <2>3
<1>5. /\ d.points <= MaxPoints /\ d.status = "Pending"
      /\ e.event # "Announced" /\ e.event # "Claimed"
  BY <1>2
<1> HIDE DEF d, e
<1>6. /\ opened.deposits = [st.deposits EXCEPT ![id] = d] /\ opened.log = st.log
      /\ opened.totalAnnounced = st.totalAnnounced
      /\ opened.totalClaimed = st.totalClaimed
  BY <1>1 DEF Storage
<1>7. opened \in Storage
  <2>1. id + 1 \in Nat /\ st.balance + value \in Nat
    BY <1>1, <1>2 DEF Ids, Storage
  <2>2. [st.deposits EXCEPT ![id] = d] \in [Ids -> DepositRecord]
    BY <1>1, <1>2, <1>4 DEF Storage
  <2> QED BY <1>1, <2>1, <2>2 DEF Storage
<1> HIDE DEF opened
<1>8. PointsOK(opened)
  BY <1>1, <1>5, <1>6 DEF PointsOK, Kept, Storage
<1>9. /\ PointsOK(st') /\ st'.deposits = opened.deposits
      /\ st'.totalAnnounced = st.totalAnnounced
      /\ st'.totalClaimed = st.totalClaimed
      /\ Longer(st.log, st'.log, e)
  BY <1>2, <1>4, <1>5, <1>6, <1>7, <1>8, EmitKeeps
<1>10. st.deposits[id].status = "None"
  BY <1>1, <1>2 DEF Sound, Ids
<1>11. Booked(st') /\ Evolves(st, st')
  <2>1. /\ \A i \in Ids : i # id => st'.deposits[i] = st.deposits[i]
        /\ st'.deposits[id] = d
    BY <1>1, <1>2, <1>6, <1>9 DEF Storage
  <2>2. DepositEvolves(st.deposits[id], st'.deposits[id])
    BY <1>5, <1>10, <2>1 DEF DepositEvolves, Ideal!May
  <2>3. Sold(st')[id] = 0 /\ Sold(st)[id] = 0 /\ st.totalAnnounced \in Nat
    BY <1>1, <1>2, <1>5, <1>10, <2>1 DEF Sold, Storage
  <2>4. st'.totalAnnounced = st.totalAnnounced + Sold(st')[id] - Sold(st)[id]
    BY <2>3, <1>9
  <2>5. PaidNotes(st'.log) = PaidNotes(st.log)
    BY <1>5, <1>9, NotesSame
  <2> QED BY <1>1, <1>2, <1>9, <1>14, <2>1, <2>2, <2>4, <2>5, EntryBooked DEF Kept
<1>12. HistoryInv' /\ Pays
  BY <1>2, <1>9, <1>11, <1>14, OperationKeeps DEF Kept, Pays
<1>13. \A i \in Ids : \/ st'.deposits[i] = st.deposits[i]
                      \/ st'.deposits[i].status = "Pending"
  BY <1>1, <1>5, <1>6, <1>9 DEF Storage
<1> QED BY <1>11, <1>12, <1>13

(* t differs from the storage in its deposits and in what is announced. *)
LedgerOnly(t) ==
    t = [st EXCEPT !.deposits = t.deposits, !.totalAnnounced = t.totalAnnounced]

(* A pending deposit that ends changes its status and nothing else. *)
LEMMA EndEffect ==
    ASSUME IInv, HistoryInv, NEW id \in Ids,
           st.deposits[id].status = "Pending", NEW outcome \in Outcomes,
           NEW sum \in Nat, NEW t, Settled(st, t, id, outcome, sum),
           LedgerOnly(t)
    PROVE  /\ t \in Storage /\ PointsOK(t)
           /\ t.log = st.log /\ t.totalClaimed = st.totalClaimed
           /\ t.totalAnnounced = st.totalAnnounced + sum
           /\ t.deposits[id].status = outcome
           /\ t.deposits[id].amount = st.deposits[id].amount
           /\ \A i \in Ids : i # id => t.deposits[i] = st.deposits[i]
<1>1. st \in Storage /\ st.deposits[id] \in DepositRecord
  BY DEF IInv, Sound, Storage
<1>2. /\ t.deposits = [st.deposits EXCEPT ![id] =
                          [st.deposits[id] EXCEPT !.status = outcome]]
      /\ t.log = st.log /\ t.totalAnnounced = st.totalAnnounced + sum
      /\ t.totalClaimed = st.totalClaimed
  BY DEF Settled
<1>3. [st.deposits[id] EXCEPT !.status = outcome] \in DepositRecord
  BY <1>1 DEF DepositRecord, Outcomes, Statuses
<1>4. t \in Storage
  <2>1. t.deposits \in [Ids -> DepositRecord]
    BY <1>1, <1>2, <1>3 DEF Storage
  <2>2. t.totalAnnounced \in Nat
    BY <1>1, <1>2 DEF Storage
  <2>3. t = [st EXCEPT !.deposits = t.deposits,
                       !.totalAnnounced = t.totalAnnounced]
    BY DEF LedgerOnly
  <2> QED BY <1>1, <2>1, <2>2, <2>3 DEF Storage
<1>5. \A i \in Ids : i # id => t.deposits[i] = st.deposits[i]
  BY <1>1, <1>2 DEF Storage
<1>6. /\ t.deposits[id].status = outcome
      /\ t.deposits[id].amount = st.deposits[id].amount
      /\ t.deposits[id].points = st.deposits[id].points
  BY <1>1, <1>2 DEF Storage, DepositRecord
<1>7. PointsOK(t)
  BY <1>2, <1>5, <1>6 DEF PointsOK, HistoryInv, Kept
<1> QED BY <1>2, <1>4, <1>5, <1>6, <1>7

(* Such an end is booked: what is announced grows by what the deposit bought. *)
LEMMA EndBooked ==
    ASSUME IInv, IInv', HistoryInv, NEW id \in Ids,
           st.deposits[id].status = "Pending", NEW outcome \in Outcomes,
           st'.deposits[id].status = outcome,
           st'.deposits[id].amount = st.deposits[id].amount,
           \A i \in Ids : i # id => st'.deposits[i] = st.deposits[i],
           st'.totalAnnounced = st.totalAnnounced
                + (IF outcome = "Announced" THEN mintable(st.deposits[id].amount) ELSE 0),
           st'.totalClaimed = st.totalClaimed,
           PaidNotes(st'.log) = PaidNotes(st.log)
    PROVE  Booked(st') /\ Evolves(st, st')
<1>1. st \in Storage /\ st' \in Storage /\ Booked(st)
  BY DEF IInv, Sound, HistoryInv, Kept
<1>2. DepositEvolves(st.deposits[id], st'.deposits[id])
  BY DEF DepositEvolves, Ideal!May, Outcomes
<1>3. /\ Sold(st)[id] = 0
      /\ Sold(st')[id] = IF outcome = "Announced" THEN mintable(st.deposits[id].amount) ELSE 0
  BY DEF Sold
<1>4. st.totalAnnounced \in Nat /\ Sold(st')[id] \in Nat
  BY <1>1, SoldType DEF Storage, Ids
<1>5. st'.totalAnnounced = st.totalAnnounced + Sold(st')[id] - Sold(st)[id]
  <2>1. st'.totalAnnounced = st.totalAnnounced + Sold(st')[id]
    BY <1>3
  <2> QED BY <2>1, <1>3, <1>4
<1> QED BY <1>1, <1>2, <1>5, EntryBooked

(* What each operation makes of the storage: refunds, ...                   *)
LEMMA RefundEffect ==
    ASSUME IInv, HistoryInv, NEW id \in Ids, Refund(id), UNCHANGED now
    PROVE  /\ HistoryInv' /\ Evolves(st, st') /\ Pays
           /\ \A i \in Ids : i # id => st'.deposits[i] = st.deposits[i]
<1> DEFINE d == st.deposits[id]
           e == [event |-> "Refunded", id |-> id, amount |-> d.amount]
           t == [st EXCEPT !.deposits[id].status = "Refunded"]
<1>1. /\ st \in Storage /\ d.amount \in Nat /\ d.depositor \in Accounts
      /\ d.status = "Pending" /\ Send(Emit(t, e), d.depositor, d.amount)
  BY DEF Refund, Awaits, Payee, IInv, Sound, Storage, DepositRecord
<1>8. IInv' /\ st.totalAnnounced \in Nat
  BY <1>1, RefundSound DEF Storage
<1>2. e \in Event /\ e.event # "Announced" /\ e.event # "Claimed"
  BY <1>1 DEF Event
<1>9. "Refunded" \in Outcomes /\ 0 \in Nat
  BY DEF Outcomes
<1>3. /\ t \in Storage /\ PointsOK(t) /\ t.log = st.log
      /\ t.totalAnnounced = st.totalAnnounced + 0
      /\ t.totalClaimed = st.totalClaimed
      /\ t.deposits[id].status = "Refunded"
      /\ t.deposits[id].amount = st.deposits[id].amount
      /\ \A i \in Ids : i # id => t.deposits[i] = st.deposits[i]
  <2>2. Settled(st, t, id, "Refunded", 0)
    BY <1>1 DEF Storage, Settled
  <2>3. LedgerOnly(t)
    BY <1>1 DEF Storage, LedgerOnly
  <2> HIDE DEF e, t
  <2> QED BY <1>1, <1>9, <2>2, <2>3, EndEffect
<1> HIDE DEF t, e
<1>4. /\ Emit(t, e) \in Storage /\ PointsOK(Emit(t, e))
      /\ Emit(t, e).deposits = t.deposits
      /\ Emit(t, e).totalAnnounced = t.totalAnnounced
      /\ Emit(t, e).totalClaimed = t.totalClaimed
      /\ Longer(t.log, Emit(t, e).log, e)
  BY <1>2, <1>3, EmitKeeps
<1>5. /\ st'.deposits = t.deposits /\ st'.log = Emit(t, e).log /\ Pays
      /\ st'.totalAnnounced = st.totalAnnounced + 0
      /\ st'.totalClaimed = st.totalClaimed
  BY <1>1, <1>3, <1>4, SendKeeps
<1>6. PointsOK(st')
  BY <1>4, <1>5 DEF PointsOK
<1>10. PaidNotes(st'.log) = PaidNotes(st.log)
  BY <1>2, <1>3, <1>4, <1>5, NotesSame
<1>11. Booked(st') /\ Evolves(st, st')
  BY <1>1, <1>3, <1>5, <1>8, <1>9, <1>10, EndBooked
<1>7. HistoryInv'
  BY <1>5, <1>6, <1>8, <1>11, OperationKeeps DEF Kept
<1> QED BY <1>3, <1>5, <1>7, <1>11

(* The indices that passed the duplicate map are all below its width, so a *)
(* repeated one would have met its own bit.                                 *)
LEMMA NoRepeat ==
    ASSUME NEW points \in Seq(Nat), ~ RepeatsPoint(points),
           \A i \in 1 .. Len(points) : points[i] < MaxPoints
    PROVE  IsInjective(points)
<1>1. \A i \in 1 .. Len(points) : Bit(points[i]) = {points[i]}
  BY BoundsAssumption DEF Bit
<1>2. \A i, j \in 1 .. Len(points) : i < j => points[i] # points[j]
  BY <1>1 DEF RepeatsPoint
<1>3. DOMAIN points = 1 .. Len(points) /\ Len(points) \in Nat
  OBVIOUS
<1> SUFFICES ASSUME NEW a \in DOMAIN points, NEW b \in DOMAIN points,
                    points[a] = points[b]
             PROVE  a = b
  BY DEF IsInjective
<1>4. ~ (a < b) /\ ~ (b < a)
  BY <1>2, <1>3
<1> QED BY <1>3, <1>4

(* ... announcements ...                                                    *)
LEMMA AnnounceEffect ==
    ASSUME IInv, HistoryInv, NEW sender \in Accounts, NEW report \in Reports,
           Announce(sender, report)
    PROVE  /\ HistoryInv' /\ Evolves(st, st') /\ Pays
           /\ \A i \in Ids : \/ st'.deposits[i] = st.deposits[i]
                             \/ st'.deposits[i].status = "Announced"
<1> DEFINE id == report.id
           d == st.deposits[id]
           sum == Total(report.denoms, Len(report.denoms))
           taken == d.amount - sum
           e == [event |-> "Announced", id |-> id,
                 points |-> report.points, sum |-> sum]
           t == [st EXCEPT !.deposits[id].status = "Announced",
                           !.totalAnnounced = @ + sum]
           f == [event |-> "Taxed", id |-> id, amount |-> taken]
<1>1. /\ st \in Storage /\ id \in Ids /\ d.amount \in Nat /\ d.points \in Nat
      /\ report.points \in Seq(Nat)
  BY BoundsAssumption DEF IInv, Sound, Storage, DepositRecord
<1>12. IInv' /\ st.totalAnnounced \in Nat
  BY <1>1, AnnounceSound DEF Storage
<1>2. /\ d.status = "Pending" /\ sum = mintable(d.amount)
      /\ \A i \in 1 .. Len(report.points) : report.points[i] < d.points
      /\ ~ RepeatsPoint(report.points)
      /\ IF taken # 0 THEN Send(Emit(Emit(t, e), f), Treasury, taken)
         ELSE st' = Emit(t, e) /\ stack' = stack
  BY DEF Announce, Awaits
<1>3. sum \in Nat /\ taken \in Nat
  <2>1. sum \in Nat /\ sum <= d.amount
    BY <1>1, <1>2, MintableBound
  <2> HIDE DEF sum
  <2> QED BY <1>1, <2>1
<1>4. IsInjective(report.points)
  <2>1. d.points <= MaxPoints
    BY <1>1 DEF HistoryInv, Kept, PointsOK
  <2>2. \A i \in 1 .. Len(report.points) : report.points[i] \in Nat
    BY <1>1
  <2>3. \A i \in 1 .. Len(report.points) : report.points[i] < MaxPoints
    <3> DEFINE p == report.points
               m == d.points
    <3>1. /\ \A i \in 1 .. Len(p) : p[i] \in Nat /\ p[i] < m
          /\ m \in Nat /\ m <= MaxPoints /\ MaxPoints \in Nat
      BY <1>1, <1>2, <2>1, <2>2, BoundsAssumption
    <3> HIDE DEF p, m
    <3>2. \A i \in 1 .. Len(p) : p[i] < MaxPoints
      BY <3>1
    <3> QED BY <3>2 DEF p
  <2> QED BY <1>1, <1>2, <2>3, NoRepeat
<1>5. e \in Event /\ IsInjective(e.points) /\ e.event # "Claimed"
  <2> HIDE DEF sum
  <2> QED BY <1>1, <1>3, <1>4 DEF Event
<1>6. f \in Event /\ f.event # "Announced" /\ f.event # "Claimed"
  <2> HIDE DEF taken
  <2> QED BY <1>1, <1>3 DEF Event
<1> HIDE DEF sum, e
<1>7. /\ t \in Storage /\ PointsOK(t) /\ t.log = st.log
      /\ t.totalAnnounced = st.totalAnnounced + sum
      /\ t.totalClaimed = st.totalClaimed
      /\ t.deposits[id].status = "Announced"
      /\ t.deposits[id].amount = st.deposits[id].amount
      /\ \A i \in Ids : i # id => t.deposits[i] = st.deposits[i]
  <2>1. "Announced" \in Outcomes
    BY DEF Outcomes
  <2>2. Settled(st, t, id, "Announced", sum)
    BY <1>1 DEF Storage, Settled
  <2>3. LedgerOnly(t)
    BY <1>1 DEF Storage, LedgerOnly
  <2> HIDE DEF t
  <2> QED BY <1>1, <1>2, <1>3, <2>1, <2>2, <2>3, EndEffect
<1> HIDE DEF t, taken, f
<1>8. /\ Emit(t, e) \in Storage /\ PointsOK(Emit(t, e))
      /\ Emit(t, e).deposits = t.deposits
      /\ Emit(t, e).totalAnnounced = t.totalAnnounced
      /\ Emit(t, e).totalClaimed = t.totalClaimed
      /\ PaidNotes(Emit(t, e).log) = PaidNotes(st.log)
  BY <1>5, <1>7, EmitKeeps, NotesSame
<1>9. /\ st'.deposits = t.deposits /\ PointsOK(st') /\ Pays
      /\ st'.totalAnnounced = t.totalAnnounced
      /\ st'.totalClaimed = t.totalClaimed
      /\ PaidNotes(st'.log) = PaidNotes(st.log)
  <2>1. CASE taken # 0
    <3> DEFINE u == Emit(t, e)
               v == Emit(u, f)
    <3>1. /\ u \in Storage /\ PointsOK(u) /\ f \in Event /\ f.event # "Announced"
      BY <1>6, <1>8
    <3> HIDE DEF u
    <3>2. /\ v \in Storage /\ PointsOK(v) /\ v.deposits = u.deposits
          /\ v.totalAnnounced = u.totalAnnounced
          /\ v.totalClaimed = u.totalClaimed /\ Longer(u.log, v.log, f)
      BY <3>1, EmitKeeps
    <3>3. PaidNotes(v.log) = PaidNotes(u.log)
      BY <1>6, <3>2, NotesSame
    <3>4. Send(v, Treasury, taken) /\ Treasury \in Accounts
      BY <1>2, <2>1, AccountsAssumption DEF u
    <3> HIDE DEF v
    <3>5. /\ st'.deposits = v.deposits /\ st'.log = v.log /\ Pays
          /\ st'.totalAnnounced = v.totalAnnounced
          /\ st'.totalClaimed = v.totalClaimed
      BY <3>2, <3>4, SendKeeps
    <3>6. PointsOK(st')
      BY <3>2, <3>5 DEF PointsOK
    <3> QED BY <1>8, <3>2, <3>3, <3>5, <3>6 DEF u
  <2>2. CASE taken = 0
    BY <1>2, <1>8, <2>2 DEF Pays
  <2> QED BY <2>1, <2>2
<1>10. Booked(st') /\ Evolves(st, st')
  <2>1. "Announced" \in Outcomes
    BY DEF Outcomes
  <2> QED BY <1>1, <1>2, <1>7, <1>9, <1>12, <2>1, EndBooked
<1>11. HistoryInv'
  BY <1>9, <1>10, <1>12, OperationKeeps DEF Kept
<1> QED BY <1>7, <1>9, <1>10, <1>11

(* ... and claims.                                                          *)
LEMMA ClaimEffect ==
    ASSUME IInv, HistoryInv, NEW sender \in Accounts, NEW denom \in Denoms,
           NEW wallet \in Accounts, Claim(sender, denom, wallet)
    PROVE  HistoryInv' /\ Evolves(st, st') /\ Pays /\ st'.deposits = st.deposits
<1> DEFINE e == [event |-> "Claimed", wallet |-> wallet, amount |-> denom]
           t == [st EXCEPT !.claimed[wallet] = TRUE,
                           !.totalClaimed = @ + denom]
<1>1. /\ st \in Storage /\ denom \in Nat /\ Send(Emit(t, e), wallet, denom)
      /\ ~ st.claimed[wallet] /\ Kept(st)
  BY DenomsAssumption DEF IInv, Sound, Claim, Unclaimed, HistoryInv
<1>8. IInv' /\ st' \in Storage
  BY ClaimSound DEF IInv, Sound
<1>2. /\ e \in Event /\ e.event # "Announced"
      /\ e.event = "Claimed" /\ e.wallet = wallet /\ e.amount = denom
  BY <1>1 DEF Event
<1>3. /\ t.claimed \in [Accounts -> BOOLEAN] /\ t.totalClaimed \in Nat
      /\ t.deposits = st.deposits /\ t.log = st.log
      /\ t.nextId = st.nextId /\ t.balance = st.balance
      /\ t.totalAnnounced = st.totalAnnounced
      /\ t.totalClaimed = st.totalClaimed + denom
  BY <1>1 DEF Storage
<1>4. t \in Storage /\ PointsOK(t)
  BY <1>1, <1>3 DEF Storage, PointsOK, Kept
<1> HIDE DEF t, e
<1>5. /\ Emit(t, e) \in Storage /\ PointsOK(Emit(t, e))
      /\ Emit(t, e).deposits = t.deposits
      /\ Emit(t, e).totalAnnounced = t.totalAnnounced
      /\ Emit(t, e).totalClaimed = t.totalClaimed
      /\ Longer(t.log, Emit(t, e).log, e)
  BY <1>2, <1>4, EmitKeeps
<1>6. /\ st'.deposits = st.deposits /\ st'.log = Emit(t, e).log /\ Pays
      /\ st'.totalAnnounced = st.totalAnnounced
      /\ st'.totalClaimed = st.totalClaimed + denom
  BY <1>1, <1>3, <1>5, SendKeeps
<1>7. PointsOK(st')
  BY <1>3, <1>5, <1>6 DEF PointsOK
<1>9. ClaimsOf(st.log, wallet) = {}
  BY <1>1 DEF IInv, Sound, ClaimsRecorded, ClaimsOf
<1>10. /\ PaidNotes(st.log)[wallet] = 0 /\ PaidNotes(st'.log)[wallet] = denom
       /\ \A a \in Accounts :
              a # wallet => PaidNotes(st'.log)[a] = PaidNotes(st.log)[a]
  BY <1>2, <1>3, <1>5, <1>6, <1>9, NotesPaid
<1>11. Booked(st') /\ Evolves(st, st')
  BY <1>1, <1>6, <1>8, <1>10, ClaimBooked DEF Kept
<1>12. HistoryInv'
  BY <1>6, <1>7, <1>8, <1>11, OperationKeeps DEF Kept
<1> QED BY <1>6, <1>11, <1>12

(* A payment that ends leaves the storages of the payments around it.       *)
LEMMA UnwindEffect ==
    ASSUME IInv, HistoryInv, Return \/ Refuse
    PROVE  /\ HistoryInv'
           /\ Evolves(st', st)
<1> DEFINE n == Len(stack)
<1>1. /\ n \in Nat \ {0} /\ stack' = SubSeq(stack, 1, n - 1)
      /\ Last(stack) = stack[n] /\ n \in DOMAIN stack
  BY DEF IInv, Return, Refuse, Front, Last
<1>2. /\ DOMAIN stack' = 1 .. n - 1
      /\ \A i \in 1 .. n - 1 : stack'[i] = stack[i] /\ i \in DOMAIN stack /\ i < n
  BY <1>1 DEF IInv
<1> HIDE DEF n
<1>3. \A i, j \in DOMAIN stack' : i < j => Evolves(stack'[i].saved, stack'[j].saved)
  BY <1>2 DEF HistoryInv
<1>4. CASE Return
  <2>1. st' = st /\ st \in Storage
    BY <1>4 DEF Return, IInv, Sound
  <2> QED BY <1>2, <1>3, <2>1, EvolvesNot DEF HistoryInv
<1>5. CASE Refuse
  <2>1. st' = stack[n].saved
    BY <1>1, <1>5 DEF Refuse
  <2>2. \A i \in DOMAIN stack' :
            Kept(stack'[i].saved) /\ Evolves(stack'[i].saved, st')
    BY <1>1, <1>2, <2>1 DEF HistoryInv
  <2> QED BY <1>1, <1>3, <2>1, <2>2 DEF HistoryInv
<1> QED BY <1>4, <1>5

-----------------------------------------------------------------------------
(* The theorems. *)

LEMMA HistoryAlways == Spec => []HistoryInv
<1>1. Init => HistoryInv
  <2> SUFFICES ASSUME Init PROVE HistoryInv
    OBVIOUS
  <2>1. PointsOK(st)
    BY BoundsAssumption DEF Init, PointsOK, None
  <2>2. st \in Storage
    BY InitSound DEF IInv, Sound
  <2>3. Total(Sold(st), MaxDeposits) = 0
    <3>1. \A id \in 1 .. MaxDeposits : Sold(st)[id] = 0
      BY DEF Init, Sold, None, Ids
    <3> QED BY <2>2, <3>1, SoldType, TotalZero, BoundsAssumption
  <2>4. SumOver(PaidNotes(st.log), Accounts) = 0
    <3>1. \A a \in Accounts : PaidNotes(st.log)[a] = 0
      BY DEF Init, PaidNotes, ClaimsOf
    <3> QED BY <2>2, <3>1, NotesType, SumOverZero, AccountsAssumption
  <2> QED BY <2>1, <2>3, <2>4 DEF Init, HistoryInv, Kept, Booked
<1>2. IInv /\ HistoryInv /\ [Next]_vars => HistoryInv'
  <2> SUFFICES ASSUME IInv, HistoryInv, [Next]_vars PROVE HistoryInv'
    OBVIOUS
  <2>1. ASSUME NEW sender \in Accounts, NEW value \in Values,
               NEW points \in PointCounts, Deposit(sender, value, points)
        PROVE  HistoryInv'
    BY <2>1, DepositEffect, BoundsAssumption
  <2>2. ASSUME NEW sender \in Accounts, NEW report \in Reports,
               Announce(sender, report)
        PROVE  HistoryInv'
    BY <2>2, AnnounceEffect
  <2>3. ASSUME NEW sender \in Accounts, NEW denom \in Denoms,
               NEW wallet \in Accounts, Claim(sender, denom, wallet)
        PROVE  HistoryInv'
    BY <2>3, ClaimEffect
  <2>4. ASSUME NEW sender \in Accounts, NEW id \in Ids,
               RefundByMint(sender, id) \/ RefundByDepositor(sender, id)
        PROVE  HistoryInv'
    BY <2>4, RefundEffect DEF RefundByMint, RefundByDepositor
  <2>5. CASE Return \/ Refuse
    BY <2>5, UnwindEffect
  <2>6. CASE Tick \/ UNCHANGED vars
    BY <2>6 DEF Tick, vars, HistoryInv
  <2> QED BY <2>1, <2>2, <2>3, <2>4, <2>5, <2>6 DEF Next
<1> QED BY <1>1, <1>2, Invariance, PTL DEF Spec

(* The duplicate map of _announce is as wide as the points that deposit     *)
(* lets in, so no announcement signs one blinded point twice.               *)
THEOREM PointsSignedOnce == Spec => []NoPointSignedTwice
<1>1. HistoryInv => NoPointSignedTwice
  BY DEF HistoryInv, Kept, PointsOK, NoPointSignedTwice
<1> QED BY <1>1, HistoryAlways, PTL

(* A deposit goes back before its deadline only when the forwarder says so: *)
(* by no call of the depositor, and by no payment that is refused.          *)
THEOREM RefundInTime == Spec => NoEarlyRefund
<1> DEFINE Early ==
               \A id \in Ids :
                   /\ st.deposits[id].status = "Pending"
                   /\ st'.deposits[id].status = "Refunded"
                   => \/ now >= st.deposits[id].deadline
                      \/ RefundByMint(Forwarder, id)
<1>1. ASSUME IInv, HistoryInv, Next PROVE Early
  <2>1. SUFFICES ASSUME NEW id \in Ids, st.deposits[id].status = "Pending",
                        st'.deposits[id].status = "Refunded"
                 PROVE  \/ now >= st.deposits[id].deadline
                        \/ RefundByMint(Forwarder, id)
    OBVIOUS
  <2>2. ASSUME NEW sender \in Accounts, NEW value \in Values,
               NEW points \in PointCounts, Deposit(sender, value, points)
        PROVE  FALSE
    BY <2>1, <2>2, <1>1, DepositEffect, BoundsAssumption
  <2>3. ASSUME NEW sender \in Accounts, NEW report \in Reports,
               Announce(sender, report)
        PROVE  FALSE
    BY <2>1, <2>3, <1>1, AnnounceEffect
  <2>4. ASSUME NEW sender \in Accounts, NEW denom \in Denoms,
               NEW wallet \in Accounts, Claim(sender, denom, wallet)
        PROVE  FALSE
    BY <2>1, <2>4, <1>1, ClaimEffect
  <2>5. ASSUME NEW sender \in Accounts, NEW i \in Ids, RefundByMint(sender, i)
        PROVE  RefundByMint(Forwarder, id)
    <3>1. i = id
      BY <2>1, <2>5, <1>1, RefundEffect DEF RefundByMint
    <3>2. sender = Forwarder
      BY <2>5 DEF RefundByMint
    <3> QED BY <2>5, <3>1, <3>2
  <2>6. ASSUME NEW sender \in Accounts, NEW i \in Ids,
               RefundByDepositor(sender, i)
        PROVE  now >= st.deposits[id].deadline
    <3>1. i = id
      BY <2>1, <2>6, <1>1, RefundEffect DEF RefundByDepositor
    <3> QED BY <2>6, <3>1 DEF RefundByDepositor, DelayPassed
  <2>7. CASE Return \/ Refuse
    <3>1. Evolves(st', st)
      BY <2>7, <1>1, UnwindEffect
    <3> QED BY <2>1, <3>1 DEF Evolves, DepositEvolves, Ideal!May
  <2>8. CASE Tick
    BY <2>1, <2>8 DEF Tick
  <2> QED BY <1>1, <2>2, <2>3, <2>4, <2>5, <2>6, <2>7, <2>8 DEF Next
<1>2. IInv /\ HistoryInv /\ [Next]_vars => [Early]_vars
  BY <1>1
<1> QED BY <1>2, HistoryAlways, Invariance, PTL DEF Spec, NoEarlyRefund


-----------------------------------------------------------------------------
(* The refinement. *)

(* The sums of the ideal mint are the sums of this module. *)
LEMMA IdealTotal ==
    ASSUME NEW f, NEW n PROVE Ideal!Total(f, n) = Total(f, n)
BY DEF Total, SumTo, Ideal!Total, Ideal!SumTo

(* The sums of the ideal mint are those of Sums.                            *)
LEMMA IdealSumOver ==
    ASSUME NEW f, NEW S PROVE Ideal!SumOver(f, S) = SumOver(f, S)
BY DEF SumOver, MapThenSumSet, MapThenFoldSet,
       Ideal!SumOver, Ideal!MapThenSumSet, Ideal!MapThenFoldSet

(* What the last complete transaction left is sound and kept. *)
LEMMA CommittedKept ==
    ASSUME IInv, HistoryInv
    PROVE  Sound(Committed, 0) /\ Kept(Committed)
<1>1. stack # <<>> => 1 \in DOMAIN stack
  BY DEF IInv
<1> QED BY <1>1 DEF IInv, HistoryInv, Committed

(***************************************************************************)
(* The books of the ideal mint follow from the balance (Sound) and from    *)
(* what the running totals stand for (Booked).                             *)
(***************************************************************************)
LEMMA IdealBooks ==
    ASSUME IInv, HistoryInv
    PROVE  Ideal!Books
<1> DEFINE s == Committed
<1>1. s \in Storage /\ Sound(s, 0) /\ Kept(s)
  BY CommittedKept DEF Sound
<1>2. Ideal!Pending = Total(Held(s), MaxDeposits)
  BY IdealTotal DEF Ideal!Pending, Ideal!IdealIds, Held, Ids
<1>3. Ideal!Bought = Total(Sold(s), MaxDeposits)
  BY IdealTotal DEF Ideal!Bought, Ideal!IdealIds, Sold, Ids
<1>4. Ideal!Paid = SumOver(PaidNotes(s.log), Accounts)
  BY IdealSumOver DEF Ideal!Paid
<1> HIDE DEF s
<1>5. /\ Ideal!Bought = s.totalAnnounced /\ Ideal!Paid = s.totalClaimed
      /\ s.totalClaimed <= s.totalAnnounced
      /\ s.balance = Ideal!Pending + s.totalAnnounced - s.totalClaimed + 0
  BY <1>1, <1>2, <1>3, <1>4 DEF Kept, Booked, Sound, SolventWith
<1>6. /\ s.totalAnnounced \in Nat /\ s.totalClaimed \in Nat
      /\ Total(Held(s), MaxDeposits) \in Nat
  BY <1>1, HeldType, SumBounds, BoundsAssumption DEF Storage, Total
<1>7. s.balance = Ideal!Pending + s.totalAnnounced - s.totalClaimed
  BY <1>2, <1>5, <1>6
<1> QED BY <1>5, <1>7 DEF Ideal!Books, s

(* The constructor builds an ideal mint with nothing in it. *)
LEMMA IdealInit == Init => Ideal!Init
<1> SUFFICES ASSUME Init PROVE Ideal!Init
  OBVIOUS
<1>1. Committed = st
  BY DEF Init, Committed
<1>2. PaidNotes(Committed.log) = [a \in Accounts |-> 0]
  BY <1>1 DEF Init, PaidNotes, ClaimsOf
<1>3. /\ [id \in Ids |-> Committed.deposits[id].status] = [id \in Ids |-> "None"]
      /\ [id \in Ids |-> Committed.deposits[id].amount] = [id \in Ids |-> 0]
      /\ Committed.balance = 0
  BY <1>1 DEF Init, None
<1> QED BY <1>2, <1>3 DEF Ideal!Init, Ideal!IdealIds, Ids

(* Between two transactions the storage evolves.  Within one, or when one  *)
(* is reverted, the last complete transaction stays what it was.           *)
LEMMA CommittedEvolves ==
    ASSUME IInv, HistoryInv, [Next]_vars
    PROVE  Evolves(Committed, Committed')
<1>0. st \in Storage /\ Committed \in Storage /\ stack \in Seq([to : Accounts, saved : Storage])
  BY CommittedKept DEF IInv, Sound
<1>1. ASSUME Evolves(st, st'), Pays
      PROVE  Evolves(Committed, Committed')
  <2>1. CASE stack' = stack
    <3>1. stack = <<>> \/ Committed' = Committed
      BY <2>1 DEF Committed
    <3> QED BY <1>0, <1>1, <2>1, <3>1, EvolvesNot DEF Committed
  <2>2. ASSUME NEW to \in Accounts, stack' = Append(stack, [to |-> to, saved |-> st])
        PROVE  Committed' = Committed
    <3>1. CASE stack = <<>>
      <4>1. stack' # <<>> /\ stack'[1].saved = st
        BY <2>2, <3>1
      <4> QED BY <3>1, <4>1 DEF Committed
    <3>2. CASE stack # <<>>
      <4>1. stack' # <<>> /\ stack'[1] = stack[1]
        BY <1>0, <2>2, <3>2
      <4> QED BY <3>2, <4>1 DEF Committed
    <3> QED BY <3>1, <3>2
  <2> QED BY <1>0, <1>1, <2>1, <2>2, EvolvesNot DEF Pays
<1>2. ASSUME NEW sender \in Accounts, NEW value \in Values,
             NEW points \in PointCounts, Deposit(sender, value, points)
      PROVE  Evolves(Committed, Committed')
  BY <1>1, <1>2, DepositEffect, BoundsAssumption
<1>3. ASSUME NEW sender \in Accounts, NEW report \in Reports,
             Announce(sender, report)
      PROVE  Evolves(Committed, Committed')
  BY <1>1, <1>3, AnnounceEffect
<1>4. ASSUME NEW sender \in Accounts, NEW denom \in Denoms,
             NEW wallet \in Accounts, Claim(sender, denom, wallet)
      PROVE  Evolves(Committed, Committed')
  BY <1>1, <1>4, ClaimEffect
<1>5. ASSUME NEW sender \in Accounts, NEW id \in Ids,
             RefundByMint(sender, id) \/ RefundByDepositor(sender, id)
      PROVE  Evolves(Committed, Committed')
  BY <1>1, <1>5, RefundEffect DEF RefundByMint, RefundByDepositor
<1>6. CASE Return \/ Refuse
  <2> DEFINE n == Len(stack)
  <2>1. /\ n \in Nat \ {0} /\ stack' = SubSeq(stack, 1, n - 1)
        /\ Last(stack) = stack[n] /\ stack # <<>>
    BY <1>0, <1>6 DEF Return, Refuse, Front, Last
  <2>2. CASE n = 1
    <3>1. stack' = <<>> /\ Committed' = st' /\ Committed = stack[1].saved
      BY <1>0, <2>1, <2>2 DEF Committed
    <3>2. 1 \in DOMAIN stack /\ Evolves(stack[1].saved, st)
      BY <1>0, <2>1, <2>2 DEF HistoryInv
    <3>3. st' = st \/ st' = stack[1].saved
      BY <1>6, <2>1, <2>2 DEF Return, Refuse
    <3> QED BY <1>0, <3>1, <3>2, <3>3, EvolvesNot
  <2>3. CASE n # 1
    <3>3. DOMAIN stack' = 1 .. n - 1 /\ \A i \in 1 .. n - 1 : stack'[i] = stack[i]
      BY <1>0, <2>1
    <3>4. 1 \in 1 .. n - 1
      <4> HIDE DEF n
      <4> QED BY <2>1, <2>3
    <3>1. stack' # <<>> /\ stack'[1] = stack[1]
      BY <3>3, <3>4
    <3>2. Committed' = Committed
      BY <2>1, <3>1 DEF Committed
    <3> QED BY <1>0, <3>2, EvolvesNot
  <2> QED BY <2>2, <2>3
<1>7. CASE Tick \/ UNCHANGED vars
  <2>1. Committed' = Committed
    BY <1>7 DEF Tick, vars, Committed
  <2> QED BY <1>0, <2>1, EvolvesNot
<1> QED BY <1>2, <1>3, <1>4, <1>5, <1>6, <1>7 DEF Next

(***************************************************************************)
(* The contract implements the ideal mint: for every ladder, any payees,   *)
(* any signatures and any depth of calls, each step of the contract is one *)
(* transaction of the ideal mint or none.                                  *)
(***************************************************************************)
THEOREM Refinement == Spec => ImplementsIdealMint
<1>1. IInv /\ HistoryInv /\ Ideal!Books' /\ [Next]_vars => Ideal!Transaction
  <2> SUFFICES ASSUME IInv, HistoryInv, Ideal!Books', [Next]_vars
               PROVE  Ideal!Transaction
    OBVIOUS
  <2>1. Evolves(Committed, Committed')
    BY CommittedEvolves
  <2>2. \A id \in Ids : DepositEvolves(Committed.deposits[id], Committed'.deposits[id])
    BY <2>1 DEF Evolves
  <2>3. \A a \in Accounts : NoteEvolves(PaidNotes(Committed.log)[a], PaidNotes(Committed.log)'[a])
    BY <2>1 DEF Evolves
  <2> QED BY <2>2, <2>3
          DEF Ideal!Transaction, Ideal!IdealIds, Ids, DepositEvolves, NoteEvolves
<1>2. IInv /\ HistoryInv => Ideal!Books
  BY IdealBooks
<1> QED BY <1>1, <1>2, IdealInit, Invariance, HistoryAlways, PTL
        DEF Spec, Ideal!Spec, ImplementsIdealMint

=============================================================================
