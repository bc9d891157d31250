------------------------------- MODULE Settler -------------------------------
(***************************************************************************)
(* The settler of the browser: app/lib/settle.ts and settler.ts, with the  *)
(* announcement search of mint.ts, the reclaim of refund.ts and the        *)
(* collecting step of the send screen.  The module follows one deposit     *)
(* from its transaction to its end.                                        *)
(*                                                                         *)
(* Every tab runs its own settler over the same database.  Between two     *)
(* awaits of one tab the other tabs, the user, the relayer and the chain   *)
(* move, and a write puts back whole records that were read earlier.  A    *)
(* pass may throw, and a page may reload, at every await.                  *)
(***************************************************************************)
EXTENDS Integers, FiniteSets, FiniteSetsExt

CONSTANTS
    Tabs,
    Sizes,          \* how many blinded points a deposit may carry, one note each
    SignedPoints,   \* the points the mint signs when it answers
    BadPoints,      \* those of them whose signature does not verify
    ANNOUNCE_WINDOW,
    RefundDelay,    \* in blocks
    Lag,            \* how many blocks a node may be behind the head
    MayRevert,      \* the deposit transaction can revert
    MayReclaim,     \* the user presses the button of the deposit screen
    MaxHead         \* bound on the chain

ASSUME SettlerAssumption ==
    /\ Sizes \subseteq Nat /\ Sizes # {}
    /\ SignedPoints \subseteq Nat /\ BadPoints \subseteq SignedPoints
    /\ ANNOUNCE_WINDOW \in Nat /\ RefundDelay \in Nat /\ Lag \in Nat
    /\ MayRevert \in BOOLEAN /\ MayReclaim \in BOOLEAN /\ MaxHead \in Nat \ {0}

VARIABLES
    \* the chain
    head,
    tx,             \* the deposit transaction: "mempool" | "mined" | "reverted"
    depositAt,      \* its block, 0 before it is mined
    outcome,        \* of the deposit: "pending" | "announced" | "refunded"
    outcomeAt,
    relayed,        \* claims of the relayer that no block holds
    paid,           \* notes that the contract paid
    emptied,        \* notes whose wallet gave its money away again
    \* given by the surroundings
    size,           \* how many points the deposit carries
    steady,         \* TRUE once no call fails and no page reloads
    \* the database, shared by the tabs
    deposit,        \* [numbered, deadline, status]
    notes,          \* [Points -> status]
    \* each tab
    tab,            \* [Tabs -> a pass: where it is and what it has read]
    collecting,     \* notes whose sweep landed and whose record is not written
    reclaim         \* the reclaim of the deposit screen

chain == <<head, tx, depositAt, outcome, outcomeAt, relayed, paid, emptied>>
db == <<deposit, notes>>
screens == <<collecting, reclaim>>
world == <<size, steady>>
vars == <<chain, world, db, tab, screens>>

Points == 1 .. size
Signed == SignedPoints \cap Points

Finished(status) == status \in {"claimed", "refunded", "stranded"}
Settled(status) == status \in {"claimed", "unused", "spent"}

NewDeposit == [numbered |-> FALSE, deadline |-> FALSE, status |-> "pending"]
NewNotes == [p \in Points |-> "awaiting-mint"]
NoPass == [at |-> "idle", rec |-> NewDeposit, stored |-> NewNotes,
           chain |-> "none", todo |-> {}]
NoReclaim == [at |-> "idle", rec |-> NewDeposit]

-----------------------------------------------------------------------------
(* The chain, the mint and the relayer's late claims. *)

Block ==
    /\ head < MaxHead
    /\ head' = head + 1
    /\ UNCHANGED <<world, tx, depositAt, outcome, outcomeAt, relayed, paid, emptied, db, tab, screens>>

MineDeposit ==
    /\ tx = "mempool"
    /\ \E result \in {"mined"} \cup (IF MayRevert THEN {"reverted"} ELSE {}) :
          tx' = result
    /\ depositAt' = head
    /\ UNCHANGED <<world, head, outcome, outcomeAt, relayed, paid, emptied, db, tab, screens>>

Announce ==
    /\ tx = "mined" /\ outcome = "pending"
    /\ outcome' = "announced" /\ outcomeAt' = head
    /\ UNCHANGED <<world, head, tx, depositAt, relayed, paid, emptied, db, tab, screens>>

(* A claim that the relayer stopped waiting for lands. *)
LandClaim(p) ==
    /\ p \in relayed
    /\ relayed' = relayed \ {p} /\ paid' = paid \cup {p}
    /\ UNCHANGED <<world, head, tx, depositAt, outcome, outcomeAt, emptied, db, tab, screens>>

(* A node answers for a block at or a little below the head. *)
Heights == {h \in 1 .. head : h + Lag >= head}

onChainStatus(h) ==
    IF tx # "mined" \/ depositAt > h THEN "none"
    ELSE IF outcome # "pending" /\ outcomeAt <= h THEN outcome
    ELSE "pending"

(* From here on no call fails and no page reloads. *)
BecomeSteady ==
    /\ ~ steady /\ steady' = TRUE
    /\ UNCHANGED <<size, chain, db, tab, screens>>

-----------------------------------------------------------------------------
(* One pass over the deposit. *)

Go(t, at) == tab' = [tab EXCEPT ![t].at = at]
Stop(t) == tab' = [tab EXCEPT ![t] = NoPass]
PutDeposit(rec) == deposit' = rec

(* depositsOf reads the record; every later write of the pass spreads it. *)
Start(t) ==
    /\ tab[t].at = "idle" /\ ~ Finished(deposit.status)
    /\ tab' = [tab EXCEPT ![t].at = IF deposit.numbered THEN "status" ELSE "receipt",
                          ![t].rec = deposit]
    /\ UNCHANGED <<world, chain, db, screens>>

(* A call throws, or the page reloads.  The next pass begins again. *)
Abandon(t) ==
    /\ tab[t].at # "idle" /\ ~ steady
    /\ Stop(t)
    /\ UNCHANGED <<world, chain, db, screens>>

(* No receipt yet throws; a reverted transaction returns. *)
ReadReceipt(t) ==
    /\ tab[t].at = "receipt" /\ tx # "mempool"
    /\ IF tx = "mined" THEN Go(t, "number") ELSE Stop(t)
    /\ UNCHANGED <<world, chain, db, screens>>

Number(t) ==
    /\ tab[t].at = "number"
    /\ PutDeposit([tab[t].rec EXCEPT !.numbered = TRUE])
    /\ Stop(t)
    /\ UNCHANGED <<world, chain, notes, screens>>

ReadStatus(t, h) ==
    LET status == onChainStatus(h)
    IN  /\ tab[t].at = "status"
        /\ tab' = [tab EXCEPT
              ![t].at = CASE status = "refunded" -> "refunded"
                          [] status = "none" -> "stranded"
                          [] OTHER -> "deadline",
              ![t].chain = status]
        /\ UNCHANGED <<world, chain, db, screens>>

PutEnd(t, status) ==
    /\ tab[t].at = status
    /\ PutDeposit([tab[t].rec EXCEPT !.status = status])
    /\ Stop(t)
    /\ UNCHANGED <<world, chain, notes, screens>>

(* The write goes to the database and not to the record in hand. *)
PutDeadline(t) ==
    /\ tab[t].at = "deadline"
    /\ IF tab[t].rec.deadline THEN UNCHANGED deposit
       ELSE PutDeposit([tab[t].rec EXCEPT !.deadline = TRUE])
    /\ Go(t, "notes")
    /\ UNCHANGED <<world, chain, notes, screens>>

Having(ns, status) == {p \in Points : ns[p] = status}
ReadyOrSpent(ns) == Having(ns, "ready") \cup Having(ns, "spent")
ReadyForgotten(ns) == {}
Ready(ns) == Having(ns, "ready")
DeadlinePassed == head >= depositAt + RefundDelay
DustAnnounced(status) == status = "announced"
DustOver(status) == status = "announced" \/ DeadlinePassed


(* A deposit without a note ends with the answer of the mint, or with the   *)
(* deadline.  Signatures of an earlier pass go before the announcement.     *)
ReadNotes(t) ==
    LET run == tab[t]
        ready == Ready(notes)
        next == IF Points = {}
                THEN IF DustOver(run.chain) THEN "claimed" ELSE "idle"
                ELSE IF ready # {} THEN "claim"
                ELSE IF Having(notes, "awaiting-mint") = {} THEN "finish"
                ELSE IF run.chain = "pending" THEN "idle" ELSE "search"
    IN  /\ run.at = "notes"
        /\ IF next = "idle" THEN Stop(t)
           ELSE tab' = [tab EXCEPT ![t].at = next, ![t].stored = notes,
                                   ![t].todo = ready]
        /\ UNCHANGED <<world, chain, db, screens>>

(* findAnnouncement: the search ends at the window or at the head. *)
Found(h) == /\ onChainStatus(h) = "announced"
            /\ outcomeAt <= depositAt + ANNOUNCE_WINDOW

Search(t, h) ==
    /\ tab[t].at = "search"
    /\ IF Found(h) THEN Go(t, "apply") ELSE Stop(t)
    /\ UNCHANGED <<world, chain, db, screens>>

Checked(stored) == Having(stored, "awaiting-mint") \cap SignedPoints
Verified(stored) == Checked(stored) \ BadPoints
LeftOutAll(stored) == Having(stored, "awaiting-mint")
LeftOut(stored) == Having(stored, "awaiting-mint") \ SignedPoints

Foreign(stored) == Checked(stored) # {} /\ Verified(stored) = {}

(* applyAnnouncement on the notes read before the search, and putNotes.     *)
(* Some note of these waits, so one is ready or left out.                   *)
Apply(t) ==
    LET ready == Verified(tab[t].stored)
        unused == LeftOut(tab[t].stored)
    IN  /\ tab[t].at = "apply" /\ ~ Foreign(tab[t].stored)
        /\ notes' = [p \in Points |-> IF p \in unused THEN "unused"
                                      ELSE IF p \in ready THEN "ready"
                                      ELSE notes[p]]
        /\ tab' = [tab EXCEPT ![t].at = "announced", ![t].todo = ready]
        /\ UNCHANGED <<world, chain, deposit, screens>>

(* No signature verifies, so the announcement is taken for the answer to    *)
(* another deposit.  The notes keep their factors.                          *)
ApplyForeign(t) ==
    /\ tab[t].at = "apply" /\ Foreign(tab[t].stored)
    /\ Go(t, "stranded")
    /\ UNCHANGED <<world, chain, db, screens>>

PutAnnounced(t) ==
    /\ tab[t].at = "announced"
    /\ PutDeposit([tab[t].rec EXCEPT !.status = "announced"])
    /\ Go(t, "claim")
    /\ UNCHANGED <<world, chain, notes, screens>>

-----------------------------------------------------------------------------
(* claimAll: one note at a time through the relayer. *)

Claiming(t, p) ==
    tab[t].at = "claim" /\ tab[t].todo # {} /\ p = Min(tab[t].todo)

RelayClaims(t, p) ==
    /\ Claiming(t, p) /\ p \notin paid
    /\ paid' = paid \cup {p}
    /\ relayed' = relayed \ {p}
    /\ Go(t, "paid")
    /\ UNCHANGED <<world, head, tx, depositAt, outcome, outcomeAt, emptied, db, screens>>

(* 409 arrives as AlreadyClaimed, and the note counts as claimed. *)
RelayConflicts(t, p) ==
    /\ Claiming(t, p) /\ p \in paid
    /\ Go(t, "paid")
    /\ UNCHANGED <<world, chain, db, screens>>

FailureCounts(t) == Go(t, "paid")
FailureThrows(t) == Stop(t)

(* Any other answer throws, whether or not the claim is still on its way. *)
RelayFails(t, p) ==
    /\ Claiming(t, p) /\ ~ steady
    /\ \/ relayed' = relayed
       \/ p \notin paid /\ relayed' = relayed \cup {p}
    /\ FailureThrows(t)
    /\ UNCHANGED <<world, head, tx, depositAt, outcome, outcomeAt, paid, emptied, db, screens>>

(* putNotes([claimed(note)]) with the note of the snapshot. *)
PutClaimed(t) ==
    LET p == Min(tab[t].todo)
    IN  /\ tab[t].at = "paid"
        /\ notes' = [notes EXCEPT ![p] = "claimed"]
        /\ tab' = [tab EXCEPT ![t].at = "claim", ![t].todo = @ \ {p}]
        /\ UNCHANGED <<world, chain, deposit, screens>>

ClaimsDone(t) ==
    /\ tab[t].at = "claim" /\ tab[t].todo = {}
    /\ Go(t, "finish")
    /\ UNCHANGED <<world, chain, db, screens>>

AllSettled(ns) == Points # {} /\ \A p \in Points : Settled(ns[p])

ReadAfter(t) ==
    /\ tab[t].at = "finish"
    /\ IF AllSettled(notes) THEN Go(t, "claimed") ELSE Stop(t)
    /\ UNCHANGED <<world, chain, db, screens>>

-----------------------------------------------------------------------------
(* The send screen empties a claimed note, waits, and then writes it. *)
Collect(p) ==
    /\ notes[p] = "claimed" /\ p \in paid \ emptied
    /\ emptied' = emptied \cup {p} /\ collecting' = collecting \cup {p}
    /\ UNCHANGED <<world, head, tx, depositAt, outcome, outcomeAt, relayed, paid, db, tab, reclaim>>

RecordSpent(p) ==
    /\ p \in collecting
    /\ collecting' = collecting \ {p}
    /\ notes' = [notes EXCEPT ![p] = "spent"]
    /\ UNCHANGED <<world, chain, deposit, tab, reclaim>>

SendStops(p) ==
    /\ p \in collecting
    /\ collecting' = collecting \ {p}
    /\ UNCHANGED <<world, chain, db, tab, reclaim>>

(* The deposit screen offers the reclaim from the record it has loaded. *)
Reclaim ==
    /\ MayReclaim /\ reclaim.at = "idle"
    /\ deposit.status = "pending" /\ deposit.numbered /\ deposit.deadline
    /\ Points # {} /\ DeadlinePassed
    /\ reclaim' = [at |-> "sent", rec |-> deposit]
    /\ UNCHANGED <<world, chain, db, tab, collecting>>

(* The transaction is mined.  It reverts when the deposit is not pending.   *)
RefundMined ==
    /\ reclaim.at = "sent"
    /\ IF outcome = "pending"
       THEN outcome' = "refunded" /\ outcomeAt' = head
       ELSE UNCHANGED <<outcome, outcomeAt>>
    /\ reclaim' = [reclaim EXCEPT !.at = "receipt"]
    /\ UNCHANGED <<world, head, tx, depositAt, relayed, paid, emptied, db, tab, collecting>>

(* The receipt arrives, whatever its status. *)
RecordRefund ==
    /\ reclaim.at = "receipt"
    /\ PutDeposit([reclaim.rec EXCEPT !.status = "refunded"])
    /\ reclaim' = NoReclaim
    /\ UNCHANGED <<world, chain, notes, tab, collecting>>

ReclaimFails ==
    /\ reclaim.at # "idle"
    /\ reclaim' = NoReclaim
    /\ UNCHANGED <<world, chain, db, tab, collecting>>

-----------------------------------------------------------------------------
Init ==
    /\ head = 1 /\ tx = "mempool" /\ depositAt = 0
    /\ outcome = "pending" /\ outcomeAt = 0
    /\ relayed = {} /\ paid = {} /\ emptied = {} /\ size \in Sizes /\ steady = FALSE
    /\ deposit = NewDeposit /\ notes = NewNotes
    /\ tab = [t \in Tabs |-> NoPass]
    /\ collecting = {} /\ reclaim = NoReclaim

Pass(t) ==
    \/ Start(t) \/ Abandon(t) \/ ReadReceipt(t) \/ Number(t)
    \/ \E h \in Heights : ReadStatus(t, h) \/ Search(t, h)
    \/ \E status \in {"refunded", "stranded", "claimed"} : PutEnd(t, status)
    \/ PutDeadline(t) \/ ReadNotes(t)
    \/ Apply(t) \/ ApplyForeign(t) \/ PutAnnounced(t)
    \/ \E p \in Points :
          RelayClaims(t, p) \/ RelayConflicts(t, p) \/ RelayFails(t, p)
    \/ PutClaimed(t) \/ ClaimsDone(t) \/ ReadAfter(t)

Next ==
    \/ Block \/ MineDeposit \/ Announce \/ BecomeSteady
    \/ \E t \in Tabs : Pass(t)
    \/ \E p \in Points :
          LandClaim(p) \/ Collect(p) \/ RecordSpent(p) \/ SendStops(p)
    \/ Reclaim \/ RefundMined \/ RecordRefund \/ ReclaimFails

Spec == Init /\ [][Next]_vars

(***************************************************************************)
(* Fairness: the timer starts a pass again and again, and a pass goes on.  *)
(* Calls throw and pages reload for as long as they like, but not for      *)
(* ever.                                                                   *)
(***************************************************************************)
Fairness ==
    /\ WF_vars(MineDeposit) /\ WF_vars(BecomeSteady)
    /\ WF_vars(\E p \in Points : LandClaim(p))
    /\ \A t \in Tabs : WF_vars(Pass(t))

FairSpec == Spec /\ Fairness

-----------------------------------------------------------------------------
DepositRecords == [numbered : BOOLEAN, deadline : BOOLEAN,
                   status : {"pending", "announced", "claimed", "refunded", "stranded"}]
NoteRecords == [Points -> {"awaiting-mint", "ready", "claimed", "spent", "unused"}]

TypeOK ==
    /\ head \in 1 .. MaxHead
    /\ tx \in {"mempool", "mined", "reverted"}
    /\ depositAt \in 0 .. head /\ outcomeAt \in 0 .. head
    /\ outcome \in {"pending", "announced", "refunded"}
    /\ relayed \subseteq Points \ paid /\ paid \subseteq SignedPoints
    /\ emptied \subseteq paid /\ collecting \subseteq emptied
    /\ deposit \in DepositRecords /\ notes \in NoteRecords
    /\ tab \in [Tabs -> [at : {"idle", "receipt", "number", "status", "deadline",
                               "notes", "search", "apply", "announced", "claim",
                               "paid", "finish", "claimed", "refunded", "stranded"},
                         rec : DepositRecords, stored : NoteRecords,
                         chain : {"none", "pending", "announced", "refunded"},
                         todo : SUBSET Points]]
    /\ size \in Sizes /\ steady \in BOOLEAN
    /\ reclaim \in [at : {"idle", "sent", "receipt"}, rec : DepositRecords]

(* The balance of the screens: a note stored as claimed or spent is a note  *)
(* that the contract paid, whatever the relayer answered or failed to.      *)
ClaimedMeansPaid ==
    \A p \in Points : notes[p] \in {"claimed", "spent"} => p \in paid

(* The blinding factor or the signature of a signed note stays on the disk  *)
(* until the contract has paid the note.  Nothing else can rebuild them.    *)
KeysKept ==
    \A p \in Signed \ paid : notes[p] \in {"awaiting-mint", "ready"}

(* A spent note never comes back into the balance. *)
SpentStaysSpent ==
    [][\A p \in Points : notes[p] = "spent" => notes'[p] = "spent"]_vars

(***************************************************************************)
(* An announced deposit settles for good in a wallet with one tab, through *)
(* lost answers, failed calls and reloads: the record is finished, and     *)
(* every signed note is in the balance or spent.  The node is at the head, *)
(* the answer is inside the window, and nobody asks for a reclaim.         *)
(***************************************************************************)
SettlesForGood ==
    <>(outcome = "announced") =>
        <>[](/\ Finished(deposit.status)
             /\ \A p \in Signed : notes[p] \in {"claimed", "spent"})

(* A deposit without a note ends, although the mint never answers it. *)
DustEnds ==
    Points = {} /\ tx = "mined" /\ (outcome = "announced" \/ DeadlinePassed)
        ~> deposit.status = "claimed"

(* A comment of the code that a run refutes. *)

(* refund.ts: whichever of the two reaches the chain first takes it. *)
RefundedMeansReturned == deposit.status = "refunded" => outcome = "refunded"

=============================================================================
