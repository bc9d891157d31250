---------------------------- MODULE SettlerProofs ----------------------------
(***************************************************************************)
(* What the settler writes, for any number of tabs and notes, any lag of   *)
(* the node, and failures and reloads anywhere.                            *)
(***************************************************************************)
EXTENDS Settler, SumsProofs

Places == {"idle", "receipt", "number", "status", "deadline", "notes", "search",
           "apply", "announced", "claim", "paid", "finish", "claimed",
           "refunded", "stranded"}

Passes == [at : Places, rec : DepositRecords, stored : NoteRecords,
           chain : {"none", "pending", "announced", "refunded"},
           todo : SUBSET Points]

(* A pass claims signed notes, and writes the one that the relayer answered *)
(* for: the contract has paid it.                                           *)
PassOK(q, pd) ==
    /\ q \in Passes
    /\ q.todo \subseteq SignedPoints
    /\ q.at = "paid" => q.todo # {} /\ Min(q.todo) \in pd

TabsOK == tab \in [Tabs -> Passes] /\ \A t \in Tabs : PassOK(tab[t], paid)

(* A note is given up only when the mint left it out.                       *)
NotesOK ==
    /\ notes \in NoteRecords
    /\ ClaimedMeansPaid
    /\ \A p \in Points : /\ notes[p] = "unused" => p \notin SignedPoints
                         /\ notes[p] = "ready" => p \in SignedPoints

ChainOK ==
    /\ head \in 1 .. MaxHead
    /\ tx \in {"mempool", "mined", "reverted"}
    /\ depositAt \in 0 .. head /\ outcomeAt \in 0 .. head
    /\ outcome \in {"pending", "announced", "refunded"}
    /\ relayed \subseteq (Points \cap SignedPoints) \ paid
    /\ paid \subseteq Points \cap SignedPoints
    /\ emptied \subseteq paid /\ collecting \subseteq emptied
    /\ size \in Sizes /\ steady \in BOOLEAN
    /\ reclaim \in [at : {"idle", "sent", "receipt"}, rec : DepositRecords]

SettlerInv == ChainOK /\ deposit \in DepositRecords /\ NotesOK /\ TabsOK

-----------------------------------------------------------------------------
LEMMA MinMember ==
    ASSUME NEW S \in SUBSET Nat, S # {}
    PROVE  Min(S) \in S
<1>1. \E x \in S : \A y \in S : x =< y
  BY LeastNatural
<1> QED BY <1>1 DEF Min

LEMMA PointsNat == ASSUME ChainOK PROVE size \in Nat /\ Points \subseteq Nat
BY SettlerAssumption DEF ChainOK, Points

LEMMA NewTypes == NewDeposit \in DepositRecords /\ NewNotes \in NoteRecords
<1>1. NewDeposit \in DepositRecords
  BY DEF NewDeposit, DepositRecords
<1>2. NewNotes \in NoteRecords
  BY DEF NewNotes, NoteRecords
<1> QED BY <1>1, <1>2

LEMMA NoPassOK == PassOK(NoPass, paid)
<1>1. NoPass \in Passes
  BY NewTypes DEF NoPass, Passes, Places
<1> QED BY <1>1 DEF PassOK, NoPass

-----------------------------------------------------------------------------
(* What a step that moves one pass, or none, leaves true. *)

LEMMA TabsKept ==
    ASSUME SettlerInv, UNCHANGED <<size, tab>>, paid \subseteq paid'
    PROVE  TabsOK'
BY DEF SettlerInv, TabsOK, PassOK, Passes, NoteRecords, Points

LEMMA TabMoved ==
    ASSUME SettlerInv, UNCHANGED size, paid \subseteq paid',
           NEW t \in Tabs, NEW q, PassOK(q, paid'),
           tab' = [tab EXCEPT ![t] = q]
    PROVE  TabsOK'
<1>1. Passes' = Passes
  BY DEF Passes, NoteRecords, Points
<1>2. tab \in [Tabs -> Passes] /\ q \in Passes
  BY DEF SettlerInv, TabsOK, PassOK
<1>3. tab' \in [Tabs -> Passes'] /\ tab'[t] = q
      /\ \A u \in Tabs \ {t} : tab'[u] = tab[u]
  BY <1>1, <1>2
<1>4. ASSUME NEW u \in Tabs PROVE PassOK(tab[u], paid')
  BY DEF SettlerInv, TabsOK, PassOK
<1>5. \A u \in Tabs : PassOK(tab'[u], paid')
  BY <1>3, <1>4
<1>6. \A u \in Tabs : PassOK(tab[u], paid)'
  BY <1>1, <1>5 DEF PassOK
<1> QED BY <1>3, <1>6 DEF TabsOK

LEMMA NotesKept ==
    ASSUME SettlerInv, UNCHANGED <<size, notes>>, paid \subseteq paid'
    PROVE  NotesOK'
BY DEF SettlerInv, NotesOK, NoteRecords, Points, ClaimedMeansPaid

LEMMA ChainKept ==
    ASSUME SettlerInv, UNCHANGED <<chain, world, screens>>
    PROVE  ChainOK' /\ UNCHANGED <<size, paid>>
BY DEF SettlerInv, ChainOK, chain, world, screens, Points

LEMMA WentOK ==
    ASSUME SettlerInv, NEW t \in Tabs, NEW at \in Places, at # "paid"
    PROVE  PassOK([tab[t] EXCEPT !.at = at], paid)
<1>1. tab[t] \in Passes /\ tab[t].todo \subseteq SignedPoints
  BY DEF SettlerInv, TabsOK, PassOK
<1> QED BY <1>1 DEF PassOK, Passes

(* A step that only moves a pass. *)
LEMMA PassMoves ==
    ASSUME SettlerInv, UNCHANGED <<chain, world, db, screens>>,
           NEW t \in Tabs, NEW q, PassOK(q, paid),
           tab' = [tab EXCEPT ![t] = q]
    PROVE  SettlerInv'
<1>1. ChainOK' /\ UNCHANGED <<size, paid>>
  BY ChainKept
<1>2. TabsOK'
  BY <1>1, TabMoved
<1>3. NotesOK' /\ deposit' \in DepositRecords
  BY <1>1, NotesKept DEF db, SettlerInv
<1> QED BY <1>1, <1>2, <1>3 DEF SettlerInv, DepositRecords

(* A step that also writes the deposit record. *)
LEMMA PassWrites ==
    ASSUME SettlerInv, UNCHANGED <<chain, world, notes, screens>>,
           deposit' \in DepositRecords,
           NEW t \in Tabs, NEW q, PassOK(q, paid),
           tab' = [tab EXCEPT ![t] = q]
    PROVE  SettlerInv'
<1>1. ChainOK' /\ UNCHANGED <<size, paid>>
  BY ChainKept
<1>2. TabsOK'
  BY <1>1, TabMoved
<1>3. NotesOK'
  BY <1>1, NotesKept
<1> QED BY <1>1, <1>2, <1>3 DEF SettlerInv, DepositRecords

-----------------------------------------------------------------------------
LEMMA SettlerInit == Init => SettlerInv
<1> SUFFICES ASSUME Init PROVE SettlerInv
  OBVIOUS
<1>1. ChainOK
  <2>1. NoReclaim \in [at : {"idle", "sent", "receipt"}, rec : DepositRecords]
    BY NewTypes DEF NoReclaim
  <2>2. head \in 1 .. MaxHead /\ depositAt \in 0 .. head /\ outcomeAt \in 0 .. head
    BY SettlerAssumption DEF Init
  <2> QED BY <2>1, <2>2 DEF Init, ChainOK
<1>2. deposit \in DepositRecords
  BY NewTypes DEF Init
<1>3. NotesOK
  <2>1. notes \in NoteRecords /\ \A p \in Points : notes[p] = "awaiting-mint"
    BY NewTypes DEF Init, NewNotes
  <2> QED BY <2>1 DEF NotesOK, ClaimedMeansPaid
<1>4. TabsOK
  <2>1. tab = [t \in Tabs |-> NoPass]
    BY DEF Init
  <2>2. NoPass \in Passes
    BY NoPassOK DEF PassOK
  <2> QED BY <2>1, <2>2, NoPassOK DEF TabsOK
<1> QED BY <1>1, <1>2, <1>3, <1>4 DEF SettlerInv

(* Steps that end a pass. *)
LEMMA StopStep ==
    ASSUME SettlerInv, NEW t \in Tabs,
           UNCHANGED <<chain, world, notes, screens>>,
           deposit' \in DepositRecords, Stop(t)
    PROVE  SettlerInv'
BY NoPassOK, PassWrites DEF Stop

(* Steps that only move a pass to another place. *)
LEMMA GoStep ==
    ASSUME SettlerInv, NEW t \in Tabs,
           UNCHANGED <<chain, world, notes, screens>>,
           deposit' \in DepositRecords,
           NEW at \in Places, at # "paid", Go(t, at)
    PROVE  SettlerInv'
<1>1. PassOK([tab[t] EXCEPT !.at = at], paid)
  BY WentOK
<1>2. tab' = [tab EXCEPT ![t] = [tab[t] EXCEPT !.at = at]]
  BY DEF Go
<1> QED BY <1>1, <1>2, PassWrites

LEMMA PassRecord ==
    ASSUME SettlerInv, NEW t \in Tabs
    PROVE  /\ tab \in [Tabs -> Passes] /\ tab[t] \in Passes
           /\ tab[t].rec \in DepositRecords /\ tab[t].stored \in NoteRecords
           /\ tab[t].todo \subseteq Points /\ tab[t].todo \subseteq SignedPoints
           /\ deposit \in DepositRecords
           /\ tab[t].at = "paid" => tab[t].todo # {} /\ Min(tab[t].todo) \in paid
BY DEF SettlerInv, TabsOK, PassOK, Passes

LEMMA RecordWrites ==
    ASSUME NEW rec \in DepositRecords
    PROVE  /\ [rec EXCEPT !.numbered = TRUE] \in DepositRecords
           /\ [rec EXCEPT !.deadline = TRUE] \in DepositRecords
           /\ \A status \in {"announced", "claimed", "refunded", "stranded"} :
                 [rec EXCEPT !.status = status] \in DepositRecords
BY DEF DepositRecords

LEMMA ReadStep ==
    ASSUME SettlerInv, NEW t \in Tabs,
           \/ Start(t) \/ Abandon(t) \/ ReadReceipt(t) \/ Number(t)
           \/ \E h \in Heights : ReadStatus(t, h) \/ Search(t, h)
           \/ \E status \in {"refunded", "stranded", "claimed"} : PutEnd(t, status)
           \/ PutDeadline(t) \/ PutAnnounced(t) \/ ClaimsDone(t) \/ ReadAfter(t)
           \/ ApplyForeign(t)
    PROVE  SettlerInv'
<1>0. /\ tab[t] \in Passes /\ tab[t].rec \in DepositRecords
      /\ deposit \in DepositRecords /\ tab[t].todo \subseteq SignedPoints
  BY PassRecord
<1>1. CASE Start(t)
  <2> DEFINE at == IF deposit.numbered THEN "status" ELSE "receipt"
             q == [[tab[t] EXCEPT !.at = at] EXCEPT !.rec = deposit]
  <2>1. at \in Places /\ at # "paid"
    BY DEF Places
  <2>2. PassOK(q, paid)
    BY <1>0, <2>1 DEF PassOK, Passes
  <2>3. tab' = [tab EXCEPT ![t] = q] /\ UNCHANGED <<chain, world, db, screens>>
    BY <1>1, PassRecord DEF Start
  <2> HIDE DEF q
  <2> QED BY <2>2, <2>3, PassMoves
<1>2. CASE Abandon(t)
  BY <1>0, <1>2, StopStep DEF Abandon, db
<1>3. CASE ReadReceipt(t)
  <2>1. UNCHANGED <<chain, world, notes, screens>> /\ deposit' \in DepositRecords
    BY <1>0, <1>3 DEF ReadReceipt, db
  <2>2. Stop(t) \/ Go(t, "number")
    BY <1>3 DEF ReadReceipt
  <2>3. "number" \in Places
    BY DEF Places
  <2> QED BY <2>1, <2>2, <2>3, StopStep, GoStep
<1>4. CASE Number(t)
  BY <1>0, <1>4, RecordWrites, StopStep DEF Number, PutDeposit
<1>5. ASSUME NEW h \in Heights, ReadStatus(t, h) PROVE SettlerInv'
  <2> DEFINE s == onChainStatus(h)
             at == CASE s = "refunded" -> "refunded"
                     [] s = "none" -> "stranded" [] OTHER -> "deadline"
             q == [[tab[t] EXCEPT !.at = at] EXCEPT !.chain = s]
  <2>1. s \in {"none", "pending", "announced", "refunded"}
    BY DEF onChainStatus, SettlerInv, ChainOK
  <2>2. at \in Places /\ at # "paid"
    BY <2>1 DEF Places
  <2>3. tab' = [tab EXCEPT ![t] = q] /\ UNCHANGED <<chain, world, db, screens>>
    BY <1>5, PassRecord DEF ReadStatus
  <2> HIDE DEF s, at
  <2>4. PassOK(q, paid)
    BY <1>0, <2>1, <2>2 DEF PassOK, Passes
  <2> HIDE DEF q
  <2> QED BY <2>3, <2>4, PassMoves
<1>6. ASSUME NEW h \in Heights, Search(t, h) PROVE SettlerInv'
  <2>1. UNCHANGED <<chain, world, notes, screens>> /\ deposit' \in DepositRecords
    BY <1>0, <1>6 DEF Search, db
  <2>2. Stop(t) \/ Go(t, "apply")
    BY <1>6 DEF Search
  <2>3. "apply" \in Places
    BY DEF Places
  <2> QED BY <2>1, <2>2, <2>3, StopStep, GoStep
<1>7. ASSUME NEW status \in {"refunded", "stranded", "claimed"}, PutEnd(t, status)
      PROVE  SettlerInv'
  BY <1>0, <1>7, RecordWrites, StopStep DEF PutEnd, PutDeposit
<1>8. CASE PutDeadline(t)
  <2>1. UNCHANGED <<chain, world, notes, screens>> /\ deposit' \in DepositRecords
    BY <1>0, <1>8, RecordWrites DEF PutDeadline, PutDeposit
  <2>2. Go(t, "notes") /\ "notes" \in Places
    BY <1>8 DEF PutDeadline, Places
  <2> QED BY <2>1, <2>2, GoStep
<1>9. CASE PutAnnounced(t)
  <2>1. UNCHANGED <<chain, world, notes, screens>> /\ deposit' \in DepositRecords
    BY <1>0, <1>9, RecordWrites DEF PutAnnounced, PutDeposit
  <2>2. Go(t, "claim") /\ "claim" \in Places
    BY <1>9 DEF PutAnnounced, Places
  <2> QED BY <2>1, <2>2, GoStep
<1>10. CASE ClaimsDone(t)
  <2>1. UNCHANGED <<chain, world, notes, screens>> /\ deposit' \in DepositRecords
    BY <1>0, <1>10 DEF ClaimsDone, db
  <2>2. Go(t, "finish") /\ "finish" \in Places
    BY <1>10 DEF ClaimsDone, Places
  <2> QED BY <2>1, <2>2, GoStep
<1>11. CASE ReadAfter(t)
  <2>1. UNCHANGED <<chain, world, notes, screens>> /\ deposit' \in DepositRecords
    BY <1>0, <1>11 DEF ReadAfter, db
  <2>2. Stop(t) \/ Go(t, "claimed")
    BY <1>11 DEF ReadAfter
  <2>3. "claimed" \in Places
    BY DEF Places
  <2> QED BY <2>1, <2>2, <2>3, StopStep, GoStep
<1>12. CASE ApplyForeign(t)
  <2>1. UNCHANGED <<chain, world, notes, screens>> /\ deposit' \in DepositRecords
    BY <1>0, <1>12 DEF ApplyForeign, db
  <2>2. Go(t, "stranded") /\ "stranded" \in Places
    BY <1>12 DEF ApplyForeign, Places
  <2> QED BY <2>1, <2>2, GoStep
<1> QED BY <1>1, <1>2, <1>3, <1>4, <1>5, <1>6, <1>7, <1>8, <1>9, <1>10, <1>11, <1>12

(* The notes that are ready are signed, so a pass claims signed notes.      *)
LEMMA ReadNotesStep ==
    ASSUME SettlerInv, NEW t \in Tabs, ReadNotes(t)
    PROVE  SettlerInv'
<1>0. /\ tab[t] \in Passes /\ deposit \in DepositRecords
      /\ tab[t].rec \in DepositRecords
  BY PassRecord
<1>1. UNCHANGED <<chain, world, db, screens>>
  BY DEF ReadNotes
<1>2. CASE Stop(t)
  BY <1>0, <1>1, <1>2, StopStep DEF db
<1>3. ASSUME NEW next \in {"claim", "claimed", "finish", "search"},
             tab' = [tab EXCEPT ![t].at = next, ![t].stored = notes,
                                ![t].todo = Ready(notes)]
      PROVE  SettlerInv'
  <2> DEFINE q == [[[tab[t] EXCEPT !.at = next] EXCEPT !.stored = notes]
                       EXCEPT !.todo = Ready(notes)]
  <2>1. /\ Ready(notes) \subseteq Points /\ Ready(notes) \subseteq SignedPoints
        /\ notes \in NoteRecords
    BY DEF SettlerInv, NotesOK, Ready, Having
  <2>2. next \in Places /\ next # "paid"
    BY DEF Places
  <2>3. PassOK(q, paid)
    BY <1>0, <2>1, <2>2 DEF PassOK, Passes
  <2>4. tab' = [tab EXCEPT ![t] = q]
    BY <1>3, PassRecord
  <2> HIDE DEF q
  <2> QED BY <1>1, <2>3, <2>4, PassMoves
<1>4. \/ Stop(t)
      \/ \E next \in {"claim", "claimed", "finish", "search"} :
            tab' = [tab EXCEPT ![t].at = next, ![t].stored = notes,
                               ![t].todo = Ready(notes)]
  BY DEF ReadNotes
<1> QED BY <1>2, <1>3, <1>4

(* Whatever the database holds by now, applyAnnouncement writes "unused"    *)
(* over notes that the mint left out and "ready" over signed ones.          *)
LEMMA ApplyStep ==
    ASSUME SettlerInv, NEW t \in Tabs, Apply(t)
    PROVE  SettlerInv'
<1> DEFINE ready == Verified(tab[t].stored)
           unused == LeftOut(tab[t].stored)
           q == [[tab[t] EXCEPT !.at = "announced"] EXCEPT !.todo = ready]
<1>0. tab[t] \in Passes /\ deposit \in DepositRecords
  BY PassRecord
<1>1. /\ ready \subseteq Points /\ ready \subseteq SignedPoints
      /\ unused \cap SignedPoints = {}
  BY DEF Verified, Checked, LeftOut, Having
<1>2. /\ UNCHANGED <<world, chain, deposit, screens>>
      /\ notes' = [p \in Points |-> IF p \in unused THEN "unused"
                                    ELSE IF p \in ready THEN "ready"
                                    ELSE notes[p]]
  BY DEF Apply
<1>3. tab' = [tab EXCEPT ![t] = q]
  BY PassRecord DEF Apply
<1> HIDE DEF ready, unused
<1>4. PassOK(q, paid)
  BY <1>0, <1>1 DEF PassOK, Passes, Places
<1>5. ChainOK' /\ UNCHANGED <<size, paid>>
  BY <1>2, ChainKept
<1>6. TabsOK'
  <2> HIDE DEF q
  <2> QED BY <1>3, <1>4, <1>5, TabMoved
<1>7. NotesOK'
  <2>1. Points' = Points /\ NoteRecords' = NoteRecords
    BY <1>5 DEF Points, NoteRecords
  <2>2. notes' \in NoteRecords
    BY <1>2 DEF SettlerInv, NotesOK, NoteRecords
  <2>3. ASSUME NEW p \in Points
        PROVE  /\ notes'[p] \in {"claimed", "spent"} => p \in paid
               /\ notes'[p] = "unused" => p \notin SignedPoints
               /\ notes'[p] = "ready" => p \in SignedPoints
    BY <1>1, <1>2 DEF SettlerInv, NotesOK, ClaimedMeansPaid
  <2> QED BY <1>5, <2>1, <2>2, <2>3 DEF NotesOK, ClaimedMeansPaid
<1> QED BY <1>0, <1>2, <1>5, <1>6, <1>7 DEF SettlerInv, DepositRecords

(* The answers of the relayer.  Both that count mean that the note is paid. *)
LEMMA RelayStep ==
    ASSUME SettlerInv, NEW t \in Tabs, NEW p \in Points,
           RelayClaims(t, p) \/ RelayConflicts(t, p) \/ RelayFails(t, p)
    PROVE  SettlerInv'
<1>0. /\ tab[t] \in Passes /\ deposit \in DepositRecords
      /\ tab[t].todo \subseteq SignedPoints /\ tab[t].todo \subseteq Points
      /\ Points \subseteq Nat
  BY PassRecord, PointsNat DEF SettlerInv
<1> DEFINE q == [tab[t] EXCEPT !.at = "paid"]
<1>1. CASE RelayClaims(t, p)
  <2>1. /\ tab[t].todo # {} /\ p = Min(tab[t].todo)
        /\ paid' = paid \cup {p} /\ relayed' = relayed \ {p}
        /\ tab' = [tab EXCEPT ![t] = q]
        /\ UNCHANGED <<world, head, tx, depositAt, outcome, outcomeAt, emptied,
                       db, screens>>
    BY <1>1 DEF RelayClaims, Claiming, Go
  <2>2. p \in SignedPoints
    BY <1>0, <2>1, MinMember
  <2>3. PassOK(q, paid')
    BY <1>0, <2>1 DEF PassOK, Passes, Places
  <2>4. TabsOK'
    <3>1. UNCHANGED size /\ paid \subseteq paid'
      BY <2>1 DEF world
    <3> HIDE DEF q
    <3> QED BY <2>1, <2>3, <3>1, TabMoved
  <2>5. NotesOK' /\ deposit' \in DepositRecords
    BY <1>0, <2>1, NotesKept DEF world, db
  <2>6. ChainOK'
    BY <2>1, <2>2 DEF ChainOK, SettlerInv, world, screens, Points
  <2> QED BY <2>4, <2>5, <2>6 DEF SettlerInv, DepositRecords
<1>2. CASE RelayConflicts(t, p)
  <2>1. /\ tab[t].todo # {} /\ p = Min(tab[t].todo) /\ p \in paid
        /\ tab' = [tab EXCEPT ![t] = q]
        /\ UNCHANGED <<chain, world, db, screens>>
    BY <1>2 DEF RelayConflicts, Claiming, Go
  <2>2. PassOK(q, paid)
    BY <1>0, <2>1 DEF PassOK, Passes, Places
  <2> HIDE DEF q
  <2> QED BY <2>1, <2>2, PassMoves
<1>3. CASE RelayFails(t, p)
  <2>1. /\ tab[t].todo # {} /\ p = Min(tab[t].todo)
        /\ relayed' = relayed \/ (p \notin paid /\ relayed' = relayed \cup {p})
        /\ tab' = [tab EXCEPT ![t] = NoPass]
        /\ UNCHANGED <<world, head, tx, depositAt, outcome, outcomeAt, paid,
                       emptied, db, screens>>
    BY <1>3 DEF RelayFails, Claiming, FailureThrows, Stop
  <2>2. p \in SignedPoints
    BY <1>0, <2>1, MinMember
  <2>3. TabsOK'
    BY <2>1, NoPassOK, TabMoved DEF world
  <2>4. NotesOK' /\ deposit' \in DepositRecords
    BY <1>0, <2>1, NotesKept DEF world, db
  <2>5. ChainOK'
    BY <2>1, <2>2 DEF ChainOK, SettlerInv, world, screens, Points
  <2> QED BY <2>3, <2>4, <2>5 DEF SettlerInv, DepositRecords
<1> QED BY <1>1, <1>2, <1>3

(* A step that writes one note, claimed or spent, of one that is paid.      *)
LEMMA NoteWritten ==
    ASSUME SettlerInv, UNCHANGED <<size, paid>>,
           NEW p \in paid, NEW status \in {"claimed", "spent"},
           notes' = [notes EXCEPT ![p] = status]
    PROVE  NotesOK'
<1>1. Points' = Points /\ NoteRecords' = NoteRecords
  BY DEF Points, NoteRecords
<1>2. notes \in [Points -> {"awaiting-mint", "ready", "claimed", "spent", "unused"}]
  BY DEF SettlerInv, NotesOK, NoteRecords
<1>3. notes' \in NoteRecords
  BY <1>2 DEF NoteRecords
<1>4. ASSUME NEW i \in Points
      PROVE  /\ notes'[i] \in {"claimed", "spent"} => i \in paid
             /\ notes'[i] = "unused" => i \notin SignedPoints
             /\ notes'[i] = "ready" => i \in SignedPoints
  BY <1>2 DEF SettlerInv, NotesOK, ClaimedMeansPaid
<1> QED BY <1>1, <1>3, <1>4 DEF NotesOK, ClaimedMeansPaid

LEMMA PutClaimedStep ==
    ASSUME SettlerInv, NEW t \in Tabs, PutClaimed(t)
    PROVE  SettlerInv'
<1> DEFINE p == Min(tab[t].todo)
           q == [[tab[t] EXCEPT !.at = "claim"] EXCEPT !.todo = tab[t].todo \ {p}]
<1>0. /\ tab[t] \in Passes /\ deposit \in DepositRecords /\ p \in paid
      /\ tab[t].todo \subseteq SignedPoints /\ tab[t].todo \subseteq Points
  BY PassRecord DEF PutClaimed
<1>1. /\ notes' = [notes EXCEPT ![p] = "claimed"]
      /\ UNCHANGED <<world, chain, deposit, screens>>
  BY DEF PutClaimed
<1>2. tab' = [tab EXCEPT ![t] = q]
  BY PassRecord DEF PutClaimed
<1> HIDE DEF p
<1>3. PassOK(q, paid)
  BY <1>0 DEF PassOK, Passes, Places
<1>4. ChainOK' /\ UNCHANGED <<size, paid>>
  BY <1>1, ChainKept
<1>5. TabsOK'
  <2> HIDE DEF q
  <2> QED BY <1>2, <1>3, <1>4, TabMoved
<1>6. NotesOK'
  BY <1>0, <1>1, <1>4, NoteWritten
<1> QED BY <1>0, <1>1, <1>4, <1>5, <1>6 DEF SettlerInv, DepositRecords

LEMMA ChainSteps ==
    ASSUME SettlerInv,
           \/ Block \/ MineDeposit \/ Announce \/ BecomeSteady \/ RefundMined
           \/ \E p \in Points : LandClaim(p)
    PROVE  SettlerInv'
<1>1. UNCHANGED <<size, tab, notes, deposit>> /\ paid \subseteq paid'
  BY DEF Block, MineDeposit, Announce, BecomeSteady, RefundMined, LandClaim,
         world, chain, db
<1>2. TabsOK' /\ NotesOK' /\ deposit' \in DepositRecords
  BY <1>1, TabsKept, NotesKept DEF SettlerInv
<1>3. MaxHead \in Nat
  BY SettlerAssumption
<1>4. ASSUME UNCHANGED <<relayed, paid, emptied, collecting, steady, reclaim>>,
             head' \in 1 .. MaxHead, tx' \in {"mempool", "mined", "reverted"},
             outcome' \in {"pending", "announced", "refunded"},
             depositAt' \in 0 .. head', outcomeAt' \in 0 .. head'
      PROVE  ChainOK'
  BY <1>1, <1>4 DEF SettlerInv, ChainOK, Points
<1>5. /\ head \in 1 .. MaxHead /\ head \in Nat
      /\ tx \in {"mempool", "mined", "reverted"}
      /\ outcome \in {"pending", "announced", "refunded"}
      /\ depositAt \in 0 .. head /\ outcomeAt \in 0 .. head
  BY <1>3 DEF SettlerInv, ChainOK
<1>6. ASSUME Block PROVE ChainOK'
  <2>1. head' \in 1 .. MaxHead /\ depositAt' \in 0 .. head' /\ outcomeAt' \in 0 .. head'
    BY <1>3, <1>5, <1>6 DEF Block
  <2> QED BY <1>4, <1>5, <1>6, <2>1 DEF Block, world, screens
<1>7. ASSUME MineDeposit \/ Announce PROVE ChainOK'
  <2>1. depositAt' \in 0 .. head /\ outcomeAt' \in 0 .. head /\ head' = head
    BY <1>5, <1>7 DEF MineDeposit, Announce
  <2>2. /\ tx' \in {"mempool", "mined", "reverted"}
        /\ outcome' \in {"pending", "announced", "refunded"}
    BY <1>5, <1>7 DEF MineDeposit, Announce
  <2> QED BY <1>4, <1>5, <1>7, <2>1, <2>2 DEF MineDeposit, Announce, world, screens
<1>8. ASSUME BecomeSteady \/ \E p \in Points : LandClaim(p) PROVE ChainOK'
  <2>1. UNCHANGED <<head, tx, depositAt, outcome, outcomeAt, size, screens, emptied>>
    BY <1>8 DEF BecomeSteady, LandClaim, chain, world
  <2>2. /\ steady' \in BOOLEAN
        /\ relayed' \subseteq (Points \cap SignedPoints) \ paid'
        /\ paid \subseteq paid' /\ paid' \subseteq Points \cap SignedPoints
    BY <1>8 DEF BecomeSteady, LandClaim, chain, world, SettlerInv, ChainOK
  <2> QED BY <2>1, <2>2 DEF SettlerInv, ChainOK, screens, Points
<1>9. ASSUME RefundMined PROVE ChainOK'
  <2>1. /\ UNCHANGED <<size, steady, head, tx, depositAt, relayed, paid, emptied,
                       collecting>>
        /\ outcome' \in {"pending", "announced", "refunded"}
        /\ outcomeAt' \in 0 .. head
    BY <1>5, <1>9 DEF RefundMined, world
  <2>2. reclaim' \in [at : {"idle", "sent", "receipt"}, rec : DepositRecords]
    <3>1. reclaim \in [at : {"idle", "sent", "receipt"}, rec : DepositRecords]
      BY DEF SettlerInv, ChainOK
    <3> QED BY <1>9, <3>1 DEF RefundMined
  <2>3. DepositRecords' = DepositRecords /\ Points' = Points
    BY <2>1 DEF DepositRecords, Points
  <2> QED BY <1>5, <2>1, <2>2, <2>3 DEF SettlerInv, ChainOK
<1>10. ChainOK'
  BY <1>6, <1>7, <1>8, <1>9
<1> QED BY <1>2, <1>10 DEF SettlerInv, DepositRecords

LEMMA ScreenSteps ==
    ASSUME SettlerInv,
           \/ \E p \in Points : Collect(p) \/ RecordSpent(p) \/ SendStops(p)
           \/ Reclaim \/ RecordRefund \/ ReclaimFails
    PROVE  SettlerInv'
<1>0. NoReclaim \in [at : {"idle", "sent", "receipt"}, rec : DepositRecords]
  BY NewTypes DEF NoReclaim
<1>1. UNCHANGED <<size, tab, paid>>
  BY DEF Collect, RecordSpent, SendStops, Reclaim, RecordRefund, ReclaimFails,
         world, chain
<1>2. TabsOK'
  BY <1>1, TabsKept
<1>3. ASSUME NEW p \in Points, Collect(p) PROVE SettlerInv'
  <2>1. NotesOK' /\ deposit' \in DepositRecords
    BY <1>1, <1>3, NotesKept DEF Collect, db, SettlerInv
  <2>2. ChainOK'
    BY <1>3 DEF Collect, SettlerInv, ChainOK, world, Points
  <2> QED BY <1>2, <2>1, <2>2 DEF SettlerInv, DepositRecords
<1>4. ASSUME NEW p \in Points, RecordSpent(p) PROVE SettlerInv'
  <2>1. p \in paid
    BY <1>4 DEF RecordSpent, SettlerInv, ChainOK
  <2>2. NotesOK'
    BY <1>1, <1>4, <2>1, NoteWritten DEF RecordSpent
  <2>3. ChainOK' /\ deposit' \in DepositRecords
    BY <1>4 DEF RecordSpent, SettlerInv, ChainOK, world, chain, Points
  <2> QED BY <1>2, <2>2, <2>3 DEF SettlerInv, DepositRecords
<1>5. ASSUME NEW p \in Points, SendStops(p) PROVE SettlerInv'
  <2>1. NotesOK' /\ deposit' \in DepositRecords
    BY <1>1, <1>5, NotesKept DEF SendStops, db, SettlerInv
  <2>2. ChainOK'
    BY <1>5 DEF SendStops, SettlerInv, ChainOK, world, chain, Points
  <2> QED BY <1>2, <2>1, <2>2 DEF SettlerInv, DepositRecords
<1>6. CASE Reclaim
  <2>1. NotesOK' /\ deposit' \in DepositRecords
    BY <1>1, <1>6, NotesKept DEF Reclaim, db, SettlerInv
  <2>2. reclaim' \in [at : {"idle", "sent", "receipt"}, rec : DepositRecords]
    BY <1>6 DEF Reclaim, SettlerInv
  <2>3. ChainOK'
    BY <1>6, <2>2 DEF Reclaim, SettlerInv, ChainOK, world, chain, Points
  <2> QED BY <1>2, <2>1, <2>3 DEF SettlerInv, DepositRecords
<1>7. CASE RecordRefund
  <2>1. NotesOK'
    BY <1>1, <1>7, NotesKept DEF RecordRefund
  <2>2. deposit' \in DepositRecords
    <3>1. reclaim.rec \in DepositRecords
      BY DEF SettlerInv, ChainOK
    <3> QED BY <1>7, <3>1, RecordWrites DEF RecordRefund, PutDeposit
  <2>3. ChainOK'
    BY <1>0, <1>7 DEF RecordRefund, SettlerInv, ChainOK, world, chain, Points
  <2> QED BY <1>2, <2>1, <2>2, <2>3 DEF SettlerInv, DepositRecords
<1>8. CASE ReclaimFails
  <2>1. NotesOK' /\ deposit' \in DepositRecords
    BY <1>1, <1>8, NotesKept DEF ReclaimFails, db, SettlerInv
  <2>2. ChainOK'
    BY <1>0, <1>8 DEF ReclaimFails, SettlerInv, ChainOK, world, chain, Points
  <2> QED BY <1>2, <2>1, <2>2 DEF SettlerInv, DepositRecords
<1> QED BY <1>3, <1>4, <1>5, <1>6, <1>7, <1>8

LEMMA SettlerStep == SettlerInv /\ [Next]_vars => SettlerInv'
<1> SUFFICES ASSUME SettlerInv, [Next]_vars PROVE SettlerInv'
  OBVIOUS
<1>1. CASE UNCHANGED vars
  <2>1. UNCHANGED <<chain, world, screens, tab, notes, deposit, size, paid>>
    BY <1>1 DEF vars, db, world, chain
  <2>2. ChainOK' /\ TabsOK' /\ NotesOK' /\ deposit' \in DepositRecords
    BY <2>1, ChainKept, TabsKept, NotesKept DEF SettlerInv
  <2> QED BY <2>2 DEF SettlerInv, DepositRecords
<1>2. ASSUME NEW t \in Tabs, Pass(t) PROVE SettlerInv'
  BY <1>2, ReadStep, ReadNotesStep, ApplyStep, RelayStep, PutClaimedStep DEF Pass
<1> QED BY <1>1, <1>2, ChainSteps, ScreenSteps DEF Next

LEMMA SettlerAlways == Spec => []SettlerInv
BY SettlerInit, SettlerStep, PTL DEF Spec

-----------------------------------------------------------------------------
(* The chain, the database and every pass keep their types: no paid note    *)
(* stays with the relayer, and no note is paid that the mint did not sign.  *)
THEOREM TypeCorrect == Spec => []TypeOK
<1>1. SettlerInv => TypeOK
  BY DEF SettlerInv, ChainOK, TabsOK, PassOK, NotesOK, TypeOK, Passes, Places
<1> QED BY <1>1, SettlerAlways, PTL

(* A note stored as claimed or spent is paid, whatever tab wrote it from    *)
(* whatever it had read.                                                    *)
THEOREM PaidNotes == Spec => []ClaimedMeansPaid
<1>1. SettlerInv => ClaimedMeansPaid
  BY DEF SettlerInv, NotesOK
<1> QED BY <1>1, SettlerAlways, PTL

(* No write of a tab, a send or a reclaim loses the factor or the signature *)
(* of a signed note that is not paid.                                       *)
THEOREM KeysStay == Spec => []KeysKept
<1>1. SettlerInv => KeysKept
  <2> SUFFICES ASSUME SettlerInv, NEW p \in Signed \ paid
               PROVE  notes[p] \in {"awaiting-mint", "ready"}
    BY DEF KeysKept
  <2>1. p \in Points /\ p \in SignedPoints /\ p \notin paid
    BY DEF Signed
  <2> QED BY <2>1 DEF SettlerInv, NotesOK, NoteRecords, ClaimedMeansPaid
<1> QED BY <1>1, SettlerAlways, PTL

-----------------------------------------------------------------------------
(***************************************************************************)
(* One tab.  What its pass has read is then still so: nobody else writes   *)
(* the notes that wait or are ready, and the send screen writes only notes *)
(* that are claimed.                                                       *)
(***************************************************************************)

OneTab == \A t, u \in Tabs : t = u

Fresh(q, ns) ==
    /\ q.at \in {"search", "apply"} =>
          \A p \in Points : q.stored[p] = "awaiting-mint" => ns[p] = "awaiting-mint"
    /\ q.at \in {"announced", "claim", "paid"} => \A p \in q.todo : ns[p] = "ready"

FreshInv ==
    /\ \A t \in Tabs : Fresh(tab[t], notes)
    /\ \A p \in collecting : notes[p] \in {"claimed", "spent"}

NoneUnspent == \A p \in Points : notes[p] = "spent" => notes'[p] = "spent"

LEMMA FreshInit == Init => FreshInv
BY DEF Init, FreshInv, Fresh, NoPass

(* A step of the only pass that leaves the notes alone. *)
LEMMA FreshMoves ==
    ASSUME SettlerInv, FreshInv, OneTab, UNCHANGED <<size, notes, collecting>>,
           NEW t \in Tabs, NEW q, Fresh(q, notes), tab' = [tab EXCEPT ![t] = q]
    PROVE  FreshInv' /\ NoneUnspent
<1>1. \A u \in Tabs : u = t /\ tab'[u] = q
  BY DEF OneTab, SettlerInv, TabsOK
<1>2. Points' = Points
  BY DEF Points
<1>3. \A u \in Tabs : Fresh(tab[u], notes)'
  BY <1>1, <1>2 DEF Fresh
<1> QED BY <1>3 DEF FreshInv, NoneUnspent

LEMMA FreshQuiet ==
    ASSUME FreshInv, UNCHANGED <<size, notes, tab>>,
           \A p \in collecting' : p \in collecting \/ notes[p] = "claimed"
    PROVE  FreshInv' /\ NoneUnspent
<1>1. Points' = Points
  BY DEF Points
<1> QED BY <1>1 DEF FreshInv, Fresh, NoneUnspent

LEMMA FreshPass ==
    ASSUME SettlerInv, FreshInv, OneTab, NEW t \in Tabs, Pass(t)
    PROVE  FreshInv' /\ NoneUnspent
<1>0. /\ tab \in [Tabs -> Passes] /\ tab[t] \in Passes
      /\ tab[t].todo \subseteq Points
  BY PassRecord
<1>1. ASSUME UNCHANGED <<size, notes, collecting>>,
             NEW at, Go(t, at),
             \/ at \notin {"search", "apply", "announced", "claim", "paid"}
             \/ tab[t].at = "search" /\ at = "apply"
             \/ tab[t].at \in {"announced", "claim"} /\ at \in {"claim", "paid"}
      PROVE  FreshInv' /\ NoneUnspent
  <2> DEFINE q == [tab[t] EXCEPT !.at = at]
  <2>1. q.at = at /\ q.stored = tab[t].stored /\ q.todo = tab[t].todo
    BY <1>0 DEF Passes
  <2>2. Fresh(tab[t], notes)
    BY DEF FreshInv
  <2>3. tab' = [tab EXCEPT ![t] = q]
    BY <1>1 DEF Go
  <2> HIDE DEF q
  <2>4. Fresh(q, notes)
    BY <1>1, <2>1, <2>2 DEF Fresh
  <2> QED BY <1>1, <2>3, <2>4, FreshMoves
<1>2. ASSUME UNCHANGED <<size, notes, collecting>>, Stop(t)
      PROVE  FreshInv' /\ NoneUnspent
  <2>1. Fresh(NoPass, notes)
    BY DEF Fresh, NoPass
  <2> QED BY <1>2, <2>1, FreshMoves DEF Stop
<1>3. CASE Start(t) \/ \E h \in Heights : ReadStatus(t, h)
  <2> DEFINE q == tab'[t]
  <2>1. /\ q.at \in {"status", "receipt", "refunded", "stranded", "deadline"}
        /\ tab' = [tab EXCEPT ![t] = q]
    <3>1. CASE Start(t)
      BY <1>0, <3>1 DEF Start, Passes
    <3>2. ASSUME NEW h \in Heights, ReadStatus(t, h)
          PROVE  /\ q.at \in {"status", "receipt", "refunded", "stranded", "deadline"}
                 /\ tab' = [tab EXCEPT ![t] = q]
      BY <1>0, <3>2 DEF ReadStatus, Passes
    <3> QED BY <1>3, <3>1, <3>2
  <2>2. UNCHANGED <<size, notes, collecting>>
    BY <1>3 DEF Start, ReadStatus, world, db, screens
  <2> HIDE DEF q
  <2>3. Fresh(q, notes)
    BY <2>1 DEF Fresh
  <2> QED BY <2>1, <2>2, <2>3, FreshMoves
<1>4. CASE \/ ReadReceipt(t) \/ PutDeadline(t) \/ ClaimsDone(t) \/ ReadAfter(t)
           \/ PutAnnounced(t) \/ ApplyForeign(t) \/ Abandon(t) \/ Number(t)
           \/ \E h \in Heights : Search(t, h)
           \/ \E status \in {"refunded", "stranded", "claimed"} : PutEnd(t, status)
  <2>1. UNCHANGED <<size, notes, collecting>>
    BY <1>4 DEF ReadReceipt, PutDeadline, ClaimsDone, ReadAfter, PutAnnounced,
       ApplyForeign, Abandon, Number, Search, PutEnd, world, db, screens
  <2>2. \/ Stop(t) \/ Go(t, "number") \/ Go(t, "notes") \/ Go(t, "finish")
        \/ Go(t, "claimed") \/ Go(t, "stranded")
        \/ tab[t].at = "announced" /\ Go(t, "claim")
        \/ tab[t].at = "search" /\ Go(t, "apply")
    BY <1>4 DEF ReadReceipt, PutDeadline, ClaimsDone, ReadAfter, PutAnnounced,
       ApplyForeign, Abandon, Number, Search, PutEnd
  <2>3. CASE Stop(t)
    BY <1>2, <2>1, <2>3
  <2>4. CASE \/ Go(t, "number") \/ Go(t, "notes") \/ Go(t, "finish")
             \/ Go(t, "claimed") \/ Go(t, "stranded")
    BY <1>1, <2>1, <2>4
  <2>5. CASE tab[t].at = "announced" /\ Go(t, "claim")
    BY <1>1, <2>1, <2>5
  <2>6. CASE tab[t].at = "search" /\ Go(t, "apply")
    BY <1>1, <2>1, <2>6
  <2> QED BY <2>2, <2>3, <2>4, <2>5, <2>6
<1>5. CASE ReadNotes(t)
  <2>1. UNCHANGED <<size, notes, collecting>>
    BY <1>5 DEF ReadNotes, world, db, screens
  <2>2. \/ Stop(t)
        \/ \E next \in {"claim", "claimed", "finish", "search"} :
              tab' = [tab EXCEPT ![t].at = next, ![t].stored = notes,
                                 ![t].todo = Ready(notes)]
    BY <1>5 DEF ReadNotes
  <2>3. ASSUME NEW next \in {"claim", "claimed", "finish", "search"},
               tab' = [tab EXCEPT ![t].at = next, ![t].stored = notes,
                                  ![t].todo = Ready(notes)]
        PROVE  FreshInv' /\ NoneUnspent
    <3> DEFINE q == [[[tab[t] EXCEPT !.at = next] EXCEPT !.stored = notes]
                         EXCEPT !.todo = Ready(notes)]
    <3>1. q.at = next /\ q.stored = notes /\ q.todo = Ready(notes)
      BY <1>0 DEF Passes
    <3>2. tab' = [tab EXCEPT ![t] = q]
      BY <1>0, <2>3
    <3> HIDE DEF q
    <3>3. Fresh(q, notes)
      BY <3>1 DEF Fresh, Ready, Having
    <3> QED BY <2>1, <3>2, <3>3, FreshMoves
  <2> QED BY <1>2, <2>1, <2>2, <2>3
<1>6. CASE Apply(t)
  <2> DEFINE ready == Verified(tab[t].stored)
             unused == LeftOut(tab[t].stored)
  <2>1. \A p \in Points : p \in ready \cup unused => notes[p] = "awaiting-mint"
    BY <1>6 DEF Apply, FreshInv, Fresh, Verified, Checked, LeftOut, Having
  <2>2. /\ notes' = [p \in Points |-> IF p \in unused THEN "unused"
                                      ELSE IF p \in ready THEN "ready" ELSE notes[p]]
        /\ UNCHANGED <<size, collecting>> /\ ready \subseteq Points
        /\ ready \cap unused = {}
    BY <1>6 DEF Apply, world, screens, Verified, Checked, LeftOut, Having
  <2>3. tab'[t].at = "announced" /\ tab'[t].todo = ready
    BY <1>0, <1>6 DEF Apply, Passes
  <2> HIDE DEF ready, unused
  <2>4. \A p \in Points : notes[p] \in {"claimed", "spent"} => notes'[p] = notes[p]
    BY <2>1, <2>2
  <2>5. collecting \subseteq Points
    BY DEF SettlerInv, ChainOK
  <2>6. Points' = Points
    BY <2>2 DEF Points
  <2>7. \A u \in Tabs : u = t
    BY DEF OneTab
  <2>8. Fresh(tab[t], notes)'
    BY <2>2, <2>3 DEF Fresh
  <2> QED BY <2>2, <2>4, <2>5, <2>6, <2>7, <2>8 DEF FreshInv, NoneUnspent
<1>7. ASSUME NEW p \in Points,
             RelayClaims(t, p) \/ RelayConflicts(t, p) \/ RelayFails(t, p)
      PROVE  FreshInv' /\ NoneUnspent
  <2>1. UNCHANGED <<size, notes, collecting>>
    BY <1>7 DEF RelayClaims, RelayConflicts, RelayFails, world, db, screens
  <2>2. Stop(t) \/ (tab[t].at = "claim" /\ Go(t, "paid"))
    BY <1>7 DEF RelayClaims, RelayConflicts, RelayFails, Claiming, FailureThrows
  <2> QED BY <1>1, <1>2, <2>1, <2>2
<1>8. CASE PutClaimed(t)
  <2> DEFINE p == Min(tab[t].todo)
  <2>1. tab[t].at = "paid" /\ tab[t].todo # {} /\ Points \subseteq Nat
    BY <1>8, PassRecord, PointsNat DEF PutClaimed, SettlerInv
  <2>2. p \in tab[t].todo /\ p \in Points
    BY <1>0, <2>1, MinMember
  <2>3. /\ notes' = [notes EXCEPT ![p] = "claimed"]
        /\ UNCHANGED <<size, collecting>>
        /\ tab'[t].at = "claim" /\ tab'[t].todo = tab[t].todo \ {p}
    BY <1>0, <1>8 DEF PutClaimed, world, screens, Passes
  <2> HIDE DEF p
  <2>4. notes \in [Points -> {"awaiting-mint", "ready", "claimed", "spent", "unused"}]
    BY DEF SettlerInv, NotesOK, NoteRecords
  <2>5. \A i \in tab[t].todo : notes[i] = "ready"
    BY <2>1 DEF FreshInv, Fresh
  <2>6. \A i \in tab[t].todo \ {p} : notes'[i] = "ready"
    BY <1>0, <2>3, <2>4, <2>5
  <2>7. Fresh(tab[t], notes)' /\ \A u \in Tabs : u = t
    BY <2>3, <2>6 DEF Fresh, OneTab
  <2>8. \A i \in collecting : notes'[i] \in {"claimed", "spent"}
    BY <2>2, <2>3, <2>4 DEF FreshInv
  <2>9. NoneUnspent
    BY <2>2, <2>3, <2>4, <2>5 DEF NoneUnspent
  <2> QED BY <2>3, <2>7, <2>8, <2>9 DEF FreshInv
<1> DEFINE Reads == Start(t) \/ \E h \in Heights : ReadStatus(t, h)
           Moves == \/ ReadReceipt(t) \/ PutDeadline(t) \/ ClaimsDone(t) \/ ReadAfter(t)
                    \/ PutAnnounced(t) \/ ApplyForeign(t) \/ Abandon(t) \/ Number(t)
                    \/ \E h \in Heights : Search(t, h)
                    \/ \E status \in {"refunded", "stranded", "claimed"} : PutEnd(t, status)
           Relays == \E p \in Points :
                        RelayClaims(t, p) \/ RelayConflicts(t, p) \/ RelayFails(t, p)
<1>9. Reads \/ Moves \/ ReadNotes(t) \/ Apply(t) \/ PutClaimed(t) \/ Relays
  BY DEF Pass
<1>10. Reads => FreshInv' /\ NoneUnspent
  BY <1>3
<1>11. Moves => FreshInv' /\ NoneUnspent
  BY <1>4
<1>12. Relays => FreshInv' /\ NoneUnspent
  BY <1>7
<1> HIDE DEF Reads, Moves, Relays
<1> QED BY <1>5, <1>6, <1>8, <1>9, <1>10, <1>11, <1>12

LEMMA FreshStep ==
    ASSUME SettlerInv, FreshInv, OneTab, [Next]_vars
    PROVE  FreshInv' /\ NoneUnspent
<1>1. ASSUME NEW t \in Tabs, Pass(t) PROVE FreshInv' /\ NoneUnspent
  BY <1>1, FreshPass
<1>2. CASE \/ Block \/ MineDeposit \/ Announce \/ BecomeSteady
           \/ Reclaim \/ RefundMined \/ RecordRefund \/ ReclaimFails
           \/ UNCHANGED vars
  <2>1. UNCHANGED <<size, notes, tab, collecting>>
    BY <1>2 DEF Block, MineDeposit, Announce, BecomeSteady, Reclaim, RefundMined,
       RecordRefund, ReclaimFails, vars, world, db, screens
  <2> QED BY <2>1, FreshQuiet
<1>3. ASSUME NEW p \in Points, LandClaim(p) \/ Collect(p) \/ SendStops(p)
      PROVE  FreshInv' /\ NoneUnspent
  <2>1. /\ UNCHANGED <<size, notes, tab>>
        /\ \A i \in collecting' : i \in collecting \/ notes[i] = "claimed"
    BY <1>3 DEF LandClaim, Collect, SendStops, world, db, screens
  <2> QED BY <2>1, FreshQuiet
<1>4. ASSUME NEW p \in Points, RecordSpent(p)
      PROVE  FreshInv' /\ NoneUnspent
  <2>1. /\ notes' = [notes EXCEPT ![p] = "spent"] /\ UNCHANGED <<size, tab>>
        /\ collecting' = collecting \ {p} /\ notes[p] \in {"claimed", "spent"}
    BY <1>4 DEF RecordSpent, world, FreshInv
  <2>2. notes \in [Points -> {"awaiting-mint", "ready", "claimed", "spent", "unused"}]
    BY DEF SettlerInv, NotesOK, NoteRecords
  <2>3. ASSUME NEW t \in Tabs PROVE Fresh(tab[t], notes)'
    <3>1. Points' = Points /\ tab'[t] = tab[t] /\ Fresh(tab[t], notes)
      BY <2>1 DEF Points, FreshInv
    <3>2. \A i \in Points : i # p => notes'[i] = notes[i]
      BY <2>1, <2>2
    <3>3. tab[t].todo \subseteq Points
      BY PassRecord
    <3>4. ASSUME NEW i \in Points, notes[i] \in {"awaiting-mint", "ready"}
          PROVE  notes'[i] = notes[i]
      BY <2>1, <3>2, <3>4
    <3> QED BY <3>1, <3>3, <3>4 DEF Fresh
  <2>4. \A i \in collecting' : notes'[i] \in {"claimed", "spent"}
    BY <2>1, <2>2 DEF FreshInv
  <2>5. NoneUnspent
    BY <2>1, <2>2 DEF NoneUnspent
  <2> QED BY <2>3, <2>4, <2>5 DEF FreshInv
<1> QED BY <1>1, <1>2, <1>3, <1>4 DEF Next

(* In a wallet with one tab a spent note never comes back into the balance. *)
THEOREM SpentStays ==
    ASSUME OneTab
    PROVE  Spec => SpentStaysSpent
<1>1. SettlerInv /\ FreshInv /\ [Next]_vars => FreshInv' /\ [NoneUnspent]_vars
  BY FreshStep
<1>2. [NoneUnspent]_vars =>
          [\A p \in Points : notes[p] = "spent" => notes'[p] = "spent"]_vars
  BY DEF NoneUnspent
<1> QED BY <1>1, <1>2, FreshInit, SettlerAlways, PTL DEF Spec, SpentStaysSpent

=============================================================================
