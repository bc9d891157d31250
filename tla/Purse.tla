-------------------------------- MODULE Purse --------------------------------
(***************************************************************************)
(* The wallets and the drafts of the browser: the deposit screen           *)
(* (app/app/deposit/page.tsx), the melt (app/lib/melt.ts) and the store    *)
(* they share (app/lib/notes.ts, app/lib/privy.ts).                        *)
(*                                                                         *)
(* A deposit takes wallets, blinds one point for each, stores the record   *)
(* with the blinding factors, and only then asks for a transaction.  The   *)
(* factor exists on this disk and nowhere else.  A deposit that never was  *)
(* sent gives its wallets to the spare pool.  Screens and melts of several *)
(* tabs run over one store, and a page may stop at every await.            *)
(***************************************************************************)
EXTENDS Integers, FiniteSets

CONSTANTS
    Screens,        \* deposits the user starts
    Melts,          \* passes that melt the one change wallet
    Wallets,        \* the wallets the provider still gives this user
    PointsOf,       \* [Screens \cup Melts -> Nat], the pointCount of each
    PASSES,
    Erasers,        \* bound on the discards under way
    UserChecks,     \* "Discard it" is pressed only for a deposit that no page
                    \* works on and that the wallet of the user does not know
    WalletAnswers,  \* a wallet that sent a transaction says so
    StoreAnswers,   \* the write of the hash of a deposit does not fail
    NoTask

Tasks == Screens \cup Melts

ASSUME PurseAssumption ==
    /\ Screens \cap Melts = {} /\ NoTask \notin Tasks
    /\ PointsOf \in [Tasks -> Nat] /\ PASSES \in Nat \ {0}
    /\ UserChecks \in BOOLEAN /\ WalletAnswers \in BOOLEAN /\ StoreAnswers \in BOOLEAN

VARIABLES
    \* the store
    spare,          \* the pool of wallets that no deposit uses
    noteOf,         \* the deposit whose note each wallet is, with its factor
    record,         \* [Tasks -> "none" | "draft" | "hashed"]
    change,         \* the note of the change wallet: "claimed" | "spent" | "dust"
    \* the world
    made,           \* wallets the provider gave
    full,           \* the change wallet still holds its money
    prompt,         \* [Screens -> "none" | "open" | "sent" | "refused"]
    published,      \* deposits whose transaction reached the network
    \* the pages
    pc, hand, pass,
    seen,           \* deposits a page has loaded without a hash
    erasing,        \* discards between their read and their write
    contested       \* wallets that two discards had in their hands at once:
                    \* this history serves the properties alone

store == <<spare, noteOf, record, change>>
world == <<made, full, prompt, published>>
pages == <<pc, hand, pass>>
discards == <<erasing, contested>>
vars == <<store, world, pages, seen, discards>>

NotesOf(k) == {w \in Wallets : noteOf[w] = k}
Go(k, at) == pc' = [pc EXCEPT ![k] = at]

-----------------------------------------------------------------------------
(* createNoteWallets: the spare pool first, then the provider. *)

StartScreen(k) ==
    /\ k \in Screens /\ pc[k] = "idle"
    /\ Go(k, "take")
    /\ UNCHANGED <<store, world, hand, pass, seen, discards>>

KeptInPool(s) == spare
LeftInPool(s) == spare \ s

TakeSpare(k) ==
    /\ pc[k] = "take"
    /\ \E s \in SUBSET spare :
          /\ Cardinality(s) <= PointsOf[k]
          /\ s = spare \/ Cardinality(s) = PointsOf[k]
          /\ hand' = [hand EXCEPT ![k] = s]
          /\ spare' = LeftInPool(s)
    /\ Go(k, "make")
    /\ UNCHANGED <<noteOf, record, change, world, pass, seen, discards>>

OneShort(k) == Cardinality(hand[k]) <= PointsOf[k]
Short(k) == Cardinality(hand[k]) < PointsOf[k]

CreateWallet(k) ==
    /\ pc[k] = "make" /\ Short(k)
    /\ \E w \in Wallets \ made :
          made' = made \cup {w} /\ hand' = [hand EXCEPT ![k] = @ \cup {w}]
    /\ UNCHANGED <<store, full, prompt, published, pc, pass, seen, discards>>

Blinded(k) == pc[k] = "make" /\ Cardinality(hand[k]) = PointsOf[k]

(* putDeposit writes the record and its notes in one transaction. *)
PutDeposit(k) ==
    /\ record' = [record EXCEPT ![k] = "draft"]
    /\ noteOf' = [w \in Wallets |-> IF w \in hand[k] THEN k ELSE noteOf[w]]

-----------------------------------------------------------------------------
(* discardDeposit reads the notes in one transaction and deletes them in    *)
(* another.  It trusts the record in the hand of its caller, and nothing    *)
(* keeps two callers apart.                                                 *)

ReadForDiscard(k) ==
    /\ \E by \in Erasers \ {e.by : e \in erasing} :
          erasing' = erasing \cup {[by |-> by, deposit |-> k, notes |-> NotesOf(k)]}
    /\ contested' = contested \cup {w \in NotesOf(k) : \E e \in erasing : w \in e.notes}

Pooled(ws) == spare \cup ws
Erase(e) ==
    /\ erasing' = erasing \ {e}
    /\ record' = [record EXCEPT ![e.deposit] = "none"]
    /\ noteOf' = [w \in Wallets |-> IF w \in e.notes THEN NoTask ELSE noteOf[w]]
    /\ spare' = Pooled(e.notes)
    /\ UNCHANGED <<change, world, pages, seen, contested>>

EraseStops(e) ==
    /\ erasing' = erasing \ {e}
    /\ UNCHANGED <<store, world, pages, seen, contested>>

(* The deposit screen and the settler read records now and then, and act on *)
(* what they read.                                                          *)
SeeDraft(k) ==
    /\ record[k] = "draft" /\ k \notin seen
    /\ seen' = seen \cup {k}
    /\ UNCHANGED <<store, world, pages, discards>>

(* What a careful user makes sure of: no page works on the deposit any more *)
(* and the wallet neither asks about its transaction nor sent it.           *)
NeverSent(k) ==
    /\ pc[k] = "done" /\ k \notin published
    /\ k \in Screens => prompt[k] # "open"

(* The screen says that the deposit never reached the wallet.  Its button   *)
(* works again, and in every tab, while a discard is under way.             *)
UserDiscards(k) ==
    /\ k \in seen /\ (UserChecks => NeverSent(k))
    /\ ReadForDiscard(k)
    /\ UNCHANGED <<store, world, pages, seen>>

(* The settler discards a draft that holds no note. *)
SettlerDiscards(k) ==
    /\ k \in seen /\ NotesOf(k) = {}
    /\ ReadForDiscard(k)
    /\ UNCHANGED <<store, world, pages, seen>>

-----------------------------------------------------------------------------
(* The deposit screen. *)

ScreenPuts(k) ==
    /\ k \in Screens /\ Blinded(k)
    /\ PutDeposit(k)
    /\ Go(k, "ask")
    /\ UNCHANGED <<spare, change, world, hand, pass, seen, discards>>

AskWallet(k) ==
    /\ k \in Screens /\ pc[k] = "ask"
    /\ prompt' = [prompt EXCEPT ![k] = "open"]
    /\ Go(k, "wallet")
    /\ UNCHANGED <<store, made, full, published, hand, pass, seen, discards>>

(* The wallet belongs to the user and outlives the page. *)
WalletSends(k) ==
    /\ k \in Screens /\ prompt[k] = "open"
    /\ prompt' = [prompt EXCEPT ![k] = "sent"]
    /\ published' = published \cup {k}
    /\ UNCHANGED <<store, made, full, pages, seen, discards>>

WalletRefuses(k) ==
    /\ k \in Screens /\ prompt[k] = "open"
    /\ prompt' = [prompt EXCEPT ![k] = "refused"]
    /\ UNCHANGED <<store, made, full, published, pages, seen, discards>>

HearHash(k) ==
    /\ k \in Screens /\ pc[k] = "wallet" /\ prompt[k] = "sent"
    /\ Go(k, "hash")
    /\ UNCHANGED <<store, world, hand, pass, seen, discards>>

(* The chain did not switch, the wallet refused, its answer was lost, or    *)
(* the write of the hash failed: the screen still holds the draft and takes *)
(* all four for a transaction that does not exist.                          *)
NoAnswer(k) ==
    \/ pc[k] = "ask"
    \/ pc[k] = "wallet" /\ (WalletAnswers => prompt[k] = "refused")
    \/ pc[k] = "hash" /\ ~ StoreAnswers

ScreenGivesUp(k) ==
    /\ k \in Screens /\ NoAnswer(k)
    /\ ReadForDiscard(k)
    /\ Go(k, "done")
    /\ UNCHANGED <<store, world, hand, pass, seen>>

(* putDepositOnly writes the record of the draft with the hash. *)
PutHash(k) ==
    /\ pc[k] = "hash"
    /\ record' = [record EXCEPT ![k] = "hashed"]
    /\ Go(k, IF k \in Melts THEN "spent" ELSE "done")
    /\ UNCHANGED <<spare, noteOf, change, world, hand, pass, seen, discards>>

-----------------------------------------------------------------------------
(* The melt of the change wallet. *)

PickChange(k) ==
    /\ k \in Melts /\ pc[k] = "idle" /\ change = "claimed"
    /\ Go(k, "balance")
    /\ UNCHANGED <<store, world, hand, pass, seen, discards>>

ReadBalance(k) ==
    /\ pc[k] = "balance"
    /\ Go(k, IF full THEN "take" ELSE "dust")
    /\ UNCHANGED <<store, world, hand, pass, seen, discards>>

(* The gas takes more than the pass left, so the next pass asks for less,   *)
(* or the melt ends without one.                                            *)
GasTooHigh(k) ==
    /\ k \in Melts /\ Blinded(k) /\ full
    /\ spare' = Pooled(hand[k])
    /\ hand' = [hand EXCEPT ![k] = {}]
    /\ pass' = [pass EXCEPT ![k] = @ + 1]
    /\ \E at \in {"take", "dust"} :
          (at = "take" => pass'[k] < PASSES) /\ Go(k, at)
    /\ UNCHANGED <<noteOf, record, change, world, seen, discards>>

(* A wallet that lost its money meanwhile fails the estimate. *)
MeltPuts(k) ==
    /\ k \in Melts /\ Blinded(k) /\ full
    /\ PutDeposit(k)
    /\ Go(k, "sign")
    /\ UNCHANGED <<spare, change, world, hand, pass, seen, discards>>

Sign(k) ==
    /\ pc[k] = "sign"
    /\ Go(k, "send")
    /\ UNCHANGED <<store, world, hand, pass, seen, discards>>

SignFails(k) ==
    /\ pc[k] = "sign"
    /\ ReadForDiscard(k)
    /\ Go(k, "done")
    /\ UNCHANGED <<store, world, hand, pass, seen>>

(* The node takes the transaction while the wallet can pay it.  Its answer  *)
(* may be lost.                                                             *)
DiscardLostSend(k) == ReadForDiscard(k)
AfterLostSend(k) == UNCHANGED discards

SpentFirst == "spent"
HashFirst == "hash"

Send(k) ==
    /\ pc[k] = "send" /\ full
    /\ full' = FALSE /\ published' = published \cup {k}
    /\ \/ Go(k, HashFirst) /\ UNCHANGED discards
       \/ Go(k, "done") /\ AfterLostSend(k)
    /\ UNCHANGED <<store, made, prompt, hand, pass, seen>>

RecordSpent(k) ==
    /\ pc[k] = "spent"
    /\ change' = "spent"
    /\ Go(k, "done")
    /\ UNCHANGED <<spare, noteOf, record, world, hand, pass, seen, discards>>

(* meltWallet answered undefined: the settler writes the note it had read. *)
RecordDust(k) ==
    /\ pc[k] = "dust"
    /\ change' = "dust"
    /\ Go(k, "done")
    /\ UNCHANGED <<spare, noteOf, record, world, hand, pass, seen, discards>>

(* A call throws where nothing catches it, or the page reloads.  Wallets in *)
(* the hand are gone.                                                       *)
Stops(k) ==
    /\ pc[k] \notin {"idle", "done"}
    /\ Go(k, "done")
    /\ UNCHANGED <<store, world, hand, pass, seen, discards>>

-----------------------------------------------------------------------------
Init ==
    /\ spare = {} /\ noteOf = [w \in Wallets |-> NoTask]
    /\ record = [k \in Tasks |-> "none"] /\ change = "claimed"
    /\ made = {} /\ full = TRUE
    /\ prompt = [k \in Screens |-> "none"] /\ published = {}
    /\ pc = [k \in Tasks |-> "idle"] /\ hand = [k \in Tasks |-> {}]
    /\ pass = [k \in Tasks |-> 0] /\ seen = {}
    /\ erasing = {} /\ contested = {}

Next ==
    \/ \E k \in Tasks :
          \/ StartScreen(k) \/ TakeSpare(k) \/ CreateWallet(k)
          \/ SeeDraft(k) \/ UserDiscards(k) \/ SettlerDiscards(k)
          \/ ScreenPuts(k) \/ AskWallet(k) \/ WalletSends(k) \/ WalletRefuses(k)
          \/ HearHash(k) \/ ScreenGivesUp(k) \/ PutHash(k)
          \/ PickChange(k) \/ ReadBalance(k) \/ GasTooHigh(k) \/ MeltPuts(k)
          \/ Sign(k) \/ SignFails(k) \/ Send(k)
          \/ RecordSpent(k) \/ RecordDust(k) \/ Stops(k)
    \/ \E e \in erasing : Erase(e) \/ EraseStops(e)

Spec == Init /\ [][Next]_vars

-----------------------------------------------------------------------------
TypeOK ==
    /\ spare \subseteq made /\ made \subseteq Wallets
    /\ noteOf \in [Wallets -> Tasks \cup {NoTask}]
    /\ record \in [Tasks -> {"none", "draft", "hashed"}]
    /\ change \in {"claimed", "spent", "dust"} /\ full \in BOOLEAN
    /\ prompt \in [Screens -> {"none", "open", "sent", "refused"}]
    /\ published \subseteq Tasks /\ seen \subseteq Tasks
    /\ pc \in [Tasks -> {"idle", "take", "make", "ask", "wallet", "hash", "balance",
                         "sign", "send", "spent", "dust", "done"}]
    /\ hand \in [Tasks -> SUBSET made]
    /\ \A k \in Tasks : Cardinality(hand[k]) <= PointsOf[k]
    /\ pass \in [Tasks -> 0 .. PASSES]
    /\ erasing \subseteq [by : Erasers, deposit : Tasks, notes : SUBSET Wallets]
    /\ \A e, f \in erasing : e.by = f.by => e = f
    /\ contested \subseteq Wallets

(* The blinding factors of a deposit that reached the network stay on the   *)
(* disk with its record.  Without them no claim of its notes is possible.   *)
(* Two discards that meet are the exception: the second one deletes a note  *)
(* by its wallet, which a later deposit may have by then.                   *)
FactorsKept ==
    \A k \in published : \A w \in hand[k] \ contested :
        record[k] # "none" /\ noteOf[w] = k

(* The points of k are on their way to the network, or there. *)
Uses(k) == \/ pc[k] \in {"make", "ask", "wallet", "sign", "send"}
           \/ k \in published
           \/ k \in Screens /\ prompt[k] = "open"

(* No wallet serves twice: two deposits never blind one wallet, and a spare *)
(* wallet is in no deposit that was or may still be sent, unless two        *)
(* discards met over the wallet.                                            *)
NoWalletTwice ==
    \A k \in Tasks : Uses(k) =>
        /\ hand[k] \cap spare \subseteq contested
        /\ \A j \in Tasks \ {k} : Uses(j) => hand[j] \cap hand[k] \subseteq contested

(* The change leaves the balance only when a deposit carries its money and  *)
(* the settler can follow that deposit, by its hash.  (A deposit without a  *)
(* point is a gift, and nobody has to follow it; where two discards met, a  *)
(* third one may find the record without a note.)                           *)
SpentIsFollowed ==
    change = "spent" =>
        \E k \in Melts \cap published :
            hand[k] \subseteq contested \/ record[k] = "hashed"

=============================================================================
