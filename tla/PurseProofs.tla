----------------------------- MODULE PurseProofs -----------------------------
(***************************************************************************)
(* The wallets and the factors of the browser, for any number of screens,  *)
(* melts, wallets and discards, under the conduct that the checked         *)
(* instance assumes: a wallet that sent a transaction says so, the write   *)
(* of its hash does not fail, and a user looks into the wallet before a    *)
(* discard.  What is said of a wallet excepts those that two discards had  *)
(* in their hands at once.                                                 *)
(***************************************************************************)
EXTENDS Purse, FiniteSetTheorems, TLAPS

Conduct == UserChecks /\ WalletAnswers /\ StoreAnswers

Places == {"idle", "take", "make", "ask", "wallet", "hash", "balance",
           "sign", "send", "spent", "dust", "done"}

Discards == [by : Erasers, deposit : Tasks, notes : SUBSET Wallets]

Types ==
    /\ spare \subseteq made /\ made \subseteq Wallets
    /\ noteOf \in [Wallets -> Tasks \cup {NoTask}]
    /\ record \in [Tasks -> {"none", "draft", "hashed"}]
    /\ prompt \in [Screens -> {"none", "open", "sent", "refused"}]
    /\ published \subseteq Tasks /\ seen \subseteq Tasks
    /\ pc \in [Tasks -> Places]
    /\ hand \in [Tasks -> SUBSET made]
    /\ erasing \subseteq Discards /\ contested \subseteq Wallets
    /\ \A e \in erasing : e.notes \subseteq made

(* Where a page stands says what the user's wallet and the network saw.     *)
Phase(k) ==
    /\ pc[k] \in {"ask", "wallet"} => k \in Screens
    /\ pc[k] \in {"sign", "send", "spent", "balance", "dust"} => k \in Melts
    /\ pc[k] \in {"hash", "spent"} => k \in published
    /\ k \in Screens =>
          /\ pc[k] \in {"idle", "take", "make", "ask"} => prompt[k] = "none"
          /\ prompt[k] = "sent" <=> k \in published
    /\ k \in Melts /\ k \in published => pc[k] \in {"hash", "spent", "done"}

(* The record of k is written, and its points may still be sent.            *)
Put(k) == \/ pc[k] \in {"ask", "wallet", "sign", "send"}
          \/ k \in published
          \/ k \in Screens /\ prompt[k] = "open"

Early == {"idle", "take", "make", "balance"}

(* Before the record is written nothing refers to the deposit.              *)
Unwritten(k) ==
    pc[k] \in Early =>
        /\ \A w \in Wallets : noteOf[w] # k
        /\ k \notin seen /\ record[k] = "none"
        /\ \A e \in erasing : e.deposit # k

(* While the points of k may be sent, its factors are stored, and a discard *)
(* of it is under way only if it has none.                                  *)
Kept(k) ==
    Put(k) =>
        /\ \A w \in hand[k] \ contested : noteOf[w] = k
        /\ hand[k] \subseteq contested \/ record[k] # "none"
        /\ \A e \in erasing : e.deposit = k => hand[k] \subseteq contested

(* The wallet of a note is its deposit's, and no spare one.                 *)
Owned ==
    \A w \in Wallets : noteOf[w] # NoTask =>
        w \in hand[noteOf[w]] /\ (w \in spare => w \in contested)

(* A wallet in the hand of a deposit that uses it is nowhere else.          *)
Alone(k) ==
    Uses(k) => \A w \in hand[k] \ contested :
        /\ w \notin spare /\ noteOf[w] \in {k, NoTask}
        /\ \A j \in Tasks : Uses(j) /\ w \in hand[j] => j = k

(* A discard between its read and its write still holds notes of its        *)
(* deposit, and no other discard holds them.                                *)
Erasures ==
    \A e \in erasing : \A w \in e.notes \ contested :
        /\ noteOf[w] = e.deposit
        /\ \A f \in erasing : w \in f.notes => f = e

Followed(k) ==
    k \in Melts /\ k \in published /\ (hand[k] \subseteq contested \/ record[k] = "hashed")

ChangeInv ==
    /\ \A k \in Tasks : pc[k] = "spent" => Followed(k)
    /\ change = "spent" => \E k \in Tasks : Followed(k)

PurseInv ==
    /\ Types
    /\ \A k \in Tasks : Phase(k)
    /\ \A k \in Tasks : Unwritten(k)
    /\ \A k \in Tasks : Kept(k)
    /\ Owned
    /\ \A k \in Tasks : Alone(k)
    /\ Erasures
    /\ ChangeInv

-----------------------------------------------------------------------------
LEMMA PurseInit == Init => PurseInv
<1> SUFFICES ASSUME Init PROVE PurseInv
  OBVIOUS
<1>1. Types
  BY DEF Init, Types, Places
<1>2. ASSUME NEW k \in Tasks PROVE Phase(k) /\ Unwritten(k) /\ Kept(k) /\ Alone(k)
  BY PurseAssumption DEF Init, Phase, Unwritten, Kept, Alone, Put, Uses, Tasks
<1>3. Owned /\ Erasures /\ ChangeInv
  BY DEF Init, Owned, Erasures, ChangeInv
<1> QED BY <1>1, <1>2, <1>3 DEF PurseInv

LEMMA UsesPut ==
    ASSUME NEW k PROVE Uses(k) <=> pc[k] = "make" \/ Put(k)
BY DEF Uses, Put

(* Steps that move a page or a wallet of the user and leave the store.      *)
LEMMA QuietStep ==
    ASSUME PurseInv, UNCHANGED <<spare, noteOf, record, hand, contested>>,
           erasing' \subseteq erasing,
           Types', \A k \in Tasks : Phase(k)', ChangeInv',
           \A k \in Tasks : /\ Uses(k)' => Uses(k)
                            /\ Put(k)' => Put(k)
                            /\ pc'[k] \in Early => pc[k] \in Early
                            /\ k \in seen' => k \in seen \/ pc'[k] \notin Early
    PROVE  PurseInv'
<1>1. ASSUME NEW k \in Tasks PROVE Unwritten(k)' /\ Kept(k)' /\ Alone(k)'
  <2>1. Unwritten(k)'
    BY DEF PurseInv, Unwritten
  <2>2. Kept(k)'
    BY DEF PurseInv, Kept
  <2>3. Alone(k)'
    BY DEF PurseInv, Alone
  <2> QED BY <2>1, <2>2, <2>3
<1>2. Owned' /\ Erasures'
  BY DEF PurseInv, Owned, Erasures
<1> QED BY <1>1, <1>2 DEF PurseInv

(* A page goes to another place, and nothing else moves. *)
LEMMA PageMoves ==
    ASSUME PurseInv, UNCHANGED <<spare, noteOf, record, hand, made, prompt>>,
           UNCHANGED <<published, seen, contested>>,
           erasing' \subseteq erasing,
           NEW k \in Tasks, NEW at \in Places, Go(k, at), Phase(k)',
           at = "make" => pc[k] = "make",
           at \in {"ask", "wallet", "sign", "send"} => Put(k),
           at \in Early => pc[k] \in Early,
           at = "spent" => Followed(k),
           change' = "spent" => change = "spent" \/ \E j \in Tasks : Followed(j)
    PROVE  PurseInv'
<1>0. pc \in [Tasks -> Places]
  BY DEF PurseInv, Types
<1>1. pc' \in [Tasks -> Places] /\ pc'[k] = at /\ \A j \in Tasks \ {k} : pc'[j] = pc[j]
  BY <1>0 DEF Go
<1>2. Types'
  BY <1>1 DEF PurseInv, Types, Discards
<1>3. ASSUME NEW j \in Tasks PROVE Phase(j)'
  BY <1>1 DEF PurseInv, Phase
<1>4. ASSUME NEW j \in Tasks
      PROVE  /\ Uses(j)' => Uses(j)
             /\ Put(j)' => Put(j)
             /\ pc'[j] \in Early => pc[j] \in Early
             /\ j \in seen' => j \in seen \/ pc'[j] \notin Early
  BY <1>1 DEF Uses, Put
<1>5. ChangeInv'
  BY <1>1 DEF PurseInv, ChangeInv, Followed
<1> QED BY <1>2, <1>3, <1>4, <1>5, QuietStep

LEMMA TypedPhase ==
    ASSUME PurseInv, NEW k \in Tasks
    PROVE  Phase(k) /\ Unwritten(k) /\ Kept(k) /\ Alone(k) /\ pc[k] \in Places
BY DEF PurseInv, Types

LEMMA PageSteps ==
    ASSUME PurseInv, NEW k \in Tasks,
           \/ StartScreen(k) \/ PickChange(k) \/ ReadBalance(k) \/ HearHash(k)
           \/ Sign(k) \/ RecordSpent(k) \/ RecordDust(k) \/ Stops(k)
    PROVE  PurseInv'
<1>0. Phase(k) /\ Screens \cap Melts = {}
  BY TypedPhase, PurseAssumption
<1> DEFINE Quiet == /\ UNCHANGED <<spare, noteOf, record, hand, made, prompt,
                                   published, seen, contested>>
                    /\ erasing' \subseteq erasing
<1>1. ASSUME StartScreen(k) PROVE PurseInv'
  <2>1. Quiet /\ change' = change /\ Go(k, "take") /\ k \in Screens /\ pc[k] = "idle"
    BY <1>1 DEF StartScreen, store, discards, world
  <2>2. Phase(k)'
    BY <1>0, <2>1 DEF Phase, Go, PurseInv, Types
  <2> QED BY <2>1, <2>2, PageMoves DEF Places, Early
<1>2. ASSUME PickChange(k) PROVE PurseInv'
  <2>1. Quiet /\ change' = change /\ Go(k, "balance") /\ k \in Melts /\ pc[k] = "idle"
    BY <1>2 DEF PickChange, store, discards, world
  <2>2. Phase(k)'
    BY <1>0, <2>1 DEF Phase, Go, PurseInv, Types
  <2> QED BY <2>1, <2>2, PageMoves DEF Places, Early
<1>3. ASSUME ReadBalance(k) PROVE PurseInv'
  <2>1. /\ Quiet /\ change' = change /\ pc[k] = "balance" /\ k \in Melts
        /\ Go(k, "take") \/ Go(k, "dust")
    BY <1>0, <1>3 DEF ReadBalance, store, discards, world, Phase
  <2>2. ASSUME Go(k, "take") PROVE Phase(k)'
    BY <1>0, <2>1, <2>2 DEF Phase, Go, PurseInv, Types
  <2>3. ASSUME Go(k, "dust") PROVE Phase(k)'
    BY <1>0, <2>1, <2>3 DEF Phase, Go, PurseInv, Types
  <2>4. ASSUME Go(k, "take") PROVE PurseInv'
    BY <2>1, <2>2, <2>4, PageMoves DEF Places, Early
  <2>5. ASSUME Go(k, "dust") PROVE PurseInv'
    BY <2>1, <2>3, <2>5, PageMoves DEF Places, Early
  <2> QED BY <2>1, <2>4, <2>5
<1>4. ASSUME HearHash(k) PROVE PurseInv'
  <2>1. /\ Quiet /\ change' = change /\ Go(k, "hash") /\ k \in Screens
        /\ pc[k] = "wallet" /\ prompt[k] = "sent"
    BY <1>4 DEF HearHash, store, discards, world
  <2>2. Phase(k)'
    BY <1>0, <2>1 DEF Phase, Go, PurseInv, Types
  <2> QED BY <2>1, <2>2, PageMoves DEF Places, Early
<1>5. ASSUME Sign(k) PROVE PurseInv'
  <2>1. /\ Quiet /\ change' = change /\ Go(k, "send") /\ pc[k] = "sign" /\ Put(k)
    BY <1>5 DEF Sign, store, discards, world, Put
  <2>2. Phase(k)'
    BY <1>0, <2>1 DEF Phase, Go, PurseInv, Types
  <2> QED BY <2>1, <2>2, PageMoves DEF Places, Early
<1>6. ASSUME RecordSpent(k) \/ RecordDust(k) \/ Stops(k) PROVE PurseInv'
  <2>1. /\ Quiet /\ Go(k, "done")
        /\ change' = "spent" => change = "spent" \/ Followed(k)
    BY <1>6 DEF RecordSpent, RecordDust, Stops, store, discards, world, PurseInv, ChangeInv
  <2>2. Phase(k)'
    BY <1>0, <2>1 DEF Phase, Go, PurseInv, Types
  <2> QED BY <2>1, <2>2, PageMoves DEF Places, Early
<1> QED BY <1>1, <1>2, <1>3, <1>4, <1>5, <1>6

(* The user's wallet and the network. *)
LEMMA WalletSteps ==
    ASSUME PurseInv, NEW k \in Tasks,
           AskWallet(k) \/ WalletSends(k) \/ WalletRefuses(k) \/ Send(k) \/ SeeDraft(k)
    PROVE  PurseInv'
<1>0. /\ Phase(k) /\ Screens \cap Melts = {} /\ Types
      /\ pc \in [Tasks -> Places]
      /\ prompt \in [Screens -> {"none", "open", "sent", "refused"}]
  BY TypedPhase, PurseAssumption DEF PurseInv, Types
<1>1. UNCHANGED <<spare, noteOf, record, hand>>
  BY DEF AskWallet, WalletSends, WalletRefuses, Send, SeeDraft, store, discards, pages
<1>2. ASSUME AskWallet(k) PROVE PurseInv'
  <2>1. /\ k \in Screens /\ pc[k] = "ask"
        /\ prompt' = [prompt EXCEPT ![k] = "open"] /\ Go(k, "wallet")
        /\ UNCHANGED <<made, published, seen, erasing, contested, change>>
    BY <1>2 DEF AskWallet, store, discards
  <2>2. /\ pc' \in [Tasks -> Places] /\ pc'[k] = "wallet" /\ prompt'[k] = "open"
        /\ prompt' \in [Screens -> {"none", "open", "sent", "refused"}]
        /\ \A j \in Tasks \ {k} : pc'[j] = pc[j] /\ (j \in Screens => prompt'[j] = prompt[j])
    BY <1>0, <2>1 DEF Go, Places
  <2>3. Types'
    BY <1>0, <1>1, <2>1, <2>2 DEF Types, Discards
  <2>4. ASSUME NEW j \in Tasks PROVE Phase(j)'
    BY <1>0, <2>1, <2>2 DEF PurseInv, Phase
  <2>5. ASSUME NEW j \in Tasks
        PROVE  /\ Uses(j)' => Uses(j)
               /\ Put(j)' => Put(j)
               /\ pc'[j] \in Early => pc[j] \in Early
    BY <2>1, <2>2 DEF Uses, Put, Early
  <2>6. ChangeInv'
    BY <1>1, <2>1, <2>2 DEF PurseInv, ChangeInv, Followed
  <2> QED BY <1>1, <2>1, <2>3, <2>4, <2>5, <2>6, QuietStep
<1>3. ASSUME WalletSends(k) \/ WalletRefuses(k) PROVE PurseInv'
  <2>1. /\ k \in Screens /\ prompt[k] = "open"
        /\ \/ prompt' = [prompt EXCEPT ![k] = "sent"] /\ published' = published \cup {k}
           \/ prompt' = [prompt EXCEPT ![k] = "refused"] /\ published' = published
        /\ UNCHANGED <<made, seen, erasing, contested, change, pc>>
    BY <1>3 DEF WalletSends, WalletRefuses, store, discards, pages
  <2>2. /\ prompt' \in [Screens -> {"none", "open", "sent", "refused"}]
        /\ \A j \in Tasks \ {k} : /\ j \in Screens => prompt'[j] = prompt[j]
                                  /\ j \in published' <=> j \in published
        /\ \/ prompt'[k] = "sent" /\ k \in published'
           \/ prompt'[k] = "refused" /\ (k \in published' <=> k \in published)
        /\ published \subseteq published' /\ published' \subseteq Tasks
    BY <1>0, <2>1 DEF Types
  <2>3. Types'
    BY <1>0, <1>1, <2>1, <2>2 DEF Types, Discards
  <2>4. ASSUME NEW j \in Tasks PROVE Phase(j)'
    BY <1>0, <2>1, <2>2 DEF PurseInv, Phase
  <2>5. ASSUME NEW j \in Tasks
        PROVE  /\ Uses(j)' => Uses(j)
               /\ Put(j)' => Put(j)
    BY <2>1, <2>2 DEF Uses, Put
  <2>6. ChangeInv'
    BY <1>1, <2>1, <2>2 DEF PurseInv, ChangeInv, Followed
  <2> QED BY <1>1, <2>1, <2>3, <2>4, <2>5, <2>6, QuietStep
<1>4. ASSUME Send(k) PROVE PurseInv'
  <2>1. /\ pc[k] = "send" /\ published' = published \cup {k}
        /\ Go(k, "hash") \/ Go(k, "done")
        /\ UNCHANGED <<made, prompt, seen, erasing, contested, change>>
    BY <1>4 DEF Send, store, discards, HashFirst, AfterLostSend
  <2>2. /\ pc' \in [Tasks -> Places] /\ pc'[k] \in {"hash", "done"}
        /\ \A j \in Tasks \ {k} : pc'[j] = pc[j]
        /\ published' \subseteq Tasks /\ k \in Melts
    BY <1>0, <2>1 DEF Go, Places, Types, Phase
  <2>3. Types'
    BY <1>0, <1>1, <2>1, <2>2 DEF Types, Discards
  <2>4. ASSUME NEW j \in Tasks PROVE Phase(j)'
    BY <1>0, <2>1, <2>2 DEF PurseInv, Phase
  <2>5. ASSUME NEW j \in Tasks
        PROVE  /\ Uses(j)' => Uses(j)
               /\ Put(j)' => Put(j)
               /\ pc'[j] \in Early => pc[j] \in Early
    BY <2>1, <2>2 DEF Uses, Put, Early
  <2>6. ChangeInv'
    BY <1>1, <2>1, <2>2 DEF PurseInv, ChangeInv, Followed
  <2> QED BY <1>1, <2>1, <2>3, <2>4, <2>5, <2>6, QuietStep
<1>5. ASSUME SeeDraft(k) PROVE PurseInv'
  <2>1. /\ record[k] = "draft" /\ seen' = seen \cup {k}
        /\ UNCHANGED <<made, prompt, published, pc, erasing, contested, change>>
    BY <1>5 DEF SeeDraft, store, discards, world, pages
  <2>2. pc[k] \notin Early
    BY <2>1, TypedPhase DEF Unwritten
  <2>3. Types'
    BY <1>0, <1>1, <2>1 DEF Types, Discards
  <2>4. ASSUME NEW j \in Tasks PROVE Phase(j)'
    BY <2>1 DEF PurseInv, Phase
  <2>5. ASSUME NEW j \in Tasks
        PROVE  /\ Uses(j)' => Uses(j)
               /\ Put(j)' => Put(j)
               /\ j \in seen' => j \in seen \/ pc'[j] \notin Early
    BY <2>1, <2>2 DEF Uses, Put
  <2>6. ChangeInv'
    BY <1>1, <2>1 DEF PurseInv, ChangeInv, Followed
  <2> QED BY <1>1, <2>1, <2>3, <2>4, <2>5, <2>6, QuietStep
<1> QED BY <1>2, <1>3, <1>4, <1>5

LEMMA HashStep ==
    ASSUME PurseInv, NEW k \in Tasks, PutHash(k)
    PROVE  PurseInv'
<1>1. /\ pc[k] = "hash" /\ record' = [record EXCEPT ![k] = "hashed"]
      /\ UNCHANGED <<spare, noteOf, made, prompt, published, hand, seen>>
      /\ UNCHANGED <<erasing, contested, change>>
  BY DEF PutHash, world, discards
<1>2. /\ pc' \in [Tasks -> Places] /\ \A j \in Tasks \ {k} : pc'[j] = pc[j]
      /\ pc'[k] = IF k \in Melts THEN "spent" ELSE "done"
  BY DEF PurseInv, Types, PutHash, Go, Places
<1>3. /\ record' \in [Tasks -> {"none", "draft", "hashed"}]
      /\ record'[k] = "hashed" /\ \A j \in Tasks \ {k} : record'[j] = record[j]
  BY <1>1 DEF PurseInv, Types
<1>4. k \in published /\ (k \in Melts <=> k \notin Screens)
  BY <1>1, TypedPhase, PurseAssumption DEF Phase, Tasks
<1>5. Types'
  BY <1>1, <1>2, <1>3 DEF PurseInv, Types, Discards
<1>6. ASSUME NEW j \in Tasks
      PROVE  Phase(j)' /\ Unwritten(j)' /\ Kept(j)' /\ Alone(j)'
  <2>1. Phase(j)'
    BY <1>1, <1>2, <1>4 DEF PurseInv, Phase
  <2>2. Unwritten(j)'
    BY <1>1, <1>2, <1>3 DEF PurseInv, Unwritten, Early
  <2>3. Put(j)' => Put(j)
    BY <1>1, <1>2 DEF Put
  <2>4. Kept(j)'
    BY <1>1, <1>3, <2>3 DEF PurseInv, Kept
  <2>5. \A i \in Tasks : Uses(i)' => Uses(i)
    BY <1>1, <1>2 DEF Uses
  <2>6. Alone(j)'
    BY <1>1, <2>5 DEF PurseInv, Alone
  <2> QED BY <2>1, <2>2, <2>4, <2>6
<1>7. Owned' /\ Erasures'
  BY <1>1 DEF PurseInv, Owned, Erasures
<1>8. ChangeInv'
  BY <1>1, <1>2, <1>3, <1>4 DEF PurseInv, ChangeInv, Followed
<1> QED BY <1>5, <1>6, <1>7, <1>8 DEF PurseInv

-----------------------------------------------------------------------------
(* Wallets come from the pool and from the provider, and go back.           *)

(* The hand of k gets wallets that were in the pool or in no place at all.  *)
LEMMA HandGrows ==
    ASSUME PurseInv, NEW k \in Tasks, pc[k] \in {"take", "make"},
           NEW h \in SUBSET Wallets, hand' = [hand EXCEPT ![k] = h],
           Go(k, "make"),
           \A w \in h : w \in spare \/ w \notin made \/ (pc[k] = "make" /\ w \in hand[k]),
           spare' \subseteq spare, h \cap spare' \subseteq contested,
           made \subseteq made', made' \subseteq Wallets, h \subseteq made',
           UNCHANGED <<noteOf, record, prompt, published, seen, erasing, contested, change>>
    PROVE  PurseInv'
<1>0. /\ Types /\ Phase(k) /\ Unwritten(k) /\ Screens \cap Melts = {}
      /\ NoTask \notin Tasks
  BY TypedPhase, PurseAssumption DEF PurseInv
<1>1. /\ pc' \in [Tasks -> Places] /\ pc'[k] = "make"
      /\ \A j \in Tasks \ {k} : pc'[j] = pc[j]
  BY <1>0 DEF Types, Go, Places
<1>2. /\ hand' \in [Tasks -> SUBSET made'] /\ hand'[k] = h
      /\ \A j \in Tasks \ {k} : hand'[j] = hand[j]
  BY <1>0 DEF Types
<1>3. Types'
  BY <1>0, <1>1, <1>2 DEF Types, Discards
<1>4. k \notin published /\ ~ Put(k) /\ \A w \in Wallets : noteOf[w] # k
  BY <1>0 DEF Phase, Unwritten, Early, Tasks, Put
<1>5. ASSUME NEW w \in h \ contested
      PROVE  /\ noteOf[w] = NoTask
             /\ \A j \in Tasks \ {k} : Uses(j) => w \notin hand[j]
  <2>1. CASE w \in spare
    BY <2>1 DEF PurseInv, Owned, Alone
  <2>2. CASE w \notin made
    <3>1. \A j \in Tasks : w \notin hand[j]
      BY <1>0, <2>2 DEF Types
    <3>2. noteOf[w] \in Tasks \cup {NoTask}
      BY <1>0 DEF Types
    <3> QED BY <3>1, <3>2 DEF PurseInv, Owned
  <2>3. CASE pc[k] = "make" /\ w \in hand[k]
    <3>1. Uses(k)
      BY <2>3 DEF Uses
    <3> QED BY <1>4, <2>3, <3>1 DEF PurseInv, Alone
  <2> QED BY <2>1, <2>2, <2>3
<1>6. ASSUME NEW j \in Tasks
      PROVE  Phase(j)' /\ Unwritten(j)' /\ Kept(j)' /\ Alone(j)'
  <2>1. Phase(j)'
    BY <1>0, <1>1 DEF PurseInv, Phase
  <2>2. Unwritten(j)'
    BY <1>0, <1>1 DEF PurseInv, Unwritten, Early
  <2>3. Put(j)' => Put(j) /\ j # k
    BY <1>1, <1>4 DEF Put
  <2>4. Kept(j)'
    BY <1>2, <2>3 DEF PurseInv, Kept
  <2>5. \A i \in Tasks \ {k} : Uses(i)' => Uses(i)
    BY <1>1 DEF Uses
  <2>6. Alone(j)'
    <3> SUFFICES ASSUME Uses(j)', NEW w \in hand'[j] \ contested
                 PROVE  /\ w \notin spare' /\ noteOf[w] \in {j, NoTask}
                        /\ \A i \in Tasks : Uses(i)' /\ w \in hand'[i] => i = j
      BY DEF Alone
    <3>1. CASE j = k
      BY <1>2, <1>5, <2>5, <3>1
    <3>2. CASE j # k
      BY <1>2, <1>5, <2>5, <3>2 DEF PurseInv, Alone
    <3> QED BY <3>1, <3>2
  <2> QED BY <2>1, <2>2, <2>4, <2>6
<1>7. Owned'
  <2> SUFFICES ASSUME NEW w \in Wallets, noteOf[w] # NoTask
               PROVE  w \in hand'[noteOf[w]] /\ (w \in spare' => w \in contested)
    BY DEF Owned
  <2>1. /\ noteOf[w] \in Tasks \ {k} /\ w \in hand[noteOf[w]]
        /\ w \in spare => w \in contested
    BY <1>0, <1>4 DEF PurseInv, Types, Owned
  <2> QED BY <1>2, <2>1
<1>8. Erasures'
  BY DEF PurseInv, Erasures
<1>9. ChangeInv'
  BY <1>1, <1>2, <1>4 DEF PurseInv, ChangeInv, Followed
<1> QED BY <1>3, <1>6, <1>7, <1>8, <1>9 DEF PurseInv

LEMMA HandSteps ==
    ASSUME PurseInv, NEW k \in Tasks, TakeSpare(k) \/ CreateWallet(k)
    PROVE  PurseInv'
<1>0. Types
  BY DEF PurseInv
<1>1. ASSUME TakeSpare(k) PROVE PurseInv'
  <2>1. PICK s \in SUBSET spare : /\ hand' = [hand EXCEPT ![k] = s]
                                  /\ spare' = spare \ s
    BY <1>1 DEF TakeSpare, LeftInPool
  <2>2. /\ pc[k] = "take" /\ Go(k, "make")
        /\ UNCHANGED <<noteOf, record, change, made, prompt, published, seen, erasing, contested>>
    BY <1>1 DEF TakeSpare, world, discards
  <2>3. s \in SUBSET Wallets /\ s \subseteq made' /\ made' \subseteq Wallets
    BY <1>0, <2>2 DEF Types
  <2> QED BY <2>1, <2>2, <2>3, HandGrows
<1>2. ASSUME CreateWallet(k) PROVE PurseInv'
  <2>1. PICK w \in Wallets \ made : /\ made' = made \cup {w}
                                    /\ hand' = [hand EXCEPT ![k] = hand[k] \cup {w}]
    BY <1>2 DEF CreateWallet
  <2> DEFINE h == hand[k] \cup {w}
  <2>2. /\ pc[k] = "make" /\ pc' = pc
        /\ UNCHANGED <<spare, noteOf, record, change, prompt, published, seen, erasing, contested>>
    BY <1>2 DEF CreateWallet, store, discards
  <2>3. Go(k, "make")
    BY <1>0, <2>2 DEF Types, Go
  <2>4. h \in SUBSET Wallets /\ h \subseteq made' /\ made' \subseteq Wallets
    BY <1>0, <2>1 DEF Types
  <2>5. h \cap spare \subseteq contested
    <3>1. Uses(k)
      BY <2>2 DEF Uses
    <3> QED BY <1>0, <2>1, <3>1 DEF PurseInv, Alone, Types
  <2>6. spare' \subseteq spare /\ h \cap spare' \subseteq contested
    BY <2>2, <2>5
  <2>7. \A x \in h : x \in spare \/ x \notin made \/ (pc[k] = "make" /\ x \in hand[k])
    BY <2>1, <2>2
  <2>8. hand' = [hand EXCEPT ![k] = h] /\ made \subseteq made'
    BY <2>1
  <2> HIDE DEF h
  <2> QED BY <2>2, <2>3, <2>4, <2>6, <2>7, <2>8, HandGrows
<1> QED BY <1>1, <1>2

(* The wallets of a melt that had too little for its gas go to the pool.    *)
LEMMA GasStep ==
    ASSUME PurseInv, NEW k \in Tasks, GasTooHigh(k)
    PROVE  PurseInv'
<1>0. /\ Types /\ Phase(k) /\ Unwritten(k) /\ Screens \cap Melts = {}
      /\ NoTask \notin Tasks
  BY TypedPhase, PurseAssumption DEF PurseInv
<1>1. /\ k \in Melts /\ pc[k] = "make"
      /\ spare' = spare \cup hand[k] /\ hand' = [hand EXCEPT ![k] = {}]
      /\ UNCHANGED <<noteOf, record, change, made, prompt, published, seen, erasing, contested>>
  BY DEF GasTooHigh, Blinded, Pooled, world, discards
<1>2. /\ pc' \in [Tasks -> Places] /\ pc'[k] \in {"take", "dust"}
      /\ \A j \in Tasks \ {k} : pc'[j] = pc[j]
  BY <1>0 DEF Types, GasTooHigh, Go, Places
<1>3. /\ hand' \in [Tasks -> SUBSET made] /\ hand'[k] = {}
      /\ \A j \in Tasks \ {k} : hand'[j] = hand[j]
  BY <1>0, <1>1 DEF Types
<1>4. Types'
  BY <1>0, <1>1, <1>2, <1>3 DEF Types, Discards
<1>5. k \notin published /\ ~ Put(k) /\ \A w \in Wallets : noteOf[w] # k
  BY <1>0, <1>1 DEF Phase, Unwritten, Early, Tasks, Put
<1>6. ASSUME NEW w \in hand[k] \ contested
      PROVE  /\ noteOf[w] = NoTask
             /\ \A j \in Tasks \ {k} : Uses(j) => w \notin hand[j]
  <2>1. Uses(k) /\ w \in Wallets
    BY <1>0, <1>1 DEF Uses, Types
  <2> QED BY <1>5, <2>1 DEF PurseInv, Alone
<1>7. ASSUME NEW j \in Tasks
      PROVE  Phase(j)' /\ Unwritten(j)' /\ Kept(j)' /\ Alone(j)'
  <2>1. Phase(j)'
    BY <1>0, <1>1, <1>2, <1>5 DEF PurseInv, Phase
  <2>2. Unwritten(j)'
    BY <1>0, <1>1, <1>2 DEF PurseInv, Unwritten, Early
  <2>3. Put(j)' => Put(j) /\ j # k
    BY <1>1, <1>2, <1>5 DEF Put
  <2>4. Kept(j)'
    BY <1>1, <1>3, <2>3 DEF PurseInv, Kept
  <2>5. \A i \in Tasks : Uses(i)' => Uses(i) /\ i # k
    BY <1>0, <1>1, <1>2, <1>5 DEF Uses
  <2>6. Alone(j)'
    <3> SUFFICES ASSUME Uses(j)', NEW w \in hand'[j] \ contested
                 PROVE  /\ w \notin spare' /\ noteOf[w] \in {j, NoTask}
                        /\ \A i \in Tasks : Uses(i)' /\ w \in hand'[i] => i = j
      BY <1>1 DEF Alone
    <3>1. j # k /\ Uses(j) /\ w \in hand[j] \ contested
      BY <1>3, <2>5
    <3> QED BY <1>1, <1>3, <1>6, <2>5, <3>1 DEF PurseInv, Alone
  <2> QED BY <2>1, <2>2, <2>4, <2>6
<1>8. Owned'
  <2> SUFFICES ASSUME NEW w \in Wallets, noteOf[w] # NoTask
               PROVE  w \in hand'[noteOf[w]] /\ (w \in spare' => w \in contested)
    BY <1>1 DEF Owned
  <2>1. /\ noteOf[w] \in Tasks \ {k} /\ w \in hand[noteOf[w]]
        /\ w \in spare => w \in contested
    BY <1>0, <1>5 DEF PurseInv, Types, Owned
  <2> QED BY <1>1, <1>3, <1>6, <2>1
<1>9. Erasures'
  BY <1>1 DEF PurseInv, Erasures
<1>10. ChangeInv'
  BY <1>1, <1>2, <1>3, <1>5 DEF PurseInv, ChangeInv, Followed
<1> QED BY <1>4, <1>7, <1>8, <1>9, <1>10 DEF PurseInv

-----------------------------------------------------------------------------
(* The record is written: from now on nothing but a discard removes it.     *)
LEMMA PutStep ==
    ASSUME PurseInv, NEW k \in Tasks, ScreenPuts(k) \/ MeltPuts(k)
    PROVE  PurseInv'
<1>0. /\ Types /\ Phase(k) /\ Unwritten(k) /\ Alone(k) /\ Screens \cap Melts = {}
      /\ NoTask \notin Tasks
  BY TypedPhase, PurseAssumption DEF PurseInv
<1>1. /\ pc[k] = "make"
      /\ record' = [record EXCEPT ![k] = "draft"]
      /\ noteOf' = [w \in Wallets |-> IF w \in hand[k] THEN k ELSE noteOf[w]]
      /\ UNCHANGED <<spare, change, made, prompt, published, hand, seen, erasing, contested>>
  BY DEF ScreenPuts, MeltPuts, Blinded, PutDeposit, world, discards
<1>2. /\ pc' \in [Tasks -> Places]
      /\ \A j \in Tasks \ {k} : pc'[j] = pc[j]
      /\ \/ k \in Screens /\ pc'[k] = "ask"
         \/ k \in Melts /\ pc'[k] = "sign"
  <2>1. \/ k \in Screens /\ Go(k, "ask")
        \/ k \in Melts /\ Go(k, "sign")
    BY DEF ScreenPuts, MeltPuts
  <2> QED BY <1>0, <2>1 DEF Types, Go, Places
<1>3. /\ record' \in [Tasks -> {"none", "draft", "hashed"}]
      /\ record'[k] = "draft" /\ \A j \in Tasks \ {k} : record'[j] = record[j]
  BY <1>0, <1>1 DEF Types
<1>4. /\ noteOf' \in [Wallets -> Tasks \cup {NoTask}]
      /\ \A w \in hand[k] : w \in Wallets /\ noteOf'[w] = k
      /\ \A w \in Wallets \ hand[k] : noteOf'[w] = noteOf[w]
  BY <1>0, <1>1 DEF Types
<1>5. /\ k \notin published /\ \A w \in Wallets : noteOf[w] # k
      /\ \A e \in erasing : e.deposit # k
  BY <1>0, <1>1 DEF Phase, Unwritten, Early, Tasks
<1>6. ASSUME NEW w \in hand[k] \ contested
      PROVE  /\ noteOf[w] = NoTask /\ w \notin spare
             /\ \A j \in Tasks \ {k} : Uses(j) => w \notin hand[j]
  <2>1. Uses(k)
    BY <1>1 DEF Uses
  <2> QED BY <1>0, <1>4, <1>5, <2>1 DEF Alone
<1>7. Types'
  BY <1>0, <1>1, <1>2, <1>3, <1>4 DEF Types, Discards
<1>8. ASSUME NEW j \in Tasks
      PROVE  Phase(j)' /\ Unwritten(j)' /\ Kept(j)' /\ Alone(j)'
  <2>1. Phase(j)'
    BY <1>0, <1>1, <1>2, <1>5 DEF PurseInv, Phase
  <2>2. Unwritten(j)'
    <3> SUFFICES ASSUME pc'[j] \in Early
                 PROVE  /\ \A w \in Wallets : noteOf'[w] # j
                        /\ j \notin seen /\ record'[j] = "none"
                        /\ \A e \in erasing : e.deposit # j
      BY <1>1 DEF Unwritten
    <3>1. j # k /\ pc[j] \in Early
      BY <1>2 DEF Early
    <3> QED BY <1>3, <1>4, <3>1 DEF PurseInv, Unwritten
  <2>3. j # k => (Put(j)' <=> Put(j)) /\ (Uses(j)' <=> Uses(j))
    BY <1>1, <1>2 DEF Put, Uses
  <2>4. Kept(j)'
    <3>1. CASE j = k
      BY <1>1, <1>3, <1>4, <1>5, <3>1 DEF Kept
    <3>2. CASE j # k
      <4> SUFFICES ASSUME Put(j)
                   PROVE  /\ \A w \in hand[j] \ contested : noteOf'[w] = j
                          /\ hand[j] \subseteq contested \/ record'[j] # "none"
                          /\ \A e \in erasing : e.deposit = j => hand[j] \subseteq contested
        BY <1>1, <2>3, <3>2 DEF Kept
      <4>1. Uses(j) /\ hand[j] \subseteq Wallets
        BY <1>0, UsesPut DEF Types
      <4>2. hand[j] \cap hand[k] \subseteq contested
        BY <1>6, <3>2, <4>1
      <4>3. \A w \in hand[j] \ contested : noteOf'[w] = j
        BY <1>4, <4>1, <4>2 DEF PurseInv, Kept
      <4> QED BY <1>3, <3>2, <4>3 DEF PurseInv, Kept
    <3> QED BY <3>1, <3>2
  <2>5. \A i \in Tasks : Uses(i)' => Uses(i)
    BY <1>1, <1>2 DEF Uses
  <2>6. Alone(j)'
    <3> SUFFICES ASSUME Uses(j)', NEW w \in hand[j] \ contested
                 PROVE  /\ w \notin spare /\ noteOf'[w] \in {j, NoTask}
                        /\ \A i \in Tasks : Uses(i)' /\ w \in hand[i] => i = j
      BY <1>1 DEF Alone
    <3>1. /\ w \notin spare /\ noteOf[w] \in {j, NoTask} /\ w \in Wallets
          /\ \A i \in Tasks : Uses(i) /\ w \in hand[i] => i = j
      BY <1>0, <2>5 DEF PurseInv, Alone, Types
    <3>2. noteOf'[w] \in {j, NoTask}
      BY <1>4, <1>6, <2>5, <3>1
    <3> QED BY <2>5, <3>1, <3>2
  <2> QED BY <2>1, <2>2, <2>4, <2>6
<1>9. Owned'
  <2> SUFFICES ASSUME NEW w \in Wallets, noteOf'[w] # NoTask
               PROVE  w \in hand[noteOf'[w]] /\ (w \in spare => w \in contested)
    BY <1>1 DEF Owned
  <2>1. CASE w \in hand[k]
    BY <1>4, <1>6, <2>1
  <2>2. CASE w \notin hand[k]
    BY <1>4, <2>2 DEF PurseInv, Owned
  <2> QED BY <2>1, <2>2
<1>10. Erasures'
  <2> SUFFICES ASSUME NEW e \in erasing, NEW w \in e.notes \ contested
               PROVE  /\ noteOf'[w] = e.deposit
                      /\ \A f \in erasing : w \in f.notes => f = e
    BY <1>1 DEF Erasures
  <2>1. /\ noteOf[w] = e.deposit /\ w \in Wallets /\ e.deposit \in Tasks
        /\ \A f \in erasing : w \in f.notes => f = e
    BY <1>0 DEF PurseInv, Erasures, Types, Discards
  <2>2. w \notin hand[k]
    BY <1>0, <1>6, <2>1
  <2> QED BY <1>4, <2>1, <2>2
<1>11. ChangeInv'
  BY <1>1, <1>2, <1>3, <1>5 DEF PurseInv, ChangeInv, Followed
<1> QED BY <1>7, <1>8, <1>9, <1>10, <1>11 DEF PurseInv

(* A discard reads its notes.  Either the points of k can no longer be      *)
(* sent, or k has none.                                                     *)
LEMMA ReadStep ==
    ASSUME PurseInv, NEW k \in Tasks, ReadForDiscard(k),
           UNCHANGED <<spare, noteOf, record, change, made, prompt, published, hand, seen>>,
           pc' = pc \/ Go(k, "done"),
           pc[k] \notin Early, Phase(k)',
           Put(k)' => hand[k] \subseteq contested
    PROVE  PurseInv'
<1>0. Types /\ NoTask \notin Tasks
  BY PurseAssumption DEF PurseInv
<1> DEFINE over == {w \in NotesOf(k) : \E f \in erasing : w \in f.notes}
<1>1. PICK by \in Erasers :
        erasing' = erasing \cup {[by |-> by, deposit |-> k, notes |-> NotesOf(k)]}
  BY DEF ReadForDiscard
<1> DEFINE new == [by |-> by, deposit |-> k, notes |-> NotesOf(k)]
<1>2. /\ contested' = contested \cup over /\ over \subseteq NotesOf(k)
      /\ \A f \in erasing : f.notes \cap NotesOf(k) \subseteq over
  BY DEF ReadForDiscard
<1>3. NotesOf(k) \subseteq hand[k] /\ NotesOf(k) \subseteq Wallets
  BY <1>0 DEF PurseInv, Owned, NotesOf
<1>4. /\ erasing' = erasing \cup {new}
      /\ new.deposit = k /\ new.notes = NotesOf(k) /\ new \in Discards
  BY <1>1, <1>3 DEF Discards
<1> HIDE DEF new, over
<1>5. contested \subseteq contested' /\ contested' \subseteq Wallets
  BY <1>0, <1>2, <1>3 DEF Types
<1>6. /\ pc' \in [Tasks -> Places]
      /\ \A j \in Tasks : pc'[j] = pc[j] \/ (j = k /\ pc'[j] = "done")
  BY <1>0 DEF Types, Go, Places
<1>7. Types'
  <2>1. NotesOf(k) \subseteq made
    BY <1>0, <1>3 DEF Types
  <2>2. \A e \in erasing' : e.notes \subseteq made
    BY <1>0, <1>4, <2>1 DEF Types
  <2> QED BY <1>0, <1>4, <1>5, <1>6, <2>2 DEF Types
<1>8. ASSUME NEW j \in Tasks
      PROVE  Phase(j)' /\ Unwritten(j)' /\ Kept(j)' /\ Alone(j)'
  <2>1. Phase(j)'
    BY <1>6 DEF PurseInv, Phase
  <2>2. Unwritten(j)'
    <3>1. pc'[j] \in Early => pc[j] \in Early /\ j # k
      BY <1>6 DEF Early
    <3> QED BY <1>4, <3>1 DEF PurseInv, Unwritten
  <2>3. \A i \in Tasks : (Put(i)' => Put(i)) /\ (Uses(i)' => Uses(i))
    BY <1>6 DEF Put, Uses
  <2>4. Kept(j)'
    <3> SUFFICES ASSUME Put(j)'
                 PROVE  /\ \A w \in hand[j] \ contested' : noteOf[w] = j
                        /\ hand[j] \subseteq contested' \/ record[j] # "none"
                        /\ \A e \in erasing' : e.deposit = j => hand[j] \subseteq contested'
      BY DEF Kept
    <3>1. Put(j)
      BY <2>3
    <3>2. /\ \A w \in hand[j] \ contested : noteOf[w] = j
          /\ hand[j] \subseteq contested \/ record[j] # "none"
          /\ \A e \in erasing : e.deposit = j => hand[j] \subseteq contested
      BY <3>1 DEF PurseInv, Kept
    <3>3. j = k => hand[j] \subseteq contested
      OBVIOUS
    <3> QED BY <1>4, <1>5, <3>2, <3>3
  <2>5. Alone(j)'
    BY <1>5, <2>3 DEF PurseInv, Alone
  <2> QED BY <2>1, <2>2, <2>4, <2>5
<1>9. Owned'
  BY <1>5 DEF PurseInv, Owned
<1>10. Erasures'
  <2> SUFFICES ASSUME NEW e \in erasing', NEW w \in e.notes \ contested'
               PROVE  /\ noteOf[w] = e.deposit
                      /\ \A f \in erasing' : w \in f.notes => f = e
    BY DEF Erasures
  <2>1. CASE e = new
    <3>1. noteOf[w] = k /\ w \in NotesOf(k) /\ w \notin over
      BY <1>2, <1>4, <2>1 DEF NotesOf
    <3>2. \A f \in erasing : w \notin f.notes
      BY <1>2, <3>1
    <3> QED BY <1>4, <2>1, <3>1, <3>2
  <2>2. CASE e # new
    <3>1. e \in erasing /\ w \notin contested /\ w \notin over
      BY <1>2, <1>4, <2>2
    <3>2. /\ noteOf[w] = e.deposit
          /\ \A f \in erasing : w \in f.notes => f = e
      BY <3>1 DEF PurseInv, Erasures
    <3>3. w \notin new.notes
      BY <1>2, <1>4, <3>1
    <3> QED BY <1>4, <3>2, <3>3
  <2> QED BY <2>1, <2>2
<1>11. ChangeInv'
  <2>1. \A j \in Tasks : Followed(j) => Followed(j)'
    BY <1>5 DEF Followed
  <2>2. \A j \in Tasks : pc'[j] = "spent" => pc[j] = "spent"
    BY <1>6
  <2> QED BY <2>1, <2>2 DEF PurseInv, ChangeInv
<1> QED BY <1>7, <1>8, <1>9, <1>10, <1>11 DEF PurseInv

LEMMA DiscardSteps ==
    ASSUME Conduct, PurseInv, NEW k \in Tasks,
           \/ ScreenGivesUp(k) \/ SignFails(k)
           \/ UserDiscards(k) \/ SettlerDiscards(k)
    PROVE  PurseInv'
<1>0. /\ Types /\ Phase(k) /\ Unwritten(k) /\ Kept(k) /\ Screens \cap Melts = {}
  BY TypedPhase, PurseAssumption DEF PurseInv
<1>1. /\ UNCHANGED <<spare, noteOf, record, change, made, prompt, published, hand, seen>>
      /\ ReadForDiscard(k)
  BY DEF ScreenGivesUp, SignFails, UserDiscards, SettlerDiscards,
     store, world, pages
<1>2. ASSUME ScreenGivesUp(k) \/ SignFails(k) PROVE PurseInv'
  <2>1. /\ Go(k, "done")
        /\ pc[k] \in {"ask", "wallet", "sign"}
        /\ pc[k] = "wallet" => prompt[k] = "refused"
    BY <1>2 DEF ScreenGivesUp, SignFails, NoAnswer, Conduct
  <2>2. /\ k \notin published
        /\ k \in Screens => prompt[k] # "open"
    BY <1>0, <2>1 DEF Phase, Tasks
  <2>3. pc'[k] = "done"
    BY <1>0, <2>1 DEF Types, Go
  <2>4. ~ Put(k)'
    BY <1>1, <2>2, <2>3 DEF Put
  <2>5. Phase(k)'
    BY <1>0, <1>1, <2>3 DEF Phase
  <2>6. pc[k] \notin Early
    BY <2>1 DEF Early
  <2> QED BY <1>1, <2>1, <2>4, <2>5, <2>6, ReadStep
<1>3. ASSUME UserDiscards(k) PROVE PurseInv'
  <2>1. pc' = pc /\ NeverSent(k)
    BY <1>3 DEF UserDiscards, Conduct, pages
  <2>2. ~ Put(k)' /\ pc[k] \notin Early
    BY <1>1, <2>1 DEF NeverSent, Put, Early
  <2>3. Phase(k)'
    BY <1>0, <1>1, <2>1 DEF Phase
  <2> QED BY <1>1, <2>1, <2>2, <2>3, ReadStep
<1>4. ASSUME SettlerDiscards(k) PROVE PurseInv'
  <2>1. pc' = pc /\ k \in seen /\ NotesOf(k) = {}
    BY <1>4 DEF SettlerDiscards, pages
  <2>2. pc[k] \notin Early
    BY <1>0, <2>1 DEF Unwritten
  <2>3. Put(k)' => hand[k] \subseteq contested
    <3>1. Put(k)' => Put(k)
      BY <1>1, <2>1 DEF Put
    <3>2. hand[k] \subseteq Wallets
      BY <1>0 DEF Types
    <3> QED BY <1>0, <2>1, <3>1, <3>2 DEF Kept, NotesOf
  <2>4. Phase(k)'
    BY <1>0, <1>1, <2>1 DEF Phase
  <2> QED BY <1>1, <2>1, <2>2, <2>3, <2>4, ReadStep
<1> QED BY <1>2, <1>3, <1>4

(* A discard writes: its notes go to the pool, and nobody can send them.    *)
LEMMA EraseStep ==
    ASSUME PurseInv, NEW e \in erasing, Erase(e)
    PROVE  PurseInv'
<1> DEFINE d == e.deposit
<1>0. /\ Types /\ d \in Tasks /\ e.notes \subseteq Wallets /\ e.notes \subseteq made
      /\ NoTask \notin Tasks
  BY PurseAssumption DEF PurseInv, Types, Discards
<1> HIDE DEF d
<1>1. /\ erasing' = erasing \ {e}
      /\ record' = [record EXCEPT ![d] = "none"]
      /\ noteOf' = [w \in Wallets |-> IF w \in e.notes THEN NoTask ELSE noteOf[w]]
      /\ spare' = spare \cup e.notes
      /\ UNCHANGED <<change, made, prompt, published, pc, hand, seen, contested>>
  BY DEF Erase, Pooled, world, pages, d
<1>2. /\ record' \in [Tasks -> {"none", "draft", "hashed"}]
      /\ record'[d] = "none" /\ \A j \in Tasks \ {d} : record'[j] = record[j]
  BY <1>0, <1>1 DEF Types
<1>3. /\ noteOf' \in [Wallets -> Tasks \cup {NoTask}]
      /\ \A w \in e.notes : noteOf'[w] = NoTask
      /\ \A w \in Wallets \ e.notes : noteOf'[w] = noteOf[w]
  BY <1>0, <1>1 DEF Types
<1>4. \A w \in e.notes \ contested : noteOf[w] = d /\ w \in hand[d]
  BY <1>0 DEF PurseInv, Erasures, Owned, d
<1>5. (Put(d) => hand[d] \subseteq contested) /\ pc[d] # "make"
  BY <1>0 DEF PurseInv, Kept, Unwritten, Early, d
<1>6. e.notes \subseteq contested \/ ~ Uses(d)
  BY <1>4, <1>5, UsesPut
<1>7. Types'
  BY <1>0, <1>1, <1>2, <1>3 DEF Types
<1>8. ASSUME NEW j \in Tasks
      PROVE  Phase(j)' /\ Unwritten(j)' /\ Kept(j)' /\ Alone(j)'
  <2>1. Phase(j)'
    BY <1>1 DEF PurseInv, Phase
  <2>2. Unwritten(j)'
    BY <1>0, <1>1, <1>2, <1>3 DEF PurseInv, Unwritten
  <2>3. Put(j)' <=> Put(j)
    BY <1>1 DEF Put
  <2>4. Put(j) => hand[j] \cap e.notes \subseteq contested
    BY <1>0, <1>4, <1>5 DEF PurseInv, Kept, Types
  <2>5. Kept(j)'
    <3> SUFFICES ASSUME Put(j)
                 PROVE  /\ \A w \in hand[j] \ contested : noteOf'[w] = j
                        /\ hand[j] \subseteq contested \/ record'[j] # "none"
                        /\ \A f \in erasing' : f.deposit = j => hand[j] \subseteq contested
      BY <1>1, <2>3 DEF Kept
    <3>1. \A w \in hand[j] \ contested : noteOf'[w] = j
      BY <1>0, <1>3, <2>4 DEF PurseInv, Kept, Types
    <3>2. hand[j] \subseteq contested \/ record'[j] # "none"
      BY <1>2, <1>5 DEF PurseInv, Kept
    <3> QED BY <1>1, <3>1, <3>2 DEF PurseInv, Kept
  <2>6. \A i \in Tasks : Uses(i)' <=> Uses(i)
    BY <1>1 DEF Uses
  <2>7. Uses(j) => hand[j] \cap e.notes \subseteq contested
    <3> SUFFICES ASSUME Uses(j), NEW w \in hand[j] \ contested, w \in e.notes
                 PROVE  FALSE
      OBVIOUS
    <3>1. noteOf[w] \in {j, NoTask}
      BY DEF PurseInv, Alone
    <3>2. j = d
      BY <1>0, <1>4, <3>1
    <3> QED BY <1>6, <3>2
  <2>8. Alone(j)'
    <3> SUFFICES ASSUME Uses(j), NEW w \in hand[j] \ contested
                 PROVE  /\ w \notin spare' /\ noteOf'[w] \in {j, NoTask}
                        /\ \A i \in Tasks : Uses(i) /\ w \in hand[i] => i = j
      BY <1>1, <2>6 DEF Alone
    <3>1. w \notin e.notes /\ w \in Wallets
      BY <1>0, <2>7 DEF Types
    <3>2. /\ w \notin spare /\ noteOf[w] \in {j, NoTask}
          /\ \A i \in Tasks : Uses(i) /\ w \in hand[i] => i = j
      BY DEF PurseInv, Alone
    <3> QED BY <1>1, <1>3, <3>1, <3>2
  <2> QED BY <2>1, <2>2, <2>5, <2>8
<1>9. Owned'
  BY <1>1, <1>3 DEF PurseInv, Owned
<1>10. Erasures'
  <2> SUFFICES ASSUME NEW f \in erasing \ {e}, NEW w \in f.notes \ contested
               PROVE  /\ noteOf'[w] = f.deposit
                      /\ \A g \in erasing : w \in g.notes => g = f
    BY <1>1 DEF Erasures
  <2>1. /\ noteOf[w] = f.deposit /\ w \in Wallets
        /\ \A g \in erasing : w \in g.notes => g = f
    BY <1>0 DEF PurseInv, Erasures, Types, Discards
  <2> QED BY <1>3, <2>1
<1>11. ChangeInv'
  <2>1. \A j \in Tasks : Followed(j) => Followed(j)'
    BY <1>1, <1>2, <1>5 DEF Followed, Put
  <2> QED BY <1>1, <2>1 DEF PurseInv, ChangeInv
<1> QED BY <1>7, <1>8, <1>9, <1>10, <1>11 DEF PurseInv

LEMMA StopStep ==
    ASSUME PurseInv, NEW e \in erasing, EraseStops(e)
    PROVE  PurseInv'
<1>1. /\ erasing' \subseteq erasing
      /\ UNCHANGED <<spare, noteOf, record, change, made, prompt, published>>
      /\ UNCHANGED <<pc, hand, seen, contested>>
  BY DEF EraseStops, store, discards, world, pages
<1>2. Types'
  BY <1>1 DEF PurseInv, Types, Discards
<1>3. ChangeInv' /\ \A k \in Tasks : Phase(k)'
  BY <1>1 DEF PurseInv, ChangeInv, Followed, Phase
<1>4. \A k \in Tasks : /\ Uses(k)' => Uses(k)
                       /\ Put(k)' => Put(k)
                       /\ pc'[k] \in Early => pc[k] \in Early
                       /\ k \in seen' => k \in seen
  BY <1>1 DEF Uses, Put
<1> QED BY <1>1, <1>2, <1>3, <1>4, QuietStep

LEMMA PurseStep == Conduct => (PurseInv /\ [Next]_vars => PurseInv')
<1> SUFFICES ASSUME Conduct, PurseInv, [Next]_vars PROVE PurseInv'
  OBVIOUS
<1>1. CASE UNCHANGED vars
  BY <1>1 DEF vars, store, discards, world, pages, PurseInv, Types, Discards, Phase, Unwritten,
     Kept, Owned, Alone, Erasures, ChangeInv, Followed, Put, Uses
<1>2. ASSUME NEW e \in erasing, Erase(e) \/ EraseStops(e) PROVE PurseInv'
  BY <1>2, EraseStep, StopStep
<1>3. ASSUME NEW k \in Tasks,
             \/ StartScreen(k) \/ PickChange(k) \/ ReadBalance(k) \/ HearHash(k)
             \/ Sign(k) \/ RecordSpent(k) \/ RecordDust(k) \/ Stops(k)
      PROVE  PurseInv'
  BY <1>3, PageSteps
<1>4. ASSUME NEW k \in Tasks,
             AskWallet(k) \/ WalletSends(k) \/ WalletRefuses(k) \/ Send(k) \/ SeeDraft(k)
      PROVE  PurseInv'
  BY <1>4, WalletSteps
<1>5. ASSUME NEW k \in Tasks,
             \/ TakeSpare(k) \/ CreateWallet(k) \/ PutHash(k) \/ GasTooHigh(k)
             \/ ScreenPuts(k) \/ MeltPuts(k)
      PROVE  PurseInv'
  BY <1>5, HandSteps, HashStep, GasStep, PutStep
<1>6. ASSUME NEW k \in Tasks,
             \/ ScreenGivesUp(k) \/ SignFails(k)
             \/ UserDiscards(k) \/ SettlerDiscards(k)
      PROVE  PurseInv'
  BY <1>6, DiscardSteps
<1> QED BY <1>1, <1>2, <1>3, <1>4, <1>5, <1>6 DEF Next

(* Every state of the browser keeps its records, its pool and its discards  *)
(* apart (noteRows and discardDeposit in notes.ts, takeSpare in privy.ts).  *)
THEOREM PurseAlways == ASSUME Conduct PROVE Spec => []PurseInv
<1>1. PurseInv /\ [Next]_vars => PurseInv'
  BY PurseStep
<1> QED BY <1>1, PurseInit, PTL DEF Spec

(* A deposit that reached the network keeps its record and its blinding     *)
(* factors, whatever screens, melts and discards of other tabs do: if the   *)
(* wallet answers, the write of the hash does not fail and the user         *)
(* discards no deposit that the wallet sent or may send.  A wallet that two *)
(* discards had in their hands at once is excepted.                         *)
THEOREM PurseFactors == ASSUME Conduct PROVE Spec => []FactorsKept
<1>1. PurseInv => FactorsKept
  <2> SUFFICES ASSUME PurseInv, NEW k \in published, NEW w \in hand[k] \ contested
               PROVE  record[k] # "none" /\ noteOf[w] = k
    BY DEF FactorsKept
  <2>1. k \in Tasks
    BY DEF PurseInv, Types
  <2> QED BY <2>1 DEF PurseInv, Kept, Put
<1> QED BY <1>1, PurseAlways, PTL

(* Under the same conduct no wallet is blinded for two deposits, and no     *)
(* wallet of a deposit that was or may still be sent is in the spare pool,  *)
(* but for wallets that two discards had in their hands at once.            *)
THEOREM WalletsOnce == ASSUME Conduct PROVE Spec => []NoWalletTwice
<1>1. PurseInv => NoWalletTwice
  BY DEF PurseInv, Alone, NoWalletTwice
<1> QED BY <1>1, PurseAlways, PTL

(* The change of a melt is spent only when a deposit that reached the       *)
(* network carries it and its record has the hash, or it has no point but   *)
(* those of wallets that two discards had in their hands at once.           *)
THEOREM SpentFollowed == ASSUME Conduct PROVE Spec => []SpentIsFollowed
<1>1. PurseInv => SpentIsFollowed
  BY DEF PurseInv, ChangeInv, Followed, SpentIsFollowed, Tasks
<1> QED BY <1>1, PurseAlways, PTL

-----------------------------------------------------------------------------
(* The types, whatever the wallet and the user do. *)

(* Wallets are given one by one, and only given wallets become notes.       *)
Given ==
    /\ IsFiniteSet(made)
    /\ \A w \in Wallets : noteOf[w] # NoTask => w \in made
    /\ \A e \in erasing : e.notes \subseteq made

(* A melt that still has to blind has a pass left.                          *)
HasPass(k) == pc[k] \in Early => pass[k] < PASSES

Typed == TypeOK /\ Given /\ \A k \in Tasks : HasPass(k)

LEMMA TypedInit == Init => Typed
<1> SUFFICES ASSUME Init PROVE Typed
  OBVIOUS
<1>1. IsFiniteSet({}) /\ Cardinality({}) = 0
  BY FS_EmptySet
<1>2. TypeOK
  <2>1. \A k \in Tasks : Cardinality(hand[k]) <= PointsOf[k]
    BY <1>1, PurseAssumption DEF Init
  <2> QED BY <2>1, PurseAssumption DEF Init, TypeOK
<1>3. Given
  BY <1>1 DEF Init, Given
<1>4. \A k \in Tasks : HasPass(k)
  BY PurseAssumption DEF Init, HasPass
<1> QED BY <1>2, <1>3, <1>4 DEF Typed

(* Steps of a page, the user's wallet or the change that leave the store.   *)
LEMMA TypedQuiet ==
    ASSUME Typed, NEW k \in Tasks, NEW at \in Places,
           Go(k, at) \/ UNCHANGED pc, at \in Early => pc[k] \in Early,
           change' \in {"claimed", "spent", "dust"}, full' \in BOOLEAN,
           prompt' \in [Screens -> {"none", "open", "sent", "refused"}],
           published' \subseteq Tasks, seen' \subseteq Tasks,
           ReadForDiscard(k) \/ UNCHANGED discards,
           record' \in [Tasks -> {"none", "draft", "hashed"}],
           UNCHANGED <<spare, noteOf, made, hand, pass>>
    PROVE  Typed'
<1>1. pc' \in [Tasks -> Places] /\ \A j \in Tasks : pc'[j] \in Early => pc[j] \in Early
  BY DEF Typed, TypeOK, Go, Places
<1>2. NoTask \notin Tasks /\ NotesOf(k) \subseteq Wallets
  BY PurseAssumption DEF NotesOf
<1>3. NotesOf(k) \subseteq made
  BY <1>2 DEF NotesOf, Typed, Given
<1>4. /\ erasing' \subseteq [by : Erasers, deposit : Tasks, notes : SUBSET Wallets]
      /\ \A e, f \in erasing' : e.by = f.by => e = f
      /\ \A e \in erasing' : e.notes \subseteq made
      /\ contested' \subseteq Wallets
  <2>1. CASE UNCHANGED discards
    BY <2>1 DEF Typed, TypeOK, Given, discards
  <2>2. CASE ReadForDiscard(k)
    <3>1. PICK by \in Erasers \ {e.by : e \in erasing} :
            erasing' = erasing \cup {[by |-> by, deposit |-> k, notes |-> NotesOf(k)]}
      BY <2>2 DEF ReadForDiscard
    <3> DEFINE new == [by |-> by, deposit |-> k, notes |-> NotesOf(k)]
    <3>2. /\ new \in [by : Erasers, deposit : Tasks, notes : SUBSET Wallets]
          /\ new.by = by /\ new.notes = NotesOf(k)
      BY <1>2
    <3>3. erasing' = erasing \cup {new} /\ \A e \in erasing : e.by # new.by
      BY <3>1, <3>2
    <3> HIDE DEF new
    <3>4. contested' \subseteq Wallets
      BY <1>2, <2>2 DEF ReadForDiscard, Typed, TypeOK
    <3>5. /\ erasing' \subseteq [by : Erasers, deposit : Tasks, notes : SUBSET Wallets]
          /\ \A e, f \in erasing' : e.by = f.by => e = f
      BY <3>2, <3>3 DEF Typed, TypeOK
    <3>6. \A e \in erasing' : e.notes \subseteq made
      BY <1>3, <3>2, <3>3 DEF Typed, Given
    <3> QED BY <3>4, <3>5, <3>6
  <2> QED BY <2>1, <2>2
<1>6. TypeOK'
  BY <1>1, <1>4 DEF Typed, TypeOK, Places
<1>7. Given'
  BY <1>4 DEF Typed, Given
<1>8. \A j \in Tasks : HasPass(j)'
  BY <1>1 DEF Typed, HasPass
<1> QED BY <1>6, <1>7, <1>8 DEF Typed

(* What a hand of given wallets may become.                                 *)
LEMMA TypedHand ==
    ASSUME Typed, NEW k \in Tasks, NEW h \in SUBSET made', NEW at \in Places,
           Cardinality(h) <= PointsOf[k], hand' = [hand EXCEPT ![k] = h],
           made \subseteq made', made' \subseteq Wallets, IsFiniteSet(made'),
           spare' \subseteq made', pc' = [pc EXCEPT ![k] = at],
           NEW n \in 0 .. PASSES, pass' = [pass EXCEPT ![k] = n], at \in Early => n < PASSES,
           UNCHANGED <<noteOf, record, change, full, prompt, published, seen, discards>>
    PROVE  Typed'
<1>1. hand' \in [Tasks -> SUBSET made'] /\ \A j \in Tasks : Cardinality(hand'[j]) <= PointsOf[j]
  BY DEF Typed, TypeOK
<1>2. /\ pc' \in [Tasks -> Places] /\ pass' \in [Tasks -> 0 .. PASSES]
      /\ pc'[k] = at /\ pass'[k] = n
      /\ \A j \in Tasks : j # k => pc'[j] = pc[j] /\ pass'[j] = pass[j]
  BY DEF Typed, TypeOK, Places
<1>3. TypeOK'
  BY <1>1, <1>2 DEF Typed, TypeOK, Places, discards
<1>4. Given'
  BY DEF Typed, Given, discards
<1>5. \A j \in Tasks : HasPass(j)'
  BY <1>2 DEF Typed, HasPass
<1> QED BY <1>3, <1>4, <1>5 DEF Typed

LEMMA TypedPut ==
    ASSUME Typed, NEW k \in Tasks, PutDeposit(k), NEW at \in Places \ Early, Go(k, at),
           UNCHANGED <<spare, change, world, hand, pass, seen, discards>>
    PROVE  Typed'
<1>1. /\ record' \in [Tasks -> {"none", "draft", "hashed"}]
      /\ noteOf' \in [Wallets -> Tasks \cup {NoTask}]
      /\ pc' \in [Tasks -> Places]
      /\ \A j \in Tasks : pc'[j] \in Early => pc[j] \in Early
  BY DEF Typed, TypeOK, PutDeposit, Go, Places
<1>2. \A w \in Wallets : noteOf'[w] # NoTask => w \in made
  BY DEF Typed, TypeOK, Given, PutDeposit
<1>3. TypeOK'
  BY <1>1 DEF Typed, TypeOK, world, Places, discards
<1>4. Given'
  BY <1>2 DEF Typed, Given, world, discards
<1>5. \A j \in Tasks : HasPass(j)'
  BY <1>1 DEF Typed, HasPass
<1> QED BY <1>3, <1>4, <1>5 DEF Typed

LEMMA TypedErase ==
    ASSUME Typed, NEW e \in erasing, Erase(e) \/ EraseStops(e)
    PROVE  Typed'
<1>1. /\ e.deposit \in Tasks /\ e.notes \subseteq made
      /\ erasing' = erasing \ {e} /\ UNCHANGED <<change, world, pages, seen, contested>>
  BY DEF Typed, TypeOK, Given, Erase, EraseStops, store
<1>2. /\ record' \in [Tasks -> {"none", "draft", "hashed"}]
      /\ noteOf' \in [Wallets -> Tasks \cup {NoTask}]
      /\ spare' \subseteq made
      /\ \A w \in Wallets : noteOf'[w] # NoTask => w \in made
  <2>1. CASE Erase(e)
    BY <1>1, <2>1 DEF Typed, TypeOK, Given, Erase, Pooled
  <2>2. CASE EraseStops(e)
    BY <2>2 DEF Typed, TypeOK, Given, EraseStops, store
  <2> QED BY <2>1, <2>2
<1>3. TypeOK'
  BY <1>1, <1>2 DEF Typed, TypeOK, world, pages
<1>4. Given'
  BY <1>1, <1>2 DEF Typed, Given, world
<1>5. \A j \in Tasks : HasPass(j)'
  BY <1>1 DEF Typed, HasPass, pages
<1> QED BY <1>3, <1>4, <1>5 DEF Typed

LEMMA TypedStep == Typed /\ [Next]_vars => Typed'
<1> SUFFICES ASSUME Typed, [Next]_vars PROVE Typed'
  OBVIOUS
<1>0. /\ change \in {"claimed", "spent", "dust"} /\ full \in BOOLEAN
      /\ prompt \in [Screens -> {"none", "open", "sent", "refused"}]
      /\ published \subseteq Tasks /\ seen \subseteq Tasks
      /\ record \in [Tasks -> {"none", "draft", "hashed"}]
      /\ pc \in [Tasks -> Places] /\ hand \in [Tasks -> SUBSET made]
      /\ pass \in [Tasks -> 0 .. PASSES] /\ spare \subseteq made /\ made \subseteq Wallets
      /\ IsFiniteSet(made) /\ PASSES \in Nat /\ PointsOf \in [Tasks -> Nat]
  BY PurseAssumption DEF Typed, TypeOK, Given, Places
<1>1. ASSUME NEW k \in Tasks, StartScreen(k) PROVE Typed'
  <2>1. pc[k] = "idle" /\ Go(k, "take") /\ UNCHANGED <<store, world, hand, pass, seen, discards>>
    BY <1>1 DEF StartScreen
  <2>2. "take" \in Places /\ pc[k] \in Early
    BY <2>1 DEF Places, Early
  <2> QED BY <1>0, <2>1, <2>2, TypedQuiet DEF store, world
<1>2. ASSUME NEW k \in Tasks, TakeSpare(k) PROVE Typed'
  <2>1. PICK s \in SUBSET spare :
          /\ Cardinality(s) <= PointsOf[k]
          /\ hand' = [hand EXCEPT ![k] = s] /\ spare' = spare \ s
    BY <1>2 DEF TakeSpare, LeftInPool
  <2>2. /\ pc[k] = "take" /\ pc' = [pc EXCEPT ![k] = "make"]
        /\ UNCHANGED <<noteOf, record, change, world, pass, seen, discards>>
    BY <1>2 DEF TakeSpare, Go
  <2>3. pass[k] < PASSES /\ pass[k] \in 0 .. PASSES /\ pass' = [pass EXCEPT ![k] = pass[k]]
    BY <1>0, <2>2 DEF Typed, HasPass, Early
  <2>4. "make" \in Places /\ s \in SUBSET made' /\ spare' \subseteq made'
    BY <1>0, <2>1, <2>2 DEF Places, world
  <2> QED BY <1>0, <2>1, <2>2, <2>3, <2>4, TypedHand DEF world
<1>3. ASSUME NEW k \in Tasks, CreateWallet(k) PROVE Typed'
  <2>1. PICK w \in Wallets \ made :
          made' = made \cup {w} /\ hand' = [hand EXCEPT ![k] = @ \cup {w}]
    BY <1>3 DEF CreateWallet
  <2>2. /\ pc[k] = "make" /\ Cardinality(hand[k]) < PointsOf[k]
        /\ UNCHANGED <<store, full, prompt, published, pc, pass, seen, discards>>
    BY <1>3 DEF CreateWallet, Short
  <2>3. /\ hand[k] \cup {w} \in SUBSET made' /\ IsFiniteSet(hand[k]) /\ IsFiniteSet(made')
    BY <1>0, <2>1, FS_Subset, FS_AddElement
  <2>4. Cardinality(hand[k] \cup {w}) <= PointsOf[k]
    <3>1. Cardinality(hand[k]) \in Nat /\ PointsOf[k] \in Nat
      BY <1>0, <2>3, FS_CardinalityType
    <3>2. Cardinality(hand[k] \cup {w}) = Cardinality(hand[k]) + 1
      BY <1>0, <2>1, <2>3, FS_AddElement
    <3> QED BY <2>2, <3>1, <3>2
  <2>5. /\ hand' = [hand EXCEPT ![k] = hand[k] \cup {w}]
        /\ pc' = [pc EXCEPT ![k] = "make"] /\ pass' = [pass EXCEPT ![k] = pass[k]]
        /\ "make" \in Places /\ pass[k] < PASSES /\ pass[k] \in 0 .. PASSES
    BY <1>0, <2>1, <2>2 DEF Typed, HasPass, Early, Places
  <2>6. /\ made \subseteq made' /\ made' \subseteq Wallets /\ spare' \subseteq made'
        /\ UNCHANGED <<noteOf, record, change, full, prompt, published, seen, discards>>
    BY <1>0, <2>1, <2>2 DEF store
  <2> QED BY <2>3, <2>4, <2>5, <2>6, TypedHand
<1>4. ASSUME NEW k \in Tasks, GasTooHigh(k) PROVE Typed'
  <2>1. PICK at \in {"take", "dust"} : (at = "take" => pass'[k] < PASSES) /\ Go(k, at)
    BY <1>4 DEF GasTooHigh
  <2>2. /\ pc[k] = "make" /\ spare' = spare \cup hand[k]
        /\ hand' = [hand EXCEPT ![k] = {}] /\ pass' = [pass EXCEPT ![k] = @ + 1]
        /\ UNCHANGED <<noteOf, record, change, world, seen, discards>>
    BY <1>4 DEF GasTooHigh, Blinded, Pooled
  <2>3. pass[k] < PASSES
    BY <2>2 DEF Typed, HasPass, Early
  <2>4. /\ pass[k] + 1 \in 0 .. PASSES /\ pass' = [pass EXCEPT ![k] = pass[k] + 1]
        /\ at \in Early => pass[k] + 1 < PASSES
    BY <1>0, <2>1, <2>2, <2>3 DEF Early
  <2>5. /\ {} \in SUBSET made' /\ Cardinality({}) <= PointsOf[k] /\ spare' \subseteq made'
        /\ at \in Places /\ pc' = [pc EXCEPT ![k] = at]
    BY <1>0, <2>1, <2>2, FS_EmptySet DEF world, Places, Go
  <2> QED BY <1>0, <2>2, <2>4, <2>5, TypedHand DEF world
<1>5. ASSUME NEW k \in Tasks, ScreenPuts(k) \/ MeltPuts(k) PROVE Typed'
  <2>1. PICK at \in {"ask", "sign"} : Go(k, at)
    BY <1>5 DEF ScreenPuts, MeltPuts
  <2>2. at \in Places \ Early
    BY <2>1 DEF Places, Early
  <2>3. PutDeposit(k) /\ UNCHANGED <<spare, change, world, hand, pass, seen, discards>>
    BY <1>5 DEF ScreenPuts, MeltPuts
  <2> QED BY <2>1, <2>2, <2>3, TypedPut
<1>6. ASSUME NEW k \in Tasks,
             SeeDraft(k) \/ UserDiscards(k) \/ SettlerDiscards(k) PROVE Typed'
  <2>1. /\ UNCHANGED <<store, world, pages>> /\ seen' \subseteq Tasks
        /\ ReadForDiscard(k) \/ UNCHANGED discards
    BY <1>0, <1>6 DEF SeeDraft, UserDiscards, SettlerDiscards
  <2>2. pc[k] \in Places /\ UNCHANGED pc
    BY <1>0, <2>1 DEF pages
  <2> QED BY <1>0, <2>1, <2>2, TypedQuiet DEF store, world, pages
<1>7. ASSUME NEW k \in Tasks, WalletSends(k) \/ WalletRefuses(k) PROVE Typed'
  <2>1. /\ UNCHANGED <<store, made, full, pages, seen, discards>> /\ published' \subseteq Tasks
        /\ prompt' \in [Screens -> {"none", "open", "sent", "refused"}]
    BY <1>0, <1>7 DEF WalletSends, WalletRefuses
  <2>2. pc[k] \in Places /\ UNCHANGED pc
    BY <1>0, <2>1 DEF pages
  <2> QED BY <1>0, <2>1, <2>2, TypedQuiet DEF store, pages
<1>8. ASSUME NEW k \in Tasks, AskWallet(k) PROVE Typed'
  <2>1. /\ UNCHANGED <<store, made, full, published, hand, pass, seen, discards>>
        /\ Go(k, "wallet") /\ prompt' \in [Screens -> {"none", "open", "sent", "refused"}]
    BY <1>0, <1>8 DEF AskWallet
  <2>2. "wallet" \in Places \ Early
    BY DEF Places, Early
  <2> QED BY <1>0, <2>1, <2>2, TypedQuiet DEF store
<1>9. ASSUME NEW k \in Tasks,
             \/ HearHash(k) \/ ScreenGivesUp(k)
             \/ SignFails(k) \/ Sign(k) \/ Stops(k)
      PROVE  Typed'
  <2>1. PICK at \in {"hash", "done", "send"} : Go(k, at)
    BY <1>9 DEF HearHash, ScreenGivesUp, SignFails, Sign, Stops
  <2>2. at \in Places \ Early
    BY <2>1 DEF Places, Early
  <2>3. /\ UNCHANGED <<store, world, hand, pass, seen>>
        /\ ReadForDiscard(k) \/ UNCHANGED discards
    BY <1>9 DEF HearHash, ScreenGivesUp, SignFails, Sign, Stops
  <2> QED BY <1>0, <2>1, <2>2, <2>3, TypedQuiet DEF store, world
<1>10. ASSUME NEW k \in Tasks, PutHash(k) PROVE Typed'
  <2>1. PICK at \in {"spent", "done"} : Go(k, at)
    BY <1>10 DEF PutHash
  <2>2. at \in Places \ Early
    BY <2>1 DEF Places, Early
  <2>3. /\ UNCHANGED <<spare, noteOf, change, world, hand, pass, seen, discards>>
        /\ record' \in [Tasks -> {"none", "draft", "hashed"}]
    BY <1>0, <1>10 DEF PutHash
  <2> QED BY <1>0, <2>1, <2>2, <2>3, TypedQuiet DEF world
<1>11. ASSUME NEW k \in Tasks, PickChange(k) \/ ReadBalance(k) PROVE Typed'
  <2>1. PICK at \in {"balance", "take", "dust"} : Go(k, at)
    BY <1>11 DEF PickChange, ReadBalance
  <2>2. at \in Places /\ pc[k] \in Early
    BY <1>11, <2>1 DEF Places, Early, PickChange, ReadBalance
  <2>3. UNCHANGED <<store, world, hand, pass, seen, discards>>
    BY <1>11 DEF PickChange, ReadBalance
  <2> QED BY <1>0, <2>1, <2>2, <2>3, TypedQuiet DEF store, world
<1>12. ASSUME NEW k \in Tasks, Send(k) PROVE Typed'
  <2>1. PICK at \in {"hash", "done"} : Go(k, at)
    BY <1>12 DEF Send, HashFirst
  <2>2. at \in Places \ Early
    BY <2>1 DEF Places, Early
  <2>3. /\ UNCHANGED <<store, made, prompt, hand, pass, seen, discards>>
        /\ full' = FALSE /\ published' \subseteq Tasks
    BY <1>0, <1>12 DEF Send, AfterLostSend
  <2> QED BY <1>0, <2>1, <2>2, <2>3, TypedQuiet DEF store
<1>13. ASSUME NEW k \in Tasks, RecordSpent(k) \/ RecordDust(k) PROVE Typed'
  <2>1. /\ Go(k, "done") /\ change' \in {"claimed", "spent", "dust"}
        /\ UNCHANGED <<spare, noteOf, record, world, hand, pass, seen, discards>>
    BY <1>13 DEF RecordSpent, RecordDust
  <2>2. "done" \in Places \ Early
    BY DEF Places, Early
  <2> QED BY <1>0, <2>1, <2>2, TypedQuiet DEF world
<1>14. CASE UNCHANGED vars
  BY <1>14 DEF vars, store, world, pages, discards, Typed, TypeOK, Given, HasPass
<1> QED BY <1>1, <1>2, <1>3, <1>4, <1>5, <1>6, <1>7, <1>8, <1>9, <1>10, <1>11, <1>12,
           <1>13, <1>14, TypedErase DEF Next

(* The state of the store, the world and the pages is what the module says, *)
(* whether or not a wallet answers and a user looks: no deposit blinds more *)
(* wallets than it has points, and no melt passes more often than it may.   *)
THEOREM TypeCorrect == Spec => []TypeOK
<1>1. Typed => TypeOK
  BY DEF Typed
<1> QED BY <1>1, TypedInit, TypedStep, PTL DEF Spec

=============================================================================
