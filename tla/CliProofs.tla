----------------------------- MODULE CliProofs -----------------------------
(***************************************************************************)
(* The command line client over the contract, for every ladder, any number *)
(* of deposits, notes, blocks and pending transactions, commands that stop *)
(* anywhere, and any other depositor.                                      *)
(*                                                                         *)
(* The invariants come in layers, each proved with the ones before it:     *)
(*   Base     types; the ledger of the contract; what a command awaits;    *)
(*   Records  a record of the file is the deposit it names;                *)
(*   Signed   what is announced is the split of the deposit, and every     *)
(*            signature that is kept, sent or shown is one of it;          *)
(*   Books    a wallet is behind one point, and the totals of the contract *)
(*            are sums over the announcements;                             *)
(*   PaidFor  a note booked as claimed is paid.                            *)
(* Dusty is beside them and needs Base alone.                              *)
(***************************************************************************)
EXTENDS Cli, SumsProofs

-----------------------------------------------------------------------------
(* Types. *)

Points == Wallets \cup {Stranger}

NoteSet == [wallet : Wallets, status : {"awaiting-mint", "ready", "claimed"},
            denom : Nat, sig : Nat \X Accounts]
RecordSet == [id : Ids, amount : Nat, notes : Seq(NoteSet)]
RunSet == [cmd : {"none", "deploy", "deposit", "mint", "claim", "relay", "spend", "sweep"},
           id : Nat, at : {"", "receipt", "note", "answer"}, notes : Seq(NoteSet),
           next : Nat, block : Nat, amount : Nat, paid : BOOLEAN]

DepositTxs == [kind : {"deposit"}, value : Nat, net : Nat, wallets : Seq(Wallets)]
AnnounceTxs == [kind : {"announce"},
                report : [id : Ids, points : Seq(Nat), denoms : Seq(Denoms)],
                sigs : Seq(Denoms \X Wallets)]
ClaimTxs == [kind : {"claim"}, denom : Nat, wallet : Wallets]
Txs == DepositTxs \cup AnnounceTxs \cup ClaimTxs

DepositSet == [depositor : Accounts, amount : Nat, points : Nat, deadline : Nat,
               status : {"None", "Pending", "Announced"}]

(* A storage has seven fields; its balance and its log take no part.        *)
Shape(s) ==
    s \in [deposits : {s.deposits}, claimed : {s.claimed}, nextId : {s.nextId},
           totalAnnounced : {s.totalAnnounced}, totalClaimed : {s.totalClaimed},
           balance : {s.balance}, log : {s.log}]

StorageTyped ==
    /\ Shape(st)
    /\ st.deposits \in [Ids -> DepositSet] /\ st.claimed \in [Accounts -> BOOLEAN]
    /\ st.nextId \in Nat /\ st.totalAnnounced \in Nat /\ st.totalClaimed \in Nat

ContractTyped ==
    /\ StorageTyped /\ stack = <<>> /\ now \in Nat
    /\ brought \in [Ids -> [wallets : Seq(Points), net : Nat]]
    /\ answer \in [Ids -> Seq(Denoms \X Points)]

MempoolTyped == mempool \in Seq(Txs)

FileTyped == file \in [deployed : BOOLEAN, deposits : Seq(RecordSet)]

ShownTyped == shown \subseteq Nat \X Accounts /\ tries \in Nat

(* The first record of an id: findDeposit, of any file. *)
FirstWith(ds, id) ==
    LET found == {i \in 1 .. Len(ds) : ds[i].id = id}
    IN  IF found # {} THEN Min(found) ELSE 0

(* A command that works on the notes of a deposit has a copy of them.       *)
RunTyped ==
    /\ run \in RunSet
    /\ run.cmd \in {"mint", "claim", "relay"} =>
         LET k == FirstWith(file.deposits, run.id)
         IN  k # 0 /\ WalletsOf(run.notes) = WalletsOf(file.deposits[k].notes)
    /\ run.cmd \in {"claim", "relay", "spend", "sweep"} => run.next \in DOMAIN run.notes
    /\ run.cmd \in {"claim", "relay"} => ThisNote.status = "ready"
    /\ run.cmd \in {"deposit", "mint"} => run.at = "receipt"
    /\ run.cmd = "claim" /\ run.at # "receipt" => run.block = 0

-----------------------------------------------------------------------------
(* The ledger of the contract. *)

Opened == 1 .. st.nextId - 1

Denominations(id) == [i \in DOMAIN answer[id] |-> answer[id][i][1]]

Ledger ==
    /\ st.nextId \in 1 .. MaxDeposits + 1
    /\ \A id \in Ids : st.deposits[id].status = "None" <=> id \notin Opened
    /\ \A id \in Opened :
         /\ BlockOf(id) \in Nat /\ BlockOf(id) <= now
         /\ Len(brought[id].wallets) = st.deposits[id].points
         /\ st.deposits[id].depositor = Deployer =>
              st.deposits[id].amount = grossFor(brought[id].net)
    /\ ours => \A i, j \in Opened : BlockOf(i) = BlockOf(j) => i = j
    /\ \A id \in Ids :
         /\ st.deposits[id].status # "Announced" => answer[id] = <<>>
         /\ st.deposits[id].status = "Announced" =>
              Total(Denominations(id), Len(answer[id]))
                = contractMintable(st.deposits[id].amount)

(* What the transactions of the deployer carry. *)
Sent ==
    \A k \in DOMAIN mempool :
        LET tx == mempool[k]
        IN  /\ tx.kind = "deposit" => tx.value = grossFor(tx.net)
            /\ tx.kind = "announce" =>
                 /\ ours /\ tx.report.id \in Opened
                 /\ tx.report.denoms = [i \in DOMAIN tx.sigs |-> tx.sigs[i][1]]
                 /\ Len(tx.report.denoms) = Len(tx.sigs)

(* What a command awaits: its transaction is the last one, until a block    *)
(* has it.                                                                  *)
DepositAwaited ==
    Running("deposit", "receipt") =>
        IF run.block = 0
        THEN /\ mempool # <<>> /\ mempool[Len(mempool)].kind = "deposit"
             /\ mempool[Len(mempool)].wallets = WalletsOf(run.notes)
             /\ contractMintable(mempool[Len(mempool)].value) = run.amount
        ELSE /\ mempool = <<>>
             /\ \E id \in Opened :
                  /\ BlockOf(id) = run.block - 1
                  /\ brought[id].wallets = WalletsOf(run.notes)
                  /\ contractMintable(st.deposits[id].amount) = run.amount

MintAwaited ==
    run.cmd = "mint" =>
        /\ ours /\ run.id \in Opened
        /\ IF run.block = 0
           THEN /\ mempool # <<>> /\ mempool[Len(mempool)].kind = "announce"
                /\ mempool[Len(mempool)].report.id = run.id
           ELSE mempool = <<>> /\ st.deposits[run.id].status = "Announced"

ClaimAwaited ==
    Running("claim", "receipt") =>
        IF run.block = 0
        THEN /\ mempool # <<>> /\ mempool[Len(mempool)].kind = "claim"
             /\ mempool[Len(mempool)].wallet = ThisNote.wallet
        ELSE mempool = <<>>

Base ==
    /\ ContractTyped /\ Ledger
    /\ MempoolTyped /\ Sent
    /\ ShownTyped /\ FileTyped /\ RunTyped
    /\ DepositAwaited /\ MintAwaited /\ ClaimAwaited

-----------------------------------------------------------------------------
Records ==
    /\ \A k \in DOMAIN file.deposits : file.deposits[k].id \in Opened
    /\ RecordIsTheDeposit

(* The signatures of a deposit: its greedy split over its first points.     *)
SplitOver(amount, wallets) ==
    LET split == splitGreedy[contractMintable(amount)]
    IN  [i \in DOMAIN split |-> <<split[i], wallets[i]>>]
SplitSigs(id) == SplitOver(st.deposits[id].amount, brought[id].wallets)

(* There are enough points for the split. *)
Fits(id) == DOMAIN SplitSigs(id) \subseteq DOMAIN brought[id].wallets

Announced(sig) == \E id \in Ids : \E i \in DOMAIN answer[id] : answer[id][i] = sig

Good(id, note) ==
    note.status = "ready" =>
        /\ note.sig = <<note.denom, note.wallet>>
        /\ \E i \in DOMAIN answer[id] : answer[id][i] = note.sig

(* The same before the announcement is mined. *)
GoodSoon(id, note) ==
    note.status = "ready" =>
        /\ note.sig = <<note.denom, note.wallet>>
        /\ \E i \in DOMAIN SplitSigs(id) : SplitSigs(id)[i] = note.sig

FileGood ==
    \A k \in DOMAIN file.deposits : \A i \in DOMAIN file.deposits[k].notes :
        Good(file.deposits[k].id, file.deposits[k].notes[i])

RunGood ==
    /\ run.cmd = "deposit" => \A i \in DOMAIN run.notes : run.notes[i].status = "awaiting-mint"
    /\ run.cmd = "mint" => \A i \in DOMAIN run.notes : GoodSoon(run.id, run.notes[i])
    /\ run.cmd \in {"claim", "relay"} =>
         \A i \in DOMAIN run.notes : Good(run.id, run.notes[i])

MempoolGood ==
    \A k \in DOMAIN mempool :
        /\ mempool[k].kind = "announce" => mempool[k].sigs = SplitSigs(mempool[k].report.id)
        /\ mempool[k].kind = "claim" => Announced(<<mempool[k].denom, mempool[k].wallet>>)

ShownGood == \A sig \in shown : sig[2] \in Wallets /\ Announced(sig)

SplitAnnounced ==
    \A id \in Ids : st.deposits[id].status = "Announced" => answer[id] = SplitSigs(id)

Signed == SplitAnnounced /\ FileGood /\ RunGood /\ MempoolGood /\ ShownGood

-----------------------------------------------------------------------------
(* What is signed has points behind it. *)
Fitting ==
    /\ \A id \in Ids : st.deposits[id].status = "Announced" => Fits(id)
    /\ \A k \in DOMAIN mempool : mempool[k].kind = "announce" => Fits(mempool[k].report.id)

(* A wallet of ours is behind one point, of one deposit.                    *)
BroughtOnce ==
    \A id \in Ids : \A i \in DOMAIN brought[id].wallets :
        brought[id].wallets[i] # Stranger =>
            /\ brought[id].wallets[i][1] <= tries
            /\ \A d \in Ids : \A j \in DOMAIN brought[d].wallets :
                  brought[d].wallets[j] = brought[id].wallets[i] => d = id /\ j = i

(* The same before the deposit is mined. *)
SentOnce ==
    \A k \in DOMAIN mempool : mempool[k].kind = "deposit" =>
        \A i \in DOMAIN mempool[k].wallets :
            /\ mempool[k].wallets[i][1] <= tries
            /\ \A l \in DOMAIN mempool : mempool[l].kind = "deposit" =>
                  \A j \in DOMAIN mempool[l].wallets :
                     mempool[l].wallets[j] = mempool[k].wallets[i] => k = l /\ j = i
            /\ \A d \in Ids : \A j \in DOMAIN brought[d].wallets :
                  brought[d].wallets[j] # mempool[k].wallets[i]

SoldAt(id) == Total(Denominations(id), Len(answer[id]))

PaidNotes(id) ==
    [i \in DOMAIN answer[id] |-> IF st.claimed[answer[id][i][2]] THEN answer[id][i][1] ELSE 0]
PaidAt(id) == Total(PaidNotes(id), Len(answer[id]))

Totals ==
    /\ st.totalAnnounced = Total([id \in Ids |-> SoldAt(id)], MaxDeposits)
    /\ st.totalClaimed = Total([id \in Ids |-> PaidAt(id)], MaxDeposits)
    /\ \A a \in Accounts : st.claimed[a] =>
         a \in Wallets /\ \E id \in Ids : \E i \in DOMAIN answer[id] : answer[id][i][2] = a

Books == Fitting /\ BroughtOnce /\ SentOnce /\ Totals

Booked(note) == note.status = "claimed" => st.claimed[note.wallet]

FileBooked ==
    \A k \in DOMAIN file.deposits : \A i \in DOMAIN file.deposits[k].notes :
        Booked(file.deposits[k].notes[i])

(* A claim whose receipt is there has been paid, by it or by an older one.  *)
ReceiptPaid == Running("claim", "receipt") /\ run.block > 0 => st.claimed[ThisNote.wallet]

PaidFor ==
    /\ FileBooked
    /\ \A i \in DOMAIN run.notes : Booked(run.notes[i])
    /\ ReceiptPaid

-----------------------------------------------------------------------------
Dusty ==
    /\ held \in [Wallets -> Nat]
    /\ \A x \in wires :
         /\ x.from \in Wallets /\ x.value \in Nat
         /\ x.value + Fee + Dust <= held[x.from]
    /\ \A x, y \in wires : x.from = y.from => x = y
    /\ DustStays


-----------------------------------------------------------------------------
(* The operations of the contract. *)

LEMMA Smallest ==
    /\ Len(LADDER) \in Nat /\ 1 \in Levels
    /\ \A i \in Levels : LADDER[i] \in Nat \ {0} /\ LADDER[1] <= LADDER[i]
    /\ MIN_DENOM = LADDER[1] /\ MIN_DENOM \in Denoms
    /\ Denoms \subseteq Nat \ {0}
<1>1. Len(LADDER) \in Nat /\ Len(LADDER) >= 1
  <2>1. Len(LADDER) # 0 /\ Len(LADDER) \in Nat
    BY LadderAssumption, EmptySeq
  <2> QED BY <2>1
<1>2. 1 \in Levels
  BY <1>1 DEF Levels
<1>3. \A i \in Levels : LADDER[i] \in Nat \ {0}
  BY LadderAssumption DEF Levels
<1>4. ASSUME NEW i \in Levels PROVE LADDER[1] <= LADDER[i]
  <2>1. i = 1 \/ 1 < i
    BY DEF Levels
  <2>2. 1 < i => LADDER[1] < LADDER[i]
    BY <1>2, LadderAssumption
  <2> QED BY <1>2, <1>3, <2>1, <2>2
<1> QED BY <1>1, <1>2, <1>3, <1>4 DEF Denoms, MIN_DENOM

(* The contract finds the rung of the client, and mints what it computes.   *)
LEMMA ContractRung ==
    /\ Mint!rung = MIN_DENOM /\ LocalMint!rung = MIN_DENOM
    /\ \A a : Mint!mintable(a) = contractMintable(a)
    /\ \A a : LocalMint!mintable(a) = contractMintable(a)
<1>1. \A d \in Denoms : (\A e \in Denoms : d <= e) <=> d = MIN_DENOM
  <2> SUFFICES ASSUME NEW d \in Denoms
               PROVE  (\A e \in Denoms : d <= e) <=> d = MIN_DENOM
    OBVIOUS
  <2>1. d \in Nat /\ MIN_DENOM \in Nat /\ MIN_DENOM \in Denoms
    BY Smallest
  <2>2. \A e \in Denoms : MIN_DENOM <= e
    BY Smallest DEF Denoms
  <2> QED BY <2>1, <2>2
<1>2. MIN_DENOM \in Denoms
  BY Smallest
<1>3. MIN_DENOM = CHOOSE d \in Denoms : \A e \in Denoms : d <= e
  BY <1>1, <1>2
<1>4. Mint!rung = MIN_DENOM /\ LocalMint!rung = MIN_DENOM
  BY <1>3 DEF Mint!rung, LocalMint!rung
<1> QED BY <1>4 DEF Mint!mintable, LocalMint!mintable, contractMintable

LEMMA SmallModulo ==
    ASSUME NEW a \in Nat, NEW b \in Nat, a <= b
    PROVE  a % (b + 1) = a
OBVIOUS

NewRecord(sender, value, points) ==
    [depositor |-> sender, amount |-> value, points |-> points,
     deadline |-> now + Delay, status |-> "Pending"]

(* deposit (BlindMint.sol) opens the next id for the value that was sent.   *)
LEMMA DepositEffect ==
    ASSUME StorageTyped, now \in Nat, NEW sender \in Accounts, NEW value \in Nat,
           NEW points \in Nat, Mint!Deposit(sender, value, points)
    PROVE  /\ st.nextId \in Ids
           /\ st'.deposits = [st.deposits EXCEPT ![st.nextId] = NewRecord(sender, value, points)]
           /\ st'.nextId = st.nextId + 1 /\ st'.claimed = st.claimed
           /\ st'.totalAnnounced = st.totalAnnounced
           /\ st'.totalClaimed = st.totalClaimed
           /\ StorageTyped'
           /\ UNCHANGED <<stack, now>>
<1> DEFINE id == st.nextId
           d == [depositor |-> sender, amount |-> value % (AmountLimit + 1),
                 points |-> points, deadline |-> now + Delay, status |-> "Pending"]
           opened == [st EXCEPT !.nextId = id + 1, !.balance = @ + value, !.deposits[id] = d]
           e == [event |-> "Deposited", id |-> id, amount |-> value]
<1>1. /\ id \in Ids /\ value <= AmountLimit
      /\ st' = [opened EXCEPT !.log = Append(@, e)]
      /\ UNCHANGED <<stack, now>>
  BY DEF Mint!Deposit, Mint!FitsUint96, Mint!Emit, Mint!Ids, Ids
<1>2. d = NewRecord(sender, value, points)
  BY <1>1, SmallModulo, CliAssumption DEF NewRecord
<1>3. d \in DepositSet
  BY <1>2, CliAssumption DEF NewRecord, DepositSet
<1>4. /\ opened.nextId = id + 1 /\ opened.claimed = st.claimed
      /\ opened.deposits = [st.deposits EXCEPT ![id] = d]
      /\ opened.totalAnnounced = st.totalAnnounced
      /\ opened.totalClaimed = st.totalClaimed
      /\ Shape(opened)
  <2> HIDE DEF d
  <2> QED BY DEF StorageTyped, Shape
<1> HIDE DEF d, e, opened
<1>5. /\ st'.nextId = id + 1 /\ st'.claimed = st.claimed
      /\ st'.deposits = [st.deposits EXCEPT ![id] = d]
      /\ st'.totalAnnounced = st.totalAnnounced
      /\ st'.totalClaimed = st.totalClaimed
      /\ Shape(st')
  BY <1>1, <1>4 DEF Shape
<1>6. StorageTyped'
  <2>1. st'.deposits \in [Ids -> DepositSet]
    BY <1>1, <1>3, <1>5 DEF StorageTyped
  <2>2. /\ st'.claimed \in [Accounts -> BOOLEAN] /\ st'.nextId \in Nat
        /\ st'.totalAnnounced \in Nat /\ st'.totalClaimed \in Nat
    BY <1>5 DEF StorageTyped
  <2> QED BY <1>5, <2>1, <2>2 DEF StorageTyped
<1> QED BY <1>1, <1>2, <1>5, <1>6

(* The announcement, of the workflow or of the local client.  The tax is    *)
(* paid to an account that runs no code.                                    *)
Settles(report) ==
    LET id == report.id
        sum == Total(report.denoms, Len(report.denoms))
    IN  /\ st.deposits[id].status = "Pending"
        /\ Len(report.points) = Len(report.denoms)
        /\ \A i \in 1 .. Len(report.points) : report.points[i] < st.deposits[id].points
        /\ sum = contractMintable(st.deposits[id].amount)
        /\ st'.deposits = [st.deposits EXCEPT ![id] =
                             [st.deposits[id] EXCEPT !.status = "Announced"]]
        /\ st'.totalAnnounced = st.totalAnnounced + sum
        /\ st'.nextId = st.nextId /\ st'.claimed = st.claimed
        /\ st'.totalClaimed = st.totalClaimed
        /\ StorageTyped'
        /\ UNCHANGED <<stack, now>>

(* What a storage is after the events and the payment of an operation. *)
LEMMA AfterEvents ==
    ASSUME NEW s, Shape(s), NEW e, NEW f, NEW b,
           \/ st' = [s EXCEPT !.log = Append(@, e)]
           \/ st' = [[s EXCEPT !.log = Append(@, e)] EXCEPT !.balance = @ - b]
           \/ st' = [[[s EXCEPT !.log = Append(@, e)] EXCEPT !.log = Append(@, f)]
                        EXCEPT !.balance = @ - b]
    PROVE  /\ Shape(st')
           /\ st'.deposits = s.deposits /\ st'.claimed = s.claimed
           /\ st'.nextId = s.nextId
           /\ st'.totalAnnounced = s.totalAnnounced
           /\ st'.totalClaimed = s.totalClaimed
BY DEF Shape

(* The storage that _announce books before it pays the tax.                 *)
LEMMA SettledTyped ==
    ASSUME StorageTyped, NEW s, NEW id \in Ids, NEW sum \in Nat,
           s = [st EXCEPT !.deposits[id].status = "Announced", !.totalAnnounced = @ + sum]
    PROVE  /\ Shape(s)
           /\ s.deposits = [st.deposits EXCEPT ![id] =
                               [st.deposits[id] EXCEPT !.status = "Announced"]]
           /\ s.totalAnnounced = st.totalAnnounced + sum
           /\ s.nextId = st.nextId /\ s.claimed = st.claimed
           /\ s.totalClaimed = st.totalClaimed
           /\ s.deposits \in [Ids -> DepositSet]
<1>1. /\ Shape(s)
      /\ s.deposits = [st.deposits EXCEPT ![id] =
                          [st.deposits[id] EXCEPT !.status = "Announced"]]
      /\ s.totalAnnounced = st.totalAnnounced + sum
      /\ s.nextId = st.nextId /\ s.claimed = st.claimed
      /\ s.totalClaimed = st.totalClaimed
  BY DEF StorageTyped, Shape
<1>2. st.deposits[id] \in DepositSet
  BY DEF StorageTyped
<1>3. [st.deposits[id] EXCEPT !.status = "Announced"] \in DepositSet
  BY <1>2 DEF DepositSet
<1>4. s.deposits \in [Ids -> DepositSet]
  BY <1>1, <1>3 DEF StorageTyped
<1> QED BY <1>1, <1>4

(* A split of the ladder has a sum. *)
LEMMA SumOfNotes ==
    ASSUME NEW notes \in Seq(Denoms)
    PROVE  Total(notes, Len(notes)) \in Nat
<1>1. notes \in [1 .. Len(notes) -> Nat] /\ Len(notes) \in Nat
  <2>1. Denoms \subseteq Nat
    BY Smallest
  <2>2. notes \in [1 .. Len(notes) -> Denoms] /\ Len(notes) \in Nat
    OBVIOUS
  <2> QED BY <2>1, <2>2
<1> QED BY <1>1, SumBounds DEF Total

(* An announcement behind the mint workflow settles its deposit.            *)
LEMMA WorkflowEffect ==
    ASSUME StorageTyped, NEW sender, NEW report \in [id : Ids, points : Seq(Nat), denoms : Seq(Denoms)],
           Mint!Announce(sender, report)
    PROVE  Settles(report)
<1> DEFINE id == report.id
           sum == Total(report.denoms, Len(report.denoms))
           taken == st.deposits[id].amount - sum
           s == [st EXCEPT !.deposits[id].status = "Announced", !.totalAnnounced = @ + sum]
           e == [event |-> "Announced", id |-> id, points |-> report.points, sum |-> sum]
           f == [event |-> "Taxed", id |-> id, amount |-> taken]
<1>1. /\ st.deposits[id].status = "Pending"
      /\ Len(report.points) = Len(report.denoms)
      /\ \A i \in 1 .. Len(report.points) : report.points[i] < st.deposits[id].points
      /\ sum = Mint!mintable(st.deposits[id].amount)
      /\ UNCHANGED now
      /\ IF taken # 0
         THEN Mint!Send(Mint!Emit(Mint!Emit(s, e), f), Deployer, taken)
         ELSE st' = Mint!Emit(s, e) /\ stack' = stack
  BY DEF Mint!Announce, Mint!Awaits, Mint!Total, Mint!SumTo, Total, SumTo
<1>2. id \in Ids /\ sum \in Nat
  BY SumOfNotes
<1> HIDE DEF id, sum, taken, s, e, f
<1>3. /\ stack' = stack
      /\ \/ st' = [s EXCEPT !.log = Append(@, e)]
         \/ st' = [[[s EXCEPT !.log = Append(@, e)] EXCEPT !.log = Append(@, f)]
                      EXCEPT !.balance = @ - taken]
  BY <1>1 DEF Mint!Send, Mint!Emit
<1>4. /\ Shape(s)
      /\ s.deposits = [st.deposits EXCEPT ![id] =
                          [st.deposits[id] EXCEPT !.status = "Announced"]]
      /\ s.totalAnnounced = st.totalAnnounced + sum
      /\ s.nextId = st.nextId /\ s.claimed = st.claimed
      /\ s.totalClaimed = st.totalClaimed
      /\ s.deposits \in [Ids -> DepositSet]
  BY <1>2, SettledTyped DEF s
<1>5. /\ Shape(st') /\ st'.deposits = s.deposits /\ st'.claimed = s.claimed
      /\ st'.nextId = s.nextId /\ st'.totalAnnounced = s.totalAnnounced
      /\ st'.totalClaimed = s.totalClaimed
  <2>1. CASE st' = [s EXCEPT !.log = Append(@, e)]
    BY <1>4, <2>1, AfterEvents
  <2>2. CASE st' = [[[s EXCEPT !.log = Append(@, e)] EXCEPT !.log = Append(@, f)]
                      EXCEPT !.balance = @ - taken]
    BY <1>4, <2>2, AfterEvents
  <2> QED BY <1>3, <2>1, <2>2
<1>6. StorageTyped'
  BY <1>2, <1>4, <1>5 DEF StorageTyped
<1> QED BY <1>1, <1>3, <1>4, <1>5, <1>6, ContractRung DEF Settles, id, sum

(* The same of the contract of a local chain. *)
LEMMA LocalEffect ==
    ASSUME StorageTyped, NEW sender, NEW report \in [id : Ids, points : Seq(Nat), denoms : Seq(Denoms)],
           LocalMint!Announce(sender, report)
    PROVE  Settles(report)
<1> DEFINE id == report.id
           sum == Total(report.denoms, Len(report.denoms))
           taken == st.deposits[id].amount - sum
           s == [st EXCEPT !.deposits[id].status = "Announced", !.totalAnnounced = @ + sum]
           e == [event |-> "Announced", id |-> id, points |-> report.points, sum |-> sum]
           f == [event |-> "Taxed", id |-> id, amount |-> taken]
<1>1. /\ st.deposits[id].status = "Pending"
      /\ Len(report.points) = Len(report.denoms)
      /\ \A i \in 1 .. Len(report.points) : report.points[i] < st.deposits[id].points
      /\ sum = LocalMint!mintable(st.deposits[id].amount)
      /\ UNCHANGED now
      /\ IF taken # 0
         THEN LocalMint!Send(LocalMint!Emit(LocalMint!Emit(s, e), f), Deployer, taken)
         ELSE st' = LocalMint!Emit(s, e) /\ stack' = stack
  BY DEF LocalMint!Announce, LocalMint!Awaits, LocalMint!Total, LocalMint!SumTo, Total, SumTo
<1>2. id \in Ids /\ sum \in Nat
  BY SumOfNotes
<1> HIDE DEF id, sum, taken, s, e, f
<1>3. /\ stack' = stack
      /\ \/ st' = [s EXCEPT !.log = Append(@, e)]
         \/ st' = [[[s EXCEPT !.log = Append(@, e)] EXCEPT !.log = Append(@, f)]
                      EXCEPT !.balance = @ - taken]
  BY <1>1 DEF LocalMint!Send, LocalMint!Emit
<1>4. /\ Shape(s)
      /\ s.deposits = [st.deposits EXCEPT ![id] =
                          [st.deposits[id] EXCEPT !.status = "Announced"]]
      /\ s.totalAnnounced = st.totalAnnounced + sum
      /\ s.nextId = st.nextId /\ s.claimed = st.claimed
      /\ s.totalClaimed = st.totalClaimed
      /\ s.deposits \in [Ids -> DepositSet]
  BY <1>2, SettledTyped DEF s
<1>5. /\ Shape(st') /\ st'.deposits = s.deposits /\ st'.claimed = s.claimed
      /\ st'.nextId = s.nextId /\ st'.totalAnnounced = s.totalAnnounced
      /\ st'.totalClaimed = s.totalClaimed
  <2>1. CASE st' = [s EXCEPT !.log = Append(@, e)]
    BY <1>4, <2>1, AfterEvents
  <2>2. CASE st' = [[[s EXCEPT !.log = Append(@, e)] EXCEPT !.log = Append(@, f)]
                      EXCEPT !.balance = @ - taken]
    BY <1>4, <2>2, AfterEvents
  <2> QED BY <1>3, <2>1, <2>2
<1>6. StorageTyped'
  BY <1>2, <1>4, <1>5 DEF StorageTyped
<1> QED BY <1>1, <1>3, <1>4, <1>5, <1>6, ContractRung DEF Settles, id, sum

(* A claim. *)
LEMMA ClaimEffect ==
    ASSUME StorageTyped, NEW sender, NEW denom, NEW wallet \in Accounts,
           Mint!Claim(sender, denom, wallet)
    PROVE  /\ denom \in Denoms
           /\ ~ st.claimed[wallet] /\ st.totalClaimed + denom <= st.totalAnnounced
           /\ st'.claimed = [st.claimed EXCEPT ![wallet] = TRUE]
           /\ st'.totalClaimed = st.totalClaimed + denom
           /\ st'.deposits = st.deposits /\ st'.nextId = st.nextId
           /\ st'.totalAnnounced = st.totalAnnounced
           /\ StorageTyped'
           /\ UNCHANGED <<stack, now>>
<1> DEFINE s == [st EXCEPT !.claimed[wallet] = TRUE, !.totalClaimed = @ + denom]
           e == [event |-> "Claimed", wallet |-> wallet, amount |-> denom]
<1>1. /\ denom \in Denoms /\ ~ st.claimed[wallet]
      /\ st.totalClaimed + denom <= st.totalAnnounced
      /\ stack' = stack /\ UNCHANGED now
      /\ st' = [[s EXCEPT !.log = Append(@, e)] EXCEPT !.balance = @ - denom]
  BY DEF Mint!Claim, Mint!Unclaimed, Mint!Covered, Mint!Send, Mint!Emit
<1>2. /\ Shape(s) /\ s.claimed = [st.claimed EXCEPT ![wallet] = TRUE]
      /\ s.totalClaimed = st.totalClaimed + denom
      /\ s.deposits = st.deposits /\ s.nextId = st.nextId
      /\ s.totalAnnounced = st.totalAnnounced
  BY DEF StorageTyped, Shape
<1> HIDE DEF s, e
<1>3. /\ Shape(st') /\ st'.deposits = s.deposits /\ st'.claimed = s.claimed
      /\ st'.nextId = s.nextId /\ st'.totalAnnounced = s.totalAnnounced
      /\ st'.totalClaimed = s.totalClaimed
  BY <1>1, <1>2, AfterEvents
<1>4. denom \in Nat
  BY <1>1, Smallest
<1>5. StorageTyped'
  BY <1>2, <1>3, <1>4 DEF StorageTyped
<1> QED BY <1>1, <1>2, <1>3, <1>5

-----------------------------------------------------------------------------
(* The ledger. *)

(* The numbers of a ledger are where arithmetic can see them.               *)
LEMMA LedgerNumbers ==
    ASSUME ContractTyped, Ledger
    PROVE  /\ MaxDeposits \in Nat /\ Delay \in Nat /\ now \in Nat
           /\ st.nextId \in Nat /\ Opened \subseteq Ids
           /\ \A id \in Ids :
                /\ st.deposits[id] \in DepositSet
                /\ st.deposits[id].status \in {"None", "Pending", "Announced"}
                /\ st.deposits[id].amount \in Nat /\ st.deposits[id].deadline \in Nat
                /\ st.deposits[id].points \in Nat
                /\ brought[id] \in [wallets : Seq(Points), net : Nat]
                /\ brought[id].wallets \in Seq(Points) /\ brought[id].net \in Nat
                /\ answer[id] \in Seq(Denoms \X Points)
<1>1. MaxDeposits \in Nat /\ Delay \in Nat /\ now \in Nat /\ st.nextId \in Nat
  BY CliAssumption DEF ContractTyped, StorageTyped
<1>2. Opened \subseteq Ids
  BY <1>1 DEF Ledger, Opened, Ids
<1>3. \A id \in Ids : st.deposits[id] \in DepositSet
  BY DEF ContractTyped, StorageTyped
<1>4. \A id \in Ids : /\ st.deposits[id].status \in {"None", "Pending", "Announced"}
                      /\ st.deposits[id].amount \in Nat /\ st.deposits[id].deadline \in Nat
                      /\ st.deposits[id].points \in Nat
  BY <1>3 DEF DepositSet
<1>5. \A id \in Ids : /\ brought[id] \in [wallets : Seq(Points), net : Nat]
                      /\ answer[id] \in Seq(Denoms \X Points)
  BY DEF ContractTyped
<1>6. \A id \in Ids : brought[id].wallets \in Seq(Points) /\ brought[id].net \in Nat
  BY <1>5
<1> QED BY <1>1, <1>2, <1>3, <1>4, <1>5, <1>6

(* A step that leaves the contract alone, the clock aside. *)
LEMMA QuietLedger ==
    ASSUME ContractTyped, Ledger, UNCHANGED <<st, stack, brought, answer, ours>>,
           now' \in {now, now + 1}
    PROVE  ContractTyped' /\ Ledger'
<1>1. now' \in Nat /\ now <= now' /\ Opened' = Opened
  BY DEF ContractTyped, Opened
<1>2. ContractTyped'
  BY <1>1 DEF ContractTyped, StorageTyped, Shape
<1>3. Ledger'
  <2>1. \A id \in Opened : BlockOf(id) \in Nat /\ BlockOf(id) <= now'
    BY <1>1, LedgerNumbers DEF Ledger
  <2> QED BY <1>1, <2>1 DEF Ledger, BlockOf, Denominations
<1> QED BY <1>2, <1>3

(* A deposit. *)
LEMMA OpenedLedger ==
    ASSUME ContractTyped, Ledger, NEW sender \in Accounts, NEW value \in Nat,
           NEW wallets \in Seq(Points), NEW net \in Nat,
           Mint!Deposit(sender, value, Len(wallets)), Bring(st.nextId, wallets, net),
           sender = Deployer => value = grossFor(net),
           ours => \A id \in Ids : ~ InBlock(id, now),
           UNCHANGED <<answer, ours>>
    PROVE  /\ ContractTyped' /\ Ledger'
           /\ st.nextId \in Ids /\ Opened' = Opened \cup {st.nextId} /\ st.nextId \notin Opened
           /\ \A id \in Opened : st'.deposits[id] = st.deposits[id] /\ brought'[id] = brought[id]
           /\ \A id \in Ids : id # st.nextId => st'.deposits[id] = st.deposits[id] /\ brought'[id] = brought[id]
           /\ st'.deposits[st.nextId] = NewRecord(sender, value, Len(wallets))
           /\ brought'[st.nextId] = [wallets |-> wallets, net |-> net]
           /\ \A id \in Ids : id = st.nextId => BlockOf(id)' = now
           /\ \A id \in Opened : BlockOf(id)' = BlockOf(id)
           /\ st'.claimed = st.claimed /\ st'.totalAnnounced = st.totalAnnounced
           /\ st'.totalClaimed = st.totalClaimed /\ now' = now
<1>0. PICK new : new = st.nextId
  OBVIOUS
<1>1. /\ new \in Ids
      /\ st'.deposits = [st.deposits EXCEPT ![new] = NewRecord(sender, value, Len(wallets))]
      /\ st'.nextId = new + 1 /\ st'.claimed = st.claimed
      /\ st'.totalAnnounced = st.totalAnnounced
      /\ st'.totalClaimed = st.totalClaimed
      /\ StorageTyped'
      /\ UNCHANGED <<stack, now>>
  <2>1. Len(wallets) \in Nat
    OBVIOUS
  <2>2. StorageTyped /\ now \in Nat
    BY DEF ContractTyped
  <2>3. /\ st.nextId \in Ids
        /\ st'.deposits = [st.deposits EXCEPT ![st.nextId] =
                              NewRecord(sender, value, Len(wallets))]
        /\ st'.nextId = st.nextId + 1 /\ st'.claimed = st.claimed
        /\ st'.totalAnnounced = st.totalAnnounced
        /\ st'.totalClaimed = st.totalClaimed
        /\ StorageTyped'
        /\ UNCHANGED <<stack, now>>
    BY <2>1, <2>2, DepositEffect
  <2> QED BY <1>0, <2>3
<1>2. brought' = [brought EXCEPT ![new] = [wallets |-> wallets, net |-> net]]
  BY <1>0 DEF Bring
<1>3. /\ new \in Nat /\ new \notin Opened /\ Opened' = Opened \cup {new}
      /\ Opened \subseteq Ids /\ Opened' \subseteq Ids
  BY <1>0, <1>1, LedgerNumbers DEF Opened, Ids
<1>4. /\ st'.deposits[new] = NewRecord(sender, value, Len(wallets))
      /\ \A id \in Ids : id # new => st'.deposits[id] = st.deposits[id]
      /\ \A id \in Ids : id # new => brought'[id] = brought[id]
      /\ brought'[new] = [wallets |-> wallets, net |-> net]
  BY <1>1, <1>2 DEF ContractTyped, StorageTyped
<1>5. ContractTyped'
  <2>1. brought' \in [Ids -> [wallets : Seq(Points), net : Nat]]
    BY <1>1, <1>2 DEF ContractTyped
  <2> QED BY <1>1, <2>1 DEF ContractTyped
<1>6. Delay \in Nat /\ now \in Nat
  BY LedgerNumbers
<1>7. BlockOf(new)' = now
  <2>1. st'.deposits[new].deadline = now + Delay
    BY <1>4 DEF NewRecord
  <2> QED BY <1>6, <2>1 DEF BlockOf
<1>8. \A id \in Opened : BlockOf(id)' = BlockOf(id) /\ BlockOf(id) \in Nat /\ BlockOf(id) <= now
  BY <1>3, <1>4 DEF BlockOf, Ledger
<1>9. Ledger'
  <2>1. st'.nextId \in 1 .. MaxDeposits + 1
    BY <1>0, <1>1, LedgerNumbers DEF Ids
  <2>2. \A id \in Ids : st'.deposits[id].status = "None" <=> id \notin Opened'
    BY <1>3, <1>4 DEF Ledger, NewRecord
  <2>3. ASSUME NEW id \in Opened'
        PROVE  /\ BlockOf(id)' \in Nat /\ BlockOf(id)' <= now'
               /\ Len(brought'[id].wallets) = st'.deposits[id].points
               /\ st'.deposits[id].depositor = Deployer =>
                    st'.deposits[id].amount = grossFor(brought'[id].net)
    <3>1. CASE id = new
      BY <1>1, <1>4, <1>6, <1>7, <3>1 DEF NewRecord
    <3>2. CASE id \in Opened
      <4>1. st'.deposits[id] = st.deposits[id] /\ brought'[id] = brought[id]
        BY <1>3, <1>4, <3>2
      <4> QED BY <1>1, <1>8, <3>2, <4>1 DEF Ledger
    <3> QED BY <1>3, <3>1, <3>2
  <2>4. ours' => \A i, j \in Opened' : BlockOf(i)' = BlockOf(j)' => i = j
    <3> SUFFICES ASSUME ours', NEW i \in Opened', NEW j \in Opened', BlockOf(i)' = BlockOf(j)'
                 PROVE  i = j
      OBVIOUS
    <3>1. ours
      OBVIOUS
    <3>2. \A id \in Opened : BlockOf(id) # now
      <4> SUFFICES ASSUME NEW id \in Opened, BlockOf(id) = now PROVE FALSE
        OBVIOUS
      <4>1. st.deposits[id].status # "None"
        BY <1>3 DEF Ledger
      <4> QED BY <1>3, <3>1, <4>1 DEF InBlock
    <3>3. \A id \in Opened' : (id \in Opened /\ BlockOf(id)' = BlockOf(id) /\ BlockOf(id)' # now) \/ id = new
      BY <1>3, <1>8, <3>2
    <3>4. \A k, l \in Opened : BlockOf(k) = BlockOf(l) => k = l
      BY <3>1 DEF Ledger
    <3> QED BY <1>7, <1>8, <3>3, <3>4
  <2>5. ASSUME NEW id \in Ids
        PROVE  /\ st'.deposits[id].status # "Announced" => answer'[id] = <<>>
               /\ st'.deposits[id].status = "Announced" =>
                    Total(Denominations(id)', Len(answer'[id]))
                      = contractMintable(st'.deposits[id].amount)
    <3>1. CASE id = new
      <4>1. st.deposits[new].status = "None" /\ answer[new] = <<>>
        BY <1>1, <1>3 DEF Ledger
      <4> QED BY <1>4, <3>1, <4>1 DEF NewRecord
    <3>2. CASE id # new
      BY <1>4, <3>2 DEF Ledger, Denominations
    <3> QED BY <3>1, <3>2
  <2> QED BY <2>1, <2>2, <2>3, <2>4, <2>5 DEF Ledger
<1>10. \A id \in Opened : st'.deposits[id] = st.deposits[id] /\ brought'[id] = brought[id]
  BY <1>3, <1>4
<1> QED BY <1>0, <1>1, <1>3, <1>4, <1>5, <1>7, <1>8, <1>9, <1>10

(* An announcement, with its signatures. *)
LEMMA SettledLedger ==
    ASSUME ContractTyped, Ledger,
           NEW report \in [id : Ids, points : Seq(Nat), denoms : Seq(Denoms)],
           NEW sigs \in Seq(Denoms \X Points), Settles(report),
           report.denoms = [i \in DOMAIN sigs |-> sigs[i][1]],
           Len(report.denoms) = Len(sigs),
           answer' = [answer EXCEPT ![report.id] = sigs],
           UNCHANGED <<brought, ours>>
    PROVE  /\ ContractTyped' /\ Ledger' /\ Opened' = Opened
           /\ report.id \in Opened /\ answer[report.id] = <<>>
           /\ answer'[report.id] = sigs
           /\ st'.deposits[report.id].status = "Announced"
           /\ \A id \in Ids : /\ st'.deposits[id].amount = st.deposits[id].amount
                              /\ st'.deposits[id].depositor = st.deposits[id].depositor
                              /\ BlockOf(id)' = BlockOf(id)
           /\ \A id \in Ids : id # report.id =>
                answer'[id] = answer[id] /\ st'.deposits[id] = st.deposits[id]
<1> DEFINE new == report.id
<1>1. /\ st.deposits[new].status = "Pending"
      /\ Total(report.denoms, Len(report.denoms)) = contractMintable(st.deposits[new].amount)
      /\ st'.deposits = [st.deposits EXCEPT ![new] =
                             [st.deposits[new] EXCEPT !.status = "Announced"]]
      /\ st'.nextId = st.nextId
      /\ StorageTyped' /\ UNCHANGED <<stack, now>>
  BY DEF Settles
<1>2. new \in Ids
  OBVIOUS
<1> HIDE DEF new
<1>3. /\ answer'[new] = sigs /\ \A id \in Ids : id # new => answer'[id] = answer[id]
      /\ answer' \in [Ids -> Seq(Denoms \X Points)]
  BY <1>2 DEF new, ContractTyped
<1>4. /\ st'.deposits[new] = [st.deposits[new] EXCEPT !.status = "Announced"]
      /\ \A id \in Ids : id # new => st'.deposits[id] = st.deposits[id]
  BY <1>1, <1>2 DEF ContractTyped, StorageTyped
<1>5. /\ st'.deposits[new].status = "Announced"
      /\ st'.deposits[new].amount = st.deposits[new].amount
      /\ st'.deposits[new].depositor = st.deposits[new].depositor
      /\ st'.deposits[new].points = st.deposits[new].points
      /\ st'.deposits[new].deadline = st.deposits[new].deadline
  BY <1>2, <1>4, LedgerNumbers DEF DepositSet
<1>6. Opened' = Opened /\ new \in Opened /\ Opened \subseteq Ids /\ answer[new] = <<>>
  BY <1>1, <1>2, LedgerNumbers DEF Opened, Ledger
<1>7. ContractTyped'
  BY <1>1, <1>3 DEF ContractTyped
<1>8. \A id \in Ids : /\ st'.deposits[id].amount = st.deposits[id].amount
                      /\ st'.deposits[id].depositor = st.deposits[id].depositor
                      /\ st'.deposits[id].points = st.deposits[id].points
                      /\ BlockOf(id)' = BlockOf(id)
  BY <1>4, <1>5 DEF BlockOf
<1>9. Ledger'
  <2>1. \A id \in Ids : st'.deposits[id].status = "None" <=> id \notin Opened'
    BY <1>4, <1>5, <1>6 DEF Ledger
  <2>2. \A id \in Opened :
         /\ BlockOf(id)' \in Nat /\ BlockOf(id)' <= now'
         /\ Len(brought'[id].wallets) = st'.deposits[id].points
         /\ st'.deposits[id].depositor = Deployer =>
              st'.deposits[id].amount = grossFor(brought'[id].net)
    BY <1>1, <1>6, <1>8 DEF Ledger
  <2>3. ours' => \A i, j \in Opened : BlockOf(i)' = BlockOf(j)' => i = j
    BY <1>6, <1>8 DEF Ledger
  <2>4. ASSUME NEW id \in Ids
        PROVE  /\ st'.deposits[id].status # "Announced" => answer'[id] = <<>>
               /\ st'.deposits[id].status = "Announced" =>
                    Total(Denominations(id)', Len(answer'[id]))
                      = contractMintable(st'.deposits[id].amount)
    <3>1. CASE id = new
      <4>1. Denominations(new)' = report.denoms
        BY <1>3 DEF Denominations
      <4> QED BY <1>1, <1>3, <1>5, <3>1, <4>1
    <3>2. CASE id # new
      <4>1. Denominations(id)' = Denominations(id) /\ answer'[id] = answer[id]
        BY <1>3, <3>2 DEF Denominations
      <4>2. st'.deposits[id] = st.deposits[id]
        BY <1>4, <3>2
      <4> QED BY <4>1, <4>2 DEF Ledger
    <3> QED BY <3>1, <3>2
  <2>5. st'.nextId \in 1 .. MaxDeposits + 1
    BY <1>1 DEF Ledger
  <2> QED BY <1>6, <2>1, <2>2, <2>3, <2>4, <2>5 DEF Ledger
<1> QED BY <1>3, <1>4, <1>5, <1>6, <1>7, <1>8, <1>9 DEF new

(* A claim. *)
LEMMA PaidLedger ==
    ASSUME ContractTyped, Ledger, NEW sender, NEW denom, NEW wallet \in Accounts,
           Mint!Claim(sender, denom, wallet), UNCHANGED <<brought, answer, ours>>
    PROVE  ContractTyped' /\ Ledger' /\ UNCHANGED <<stack, now>>
           /\ st'.deposits = st.deposits /\ st'.nextId = st.nextId
<1>1. /\ st'.deposits = st.deposits /\ st'.nextId = st.nextId
      /\ StorageTyped' /\ UNCHANGED <<stack, now>>
  BY ClaimEffect DEF ContractTyped
<1>2. ContractTyped'
  BY <1>1 DEF ContractTyped
<1>3. Ledger'
  BY <1>1 DEF Ledger, Opened, BlockOf, Denominations
<1> QED BY <1>1, <1>2, <1>3

-----------------------------------------------------------------------------
(* The arithmetic of the split. *)

LEMMA MintableNat ==
    ASSUME NEW a \in Nat
    PROVE  contractMintable(a) \in Nat /\ Mintable(a) = contractMintable(a)
<1>1. MIN_DENOM \in Nat \ {0}
  BY Smallest
<1>2. CASE a < MIN_DENOM
  BY <1>2 DEF contractMintable, Mintable
<1>3. CASE ~ (a < MIN_DENOM)
  <2> DEFINE q == a \div MIN_DENOM
  <2>1. contractMintable(a) = (q - 1) * MIN_DENOM /\ Mintable(a) = (q - 1) * MIN_DENOM
    BY <1>3 DEF Mintable, contractMintable
  <2>2. q \in Nat /\ q >= 1
    BY <1>1, <1>3
  <2> HIDE DEF q
  <2>3. q - 1 \in Nat /\ (q - 1) * MIN_DENOM \in Nat
    BY <1>1, <2>2
  <2> QED BY <2>1, <2>3
<1> QED BY <1>2, <1>3

(* The greedy split is a sequence of denominations.                         *)
LEMMA SplitNotes ==
    ASSUME NEW r \in Nat
    PROVE  splitGreedy[r] \in Seq(Denoms) /\ Len(splitGreedy[r]) \in Nat
<1>1. LadderNotes(LADDER) = Denoms
  BY DEF LadderNotes, Denoms, Levels
<1>2. <<r, Len(LADDER)>> \in SplitCases(LADDER)
  BY Smallest DEF SplitCases
<1>3. GreedySplits(LADDER) \in [SplitCases(LADDER) -> Seq(Denoms)]
  BY <1>1, GreedySplit, LadderAssumption
<1>4. GreedySplits(LADDER)[<<r, Len(LADDER)>>] \in Seq(Denoms)
  BY <1>2, <1>3
<1>5. splitGreedy[r] \in Seq(Denoms)
  BY <1>4 DEF splitGreedy
<1> QED BY <1>5, LenProperties

LEMMA PointCountNat ==
    ASSUME NEW a \in Nat
    PROVE  pointCount(a) \in Nat
<1>1. contractMintable(a) \in Nat /\ clientMintable(a) = contractMintable(a)
  BY MintableNat DEF clientMintable, contractMintable
<1>2. Len(splitGreedy[contractMintable(a)]) + 0 \in Nat
  BY <1>1, SplitNotes
<1> QED BY <1>1, <1>2 DEF pointCount, SLACK

(* A sequence by its function. *)
LEMMA FunctionSeq ==
    ASSUME NEW S, NEW n \in Nat, NEW f, f \in [1 .. n -> S]
    PROVE  f \in Seq(S) /\ Len(f) = n
OBVIOUS

-----------------------------------------------------------------------------
(* What the steps do to the contract. *)

Opening(sender, value, wallets, net) ==
    /\ sender \in Accounts /\ value \in Nat /\ wallets \in Seq(Points) /\ net \in Nat
    /\ Mint!Deposit(sender, value, Len(wallets))
    /\ Bring(st.nextId, wallets, net)
    /\ sender = Deployer => value = grossFor(net)
    /\ ours => \A id \in Ids : ~ InBlock(id, now)
    /\ UNCHANGED <<answer, ours>>

Settling(report, sigs) ==
    /\ report \in [id : Ids, points : Seq(Nat), denoms : Seq(Denoms)]
    /\ sigs \in Seq(Denoms \X Points)
    /\ Settles(report)
    /\ report.denoms = [i \in DOMAIN sigs |-> sigs[i][1]]
    /\ Len(report.denoms) = Len(sigs)
    /\ answer' = [answer EXCEPT ![report.id] = sigs]
    /\ UNCHANGED <<brought, ours>>

Paying(denom, wallet) ==
    /\ wallet \in Accounts
    /\ \E sender \in Accounts : Mint!Claim(sender, denom, wallet)
    /\ UNCHANGED <<brought, answer, ours>>

QuietStep ==
    UNCHANGED <<st, stack, brought, answer, ours>> /\ now' \in {now, now + 1}

(* The transactions of the mempool. *)
LEMMA HeadTyped ==
    ASSUME MempoolTyped, mempool # <<>>
    PROVE  /\ Head(mempool) \in Txs /\ 1 \in DOMAIN mempool /\ Head(mempool) = mempool[1]
           /\ Head(mempool).kind = "deposit" => Head(mempool) \in DepositTxs
           /\ Head(mempool).kind = "announce" => Head(mempool) \in AnnounceTxs
           /\ Head(mempool).kind = "claim" => Head(mempool) \in ClaimTxs
<1>1. Head(mempool) \in Txs /\ 1 \in DOMAIN mempool /\ Head(mempool) = mempool[1]
  BY DEF MempoolTyped
<1> QED BY <1>1 DEF Txs, DepositTxs, AnnounceTxs, ClaimTxs

LEMMA WalletsPoints == Seq(Wallets) \subseteq Seq(Points) /\ Seq(Denoms \X Wallets) \subseteq Seq(Denoms \X Points)
<1>1. Wallets \subseteq Points /\ Denoms \X Wallets \subseteq Denoms \X Points
  BY DEF Points
<1> QED BY <1>1, SeqMonotonic

(* What a block does with a deposit of ours ...                             *)
LEMMA MineDepositIs ==
    ASSUME Base, MineDeposit
    PROVE  LET tx == Head(mempool)
           IN  /\ tx \in DepositTxs /\ mempool # <<>>
               /\ Opening(Deployer, tx.value, tx.wallets, tx.net)
<1> DEFINE tx == Head(mempool)
<1>1. mempool # <<>> /\ tx \in DepositTxs /\ tx = mempool[1] /\ 1 \in DOMAIN mempool
  BY HeadTyped DEF MineDeposit, Mines, Base
<1>2. tx.value \in Nat /\ tx.net \in Nat /\ tx.wallets \in Seq(Points) /\ tx.kind = "deposit"
  BY <1>1, WalletsPoints DEF DepositTxs
<1>3. tx.value = grossFor(tx.net)
  BY <1>1, <1>2 DEF Base, Sent
<1>4. Deployer \in Accounts
  BY DEF Accounts
<1>5. /\ Mint!Deposit(Deployer, tx.value, Len(tx.wallets)) /\ Bring(st.nextId, tx.wallets, tx.net)
      /\ ours => \A id \in Ids : ~ InBlock(id, now)
      /\ UNCHANGED <<answer, ours>>
  BY DEF MineDeposit, Mines
<1> HIDE DEF tx
<1> QED BY <1>1, <1>2, <1>3, <1>4, <1>5 DEF Opening, tx

(* ... and with one of somebody else.                                       *)
LEMMA OtherDepositsIs ==
    ASSUME NEW value \in OtherValues, OtherDeposits(value)
    PROVE  LET wallets == [i \in 1 .. pointCount(value) |-> Stranger]
           IN  Opening(Other, value, wallets, 0) /\ \A i \in DOMAIN wallets : wallets[i] = Stranger
<1> DEFINE n == pointCount(value)
           wallets == [i \in 1 .. n |-> Stranger]
<1>1. value \in Nat /\ Other \in Accounts /\ Other # Deployer
  BY CliAssumption DEF Accounts
<1>2. n \in Nat
  BY <1>1, PointCountNat
<1>3. ~ ours /\ Mint!Deposit(Other, value, n) /\ Bring(st.nextId, wallets, 0)
      /\ UNCHANGED <<answer, ours>>
  BY DEF OtherDeposits, client
<1> HIDE DEF n
<1>4. wallets \in Seq(Points) /\ Len(wallets) = n
  BY <1>2, FunctionSeq DEF Points
<1>5. \A i \in DOMAIN wallets : wallets[i] = Stranger
  OBVIOUS
<1> HIDE DEF wallets
<1>6. Opening(Other, value, wallets, 0)
  BY <1>1, <1>3, <1>4 DEF Opening
<1> QED BY <1>5, <1>6 DEF n, wallets

(* What a block does with an announcement of the local client ...           *)
LEMMA MineAnnounceIs ==
    ASSUME Base, MineAnnounce
    PROVE  LET tx == Head(mempool)
           IN  /\ tx \in AnnounceTxs /\ mempool # <<>> /\ ours /\ tx.report.id \in Opened
               /\ \/ Settling(tx.report, tx.sigs)
                  \/ QuietStep /\ now' = now /\ st.deposits[tx.report.id].status # "Pending"
<1> DEFINE tx == Head(mempool)
<1>1. mempool # <<>> /\ tx \in AnnounceTxs /\ tx = mempool[1] /\ 1 \in DOMAIN mempool
  BY HeadTyped DEF MineAnnounce, Mines, Base
<1>2. /\ tx.report \in [id : Ids, points : Seq(Nat), denoms : Seq(Denoms)]
      /\ tx.sigs \in Seq(Denoms \X Points) /\ tx.kind = "announce"
  BY <1>1, WalletsPoints DEF AnnounceTxs
<1>3. /\ ours /\ tx.report.id \in Opened
      /\ tx.report.denoms = [i \in DOMAIN tx.sigs |-> tx.sigs[i][1]]
      /\ Len(tx.report.denoms) = Len(tx.sigs)
  BY <1>1, <1>2 DEF Base, Sent
<1>4. /\ IF st.deposits[tx.report.id].status = "Pending"
         THEN /\ LocalMint!Announce(Deployer, tx.report)
              /\ answer' = [answer EXCEPT ![tx.report.id] = tx.sigs]
         ELSE UNCHANGED <<contract, answer>>
      /\ UNCHANGED <<brought, ours>>
  BY DEF MineAnnounce, Mines
<1> HIDE DEF tx
<1>5. CASE st.deposits[tx.report.id].status = "Pending"
  <2>1. Settles(tx.report)
    BY <1>2, <1>4, <1>5, LocalEffect DEF Base, ContractTyped
  <2> QED BY <1>1, <1>2, <1>3, <1>4, <1>5, <2>1 DEF Settling, tx
<1>6. CASE st.deposits[tx.report.id].status # "Pending"
  BY <1>1, <1>3, <1>4, <1>6 DEF QuietStep, contract, tx
<1> QED BY <1>5, <1>6

WorkflowSplit(id) == splitGreedy[contractMintable(st.deposits[id].amount)]

(* ... and with one of the workflow.                                        *)
LEMMA WorkflowAnnouncesIs ==
    ASSUME Base, NEW id \in Ids, WorkflowAnnounces(id)
    PROVE  /\ ~ ours
           /\ Settling(Report(id, WorkflowSplit(id)), SplitSigs(id))
           /\ Fits(id)
<1> DEFINE split == WorkflowSplit(id)
           report == Report(id, split)
           wallets == brought[id].wallets
<1>1. st.deposits[id].amount \in Nat /\ wallets \in Seq(Points)
  BY LedgerNumbers DEF Base
<1>2. split = splitGreedy[Mintable(st.deposits[id].amount)]
  BY <1>1, MintableNat DEF WorkflowSplit
<1>3. split \in Seq(Denoms) /\ Len(split) \in Nat
  BY <1>1, MintableNat, SplitNotes DEF WorkflowSplit
<1>4. /\ ~ ours /\ Mint!Announce(Workflow, report)
      /\ answer' = [answer EXCEPT ![id] = [i \in DOMAIN split |-> <<split[i], wallets[i]>>]]
      /\ UNCHANGED <<brought, ours>>
  BY <1>2 DEF WorkflowAnnounces, client
<1> HIDE DEF split
<1>5. /\ report \in [id : Ids, points : Seq(Nat), denoms : Seq(Denoms)]
      /\ report.id = id /\ report.denoms = split
      /\ Len(report.points) = Len(split) /\ \A i \in 1 .. Len(split) : report.points[i] = i - 1
  <2> DEFINE points == [i \in 1 .. Len(split) |-> i - 1]
  <2>1. points \in Seq(Nat) /\ Len(points) = Len(split)
    BY <1>3, FunctionSeq
  <2>2. DOMAIN split = 1 .. Len(split)
    BY <1>3
  <2>3. report = [id |-> id, points |-> points, denoms |-> split]
    BY <2>2 DEF Report
  <2> HIDE DEF points, report
  <2>4. \A i \in 1 .. Len(split) : points[i] = i - 1
    BY DEF points
  <2> QED BY <1>3, <2>1, <2>3, <2>4
<1> HIDE DEF report
<1>6. Settles(report)
  BY <1>4, <1>5, WorkflowEffect DEF Base, ContractTyped
<1>7. \A i \in 1 .. Len(split) : i \in DOMAIN wallets
  <2>1. id \in Opened
    <3>1. st.deposits[id].status = "Pending"
      BY <1>5, <1>6 DEF Settles
    <3> QED BY <3>1 DEF Base, Ledger
  <2>2. Len(wallets) = st.deposits[id].points
    BY <2>1 DEF Base, Ledger
  <2>3. \A i \in 1 .. Len(split) : i - 1 < Len(wallets)
    BY <1>5, <1>6, <2>2 DEF Settles
  <2> QED BY <1>1, <1>3, <2>3
<1>8. /\ SplitSigs(id) = [i \in 1 .. Len(split) |-> <<split[i], wallets[i]>>]
      /\ DOMAIN split = 1 .. Len(split)
  BY <1>3 DEF SplitSigs, SplitOver, WorkflowSplit, split
<1>9. SplitSigs(id) \in [1 .. Len(split) -> Denoms \X Points]
  <2>1. \A i \in 1 .. Len(split) : split[i] \in Denoms /\ wallets[i] \in Points
    BY <1>1, <1>3, <1>7
  <2> QED BY <1>8, <2>1
<1>10. SplitSigs(id) \in Seq(Denoms \X Points) /\ Len(SplitSigs(id)) = Len(split)
  BY <1>3, <1>9, FunctionSeq
<1>11. report.denoms = [i \in DOMAIN SplitSigs(id) |-> SplitSigs(id)[i][1]]
  <2>1. split = [i \in 1 .. Len(split) |-> split[i]]
    BY <1>3
  <2> QED BY <1>5, <1>8, <2>1
<1>12. answer' = [answer EXCEPT ![report.id] = SplitSigs(id)]
  BY <1>4, <1>5, <1>8
<1>13. Fits(id)
  BY <1>7, <1>8 DEF Fits
<1> HIDE DEF wallets
<1> QED BY <1>4, <1>5, <1>6, <1>10, <1>11, <1>12, <1>13 DEF Settling, report, split

(* What a block does with a claim of ours: it pays, or it changes nothing.  *)
LEMMA MineClaimIs ==
    ASSUME Base, MineClaim
    PROVE  LET tx == Head(mempool)
           IN  /\ tx \in ClaimTxs /\ mempool # <<>>
               /\ \/ Paying(tx.denom, tx.wallet) /\ held' = [held EXCEPT ![tx.wallet] = @ + tx.denom]
                  \/ ~ Payable(tx.denom, tx.wallet) /\ QuietStep /\ now' = now /\ held' = held
<1> DEFINE tx == Head(mempool)
<1>1. mempool # <<>> /\ tx \in ClaimTxs
  BY HeadTyped DEF MineClaim, Mines, Base
<1>2. /\ \/ Pays(Deployer, tx.denom, tx.wallet)
         \/ ~ Payable(tx.denom, tx.wallet) /\ UNCHANGED <<contract, held>>
      /\ UNCHANGED <<brought, answer, ours>>
  BY DEF MineClaim, Mines
<1>3. Deployer \in Accounts /\ tx.wallet \in Accounts
  BY <1>1 DEF Accounts, ClaimTxs
<1> HIDE DEF tx
<1> QED BY <1>1, <1>2, <1>3 DEF Paying, Pays, QuietStep, contract, tx

(* What a claim of the relayer does.                                        *)
LEMMA RelayerClaimsIs ==
    ASSUME Base, NEW sig \in shown, RelayerClaims(sig), sig[2] \in Accounts
    PROVE  Paying(sig[1], sig[2]) /\ held' = [held EXCEPT ![sig[2]] = @ + sig[1]]
BY DEF RelayerClaims, Paying, Pays, Accounts, client

(* Every other step is of the client, a transfer or a block. *)
ClientStep ==
    \/ DeployResets \/ DeploySaves \/ Stop
    \/ \E net \in Nets : DepositSends(net)
    \/ DepositSaves \/ MintSaves
    \/ \E id \in Ids : \/ MintSends(id) \/ Sync(id)
                       \/ Begin("claim", id) \/ Begin("relay", id)
                       \/ Spend(id) \/ SweepBegins(id)
    \/ ClaimSends \/ ClaimMined \/ RelaySends \/ RelayAnswers
    \/ SweepSends \/ SweepSkips \/ WireMined

(* No step of the client writes to the contract: its transactions wait in   *)
(* the mempool.                                                             *)
LEMMA ClientQuiet ==
    ASSUME ClientStep
    PROVE  UNCHANGED <<st, stack, now, brought, answer, ours, held>>
<1>1. CASE DeployResets \/ DeploySaves \/ Stop
  BY <1>1 DEF DeployResets, DeploySaves, Stop, chain, deposits, contract
<1>2. ASSUME NEW net \in Nets, DepositSends(net)
      PROVE  UNCHANGED <<st, stack, now, brought, answer, ours, held>>
  BY <1>2 DEF DepositSends, deposits, contract
<1>3. CASE DepositSaves \/ MintSaves
  BY <1>3 DEF DepositSaves, MintSaves, chain, deposits, contract
<1>4. ASSUME NEW id \in Ids, MintSends(id) \/ Sync(id)
      PROVE  UNCHANGED <<st, stack, now, brought, answer, ours, held>>
  BY <1>4 DEF MintSends, Sync, chain, deposits, contract
<1>5. ASSUME NEW id \in Ids, Begin("claim", id) \/ Begin("relay", id)
      PROVE  UNCHANGED <<st, stack, now, brought, answer, ours, held>>
  BY <1>5 DEF Begin, chain, deposits, contract
<1>6. ASSUME NEW id \in Ids, Spend(id) \/ SweepBegins(id)
      PROVE  UNCHANGED <<st, stack, now, brought, answer, ours, held>>
  BY <1>6 DEF Spend, SweepBegins, Wire, chain, deposits, contract
<1>7. CASE ClaimSends \/ ClaimMined \/ RelaySends \/ RelayAnswers
  BY <1>7 DEF ClaimSends, ClaimMined, RelaySends, RelayAnswers, chain, deposits, contract
<1>8. CASE SweepSends \/ SweepSkips \/ WireMined
  BY <1>8 DEF SweepSends, SweepSkips, WireMined, Wire, chain, deposits, contract
<1> QED BY <1>1, <1>2, <1>3, <1>4, <1>5, <1>6, <1>7, <1>8 DEF ClientStep

(* The steps, by what they do to the contract. *)
LEMMA StepKinds ==
    ASSUME [Next]_vars
    PROVE  \/ ClientStep \/ UNCHANGED vars
           \/ MineDeposit \/ MineAnnounce \/ MineClaim
           \/ \E value \in OtherValues : OtherDeposits(value)
           \/ \E id \in Ids : WorkflowAnnounces(id)
           \/ \E sig \in shown : RelayerClaims(sig)
           \/ \E x \in wires, cost \in 0 .. Fee : WireLands(x, cost)
           \/ Block
BY DEF Next, ClientStep

(* Transfers and the clock leave the contract alone.                        *)
LEMMA WireQuiet ==
    ASSUME NEW x \in wires, NEW cost \in 0 .. Fee, WireLands(x, cost)
    PROVE  QuietStep /\ UNCHANGED <<now, mempool, shown, client>>
BY DEF WireLands, QuietStep, deposits, contract, client

LEMMA BlockQuiet ==
    ASSUME Block
    PROVE  QuietStep /\ now' = now + 1 /\ UNCHANGED <<mempool, wires, held, shown, client>>
BY DEF Block, Mint!Tick, QuietStep, client

(* What a step never takes back. *)
Evolves ==
    /\ Opened \subseteq Opened' /\ ours' = ours
    /\ \A id \in Opened :
         /\ brought'[id] = brought[id]
         /\ st'.deposits[id].amount = st.deposits[id].amount
         /\ BlockOf(id)' = BlockOf(id)
         /\ st.deposits[id].status = "Announced" =>
              st'.deposits[id].status = "Announced" /\ answer'[id] = answer[id]
    /\ \A a \in Accounts : st.claimed[a] => st'.claimed[a]

(* Every step keeps the contract typed and its ledger in order, and lets it *)
(* only evolve.                                                             *)
LEMMA ContractKept ==
    ASSUME Base, [Next]_vars
    PROVE  ContractTyped' /\ Ledger' /\ Evolves
<1>0. ContractTyped /\ Ledger
  BY DEF Base
<1>a. Opened \subseteq Ids
  BY <1>0, LedgerNumbers
<1>1. ASSUME QuietStep PROVE ContractTyped' /\ Ledger' /\ Evolves
  <2>1. ContractTyped' /\ Ledger'
    BY <1>0, <1>1, QuietLedger DEF QuietStep
  <2> QED BY <1>1, <2>1 DEF QuietStep, Evolves, Opened, BlockOf
<1>2. ASSUME NEW sender, NEW value, NEW wallets, NEW net, Opening(sender, value, wallets, net)
      PROVE  ContractTyped' /\ Ledger' /\ Evolves
  <2>1. /\ ContractTyped' /\ Ledger' /\ Opened' = Opened \cup {st.nextId}
        /\ \A id \in Opened : st'.deposits[id] = st.deposits[id] /\ brought'[id] = brought[id]
        /\ \A id \in Opened : BlockOf(id)' = BlockOf(id)
        /\ st'.claimed = st.claimed
    BY <1>0, <1>2, OpenedLedger DEF Opening
  <2>2. answer' = answer /\ ours' = ours
    BY <1>2 DEF Opening
  <2> QED BY <2>1, <2>2 DEF Evolves
<1>3. ASSUME NEW report, NEW sigs, Settling(report, sigs)
      PROVE  ContractTyped' /\ Ledger' /\ Evolves
  <2>1. /\ ContractTyped' /\ Ledger' /\ Opened' = Opened
        /\ \A id \in Ids : /\ st'.deposits[id].amount = st.deposits[id].amount
                           /\ BlockOf(id)' = BlockOf(id)
        /\ \A id \in Ids : id # report.id =>
             answer'[id] = answer[id] /\ st'.deposits[id] = st.deposits[id]
        /\ UNCHANGED <<brought, ours>>
    BY <1>0, <1>3, SettledLedger DEF Settling
  <2>2. st.deposits[report.id].status = "Pending" /\ st'.claimed = st.claimed
    BY <1>3 DEF Settling, Settles
  <2> QED BY <1>a, <2>1, <2>2 DEF Evolves
<1>4. ASSUME NEW denom, NEW wallet, Paying(denom, wallet)
      PROVE  ContractTyped' /\ Ledger' /\ Evolves
  <2>1. PICK sender \in Accounts : Mint!Claim(sender, denom, wallet)
    BY <1>4 DEF Paying
  <2>2. /\ ContractTyped' /\ Ledger' /\ st'.deposits = st.deposits /\ st'.nextId = st.nextId
        /\ UNCHANGED <<brought, answer, ours>>
    BY <1>0, <1>4, <2>1, PaidLedger DEF Paying
  <2>3. st'.claimed = [st.claimed EXCEPT ![wallet] = TRUE]
    BY <1>0, <1>4, <2>1, ClaimEffect DEF Paying, ContractTyped
  <2>4. \A a \in Accounts : st.claimed[a] => st'.claimed[a]
    BY <1>0, <2>3 DEF ContractTyped, StorageTyped
  <2> QED BY <2>2, <2>4 DEF Evolves, Opened, BlockOf
<1>5. CASE ClientStep \/ UNCHANGED vars
  <2>1. QuietStep
    BY <1>5, ClientQuiet DEF QuietStep, vars, chain, client, deposits, contract
  <2> QED BY <1>1, <2>1
<1>6. CASE MineDeposit
  BY <1>2, <1>6, MineDepositIs
<1>7. CASE MineAnnounce
  BY <1>1, <1>3, <1>7, MineAnnounceIs
<1>8. CASE MineClaim
  BY <1>1, <1>4, <1>8, MineClaimIs
<1>9. ASSUME NEW value \in OtherValues, OtherDeposits(value) PROVE ContractTyped' /\ Ledger' /\ Evolves
  BY <1>2, <1>9, OtherDepositsIs
<1>10. ASSUME NEW id \in Ids, WorkflowAnnounces(id) PROVE ContractTyped' /\ Ledger' /\ Evolves
  BY <1>3, <1>10, WorkflowAnnouncesIs
<1>11. ASSUME NEW sig \in shown, RelayerClaims(sig) PROVE ContractTyped' /\ Ledger' /\ Evolves
  <2>1. sig[2] \in Accounts
    BY DEF Base, ShownTyped
  <2> QED BY <1>4, <1>11, <2>1, RelayerClaimsIs
<1>12. ASSUME NEW x \in wires, NEW cost \in 0 .. Fee, WireLands(x, cost)
       PROVE  ContractTyped' /\ Ledger' /\ Evolves
  BY <1>1, <1>12, WireQuiet
<1>13. CASE Block
  BY <1>1, <1>13, BlockQuiet
<1> QED BY <1>5, <1>6, <1>7, <1>8, <1>9, <1>10, <1>11, <1>12, <1>13, StepKinds

-----------------------------------------------------------------------------
(* The file. *)

LEMMA FindIs ==
    ASSUME NEW id
    PROVE  /\ findDeposit(id) = FirstWith(file.deposits, id)
           /\ findDeposit(id)' = FirstWith(file'.deposits, id)
BY DEF findDeposit, FirstWith, SelectInSeq

(* findDeposit gives the first record of the id, or none.                   *)
LEMMA FirstWithIs ==
    ASSUME NEW ds \in Seq(RecordSet), NEW id
    PROVE  /\ FirstWith(ds, id) \in 0 .. Len(ds)
           /\ FirstWith(ds, id) # 0 =>
                FirstWith(ds, id) \in DOMAIN ds /\ ds[FirstWith(ds, id)].id = id
<1> DEFINE found == {i \in 1 .. Len(ds) : ds[i].id = id}
<1>1. CASE found = {}
  <2>1. FirstWith(ds, id) = 0 /\ Len(ds) \in Nat
    BY <1>1 DEF FirstWith
  <2> QED BY <2>1
<1>2. CASE found # {}
  <2>1. found \in SUBSET Nat
    OBVIOUS
  <2>2. \E i \in found : \A j \in found : i <= j
    <3> HIDE DEF found
    <3> QED BY <1>2, <2>1, LeastNatural
  <2>3. Min(found) \in found
    <3> HIDE DEF found
    <3> QED BY <2>2 DEF Min
  <2>4. FirstWith(ds, id) = Min(found)
    BY <1>2 DEF FirstWith
  <2>5. DOMAIN ds = 1 .. Len(ds) /\ Len(ds) \in Nat
    OBVIOUS
  <2> QED BY <2>3, <2>4, <2>5
<1> QED BY <1>1, <1>2

(* A write of notes finds the same records.                                 *)
LEMMA FirstWithSame ==
    ASSUME NEW ds \in Seq(RecordSet), NEW es \in Seq(RecordSet), NEW id, Len(es) = Len(ds),
           \A i \in DOMAIN ds : es[i].id = ds[i].id
    PROVE  FirstWith(es, id) = FirstWith(ds, id)
<1>1. {i \in 1 .. Len(ds) : ds[i].id = id} = {i \in 1 .. Len(es) : es[i].id = id}
  OBVIOUS
<1> QED BY <1>1 DEF FirstWith

(* The record that a command finds. *)
LEMMA Found ==
    ASSUME FileTyped, NEW id, findDeposit(id) # 0
    PROVE  /\ findDeposit(id) \in DOMAIN file.deposits
           /\ file.deposits[findDeposit(id)] \in RecordSet
           /\ file.deposits[findDeposit(id)].id = id
           /\ id \in Ids /\ Notes(id) \in Seq(NoteSet)
<1>1. file.deposits \in Seq(RecordSet)
  BY DEF FileTyped
<1>2. findDeposit(id) \in DOMAIN file.deposits /\ file.deposits[findDeposit(id)].id = id
  BY <1>1, FindIs, FirstWithIs
<1>3. file.deposits[findDeposit(id)] \in RecordSet
  BY <1>1, <1>2
<1> QED BY <1>2, <1>3 DEF RecordSet, Notes

(* Saving notes of the same wallets changes the notes of one record. *)
LEMMA SavedEffect ==
    ASSUME FileTyped, NEW id, findDeposit(id) # 0, NEW notes \in Seq(NoteSet),
           WalletsOf(notes) = WalletsOf(Notes(id)), file' = Saved(id, notes)
    PROVE  /\ FileTyped'
           /\ DOMAIN file'.deposits = DOMAIN file.deposits
           /\ \A k \in DOMAIN file.deposits :
                /\ file'.deposits[k].id = file.deposits[k].id
                /\ file'.deposits[k].amount = file.deposits[k].amount
                /\ WalletsOf(file'.deposits[k].notes) = WalletsOf(file.deposits[k].notes)
                /\ k # findDeposit(id) => file'.deposits[k].notes = file.deposits[k].notes
           /\ file'.deposits[findDeposit(id)].notes = notes
<1> DEFINE k0 == findDeposit(id)
           old == file.deposits[k0]
           new == [old EXCEPT !.notes = notes]
<1>1. /\ k0 \in DOMAIN file.deposits /\ old \in RecordSet /\ old.id = id
      /\ file.deposits \in Seq(RecordSet)
  BY Found DEF FileTyped
<1>2. file' = [file EXCEPT !.deposits = [file.deposits EXCEPT ![k0] = new]]
  BY DEF Saved
<1>3. new \in RecordSet /\ new.notes = notes /\ new.id = old.id /\ new.amount = old.amount
  <2> HIDE DEF old
  <2> QED BY <1>1 DEF RecordSet
<1>4. WalletsOf(new.notes) = WalletsOf(old.notes)
  BY <1>3 DEF Notes
<1> HIDE DEF old, new, k0
<1>5. file'.deposits = [file.deposits EXCEPT ![k0] = new] /\ file'.deployed = file.deployed
  BY <1>2 DEF FileTyped
<1>6. file'.deposits \in Seq(RecordSet)
  BY <1>1, <1>3, <1>5, ExceptSeq
<1>7. FileTyped'
  BY <1>2, <1>5, <1>6 DEF FileTyped
<1>8. /\ DOMAIN file'.deposits = DOMAIN file.deposits
      /\ file'.deposits[k0] = new
      /\ \A k \in DOMAIN file.deposits : k # k0 => file'.deposits[k] = file.deposits[k]
  BY <1>1, <1>5
<1> QED BY <1>1, <1>3, <1>4, <1>7, <1>8 DEF k0, old

-----------------------------------------------------------------------------
(* The client, one lemma per command. *)

LEMMA WalletsOfSeq ==
    ASSUME NEW notes \in Seq(NoteSet)
    PROVE  /\ WalletsOf(notes) \in Seq(Wallets) /\ Len(WalletsOf(notes)) = Len(notes)
           /\ DOMAIN WalletsOf(notes) = DOMAIN notes
           /\ \A i \in DOMAIN notes : WalletsOf(notes)[i] = notes[i].wallet
<1>1. /\ Len(notes) \in Nat /\ DOMAIN notes = 1 .. Len(notes)
      /\ \A i \in DOMAIN notes : notes[i] \in NoteSet
  OBVIOUS
<1>2. \A i \in DOMAIN notes : notes[i].wallet \in Wallets
  BY <1>1 DEF NoteSet
<1>3. WalletsOf(notes) = [i \in 1 .. Len(notes) |-> notes[i].wallet]
  BY <1>1 DEF WalletsOf
<1>4. WalletsOf(notes) \in [1 .. Len(notes) -> Wallets]
  BY <1>1, <1>2, <1>3
<1>5. WalletsOf(notes) \in Seq(Wallets) /\ Len(WalletsOf(notes)) = Len(notes)
  BY <1>1, <1>4, FunctionSeq
<1> QED BY <1>1, <1>3, <1>5

LEMMA IdleTyped == Idle \in RunSet
<1>1. <<>> \in Seq(NoteSet)
  BY EmptySeq
<1> QED BY <1>1 DEF Idle, RunSet

(* What holds of the client and of its transactions.                        *)
ClientBase ==
    /\ MempoolTyped /\ Sent
    /\ ShownTyped /\ FileTyped /\ RunTyped
    /\ DepositAwaited /\ MintAwaited /\ ClaimAwaited

(* A transaction is the last one of the mempool.                            *)
LEMMA Transmitted ==
    ASSUME MempoolTyped, Sent, NEW tx \in Txs, Transmit(tx),
           tx.kind = "deposit" => tx.value = grossFor(tx.net),
           tx.kind = "announce" =>
                 /\ ours /\ tx.report.id \in Opened
                 /\ tx.report.denoms = [i \in DOMAIN tx.sigs |-> tx.sigs[i][1]]
                 /\ Len(tx.report.denoms) = Len(tx.sigs),
           UNCHANGED <<st, ours>>
    PROVE  /\ MempoolTyped' /\ Sent'
           /\ mempool' # <<>> /\ mempool'[Len(mempool')] = tx
<1>1. /\ mempool' = Append(mempool, tx) /\ mempool \in Seq(Txs)
  BY DEF Transmit, MempoolTyped
<1>2. /\ mempool' \in Seq(Txs) /\ Len(mempool') = Len(mempool) + 1 /\ Len(mempool) \in Nat
      /\ mempool'[Len(mempool) + 1] = tx
      /\ \A k \in 1 .. Len(mempool) : mempool'[k] = mempool[k]
      /\ DOMAIN mempool = 1 .. Len(mempool) /\ DOMAIN mempool' = 1 .. Len(mempool) + 1
  BY <1>1, AppendProperties
<1>3. Opened' = Opened /\ ours' = ours
  BY DEF Opened
<1>4. Sent'
  <2> SUFFICES ASSUME NEW k \in DOMAIN mempool'
               PROVE  /\ mempool'[k].kind = "deposit" => mempool'[k].value = grossFor(mempool'[k].net)
                      /\ mempool'[k].kind = "announce" =>
                           /\ ours' /\ mempool'[k].report.id \in Opened'
                           /\ mempool'[k].report.denoms =
                                [i \in DOMAIN mempool'[k].sigs |-> mempool'[k].sigs[i][1]]
                           /\ Len(mempool'[k].report.denoms) = Len(mempool'[k].sigs)
    BY DEF Sent
  <2>1. CASE k = Len(mempool) + 1
    BY <1>2, <1>3, <2>1
  <2>2. CASE k \in 1 .. Len(mempool)
    BY <1>2, <1>3, <2>2 DEF Sent
  <2> QED BY <1>2, <2>1, <2>2
<1> QED BY <1>2, <1>4 DEF MempoolTyped

LEMMA SentSame ==
    ASSUME MempoolTyped, Sent, UNCHANGED <<mempool, st, ours>>
    PROVE  MempoolTyped' /\ Sent'
BY DEF MempoolTyped, Sent, Opened

(* A command that is over awaits nothing. *)
LEMMA IdleAwaits ==
    ASSUME run' \in RunSet, run'.cmd \notin {"deposit", "mint", "claim", "relay"},
           run'.cmd \in {"spend", "sweep"} => run'.next \in DOMAIN run'.notes
    PROVE  RunTyped' /\ DepositAwaited' /\ MintAwaited' /\ ClaimAwaited'
BY DEF RunTyped, DepositAwaited, MintAwaited, ClaimAwaited, Running

LEMMA DeployBase ==
    ASSUME Base, DeployResets \/ DeploySaves \/ Stop
    PROVE  ClientBase'
<1>1. /\ run' \in RunSet /\ run'.cmd \in {"none", "deploy"}
  BY IdleTyped DEF DeployResets, DeploySaves, Stop, Idle, RunSet
<1>2. FileTyped'
  <2>1. <<>> \in Seq(RecordSet)
    BY EmptySeq
  <2>2. \/ file' = [deployed |-> FALSE, deposits |-> <<>>]
        \/ file' = [file EXCEPT !.deployed = TRUE]
        \/ file' = file
    BY DEF DeployResets, DeploySaves, Stop
  <2>3. file \in [deployed : BOOLEAN, deposits : Seq(RecordSet)]
    BY DEF FileTyped, Base
  <2>4. CASE file' = [deployed |-> FALSE, deposits |-> <<>>]
    BY <2>1, <2>4 DEF FileTyped
  <2>5. CASE file' = [file EXCEPT !.deployed = TRUE]
    BY <2>3, <2>5 DEF FileTyped
  <2>6. CASE file' = file
    BY <2>3, <2>6 DEF FileTyped
  <2> QED BY <2>2, <2>4, <2>5, <2>6
<1>3. UNCHANGED <<mempool, st, ours, shown, tries>>
  BY DEF DeployResets, DeploySaves, Stop, chain, deposits, contract
<1> QED BY <1>1, <1>2, <1>3, SentSame, IdleAwaits DEF ClientBase, Base, ShownTyped

LEMMA DepositSendsBase ==
    ASSUME Base, NEW net \in Nets, DepositSends(net)
    PROVE  ClientBase'
<1> DEFINE value == grossFor(net)
           n == pointCount(value)
           notes == [i \in 1 .. n |-> Note(<<tries + 1, i>>)]
           tx == [kind |-> "deposit", value |-> value, net |-> net, wallets |-> WalletsOf(notes)]
<1>1. /\ tries \in Nat /\ tries < MaxTries /\ tries' = tries + 1 /\ Transmit(tx)
      /\ run' = [Idle EXCEPT !.cmd = "deposit", !.at = "receipt", !.notes = notes,
                             !.amount = contractMintable(value)]
      /\ UNCHANGED <<st, shown, ours, file>>
  <2>1. clientMintable(value) = contractMintable(value)
    BY DEF clientMintable, contractMintable
  <2> QED BY <2>1 DEF DepositSends, Base, ShownTyped, deposits, contract
<1>2. net \in Nat /\ value \in Nat /\ n \in Nat /\ n <= MaxNotes /\ MaxTries \in Nat /\ MaxNotes \in Nat
  <2>1. net \in Nat /\ MaxTries \in Nat /\ MaxNotes \in Nat
    BY CliAssumption
  <2>2. value \in Nat
    BY <2>1, Smallest DEF grossFor
  <2> QED BY <2>1, <2>2, PointCountNat, CliAssumption
<1>3. contractMintable(value) \in Nat
  BY <1>2, MintableNat
<1> HIDE DEF n, value
<1>4. notes \in Seq(NoteSet)
  <2>1. ASSUME NEW i \in 1 .. n PROVE Note(<<tries + 1, i>>) \in NoteSet
    <3>1. <<tries + 1, i>> \in Wallets
      BY <1>1, <1>2 DEF Wallets
    <3>2. Nothing \in Nat \X Accounts
      BY DEF Nothing, Accounts
    <3> QED BY <3>1, <3>2 DEF Note, NoteSet
  <2>2. notes \in [1 .. n -> NoteSet]
    BY <2>1
  <2> QED BY <1>2, <2>2, FunctionSeq
<1> HIDE DEF notes
<1>5. tx \in Txs /\ tx.kind = "deposit" /\ tx.value = grossFor(tx.net)
      /\ tx.wallets = WalletsOf(notes) /\ tx.value = value
  BY <1>2, <1>4, WalletsOfSeq DEF Txs, DepositTxs, value
<1> HIDE DEF tx
<1>6. /\ MempoolTyped' /\ Sent' /\ mempool' # <<>> /\ mempool'[Len(mempool')] = tx
  BY <1>1, <1>5, Transmitted DEF Base
<1>7. /\ run' \in RunSet /\ run'.cmd = "deposit" /\ run'.at = "receipt" /\ run'.notes = notes
      /\ run'.block = 0 /\ run'.amount = contractMintable(value)
  BY <1>1, <1>3, <1>4, IdleTyped DEF RunSet, Idle
<1>8. RunTyped' /\ DepositAwaited' /\ MintAwaited' /\ ClaimAwaited'
  BY <1>5, <1>6, <1>7 DEF RunTyped, DepositAwaited, MintAwaited, ClaimAwaited, Running
<1>9. FileTyped' /\ ShownTyped'
  BY <1>1 DEF Base, FileTyped, ShownTyped
<1> QED BY <1>6, <1>8, <1>9 DEF ClientBase

(* The receipt of a deposit: the first deposit of its block, whoever's.     *)
FirstOfBlock(block) ==
    CHOOSE i \in {id \in Ids : InBlock(id, block)} :
        \A j \in {id \in Ids : InBlock(id, block)} : i <= j

(* A block that holds a deposit has a first one.                            *)
LEMMA FirstLog ==
    ASSUME Base, NEW block, NEW id \in Opened, BlockOf(id) = block
    PROVE  /\ FirstOfBlock(block) \in Opened /\ FirstOfBlock(block) \in Ids
           /\ BlockOf(FirstOfBlock(block)) = block
<1> DEFINE logs == {i \in Ids : InBlock(i, block)}
<1>1. Opened \subseteq Ids /\ Ids \subseteq Nat
  BY LedgerNumbers DEF Base, Ids
<1>2. id \in logs
  BY <1>1 DEF Base, Ledger, InBlock
<1>3. \E i \in logs : \A j \in logs : i <= j
  <2>1. logs \in SUBSET Nat /\ logs # {}
    BY <1>1, <1>2
  <2> HIDE DEF logs
  <2> QED BY <2>1, LeastNatural
<1>4. FirstOfBlock(block) \in logs
  <2>1. FirstOfBlock(block) = CHOOSE i \in logs : \A j \in logs : i <= j
    BY DEF FirstOfBlock
  <2> HIDE DEF logs
  <2> QED BY <1>3, <2>1
<1>5. FirstOfBlock(block) \in Ids /\ InBlock(FirstOfBlock(block), block)
  BY <1>4
<1> QED BY <1>5 DEF Base, Ledger, InBlock

(* The record that deposit writes. *)
LEMMA DepositSavesIs ==
    ASSUME Base, DepositSaves
    PROVE  LET rec == [id |-> FirstOfBlock(run.block - 1), amount |-> run.amount,
                       notes |-> run.notes]
           IN  /\ rec \in RecordSet /\ rec.id \in Opened /\ BlockOf(rec.id) = run.block - 1
               /\ file' = [file EXCEPT !.deposits = Append(file.deposits, rec)]
               /\ file'.deposits = Append(file.deposits, rec)
               /\ \E id \in Opened :
                    /\ BlockOf(id) = run.block - 1
                    /\ brought[id].wallets = WalletsOf(run.notes)
                    /\ contractMintable(st.deposits[id].amount) = run.amount
<1> DEFINE rec == [id |-> FirstOfBlock(run.block - 1), amount |-> run.amount, notes |-> run.notes]
<1>1. /\ Running("deposit", "receipt") /\ run.block > 0
      /\ file' = [file EXCEPT !.deposits = Append(file.deposits, rec)]
  BY DEF DepositSaves, FirstOfBlock
<1>2. run.block # 0
  <2>1. run.block \in Nat
    <3>1. run \in RunSet
      BY DEF Base, RunTyped
    <3> QED BY <3>1 DEF RunSet
  <2> QED BY <1>1, <2>1
<1>3. PICK id \in Opened :
                    /\ BlockOf(id) = run.block - 1
                    /\ brought[id].wallets = WalletsOf(run.notes)
                    /\ contractMintable(st.deposits[id].amount) = run.amount
  BY <1>1, <1>2 DEF Base, DepositAwaited
<1>4. /\ FirstOfBlock(run.block - 1) \in Opened /\ FirstOfBlock(run.block - 1) \in Ids
      /\ BlockOf(FirstOfBlock(run.block - 1)) = run.block - 1
  BY <1>3, FirstLog
<1>5. run.amount \in Nat /\ run.notes \in Seq(NoteSet)
  BY DEF Base, RunTyped, RunSet
<1>6. rec \in RecordSet /\ rec.id = FirstOfBlock(run.block - 1)
  BY <1>4, <1>5 DEF RecordSet
<1> HIDE DEF rec
<1>7. file'.deposits = Append(file.deposits, rec)
  BY <1>1 DEF Base, FileTyped
<1> QED BY <1>1, <1>3, <1>4, <1>6, <1>7 DEF rec

LEMMA DepositSavesBase ==
    ASSUME Base, DepositSaves
    PROVE  ClientBase'
<1>1. PICK rec \in RecordSet : file' = [file EXCEPT !.deposits = Append(file.deposits, rec)]
  BY DepositSavesIs
<1>2. FileTyped'
  <2>1. Append(file.deposits, rec) \in Seq(RecordSet)
    BY DEF Base, FileTyped
  <2> QED BY <1>1, <2>1 DEF Base, FileTyped
<1>3. /\ run' \in RunSet /\ run'.cmd = "none" /\ UNCHANGED <<mempool, st, ours, shown, tries>>
  BY IdleTyped DEF DepositSaves, Idle, chain, deposits, contract
<1> QED BY <1>2, <1>3, SentSame, IdleAwaits DEF ClientBase, Base, ShownTyped

(* The notes that mint signs, over the first points of the deposit. *)
SignedNotes(split, notes) ==
    [i \in DOMAIN notes |->
        IF i \notin DOMAIN split THEN notes[i]
        ELSE [notes[i] EXCEPT !.denom = split[i], !.status = "ready",
                              !.sig = <<split[i], notes[i].wallet>>]]

(* The notes that mint writes keep their wallets.                           *)
LEMMA SignedNotesTyped ==
    ASSUME NEW split \in Seq(Denoms), NEW notes \in Seq(NoteSet), Len(split) <= Len(notes)
    PROVE  LET signed == SignedNotes(split, notes)
               sigs == [i \in DOMAIN split |-> signed[i].sig]
           IN  /\ signed \in Seq(NoteSet) /\ WalletsOf(signed) = WalletsOf(notes)
               /\ DOMAIN signed = DOMAIN notes
               /\ sigs \in Seq(Denoms \X Wallets) /\ Len(sigs) = Len(split)
               /\ DOMAIN split \subseteq DOMAIN notes
               /\ sigs = [i \in DOMAIN split |-> <<split[i], notes[i].wallet>>]
               /\ split = [i \in DOMAIN sigs |-> sigs[i][1]]
               /\ \A i \in DOMAIN notes : i \notin DOMAIN split => signed[i] = notes[i]
               /\ \A i \in DOMAIN split :
                    /\ signed[i].status = "ready" /\ signed[i].denom = split[i]
                    /\ signed[i].wallet = notes[i].wallet
                    /\ signed[i].sig = <<split[i], notes[i].wallet>>
<1> DEFINE signed == SignedNotes(split, notes)
           sigs == [i \in DOMAIN split |-> signed[i].sig]
<1>1. /\ Len(notes) \in Nat /\ DOMAIN notes = 1 .. Len(notes)
      /\ Len(split) \in Nat /\ DOMAIN split = 1 .. Len(split)
      /\ \A i \in DOMAIN notes : notes[i] \in NoteSet
      /\ \A i \in DOMAIN split : split[i] \in Denoms
      /\ DOMAIN split \subseteq DOMAIN notes
  OBVIOUS
<1>2. \A i \in DOMAIN notes : i \notin DOMAIN split => signed[i] = notes[i]
  BY DEF SignedNotes
<1>3. ASSUME NEW i \in DOMAIN split
      PROVE  /\ signed[i].status = "ready" /\ signed[i].denom = split[i]
             /\ signed[i].wallet = notes[i].wallet
             /\ signed[i].sig = <<split[i], notes[i].wallet>>
             /\ signed[i] \in NoteSet
  <2>1. signed[i] = [notes[i] EXCEPT !.denom = split[i], !.status = "ready",
                                     !.sig = <<split[i], notes[i].wallet>>]
    BY <1>1 DEF SignedNotes
  <2>2. notes[i] \in NoteSet /\ split[i] \in Nat /\ notes[i].wallet \in Wallets
    BY <1>1, Smallest DEF NoteSet
  <2>3. <<split[i], notes[i].wallet>> \in Nat \X Accounts
    BY <2>2 DEF Accounts
  <2> HIDE DEF signed
  <2> QED BY <2>1, <2>2, <2>3 DEF NoteSet
<1>4. DOMAIN signed = DOMAIN notes
  BY DEF SignedNotes
<1>4a. signed = [i \in 1 .. Len(notes) |-> signed[i]]
  BY <1>1 DEF SignedNotes
<1> HIDE DEF signed
<1>5. signed \in Seq(NoteSet)
  <2>1. signed \in [1 .. Len(notes) -> NoteSet]
    <3>1. \A i \in 1 .. Len(notes) : signed[i] \in NoteSet
      BY <1>1, <1>2, <1>3
    <3> QED BY <1>4a, <3>1
  <2> QED BY <1>1, <2>1, FunctionSeq
<1>6. WalletsOf(signed) = WalletsOf(notes)
  <2>1. \A i \in DOMAIN notes : signed[i].wallet = notes[i].wallet
    BY <1>2, <1>3
  <2> QED BY <1>4, <2>1 DEF WalletsOf
<1>7. sigs = [i \in DOMAIN split |-> <<split[i], notes[i].wallet>>]
  BY <1>3
<1>8. sigs \in [1 .. Len(split) -> Denoms \X Wallets]
  <2>1. \A i \in DOMAIN split : split[i] \in Denoms /\ notes[i].wallet \in Wallets
    <3> SUFFICES ASSUME NEW i \in DOMAIN split
                 PROVE  split[i] \in Denoms /\ notes[i].wallet \in Wallets
      OBVIOUS
    <3>1. notes[i] \in NoteSet
      BY <1>1
    <3> QED BY <1>1, <3>1 DEF NoteSet
  <2>2. \A i \in DOMAIN split : <<split[i], notes[i].wallet>> \in Denoms \X Wallets
    BY <2>1
  <2> HIDE DEF sigs
  <2>3. sigs \in [DOMAIN split -> Denoms \X Wallets]
    BY <1>7, <2>2
  <2> QED BY <1>1, <2>3
<1>9. sigs \in Seq(Denoms \X Wallets) /\ Len(sigs) = Len(split)
  BY <1>1, <1>8, FunctionSeq
<1>10. split = [i \in DOMAIN sigs |-> sigs[i][1]]
  <2>1. split = [i \in DOMAIN split |-> split[i]]
    OBVIOUS
  <2>2. DOMAIN sigs = DOMAIN split /\ \A i \in DOMAIN split : sigs[i][1] = split[i]
    BY <1>7
  <2> HIDE DEF sigs
  <2>3. [i \in DOMAIN sigs |-> sigs[i][1]] = [i \in DOMAIN split |-> split[i]]
    BY <2>2
  <2> QED BY <2>1, <2>3
<1> QED BY <1>1, <1>2, <1>3, <1>4, <1>5, <1>6, <1>7, <1>9, <1>10 DEF signed

(* The same, for a name of the signed notes. *)
LEMMA SignedNotesAre ==
    ASSUME NEW split \in Seq(Denoms), NEW notes \in Seq(NoteSet), Len(split) <= Len(notes),
           NEW signed, signed = SignedNotes(split, notes)
    PROVE  /\ DOMAIN signed = DOMAIN notes
           /\ \A i \in DOMAIN notes : i \notin DOMAIN split => signed[i] = notes[i]
           /\ \A i \in DOMAIN split :
                /\ signed[i].status = "ready" /\ signed[i].denom = split[i]
                /\ signed[i].wallet = notes[i].wallet
                /\ signed[i].sig = <<split[i], notes[i].wallet>>
<1>1. DOMAIN signed = DOMAIN notes /\ DOMAIN split \subseteq DOMAIN notes
  <2>1. DOMAIN split \subseteq DOMAIN notes
    OBVIOUS
  <2> QED BY <2>1 DEF SignedNotes
<1>2. \A i \in DOMAIN notes : i \notin DOMAIN split => signed[i] = notes[i]
  BY DEF SignedNotes
<1>3. ASSUME NEW i \in DOMAIN split
      PROVE  /\ signed[i].status = "ready" /\ signed[i].denom = split[i]
             /\ signed[i].wallet = notes[i].wallet
             /\ signed[i].sig = <<split[i], notes[i].wallet>>
  <2>1. signed[i] = [notes[i] EXCEPT !.denom = split[i], !.status = "ready",
                                     !.sig = <<split[i], notes[i].wallet>>]
    BY <1>1 DEF SignedNotes
  <2>2. notes[i] \in NoteSet
    BY <1>1
  <2> QED BY <2>1, <2>2 DEF NoteSet
<1> QED BY <1>1, <1>2, <1>3

(* What mint sends and keeps in memory. *)
LEMMA MintSendsIs ==
    ASSUME Base, NEW id \in Ids, MintSends(id)
    PROVE  LET amount == file.deposits[findDeposit(id)].amount
               split == splitGreedy[amount]
               notes == Notes(id)
               signed == SignedNotes(split, notes)
               tx == [kind |-> "announce", report |-> Report(id, split),
                      sigs |-> [i \in DOMAIN split |-> signed[i].sig]]
           IN  /\ Free /\ findDeposit(id) # 0 /\ amount \in Nat /\ notes \in Seq(NoteSet)
               /\ split \in Seq(Denoms) /\ Len(split) <= Len(notes)
               /\ ours /\ st.deposits[id].status = "Pending"
               /\ Transmit(tx) /\ tx \in AnnounceTxs
               /\ run' = [Idle EXCEPT !.cmd = "mint", !.id = id, !.at = "receipt",
                                      !.notes = signed]
               /\ UNCHANGED <<deposits, shown, ours, file, tries>>
<1> DEFINE amount == file.deposits[findDeposit(id)].amount
           split == splitGreedy[amount]
           notes == Notes(id)
           signed == SignedNotes(split, notes)
           tx == [kind |-> "announce", report |-> Report(id, split),
                  sigs |-> [i \in DOMAIN split |-> signed[i].sig]]
<1>1. /\ Free /\ findDeposit(id) # 0 /\ Len(split) <= Len(notes)
      /\ ours /\ st.deposits[id].status = "Pending"
      /\ Transmit(tx)
      /\ run' = [Idle EXCEPT !.cmd = "mint", !.id = id, !.at = "receipt", !.notes = signed]
      /\ UNCHANGED <<deposits, shown, ours, file, tries>>
  BY DEF MintSends, SignedNotes
<1>2. amount \in Nat /\ notes \in Seq(NoteSet)
  BY <1>1, Found DEF Base, RecordSet
<1>3. split \in Seq(Denoms)
  BY <1>2, SplitNotes
<1> HIDE DEF amount, split, notes
<1>4. [i \in DOMAIN split |-> signed[i].sig] \in Seq(Denoms \X Wallets)
  BY <1>1, <1>2, <1>3, SignedNotesTyped
<1>5. Report(id, split) \in [id : Ids, points : Seq(Nat), denoms : Seq(Denoms)]
  <2> DEFINE points == [i \in DOMAIN split |-> i - 1]
  <2>1. points \in [1 .. Len(split) -> Nat] /\ Len(split) \in Nat
    BY <1>3
  <2>2. points \in Seq(Nat)
    BY <2>1, FunctionSeq
  <2> HIDE DEF points
  <2> QED BY <1>3, <2>2 DEF Report, points
<1>6. tx \in AnnounceTxs
  BY <1>4, <1>5 DEF AnnounceTxs
<1> HIDE DEF signed, tx
<1> QED BY <1>1, <1>2, <1>3, <1>6 DEF amount, split, notes, signed, tx

LEMMA MintSendsBase ==
    ASSUME Base, NEW id \in Ids, MintSends(id)
    PROVE  ClientBase'
<1> DEFINE amount == file.deposits[findDeposit(id)].amount
           split == splitGreedy[amount]
           notes == Notes(id)
           signed == SignedNotes(split, notes)
           sigs == [i \in DOMAIN split |-> signed[i].sig]
           tx == [kind |-> "announce", report |-> Report(id, split), sigs |-> sigs]
<1>1. /\ findDeposit(id) # 0 /\ notes \in Seq(NoteSet)
      /\ split \in Seq(Denoms) /\ Len(split) <= Len(notes)
      /\ ours /\ st.deposits[id].status = "Pending"
      /\ Transmit(tx) /\ tx \in AnnounceTxs
      /\ run' = [Idle EXCEPT !.cmd = "mint", !.id = id, !.at = "receipt", !.notes = signed]
      /\ UNCHANGED <<deposits, shown, ours, file, tries>>
  BY MintSendsIs
<1>2. id \in Opened
  BY <1>1 DEF Base, Ledger
<1>3. file.deposits[FirstWith(file.deposits, id)].notes = notes /\ FirstWith(file.deposits, id) # 0
  BY <1>1, FindIs DEF Notes
<1> HIDE DEF split, notes
<1>4. /\ signed \in Seq(NoteSet) /\ WalletsOf(signed) = WalletsOf(notes)
      /\ split = [i \in DOMAIN sigs |-> sigs[i][1]] /\ Len(sigs) = Len(split)
  BY <1>1, SignedNotesTyped
<1> HIDE DEF signed, sigs
<1>5. /\ tx.kind = "announce" /\ tx.report.id = id /\ tx.report.denoms = split /\ tx.sigs = sigs
      /\ tx \in Txs
  BY <1>1 DEF Report, Txs
<1> HIDE DEF tx
<1>6. UNCHANGED <<st, ours>>
  BY <1>1 DEF deposits, contract
<1>7. /\ MempoolTyped' /\ Sent' /\ mempool' # <<>> /\ mempool'[Len(mempool')] = tx
  BY <1>1, <1>2, <1>4, <1>5, <1>6, Transmitted DEF Base
<1>8. /\ run' \in RunSet /\ run'.cmd = "mint" /\ run'.at = "receipt" /\ run'.notes = signed
      /\ run'.block = 0 /\ run'.id = id
  <2>1. id \in Nat
    BY DEF Ids
  <2> QED BY <1>1, <1>4, <2>1, IdleTyped DEF RunSet, Idle
<1>9. RunTyped'
  BY <1>1, <1>3, <1>4, <1>8 DEF RunTyped
<1>10. Opened' = Opened
  BY <1>6 DEF Opened
<1>11. DepositAwaited' /\ MintAwaited' /\ ClaimAwaited'
  BY <1>1, <1>2, <1>5, <1>7, <1>8, <1>10 DEF DepositAwaited, MintAwaited, ClaimAwaited, Running
<1>12. FileTyped' /\ ShownTyped'
  BY <1>1 DEF Base, FileTyped, ShownTyped
<1> QED BY <1>7, <1>9, <1>11, <1>12 DEF ClientBase

(* A command that saves, and is over. *)
LEMMA SavedBase ==
    ASSUME Base, NEW id, findDeposit(id) # 0, NEW notes \in Seq(NoteSet),
           WalletsOf(notes) = WalletsOf(Notes(id)), file' = Saved(id, notes),
           run' \in RunSet, run'.cmd = "none",
           UNCHANGED <<mempool, st, ours, shown, tries>>
    PROVE  ClientBase'
<1>1. FileTyped'
  BY SavedEffect DEF Base
<1> QED BY <1>1, SentSame, IdleAwaits DEF ClientBase, Base, ShownTyped

(* What a command has in memory. *)
LEMMA InMemory ==
    ASSUME Base, NEW id, id = run.id, run.cmd \in {"mint", "claim", "relay"}
    PROVE  /\ findDeposit(id) # 0 /\ id \in Ids
           /\ run.notes \in Seq(NoteSet)
           /\ WalletsOf(run.notes) = WalletsOf(Notes(id))
<1>1. LET k == FirstWith(file.deposits, id)
      IN  k # 0 /\ WalletsOf(run.notes) = WalletsOf(file.deposits[k].notes)
  BY DEF Base, RunTyped
<1>2. findDeposit(id) # 0 /\ WalletsOf(run.notes) = WalletsOf(Notes(id))
  BY <1>1, FindIs DEF Notes
<1>3. run \in RunSet
  BY DEF Base, RunTyped
<1> QED BY <1>2, <1>3, Found DEF Base, RunSet

LEMMA MintSavesBase ==
    ASSUME Base, MintSaves
    PROVE  ClientBase'
<1>1. PICK id : id = run.id
  OBVIOUS
<1>2. /\ run.cmd = "mint" /\ file' = Saved(id, run.notes) /\ run' = Idle
      /\ UNCHANGED <<mempool, st, ours, shown, tries>>
  BY <1>1 DEF MintSaves, Running, chain, deposits, contract
<1>3. run' \in RunSet /\ run'.cmd = "none"
  BY <1>2, IdleTyped DEF Idle
<1>4. PICK notes : notes = run.notes
  OBVIOUS
<1> QED BY <1>1, <1>2, <1>3, <1>4, InMemory, SavedBase

(* The notes after sync: the announcement, opened by the notes' factors.    *)
SyncedNotes(notes, sigs) ==
    [i \in DOMAIN notes |->
        IF i \notin DOMAIN sigs THEN notes[i]
        ELSE [notes[i] EXCEPT !.denom = sigs[i][1], !.status = "ready",
                              !.sig = unblind(sigs[i], notes[i].wallet)]]

Opens(notes, sigs) ==
    \A i \in DOMAIN sigs :
        /\ i \in DOMAIN notes
        /\ verify(sigs[i][1], notes[i].wallet, unblind(sigs[i], notes[i].wallet))

(* A signature that opens is over the wallet of the note. *)
LEMMA SyncedNotesTyped ==
    ASSUME NEW notes \in Seq(NoteSet), NEW sigs \in Seq(Denoms \X Points), Opens(notes, sigs)
    PROVE  LET synced == SyncedNotes(notes, sigs)
           IN  /\ synced \in Seq(NoteSet) /\ WalletsOf(synced) = WalletsOf(notes)
               /\ DOMAIN synced = DOMAIN notes
               /\ \A i \in DOMAIN notes : i \notin DOMAIN sigs => synced[i] = notes[i]
               /\ \A i \in DOMAIN sigs :
                    /\ synced[i].sig = sigs[i] /\ synced[i].status = "ready"
                    /\ sigs[i] = <<synced[i].denom, synced[i].wallet>>
<1> DEFINE synced == SyncedNotes(notes, sigs)
<1>1. /\ Len(notes) \in Nat /\ DOMAIN notes = 1 .. Len(notes)
      /\ \A i \in DOMAIN notes : notes[i] \in NoteSet
      /\ \A i \in DOMAIN sigs : sigs[i] \in Denoms \X Points
      /\ DOMAIN sigs \subseteq DOMAIN notes
  BY DEF Opens
<1>2. \A i \in DOMAIN notes : i \notin DOMAIN sigs => synced[i] = notes[i]
  BY DEF SyncedNotes
<1>3. ASSUME NEW i \in DOMAIN sigs
      PROVE  /\ synced[i].sig = sigs[i] /\ synced[i].status = "ready"
             /\ sigs[i] = <<synced[i].denom, synced[i].wallet>>
             /\ synced[i].wallet = notes[i].wallet
             /\ synced[i] \in NoteSet
  <2>1. synced[i] = [notes[i] EXCEPT !.denom = sigs[i][1], !.status = "ready",
                                     !.sig = unblind(sigs[i], notes[i].wallet)]
    BY <1>1 DEF SyncedNotes
  <2>2. notes[i] \in NoteSet /\ sigs[i][1] \in Nat /\ notes[i].wallet \in Wallets
    BY <1>1, Smallest DEF NoteSet
  <2>3. verify(sigs[i][1], notes[i].wallet, unblind(sigs[i], notes[i].wallet))
    BY DEF Opens
  <2>4. sigs[i] = <<sigs[i][1], sigs[i][2]>>
    BY <1>1
  <2>5. sigs[i][1] # 0
    BY <1>1, Smallest
  <2>6. unblind(sigs[i], notes[i].wallet) = sigs[i] /\ sigs[i] = <<sigs[i][1], notes[i].wallet>>
    BY <2>3, <2>4, <2>5 DEF verify, unblind, Nothing
  <2>7. <<sigs[i][1], notes[i].wallet>> \in Nat \X Accounts
    BY <2>2 DEF Accounts
  <2> HIDE DEF synced
  <2>8. /\ synced[i].sig = sigs[i] /\ synced[i].status = "ready"
        /\ synced[i].denom = sigs[i][1] /\ synced[i].wallet = notes[i].wallet
    BY <2>1, <2>2, <2>6 DEF NoteSet
  <2>9. synced[i] \in NoteSet
    <3>1. sigs[i] \in Nat \X Accounts
      BY <2>6, <2>7
    <3> QED BY <2>1, <2>2, <2>6, <3>1 DEF NoteSet
  <2> QED BY <2>6, <2>8, <2>9
<1>4. DOMAIN synced = DOMAIN notes /\ synced = [i \in 1 .. Len(notes) |-> synced[i]]
  BY <1>1 DEF SyncedNotes
<1> HIDE DEF synced
<1>5. synced \in Seq(NoteSet)
  <2>1. synced \in [1 .. Len(notes) -> NoteSet]
    <3>1. \A i \in 1 .. Len(notes) : synced[i] \in NoteSet
      BY <1>1, <1>2, <1>3
    <3> QED BY <1>4, <3>1
  <2> QED BY <1>1, <2>1, FunctionSeq
<1>6. WalletsOf(synced) = WalletsOf(notes)
  <2>1. \A i \in DOMAIN notes : synced[i].wallet = notes[i].wallet
    BY <1>2, <1>3
  <2> QED BY <1>4, <2>1 DEF WalletsOf
<1> QED BY <1>2, <1>3, <1>4, <1>5, <1>6 DEF synced

(* What sync writes to the file.                                            *)
LEMMA SyncIs ==
    ASSUME Base, NEW id \in Ids, Sync(id)
    PROVE  /\ Free /\ findDeposit(id) # 0 /\ st.deposits[id].status = "Announced"
           /\ Notes(id) \in Seq(NoteSet) /\ answer[id] \in Seq(Denoms \X Points)
           /\ Opens(Notes(id), answer[id])
           /\ file' = Saved(id, SyncedNotes(Notes(id), answer[id]))
           /\ UNCHANGED <<chain, ours, tries, run>>
<1>1. /\ Free /\ findDeposit(id) # 0 /\ st.deposits[id].status = "Announced"
      /\ AnswerOpens(id) /\ file' = Saved(id, Synced(id))
      /\ UNCHANGED <<chain, ours, tries, run>>
  BY DEF Sync
<1>2. Opens(Notes(id), answer[id])
  BY <1>1 DEF AnswerOpens, Opens
<1>3. Synced(id) = SyncedNotes(Notes(id), answer[id])
  BY DEF Synced, SyncedNotes
<1>4. Notes(id) \in Seq(NoteSet) /\ answer[id] \in Seq(Denoms \X Points)
  BY <1>1, Found DEF Base, ContractTyped
<1> QED BY <1>1, <1>2, <1>3, <1>4

LEMMA SyncBase ==
    ASSUME Base, NEW id \in Ids, Sync(id)
    PROVE  ClientBase'
<1>1. PICK notes : notes = SyncedNotes(Notes(id), answer[id])
  OBVIOUS
<1>2. notes \in Seq(NoteSet) /\ WalletsOf(notes) = WalletsOf(Notes(id))
  BY <1>1, SyncIs, SyncedNotesTyped
<1>3. /\ findDeposit(id) # 0 /\ file' = Saved(id, notes)
      /\ run' = run /\ run.cmd = "none" /\ UNCHANGED <<mempool, st, ours, shown, tries>>
  BY <1>1, SyncIs DEF Free, chain, deposits, contract
<1>4. run' \in RunSet /\ run'.cmd = "none"
  BY <1>3 DEF Base, RunTyped
<1> QED BY <1>2, <1>3, <1>4, SavedBase

(* The first ready note. *)
LEMMA FirstReady ==
    ASSUME NEW notes \in Seq(NoteSet), NEW from, ReadyFrom(notes, from) # {}
    PROVE  LET i == First(ReadyFrom(notes, from))
           IN  i \in DOMAIN notes /\ i \in Nat /\ notes[i].status = "ready"
<1> DEFINE ready == ReadyFrom(notes, from)
<1>1. ready \in SUBSET Nat /\ \A i \in ready : i \in DOMAIN notes /\ notes[i].status = "ready"
  BY DEF ReadyFrom
<1> HIDE DEF ready
<1>2. \E i \in ready : \A j \in ready : i <= j
  BY <1>1, LeastNatural DEF ready
<1>3. First(ready) \in ready
  BY <1>2 DEF First
<1> QED BY <1>1, <1>3 DEF ready

(* A note after its payment. *)
PaidNote(notes, n) == [notes EXCEPT ![n].status = "claimed"]

LEMMA PaidNoteTyped ==
    ASSUME NEW notes \in Seq(NoteSet), NEW n \in DOMAIN notes
    PROVE  LET paid == PaidNote(notes, n)
           IN  /\ paid \in Seq(NoteSet) /\ WalletsOf(paid) = WalletsOf(notes)
               /\ DOMAIN paid = DOMAIN notes
               /\ paid[n].status = "claimed" /\ paid[n].wallet = notes[n].wallet
               /\ \A i \in DOMAIN notes : i # n => paid[i] = notes[i]
<1> DEFINE note == [notes[n] EXCEPT !.status = "claimed"]
           paid == PaidNote(notes, n)
<1>1. notes[n] \in NoteSet /\ DOMAIN notes = 1 .. Len(notes) /\ Len(notes) \in Nat
  OBVIOUS
<1>2. note \in NoteSet /\ note.status = "claimed" /\ note.wallet = notes[n].wallet
  BY <1>1 DEF NoteSet
<1>3. paid = [notes EXCEPT ![n] = note]
  BY DEF PaidNote
<1> HIDE DEF note, paid
<1>4. paid \in Seq(NoteSet)
  BY <1>2, <1>3, ExceptSeq
<1>5. /\ DOMAIN paid = DOMAIN notes /\ paid[n] = note
      /\ \A i \in DOMAIN notes : i # n => paid[i] = notes[i]
  BY <1>3
<1>6. \A i \in DOMAIN notes : paid[i].wallet = notes[i].wallet
  BY <1>2, <1>5
<1>7. WalletsOf(paid) = WalletsOf(notes)
  BY <1>5, <1>6 DEF WalletsOf
<1> QED BY <1>2, <1>4, <1>5, <1>7 DEF paid

LEMMA BeginBase ==
    ASSUME Base, NEW id \in Ids, NEW cmd \in {"claim", "relay"}, Begin(cmd, id)
    PROVE  ClientBase'
<1> DEFINE notes == Notes(id)
           next == First(ReadyFrom(notes, 1))
<1>1. /\ Free /\ findDeposit(id) # 0 /\ ReadyFrom(notes, 1) # {}
      /\ run' = [Idle EXCEPT !.cmd = cmd, !.id = id, !.at = "note", !.notes = notes, !.next = next]
      /\ UNCHANGED <<mempool, st, ours, shown, tries, file>>
  BY DEF Begin, chain, deposits, contract
<1>2. notes \in Seq(NoteSet)
  BY <1>1, Found DEF Base
<1>3. file.deposits[FirstWith(file.deposits, id)].notes = notes /\ FirstWith(file.deposits, id) # 0
  BY <1>1, FindIs DEF Notes
<1> HIDE DEF notes
<1>4. next \in DOMAIN notes /\ next \in Nat /\ notes[next].status = "ready"
  BY <1>1, <1>2, FirstReady
<1> HIDE DEF next
<1>5. id \in Nat
  BY DEF Ids
<1>6. /\ run' \in RunSet /\ run'.cmd = cmd /\ run'.at = "note" /\ run'.notes = notes
      /\ run'.next = next /\ run'.id = id /\ run'.block = 0
  BY <1>1, <1>2, <1>4, <1>5, IdleTyped DEF RunSet, Idle
<1>7. RunTyped'
  BY <1>1, <1>3, <1>4, <1>6 DEF RunTyped, ThisNote
<1>8. DepositAwaited' /\ MintAwaited' /\ ClaimAwaited'
  BY <1>6 DEF DepositAwaited, MintAwaited, ClaimAwaited, Running
<1> QED BY <1>1, <1>7, <1>8, SentSame DEF ClientBase, Base, ShownTyped, FileTyped

(* A payment that the command has seen. *)
LEMMA ClaimedIs ==
    ASSUME Base, NEW id, id = run.id, run.cmd \in {"claim", "relay"}, Claimed
    PROVE  LET notes == PaidNote(run.notes, run.next)
           IN  /\ notes \in Seq(NoteSet) /\ WalletsOf(notes) = WalletsOf(Notes(id))
               /\ run.next \in DOMAIN run.notes /\ run.notes \in Seq(NoteSet)
               /\ findDeposit(id) # 0 /\ id \in Ids
               /\ \/ /\ ReadyFrom(notes, run.next) # {}
                     /\ run' = [run EXCEPT !.at = "note", !.notes = notes, !.block = 0,
                                           !.next = First(ReadyFrom(notes, run.next))]
                     /\ UNCHANGED file
                  \/ run' = Idle /\ file' = Saved(id, notes)
<1>1. /\ findDeposit(id) # 0 /\ id \in Ids /\ run.notes \in Seq(NoteSet)
      /\ WalletsOf(run.notes) = WalletsOf(Notes(id))
  BY InMemory
<1>2. run.next \in DOMAIN run.notes
  BY DEF Base, RunTyped
<1>3. PICK notes : notes = PaidNote(run.notes, run.next)
  OBVIOUS
<1>4. notes \in Seq(NoteSet) /\ WalletsOf(notes) = WalletsOf(run.notes)
  BY <1>1, <1>2, <1>3, PaidNoteTyped
<1>5. IF ReadyFrom(notes, run.next) # {}
      THEN /\ run' = [run EXCEPT !.at = "note", !.notes = notes, !.block = 0,
                                 !.next = First(ReadyFrom(notes, run.next))]
           /\ UNCHANGED file
      ELSE run' = Idle /\ file' = Saved(id, notes)
  BY <1>3 DEF Claimed, PaidNote
<1> QED BY <1>1, <1>2, <1>3, <1>4, <1>5

LEMMA ClaimedBase ==
    ASSUME Base, run.cmd \in {"claim", "relay"}, Claimed,
           UNCHANGED <<mempool, st, ours, shown, tries>>
    PROVE  ClientBase'
<1>1. PICK id : id = run.id
  OBVIOUS
<1>2. PICK notes : notes = PaidNote(run.notes, run.next)
  OBVIOUS
<1>3. PICK next : next = First(ReadyFrom(notes, run.next))
  OBVIOUS
<1>4. /\ notes \in Seq(NoteSet) /\ WalletsOf(notes) = WalletsOf(Notes(id))
      /\ findDeposit(id) # 0 /\ id \in Ids
      /\ \/ /\ ReadyFrom(notes, run.next) # {}
            /\ run' = [run EXCEPT !.at = "note", !.notes = notes, !.block = 0, !.next = next]
            /\ UNCHANGED file
         \/ run' = Idle /\ file' = Saved(id, notes)
  BY <1>1, <1>2, <1>3, ClaimedIs
<1>5. CASE /\ ReadyFrom(notes, run.next) # {}
           /\ run' = [run EXCEPT !.at = "note", !.notes = notes, !.block = 0, !.next = next]
           /\ UNCHANGED file
  <2>1. next \in DOMAIN notes /\ next \in Nat /\ notes[next].status = "ready"
    BY <1>3, <1>4, <1>5, FirstReady
  <2>2. run \in RunSet
    BY DEF Base, RunTyped
  <2>3. /\ run' \in RunSet /\ run'.cmd = run.cmd /\ run'.at = "note" /\ run'.notes = notes
        /\ run'.next = next /\ run'.id = id /\ run'.block = 0
    BY <1>1, <1>4, <1>5, <2>1, <2>2 DEF RunSet
  <2>4. file'.deposits[FirstWith(file'.deposits, id)].notes = Notes(id) /\ FirstWith(file'.deposits, id) # 0
    BY <1>4, <1>5, FindIs DEF Notes
  <2>5. RunTyped'
    BY <1>4, <2>1, <2>3, <2>4 DEF RunTyped, ThisNote
  <2>6. DepositAwaited' /\ MintAwaited' /\ ClaimAwaited'
    BY <2>3 DEF DepositAwaited, MintAwaited, ClaimAwaited, Running
  <2> QED BY <1>5, <2>5, <2>6, SentSame DEF ClientBase, Base, ShownTyped, FileTyped
<1>6. CASE run' = Idle /\ file' = Saved(id, notes)
  <2>1. run' \in RunSet /\ run'.cmd = "none"
    BY <1>6, IdleTyped DEF Idle
  <2> QED BY <1>4, <1>6, <2>1, SavedBase
<1> QED BY <1>4, <1>5, <1>6

(* claim sends what it can pay for, or stops.                               *)
LEMMA ClaimSendsIs ==
    ASSUME Base, ClaimSends
    PROVE  LET tx == [kind |-> "claim", denom |-> ThisNote.denom, wallet |-> ThisNote.wallet]
           IN  /\ run.cmd = "claim" /\ run.at = "note" /\ run.block = 0
               /\ ThisNote \in NoteSet /\ ThisNote.status = "ready"
               /\ run.next \in DOMAIN run.notes
               /\ ThisNote.sig = <<ThisNote.denom, ThisNote.wallet>>
               /\ Transmit(tx) /\ tx \in ClaimTxs
               /\ run' = [run EXCEPT !.at = "receipt"]
               /\ UNCHANGED <<deposits, shown, ours, file, tries>>
<1>1. /\ run.cmd = "claim" /\ run.at = "note"
      /\ ThisNote.sig = <<ThisNote.denom, ThisNote.wallet>>
      /\ Transmit([kind |-> "claim", denom |-> ThisNote.denom, wallet |-> ThisNote.wallet])
      /\ run' = [run EXCEPT !.at = "receipt"]
      /\ UNCHANGED <<deposits, shown, ours, file, tries>>
  BY DEF ClaimSends, Running, verify
<1>2. run \in RunSet /\ run.next \in DOMAIN run.notes /\ run.block = 0 /\ ThisNote.status = "ready"
  BY <1>1 DEF Base, RunTyped
<1>3. run.notes \in Seq(NoteSet)
  BY <1>2 DEF RunSet
<1>4. ThisNote \in NoteSet
  BY <1>2, <1>3 DEF ThisNote
<1>5. [kind |-> "claim", denom |-> ThisNote.denom, wallet |-> ThisNote.wallet] \in ClaimTxs
  BY <1>4 DEF ClaimTxs, NoteSet
<1> QED BY <1>1, <1>2, <1>4, <1>5

LEMMA ClaimSendsBase ==
    ASSUME Base, ClaimSends
    PROVE  ClientBase'
<1>1. PICK tx : tx = [kind |-> "claim", denom |-> ThisNote.denom, wallet |-> ThisNote.wallet]
  OBVIOUS
<1>2. /\ run.cmd = "claim" /\ run.block = 0 /\ Transmit(tx) /\ tx \in ClaimTxs
      /\ run' = [run EXCEPT !.at = "receipt"]
      /\ UNCHANGED <<deposits, shown, ours, file, tries>>
  BY <1>1, ClaimSendsIs
<1>3. tx \in Txs /\ tx.kind = "claim" /\ tx.wallet = ThisNote.wallet
  BY <1>1, <1>2 DEF Txs
<1>4. UNCHANGED <<st, ours, file, shown, tries>>
  BY <1>2 DEF deposits, contract
<1>5. /\ MempoolTyped' /\ Sent' /\ mempool' # <<>> /\ mempool'[Len(mempool')] = tx
  BY <1>2, <1>3, <1>4, Transmitted DEF Base
<1>6. run \in RunSet
  BY DEF Base, RunTyped
<1>7. /\ run' \in RunSet /\ run'.cmd = "claim" /\ run'.at = "receipt" /\ run'.notes = run.notes
      /\ run'.next = run.next /\ run'.id = run.id /\ run'.block = 0
  BY <1>2, <1>6 DEF RunSet
<1>8. RunTyped'
  BY <1>2, <1>4, <1>7 DEF Base, RunTyped, ThisNote
<1>9. DepositAwaited' /\ MintAwaited' /\ ClaimAwaited'
  BY <1>3, <1>5, <1>7 DEF DepositAwaited, MintAwaited, ClaimAwaited, Running, ThisNote
<1> QED BY <1>4, <1>5, <1>8, <1>9 DEF ClientBase, Base, ShownTyped, FileTyped

LEMMA ClaimMinedBase ==
    ASSUME Base, ClaimMined
    PROVE  ClientBase'
BY ClaimedBase DEF ClaimMined, Running, chain, deposits, contract

LEMMA RelayAnswersBase ==
    ASSUME Base, RelayAnswers
    PROVE  ClientBase'
BY ClaimedBase DEF RelayAnswers, Running, chain, deposits, contract

(* relay shows its note to the relayer.                                     *)
LEMMA RelaySendsIs ==
    ASSUME Base, RelaySends
    PROVE  /\ run.cmd = "relay" /\ run.at = "note"
           /\ ThisNote \in NoteSet /\ ThisNote.status = "ready"
           /\ run.next \in DOMAIN run.notes /\ run.notes \in Seq(NoteSet)
           /\ shown' = shown \cup {ThisNote.sig}
           /\ run' = [run EXCEPT !.at = "answer", !.paid = st.claimed[ThisNote.wallet]]
           /\ UNCHANGED <<deposits, mempool, ours, file, tries>>
<1>1. /\ run.cmd = "relay" /\ run.at = "note" /\ shown' = shown \cup {ThisNote.sig}
      /\ run' = [run EXCEPT !.at = "answer", !.paid = st.claimed[ThisNote.wallet]]
      /\ UNCHANGED <<deposits, mempool, ours, file, tries>>
  BY DEF RelaySends, Running
<1>2. run \in RunSet /\ run.next \in DOMAIN run.notes /\ ThisNote.status = "ready"
  BY <1>1 DEF Base, RunTyped
<1>3. run.notes \in Seq(NoteSet)
  BY <1>2 DEF RunSet
<1>4. ThisNote \in NoteSet
  BY <1>2, <1>3 DEF ThisNote
<1> QED BY <1>1, <1>2, <1>3, <1>4

LEMMA RelaySendsBase ==
    ASSUME Base, RelaySends
    PROVE  ClientBase'
<1>1. /\ run.cmd = "relay" /\ ThisNote \in NoteSet
      /\ shown' = shown \cup {ThisNote.sig}
      /\ run' = [run EXCEPT !.at = "answer", !.paid = st.claimed[ThisNote.wallet]]
      /\ UNCHANGED <<deposits, mempool, ours, file, tries>>
  BY RelaySendsIs
<1>2. ThisNote.sig \in Nat \X Accounts /\ ThisNote.wallet \in Wallets
  BY <1>1 DEF NoteSet
<1>3. st.claimed[ThisNote.wallet] \in BOOLEAN
  BY <1>2 DEF Base, ContractTyped, StorageTyped, Accounts
<1>4. run \in RunSet
  BY DEF Base, RunTyped
<1>5. /\ run' \in RunSet /\ run'.cmd = "relay" /\ run'.at = "answer" /\ run'.notes = run.notes
      /\ run'.next = run.next /\ run'.id = run.id
  BY <1>1, <1>3, <1>4 DEF RunSet
<1>6. UNCHANGED <<st, ours, mempool, file, tries>>
  BY <1>1 DEF deposits, contract
<1>7. RunTyped'
  BY <1>1, <1>5, <1>6 DEF Base, RunTyped, ThisNote
<1>8. DepositAwaited' /\ MintAwaited' /\ ClaimAwaited'
  BY <1>5 DEF DepositAwaited, MintAwaited, ClaimAwaited, Running
<1>9. ShownTyped'
  BY <1>1, <1>2, <1>6 DEF Base, ShownTyped
<1> QED BY <1>6, <1>7, <1>8, <1>9, SentSame DEF ClientBase, Base, FileTyped

(* The transfers are commands that the contract does not see. *)
LEMMA AwayBase ==
    ASSUME Base, run' \in RunSet, run'.cmd \in {"none", "spend", "sweep"},
           run'.cmd \in {"spend", "sweep"} => run'.next \in DOMAIN run'.notes,
           UNCHANGED <<mempool, st, ours, shown, tries, file>>
    PROVE  ClientBase'
BY SentSame, IdleAwaits DEF ClientBase, Base, ShownTyped, FileTyped

LEMMA SpendBase ==
    ASSUME Base, NEW id \in Ids, Spend(id)
    PROVE  ClientBase'
<1>1. PICK notes : notes = Notes(id)
  OBVIOUS
<1>2. PICK i \in Largest(notes) :
        run' = [Idle EXCEPT !.cmd = "spend", !.at = "receipt", !.notes = <<notes[i]>>, !.next = 1]
  BY <1>1 DEF Spend
<1>3. findDeposit(id) # 0 /\ UNCHANGED <<mempool, st, ours, shown, tries, file>>
  BY DEF Spend, Wire, deposits, contract
<1>4. notes \in Seq(NoteSet) /\ i \in DOMAIN notes
  BY <1>1, <1>2, <1>3, Found DEF Base, Largest
<1>5. notes[i] \in NoteSet
  BY <1>4
<1>6. <<notes[i]>> \in Seq(NoteSet) /\ 1 \in DOMAIN <<notes[i]>>
  BY <1>5
<1>7. run' \in RunSet /\ run'.cmd = "spend" /\ run'.next \in DOMAIN run'.notes
  BY <1>2, <1>6, IdleTyped DEF Idle, RunSet
<1> QED BY <1>3, <1>7, AwayBase

LEMMA SweepBeginsBase ==
    ASSUME Base, NEW id \in Ids, SweepBegins(id)
    PROVE  ClientBase'
<1>1. PICK notes : notes = Notes(id)
  OBVIOUS
<1>2. /\ run' = [Idle EXCEPT !.cmd = "sweep", !.at = "note", !.notes = notes, !.next = 1]
      /\ findDeposit(id) # 0 /\ notes # <<>>
      /\ UNCHANGED <<mempool, st, ours, shown, tries, file>>
  BY <1>1 DEF SweepBegins, chain, deposits, contract
<1>3. notes \in Seq(NoteSet)
  BY <1>1, <1>2, Found DEF Base
<1>4. 1 \in DOMAIN notes
  BY <1>2, <1>3
<1>5. run' \in RunSet /\ run'.cmd = "sweep" /\ run'.next \in DOMAIN run'.notes
  BY <1>2, <1>3, <1>4, IdleTyped DEF Idle, RunSet
<1> QED BY <1>2, <1>5, AwayBase

LEMMA NextWalletTyped ==
    ASSUME Base, run.cmd \in {"spend", "sweep"}, NextWallet
    PROVE  /\ run' \in RunSet /\ run'.cmd \in {"none", "spend", "sweep"}
           /\ run'.cmd \in {"spend", "sweep"} => run'.next \in DOMAIN run'.notes
<1>1. run \in RunSet /\ run.next \in DOMAIN run.notes
  BY DEF Base, RunTyped
<1>2. run.notes \in Seq(NoteSet) /\ run.next \in Nat
  BY <1>1 DEF RunSet
<1>3. CASE run' = Idle
  BY <1>3, IdleTyped DEF Idle
<1>4. CASE run.next # Len(run.notes) /\ run' = [run EXCEPT !.at = "note", !.next = run.next + 1]
  <2>1. run.next + 1 \in DOMAIN run.notes /\ run.next + 1 \in Nat
    BY <1>1, <1>2, <1>4
  <2>2. /\ run' \in RunSet /\ run'.cmd = run.cmd /\ run'.next = run.next + 1
        /\ run'.notes = run.notes
    BY <1>1, <1>4, <2>1 DEF RunSet
  <2> QED BY <2>1, <2>2
<1> QED BY <1>3, <1>4 DEF NextWallet

LEMMA SweepBase ==
    ASSUME Base, SweepSends \/ SweepSkips \/ WireMined
    PROVE  ClientBase'
<1>1. UNCHANGED <<mempool, st, ours, shown, tries, file>> /\ run.cmd \in {"spend", "sweep"}
  BY DEF SweepSends, SweepSkips, WireMined, Wire, Running, chain, deposits, contract
<1>2. CASE SweepSends
  <2>1. run' = [run EXCEPT !.at = "receipt"] /\ run \in RunSet /\ run.next \in DOMAIN run.notes
    BY <1>1, <1>2 DEF SweepSends, Base, RunTyped
  <2>2. run' \in RunSet /\ run'.cmd = run.cmd /\ run'.next = run.next /\ run'.notes = run.notes
    BY <2>1 DEF RunSet
  <2> QED BY <1>1, <2>1, <2>2, AwayBase
<1>3. CASE SweepSkips \/ WireMined
  <2>1. NextWallet
    BY <1>3 DEF SweepSkips, WireMined
  <2> QED BY <1>1, <2>1, NextWalletTyped, AwayBase
<1> QED BY <1>2, <1>3

(* A step of somebody else. *)
LEMMA KeepBase ==
    ASSUME Base, Evolves, UNCHANGED <<mempool, shown, ours, file, tries, run>>
    PROVE  ClientBase'
<1>1. MempoolTyped' /\ FileTyped' /\ ShownTyped' /\ RunTyped'
  BY DEF Base, MempoolTyped, FileTyped, ShownTyped, RunTyped, ThisNote
<1>2. Sent'
  BY DEF Base, Sent, Evolves
<1>3. DepositAwaited'
  <2> SUFFICES ASSUME Running("deposit", "receipt")
               PROVE  IF run.block = 0
                      THEN /\ mempool # <<>> /\ mempool[Len(mempool)].kind = "deposit"
                           /\ mempool[Len(mempool)].wallets = WalletsOf(run.notes)
                           /\ contractMintable(mempool[Len(mempool)].value) = run.amount
                      ELSE /\ mempool = <<>>
                           /\ \E id \in Opened' :
                                /\ BlockOf(id)' = run.block - 1
                                /\ brought'[id].wallets = WalletsOf(run.notes)
                                /\ contractMintable(st'.deposits[id].amount) = run.amount
    BY DEF DepositAwaited, Running
  <2> QED BY DEF Base, DepositAwaited, Evolves
<1>4. MintAwaited' /\ ClaimAwaited'
  BY DEF Base, MintAwaited, ClaimAwaited, Evolves, Running, ThisNote
<1> QED BY <1>1, <1>2, <1>3, <1>4 DEF ClientBase

(* A block takes the first transaction of the deployer. *)
LEMMA MinesBase ==
    ASSUME Base, Evolves, mempool # <<>>, mempool' = Tail(mempool),
           run' = IF Len(mempool) = 1 /\ run.at = "receipt"
                  THEN [run EXCEPT !.block = now + 1] ELSE run,
           UNCHANGED <<shown, ours, file, tries>>,
           Len(mempool) = 1 /\ run.cmd = "deposit" /\ mempool[1].kind = "deposit" =>
               \E id \in Opened' : /\ BlockOf(id)' = now
                                   /\ brought'[id].wallets = mempool[1].wallets
                                   /\ st'.deposits[id].amount = mempool[1].value,
           Len(mempool) = 1 /\ run.cmd = "mint" /\ mempool[1].kind = "announce" =>
               st'.deposits[mempool[1].report.id].status = "Announced"
    PROVE  ClientBase'
<1>1. mempool \in Seq(Txs) /\ run \in RunSet /\ now \in Nat
  BY DEF Base, MempoolTyped, RunTyped, ContractTyped
<1>2. /\ Len(mempool) \in Nat /\ Len(mempool) >= 1 /\ mempool' \in Seq(Txs)
      /\ Len(mempool') = Len(mempool) - 1 /\ DOMAIN mempool = 1 .. Len(mempool)
      /\ DOMAIN mempool' = 1 .. Len(mempool) - 1
      /\ \A k \in 1 .. Len(mempool) - 1 : mempool'[k] = mempool[k + 1]
      /\ Len(mempool) = 1 => mempool' = <<>>
      /\ Len(mempool) # 1 => mempool' # <<>>
  <2>1. Len(mempool) \in Nat /\ Len(mempool) >= 1 /\ DOMAIN mempool = 1 .. Len(mempool)
    BY <1>1
  <2>2. /\ mempool' \in Seq(Txs) /\ Len(mempool') = Len(mempool) - 1
        /\ \A k \in 1 .. Len(mempool') : mempool'[k] = mempool[k + 1]
    BY <1>1, HeadTailProperties
  <2>3. DOMAIN mempool' = 1 .. Len(mempool')
    BY <2>2
  <2>4. Len(mempool) = 1 => mempool' = <<>>
    BY <2>2, EmptySeq
  <2>5. Len(mempool) # 1 => mempool' # <<>>
    <3>1. Len(mempool) # 1 => Len(mempool') # 0
      BY <2>1, <2>2
    <3> QED BY <3>1
  <2> QED BY <2>1, <2>2, <2>3, <2>4, <2>5
<1>3. MempoolTyped' /\ FileTyped' /\ ShownTyped'
  BY <1>2 DEF Base, MempoolTyped, FileTyped, ShownTyped
<1>4. Sent'
  <2> SUFFICES ASSUME NEW k \in DOMAIN mempool'
               PROVE  /\ mempool'[k].kind = "deposit" => mempool'[k].value = grossFor(mempool'[k].net)
                      /\ mempool'[k].kind = "announce" =>
                           /\ ours' /\ mempool'[k].report.id \in Opened'
                           /\ mempool'[k].report.denoms =
                                [i \in DOMAIN mempool'[k].sigs |-> mempool'[k].sigs[i][1]]
                           /\ Len(mempool'[k].report.denoms) = Len(mempool'[k].sigs)
    BY DEF Sent
  <2>1. k + 1 \in DOMAIN mempool /\ mempool'[k] = mempool[k + 1]
    BY <1>2
  <2>2. ours' = ours /\ Opened \subseteq Opened'
    BY DEF Evolves
  <2> HIDE DEF Opened
  <2> QED BY <2>1, <2>2 DEF Base, Sent
<1>5. /\ run' \in RunSet /\ run'.cmd = run.cmd /\ run'.at = run.at /\ run'.notes = run.notes
      /\ run'.next = run.next /\ run'.id = run.id /\ run'.amount = run.amount
      /\ run'.block = IF Len(mempool) = 1 /\ run.at = "receipt" THEN now + 1 ELSE run.block
  <2>1. now + 1 \in Nat
    BY <1>1
  <2>2. CASE Len(mempool) = 1 /\ run.at = "receipt"
    BY <1>1, <2>1, <2>2 DEF RunSet
  <2>3. CASE ~ (Len(mempool) = 1 /\ run.at = "receipt")
    BY <1>1, <2>3
  <2> QED BY <2>2, <2>3
<1>6. RunTyped'
  BY <1>5 DEF Base, RunTyped, ThisNote
<1>7. mempool'[Len(mempool')] = mempool[Len(mempool)] \/ Len(mempool) = 1
  BY <1>2
<1>8. ASSUME Running("deposit", "receipt")
      PROVE  IF run'.block = 0
             THEN /\ mempool' # <<>> /\ mempool'[Len(mempool')].kind = "deposit"
                  /\ mempool'[Len(mempool')].wallets = WalletsOf(run.notes)
                  /\ contractMintable(mempool'[Len(mempool')].value) = run.amount
             ELSE /\ mempool' = <<>>
                  /\ \E id \in Opened' :
                       /\ BlockOf(id)' = run'.block - 1
                       /\ brought'[id].wallets = WalletsOf(run.notes)
                       /\ contractMintable(st'.deposits[id].amount) = run.amount
  <2>1. /\ run.block = 0 /\ mempool[Len(mempool)].kind = "deposit"
        /\ mempool[Len(mempool)].wallets = WalletsOf(run.notes)
        /\ contractMintable(mempool[Len(mempool)].value) = run.amount
        /\ run.cmd = "deposit" /\ run.at = "receipt"
    BY <1>8 DEF Base, DepositAwaited, Running
  <2>2. CASE Len(mempool) = 1
    <3>1. run'.block = now + 1 /\ run'.block # 0 /\ run'.block - 1 = now
      BY <1>1, <1>5, <2>1, <2>2
    <3> QED BY <1>2, <2>1, <2>2, <3>1
  <2>3. CASE Len(mempool) # 1
    BY <1>2, <1>5, <1>7, <2>1, <2>3
  <2> QED BY <2>2, <2>3
<1>9. DepositAwaited'
  BY <1>5, <1>8 DEF DepositAwaited, Running
<1>10. MintAwaited'
  <2> SUFFICES ASSUME run.cmd = "mint"
               PROVE  /\ ours' /\ run.id \in Opened'
                      /\ IF run'.block = 0
                         THEN /\ mempool' # <<>> /\ mempool'[Len(mempool')].kind = "announce"
                              /\ mempool'[Len(mempool')].report.id = run.id
                         ELSE mempool' = <<>> /\ st'.deposits[run.id].status = "Announced"
    BY <1>5 DEF MintAwaited
  <2>1. ours /\ run.id \in Opened /\ run.block = 0 /\ run.at = "receipt"
        /\ mempool[Len(mempool)].kind = "announce" /\ mempool[Len(mempool)].report.id = run.id
    BY DEF Base, MintAwaited, RunTyped
  <2>2. ours' = ours /\ Opened \subseteq Opened'
    BY DEF Evolves
  <2> HIDE DEF Opened
  <2>3. CASE Len(mempool) = 1
    <3>1. run'.block = now + 1 /\ run'.block # 0
      BY <1>1, <1>5, <2>1, <2>3
    <3> QED BY <1>2, <2>1, <2>2, <2>3, <3>1
  <2>4. CASE Len(mempool) # 1
    BY <1>2, <1>5, <1>7, <2>1, <2>2, <2>4
  <2> QED BY <2>3, <2>4
<1>11. ClaimAwaited'
  <2> SUFFICES ASSUME Running("claim", "receipt")
               PROVE  IF run'.block = 0
                      THEN /\ mempool' # <<>> /\ mempool'[Len(mempool')].kind = "claim"
                           /\ mempool'[Len(mempool')].wallet = ThisNote.wallet
                      ELSE mempool' = <<>>
    BY <1>5 DEF ClaimAwaited, Running, ThisNote
  <2>1. /\ run.block = 0 /\ mempool[Len(mempool)].kind = "claim" /\ run.at = "receipt"
        /\ mempool[Len(mempool)].wallet = ThisNote.wallet
    BY DEF Base, ClaimAwaited, Running
  <2>2. CASE Len(mempool) = 1
    <3>1. run'.block # 0
      BY <1>1, <1>5, <2>1, <2>2
    <3> QED BY <1>2, <2>2, <3>1
  <2>3. CASE Len(mempool) # 1
    BY <1>2, <1>5, <1>7, <2>1, <2>3
  <2> QED BY <2>2, <2>3
<1> QED BY <1>3, <1>4, <1>6, <1>9, <1>10, <1>11 DEF ClientBase

LEMMA MineDepositBase ==
    ASSUME Base, Evolves, MineDeposit
    PROVE  ClientBase'
<1>1. PICK new, tx : new = st.nextId /\ tx = Head(mempool)
  OBVIOUS
<1>2. tx \in DepositTxs /\ mempool # <<>> /\ Opening(Deployer, tx.value, tx.wallets, tx.net)
  BY <1>1, MineDepositIs
<1>3. tx = mempool[1] /\ tx.kind = "deposit"
  BY <1>1, <1>2, HeadTyped DEF Base, DepositTxs
<1>4. /\ new \in Ids /\ Opened' = Opened \cup {new}
      /\ st'.deposits[new] = NewRecord(Deployer, tx.value, Len(tx.wallets))
      /\ brought'[new] = [wallets |-> tx.wallets, net |-> tx.net]
      /\ \A id \in Ids : id = new => BlockOf(id)' = now
  BY <1>1, <1>2, OpenedLedger DEF Base, Opening
<1>5. \E id \in Opened' : /\ BlockOf(id)' = now
                          /\ brought'[id].wallets = mempool[1].wallets
                          /\ st'.deposits[id].amount = mempool[1].value
  BY <1>3, <1>4 DEF NewRecord
<1>6. /\ mempool' = Tail(mempool)
      /\ run' = IF Len(mempool) = 1 /\ run.at = "receipt"
                THEN [run EXCEPT !.block = now + 1] ELSE run
      /\ UNCHANGED <<shown, ours, file, tries>>
  BY DEF MineDeposit, Mines
<1>7. mempool[1].kind # "announce"
  BY <1>3
<1> QED BY <1>2, <1>5, <1>6, <1>7, MinesBase

LEMMA MineAnnounceBase ==
    ASSUME Base, Evolves, MineAnnounce
    PROVE  ClientBase'
<1>1. PICK tx : tx = Head(mempool)
  OBVIOUS
<1>2. /\ tx \in AnnounceTxs /\ mempool # <<>> /\ tx.report.id \in Opened
      /\ \/ Settling(tx.report, tx.sigs)
         \/ QuietStep /\ st.deposits[tx.report.id].status # "Pending"
  BY <1>1, MineAnnounceIs
<1>3. tx = mempool[1] /\ tx.kind = "announce"
  BY <1>1, <1>2, HeadTyped DEF Base, AnnounceTxs
<1>4. st'.deposits[tx.report.id].status = "Announced"
  <2>1. CASE Settling(tx.report, tx.sigs)
    BY <2>1, SettledLedger DEF Base, Settling
  <2>2. CASE QuietStep /\ st.deposits[tx.report.id].status # "Pending"
    <3>1. tx.report.id \in Ids /\ st.deposits[tx.report.id].status # "None"
      BY <1>2, LedgerNumbers DEF Base, Ledger
    <3>2. st.deposits[tx.report.id].status \in {"None", "Pending", "Announced"}
      BY <3>1, LedgerNumbers DEF Base
    <3> QED BY <2>2, <3>1, <3>2 DEF QuietStep
  <2> QED BY <1>2, <2>1, <2>2
<1>5. /\ mempool' = Tail(mempool)
      /\ run' = IF Len(mempool) = 1 /\ run.at = "receipt"
                THEN [run EXCEPT !.block = now + 1] ELSE run
      /\ UNCHANGED <<shown, ours, file, tries>>
  BY DEF MineAnnounce, Mines
<1>6. mempool[1].kind # "deposit"
  BY <1>3
<1> QED BY <1>2, <1>3, <1>4, <1>5, <1>6, MinesBase

LEMMA MineClaimBase ==
    ASSUME Base, Evolves, MineClaim
    PROVE  ClientBase'
<1>1. Head(mempool) \in ClaimTxs /\ mempool # <<>>
  BY MineClaimIs
<1>2. mempool[1].kind # "deposit" /\ mempool[1].kind # "announce"
  BY <1>1, HeadTyped DEF Base, ClaimTxs
<1>3. /\ mempool' = Tail(mempool)
      /\ run' = IF Len(mempool) = 1 /\ run.at = "receipt"
                THEN [run EXCEPT !.block = now + 1] ELSE run
      /\ UNCHANGED <<shown, ours, file, tries>>
  BY DEF MineClaim, Mines
<1> QED BY <1>1, <1>2, <1>3, MinesBase

(* Base is inductive.                                                       *)
LEMMA BaseStep ==
    ASSUME Base, [Next]_vars
    PROVE  Base'
<1>1. ContractTyped' /\ Ledger' /\ Evolves
  BY ContractKept
<1>2. ClientBase'
  <2>1. CASE ClientStep
    <3>1. CASE DeployResets \/ DeploySaves \/ Stop
      BY <3>1, DeployBase
    <3>2. ASSUME NEW net \in Nets, DepositSends(net) PROVE ClientBase'
      BY <3>2, DepositSendsBase
    <3>3. CASE DepositSaves
      BY <3>3, DepositSavesBase
    <3>4. CASE MintSaves
      BY <3>4, MintSavesBase
    <3>5. ASSUME NEW id \in Ids, MintSends(id) PROVE ClientBase'
      BY <3>5, MintSendsBase
    <3>6. ASSUME NEW id \in Ids, Sync(id) PROVE ClientBase'
      BY <3>6, SyncBase
    <3>7. ASSUME NEW id \in Ids, Begin("claim", id) \/ Begin("relay", id) PROVE ClientBase'
      BY <3>7, BeginBase
    <3>8. ASSUME NEW id \in Ids, Spend(id) PROVE ClientBase'
      BY <3>8, SpendBase
    <3>9. ASSUME NEW id \in Ids, SweepBegins(id) PROVE ClientBase'
      BY <3>9, SweepBeginsBase
    <3>10. CASE ClaimSends \/ ClaimMined \/ RelaySends \/ RelayAnswers
      BY <3>10, ClaimSendsBase, ClaimMinedBase, RelaySendsBase, RelayAnswersBase
    <3>11. CASE SweepSends \/ SweepSkips \/ WireMined
      BY <3>11, SweepBase
    <3> QED BY <2>1, <3>1, <3>2, <3>3, <3>4, <3>5, <3>6, <3>7, <3>8, <3>9, <3>10, <3>11
            DEF ClientStep
  <2>2. ASSUME UNCHANGED <<mempool, shown, ours, file, tries, run>> PROVE ClientBase'
    BY <1>1, <2>2, KeepBase
  <2>3. CASE UNCHANGED vars
    BY <2>2, <2>3 DEF vars, chain, client
  <2>4. CASE MineDeposit \/ MineAnnounce \/ MineClaim
    BY <1>1, <2>4, MineDepositBase, MineAnnounceBase, MineClaimBase
  <2>5. CASE \E value \in OtherValues : OtherDeposits(value)
    BY <2>2, <2>5 DEF OtherDeposits, client
  <2>6. CASE \E id \in Ids : WorkflowAnnounces(id)
    BY <2>2, <2>6 DEF WorkflowAnnounces, client
  <2>7. ASSUME NEW sig \in shown, RelayerClaims(sig) PROVE ClientBase'
    BY <2>2, <2>7 DEF RelayerClaims, client
  <2>8. CASE \E x \in wires, cost \in 0 .. Fee : WireLands(x, cost)
    BY <2>2, <2>8 DEF WireLands, client
  <2>9. CASE Block
    BY <2>2, <2>9 DEF Block, client
  <2> QED BY <2>1, <2>3, <2>4, <2>5, <2>6, <2>7, <2>8, <2>9, StepKinds
<1> QED BY <1>1, <1>2 DEF Base, ClientBase

LEMMA ContractInit ==
    ASSUME Init
    PROVE  /\ ContractTyped /\ st.nextId = 1 /\ Opened = {}
           /\ st.totalAnnounced = 0 /\ st.totalClaimed = 0
           /\ \A id \in Ids : /\ st.deposits[id].status = "None"
                              /\ answer[id] = <<>> /\ brought[id].wallets = <<>>
           /\ \A a \in Accounts : ~ st.claimed[a]
<1> DEFINE none == [depositor |-> Deployer, amount |-> 0, points |-> 0, deadline |-> 0, status |-> "None"]
<1>1. /\ stack = <<>> /\ now = 0
      /\ st = [deposits |-> [id \in Ids |-> Mint!None], claimed |-> [a \in Accounts |-> FALSE],
               nextId |-> 1, totalAnnounced |-> 0, totalClaimed |-> 0,
               balance |-> 0, log |-> <<>>]
  BY DEF Init, Mint!Init, Mint!Ids, Ids
<1>2. Mint!None \in DepositSet /\ Mint!None.status = "None"
  BY DEF Mint!None, DepositSet, Accounts
<1>3. /\ st.deposits = [id \in Ids |-> Mint!None] /\ st.claimed = [a \in Accounts |-> FALSE]
      /\ st.nextId = 1 /\ st.totalAnnounced = 0 /\ st.totalClaimed = 0 /\ Shape(st)
  BY <1>1 DEF Shape
<1>4. /\ brought = [id \in Ids |-> [wallets |-> <<>>, net |-> 0]]
      /\ answer = [id \in Ids |-> <<>>]
  BY DEF Init
<1>5. StorageTyped
  BY <1>2, <1>3 DEF StorageTyped
<1>6. <<>> \in Seq(Points) /\ <<>> \in Seq(Denoms \X Points)
  BY EmptySeq
<1>7. ContractTyped
  BY <1>1, <1>4, <1>5, <1>6 DEF ContractTyped
<1>8. Opened = {}
  BY <1>3 DEF Opened
<1> QED BY <1>2, <1>3, <1>4, <1>7, <1>8

LEMMA BaseInit ==
    ASSUME Init
    PROVE  Base
<1>1. /\ mempool = <<>> /\ shown = {} /\ file = [deployed |-> FALSE, deposits |-> <<>>]
      /\ tries = 0 /\ run = Idle
  BY DEF Init
<1>2. ContractTyped /\ Opened = {}
  BY ContractInit
<1>3. Ledger
  <2>1. MaxDeposits \in Nat
    BY CliAssumption
  <2>2. st.nextId \in 1 .. MaxDeposits + 1
    BY <2>1, ContractInit
  <2> QED BY <1>2, <2>2, ContractInit DEF Ledger
<1>4. MempoolTyped /\ Sent /\ FileTyped /\ ShownTyped
  <2>1. <<>> \in Seq(Txs) /\ <<>> \in Seq(RecordSet) /\ DOMAIN mempool = {}
    BY <1>1, EmptySeq
  <2> QED BY <1>1, <2>1 DEF MempoolTyped, Sent, FileTyped, ShownTyped
<1>5. RunTyped /\ DepositAwaited /\ MintAwaited /\ ClaimAwaited
  BY <1>1, IdleTyped DEF RunTyped, DepositAwaited, MintAwaited, ClaimAwaited, Running, Idle
<1> QED BY <1>2, <1>3, <1>4, <1>5 DEF Base

(* What the client awaits, what it holds and what the ledger says, whatever *)
(* stops and whoever else deposits.                                         *)
THEOREM BaseAlways == Spec => []Base
BY BaseInit, BaseStep, PTL DEF Spec

-----------------------------------------------------------------------------
(* What was asked for is minted: the client adds the rung that the contract *)
(* takes, so the announcement is worth the whole rungs of the net amount.   *)
LEMMA GrossIsNet ==
    ASSUME NEW net \in Nat
    PROVE  contractMintable(grossFor(net)) = WholeRungs(net)
<1> DEFINE m == MIN_DENOM
           q == net \div m
<1>1. m \in Nat \ {0}
  BY Smallest
<1> HIDE DEF m
<1>2. (net + m) \div m = q + 1 /\ q \in Nat /\ ~ (net + m < m)
  BY <1>1
<1> HIDE DEF q
<1>3. contractMintable(net + m) = (q + 1 - 1) * m
  BY <1>2 DEF contractMintable, m
<1>4. WholeRungs(net) = q * m
  BY DEF WholeRungs, m, q
<1>5. q + 1 - 1 = q
  BY <1>2
<1> QED BY <1>3, <1>4, <1>5 DEF grossFor, m

(* What the user asks for is what the mint announces for a record of the    *)
(* file, in whole rungs: deposit (commands.ts) sends grossFor(net), and the *)
(* contract mints of it what the mint splits.                               *)
THEOREM AskedIsMintedAlways == Spec => []AskedIsMinted
<1>1. Base => AskedIsMinted
  <2> SUFFICES ASSUME Base, NEW id \in Ids, st.deposits[id].status = "Announced",
                      st.deposits[id].depositor = Deployer
               PROVE  Total([i \in DOMAIN answer[id] |-> answer[id][i][1]], Len(answer[id]))
                        = WholeRungs(brought[id].net)
    BY DEF AskedIsMinted
  <2>1. Total(Denominations(id), Len(answer[id])) = contractMintable(st.deposits[id].amount)
    BY DEF Base, Ledger
  <2>2. st.deposits[id].amount = grossFor(brought[id].net)
    BY DEF Base, Ledger
  <2>3. brought[id].net \in Nat
    BY LedgerNumbers DEF Base
  <2> QED BY <2>1, <2>2, <2>3, GrossIsNet DEF Denominations
<1> QED BY <1>1, BaseAlways, PTL

-----------------------------------------------------------------------------
(* Dust. *)

(* A payment in the contract and in the wallet. *)
LEMMA PaidWallet ==
    ASSUME Base, NEW denom, NEW wallet, Paying(denom, wallet)
    PROVE  /\ denom \in Denoms /\ ~ st.claimed[wallet] /\ wallet \in Accounts
           /\ st'.claimed = [st.claimed EXCEPT ![wallet] = TRUE]
           /\ st'.totalClaimed = st.totalClaimed + denom
           /\ st.totalClaimed + denom <= st.totalAnnounced
           /\ st'.totalAnnounced = st.totalAnnounced
           /\ st'.deposits = st.deposits /\ st'.nextId = st.nextId
           /\ UNCHANGED <<brought, answer, ours>>
           /\ st'.claimed[wallet] /\ st.claimed \in [Accounts -> BOOLEAN]
           /\ \A a \in Accounts : a # wallet => st'.claimed[a] = st.claimed[a]
<1>1. PICK sender \in Accounts : Mint!Claim(sender, denom, wallet)
  BY DEF Paying
<1>2. wallet \in Accounts /\ UNCHANGED <<brought, answer, ours>> /\ StorageTyped
  BY DEF Paying, Base, ContractTyped
<1>3. /\ denom \in Denoms /\ ~ st.claimed[wallet]
      /\ st'.claimed = [st.claimed EXCEPT ![wallet] = TRUE]
      /\ st'.totalClaimed = st.totalClaimed + denom
      /\ st.totalClaimed + denom <= st.totalAnnounced
      /\ st'.totalAnnounced = st.totalAnnounced
      /\ st'.deposits = st.deposits /\ st'.nextId = st.nextId
  BY <1>1, <1>2, ClaimEffect
<1>4. st.claimed \in [Accounts -> BOOLEAN]
  BY <1>2 DEF StorageTyped
<1> QED BY <1>2, <1>3, <1>4

(* No other step pays. *)
LEMMA Unpaid ==
    ASSUME Base,
           \/ MineDeposit \/ MineAnnounce
           \/ \E value \in OtherValues : OtherDeposits(value)
           \/ \E id \in Ids : WorkflowAnnounces(id)
    PROVE  st'.claimed = st.claimed /\ UNCHANGED <<held, wires>>
<1>1. ASSUME NEW sender, NEW value, NEW wallets, NEW net, Opening(sender, value, wallets, net)
      PROVE  st'.claimed = st.claimed
  BY <1>1, OpenedLedger DEF Base, Opening
<1>2. ASSUME NEW report, NEW sigs, Settling(report, sigs)
      PROVE  st'.claimed = st.claimed
  BY <1>2 DEF Settling, Settles
<1>3. CASE MineDeposit
  BY <1>1, <1>3, MineDepositIs DEF MineDeposit, Mines
<1>4. CASE MineAnnounce
  BY <1>2, <1>4, MineAnnounceIs DEF MineAnnounce, Mines, QuietStep
<1>5. ASSUME NEW value \in OtherValues, OtherDeposits(value)
      PROVE  st'.claimed = st.claimed /\ UNCHANGED <<held, wires>>
  BY <1>1, <1>5, OtherDepositsIs DEF OtherDeposits
<1>6. ASSUME NEW id \in Ids, WorkflowAnnounces(id)
      PROVE  st'.claimed = st.claimed /\ UNCHANGED <<held, wires>>
  BY <1>2, <1>6, WorkflowAnnouncesIs DEF WorkflowAnnounces
<1> QED BY <1>3, <1>4, <1>5, <1>6

(* A command sends one transfer at a time, from a note's wallet. *)
LEMMA ClientWires ==
    ASSUME Base, ClientStep
    PROVE  wires' = wires \/ \E wallet \in Wallets : Wire(wallet)
<1>1. ASSUME NEW notes \in Seq(NoteSet), NEW i \in DOMAIN notes
      PROVE  notes[i].wallet \in Wallets
  <2>1. notes[i] \in NoteSet
    OBVIOUS
  <2> QED BY <2>1 DEF NoteSet
<1>2. ASSUME NEW id \in Ids, Spend(id)
      PROVE  \E wallet \in Wallets : Wire(wallet)
  <2>1. PICK i \in Largest(Notes(id)) : Wire(Notes(id)[i].wallet)
    BY <1>2 DEF Spend
  <2>2. Notes(id) \in Seq(NoteSet) /\ i \in DOMAIN Notes(id)
    BY <1>2, <2>1, Found DEF Base, Spend, Largest
  <2> QED BY <1>1, <2>1, <2>2
<1>3. ASSUME SweepSends
      PROVE  \E wallet \in Wallets : Wire(wallet)
  <2>1. run \in RunSet /\ run.next \in DOMAIN run.notes /\ Wire(ThisNote.wallet)
    BY <1>3 DEF SweepSends, Running, Base, RunTyped
  <2>2. run.notes \in Seq(NoteSet)
    BY <2>1 DEF RunSet
  <2> QED BY <1>1, <2>1, <2>2 DEF ThisNote
<1>4. CASE DeployResets \/ DeploySaves \/ Stop
  BY <1>4 DEF DeployResets, DeploySaves, Stop, chain
<1>5. CASE \E net \in Nets : DepositSends(net)
  BY <1>5 DEF DepositSends
<1>6. CASE DepositSaves \/ MintSaves
  BY <1>6 DEF DepositSaves, MintSaves, chain
<1>7. ASSUME NEW id \in Ids,
             \/ MintSends(id) \/ Sync(id)
             \/ Begin("claim", id) \/ Begin("relay", id) \/ SweepBegins(id)
      PROVE  wires' = wires
  BY <1>7 DEF MintSends, Sync, Begin, SweepBegins, chain
<1>8. CASE ClaimSends \/ ClaimMined \/ RelaySends \/ RelayAnswers
  BY <1>8 DEF ClaimSends, ClaimMined, RelaySends, RelayAnswers, chain
<1>9. CASE SweepSkips \/ WireMined
  BY <1>9 DEF SweepSkips, WireMined, chain
<1> QED BY <1>2, <1>3, <1>4, <1>5, <1>6, <1>7, <1>8, <1>9 DEF ClientStep

LEMMA DustyInit ==
    ASSUME Init
    PROVE  Dusty
<1>1. held = [w \in Wallets |-> 0] /\ wires = {}
  BY DEF Init
<1>2. \A w \in Wallets : ~ st.claimed[w]
  BY ContractInit DEF Accounts
<1> QED BY <1>1, <1>2 DEF Dusty, DustStays

(* A transfer is sent only if the wallet covers it, its cost and the unit   *)
(* that must stay (spend, sweep), and one wallet has one transfer under     *)
(* way.                                                                     *)
LEMMA DustyStep ==
    ASSUME Base, Dusty, [Next]_vars
    PROVE  Dusty'
<1>0. Fee \in Nat /\ Wallets \subseteq Accounts
  BY CliAssumption DEF Accounts
<1>1. /\ held \in [Wallets -> Nat]
      /\ \A x \in wires :
           /\ x.from \in Wallets /\ x.value \in Nat
           /\ x.value + Fee + Dust <= held[x.from]
      /\ \A x, y \in wires : x.from = y.from => x = y
      /\ \A w \in Wallets : st.claimed[w] => held[w] > 0
  BY DEF Dusty, DustStays
<1>2. ASSUME UNCHANGED <<held, wires>>, st'.claimed = st.claimed
      PROVE  Dusty'
  BY <1>1, <1>2 DEF Dusty, DustStays
<1>3. ASSUME NEW wallet \in Wallets, Wire(wallet), st' = st
      PROVE  Dusty'
  <2> DEFINE new == [from |-> wallet, value |-> held[wallet] - Fee - Dust]
  <2>1. /\ held' = held /\ wires' = wires \cup {new}
        /\ held[wallet] > Fee + Dust /\ \A x \in wires : x.from # wallet
    BY <1>3 DEF Wire, Affords
  <2>2. new.from = wallet /\ new.value \in Nat /\ new.value + Fee + Dust <= held[wallet]
    <3>1. held[wallet] \in Nat
      BY <1>1
    <3> QED BY <1>0, <2>1, <3>1 DEF Dust
  <2> HIDE DEF new
  <2> QED BY <1>1, <1>3, <2>1, <2>2 DEF Dusty, DustStays
<1>4. ASSUME NEW denom, NEW wallet, Paying(denom, wallet),
             held' = [held EXCEPT ![wallet] = @ + denom], wires' = wires
      PROVE  Dusty'
  <2>1. /\ denom \in Nat \ {0} /\ wallet \in Accounts
        /\ \A a \in Accounts : a # wallet => st'.claimed[a] = st.claimed[a]
    BY <1>4, PaidWallet, Smallest
  <2>2. /\ \A w \in Wallets : held'[w] = IF w = wallet THEN held[w] + denom ELSE held[w]
        /\ held' \in [Wallets -> Nat]
    <3>1. held \in [Wallets -> Nat] /\ held' = [held EXCEPT ![wallet] = held[wallet] + denom]
      BY <1>1, <1>4
    <3>2. \A w \in Wallets : held'[w] = IF w = wallet THEN held[w] + denom ELSE held[w]
      BY <3>1
    <3>3. \A w \in Wallets : held'[w] \in Nat
      BY <2>1, <3>1, <3>2
    <3> QED BY <3>1, <3>2, <3>3
  <2>3. \A w \in Wallets : held[w] \in Nat /\ held'[w] \in Nat /\ held[w] <= held'[w]
    BY <1>1, <2>1, <2>2
  <2>4. \A x \in wires' : /\ x.from \in Wallets /\ x.value \in Nat
                          /\ x.value + Fee + Dust <= held'[x.from]
    <3> SUFFICES ASSUME NEW x \in wires PROVE x.value + Fee + Dust <= held'[x.from]
      BY <1>1, <1>4
    <3>1. x.from \in Wallets /\ x.value \in Nat /\ x.value + Fee + Dust <= held[x.from]
      BY <1>1
    <3> QED BY <1>0, <2>3, <3>1 DEF Dust
  <2>5. \A w \in Wallets : st'.claimed[w] => held'[w] > 0
    <3> SUFFICES ASSUME NEW w \in Wallets, st'.claimed[w] PROVE held'[w] > 0
      OBVIOUS
    <3>1. CASE w = wallet
      BY <1>1, <2>1, <2>2, <3>1
    <3>2. CASE w # wallet
      BY <1>0, <1>1, <2>1, <2>2, <3>2
    <3> QED BY <3>1, <3>2
  <2> QED BY <1>1, <1>4, <2>2, <2>4, <2>5 DEF Dusty, DustStays
<1>5. ASSUME NEW x \in wires, NEW cost \in 0 .. Fee, WireLands(x, cost)
      PROVE  Dusty'
  <2>1. wires' = wires \ {x} /\ st' = st /\ held' = [held EXCEPT ![x.from] = @ - x.value - cost]
    BY <1>5, WireQuiet DEF WireLands, QuietStep
  <2>2. /\ x.from \in Wallets /\ x.value \in Nat /\ held[x.from] \in Nat
        /\ x.value + Fee + Dust <= held[x.from] /\ cost \in Nat /\ cost <= Fee
    BY <1>0, <1>1
  <2>3. held[x.from] - x.value - cost \in Nat /\ held[x.from] - x.value - cost > 0
    BY <1>0, <2>2 DEF Dust
  <2>4. /\ held'[x.from] = held[x.from] - x.value - cost
        /\ \A w \in Wallets : w # x.from => held'[w] = held[w]
        /\ held' \in [Wallets -> Nat]
    BY <1>1, <2>1, <2>2, <2>3
  <2>5. \A y \in wires' : y \in wires /\ y.from # x.from
    BY <1>1, <2>1
  <2>6. \A w \in Wallets : st'.claimed[w] => held'[w] > 0
    BY <1>1, <2>1, <2>3, <2>4
  <2> QED BY <1>1, <2>1, <2>4, <2>5, <2>6 DEF Dusty, DustStays
<1>6. CASE ClientStep
  <2>1. st' = st /\ held' = held
    BY <1>6, ClientQuiet
  <2> QED BY <1>2, <1>3, <1>6, <2>1, ClientWires
<1>7. CASE UNCHANGED vars
  BY <1>2, <1>7 DEF vars, chain, deposits, contract
<1>8. CASE \/ MineDeposit \/ MineAnnounce
           \/ \E value \in OtherValues : OtherDeposits(value)
           \/ \E id \in Ids : WorkflowAnnounces(id)
  BY <1>2, <1>8, Unpaid
<1>9. CASE MineClaim
  <2>1. wires' = wires
    BY <1>9 DEF MineClaim, Mines
  <2>2. PICK tx : tx = Head(mempool)
    OBVIOUS
  <2>3. \/ Paying(tx.denom, tx.wallet) /\ held' = [held EXCEPT ![tx.wallet] = @ + tx.denom]
        \/ QuietStep /\ held' = held
    BY <1>9, <2>2, MineClaimIs
  <2> QED BY <1>2, <1>4, <2>1, <2>3 DEF QuietStep
<1>10. ASSUME NEW sig \in shown, RelayerClaims(sig) PROVE Dusty'
  <2>1. sig[2] \in Accounts
    BY DEF Base, ShownTyped
  <2>2. Paying(sig[1], sig[2]) /\ held' = [held EXCEPT ![sig[2]] = @ + sig[1]]
    BY <1>10, <2>1, RelayerClaimsIs
  <2>3. wires' = wires
    BY <1>10 DEF RelayerClaims
  <2> QED BY <1>4, <2>2, <2>3
<1>11. CASE Block
  BY <1>2, <1>11, BlockQuiet DEF QuietStep
<1> QED BY <1>5, <1>6, <1>7, <1>8, <1>9, <1>10, <1>11, StepKinds

(* No transfer empties a wallet that was paid, whatever it cost. *)
THEOREM DustStaysAlways == Spec => []DustStays
<1>1. Base /\ Dusty /\ [Next]_vars => Dusty'
  BY DustyStep
<1>2. Dusty => DustStays
  BY DEF Dusty
<1> QED BY <1>1, <1>2, BaseAlways, DustyInit, PTL DEF Spec

-----------------------------------------------------------------------------
(* Records. *)

RecordsSame ==
    /\ DOMAIN file'.deposits = DOMAIN file.deposits
    /\ \A k \in DOMAIN file.deposits :
         /\ file'.deposits[k].id = file.deposits[k].id
         /\ file'.deposits[k].amount = file.deposits[k].amount
         /\ WalletsOf(file'.deposits[k].notes) = WalletsOf(file.deposits[k].notes)

(* The steps that write the file. *)
LEMMA FileWriters ==
    ASSUME Base, [Next]_vars
    PROVE  \/ DeployResets \/ DepositSaves \/ MintSaves
           \/ \E id \in Ids : Sync(id)
           \/ ClaimMined \/ RelayAnswers
           \/ file'.deposits = file.deposits
<1>1. ASSUME DeploySaves PROVE file'.deposits = file.deposits
  <2>1. file' = [file EXCEPT !.deployed = TRUE] /\ FileTyped
    BY <1>1 DEF DeploySaves, Base
  <2> QED BY <2>1 DEF FileTyped
<1>2. CASE Stop \/ \E net \in Nets : DepositSends(net)
  BY <1>2 DEF Stop, DepositSends
<1>3. ASSUME NEW id \in Ids,
             \/ MintSends(id) \/ Begin("claim", id) \/ Begin("relay", id)
             \/ Spend(id) \/ SweepBegins(id) \/ WorkflowAnnounces(id)
      PROVE  file' = file
  BY <1>3 DEF MintSends, Begin, Spend, Wire, SweepBegins, WorkflowAnnounces, client
<1>4. CASE ClaimSends \/ RelaySends \/ SweepSends \/ SweepSkips \/ WireMined
  BY <1>4 DEF ClaimSends, RelaySends, SweepSends, Wire, SweepSkips, WireMined
<1>5. CASE MineDeposit \/ MineAnnounce \/ MineClaim
  BY <1>5 DEF MineDeposit, MineAnnounce, MineClaim, Mines
<1>6. ASSUME \/ \E value \in OtherValues : OtherDeposits(value)
             \/ \E sig \in shown : RelayerClaims(sig)
             \/ \E x \in wires, cost \in 0 .. Fee : WireLands(x, cost)
             \/ Block \/ UNCHANGED vars
      PROVE  file' = file
  BY <1>6 DEF OtherDeposits, RelayerClaims, WireLands, Block, client, vars
<1> QED BY <1>1, <1>2, <1>3, <1>4, <1>5, <1>6 DEF Next

(* What becomes of the records: emptied, one more, or the notes of one.     *)
LEMMA FileSteps ==
    ASSUME Base, [Next]_vars
    PROVE  DeployResets \/ DepositSaves \/ RecordsSame
<1>1. ASSUME file'.deposits = file.deposits PROVE RecordsSame
  BY <1>1 DEF RecordsSame
<1>2. ASSUME NEW id, findDeposit(id) # 0, NEW notes \in Seq(NoteSet),
             WalletsOf(notes) = WalletsOf(Notes(id)), file' = Saved(id, notes)
      PROVE  RecordsSame
  BY <1>2, SavedEffect DEF Base, RecordsSame
<1>3. ASSUME MintSaves PROVE RecordsSame
  <2>1. PICK id, notes : id = run.id /\ notes = run.notes
    OBVIOUS
  <2>2. run.cmd = "mint" /\ file' = Saved(id, notes)
    BY <1>3, <2>1 DEF MintSaves, Running
  <2> QED BY <1>2, <2>1, <2>2, InMemory
<1>4. ASSUME NEW id \in Ids, Sync(id) PROVE RecordsSame
  <2>1. PICK notes : notes = SyncedNotes(Notes(id), answer[id])
    OBVIOUS
  <2>2. findDeposit(id) # 0 /\ file' = Saved(id, notes)
    BY <1>4, <2>1, SyncIs
  <2>3. notes \in Seq(NoteSet) /\ WalletsOf(notes) = WalletsOf(Notes(id))
    BY <1>4, <2>1, SyncIs, SyncedNotesTyped
  <2> QED BY <1>2, <2>2, <2>3
<1>5. ASSUME ClaimMined \/ RelayAnswers PROVE RecordsSame
  <2>1. PICK id, notes : id = run.id /\ notes = PaidNote(run.notes, run.next)
    OBVIOUS
  <2>2. run.cmd \in {"claim", "relay"} /\ Claimed
    BY <1>5 DEF ClaimMined, RelayAnswers, Running
  <2>3. /\ notes \in Seq(NoteSet) /\ WalletsOf(notes) = WalletsOf(Notes(id))
        /\ findDeposit(id) # 0
        /\ file' = file \/ file' = Saved(id, notes)
    BY <2>1, <2>2, ClaimedIs
  <2> QED BY <1>1, <1>2, <2>3
<1> QED BY <1>1, <1>3, <1>4, <1>5, FileWriters

LEMMA RecordsInit ==
    ASSUME Init
    PROVE  Records
<1>1. file.deposits = <<>> /\ DOMAIN file.deposits = {}
  BY DEF Init
<1> QED BY <1>1 DEF Records, RecordIsTheDeposit

(* A deposit that is alone in its block was alone before. *)
LEMMA AloneBefore ==
    ASSUME Evolves, NEW id \in Opened, Alone(id)'
    PROVE  Alone(id)
<1> SUFFICES ASSUME NEW j \in Opened, BlockOf(j) = BlockOf(id)
             PROVE  j = id
  BY DEF Alone, Opened
<1>1. j \in Opened' /\ BlockOf(j)' = BlockOf(id)'
  BY DEF Evolves
<1> QED BY <1>1 DEF Alone, Opened

(* A record is written for the first deposit of the block of the receipt.   *)
(* With a block for each deposit of a local chain it is the right one, and  *)
(* elsewhere the property excepts a block that two depositors share.        *)
LEMMA RecordsStep ==
    ASSUME Base, Records, [Next]_vars
    PROVE  Records'
<1>1. Evolves
  BY ContractKept
<1> SUFFICES ASSUME NEW k \in DOMAIN file'.deposits, NEW rec, NEW id,
                    rec = file'.deposits[k], id = rec.id
             PROVE  /\ id \in Opened'
                    /\ Alone(id)' => /\ WalletsOf(rec.notes) = brought'[id].wallets
                                     /\ rec.amount = contractMintable(st'.deposits[id].amount)
  BY DEF Records, RecordIsTheDeposit, Alone, BlockOf
<1>2. CASE DeployResets
  <2>1. file'.deposits = <<>> /\ DOMAIN file'.deposits = {}
    BY <1>2 DEF DeployResets
  <2> QED BY <2>1
<1>3. ASSUME NEW d \in Opened, NEW wallets, NEW amount,
             Alone(d) => /\ wallets = brought[d].wallets
                          /\ amount = contractMintable(st.deposits[d].amount)
      PROVE  /\ d \in Opened'
             /\ Alone(d)' => /\ wallets = brought'[d].wallets
                              /\ amount = contractMintable(st'.deposits[d].amount)
  <2>1. d \in Opened' /\ brought'[d] = brought[d] /\ st'.deposits[d].amount = st.deposits[d].amount
    BY <1>1 DEF Evolves
  <2> QED BY <1>1, <1>3, <2>1, AloneBefore
<1>4. \A l \in DOMAIN file.deposits :
        LET old == file.deposits[l]
        IN  /\ old.id \in Opened
            /\ Alone(old.id) => /\ WalletsOf(old.notes) = brought[old.id].wallets
                                /\ old.amount = contractMintable(st.deposits[old.id].amount)
  BY DEF Records, RecordIsTheDeposit
<1>5. /\ id \in Opened
      /\ Alone(id) => /\ WalletsOf(rec.notes) = brought[id].wallets
                      /\ rec.amount = contractMintable(st.deposits[id].amount)
      \/ DeployResets
  <2>1. CASE RecordsSame
    BY <1>4, <2>1 DEF RecordsSame
  <2>2. CASE DepositSaves
    <3>1. PICK last \in RecordSet :
            /\ file'.deposits = Append(file.deposits, last)
            /\ last.id \in Opened /\ BlockOf(last.id) = run.block - 1
            /\ last.amount = run.amount /\ last.notes = run.notes
            /\ \E d \in Opened : /\ BlockOf(d) = run.block - 1
                                 /\ brought[d].wallets = WalletsOf(run.notes)
                                 /\ contractMintable(st.deposits[d].amount) = run.amount
      BY <2>2, DepositSavesIs
    <3>2. file.deposits \in Seq(RecordSet)
      BY DEF Base, FileTyped
    <3>3. (k \in DOMAIN file.deposits /\ rec = file.deposits[k]) \/ rec = last
      BY <3>1, <3>2
    <3>4. CASE k \in DOMAIN file.deposits /\ rec = file.deposits[k]
      BY <1>4, <3>4
    <3>5. CASE rec = last
      <4>1. PICK d \in Opened : /\ BlockOf(d) = run.block - 1
                                /\ brought[d].wallets = WalletsOf(run.notes)
                                /\ contractMintable(st.deposits[d].amount) = run.amount
        BY <3>1
      <4>2. Alone(id) => d = id
        BY <3>1, <3>5, <4>1 DEF Alone, Opened
      <4> QED BY <3>1, <3>5, <4>1, <4>2
    <3> QED BY <3>3, <3>4, <3>5
  <2> QED BY <2>1, <2>2, FileSteps
<1> QED BY <1>2, <1>3, <1>5

(* A record is the deposit that it names, when the block holds no other:    *)
(* its points, and the value that will be minted for it.                    *)
THEOREM RecordIsTheDepositAlways == Spec => []RecordIsTheDeposit
<1>1. Records => RecordIsTheDeposit
  BY DEF Records
<1> QED BY <1>1, RecordsInit, RecordsStep, BaseAlways, PTL DEF Spec

-----------------------------------------------------------------------------
(* Signatures. *)

(* The steps that change what a command has in memory. *)
LEMMA RunWriters ==
    ASSUME Base, [Next]_vars
    PROVE  \/ run'.cmd \in {"none", "deploy", "spend", "sweep"}
           \/ \E net \in Nets : DepositSends(net)
           \/ \E id \in Ids : MintSends(id) \/ Begin("claim", id) \/ Begin("relay", id)
           \/ ClaimMined \/ RelayAnswers
           \/ /\ run'.cmd = run.cmd /\ run'.id = run.id
              /\ run'.notes = run.notes /\ run'.next = run.next
<1>0. run \in RunSet
  BY DEF Base, RunTyped
<1>1. CASE DeployResets \/ DeploySaves \/ Stop \/ DepositSaves \/ MintSaves
  <2>1. run' = Idle \/ run' = [Idle EXCEPT !.cmd = "deploy"]
    BY <1>1 DEF DeployResets, DeploySaves, Stop, DepositSaves, MintSaves
  <2>2. Idle.cmd = "none" /\ [Idle EXCEPT !.cmd = "deploy"].cmd = "deploy"
    BY DEF Idle
  <2> QED BY <2>1, <2>2
<1>2. ASSUME NEW id \in Ids, Spend(id) \/ SweepBegins(id)
      PROVE  run'.cmd \in {"spend", "sweep"}
  BY <1>2 DEF Spend, SweepBegins, Idle
<1>3. ASSUME NEW id \in Ids, Sync(id) \/ WorkflowAnnounces(id)
      PROVE  run' = run
  BY <1>3 DEF Sync, WorkflowAnnounces, client
<1>4. CASE ClaimSends \/ RelaySends \/ SweepSends
  BY <1>0, <1>4 DEF ClaimSends, RelaySends, SweepSends, RunSet
<1>5. CASE SweepSkips \/ WireMined
  <2>1. run.cmd \in {"spend", "sweep"} /\ NextWallet
    BY <1>5 DEF SweepSkips, WireMined, Running
  <2> QED BY <2>1, NextWalletTyped
<1>6. CASE MineDeposit \/ MineAnnounce \/ MineClaim
  <2>1. run' = run \/ run' = [run EXCEPT !.block = now + 1]
    BY <1>6 DEF MineDeposit, MineAnnounce, MineClaim, Mines
  <2> QED BY <1>0, <2>1 DEF RunSet
<1>7. ASSUME \/ \E value \in OtherValues : OtherDeposits(value)
             \/ \E sig \in shown : RelayerClaims(sig)
             \/ \E x \in wires, cost \in 0 .. Fee : WireLands(x, cost)
             \/ Block \/ UNCHANGED vars
      PROVE  run' = run
  BY <1>7 DEF OtherDeposits, RelayerClaims, WireLands, Block, client, vars
<1> QED BY <1>1, <1>2, <1>3, <1>4, <1>5, <1>6, <1>7 DEF Next

(* The steps that change the mempool: one transaction more, or one less.    *)
LEMMA MempoolWriters ==
    ASSUME Base, [Next]_vars
    PROVE  \/ \E net \in Nets : DepositSends(net)
           \/ \E id \in Ids : MintSends(id)
           \/ ClaimSends
           \/ /\ mempool # <<>> /\ mempool' = Tail(mempool)
              /\ MineDeposit \/ MineAnnounce \/ MineClaim
           \/ mempool' = mempool
<1>1. CASE DeployResets \/ DeploySaves \/ Stop \/ DepositSaves \/ MintSaves
  BY <1>1 DEF DeployResets, DeploySaves, Stop, DepositSaves, MintSaves, chain
<1>2. ASSUME NEW id \in Ids,
             \/ Sync(id) \/ Begin("claim", id) \/ Begin("relay", id)
             \/ Spend(id) \/ SweepBegins(id) \/ WorkflowAnnounces(id)
      PROVE  mempool' = mempool
  BY <1>2 DEF Sync, Begin, Spend, Wire, SweepBegins, WorkflowAnnounces, chain
<1>3. CASE ClaimMined \/ RelaySends \/ RelayAnswers \/ SweepSends \/ SweepSkips \/ WireMined
  BY <1>3 DEF ClaimMined, RelaySends, RelayAnswers, SweepSends, Wire, SweepSkips, WireMined, chain
<1>4. CASE MineDeposit \/ MineAnnounce \/ MineClaim
  BY <1>4 DEF MineDeposit, MineAnnounce, MineClaim, Mines
<1>5. ASSUME \/ \E value \in OtherValues : OtherDeposits(value)
             \/ \E sig \in shown : RelayerClaims(sig)
             \/ \E x \in wires, cost \in 0 .. Fee : WireLands(x, cost)
             \/ Block \/ UNCHANGED vars
      PROVE  mempool' = mempool
  BY <1>5 DEF OtherDeposits, RelayerClaims, WireLands, Block, vars, chain
<1> QED BY <1>1, <1>2, <1>3, <1>4, <1>5 DEF Next

(* A transaction of the mempool is an old one or the new one. *)
LEMMA TransmitAt ==
    ASSUME MempoolTyped, NEW tx, Transmit(tx), NEW k \in DOMAIN mempool'
    PROVE  /\ k \in DOMAIN mempool /\ mempool'[k] = mempool[k]
           \/ /\ k = Len(mempool) + 1 /\ mempool'[k] = tx
<1>1. mempool \in Seq(Txs) /\ mempool' = Append(mempool, tx)
  BY DEF MempoolTyped, Transmit
<1>2. /\ Len(mempool) \in Nat /\ DOMAIN mempool = 1 .. Len(mempool)
      /\ DOMAIN mempool' = 1 .. Len(mempool) + 1
      /\ mempool'[Len(mempool) + 1] = tx
      /\ \A i \in 1 .. Len(mempool) : mempool'[i] = mempool[i]
  BY <1>1
<1> QED BY <1>2

(* A block takes the first transaction; the others move up.                 *)
LEMMA TailAt ==
    ASSUME MempoolTyped, mempool # <<>>, mempool' = Tail(mempool), NEW k \in DOMAIN mempool'
    PROVE  k \in Nat /\ k + 1 \in DOMAIN mempool /\ mempool'[k] = mempool[k + 1]
<1>1. mempool \in Seq(Txs)
  BY DEF MempoolTyped
<1>2. /\ Tail(mempool) \in Seq(Txs) /\ Len(Tail(mempool)) = Len(mempool) - 1
      /\ \A i \in 1 .. Len(Tail(mempool)) : Tail(mempool)[i] = mempool[i + 1]
  BY <1>1, HeadTailProperties
<1> QED BY <1>1, <1>2

(* What the deposit brought and what was announced stay. *)
LEMMA SplitSigsKept ==
    ASSUME Evolves, NEW id \in Opened
    PROVE  SplitSigs(id)' = SplitSigs(id)
BY DEF Evolves, SplitSigs

LEMMA AnnouncedOpened ==
    ASSUME Base, NEW id \in Ids, NEW i \in DOMAIN answer[id]
    PROVE  id \in Opened /\ st.deposits[id].status = "Announced"
<1>1. st.deposits[id].status = "Announced"
  BY DEF Base, Ledger
<1> QED BY <1>1 DEF Base, Ledger

(* What is announced stays announced.                                       *)
LEMMA AnnouncedKept ==
    ASSUME Base, Evolves, NEW sig, Announced(sig)
    PROVE  Announced(sig)'
<1>1. PICK id \in Ids : \E i \in DOMAIN answer[id] : answer[id][i] = sig
  BY DEF Announced
<1>2. answer'[id] = answer[id]
  BY <1>1, AnnouncedOpened DEF Evolves
<1> QED BY <1>1, <1>2 DEF Announced

(* A good note stays good, whatever the chain does.                         *)
LEMMA GoodKept ==
    ASSUME Base, Evolves, NEW id \in Ids, NEW note, Good(id, note)
    PROVE  Good(id, note)'
<1>1. ASSUME note.status = "ready"
      PROVE  note.sig = <<note.denom, note.wallet>> /\ \E i \in DOMAIN answer'[id] : answer'[id][i] = note.sig
  <2>1. note.sig = <<note.denom, note.wallet>> /\ \E i \in DOMAIN answer[id] : answer[id][i] = note.sig
    BY <1>1 DEF Good
  <2>2. answer'[id] = answer[id]
    BY <2>1, AnnouncedOpened DEF Evolves
  <2> QED BY <2>1, <2>2
<1> QED BY <1>1 DEF Good

LEMMA GoodSoonKept ==
    ASSUME Evolves, NEW id \in Opened, NEW note, GoodSoon(id, note)
    PROVE  GoodSoon(id, note)'
BY SplitSigsKept DEF GoodSoon

LEMMA SignedInit ==
    ASSUME Init
    PROVE  Signed
<1>1. /\ file.deposits = <<>> /\ DOMAIN file.deposits = {} /\ run.cmd = "none"
      /\ mempool = <<>> /\ DOMAIN mempool = {} /\ shown = {}
  <2>1. file = [deployed |-> FALSE, deposits |-> <<>>] /\ mempool = <<>> /\ shown = {} /\ run = Idle
    BY DEF Init
  <2>2. DOMAIN <<>> = {}
    OBVIOUS
  <2> QED BY <2>1, <2>2 DEF Idle
<1>2. \A id \in Ids : st.deposits[id].status # "Announced"
  BY ContractInit
<1> QED BY <1>1, <1>2 DEF Signed, SplitAnnounced, FileGood, RunGood, MempoolGood, ShownGood

(* Who announces. *)
LEMMA AnnouncedBy ==
    ASSUME Base, [Next]_vars, NEW id \in Ids,
           st.deposits[id].status # "Announced", st'.deposits[id].status = "Announced"
    PROVE  /\ id \in Opened
           /\ \/ answer'[id] = SplitSigs(id) /\ Fits(id)
              \/ /\ 1 \in DOMAIN mempool /\ mempool[1].kind = "announce"
                 /\ mempool[1].report.id = id /\ answer'[id] = mempool[1].sigs
<1>1. ASSUME NEW sender, NEW value, NEW wallets, NEW net, Opening(sender, value, wallets, net)
      PROVE  FALSE
  <2>1. /\ st.nextId \in Ids
        /\ st'.deposits[st.nextId] = NewRecord(sender, value, Len(wallets))
        /\ \A d \in Ids : d # st.nextId => st'.deposits[d] = st.deposits[d]
    BY <1>1, OpenedLedger DEF Base, Opening
  <2> QED BY <2>1 DEF NewRecord
<1>2. ASSUME NEW report, NEW sigs, Settling(report, sigs)
      PROVE  report.id = id /\ answer'[id] = sigs /\ id \in Opened
  <2>1. /\ report.id \in Opened /\ answer'[report.id] = sigs
        /\ \A d \in Ids : d # report.id => st'.deposits[d] = st.deposits[d]
    BY <1>2, SettledLedger DEF Base, Settling
  <2> QED BY <2>1
<1>3. ASSUME st'.deposits = st.deposits PROVE FALSE
  BY <1>3
<1>4. CASE ClientStep \/ UNCHANGED vars
  BY <1>3, <1>4, ClientQuiet DEF vars, chain, deposits, contract
<1>5. CASE MineDeposit
  BY <1>1, <1>5, MineDepositIs
<1>6. CASE MineAnnounce
  <2>1. PICK tx : tx = Head(mempool)
    OBVIOUS
  <2>2. tx \in AnnounceTxs /\ mempool # <<>> /\ Settling(tx.report, tx.sigs)
    BY <1>3, <1>6, <2>1, MineAnnounceIs DEF QuietStep
  <2>3. 1 \in DOMAIN mempool /\ tx = mempool[1] /\ tx.kind = "announce"
    BY <2>1, <2>2, HeadTyped DEF Base, AnnounceTxs
  <2> QED BY <1>2, <2>2, <2>3
<1>7. CASE MineClaim
  <2>1. PICK tx : tx = Head(mempool)
    OBVIOUS
  <2>2. Paying(tx.denom, tx.wallet) \/ QuietStep
    BY <1>7, <2>1, MineClaimIs
  <2> QED BY <1>3, <2>2, PaidWallet DEF QuietStep
<1>8. ASSUME NEW value \in OtherValues, OtherDeposits(value) PROVE FALSE
  BY <1>1, <1>8, OtherDepositsIs
<1>9. ASSUME NEW d \in Ids, WorkflowAnnounces(d)
      PROVE  id \in Opened /\ answer'[id] = SplitSigs(id) /\ Fits(id)
  <2>1. Settling(Report(d, WorkflowSplit(d)), SplitSigs(d)) /\ Report(d, WorkflowSplit(d)).id = d /\ Fits(d)
    BY <1>9, WorkflowAnnouncesIs DEF Report
  <2> QED BY <1>2, <2>1
<1>10. ASSUME NEW sig \in shown, RelayerClaims(sig) PROVE FALSE
  <2>1. sig[2] \in Accounts
    BY DEF Base, ShownTyped
  <2> QED BY <1>3, <1>10, <2>1, RelayerClaimsIs, PaidWallet
<1>11. CASE (\E x \in wires, cost \in 0 .. Fee : WireLands(x, cost)) \/ Block
  BY <1>3, <1>11, WireQuiet, BlockQuiet DEF QuietStep
<1> QED BY <1>4, <1>5, <1>6, <1>7, <1>8, <1>9, <1>10, <1>11, StepKinds

(* An announcement of either mint is the split of the deposit over its      *)
(* points.                                                                  *)
LEMMA SplitAnnouncedStep ==
    ASSUME Base, Signed, [Next]_vars
    PROVE  SplitAnnounced'
<1>1. Evolves
  BY ContractKept
<1> SUFFICES ASSUME NEW id \in Ids, st'.deposits[id].status = "Announced"
             PROVE  answer'[id] = SplitSigs(id)'
  BY DEF SplitAnnounced
<1>2. CASE st.deposits[id].status = "Announced"
  <2>1. id \in Opened /\ answer[id] = SplitSigs(id)
    BY <1>2 DEF Base, Ledger, Signed, SplitAnnounced
  <2> QED BY <1>1, <1>2, <2>1, SplitSigsKept DEF Evolves
<1>3. CASE st.deposits[id].status # "Announced"
  <2>1. /\ id \in Opened
        /\ \/ answer'[id] = SplitSigs(id)
           \/ /\ 1 \in DOMAIN mempool /\ mempool[1].kind = "announce"
              /\ mempool[1].report.id = id /\ answer'[id] = mempool[1].sigs
    BY <1>3, AnnouncedBy
  <2>2. answer'[id] = SplitSigs(id)
    BY <2>1 DEF Signed, MempoolGood
  <2> QED BY <1>1, <2>1, <2>2, SplitSigsKept
<1> QED BY <1>2, <1>3

(* The deposit of a local chain is alone in its block, so mint signs over   *)
(* its own points and for its own value.                                    *)
LEMMA MintSignsSplit ==
    ASSUME Base, Records, NEW id \in Ids, MintSends(id)
    PROVE  LET split == splitGreedy[file.deposits[findDeposit(id)].amount]
           IN  /\ id \in Opened
               /\ DOMAIN SplitSigs(id) = DOMAIN split
               /\ SplitSigs(id) = [i \in DOMAIN split |-> <<split[i], Notes(id)[i].wallet>>]
               /\ Fits(id)
<1> DEFINE rec == file.deposits[findDeposit(id)]
           split == splitGreedy[rec.amount]
<1>1. /\ ours /\ st.deposits[id].status = "Pending" /\ findDeposit(id) # 0
      /\ split \in Seq(Denoms) /\ Notes(id) \in Seq(NoteSet) /\ Len(split) <= Len(Notes(id))
  BY MintSendsIs
<1>2. id \in Opened
  BY <1>1 DEF Base, Ledger
<1>3. Alone(id)
  BY <1>1, <1>2 DEF Base, Ledger, Alone, Opened
<1>4. findDeposit(id) \in DOMAIN file.deposits /\ rec.id = id /\ rec.notes = Notes(id)
  BY <1>1, Found DEF Base, Notes
<1>5. WalletsOf(Notes(id)) = brought[id].wallets /\ rec.amount = contractMintable(st.deposits[id].amount)
  BY <1>3, <1>4 DEF Records, RecordIsTheDeposit
<1>6. SplitSigs(id) = [i \in DOMAIN split |-> <<split[i], WalletsOf(Notes(id))[i]>>]
  BY <1>5 DEF SplitSigs, SplitOver
<1> HIDE DEF split, rec
<1>7. DOMAIN split \subseteq DOMAIN Notes(id)
  BY <1>1
<1>8. \A i \in DOMAIN split : WalletsOf(Notes(id))[i] = Notes(id)[i].wallet
  BY <1>1, <1>7, WalletsOfSeq
<1>9. SplitSigs(id) = [i \in DOMAIN split |-> <<split[i], Notes(id)[i].wallet>>]
  BY <1>6, <1>8
<1>10. Fits(id)
  <2>1. DOMAIN WalletsOf(Notes(id)) = DOMAIN Notes(id)
    BY <1>1, WalletsOfSeq
  <2>2. DOMAIN SplitSigs(id) = DOMAIN split
    BY <1>9
  <2> QED BY <1>5, <1>7, <2>1, <2>2 DEF Fits
<1> QED BY <1>2, <1>9, <1>10 DEF split, rec

(* A note of the file that a command finds. *)
LEMMA FoundGood ==
    ASSUME Base, Signed, NEW id, findDeposit(id) # 0, NEW i \in DOMAIN Notes(id)
    PROVE  Good(id, Notes(id)[i])
<1>1. findDeposit(id) \in DOMAIN file.deposits /\ file.deposits[findDeposit(id)].id = id
  BY Found DEF Base
<1> QED BY <1>1 DEF Signed, FileGood, Notes

(* What claim and relay have in memory after a payment. *)
LEMMA PaidNotesGood ==
    ASSUME Base, Signed, NEW id, id = run.id, run.cmd \in {"claim", "relay"}, Claimed,
           NEW i \in DOMAIN PaidNote(run.notes, run.next)
    PROVE  Good(id, PaidNote(run.notes, run.next)[i])
<1>1. run.notes \in Seq(NoteSet) /\ run.next \in DOMAIN run.notes
  BY ClaimedIs
<1>2. /\ i \in DOMAIN run.notes
      /\ \/ PaidNote(run.notes, run.next)[i] = run.notes[i]
         \/ PaidNote(run.notes, run.next)[i].status = "claimed"
  BY <1>1, PaidNoteTyped
<1>3. Good(id, run.notes[i])
  BY <1>2 DEF Signed, RunGood
<1> QED BY <1>2, <1>3 DEF Good

(* A command holds no note as ready whose signature is not its own.         *)
LEMMA RunGoodStep ==
    ASSUME Base, Records, Signed, [Next]_vars
    PROVE  RunGood'
<1>1. Evolves /\ Opened \subseteq Ids
  BY ContractKept, LedgerNumbers DEF Base
<1>2. ASSUME run'.cmd \in {"none", "deploy", "spend", "sweep"}
      PROVE  RunGood'
  BY <1>2 DEF RunGood
<1>3. ASSUME NEW net \in Nets, DepositSends(net)
      PROVE  RunGood'
  <2> DEFINE n == pointCount(grossFor(net))
             notes == [i \in 1 .. n |-> Note(<<tries + 1, i>>)]
  <2>1. run'.cmd = "deposit" /\ run'.notes = notes
    BY <1>3 DEF DepositSends, Idle
  <2>2. \A i \in DOMAIN notes : notes[i].status = "awaiting-mint"
    BY DEF Note
  <2> HIDE DEF notes
  <2> QED BY <2>1, <2>2 DEF RunGood
<1>4. ASSUME NEW id \in Ids, MintSends(id)
      PROVE  RunGood'
  <2>0. PICK split, notes : split = splitGreedy[file.deposits[findDeposit(id)].amount] /\ notes = Notes(id)
    OBVIOUS
  <2>a. PICK signed : signed = SignedNotes(split, notes)
    OBVIOUS
  <2>1. /\ split \in Seq(Denoms) /\ notes \in Seq(NoteSet) /\ Len(split) <= Len(notes)
        /\ st.deposits[id].status = "Pending" /\ findDeposit(id) # 0
        /\ run' = [Idle EXCEPT !.cmd = "mint", !.id = id, !.at = "receipt", !.notes = signed]
    BY <1>4, <2>0, <2>a, MintSendsIs
  <2>2. /\ id \in Opened /\ DOMAIN SplitSigs(id) = DOMAIN split
        /\ SplitSigs(id) = [i \in DOMAIN split |-> <<split[i], notes[i].wallet>>]
    BY <1>4, <2>0, MintSignsSplit
  <2>3. answer[id] = <<>>
    BY <2>1 DEF Base, Ledger
  <2>4. \A i \in DOMAIN notes : notes[i].status # "ready"
    <3>1. \A i \in DOMAIN notes : Good(id, notes[i])
      BY <2>0, <2>1, FoundGood
    <3>2. DOMAIN answer[id] = {}
      BY <2>3
    <3> QED BY <3>1, <3>2 DEF Good
  <2>5. /\ DOMAIN signed = DOMAIN notes
        /\ \A i \in DOMAIN notes : i \notin DOMAIN split => signed[i] = notes[i]
        /\ \A i \in DOMAIN split :
             /\ signed[i].status = "ready" /\ signed[i].denom = split[i]
             /\ signed[i].wallet = notes[i].wallet
             /\ signed[i].sig = <<split[i], notes[i].wallet>>
    <3>1. split \in Seq(Denoms) /\ notes \in Seq(NoteSet) /\ Len(split) <= Len(notes)
      BY <2>1
    <3> QED BY <2>a, <3>1, SignedNotesAre
  <2>6. ASSUME NEW i \in DOMAIN signed
        PROVE  GoodSoon(id, signed[i])
    <3>1. CASE i \in DOMAIN split
      <4>1. SplitSigs(id)[i] = signed[i].sig /\ i \in DOMAIN SplitSigs(id)
        BY <2>2, <2>5, <3>1
      <4>2. signed[i].sig = <<signed[i].denom, signed[i].wallet>>
        BY <2>5, <3>1
      <4> QED BY <4>1, <4>2 DEF GoodSoon
    <3>2. CASE i \notin DOMAIN split
      BY <2>4, <2>5, <3>2 DEF GoodSoon
    <3> QED BY <3>1, <3>2
  <2>7. run'.cmd = "mint" /\ run'.id = id /\ run'.notes = signed
    BY <2>1 DEF Idle
  <2>8. \A i \in DOMAIN signed : GoodSoon(id, signed[i])'
    BY <1>1, <2>2, <2>6, GoodSoonKept
  <2> QED BY <2>7, <2>8 DEF RunGood, GoodSoon, SplitSigs
<1>5. ASSUME NEW id \in Ids, NEW cmd \in {"claim", "relay"}, Begin(cmd, id)
      PROVE  RunGood'
  <2>1. run'.cmd = cmd /\ run'.id = id /\ run'.notes = Notes(id) /\ findDeposit(id) # 0
    BY <1>5 DEF Begin, Idle
  <2>2. PICK notes : notes = Notes(id)
    OBVIOUS
  <2>3. \A i \in DOMAIN notes : Good(id, notes[i])'
    BY <1>1, <2>1, <2>2, FoundGood, GoodKept
  <2> QED BY <2>1, <2>2, <2>3 DEF RunGood, Good
<1>6. ASSUME ClaimMined \/ RelayAnswers
      PROVE  RunGood'
  <2>1. PICK id, notes : id = run.id /\ notes = PaidNote(run.notes, run.next)
    OBVIOUS
  <2>2. run.cmd \in {"claim", "relay"} /\ Claimed
    BY <1>6 DEF ClaimMined, RelayAnswers, Running
  <2>3. run \in RunSet
    BY DEF Base, RunTyped
  <2>4. /\ id \in Ids
        /\ \/ run' = [run EXCEPT !.at = "note", !.notes = notes, !.block = 0,
                                 !.next = First(ReadyFrom(notes, run.next))]
           \/ run' = Idle
    BY <2>1, <2>2, ClaimedIs
  <2>5. \/ run'.cmd = run.cmd /\ run'.id = id /\ run'.notes = notes
        \/ run'.cmd = "none"
    <3>1. CASE run' = Idle
      BY <3>1 DEF Idle
    <3>2. CASE run' = [run EXCEPT !.at = "note", !.notes = notes, !.block = 0,
                                 !.next = First(ReadyFrom(notes, run.next))]
      BY <2>1, <2>3, <3>2 DEF RunSet
    <3> QED BY <2>4, <3>1, <3>2
  <2>6. \A i \in DOMAIN notes : Good(id, notes[i])'
    BY <1>1, <2>1, <2>2, <2>4, PaidNotesGood, GoodKept
  <2> QED BY <2>2, <2>5, <2>6 DEF RunGood, Good
<1>7. ASSUME run'.cmd = run.cmd, run'.id = run.id, run'.notes = run.notes
      PROVE  RunGood'
  <2>1. PICK id, notes : id = run.id /\ notes = run.notes
    OBVIOUS
  <2>2. CASE run.cmd = "deposit"
    BY <1>7, <2>2 DEF RunGood, Signed
  <2>3. CASE run.cmd = "mint"
    <3>1. id \in Opened
      BY <2>1, <2>3 DEF Base, MintAwaited
    <3>2. \A i \in DOMAIN notes : GoodSoon(id, notes[i])
      BY <2>1, <2>3 DEF Signed, RunGood
    <3>3. \A i \in DOMAIN notes : GoodSoon(id, notes[i])'
      BY <1>1, <3>1, <3>2, GoodSoonKept
    <3> QED BY <1>7, <2>1, <2>3, <3>3 DEF RunGood, GoodSoon, SplitSigs
  <2>4. CASE run.cmd \in {"claim", "relay"}
    <3>1. id \in Ids
      BY <2>1, <2>4, InMemory
    <3>2. \A i \in DOMAIN notes : Good(id, notes[i])
      BY <2>1, <2>4 DEF Signed, RunGood
    <3>3. \A i \in DOMAIN notes : Good(id, notes[i])'
      BY <1>1, <3>1, <3>2, GoodKept
    <3> QED BY <1>7, <2>1, <2>4, <3>3 DEF RunGood, Good
  <2>5. CASE run.cmd \notin {"deposit", "mint", "claim", "relay"}
    BY <1>7, <2>5 DEF RunGood
  <2> QED BY <2>2, <2>3, <2>4, <2>5
<1> QED BY <1>2, <1>3, <1>4, <1>5, <1>6, <1>7, RunWriters

LEMMA FileGoodNext ==
    ASSUME \A k \in DOMAIN file'.deposits : \A i \in DOMAIN file'.deposits[k].notes :
             \A d, note : d = file'.deposits[k].id /\ note = file'.deposits[k].notes[i]
                          => Good(d, note)'
    PROVE  FileGood'
<1> SUFFICES ASSUME NEW k \in DOMAIN file'.deposits, NEW i \in DOMAIN file'.deposits[k].notes
             PROVE  Good(file.deposits[k].id, file.deposits[k].notes[i])'
  BY DEF FileGood
<1>1. PICK d, note : d = file'.deposits[k].id /\ note = file'.deposits[k].notes[i]
  OBVIOUS
<1>2. Good(d, note)'
  BY <1>1
<1> QED BY <1>1, <1>2 DEF Good

(* A save writes the notes of one record.                                   *)
LEMMA SavedGood ==
    ASSUME Base, Evolves, Signed, NEW id \in Ids, findDeposit(id) # 0,
           NEW notes \in Seq(NoteSet), WalletsOf(notes) = WalletsOf(Notes(id)),
           file' = Saved(id, notes), \A i \in DOMAIN notes : Good(id, notes[i])
    PROVE  FileGood'
<1> SUFFICES ASSUME NEW k \in DOMAIN file'.deposits, NEW i \in DOMAIN file'.deposits[k].notes,
                    NEW d, NEW note, d = file'.deposits[k].id, note = file'.deposits[k].notes[i]
             PROVE  Good(d, note)'
  BY FileGoodNext
<1>1. /\ DOMAIN file'.deposits = DOMAIN file.deposits
      /\ \A l \in DOMAIN file.deposits :
           /\ file'.deposits[l].id = file.deposits[l].id
           /\ l # findDeposit(id) => file'.deposits[l].notes = file.deposits[l].notes
      /\ file'.deposits[findDeposit(id)].notes = notes
  BY SavedEffect DEF Base
<1>2. file.deposits[findDeposit(id)].id = id
  BY Found DEF Base
<1>3. d \in Ids
  <2>1. file.deposits[k] \in RecordSet
    BY <1>1 DEF Base, FileTyped
  <2> QED BY <1>1, <2>1 DEF RecordSet
<1>4. Good(d, note)
  <2>1. CASE k = findDeposit(id)
    BY <1>1, <1>2, <2>1
  <2>2. CASE k # findDeposit(id)
    BY <1>1, <2>2 DEF Signed, FileGood
  <2> QED BY <2>1, <2>2
<1> QED BY <1>3, <1>4, GoodKept

(* The same of the file.                                                    *)
LEMMA FileGoodStep ==
    ASSUME Base, Signed, [Next]_vars
    PROVE  FileGood'
<1>1. Evolves
  BY ContractKept
<1>2. CASE DeployResets
  <2>1. file' = [deployed |-> FALSE, deposits |-> <<>>]
    BY <1>2 DEF DeployResets
  <2>2. DOMAIN file'.deposits = {}
    BY <2>1
  <2> QED BY <2>2 DEF FileGood
<1>3. CASE file'.deposits = file.deposits \/ DepositSaves
  <2> SUFFICES ASSUME NEW k \in DOMAIN file'.deposits, NEW i \in DOMAIN file'.deposits[k].notes,
                      NEW d, NEW note, d = file'.deposits[k].id, note = file'.deposits[k].notes[i]
               PROVE  Good(d, note)'
    BY FileGoodNext
  <2>1. file.deposits \in Seq(RecordSet)
    BY DEF Base, FileTyped
  <2>2. \/ k \in DOMAIN file.deposits /\ file'.deposits[k] = file.deposits[k]
        \/ note.status = "awaiting-mint"
    <3>1. CASE DepositSaves
      <4>1. PICK last \in RecordSet :
              file'.deposits = Append(file.deposits, last) /\ last.notes = run.notes
        BY <3>1, DepositSavesIs
      <4>2. (k \in DOMAIN file.deposits /\ file'.deposits[k] = file.deposits[k]) \/ file'.deposits[k] = last
        BY <2>1, <4>1
      <4>3. \A l \in DOMAIN run.notes : run.notes[l].status = "awaiting-mint"
        BY <3>1 DEF DepositSaves, Running, Signed, RunGood
      <4> QED BY <4>1, <4>2, <4>3
    <3>2. CASE file'.deposits = file.deposits
      BY <3>2
    <3> QED BY <1>3, <3>1, <3>2
  <2>3. CASE k \in DOMAIN file.deposits /\ file'.deposits[k] = file.deposits[k]
    <3>1. file.deposits[k] \in RecordSet
      BY <2>1, <2>3
    <3>2. d \in Ids /\ Good(d, note)
      BY <2>3, <3>1 DEF RecordSet, Signed, FileGood
    <3> QED BY <1>1, <3>2, GoodKept
  <2>4. CASE note.status = "awaiting-mint"
    BY <2>4 DEF Good
  <2> QED BY <2>2, <2>3, <2>4
<1>4. ASSUME MintSaves
      PROVE  FileGood'
  <2>1. PICK id, notes : id = run.id /\ notes = run.notes
    OBVIOUS
  <2>2. run.cmd = "mint" /\ run.block > 0 /\ file' = Saved(id, notes)
    BY <1>4, <2>1 DEF MintSaves, Running, Mined
  <2>3. /\ id \in Ids /\ findDeposit(id) # 0 /\ notes \in Seq(NoteSet)
        /\ WalletsOf(notes) = WalletsOf(Notes(id))
    BY <2>1, <2>2, InMemory
  <2>4. run.block # 0
    <3>1. run \in RunSet
      BY DEF Base, RunTyped
    <3>2. run.block \in Nat
      BY <3>1 DEF RunSet
    <3> QED BY <2>2, <3>2
  <2>5. st.deposits[id].status = "Announced"
    BY <2>1, <2>2, <2>4 DEF Base, MintAwaited
  <2>6. answer[id] = SplitSigs(id)
    BY <2>3, <2>5 DEF Signed, SplitAnnounced
  <2>7. \A i \in DOMAIN notes : GoodSoon(id, notes[i])
    BY <2>1, <2>2 DEF Signed, RunGood
  <2>8. \A i \in DOMAIN notes : Good(id, notes[i])
    BY <2>6, <2>7 DEF Good, GoodSoon
  <2> QED BY <1>1, <2>2, <2>3, <2>8, SavedGood
<1>5. ASSUME NEW id \in Ids, Sync(id)
      PROVE  FileGood'
  <2>1. PICK sigs, old, notes : sigs = answer[id] /\ old = Notes(id) /\ notes = SyncedNotes(old, sigs)
    OBVIOUS
  <2>2. /\ findDeposit(id) # 0 /\ file' = Saved(id, notes)
        /\ old \in Seq(NoteSet) /\ sigs \in Seq(Denoms \X Points) /\ Opens(old, sigs)
    BY <1>5, <2>1, SyncIs
  <2>3. /\ notes \in Seq(NoteSet) /\ WalletsOf(notes) = WalletsOf(old)
        /\ DOMAIN notes = DOMAIN old
        /\ \A i \in DOMAIN old : i \notin DOMAIN sigs => notes[i] = old[i]
        /\ \A i \in DOMAIN sigs : /\ notes[i].sig = sigs[i]
                                  /\ sigs[i] = <<notes[i].denom, notes[i].wallet>>
    <3>1. old \in Seq(NoteSet) /\ sigs \in Seq(Denoms \X Points) /\ Opens(old, sigs)
      BY <2>2
    <3> QED BY <2>1, <3>1, SyncedNotesTyped
  <2>4. ASSUME NEW i \in DOMAIN notes PROVE Good(id, notes[i])
    <3>1. CASE i \in DOMAIN sigs
      BY <2>1, <2>3, <3>1 DEF Good
    <3>2. CASE i \notin DOMAIN sigs
      BY <2>1, <2>2, <2>3, <3>2, FoundGood
    <3> QED BY <3>1, <3>2
  <2> QED BY <1>1, <2>1, <2>2, <2>3, <2>4, SavedGood
<1>6. ASSUME ClaimMined \/ RelayAnswers
      PROVE  FileGood'
  <2>1. PICK id, notes : id = run.id /\ notes = PaidNote(run.notes, run.next)
    OBVIOUS
  <2>2. run.cmd \in {"claim", "relay"} /\ Claimed
    BY <1>6 DEF ClaimMined, RelayAnswers, Running
  <2>3. /\ notes \in Seq(NoteSet) /\ WalletsOf(notes) = WalletsOf(Notes(id))
        /\ findDeposit(id) # 0 /\ id \in Ids
        /\ file' = file \/ file' = Saved(id, notes)
    BY <2>1, <2>2, ClaimedIs
  <2>4. \A i \in DOMAIN notes : Good(id, notes[i])
    BY <2>1, <2>2, PaidNotesGood
  <2> QED BY <1>1, <1>3, <2>3, <2>4, SavedGood
<1> QED BY <1>2, <1>3, <1>4, <1>5, <1>6, FileWriters

(* A ready note in memory is announced. *)
LEMMA InMemoryGood ==
    ASSUME Base, Signed, run.cmd \in {"claim", "relay"}, run.next \in DOMAIN run.notes,
           ThisNote.status = "ready"
    PROVE  ThisNote.sig = <<ThisNote.denom, ThisNote.wallet>> /\ Announced(ThisNote.sig)
<1>1. PICK id : id = run.id
  OBVIOUS
<1>2. id \in Ids
  BY <1>1, InMemory
<1>3. Good(id, ThisNote)
  BY <1>1 DEF Signed, RunGood, ThisNote
<1> QED BY <1>2, <1>3 DEF Good, Announced

(* The same of the transactions under way.                                  *)
LEMMA MempoolGoodStep ==
    ASSUME Base, Records, Signed, [Next]_vars
    PROVE  MempoolGood'
<1>1. Evolves /\ MempoolTyped
  BY ContractKept DEF Base
<1> SUFFICES ASSUME NEW k \in DOMAIN mempool', NEW tx, tx = mempool'[k], NEW d
             PROVE  /\ tx.kind = "announce" /\ d = tx.report.id => tx.sigs = SplitSigs(d)'
                    /\ tx.kind = "claim" => Announced(<<tx.denom, tx.wallet>>)'
  BY DEF MempoolGood, SplitSigs, Announced
<1>2. ASSUME NEW l \in DOMAIN mempool, tx = mempool[l]
      PROVE  /\ tx.kind = "announce" /\ d = tx.report.id => tx.sigs = SplitSigs(d)'
             /\ tx.kind = "claim" => Announced(<<tx.denom, tx.wallet>>)'
  <2>1. /\ tx.kind = "announce" => tx.report.id \in Opened /\ tx.sigs = SplitSigs(tx.report.id)
        /\ tx.kind = "claim" => Announced(<<tx.denom, tx.wallet>>)
    BY <1>2 DEF Base, Sent, Signed, MempoolGood
  <2>2. d \in Opened => SplitSigs(d)' = SplitSigs(d)
    BY <1>1, SplitSigsKept
  <2>3. tx.kind = "claim" => Announced(<<tx.denom, tx.wallet>>)'
    BY <1>1, <2>1, AnnouncedKept
  <2> QED BY <2>1, <2>2, <2>3
<1>3. CASE mempool' = mempool
  BY <1>2, <1>3
<1>4. CASE mempool # <<>> /\ mempool' = Tail(mempool)
  BY <1>1, <1>2, <1>4, TailAt
<1>5. ASSUME NEW net \in Nets, DepositSends(net)
      PROVE  (k \in DOMAIN mempool /\ tx = mempool[k]) \/ tx.kind = "deposit"
  <2>1. PICK new : Transmit(new) /\ new.kind = "deposit"
    BY <1>5 DEF DepositSends
  <2> QED BY <1>1, <2>1, TransmitAt
<1>6. ASSUME NEW id \in Ids, MintSends(id)
      PROVE  \/ k \in DOMAIN mempool /\ tx = mempool[k]
             \/ /\ tx.kind = "announce" /\ tx.report.id \in Opened /\ tx.sigs = SplitSigs(tx.report.id)
  <2>1. PICK split, notes : split = splitGreedy[file.deposits[findDeposit(id)].amount] /\ notes = Notes(id)
    OBVIOUS
  <2>2. PICK signed : signed = SignedNotes(split, notes)
    OBVIOUS
  <2>3. PICK new : new = [kind |-> "announce", report |-> Report(id, split),
                          sigs |-> [i \in DOMAIN split |-> signed[i].sig]]
    OBVIOUS
  <2>4. /\ split \in Seq(Denoms) /\ notes \in Seq(NoteSet) /\ Len(split) <= Len(notes)
        /\ Transmit(new)
    BY <1>6, <2>1, <2>2, <2>3, MintSendsIs
  <2>5. [i \in DOMAIN split |-> signed[i].sig] = [i \in DOMAIN split |-> <<split[i], notes[i].wallet>>]
    <3>1. split \in Seq(Denoms) /\ notes \in Seq(NoteSet) /\ Len(split) <= Len(notes)
      BY <2>4
    <3>2. \A i \in DOMAIN split : signed[i].sig = <<split[i], notes[i].wallet>>
      BY <2>2, <3>1, SignedNotesAre
    <3> QED BY <3>2
  <2>6. id \in Opened /\ SplitSigs(id) = [i \in DOMAIN split |-> <<split[i], notes[i].wallet>>]
    BY <1>6, <2>1, MintSignsSplit
  <2>7. new.kind = "announce" /\ new.report.id = id /\ new.sigs = SplitSigs(id)
    BY <2>3, <2>5, <2>6 DEF Report
  <2> QED BY <1>1, <2>4, <2>6, <2>7, TransmitAt
<1>7. ASSUME ClaimSends
      PROVE  \/ k \in DOMAIN mempool /\ tx = mempool[k]
             \/ tx.kind = "claim" /\ Announced(<<tx.denom, tx.wallet>>)
  <2>1. PICK new : new = [kind |-> "claim", denom |-> ThisNote.denom, wallet |-> ThisNote.wallet]
    OBVIOUS
  <2>2. Transmit(new) /\ run.cmd = "claim" /\ run.next \in DOMAIN run.notes /\ ThisNote.status = "ready"
    BY <1>7, <2>1, ClaimSendsIs
  <2>3. Announced(<<new.denom, new.wallet>>) /\ new.kind = "claim"
    BY <2>1, <2>2, InMemoryGood
  <2> QED BY <1>1, <2>2, <2>3, TransmitAt
<1>8. ASSUME tx.kind = "announce", tx.report.id \in Opened, tx.sigs = SplitSigs(tx.report.id)
      PROVE  d = tx.report.id => tx.sigs = SplitSigs(d)'
  BY <1>1, <1>8, SplitSigsKept
<1>9. Announced(<<tx.denom, tx.wallet>>) => Announced(<<tx.denom, tx.wallet>>)'
  BY <1>1, AnnouncedKept
<1> QED BY <1>2, <1>3, <1>4, <1>5, <1>6, <1>7, <1>8, <1>9, MempoolWriters

(* The same of what the relayer has seen.                                   *)
LEMMA ShownGoodStep ==
    ASSUME Base, Signed, [Next]_vars
    PROVE  ShownGood'
<1>1. Evolves
  BY ContractKept
<1>2. ASSUME NEW sig \in shown PROVE sig[2] \in Wallets /\ Announced(sig)'
  BY <1>1, <1>2, AnnouncedKept DEF Signed, ShownGood
<1>3. CASE shown' = shown
  BY <1>2, <1>3 DEF ShownGood, Announced
<1>4. CASE RelaySends
  <2>1. PICK new : new = ThisNote.sig
    OBVIOUS
  <2>2. /\ shown' = shown \cup {new} /\ run.cmd = "relay" /\ run.next \in DOMAIN run.notes
        /\ ThisNote.status = "ready" /\ ThisNote \in NoteSet
    BY <1>4, <2>1, RelaySendsIs
  <2>3. new = <<ThisNote.denom, ThisNote.wallet>> /\ Announced(new) /\ ThisNote.wallet \in Wallets
    BY <2>1, <2>2, InMemoryGood DEF NoteSet
  <2>4. new[2] \in Wallets /\ Announced(new)'
    BY <1>1, <2>3, AnnouncedKept
  <2> QED BY <1>2, <2>2, <2>4 DEF ShownGood, Announced
<1>5. shown' = shown \/ RelaySends
  <2>1. CASE DeployResets \/ DeploySaves \/ Stop \/ DepositSaves \/ MintSaves
    BY <2>1 DEF DeployResets, DeploySaves, Stop, DepositSaves, MintSaves, chain
  <2>2. CASE \E net \in Nets : DepositSends(net)
    BY <2>2 DEF DepositSends
  <2>3. ASSUME NEW id \in Ids,
               \/ MintSends(id) \/ Sync(id) \/ Begin("claim", id) \/ Begin("relay", id)
               \/ Spend(id) \/ SweepBegins(id) \/ WorkflowAnnounces(id)
        PROVE  shown' = shown
    BY <2>3 DEF MintSends, Sync, Begin, Spend, Wire, SweepBegins, WorkflowAnnounces, chain
  <2>4. CASE ClaimSends \/ ClaimMined \/ RelayAnswers \/ SweepSends \/ SweepSkips \/ WireMined
    BY <2>4 DEF ClaimSends, ClaimMined, RelayAnswers, SweepSends, Wire, SweepSkips, WireMined, chain
  <2>5. CASE MineDeposit \/ MineAnnounce \/ MineClaim
    BY <2>5 DEF MineDeposit, MineAnnounce, MineClaim, Mines
  <2>6. CASE \/ \E value \in OtherValues : OtherDeposits(value)
             \/ \E sig \in shown : RelayerClaims(sig)
             \/ \E x \in wires, cost \in 0 .. Fee : WireLands(x, cost)
             \/ Block \/ UNCHANGED vars
    BY <2>6 DEF OtherDeposits, RelayerClaims, WireLands, Block, vars, chain
  <2> QED BY <2>1, <2>2, <2>3, <2>4, <2>5, <2>6 DEF Next
<1> QED BY <1>3, <1>4, <1>5

(* Signed is inductive with Base and Records.                               *)
LEMMA SignedStep ==
    ASSUME Base, Records, Signed, [Next]_vars
    PROVE  Signed'
BY SplitAnnouncedStep, RunGoodStep, FileGoodStep, MempoolGoodStep, ShownGoodStep DEF Signed

(* What the client trusts: it and the chain carry only signatures that were *)
(* announced, each for the deposit that it is filed under.                  *)
THEOREM SignedAlways == Spec => [](Base /\ Records /\ Signed)
<1>1. Init => Base /\ Records /\ Signed
  BY BaseInit, RecordsInit, SignedInit
<1>2. Base /\ Records /\ Signed /\ [Next]_vars => Base' /\ Records' /\ Signed'
  BY BaseStep, RecordsStep, SignedStep
<1> QED BY <1>1, <1>2, PTL DEF Spec

(* A ready note carries a signature over its own wallet that was announced  *)
(* for its deposit.                                                         *)
THEOREM ReadyIsGoodAlways == Spec => []ReadyIsGood
<1>1. Signed => ReadyIsGood
  <2> SUFFICES ASSUME Signed, NEW k \in DOMAIN file.deposits,
                      NEW i \in DOMAIN file.deposits[k].notes,
                      file.deposits[k].notes[i].status = "ready"
               PROVE  /\ file.deposits[k].notes[i].sig =
                           <<file.deposits[k].notes[i].denom, file.deposits[k].notes[i].wallet>>
                      /\ \E j \in DOMAIN answer[file.deposits[k].id] :
                           answer[file.deposits[k].id][j] = file.deposits[k].notes[i].sig
    BY DEF ReadyIsGood, FileNotes
  <2> QED BY DEF Signed, FileGood, Good
<1> QED BY <1>1, SignedAlways, PTL

-----------------------------------------------------------------------------
(* The books. *)

LEMMA FitsKept ==
    ASSUME Evolves, NEW id \in Opened, Fits(id)
    PROVE  Fits(id)'
<1>1. SplitSigs(id)' = SplitSigs(id) /\ brought'[id] = brought[id]
  BY SplitSigsKept DEF Evolves
<1> QED BY <1>1 DEF Fits

(* An announced deposit has a point for each of its notes.                  *)
LEMMA FittingStep ==
    ASSUME Base, Records, Signed, Fitting, [Next]_vars
    PROVE  Fitting'
<1>1. Evolves /\ MempoolTyped
  BY ContractKept DEF Base
<1>2. ASSUME NEW id \in Ids, st'.deposits[id].status = "Announced"
      PROVE  Fits(id)'
  <2>1. CASE st.deposits[id].status = "Announced"
    <3>1. id \in Opened /\ Fits(id)
      BY <2>1 DEF Base, Ledger, Fitting
    <3> QED BY <1>1, <3>1, FitsKept
  <2>2. CASE st.deposits[id].status # "Announced"
    <3>1. /\ id \in Opened
          /\ \/ Fits(id)
             \/ 1 \in DOMAIN mempool /\ mempool[1].kind = "announce" /\ mempool[1].report.id = id
      BY <1>2, <2>2, AnnouncedBy
    <3>2. Fits(id)
      BY <3>1 DEF Fitting
    <3> QED BY <1>1, <3>1, <3>2, FitsKept
  <2> QED BY <2>1, <2>2
<1>3. ASSUME NEW k \in DOMAIN mempool', NEW tx, tx = mempool'[k], tx.kind = "announce"
      PROVE  tx.report.id \in Opened /\ Fits(tx.report.id)
  <2>1. ASSUME NEW l \in DOMAIN mempool, tx = mempool[l]
        PROVE  tx.report.id \in Opened /\ Fits(tx.report.id)
    BY <1>3, <2>1 DEF Base, Sent, Fitting
  <2>2. CASE mempool' = mempool
    BY <1>3, <2>1, <2>2
  <2>3. CASE mempool # <<>> /\ mempool' = Tail(mempool)
    BY <1>1, <1>3, <2>1, <2>3, TailAt
  <2>4. ASSUME NEW net \in Nets, DepositSends(net)
        PROVE  k \in DOMAIN mempool /\ tx = mempool[k]
    <3>1. PICK new : Transmit(new) /\ new.kind = "deposit"
      BY <2>4 DEF DepositSends
    <3> QED BY <1>1, <1>3, <3>1, TransmitAt
  <2>5. ASSUME ClaimSends
        PROVE  k \in DOMAIN mempool /\ tx = mempool[k]
    <3>1. PICK new : Transmit(new) /\ new.kind = "claim"
      BY <2>5 DEF ClaimSends
    <3> QED BY <1>1, <1>3, <3>1, TransmitAt
  <2>6. ASSUME NEW id \in Ids, MintSends(id)
        PROVE  \/ k \in DOMAIN mempool /\ tx = mempool[k]
               \/ tx.report.id = id
    <3>a. PICK split, sigs : Transmit([kind |-> "announce", report |-> Report(id, split), sigs |-> sigs])
      BY <2>6 DEF MintSends
    <3>b. PICK new : new = [kind |-> "announce", report |-> Report(id, split), sigs |-> sigs]
      OBVIOUS
    <3>1. Transmit(new) /\ new.report.id = id
      BY <3>a, <3>b DEF Report
    <3> QED BY <1>1, <1>3, <3>1, TransmitAt
  <2>7. ASSUME NEW id \in Ids, MintSends(id)
        PROVE  id \in Opened /\ Fits(id)
    BY <2>7, MintSignsSplit
  <2> QED BY <2>1, <2>2, <2>3, <2>4, <2>5, <2>6, <2>7, MempoolWriters
<1>4. ASSUME NEW k \in DOMAIN mempool', NEW tx, tx = mempool'[k], NEW d, d = tx.report.id,
             tx.kind = "announce"
      PROVE  Fits(d)'
  <2>1. d \in Opened /\ Fits(d)
    BY <1>3, <1>4
  <2> QED BY <1>1, <2>1, FitsKept
<1> QED BY <1>2, <1>4 DEF Fitting, Fits, SplitSigs

(* A new deposit brings wallets that no older one had. *)
LEMMA DepositSendsIs ==
    ASSUME Base, NEW net \in Nets, DepositSends(net)
    PROVE  \E tx : /\ Transmit(tx) /\ tx.kind = "deposit" /\ tries' = tries + 1
                   /\ \A i \in DOMAIN tx.wallets : tx.wallets[i] = <<tries + 1, i>>
<1> DEFINE value == grossFor(net)
           notes == [i \in 1 .. pointCount(value) |-> Note(<<tries + 1, i>>)]
<1>1. PICK tx : /\ tx = [kind |-> "deposit", value |-> value, net |-> net,
                         wallets |-> WalletsOf(notes)]
                /\ Transmit(tx) /\ tries' = tries + 1
  BY DEF DepositSends
<1> HIDE DEF value
<1>2. tx.wallets = WalletsOf(notes) /\ tx.kind = "deposit"
  BY <1>1
<1>3. \A i \in DOMAIN WalletsOf(notes) : WalletsOf(notes)[i] = <<tries + 1, i>>
  BY DEF WalletsOf, Note
<1> QED BY <1>1, <1>2, <1>3

LEMMA StrangerIsNoWallet ==
    ASSUME NEW w \in Wallets
    PROVE  w # Stranger /\ w \in Accounts /\ w[1] \in Nat
<1>1. w[1] \in 1 .. MaxTries /\ MaxTries \in Nat
  BY CliAssumption DEF Wallets
<1> QED BY <1>1 DEF Stranger, Accounts

(* The types of the wallets in the mempool and at the points. *)
LEMMA WalletsTyped ==
    ASSUME Base
    PROVE  /\ \A k \in DOMAIN mempool : mempool[k].kind = "deposit" =>
                 \A i \in DOMAIN mempool[k].wallets :
                    i \in Nat /\ mempool[k].wallets[i] \in Wallets
           /\ \A id \in Ids : \A i \in DOMAIN brought[id].wallets :
                 brought[id].wallets[i] # Stranger => brought[id].wallets[i] \in Wallets
           /\ tries \in Nat
<1>1. ASSUME NEW k \in DOMAIN mempool, mempool[k].kind = "deposit",
             NEW i \in DOMAIN mempool[k].wallets
      PROVE  i \in Nat /\ mempool[k].wallets[i] \in Wallets
  <2>1. mempool[k] \in Txs
    BY DEF Base, MempoolTyped
  <2>2. mempool[k].wallets \in Seq(Wallets)
    BY <1>1, <2>1 DEF Txs, DepositTxs, AnnounceTxs, ClaimTxs
  <2> QED BY <2>2
<1>2. ASSUME NEW id \in Ids, NEW i \in DOMAIN brought[id].wallets
      PROVE  brought[id].wallets[i] \in Points
  <2>1. brought[id].wallets \in Seq(Points)
    BY LedgerNumbers DEF Base
  <2> QED BY <2>1
<1> QED BY <1>1, <1>2 DEF Points, Base, ShownTyped

(* Nothing new, and a deposit of somebody else. *)
LEMMA OnceKept ==
    ASSUME Base, BroughtOnce, SentOnce, NEW c \in {0, 1}, tries' = tries,
           \A k \in DOMAIN mempool' : mempool'[k].kind = "deposit" =>
               k \in Nat /\ k + c \in DOMAIN mempool /\ mempool'[k] = mempool[k + c],
           \A id \in Ids : \/ brought'[id].wallets = brought[id].wallets
                           \/ \A i \in DOMAIN brought'[id].wallets : brought'[id].wallets[i] = Stranger
    PROVE  BroughtOnce' /\ SentOnce'
<1>1. BroughtOnce'
  <2> SUFFICES ASSUME NEW id \in Ids, NEW i \in DOMAIN brought'[id].wallets,
                      brought'[id].wallets[i] # Stranger
               PROVE  /\ brought'[id].wallets[i][1] <= tries
                      /\ \A d \in Ids : \A j \in DOMAIN brought'[d].wallets :
                            brought'[d].wallets[j] = brought'[id].wallets[i] => d = id /\ j = i
    BY DEF BroughtOnce
  <2>1. brought'[id].wallets = brought[id].wallets
    OBVIOUS
  <2>2. ASSUME NEW d \in Ids, NEW j \in DOMAIN brought'[d].wallets,
               brought'[d].wallets[j] = brought'[id].wallets[i]
        PROVE  d = id /\ j = i
    <3>1. brought'[d].wallets = brought[d].wallets
      BY <2>2
    <3> QED BY <2>1, <2>2, <3>1 DEF BroughtOnce
  <2> QED BY <2>1, <2>2 DEF BroughtOnce
<1>2. SentOnce'
  <2> SUFFICES ASSUME NEW k \in DOMAIN mempool', mempool'[k].kind = "deposit",
                      NEW i \in DOMAIN mempool'[k].wallets
               PROVE  /\ mempool'[k].wallets[i][1] <= tries
                      /\ \A l \in DOMAIN mempool' : mempool'[l].kind = "deposit" =>
                            \A j \in DOMAIN mempool'[l].wallets :
                               mempool'[l].wallets[j] = mempool'[k].wallets[i] => k = l /\ j = i
                      /\ \A d \in Ids : \A j \in DOMAIN brought'[d].wallets :
                            brought'[d].wallets[j] # mempool'[k].wallets[i]
    BY DEF SentOnce
  <2>1. k \in Nat /\ k + c \in DOMAIN mempool /\ mempool'[k] = mempool[k + c]
    OBVIOUS
  <2>2. mempool'[k].wallets[i][1] <= tries
    BY <2>1 DEF SentOnce
  <2>3. ASSUME NEW l \in DOMAIN mempool', mempool'[l].kind = "deposit",
               NEW j \in DOMAIN mempool'[l].wallets,
               mempool'[l].wallets[j] = mempool'[k].wallets[i]
        PROVE  k = l /\ j = i
    <3>1. l \in Nat /\ l + c \in DOMAIN mempool /\ mempool'[l] = mempool[l + c]
      BY <2>3
    <3>2. k + c = l + c /\ j = i
      BY <2>1, <2>3, <3>1 DEF SentOnce
    <3> QED BY <2>1, <3>1, <3>2
  <2>4. ASSUME NEW d \in Ids, NEW j \in DOMAIN brought'[d].wallets
        PROVE  brought'[d].wallets[j] # mempool'[k].wallets[i]
    <3>1. mempool'[k].wallets[i] # Stranger
      BY <2>1, WalletsTyped, StrangerIsNoWallet
    <3>2. CASE brought'[d].wallets = brought[d].wallets
      BY <2>1, <3>2 DEF SentOnce
    <3> QED BY <3>1, <3>2
  <2> QED BY <2>2, <2>3, <2>4
<1> QED BY <1>1, <1>2

(* A deposit brings new wallets (provider.create in commands.ts).           *)
LEMMA DepositSendsOnce ==
    ASSUME Base, BroughtOnce, SentOnce, NEW net \in Nets, DepositSends(net)
    PROVE  BroughtOnce' /\ SentOnce'
<1>1. PICK tx : /\ Transmit(tx) /\ tx.kind = "deposit" /\ tries' = tries + 1
                /\ \A i \in DOMAIN tx.wallets : tx.wallets[i] = <<tries + 1, i>>
  BY DepositSendsIs
<1>2. brought' = brought /\ tries \in Nat
  BY WalletsTyped DEF DepositSends, deposits
<1>3. BroughtOnce'
  <2>1. ASSUME NEW id \in Ids, NEW i \in DOMAIN brought[id].wallets,
               brought[id].wallets[i] # Stranger
        PROVE  brought[id].wallets[i][1] <= tries + 1
    <3>1. brought[id].wallets[i][1] <= tries /\ brought[id].wallets[i][1] \in Nat
      BY <2>1, WalletsTyped, StrangerIsNoWallet DEF BroughtOnce
    <3> QED BY <1>2, <3>1
  <2> QED BY <1>1, <1>2, <2>1 DEF BroughtOnce
<1>4. ASSUME NEW k \in DOMAIN mempool', mempool'[k].kind = "deposit",
             NEW i \in DOMAIN mempool'[k].wallets
      PROVE  \/ /\ k \in DOMAIN mempool /\ mempool'[k] = mempool[k]
                /\ mempool[k].wallets[i][1] \in Nat /\ mempool[k].wallets[i][1] <= tries
             \/ k = Len(mempool) + 1 /\ mempool'[k] = tx /\ tx.wallets[i] = <<tries + 1, i>>
  <2>1. CASE k \in DOMAIN mempool /\ mempool'[k] = mempool[k]
    BY <1>4, <2>1, WalletsTyped, StrangerIsNoWallet DEF SentOnce
  <2>2. CASE k = Len(mempool) + 1 /\ mempool'[k] = tx
    BY <1>1, <1>4, <2>2
  <2> QED BY <1>1, <2>1, <2>2, TransmitAt DEF Base
<1>5. SentOnce'
  <2> SUFFICES ASSUME NEW k \in DOMAIN mempool', mempool'[k].kind = "deposit",
                      NEW i \in DOMAIN mempool'[k].wallets
               PROVE  /\ mempool'[k].wallets[i][1] <= tries'
                      /\ \A l \in DOMAIN mempool' : mempool'[l].kind = "deposit" =>
                            \A j \in DOMAIN mempool'[l].wallets :
                               mempool'[l].wallets[j] = mempool'[k].wallets[i] => k = l /\ j = i
                      /\ \A d \in Ids : \A j \in DOMAIN brought'[d].wallets :
                            brought'[d].wallets[j] # mempool'[k].wallets[i]
    BY DEF SentOnce
  <2>1. mempool'[k].wallets[i][1] <= tries'
    <3>1. CASE mempool'[k].wallets[i] = <<tries + 1, i>>
      BY <1>1, <1>2, <3>1
    <3>2. CASE mempool'[k].wallets[i][1] \in Nat /\ mempool'[k].wallets[i][1] <= tries
      BY <1>1, <1>2, <3>2
    <3> QED BY <1>4, <3>1, <3>2
  <2>2. ASSUME NEW l \in DOMAIN mempool', mempool'[l].kind = "deposit",
               NEW j \in DOMAIN mempool'[l].wallets,
               mempool'[l].wallets[j] = mempool'[k].wallets[i]
        PROVE  k = l /\ j = i
    <3>1. CASE k \in DOMAIN mempool /\ mempool'[k] = mempool[k] /\ mempool[k].wallets[i][1] <= tries
               /\ mempool[k].wallets[i][1] \in Nat
      <4>1. ~ (mempool'[l].wallets[j] = <<tries + 1, j>>)
        BY <1>2, <2>2, <3>1
      <4>2. l \in DOMAIN mempool /\ mempool'[l] = mempool[l]
        BY <1>4, <2>2, <4>1
      <4> QED BY <2>2, <3>1, <4>2 DEF SentOnce
    <3>2. CASE k = Len(mempool) + 1 /\ mempool'[k] = tx /\ tx.wallets[i] = <<tries + 1, i>>
      <4>1. mempool'[l].wallets[j][1] = tries + 1
        BY <2>2, <3>2
      <4>2. ~ (mempool'[l].wallets[j][1] \in Nat /\ mempool'[l].wallets[j][1] <= tries)
        BY <1>2, <4>1
      <4>3. l = Len(mempool) + 1 /\ mempool'[l].wallets[j] = <<tries + 1, j>>
        BY <1>4, <2>2, <4>2
      <4> QED BY <2>2, <3>2, <4>3
    <3> QED BY <1>4, <3>1, <3>2
  <2>3. ASSUME NEW d \in Ids, NEW j \in DOMAIN brought'[d].wallets
        PROVE  brought'[d].wallets[j] # mempool'[k].wallets[i]
    <3>1. CASE k \in DOMAIN mempool /\ mempool'[k] = mempool[k]
      BY <1>2, <3>1 DEF SentOnce
    <3>2. CASE mempool'[k].wallets[i] = <<tries + 1, i>>
      <4>1. ASSUME brought[d].wallets[j] = <<tries + 1, i>> PROVE FALSE
        <5>1. brought[d].wallets[j] # Stranger
          BY <1>2, <4>1 DEF Stranger
        <5>2. brought[d].wallets[j][1] <= tries
          BY <1>2, <5>1 DEF BroughtOnce
        <5> QED BY <1>2, <4>1, <5>2
      <4> QED BY <1>2, <3>2, <4>1
    <3> QED BY <1>4, <3>1, <3>2
  <2> QED BY <2>1, <2>2, <2>3
<1> QED BY <1>3, <1>5

(* The wallets of the transaction become those of the deposit. *)
LEMMA MineDepositOnce ==
    ASSUME Base, BroughtOnce, SentOnce, MineDeposit
    PROVE  BroughtOnce' /\ SentOnce'
<1>1. PICK tx : tx = Head(mempool)
  OBVIOUS
<1>2. /\ tx \in DepositTxs /\ mempool # <<>> /\ Opening(Deployer, tx.value, tx.wallets, tx.net)
      /\ mempool' = Tail(mempool) /\ tries' = tries
  BY <1>1, MineDepositIs DEF MineDeposit, Mines
<1>3. 1 \in DOMAIN mempool /\ tx = mempool[1] /\ tx.kind = "deposit" /\ MempoolTyped
  BY <1>1, <1>2, HeadTyped DEF Base, DepositTxs
<1>4. PICK new \in Ids : /\ brought'[new] = [wallets |-> tx.wallets, net |-> tx.net]
                         /\ \A id \in Ids : id # new => brought'[id] = brought[id]
  <2>1. PICK new : new = st.nextId
    OBVIOUS
  <2> QED BY <1>2, <2>1, OpenedLedger DEF Base, Opening
<1>5. brought'[new].wallets = tx.wallets
  BY <1>4
<1>6. \A k \in DOMAIN mempool' : k \in Nat /\ k + 1 \in DOMAIN mempool /\ mempool'[k] = mempool[k + 1]
  BY <1>2, <1>3, TailAt
<1>7. \A i \in DOMAIN tx.wallets :
         /\ tx.wallets[i] # Stranger /\ tx.wallets[i][1] <= tries
         /\ \A j \in DOMAIN tx.wallets : tx.wallets[j] = tx.wallets[i] => j = i
         /\ \A d \in Ids : \A j \in DOMAIN brought[d].wallets : brought[d].wallets[j] # tx.wallets[i]
         /\ \A k \in DOMAIN mempool : k # 1 /\ mempool[k].kind = "deposit" =>
              \A j \in DOMAIN mempool[k].wallets : mempool[k].wallets[j] # tx.wallets[i]
  <2>1. \A i \in DOMAIN tx.wallets : tx.wallets[i] # Stranger
    BY <1>3, WalletsTyped, StrangerIsNoWallet
  <2> QED BY <1>3, <2>1 DEF SentOnce
<1>8. BroughtOnce'
  <2> SUFFICES ASSUME NEW id \in Ids, NEW i \in DOMAIN brought'[id].wallets,
                      brought'[id].wallets[i] # Stranger
               PROVE  /\ brought'[id].wallets[i][1] <= tries'
                      /\ \A d \in Ids : \A j \in DOMAIN brought'[d].wallets :
                            brought'[d].wallets[j] = brought'[id].wallets[i] => d = id /\ j = i
    BY DEF BroughtOnce
  <2>1. brought'[id].wallets[i][1] <= tries'
    BY <1>2, <1>4, <1>5, <1>7 DEF BroughtOnce
  <2>2. ASSUME NEW d \in Ids, NEW j \in DOMAIN brought'[d].wallets,
               brought'[d].wallets[j] = brought'[id].wallets[i]
        PROVE  d = id /\ j = i
    <3>1. CASE id = new /\ d = new
      BY <1>5, <1>7, <2>2, <3>1
    <3>2. CASE id = new /\ d # new
      BY <1>4, <1>5, <1>7, <2>2, <3>2
    <3>3. CASE id # new /\ d = new
      BY <1>4, <1>5, <1>7, <2>2, <3>3
    <3>4. CASE id # new /\ d # new
      BY <1>4, <2>2, <3>4 DEF BroughtOnce
    <3> QED BY <3>1, <3>2, <3>3, <3>4
  <2> QED BY <2>1, <2>2
<1>9. SentOnce'
  <2> SUFFICES ASSUME NEW k \in DOMAIN mempool', mempool'[k].kind = "deposit",
                      NEW i \in DOMAIN mempool'[k].wallets
               PROVE  /\ mempool'[k].wallets[i][1] <= tries'
                      /\ \A l \in DOMAIN mempool' : mempool'[l].kind = "deposit" =>
                            \A j \in DOMAIN mempool'[l].wallets :
                               mempool'[l].wallets[j] = mempool'[k].wallets[i] => k = l /\ j = i
                      /\ \A d \in Ids : \A j \in DOMAIN brought'[d].wallets :
                            brought'[d].wallets[j] # mempool'[k].wallets[i]
    BY DEF SentOnce
  <2>1. k \in Nat /\ k + 1 \in DOMAIN mempool /\ mempool'[k] = mempool[k + 1] /\ k + 1 # 1
    <3>1. mempool' \in Seq(Txs)
      BY <1>2, <1>3 DEF MempoolTyped
    <3>2. k \in 1 .. Len(mempool') /\ Len(mempool') \in Nat
      BY <3>1
    <3> QED BY <1>6, <3>2
  <2>2. mempool'[k].wallets[i][1] <= tries'
    BY <1>2, <2>1 DEF SentOnce
  <2>3. ASSUME NEW l \in DOMAIN mempool', mempool'[l].kind = "deposit",
               NEW j \in DOMAIN mempool'[l].wallets,
               mempool'[l].wallets[j] = mempool'[k].wallets[i]
        PROVE  k = l /\ j = i
    <3>1. l \in Nat /\ l + 1 \in DOMAIN mempool /\ mempool'[l] = mempool[l + 1]
      BY <1>6
    <3>2. k + 1 = l + 1 /\ j = i
      BY <2>1, <2>3, <3>1 DEF SentOnce
    <3> QED BY <2>1, <3>1, <3>2
  <2>4. ASSUME NEW d \in Ids, NEW j \in DOMAIN brought'[d].wallets
        PROVE  brought'[d].wallets[j] # mempool'[k].wallets[i]
    <3>1. CASE d = new
      BY <1>5, <1>7, <2>1, <3>1
    <3>2. CASE d # new
      BY <1>4, <2>1, <3>2 DEF SentOnce
    <3> QED BY <3>1, <3>2
  <2> QED BY <2>2, <2>3, <2>4
<1> QED BY <1>8, <1>9

(* The points and the tries of the other steps. *)
LEMMA BroughtBy ==
    ASSUME Base, [Next]_vars, ~ MineDeposit
    PROVE  \A id \in Ids :
             \/ brought'[id].wallets = brought[id].wallets
             \/ \A i \in DOMAIN brought'[id].wallets : brought'[id].wallets[i] = Stranger
<1>1. ASSUME brought' = brought
      PROVE  \A id \in Ids : brought'[id].wallets = brought[id].wallets
  BY <1>1
<1>2. CASE ClientStep \/ UNCHANGED vars
  BY <1>1, <1>2, ClientQuiet DEF vars, chain, deposits
<1>3. CASE MineAnnounce \/ MineClaim \/ Block
  BY <1>1, <1>3 DEF MineAnnounce, MineClaim, Block
<1>4. ASSUME NEW value \in OtherValues, OtherDeposits(value)
      PROVE  \A id \in Ids :
               \/ brought'[id].wallets = brought[id].wallets
               \/ \A i \in DOMAIN brought'[id].wallets : brought'[id].wallets[i] = Stranger
  <2>1. PICK wallets : wallets = [i \in 1 .. pointCount(value) |-> Stranger]
    OBVIOUS
  <2>2. Opening(Other, value, wallets, 0) /\ \A i \in DOMAIN wallets : wallets[i] = Stranger
    BY <1>4, <2>1, OtherDepositsIs
  <2>3. PICK new \in Ids : /\ brought'[new] = [wallets |-> wallets, net |-> 0]
                           /\ \A id \in Ids : id # new => brought'[id] = brought[id]
    <3>1. PICK new : new = st.nextId
      OBVIOUS
    <3> QED BY <2>2, <3>1, OpenedLedger DEF Base, Opening
  <2>4. brought'[new].wallets = wallets
    BY <2>3
  <2> QED BY <2>2, <2>3, <2>4
<1>5. ASSUME NEW id \in Ids, WorkflowAnnounces(id) PROVE brought' = brought
  BY <1>5 DEF WorkflowAnnounces
<1>6. ASSUME NEW sig \in shown, RelayerClaims(sig) PROVE brought' = brought
  BY <1>6 DEF RelayerClaims
<1>7. ASSUME NEW x \in wires, NEW cost \in 0 .. Fee, WireLands(x, cost) PROVE brought' = brought
  BY <1>7 DEF WireLands, deposits
<1> QED BY <1>1, <1>2, <1>3, <1>4, <1>5, <1>6, <1>7, StepKinds

LEMMA TriesBy ==
    ASSUME [Next]_vars
    PROVE  tries' = tries \/ \E net \in Nets : DepositSends(net)
<1>1. CASE DeployResets \/ DeploySaves \/ Stop \/ DepositSaves \/ MintSaves
  BY <1>1 DEF DeployResets, DeploySaves, Stop, DepositSaves, MintSaves
<1>2. ASSUME NEW id \in Ids,
             \/ MintSends(id) \/ Sync(id) \/ Begin("claim", id) \/ Begin("relay", id)
             \/ Spend(id) \/ SweepBegins(id) \/ WorkflowAnnounces(id)
      PROVE  tries' = tries
  BY <1>2 DEF MintSends, Sync, Begin, Spend, Wire, SweepBegins, WorkflowAnnounces, client
<1>3. CASE ClaimSends \/ ClaimMined \/ RelaySends \/ RelayAnswers \/ SweepSends \/ SweepSkips \/ WireMined
  BY <1>3 DEF ClaimSends, ClaimMined, RelaySends, RelayAnswers, SweepSends, Wire, SweepSkips, WireMined
<1>4. CASE MineDeposit \/ MineAnnounce \/ MineClaim
  BY <1>4 DEF MineDeposit, MineAnnounce, MineClaim, Mines
<1>5. CASE \/ \E value \in OtherValues : OtherDeposits(value)
           \/ \E sig \in shown : RelayerClaims(sig)
           \/ \E x \in wires, cost \in 0 .. Fee : WireLands(x, cost)
           \/ Block \/ UNCHANGED vars
  BY <1>5 DEF OtherDeposits, RelayerClaims, WireLands, Block, vars, client
<1> QED BY <1>1, <1>2, <1>3, <1>4, <1>5 DEF Next

(* No wallet of ours is behind two points, in the contract or on the way to *)
(* it.                                                                      *)
LEMMA OnceStep ==
    ASSUME Base, BroughtOnce, SentOnce, [Next]_vars
    PROVE  BroughtOnce' /\ SentOnce'
<1>0. MempoolTyped
  BY DEF Base
<1>1. CASE MineDeposit
  BY <1>1, MineDepositOnce
<1>2. CASE \E net \in Nets : DepositSends(net)
  BY <1>2, DepositSendsOnce
<1>3. CASE ~ MineDeposit /\ ~ \E net \in Nets : DepositSends(net)
  <2>1. tries' = tries
    BY <1>3, TriesBy
  <2>2. \A id \in Ids :
           \/ brought'[id].wallets = brought[id].wallets
           \/ \A i \in DOMAIN brought'[id].wallets : brought'[id].wallets[i] = Stranger
    BY <1>3, BroughtBy
  <2>3. ASSUME NEW tx, Transmit(tx), tx.kind # "deposit", NEW k \in DOMAIN mempool',
               mempool'[k].kind = "deposit"
        PROVE  k \in Nat /\ k + 0 \in DOMAIN mempool /\ mempool'[k] = mempool[k + 0]
    <3>1. k \in DOMAIN mempool /\ mempool'[k] = mempool[k] /\ mempool \in Seq(Txs)
      BY <1>0, <2>3, TransmitAt DEF MempoolTyped
    <3>2. k \in Nat
      BY <3>1
    <3>3. k + 0 = k
      BY <3>2
    <3> QED BY <3>1, <3>2, <3>3
  <2>4. CASE \E id \in Ids : MintSends(id)
    <3>1. PICK id \in Ids : MintSends(id)
      BY <2>4
    <3>2. PICK split, sigs : Transmit([kind |-> "announce", report |-> Report(id, split), sigs |-> sigs])
      BY <3>1 DEF MintSends
    <3>3. [kind |-> "announce", report |-> Report(id, split), sigs |-> sigs].kind # "deposit"
      OBVIOUS
    <3>4. \A k \in DOMAIN mempool' : mempool'[k].kind = "deposit" =>
            k \in Nat /\ k + 0 \in DOMAIN mempool /\ mempool'[k] = mempool[k + 0]
      BY <2>3, <3>2, <3>3
    <3> QED BY <2>1, <2>2, <3>4, OnceKept
  <2>5. CASE ClaimSends
    <3>1. PICK tx : Transmit(tx) /\ tx.kind # "deposit"
      BY <2>5 DEF ClaimSends
    <3>2. \A k \in DOMAIN mempool' : mempool'[k].kind = "deposit" =>
            k \in Nat /\ k + 0 \in DOMAIN mempool /\ mempool'[k] = mempool[k + 0]
      BY <2>3, <3>1
    <3> QED BY <2>1, <2>2, <3>2, OnceKept
  <2>6. CASE mempool # <<>> /\ mempool' = Tail(mempool)
    <3>1. \A k \in DOMAIN mempool' : k \in Nat /\ k + 1 \in DOMAIN mempool /\ mempool'[k] = mempool[k + 1]
      BY <1>0, <2>6, TailAt
    <3> QED BY <2>1, <2>2, <3>1, OnceKept
  <2>7. CASE mempool' = mempool
    <3>1. \A k \in DOMAIN mempool : k \in Nat /\ k + 0 = k
      BY <1>0 DEF MempoolTyped
    <3>2. \A k \in DOMAIN mempool' : k \in Nat /\ k + 0 \in DOMAIN mempool /\ mempool'[k] = mempool[k + 0]
      BY <2>7, <3>1
    <3> QED BY <2>1, <2>2, <3>2, OnceKept
  <2> QED BY <1>3, <2>4, <2>5, <2>6, <2>7, MempoolWriters
<1> QED BY <1>1, <1>2, <1>3

(* A signature is over the point that it is filed under. *)
LEMMA SigIsOfPoint ==
    ASSUME Base, Signed, Fitting, NEW id \in Ids, NEW i \in DOMAIN answer[id]
    PROVE  /\ i \in DOMAIN brought[id].wallets
           /\ answer[id][i][2] = brought[id].wallets[i]
<1>1. answer[id] = SplitSigs(id) /\ Fits(id)
  BY AnnouncedOpened DEF Signed, SplitAnnounced, Fitting
<1>2. i \in DOMAIN brought[id].wallets
  BY <1>1 DEF Fits
<1>3. SplitSigs(id)[i][2] = brought[id].wallets[i]
  BY <1>1 DEF SplitSigs, SplitOver
<1> QED BY <1>1, <1>2, <1>3

(* So one wallet has one signature.                                         *)
LEMMA SigOnce ==
    ASSUME Base, Signed, Fitting, BroughtOnce,
           NEW id \in Ids, NEW i \in DOMAIN answer[id],
           NEW d \in Ids, NEW j \in DOMAIN brought[d].wallets,
           answer[id][i][2] # Stranger, brought[d].wallets[j] = answer[id][i][2]
    PROVE  d = id /\ j = i
BY SigIsOfPoint DEF BroughtOnce

(* The summands of the books. *)
LEMMA BooksTyped ==
    ASSUME Base, NEW id \in Ids
    PROVE  /\ MaxDeposits \in Nat /\ Len(answer[id]) \in Nat
           /\ DOMAIN answer[id] = 1 .. Len(answer[id])
           /\ Denominations(id) \in [1 .. Len(answer[id]) -> Nat]
           /\ PaidNotes(id) \in [1 .. Len(answer[id]) -> Nat]
           /\ SoldAt(id) \in Nat /\ PaidAt(id) \in Nat
           /\ \A i \in DOMAIN answer[id] :
                 answer[id][i][1] \in Denoms /\ answer[id][i][1] \in Nat /\ answer[id][i][2] \in Accounts
<1>1. answer[id] \in Seq(Denoms \X Points) /\ MaxDeposits \in Nat
  BY LedgerNumbers DEF Base
<1>2. Len(answer[id]) \in Nat /\ DOMAIN answer[id] = 1 .. Len(answer[id])
  BY <1>1
<1>3. \A i \in DOMAIN answer[id] :
         answer[id][i][1] \in Denoms /\ answer[id][i][1] \in Nat /\ answer[id][i][2] \in Accounts
  <2>1. ASSUME NEW i \in DOMAIN answer[id] PROVE answer[id][i] \in Denoms \X Points
    BY <1>1
  <2>2. Denoms \subseteq Nat /\ Points \subseteq Accounts
    BY Smallest DEF Points, Accounts
  <2> QED BY <2>1, <2>2
<1>4. Denominations(id) \in [1 .. Len(answer[id]) -> Nat]
  BY <1>2, <1>3 DEF Denominations
<1>5. PaidNotes(id) \in [1 .. Len(answer[id]) -> Nat]
  BY <1>2, <1>3 DEF PaidNotes
<1>6. Len(answer[id]) \in 0 .. Len(answer[id])
  BY <1>2
<1>7. SoldAt(id) \in Nat /\ PaidAt(id) \in Nat
  BY <1>2, <1>4, <1>5, <1>6, SumBounds DEF SoldAt, PaidAt, Total
<1> QED BY <1>1, <1>2, <1>3, <1>4, <1>5, <1>7

(* An announced note that is not paid fits what the contract still owes.    *)
LEMMA OwedIsPayable ==
    ASSUME Base, Totals, NEW denom, NEW wallet, Announced(<<denom, wallet>>), ~ st.claimed[wallet]
    PROVE  Payable(denom, wallet)
<1>0. PICK id \in Ids : \E i \in DOMAIN answer[id] : answer[id][i] = <<denom, wallet>>
  BY DEF Announced
<1>1. PICK i \in DOMAIN answer[id] : answer[id][i] = <<denom, wallet>>
  BY <1>0
<1> DEFINE n == Len(answer[id])
           f == PaidNotes(id)
           g == Denominations(id)
           sold == [d \in Ids |-> SoldAt(d)]
           paid == [d \in Ids |-> PaidAt(d)]
<1>2. /\ n \in Nat /\ f \in [1 .. n -> Nat] /\ g \in [1 .. n -> Nat] /\ i \in 1 .. n
      /\ denom \in Nat
  BY <1>1, BooksTyped
<1>3. f[i] = 0 /\ g[i] = denom
  BY <1>1 DEF PaidNotes, Denominations
<1>4. ASSUME NEW d \in Ids
      PROVE  /\ \A j \in 1 .. Len(answer[d]) : PaidNotes(d)[j] <= Denominations(d)[j]
             /\ PaidAt(d) <= SoldAt(d)
  <2>1. \A j \in DOMAIN answer[d] : answer[d][j][1] \in Nat
    BY BooksTyped
  <2>2. \A j \in DOMAIN answer[d] : PaidNotes(d)[j] <= Denominations(d)[j]
    BY <2>1 DEF PaidNotes, Denominations
  <2>3. /\ Len(answer[d]) \in Nat /\ DOMAIN answer[d] = 1 .. Len(answer[d])
        /\ PaidNotes(d) \in [1 .. Len(answer[d]) -> Nat]
        /\ Denominations(d) \in [1 .. Len(answer[d]) -> Nat]
    BY BooksTyped
  <2>4. Total(PaidNotes(d), Len(answer[d])) <= Total(Denominations(d), Len(answer[d]))
    <3> DEFINE m == Len(answer[d])
               p == PaidNotes(d)
               q == Denominations(d)
    <3>1. m \in Nat /\ p \in [1 .. m -> Nat] /\ q \in [1 .. m -> Nat] /\ \A j \in 1 .. m : p[j] <= q[j]
      BY <2>2, <2>3
    <3> HIDE DEF m, p, q
    <3>2. Total(p, m) <= Total(q, m)
      BY <3>1, SumMonotone
    <3> QED BY <3>2 DEF m, p, q
  <2> QED BY <2>2, <2>3, <2>4 DEF PaidAt, SoldAt
<1>5. \A j \in 1 .. n : f[j] <= g[j]
  BY <1>4
<1> HIDE DEF n, f, g
<1>6. Total(f, n) + denom <= Total(g, n)
  <2>1. f[i] + denom <= g[i]
    BY <1>2, <1>3
  <2> QED BY <1>2, <1>5, <2>1, SumRoom
<1>7. PaidAt(id) + denom <= SoldAt(id)
  BY <1>6 DEF PaidAt, SoldAt, n, f, g
<1>8. /\ MaxDeposits \in Nat /\ Ids = 1 .. MaxDeposits
      /\ sold \in [1 .. MaxDeposits -> Nat] /\ paid \in [1 .. MaxDeposits -> Nat]
      /\ \A d \in 1 .. MaxDeposits : paid[d] <= sold[d]
      /\ paid[id] + denom <= sold[id]
  <2>1. MaxDeposits \in Nat /\ Ids = 1 .. MaxDeposits
    BY BooksTyped DEF Ids
  <2>2. \A d \in Ids : SoldAt(d) \in Nat /\ PaidAt(d) \in Nat
    BY BooksTyped
  <2> QED BY <1>4, <1>7, <2>1, <2>2
<1> HIDE DEF sold, paid
<1>9. Total(paid, MaxDeposits) + denom <= Total(sold, MaxDeposits)
  BY <1>2, <1>8, SumRoom
<1>10. st.totalClaimed + denom <= st.totalAnnounced
  BY <1>9 DEF Totals, sold, paid
<1> QED BY <1>10 DEF Payable

(* The totals are the same if no note is announced or paid.                 *)
LEMMA TotalsSame ==
    ASSUME Totals, answer' = answer, st'.claimed = st.claimed,
           st'.totalAnnounced = st.totalAnnounced, st'.totalClaimed = st.totalClaimed
    PROVE  Totals'
BY DEF Totals, SoldAt, PaidAt, Denominations, PaidNotes

(* An announcement adds a deposit to what is sold.  None of its wallets is  *)
(* paid yet: a paid one would be behind another announced deposit.          *)
LEMMA SettlingTotals ==
    ASSUME Base, Signed, Fitting, BroughtOnce, Totals,
           NEW report, NEW sigs, Settling(report, sigs),
           sigs = SplitSigs(report.id), Fits(report.id)
    PROVE  Totals'
<1> DEFINE id == report.id
           sum == Total(report.denoms, Len(report.denoms))
<1>1. /\ id \in Opened /\ id \in Ids /\ answer[id] = <<>> /\ answer'[id] = sigs
      /\ \A d \in Ids : d # id => answer'[d] = answer[d]
  <2>1. report.id \in Ids
    BY DEF Settling
  <2> QED BY <2>1, SettledLedger DEF Base, Settling
<1>2. /\ st.deposits[id].status = "Pending"
      /\ st'.totalAnnounced = st.totalAnnounced + sum
      /\ st'.totalClaimed = st.totalClaimed /\ st'.claimed = st.claimed
  BY DEF Settling, Settles
<1>3. /\ report.denoms = [i \in DOMAIN sigs |-> sigs[i][1]] /\ Len(report.denoms) = Len(sigs)
      /\ sigs \in Seq(Denoms \X Points) /\ sum \in Nat
  BY SumOfNotes DEF Settling
<1>4. \A i \in DOMAIN sigs : ~ st.claimed[sigs[i][2]]
  <2> SUFFICES ASSUME NEW i \in DOMAIN sigs, st.claimed[sigs[i][2]] PROVE FALSE
    OBVIOUS
  <2>1. i \in DOMAIN brought[id].wallets /\ sigs[i][2] = brought[id].wallets[i]
    BY DEF Fits, SplitSigs, SplitOver
  <2>2. sigs[i][2] \in Accounts
    <3>1. sigs[i] \in Denoms \X Points
      BY <1>3
    <3> QED BY <3>1 DEF Points, Accounts
  <2>3. PICK d \in Ids : \E j \in DOMAIN answer[d] : answer[d][j][2] = sigs[i][2]
    BY <2>2 DEF Totals
  <2>4. sigs[i][2] # Stranger
    BY <2>2, StrangerIsNoWallet DEF Totals
  <2>5. d = id
    BY <1>1, <2>1, <2>3, <2>4, SigOnce
  <2> QED BY <1>1, <2>3, <2>5
<1> DEFINE sold == [d \in Ids |-> SoldAt(d)]
           paid == [d \in Ids |-> PaidAt(d)]
<1>5. /\ MaxDeposits \in Nat /\ Ids = 1 .. MaxDeposits
      /\ sold \in [1 .. MaxDeposits -> Nat] /\ paid \in [1 .. MaxDeposits -> Nat]
  <2>1. MaxDeposits \in Nat /\ Ids = 1 .. MaxDeposits
    BY CliAssumption DEF Ids
  <2>2. \A d \in Ids : SoldAt(d) \in Nat /\ PaidAt(d) \in Nat
    BY BooksTyped
  <2> QED BY <2>1, <2>2
<1>6. sold[id] = 0 /\ paid[id] = 0
  <2>1. /\ Denominations(id) \in [1 .. 0 -> Nat] /\ PaidNotes(id) \in [1 .. 0 -> Nat]
        /\ Len(answer[id]) = 0
    BY <1>1, BooksTyped
  <2>2. Total(Denominations(id), 0) = 0 /\ Total(PaidNotes(id), 0) = 0
    BY <2>1, TotalZero
  <2> QED BY <1>1, <2>1, <2>2 DEF SoldAt, PaidAt
<1>7. SoldAt(id)' = sum
  <2>1. Denominations(id)' = report.denoms
    BY <1>1, <1>3 DEF Denominations
  <2> QED BY <1>1, <1>3, <2>1 DEF SoldAt
<1>8. PaidAt(id)' = 0
  <2>1. PaidNotes(id)' = [i \in DOMAIN sigs |-> 0]
    BY <1>1, <1>2, <1>4 DEF PaidNotes
  <2>2. Len(sigs) \in Nat /\ DOMAIN sigs = 1 .. Len(sigs)
    BY <1>3
  <2>3. Total([i \in DOMAIN sigs |-> 0], Len(sigs)) = 0
    <3>1. [i \in DOMAIN sigs |-> 0] \in [1 .. Len(sigs) -> Nat]
      BY <2>2
    <3> QED BY <2>2, <3>1, TotalZero
  <2> QED BY <1>1, <2>1, <2>3 DEF PaidAt
<1>9. \A d \in Ids : d # id => SoldAt(d)' = SoldAt(d) /\ PaidAt(d)' = PaidAt(d)
  BY <1>1, <1>2 DEF SoldAt, PaidAt, Denominations, PaidNotes
<1>10. PICK sold2, paid2 : sold2 = [d \in Ids |-> SoldAt(d)'] /\ paid2 = [d \in Ids |-> PaidAt(d)']
  OBVIOUS
<1>11. /\ sold2 \in [1 .. MaxDeposits -> Nat] /\ sold2[id] = sum
       /\ \A d \in 1 .. MaxDeposits : d # id => sold2[d] = sold[d]
  <2>1. \A d \in Ids : sold2[d] = IF d = id THEN sum ELSE sold[d]
    BY <1>7, <1>9, <1>10
  <2>2. sold2 = [d \in 1 .. MaxDeposits |-> sold2[d]]
    BY <1>5, <1>10
  <2> HIDE DEF sold, sum
  <2> QED BY <1>1, <1>3, <1>5, <2>1, <2>2
<1>12. paid2 = paid
  BY <1>6, <1>8, <1>9, <1>10
<1> HIDE DEF sold, sum
<1>13. Total(sold2, MaxDeposits) = Total(sold, MaxDeposits) + sum
  <2>1. Total(sold2, MaxDeposits) = Total(sold, MaxDeposits) + sold2[id] - sold[id]
    BY <1>1, <1>5, <1>11, SumChange
  <2>2. Total(sold, MaxDeposits) \in Nat
    <3>1. MaxDeposits \in 0 .. MaxDeposits
      BY <1>5
    <3> QED BY <1>5, <3>1, SumBounds DEF Total
  <2> QED BY <1>3, <1>6, <1>11, <2>1, <2>2
<1>14. /\ st'.totalAnnounced = Total(sold2, MaxDeposits)
       /\ st'.totalClaimed = Total(paid2, MaxDeposits)
  BY <1>2, <1>12, <1>13 DEF Totals, sold
<1>15. ASSUME NEW a \in Accounts, st'.claimed[a]
       PROVE  a \in Wallets /\ \E d \in Ids : \E i \in DOMAIN answer'[d] : answer'[d][i][2] = a
  <2>1. a \in Wallets
    BY <1>2, <1>15 DEF Totals
  <2>2. PICK d \in Ids : \E i \in DOMAIN answer[d] : answer[d][i][2] = a
    BY <1>2, <1>15 DEF Totals
  <2>3. d # id
    BY <1>1, <2>2
  <2> QED BY <1>1, <2>1, <2>2, <2>3
<1> QED BY <1>10, <1>14, <1>15 DEF Totals

(* A claim pays one note of one deposit. *)
LEMMA PayingTotals ==
    ASSUME Base, Signed, Fitting, BroughtOnce, Totals,
           NEW denom, NEW wallet \in Wallets, Paying(denom, wallet), Announced(<<denom, wallet>>)
    PROVE  Totals'
<1>1. /\ denom \in Denoms /\ ~ st.claimed[wallet] /\ st'.claimed[wallet]
      /\ st'.totalClaimed = st.totalClaimed + denom
      /\ st'.totalAnnounced = st.totalAnnounced /\ answer' = answer
      /\ \A a \in Accounts : a # wallet => st'.claimed[a] = st.claimed[a]
  BY PaidWallet
<1>2. denom \in Nat /\ wallet # Stranger
  BY <1>1, Smallest, StrangerIsNoWallet
<1>3. PICK id \in Ids : \E i \in DOMAIN answer[id] : answer[id][i] = <<denom, wallet>>
  BY DEF Announced
<1>4. PICK i \in DOMAIN answer[id] : answer[id][i] = <<denom, wallet>>
  BY <1>3
<1>5. ASSUME NEW d \in Ids, NEW j \in DOMAIN answer[d], answer[d][j][2] = wallet
      PROVE  d = id /\ j = i
  <2>1. j \in DOMAIN brought[d].wallets /\ brought[d].wallets[j] = answer[id][i][2]
    BY <1>4, <1>5, SigIsOfPoint
  <2>2. answer[id][i][2] # Stranger
    BY <1>2, <1>4
  <2> QED BY <1>4, <2>1, <2>2, SigOnce
<1> DEFINE n == Len(answer[id])
           f == PaidNotes(id)
<1>6. PICK g : g = [j \in DOMAIN answer[id] |-> IF st'.claimed[answer[id][j][2]]
                                                THEN answer[id][j][1] ELSE 0]
  OBVIOUS
<1>7. /\ n \in Nat /\ DOMAIN answer[id] = 1 .. n /\ f \in [1 .. n -> Nat] /\ i \in 1 .. n
      /\ \A j \in 1 .. n : answer[id][j][1] \in Nat /\ answer[id][j][2] \in Accounts
  BY <1>4, BooksTyped
<1>8. g \in [1 .. n -> Nat] /\ g[i] = denom /\ f[i] = 0
  BY <1>1, <1>4, <1>6, <1>7 DEF PaidNotes
<1>9. \A j \in 1 .. n : j # i => g[j] = f[j]
  <2> SUFFICES ASSUME NEW j \in 1 .. n, j # i PROVE g[j] = f[j]
    OBVIOUS
  <2>1. answer[id][j][2] # wallet
    BY <1>5, <1>7
  <2>2. st'.claimed[answer[id][j][2]] = st.claimed[answer[id][j][2]]
    BY <1>1, <1>7, <2>1
  <2> QED BY <1>6, <1>7, <2>2 DEF PaidNotes
<1>10. PaidAt(id)' = Total(g, n)
  BY <1>1, <1>6 DEF PaidAt, PaidNotes
<1>11. PaidAt(id) = Total(f, n) /\ PaidAt(id) \in Nat
  BY BooksTyped DEF PaidAt
<1> HIDE DEF n, f
<1>12. PaidAt(id)' = PaidAt(id) + denom
  <2>1. Total(g, n) = Total(f, n) + g[i] - f[i]
    BY <1>7, <1>8, <1>9, SumChange
  <2> QED BY <1>2, <1>8, <1>10, <1>11, <2>1
<1>13. ASSUME NEW d \in Ids, d # id PROVE PaidAt(d)' = PaidAt(d)
  <2>1. \A j \in DOMAIN answer[d] : answer[d][j][2] \in Accounts /\ answer[d][j][2] # wallet
    BY <1>5, <1>13, BooksTyped
  <2>2. PaidNotes(d)' = PaidNotes(d)
    BY <1>1, <2>1 DEF PaidNotes
  <2> QED BY <1>1, <2>2 DEF PaidAt
<1>14. \A d \in Ids : SoldAt(d)' = SoldAt(d)
  BY <1>1 DEF SoldAt, Denominations
<1> DEFINE paid == [d \in Ids |-> PaidAt(d)]
<1>15. PICK paid2 : paid2 = [d \in Ids |-> PaidAt(d)']
  OBVIOUS
<1>16. /\ MaxDeposits \in Nat /\ Ids = 1 .. MaxDeposits /\ paid \in [1 .. MaxDeposits -> Nat]
       /\ paid[id] = PaidAt(id)
  <2>1. MaxDeposits \in Nat /\ Ids = 1 .. MaxDeposits
    BY CliAssumption DEF Ids
  <2>2. \A d \in Ids : PaidAt(d) \in Nat
    BY BooksTyped
  <2> QED BY <2>1, <2>2
<1>17. \A d \in Ids : paid2[d] = IF d = id THEN PaidAt(id) + denom ELSE paid[d]
  BY <1>12, <1>13, <1>15
<1>18. paid2 \in [1 .. MaxDeposits -> Nat]
  <2>1. paid2 = [d \in 1 .. MaxDeposits |-> paid2[d]]
    BY <1>15, <1>16
  <2> HIDE DEF paid
  <2> QED BY <1>2, <1>11, <1>16, <1>17, <2>1
<1> HIDE DEF paid
<1>19. Total(paid2, MaxDeposits) = Total(paid, MaxDeposits) + denom
  <2>1. \A d \in 1 .. MaxDeposits : d # id => paid2[d] = paid[d]
    BY <1>16, <1>17
  <2>2. Total(paid2, MaxDeposits) = Total(paid, MaxDeposits) + paid2[id] - paid[id]
    BY <1>16, <1>18, <2>1, SumChange
  <2>3. Total(paid, MaxDeposits) \in Nat
    <3>1. MaxDeposits \in 0 .. MaxDeposits
      BY <1>16
    <3> QED BY <1>16, <3>1, SumBounds DEF Total
  <2> QED BY <1>2, <1>11, <1>16, <1>17, <2>2, <2>3
<1>20. st'.totalClaimed = Total(paid2, MaxDeposits)
  BY <1>1, <1>19 DEF Totals, paid
<1>21. ASSUME NEW a \in Accounts, st'.claimed[a]
       PROVE  a \in Wallets /\ \E d \in Ids : \E j \in DOMAIN answer'[d] : answer'[d][j][2] = a
  <2>1. CASE a = wallet
    BY <1>1, <1>4, <2>1
  <2>2. CASE a # wallet
    BY <1>1, <1>21, <2>2 DEF Totals
  <2> QED BY <2>1, <2>2
<1>22. st'.totalAnnounced = Total([d \in Ids |-> SoldAt(d)'], MaxDeposits)
  <2>1. [d \in Ids |-> SoldAt(d)'] = [d \in Ids |-> SoldAt(d)]
    BY <1>14
  <2> QED BY <1>1, <2>1 DEF Totals
<1> QED BY <1>15, <1>20, <1>21, <1>22 DEF Totals

(* The running totals of the contract are the sums over its announcements:  *)
(* the check of claim (BlindMint.sol) against them never refuses an         *)
(* announced note.                                                          *)
LEMMA TotalsStep ==
    ASSUME Base, Records, Signed, Fitting, BroughtOnce, Totals, [Next]_vars
    PROVE  Totals'
<1>1. ASSUME QuietStep PROVE Totals'
  BY <1>1, TotalsSame DEF QuietStep
<1>2. ASSUME NEW sender, NEW value, NEW wallets, NEW net, Opening(sender, value, wallets, net)
      PROVE  Totals'
  <2>1. /\ st'.claimed = st.claimed /\ st'.totalAnnounced = st.totalAnnounced
        /\ st'.totalClaimed = st.totalClaimed /\ answer' = answer
    BY <1>2, OpenedLedger DEF Base, Opening
  <2> QED BY <2>1, TotalsSame
<1>3. CASE ClientStep \/ UNCHANGED vars
  <2>1. QuietStep
    BY <1>3, ClientQuiet DEF QuietStep, vars, chain, client, deposits, contract
  <2> QED BY <1>1, <2>1
<1>4. CASE MineDeposit
  BY <1>2, <1>4, MineDepositIs
<1>5. CASE MineAnnounce
  <2>1. PICK tx : tx = Head(mempool)
    OBVIOUS
  <2>2. /\ tx \in AnnounceTxs /\ mempool # <<>>
        /\ Settling(tx.report, tx.sigs) \/ QuietStep
    BY <1>5, <2>1, MineAnnounceIs
  <2>3. 1 \in DOMAIN mempool /\ tx = mempool[1] /\ tx.kind = "announce"
    BY <2>1, <2>2, HeadTyped DEF Base, AnnounceTxs
  <2>4. tx.sigs = SplitSigs(tx.report.id) /\ Fits(tx.report.id)
    BY <2>3 DEF Signed, MempoolGood, Fitting
  <2> QED BY <1>1, <2>2, <2>4, SettlingTotals
<1>6. CASE MineClaim
  <2>1. PICK tx : tx = Head(mempool)
    OBVIOUS
  <2>2. tx \in ClaimTxs /\ mempool # <<>> /\ (Paying(tx.denom, tx.wallet) \/ QuietStep)
    BY <1>6, <2>1, MineClaimIs
  <2>3. 1 \in DOMAIN mempool /\ tx = mempool[1] /\ tx.kind = "claim" /\ tx.wallet \in Wallets
    BY <2>1, <2>2, HeadTyped DEF Base, ClaimTxs
  <2>4. Announced(<<tx.denom, tx.wallet>>)
    BY <2>3 DEF Signed, MempoolGood
  <2> QED BY <1>1, <2>2, <2>3, <2>4, PayingTotals
<1>7. ASSUME NEW value \in OtherValues, OtherDeposits(value) PROVE Totals'
  BY <1>2, <1>7, OtherDepositsIs
<1>8. ASSUME NEW id \in Ids, WorkflowAnnounces(id) PROVE Totals'
  <2>1. PICK report : report = Report(id, WorkflowSplit(id))
    OBVIOUS
  <2>2. Settling(report, SplitSigs(id)) /\ Fits(id) /\ report.id = id
    BY <1>8, <2>1, WorkflowAnnouncesIs DEF Report
  <2>3. PICK sigs : sigs = SplitSigs(report.id)
    OBVIOUS
  <2>4. Settling(report, sigs) /\ Fits(report.id)
    BY <2>2, <2>3
  <2> QED BY <2>3, <2>4, SettlingTotals
<1>9. ASSUME NEW sig \in shown, RelayerClaims(sig) PROVE Totals'
  <2>1. sig \in Nat \X Accounts /\ sig[2] \in Wallets /\ Announced(sig)
    BY DEF Base, ShownTyped, Signed, ShownGood
  <2>2. sig = <<sig[1], sig[2]>> /\ sig[2] \in Accounts
    BY <2>1
  <2>3. Paying(sig[1], sig[2])
    BY <1>9, <2>2, RelayerClaimsIs
  <2>4. Announced(<<sig[1], sig[2]>>)
    BY <2>1, <2>2
  <2> QED BY <2>1, <2>3, <2>4, PayingTotals
<1>10. CASE (\E x \in wires, cost \in 0 .. Fee : WireLands(x, cost)) \/ Block
  BY <1>1, <1>10, WireQuiet, BlockQuiet
<1> QED BY <1>3, <1>4, <1>5, <1>6, <1>7, <1>8, <1>9, <1>10, StepKinds

LEMMA BooksInit ==
    ASSUME Init
    PROVE  Books
<1>1. /\ mempool = <<>> /\ DOMAIN mempool = {}
      /\ \A id \in Ids : /\ st.deposits[id].status = "None"
                         /\ answer[id] = <<>> /\ brought[id].wallets = <<>>
      /\ \A a \in Accounts : ~ st.claimed[a]
      /\ st.totalAnnounced = 0 /\ st.totalClaimed = 0
  <2>1. DOMAIN <<>> = {}
    OBVIOUS
  <2> QED BY <2>1, ContractInit DEF Init
<1>2. Fitting /\ SentOnce
  BY <1>1 DEF Fitting, SentOnce
<1>3. BroughtOnce
  <2>1. \A id \in Ids : DOMAIN brought[id].wallets = {}
    BY <1>1
  <2> QED BY <2>1 DEF BroughtOnce
<1>4. \A id \in Ids : SoldAt(id) = 0 /\ PaidAt(id) = 0
  <2>1. ASSUME NEW id \in Ids PROVE SoldAt(id) = 0 /\ PaidAt(id) = 0
    <3>1. /\ Denominations(id) \in [1 .. 0 -> Nat] /\ PaidNotes(id) \in [1 .. 0 -> Nat]
          /\ Len(answer[id]) = 0
      BY <1>1 DEF Denominations, PaidNotes
    <3>2. ASSUME NEW f \in [1 .. 0 -> Nat] PROVE Total(f, 0) = 0
      <4>1. \A i \in 1 .. 0 : f[i] = 0
        OBVIOUS
      <4> QED BY <4>1, TotalZero
    <3> QED BY <3>1, <3>2 DEF SoldAt, PaidAt
  <2> QED BY <2>1
<1>5. MaxDeposits \in Nat /\ Ids = 1 .. MaxDeposits
  BY CliAssumption DEF Ids
<1>6. /\ Total([id \in Ids |-> SoldAt(id)], MaxDeposits) = 0
      /\ Total([id \in Ids |-> PaidAt(id)], MaxDeposits) = 0
  <2> DEFINE f == [id \in Ids |-> SoldAt(id)]
             g == [id \in Ids |-> PaidAt(id)]
  <2>1. /\ f \in [1 .. MaxDeposits -> Nat] /\ \A i \in 1 .. MaxDeposits : f[i] = 0
        /\ g \in [1 .. MaxDeposits -> Nat] /\ \A i \in 1 .. MaxDeposits : g[i] = 0
    BY <1>4, <1>5
  <2> HIDE DEF f, g
  <2>2. Total(f, MaxDeposits) = 0 /\ Total(g, MaxDeposits) = 0
    BY <1>5, <2>1, TotalZero
  <2> QED BY <2>2 DEF f, g
<1>7. Totals
  BY <1>1, <1>6 DEF Totals
<1> QED BY <1>2, <1>3, <1>7 DEF Books

(* Books is inductive with the layers before it.                            *)
LEMMA BooksStep ==
    ASSUME Base, Records, Signed, Books, [Next]_vars
    PROVE  Books'
BY FittingStep, OnceStep, TotalsStep DEF Books

-----------------------------------------------------------------------------
(* A note booked as claimed is paid. *)

LEMMA BookedKept ==
    ASSUME Evolves, NEW note \in NoteSet, Booked(note)
    PROVE  Booked(note)'
<1>1. note.wallet \in Accounts
  BY DEF NoteSet, Accounts
<1> QED BY <1>1 DEF Booked, Evolves

(* Before a command books a note, the contract has paid it. *)
LEMMA BooksThePaid ==
    ASSUME Base, ReceiptPaid, ClaimMined \/ RelayAnswers
    PROVE  st.claimed[ThisNote.wallet]
BY DEF ClaimMined, RelayAnswers, ReceiptPaid, Mined

(* Where the notes in memory come from. *)
LEMMA RunNotesBy ==
    ASSUME Base, [Next]_vars
    PROVE  \/ run'.notes = run.notes \/ run'.notes = <<>>
           \/ \E net \in Nets : DepositSends(net)
           \/ \E id \in Ids : MintSends(id)
           \/ \E id \in Ids :
                /\ findDeposit(id) # 0
                /\ \A i \in DOMAIN run'.notes : \E j \in DOMAIN Notes(id) : run'.notes[i] = Notes(id)[j]
           \/ ClaimMined \/ RelayAnswers
<1>0. run \in RunSet
  BY DEF Base, RunTyped
<1>a. Idle.notes = <<>>
  BY DEF Idle
<1>1. CASE DeployResets \/ DeploySaves \/ Stop \/ DepositSaves \/ MintSaves
  <2>1. run' = Idle \/ run' = [Idle EXCEPT !.cmd = "deploy"]
    BY <1>1 DEF DeployResets, DeploySaves, Stop, DepositSaves, MintSaves
  <2>2. [Idle EXCEPT !.cmd = "deploy"].notes = <<>>
    BY DEF Idle
  <2> QED BY <1>a, <2>1, <2>2
<1>2. ASSUME NEW id \in Ids, Spend(id)
      PROVE  /\ findDeposit(id) # 0
             /\ \A i \in DOMAIN run'.notes : \E j \in DOMAIN Notes(id) : run'.notes[i] = Notes(id)[j]
  <2>1. PICK j \in Largest(Notes(id)) :
          run' = [Idle EXCEPT !.cmd = "spend", !.at = "receipt", !.notes = <<Notes(id)[j]>>, !.next = 1]
    BY <1>2 DEF Spend
  <2>2. PICK note : note = Notes(id)[j]
    OBVIOUS
  <2>3. run'.notes = <<note>>
    BY <2>1, <2>2 DEF Idle
  <2>4. j \in DOMAIN Notes(id) /\ findDeposit(id) # 0
    BY <1>2 DEF Spend, Largest
  <2>5. \A i \in DOMAIN <<note>> : <<note>>[i] = note
    OBVIOUS
  <2> QED BY <2>2, <2>3, <2>4, <2>5
<1>3. ASSUME NEW id \in Ids, SweepBegins(id) \/ Begin("claim", id) \/ Begin("relay", id)
      PROVE  /\ findDeposit(id) # 0
             /\ \A i \in DOMAIN run'.notes : \E j \in DOMAIN Notes(id) : run'.notes[i] = Notes(id)[j]
  <2>1. run'.notes = Notes(id) /\ findDeposit(id) # 0
    BY <1>3 DEF SweepBegins, Begin, Idle
  <2> QED BY <2>1
<1>4. ASSUME NEW id \in Ids, Sync(id) \/ WorkflowAnnounces(id)
      PROVE  run' = run
  BY <1>4 DEF Sync, WorkflowAnnounces, client
<1>5. CASE ClaimSends \/ RelaySends \/ SweepSends
  BY <1>0, <1>5 DEF ClaimSends, RelaySends, SweepSends, RunSet
<1>6. CASE SweepSkips \/ WireMined
  <2>1. run' = Idle \/ run' = [run EXCEPT !.at = "note", !.next = @ + 1]
    BY <1>6 DEF SweepSkips, WireMined, NextWallet
  <2> QED BY <1>0, <1>a, <2>1 DEF RunSet
<1>7. CASE MineDeposit \/ MineAnnounce \/ MineClaim
  <2>1. run' = run \/ run' = [run EXCEPT !.block = now + 1]
    BY <1>7 DEF MineDeposit, MineAnnounce, MineClaim, Mines
  <2> QED BY <1>0, <2>1 DEF RunSet
<1>8. ASSUME \/ \E value \in OtherValues : OtherDeposits(value)
             \/ \E sig \in shown : RelayerClaims(sig)
             \/ \E x \in wires, cost \in 0 .. Fee : WireLands(x, cost)
             \/ Block \/ UNCHANGED vars
      PROVE  run' = run
  BY <1>8 DEF OtherDeposits, RelayerClaims, WireLands, Block, client, vars
<1> QED BY <1>1, <1>2, <1>3, <1>4, <1>5, <1>6, <1>7, <1>8 DEF Next

(* A claim at its receipt was there before, or a block has just taken it.   *)
LEMMA ReceiptBy ==
    ASSUME Base, [Next]_vars, run'.cmd = "claim", run'.at = "receipt"
    PROVE  \/ run' = run
           \/ ClaimSends /\ run'.block = 0
           \/ /\ MineDeposit \/ MineAnnounce \/ MineClaim
              /\ Len(mempool) = 1 /\ run.at = "receipt" /\ run.cmd = "claim"
              /\ run'.next = run.next /\ run'.notes = run.notes
<1>0. run \in RunSet
  BY DEF Base, RunTyped
<1>1. ~ (DeployResets \/ DeploySaves \/ Stop \/ DepositSaves \/ MintSaves)
  <2>1. Idle.cmd = "none" /\ [Idle EXCEPT !.cmd = "deploy"].cmd = "deploy"
    BY DEF Idle
  <2> QED BY <2>1 DEF DeployResets, DeploySaves, Stop, DepositSaves, MintSaves
<1>2. \A id \in Ids : ~ (Spend(id) \/ SweepBegins(id) \/ MintSends(id))
  BY DEF Spend, SweepBegins, MintSends, Idle
<1>3. ASSUME NEW net \in Nets, DepositSends(net)
      PROVE  FALSE
  <2> DEFINE notes == [i \in 1 .. pointCount(grossFor(net)) |-> Note(<<tries + 1, i>>)]
  <2>1. run'.cmd = "deposit" /\ run'.notes = notes
    BY <1>3 DEF DepositSends, Idle
  <2> QED BY <2>1
<1>4. \A id \in Ids : ~ (Begin("claim", id) \/ Begin("relay", id))
  BY DEF Begin, Idle
<1>5. ASSUME NEW id \in Ids, Sync(id) \/ WorkflowAnnounces(id)
      PROVE  run' = run
  BY <1>5 DEF Sync, WorkflowAnnounces, client
<1>6. ASSUME ClaimSends PROVE run'.block = 0
  <2>1. run.block = 0 /\ run' = [run EXCEPT !.at = "receipt"]
    BY <1>6, ClaimSendsIs
  <2> QED BY <1>0, <2>1 DEF RunSet
<1>7. ~ (RelaySends \/ SweepSends)
  <2>1. ASSUME RelaySends PROVE FALSE
    <3>1. run.cmd = "relay" /\ run' = [run EXCEPT !.at = "answer", !.paid = st.claimed[ThisNote.wallet]]
      BY <2>1, RelaySendsIs
    <3> QED BY <1>0, <3>1 DEF RunSet
  <2>2. ASSUME SweepSends PROVE FALSE
    BY <1>0, <2>2 DEF SweepSends, Running, RunSet
  <2> QED BY <2>1, <2>2
<1>8. ~ (SweepSkips \/ WireMined)
  <2>1. SweepSkips \/ WireMined => run.cmd \in {"spend", "sweep"} /\ NextWallet
    BY DEF SweepSkips, WireMined, Running
  <2> QED BY <2>1, NextWalletTyped
<1>9. ~ (ClaimMined \/ RelayAnswers)
  <2> SUFFICES ASSUME ClaimMined \/ RelayAnswers PROVE FALSE
    OBVIOUS
  <2>1. Claimed
    BY DEF ClaimMined, RelayAnswers
  <2>2. \/ run' = Idle
        \/ \E notes, next : run' = [run EXCEPT !.at = "note", !.notes = notes, !.block = 0, !.next = next]
    BY <2>1 DEF Claimed
  <2>3. Idle.cmd = "none"
    BY DEF Idle
  <2>4. ASSUME NEW notes, NEW next,
               run' = [run EXCEPT !.at = "note", !.notes = notes, !.block = 0, !.next = next]
        PROVE  run'.at = "note"
    BY <1>0, <2>4 DEF RunSet
  <2> QED BY <2>2, <2>3, <2>4
<1>10. ASSUME MineDeposit \/ MineAnnounce \/ MineClaim
       PROVE  \/ run' = run
              \/ /\ Len(mempool) = 1 /\ run.at = "receipt" /\ run.cmd = "claim"
                 /\ run'.next = run.next /\ run'.notes = run.notes
  <2>1. run' = run \/ (Len(mempool) = 1 /\ run.at = "receipt" /\ run' = [run EXCEPT !.block = now + 1])
    BY <1>10 DEF MineDeposit, MineAnnounce, MineClaim, Mines
  <2>2. CASE run' = [run EXCEPT !.block = now + 1]
    <3>1. run'.cmd = run.cmd /\ run'.next = run.next /\ run'.notes = run.notes
      BY <1>0, <2>2 DEF RunSet
    <3> QED BY <2>1, <3>1
  <2> QED BY <2>1, <2>2
<1>11. ASSUME \/ \E value \in OtherValues : OtherDeposits(value)
              \/ \E sig \in shown : RelayerClaims(sig)
              \/ \E x \in wires, cost \in 0 .. Fee : WireLands(x, cost)
              \/ Block \/ UNCHANGED vars
       PROVE  run' = run
  BY <1>11 DEF OtherDeposits, RelayerClaims, WireLands, Block, client, vars
<1> QED BY <1>1, <1>2, <1>3, <1>4, <1>5, <1>6, <1>7, <1>8, <1>9, <1>10, <1>11 DEF Next

LEMMA NotesTyped ==
    ASSUME Base
    PROVE  /\ run.notes \in Seq(NoteSet) /\ \A i \in DOMAIN run.notes : run.notes[i] \in NoteSet
           /\ \A k \in DOMAIN file.deposits :
                /\ file.deposits[k] \in RecordSet
                /\ \A i \in DOMAIN file.deposits[k].notes : file.deposits[k].notes[i] \in NoteSet
<1>1. run.notes \in Seq(NoteSet)
  BY DEF Base, RunTyped, RunSet
<1>2. file.deposits \in Seq(RecordSet)
  BY DEF Base, FileTyped
<1>3. ASSUME NEW k \in DOMAIN file.deposits
      PROVE  file.deposits[k] \in RecordSet /\ file.deposits[k].notes \in Seq(NoteSet)
  <2>1. file.deposits[k] \in RecordSet
    BY <1>2
  <2> QED BY <2>1 DEF RecordSet
<1>4. ASSUME NEW notes \in Seq(NoteSet), NEW i \in DOMAIN notes PROVE notes[i] \in NoteSet
  OBVIOUS
<1> QED BY <1>1, <1>3, <1>4

(* A command copies notes that are booked rightly.                          *)
LEMMA FoundBooked ==
    ASSUME Base, FileBooked, NEW id, findDeposit(id) # 0, NEW i \in DOMAIN Notes(id)
    PROVE  Booked(Notes(id)[i]) /\ Notes(id)[i] \in NoteSet
<1>1. findDeposit(id) \in DOMAIN file.deposits /\ Notes(id) = file.deposits[findDeposit(id)].notes
  BY Found DEF Base, Notes
<1> QED BY <1>1, NotesTyped DEF FileBooked

(* A note that a command has just booked. *)
LEMMA PaidNotesBooked ==
    ASSUME Base, PaidFor, ClaimMined \/ RelayAnswers, NEW notes, notes = PaidNote(run.notes, run.next),
           NEW i \in DOMAIN notes
    PROVE  Booked(notes[i]) /\ notes[i] \in NoteSet
<1>1. run.cmd \in {"claim", "relay"} /\ Claimed
  BY DEF ClaimMined, RelayAnswers, Running
<1>2. run.next \in DOMAIN run.notes /\ run.notes \in Seq(NoteSet)
  <2>1. PICK id : id = run.id
    OBVIOUS
  <2> QED BY <1>1, <2>1, ClaimedIs
<1>3. /\ notes \in Seq(NoteSet) /\ DOMAIN notes = DOMAIN run.notes
      /\ notes[run.next].wallet = run.notes[run.next].wallet
      /\ \A j \in DOMAIN run.notes : j # run.next => notes[j] = run.notes[j]
  BY <1>2, PaidNoteTyped
<1>4. st.claimed[run.notes[run.next].wallet]
  BY BooksThePaid DEF PaidFor, ThisNote
<1>5. Booked(notes[i])
  BY <1>3, <1>4 DEF PaidFor, Booked
<1> QED BY <1>3, <1>5

(* A save writes the notes of one record.                                   *)
LEMMA SavedBooked ==
    ASSUME Base, Evolves, FileBooked, NEW id, findDeposit(id) # 0,
           NEW notes \in Seq(NoteSet), WalletsOf(notes) = WalletsOf(Notes(id)),
           file' = Saved(id, notes), \A i \in DOMAIN notes : Booked(notes[i])
    PROVE  FileBooked'
<1>1. /\ DOMAIN file'.deposits = DOMAIN file.deposits
      /\ \A l \in DOMAIN file.deposits :
           l # findDeposit(id) => file'.deposits[l].notes = file.deposits[l].notes
      /\ file'.deposits[findDeposit(id)].notes = notes
  BY SavedEffect DEF Base
<1> SUFFICES ASSUME NEW k \in DOMAIN file'.deposits, NEW i \in DOMAIN file'.deposits[k].notes,
                    NEW note, note = file'.deposits[k].notes[i]
             PROVE  Booked(note)'
  BY DEF FileBooked, Booked
<1>2. CASE k = findDeposit(id)
  <2>1. note = notes[i] /\ i \in DOMAIN notes
    BY <1>1, <1>2
  <2>2. note \in NoteSet /\ Booked(note)
    BY <2>1
  <2> QED BY <2>2, BookedKept
<1>3. CASE k # findDeposit(id)
  <2>1. note \in NoteSet /\ Booked(note)
    BY <1>1, <1>3, NotesTyped DEF FileBooked
  <2> QED BY <2>1, BookedKept
<1> QED BY <1>2, <1>3

(* No save books a note as claimed that is not paid.                        *)
LEMMA FileBookedStep ==
    ASSUME Base, PaidFor, [Next]_vars
    PROVE  FileBooked'
<1>1. Evolves /\ FileBooked
  BY ContractKept DEF PaidFor, FileBooked
<1>2. CASE DeployResets
  <2>1. file' = [deployed |-> FALSE, deposits |-> <<>>]
    BY <1>2 DEF DeployResets
  <2>2. DOMAIN file'.deposits = {}
    BY <2>1
  <2> QED BY <2>2 DEF FileBooked
<1>3. CASE file'.deposits = file.deposits \/ DepositSaves
  <2> SUFFICES ASSUME NEW k \in DOMAIN file'.deposits, NEW i \in DOMAIN file'.deposits[k].notes,
                      NEW note, note = file'.deposits[k].notes[i]
               PROVE  Booked(note)'
    BY DEF FileBooked, Booked
  <2>1. file.deposits \in Seq(RecordSet)
    BY DEF Base, FileTyped
  <2>2. note \in NoteSet /\ Booked(note)
    <3>1. CASE file'.deposits = file.deposits
      BY <1>1, <3>1, NotesTyped DEF FileBooked
    <3>2. CASE DepositSaves
      <4>1. PICK last \in RecordSet :
              file'.deposits = Append(file.deposits, last) /\ last.notes = run.notes
        BY <3>2, DepositSavesIs
      <4>2. (k \in DOMAIN file.deposits /\ file'.deposits[k] = file.deposits[k]) \/ file'.deposits[k] = last
        BY <2>1, <4>1
      <4>3. \A l \in DOMAIN run.notes : run.notes[l] \in NoteSet /\ Booked(run.notes[l])
        BY NotesTyped DEF PaidFor
      <4> QED BY <1>1, <4>1, <4>2, <4>3, NotesTyped DEF FileBooked
    <3> QED BY <1>3, <3>1, <3>2
  <2> QED BY <1>1, <2>2, BookedKept
<1>4. ASSUME MintSaves PROVE FileBooked'
  <2>1. PICK id, notes : id = run.id /\ notes = run.notes
    OBVIOUS
  <2>2. run.cmd = "mint" /\ file' = Saved(id, notes)
    BY <1>4, <2>1 DEF MintSaves, Running
  <2>3. findDeposit(id) # 0 /\ notes \in Seq(NoteSet) /\ WalletsOf(notes) = WalletsOf(Notes(id))
    BY <2>1, <2>2, InMemory
  <2>4. \A i \in DOMAIN notes : Booked(notes[i])
    BY <2>1 DEF PaidFor
  <2> QED BY <1>1, <2>2, <2>3, <2>4, SavedBooked
<1>5. ASSUME NEW id \in Ids, Sync(id) PROVE FileBooked'
  <2>1. PICK sigs, before, notes :
          sigs = answer[id] /\ before = Notes(id) /\ notes = SyncedNotes(before, sigs)
    OBVIOUS
  <2>2. /\ findDeposit(id) # 0 /\ file' = Saved(id, notes)
        /\ before \in Seq(NoteSet) /\ sigs \in Seq(Denoms \X Points) /\ Opens(before, sigs)
    BY <1>5, <2>1, SyncIs
  <2>3. /\ notes \in Seq(NoteSet) /\ WalletsOf(notes) = WalletsOf(before)
        /\ DOMAIN notes = DOMAIN before
        /\ \A i \in DOMAIN before : i \notin DOMAIN sigs => notes[i] = before[i]
        /\ \A i \in DOMAIN sigs : notes[i].status = "ready"
    <3>1. before \in Seq(NoteSet) /\ sigs \in Seq(Denoms \X Points) /\ Opens(before, sigs)
      BY <2>2
    <3> QED BY <2>1, <3>1, SyncedNotesTyped
  <2>4. ASSUME NEW i \in DOMAIN notes PROVE Booked(notes[i])
    <3>1. CASE i \in DOMAIN sigs
      BY <2>3, <3>1 DEF Booked
    <3>2. CASE i \notin DOMAIN sigs
      BY <1>1, <2>1, <2>2, <2>3, <3>2, FoundBooked
    <3> QED BY <3>1, <3>2
  <2> QED BY <1>1, <2>1, <2>2, <2>3, <2>4, SavedBooked
<1>6. ASSUME ClaimMined \/ RelayAnswers PROVE FileBooked'
  <2>1. PICK id, notes : id = run.id /\ notes = PaidNote(run.notes, run.next)
    OBVIOUS
  <2>2. run.cmd \in {"claim", "relay"} /\ Claimed
    BY <1>6 DEF ClaimMined, RelayAnswers, Running
  <2>3. /\ notes \in Seq(NoteSet) /\ WalletsOf(notes) = WalletsOf(Notes(id))
        /\ findDeposit(id) # 0
        /\ file' = file \/ file' = Saved(id, notes)
    BY <2>1, <2>2, ClaimedIs
  <2>4. \A i \in DOMAIN notes : Booked(notes[i])
    BY <1>6, <2>1, PaidNotesBooked
  <2>5. file' = file => file'.deposits = file.deposits
    OBVIOUS
  <2> QED BY <1>1, <1>3, <2>3, <2>4, <2>5, SavedBooked
<1> QED BY <1>2, <1>3, <1>4, <1>5, <1>6, FileWriters

(* No command books a note as claimed that is not paid: claim after its     *)
(* receipt, relay after the answer.                                         *)
LEMMA RunBookedStep ==
    ASSUME Base, PaidFor, [Next]_vars
    PROVE  \A i \in DOMAIN run'.notes : Booked(run.notes[i])'
<1>1. Evolves /\ FileBooked
  BY ContractKept DEF PaidFor, FileBooked
<1> SUFFICES ASSUME NEW i \in DOMAIN run'.notes, NEW note, note = run'.notes[i]
             PROVE  Booked(note)'
  BY DEF Booked
<1>2. ASSUME note \in NoteSet, Booked(note) PROVE Booked(note)'
  BY <1>1, <1>2, BookedKept
<1>3. CASE run'.notes = run.notes
  BY <1>2, <1>3, NotesTyped DEF PaidFor
<1>4. CASE run'.notes = <<>>
  BY <1>4
<1>5. ASSUME NEW net \in Nets, DepositSends(net) PROVE Booked(note)'
  <2> DEFINE n == pointCount(grossFor(net))
             notes == [j \in 1 .. n |-> Note(<<tries + 1, j>>)]
  <2>1. run'.notes = notes
    BY <1>5 DEF DepositSends, Idle
  <2>2. \A j \in DOMAIN notes : notes[j].status = "awaiting-mint"
    BY DEF Note
  <2> HIDE DEF notes
  <2> QED BY <2>1, <2>2 DEF Booked
<1>6. ASSUME NEW id \in Ids, MintSends(id) PROVE Booked(note)'
  <2>1. PICK split, notes : split = splitGreedy[file.deposits[findDeposit(id)].amount] /\ notes = Notes(id)
    OBVIOUS
  <2>2. PICK signed : signed = SignedNotes(split, notes)
    OBVIOUS
  <2>3. /\ split \in Seq(Denoms) /\ notes \in Seq(NoteSet) /\ Len(split) <= Len(notes)
        /\ findDeposit(id) # 0
        /\ run' = [Idle EXCEPT !.cmd = "mint", !.id = id, !.at = "receipt", !.notes = signed]
    BY <1>6, <2>1, <2>2, MintSendsIs
  <2>4. /\ DOMAIN signed = DOMAIN notes
        /\ \A j \in DOMAIN notes : j \notin DOMAIN split => signed[j] = notes[j]
        /\ \A j \in DOMAIN split : signed[j].status = "ready"
    <3>1. split \in Seq(Denoms) /\ notes \in Seq(NoteSet) /\ Len(split) <= Len(notes)
      BY <2>3
    <3> QED BY <2>2, <3>1, SignedNotesAre
  <2>5. run'.notes = signed
    BY <2>3 DEF Idle
  <2>6. CASE i \in DOMAIN split
    BY <2>4, <2>5, <2>6 DEF Booked
  <2>7. CASE i \notin DOMAIN split
    <3>1. i \in DOMAIN notes /\ note = notes[i]
      BY <2>4, <2>5, <2>7
    <3> QED BY <1>1, <1>2, <2>1, <2>3, <3>1, FoundBooked
  <2> QED BY <2>6, <2>7
<1>7. ASSUME NEW id \in Ids, findDeposit(id) # 0,
             \A k \in DOMAIN run'.notes : \E j \in DOMAIN Notes(id) : run'.notes[k] = Notes(id)[j]
      PROVE  Booked(note)'
  <2>1. PICK j \in DOMAIN Notes(id) : note = Notes(id)[j]
    BY <1>7
  <2> QED BY <1>1, <1>2, <1>7, <2>1, FoundBooked
<1>8. ASSUME ClaimMined \/ RelayAnswers PROVE Booked(note)'
  <2>1. PICK id, notes : id = run.id /\ notes = PaidNote(run.notes, run.next)
    OBVIOUS
  <2>2. run.cmd \in {"claim", "relay"} /\ Claimed
    BY <1>8 DEF ClaimMined, RelayAnswers, Running
  <2>3. \/ run' = [run EXCEPT !.at = "note", !.notes = notes, !.block = 0,
                              !.next = First(ReadyFrom(notes, run.next))]
        \/ run' = Idle
    BY <2>1, <2>2, ClaimedIs
  <2>4. CASE run' = Idle
    <3>1. Idle.notes = <<>>
      BY DEF Idle
    <3> QED BY <1>4, <2>4, <3>1
  <2>5. CASE run' = [run EXCEPT !.at = "note", !.notes = notes, !.block = 0,
                                !.next = First(ReadyFrom(notes, run.next))]
    <3>1. run \in RunSet
      BY DEF Base, RunTyped
    <3>2. run'.notes = notes
      BY <2>5, <3>1 DEF RunSet
    <3>3. Booked(note) /\ note \in NoteSet
      BY <1>8, <2>1, <3>2, PaidNotesBooked
    <3> QED BY <1>2, <3>3
  <2> QED BY <2>3, <2>4, <2>5
<1> QED BY <1>3, <1>4, <1>5, <1>6, <1>7, <1>8, RunNotesBy

(* A claim in a block pays its wallet, unless somebody has paid it before:  *)
(* the contract always has room for what was announced.                     *)
LEMMA MinedIsPaid ==
    ASSUME Base, Signed, Books, MineClaim
    PROVE  mempool # <<>> /\ st'.claimed[mempool[1].wallet]
<1>1. PICK tx : tx = Head(mempool)
  OBVIOUS
<1>2. /\ tx \in ClaimTxs /\ mempool # <<>>
      /\ \/ Paying(tx.denom, tx.wallet)
         \/ ~ Payable(tx.denom, tx.wallet) /\ QuietStep
  BY <1>1, MineClaimIs
<1>3. 1 \in DOMAIN mempool /\ tx = mempool[1] /\ tx.kind = "claim"
  BY <1>1, <1>2, HeadTyped DEF Base, ClaimTxs
<1>4. CASE Paying(tx.denom, tx.wallet)
  BY <1>2, <1>3, <1>4, PaidWallet
<1>5. CASE ~ Payable(tx.denom, tx.wallet) /\ QuietStep
  <2>1. Announced(<<tx.denom, tx.wallet>>)
    BY <1>3 DEF Signed, MempoolGood
  <2>2. st.claimed[tx.wallet]
    BY <1>5, <2>1, OwedIsPayable DEF Books
  <2> QED BY <1>2, <1>3, <1>5, <2>2 DEF QuietStep
<1> QED BY <1>2, <1>4, <1>5

(* A claim of ours that a block holds was paid by it or before it. The      *)
(* contract could only refuse an announced and unpaid note for its totals,  *)
(* and Books excludes that.                                                 *)
LEMMA ReceiptPaidStep ==
    ASSUME Base, Signed, Books, PaidFor, [Next]_vars
    PROVE  ReceiptPaid'
<1>1. Evolves
  BY ContractKept
<1> SUFFICES ASSUME run'.cmd = "claim", run'.at = "receipt", run'.block > 0,
                    NEW wallet, wallet = run'.notes[run'.next].wallet
             PROVE  st'.claimed[wallet]
  BY DEF ReceiptPaid, Running, ThisNote
<1>2. ~ (run'.block = 0)
  <2>1. run' \in RunSet
    BY BaseStep DEF Base, RunTyped
  <2>2. run'.block \in Nat
    BY <2>1 DEF RunSet
  <2> QED BY <2>2
<1>3. ASSUME st.claimed[wallet], wallet \in Accounts PROVE st'.claimed[wallet]
  BY <1>1, <1>3 DEF Evolves
<1>4. ASSUME run.notes = run'.notes, run.next = run'.next, run.cmd = "claim"
      PROVE  wallet = ThisNote.wallet /\ wallet \in Accounts
  <2>1. run.next \in DOMAIN run.notes
    BY <1>4 DEF Base, RunTyped
  <2>2. ThisNote \in NoteSet
    BY <2>1, NotesTyped DEF ThisNote
  <2> QED BY <1>4, <2>2 DEF ThisNote, NoteSet, Accounts
<1>5. CASE run' = run
  <2>1. st.claimed[ThisNote.wallet]
    BY <1>5 DEF PaidFor, ReceiptPaid, Running
  <2> QED BY <1>3, <1>4, <1>5, <2>1
<1>6. CASE /\ MineDeposit \/ MineAnnounce \/ MineClaim
           /\ Len(mempool) = 1 /\ run.at = "receipt" /\ run.cmd = "claim"
           /\ run'.next = run.next /\ run'.notes = run.notes
  <2>1. wallet = ThisNote.wallet /\ wallet \in Accounts
    BY <1>4, <1>6
  <2>2. mempool # <<>> /\ Head(mempool) = mempool[1]
    BY <1>6, HeadTyped DEF Base, MineDeposit, MineAnnounce, MineClaim, Mines
  <2>3. mempool[1].kind = "claim" /\ mempool[1].wallet = ThisNote.wallet
    BY <1>6, <2>2 DEF Base, ClaimAwaited, Running
  <2>4. MineClaim
    BY <1>6, <2>2, <2>3 DEF MineDeposit, MineAnnounce, Mines
  <2> QED BY <2>1, <2>3, <2>4, MinedIsPaid
<1> QED BY <1>2, <1>5, <1>6, ReceiptBy

LEMMA PaidForInit ==
    ASSUME Init
    PROVE  PaidFor
<1>1. DOMAIN file.deposits = {} /\ DOMAIN run.notes = {} /\ run.cmd = "none"
  <2>1. file = [deployed |-> FALSE, deposits |-> <<>>] /\ run = Idle
    BY DEF Init
  <2>2. file.deposits = <<>> /\ run.notes = <<>> /\ run.cmd = "none"
    BY <2>1 DEF Idle
  <2> QED BY <2>2
<1> QED BY <1>1 DEF PaidFor, FileBooked, ReceiptPaid, Running

(* PaidFor is inductive with the layers before it.                          *)
LEMMA PaidForStep ==
    ASSUME Base, Signed, Books, PaidFor, [Next]_vars
    PROVE  PaidFor'
<1>1. FileBooked'
  BY FileBookedStep
<1>2. \A i \in DOMAIN run'.notes : Booked(run.notes[i])'
  BY RunBookedStep
<1>3. ReceiptPaid'
  BY ReceiptPaidStep
<1> QED BY <1>1, <1>2, <1>3 DEF PaidFor

(* The books of the contract: what it has announced and paid are the sums   *)
(* over the signatures of the deposits, and a signature is paid once.       *)
THEOREM BooksAlways == Spec => [](Base /\ Records /\ Signed /\ Books)
<1>1. Init => Base /\ Records /\ Signed /\ Books
  BY BaseInit, RecordsInit, SignedInit, BooksInit
<1>2. Base /\ Records /\ Signed /\ Books /\ [Next]_vars
        => Base' /\ Records' /\ Signed' /\ Books'
  BY BaseStep, RecordsStep, SignedStep, BooksStep
<1> QED BY <1>1, <1>2, PTL DEF Spec

(* A note is booked as claimed, in memory or in the file, only when the     *)
(* contract has paid its wallet: claim does not look at the status of its   *)
(* receipt, but a claim of an announced note that reverts finds it paid.    *)
THEOREM ClaimedMeansPaidAlways == Spec => []ClaimedMeansPaid
<1>1. Init => PaidFor
  BY PaidForInit
<1>2. Base /\ Records /\ Signed /\ Books /\ PaidFor /\ [Next]_vars => PaidFor'
  BY PaidForStep
<1>3. PaidFor => ClaimedMeansPaid
  BY DEF PaidFor, FileBooked, Booked, ClaimedMeansPaid, FileNotes
<1> QED BY <1>1, <1>2, <1>3, BooksAlways, PTL DEF Spec

=============================================================================
