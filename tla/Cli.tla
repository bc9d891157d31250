--------------------------------- MODULE Cli ---------------------------------
(***************************************************************************)
(* The command line client: cli/src/commands.ts over the contract.  It     *)
(* keeps deposits and notes in one file.  A command reads the file, works  *)
(* on its copy and writes the copy back as its last step, so a command     *)
(* that stops (a throw, a timeout, the terminal) forgets what it did,      *)
(* while its transactions stay where they are.  One terminal runs one      *)
(* command at a time.                                                      *)
(*                                                                         *)
(* On a local chain the deployer is the forwarder, and the command mint    *)
(* announces.  Elsewhere the mint workflow announces, and other people     *)
(* deposit beside us.  A signature is the pair it verifies for.            *)
(***************************************************************************)
EXTENDS Denominations, Sums, SequencesExt

CONSTANTS
    Deployer, Workflow, Relayer, Other,  \* accounts
    Nets,           \* amounts a user may ask for
    OtherValues,    \* deposits other people make
    MaxTries,       \* bound on our deposits
    MaxNotes,       \* bound on the points of one deposit
    MaxDeposits,    \* bound on all deposits
    MaxBlocks,      \* bound on the clock
    MaxPending,     \* bound on our transactions that no block holds
    AmountLimit,    \* type(uint96).max
    Delay,          \* the refund delay of the contract, in blocks
    Fee             \* what a transfer may cost at most

Ids == 1 .. MaxDeposits
Wallets == (1 .. MaxTries) \X (1 .. MaxNotes)
Stranger == <<0, 0>>
Denoms == {LADDER[i] : i \in Levels}
Accounts == {Deployer, Workflow, Relayer, Other, Stranger} \cup Wallets

ASSUME CliAssumption ==
    /\ Nets \subseteq Nat /\ OtherValues \subseteq Nat \ {0}
    /\ MaxTries \in Nat /\ MaxNotes \in Nat /\ MaxDeposits \in Nat
    /\ MaxBlocks \in Nat /\ MaxPending \in Nat \ {0} /\ Delay \in Nat
    /\ Fee \in Nat /\ AmountLimit \in Nat /\ Other # Deployer
    /\ \A net \in Nets : pointCount(grossFor(net)) <= MaxNotes

VARIABLES
    \* the chain
    st, stack, now, \* the contract (BlindMint)
    brought,        \* [Ids -> the wallets behind the points, and the net asked]
    answer,         \* [Ids -> the signatures that the announcement carries]
    mempool,        \* transactions of the deployer, in the order of the nonce
    wires,          \* transfers of note wallets that no block holds
    held,           \* [Wallets -> money]
    shown,          \* signatures that the relayer has seen
    \* the client
    ours,           \* the deployer is the forwarder
    file,           \* the state file
    tries,          \* deposits we have sent
    run             \* the command that runs

contract == <<st, stack, now>>
deposits == <<contract, brought, answer>>
chain == <<deposits, mempool, wires, held, shown>>
client == <<ours, file, tries, run>>
vars == <<chain, client>>

(* The contract, with the workflow as its forwarder and, on a local chain,  *)
(* with the deployer.  No account of this composition runs code when it is  *)
(* paid, and what verifies is checked here, where the signatures are known. *)
Mint ==
    INSTANCE BlindMint WITH
        Contracts <- {}, Forwarder <- Workflow, Treasury <- Deployer,
        Signed <- Denoms \X Accounts, MaxPoints <- MaxNotes,
        MapBits <- MaxNotes, RefundDelay <- Delay,
        Values <- {}, PointCounts <- {}, Reports <- {},
        MaxTime <- MaxBlocks + Delay, CallDepth <- 0

LocalMint ==
    INSTANCE BlindMint WITH
        Contracts <- {}, Forwarder <- Deployer, Treasury <- Deployer,
        Signed <- Denoms \X Accounts, MaxPoints <- MaxNotes,
        MapBits <- MaxNotes, RefundDelay <- Delay,
        Values <- {}, PointCounts <- {}, Reports <- {},
        MaxTime <- MaxBlocks + Delay, CallDepth <- 0

-----------------------------------------------------------------------------
(* Notes and the file. *)

(* A signature that verifies for nothing, or none. *)
Nothing == <<0, Stranger>>

Note(wallet) == [wallet |-> wallet, status |-> "awaiting-mint",
                 denom |-> 0, sig |-> Nothing]

Idle == [cmd |-> "none", id |-> 0, at |-> "", notes |-> <<>>, next |-> 0,
         block |-> 0, amount |-> 0, paid |-> FALSE]

WalletsOf(notes) == [i \in DOMAIN notes |-> notes[i].wallet]

(* The factor of a wallet opens the signature over its own point only.      *)
unblind(sig, wallet) == IF sig[2] = wallet THEN sig ELSE Nothing

AnySignature(denom, wallet, sig) == TRUE
verify(denom, wallet, sig) == sig = <<denom, wallet>>

findDeposit(id) == SelectInSeq(file.deposits, LAMBDA d : d.id = id)

Notes(id) == file.deposits[findDeposit(id)].notes

Saved(id, notes) ==
    [file EXCEPT !.deposits[findDeposit(id)].notes = notes]

Free == run.cmd = "none"
SentIsEnough == TRUE
Mined == run.block > 0
Running(cmd, at) == run.cmd = cmd /\ run.at = at

(* The command is over; what it had in memory and did not save is gone.     *)
Stop ==
    /\ ~ Free
    /\ run' = Idle
    /\ UNCHANGED <<chain, ours, file, tries>>

-----------------------------------------------------------------------------
(* deploy: the file is emptied first and filled last.                       *)
(* "Copy it first if it holds anything" (README.md): it holds nothing.      *)

DeployResets ==
    /\ Free /\ file.deposits = <<>>
    /\ file' = [deployed |-> FALSE, deposits |-> <<>>]
    /\ run' = [Idle EXCEPT !.cmd = "deploy"]
    /\ UNCHANGED <<chain, ours, tries>>

DeploySaves ==
    /\ run.cmd = "deploy"
    /\ file' = [file EXCEPT !.deployed = TRUE]
    /\ run' = Idle
    /\ UNCHANGED <<chain, ours, tries>>

-----------------------------------------------------------------------------
(* deposit. *)

Transmit(tx) ==
    /\ Len(mempool) < MaxPending
    /\ mempool' = Append(mempool, tx)

DepositSends(net) ==
    LET value == grossFor(net)
        notes == [i \in 1 .. pointCount(value) |-> Note(<<tries + 1, i>>)]
    IN  /\ Free /\ file.deployed /\ tries < MaxTries
        /\ tries' = tries + 1
        /\ Transmit([kind |-> "deposit", value |-> value, net |-> net,
                     wallets |-> WalletsOf(notes)])
        /\ run' = [Idle EXCEPT !.cmd = "deposit", !.at = "receipt",
                               !.notes = notes,
                               !.amount = clientMintable(value)]
        /\ UNCHANGED <<deposits, wires, held, shown, ours, file>>

BlockOf(id) == st.deposits[id].deadline - Delay
AnyBlock(id, block) == st.deposits[id].status # "None"
InBlock(id, block) ==
    st.deposits[id].status # "None" /\ BlockOf(id) = block

(* The receipt names a block, and logs[0] is the first deposit of it.       *)
DepositSaves ==
    /\ Running("deposit", "receipt")
    /\ run.block > 0 /\ run.block <= now
    /\ LET logs == {id \in Ids : InBlock(id, run.block - 1)}
           id == CHOOSE i \in logs : \A j \in logs : i <= j
       IN  file' = [file EXCEPT !.deposits =
                      Append(@, [id |-> id, amount |-> run.amount,
                                 notes |-> run.notes])]
    /\ run' = Idle
    /\ UNCHANGED <<chain, ours, tries>>

-----------------------------------------------------------------------------
(* mint: the local replacement of the workflow. *)

(* The notes of a split, over the first points of the deposit. *)
Report(id, split) ==
    [id |-> id, points |-> [i \in DOMAIN split |-> i - 1], denoms |-> split]

MintSends(id) ==
    LET split == splitGreedy[file.deposits[findDeposit(id)].amount]
        notes == Notes(id)
        signed == [i \in DOMAIN notes |->
                     IF i \notin DOMAIN split THEN notes[i]
                     ELSE [notes[i] EXCEPT
                             !.denom = split[i], !.status = "ready",
                             !.sig = <<split[i], notes[i].wallet>>]]
    IN  /\ Free /\ findDeposit(id) # 0
        /\ Len(split) <= Len(notes)
        /\ ours /\ st.deposits[id].status = "Pending"
        /\ Transmit([kind |-> "announce", report |-> Report(id, split),
                     sigs |-> [i \in DOMAIN split |-> signed[i].sig]])
        /\ run' = [Idle EXCEPT !.cmd = "mint", !.id = id, !.at = "receipt",
                               !.notes = signed]
        /\ UNCHANGED <<deposits, wires, held, shown, ours, file, tries>>

MintSaves ==
    /\ Running("mint", "receipt") /\ Mined
    /\ file' = Saved(run.id, run.notes)
    /\ run' = Idle
    /\ UNCHANGED <<chain, ours, tries>>

-----------------------------------------------------------------------------
(* sync: the announcement, unblinded.  A signature that does not verify     *)
(* ends the command before it saves.                                        *)

Synced(id) ==
    [i \in DOMAIN Notes(id) |->
        IF i \notin DOMAIN answer[id] THEN Notes(id)[i]
        ELSE [Notes(id)[i] EXCEPT
                !.denom = answer[id][i][1], !.status = "ready",
                !.sig = unblind(answer[id][i], Notes(id)[i].wallet)]]

AnswerOpens(id) ==
    \A i \in DOMAIN answer[id] :
        /\ i \in DOMAIN Notes(id)
        /\ LET note == Notes(id)[i]
           IN  verify(answer[id][i][1], note.wallet,
                      unblind(answer[id][i], note.wallet))

Sync(id) ==
    /\ Free /\ file.deployed /\ findDeposit(id) # 0
    /\ st.deposits[id].status = "Announced"
    /\ AnswerOpens(id)
    /\ file' = Saved(id, Synced(id))
    /\ UNCHANGED <<chain, ours, tries, run>>

-----------------------------------------------------------------------------
(* claim and relay: the ready notes of a deposit, one after the other.      *)

ReadyAfter(notes, i) == {j \in DOMAIN notes : j > i /\ notes[j].status = "ready"}
ReadyFrom(notes, i) == {j \in DOMAIN notes : j >= i /\ notes[j].status = "ready"}

First(set) == CHOOSE i \in set : \A j \in set : i <= j

Begin(cmd, id) ==
    /\ Free /\ file.deployed /\ findDeposit(id) # 0
    /\ ReadyFrom(Notes(id), 1) # {}
    /\ run' = [Idle EXCEPT !.cmd = cmd, !.id = id, !.at = "note",
                           !.notes = Notes(id),
                           !.next = First(ReadyFrom(Notes(id), 1))]
    /\ UNCHANGED <<chain, ours, file, tries>>

ThisNote == run.notes[run.next]

(* The note is paid.  The next one follows, or the command saves.           *)
Claimed ==
    LET notes == [run.notes EXCEPT ![run.next].status = "claimed"]
        rest == ReadyFrom(notes, run.next)
    IN  IF rest # {}
        THEN /\ run' = [run EXCEPT !.at = "note", !.notes = notes, !.block = 0,
                                   !.next = First(rest)]
             /\ UNCHANGED file
        ELSE /\ run' = Idle
             /\ file' = Saved(run.id, notes)

Payable(denom, wallet) ==
    /\ ~ st.claimed[wallet]
    /\ st.totalClaimed + denom <= st.totalAnnounced

(* claim: the estimate runs the call, and the receipt is not looked at.     *)
ClaimSends ==
    /\ Running("claim", "note")
    /\ verify(ThisNote.denom, ThisNote.wallet, ThisNote.sig)
    /\ Payable(ThisNote.denom, ThisNote.wallet)
    /\ Transmit([kind |-> "claim", denom |-> ThisNote.denom,
                 wallet |-> ThisNote.wallet])
    /\ run' = [run EXCEPT !.at = "receipt"]
    /\ UNCHANGED <<deposits, wires, held, shown, ours, file, tries>>

(* A signature that does not verify, or an estimate that fails because the  *)
(* wallet is paid, throws, and Stop is next.                                *)
ClaimRefused ==
    /\ Running("claim", "note")
    /\ ~ (/\ verify(ThisNote.denom, ThisNote.wallet, ThisNote.sig)
          /\ Payable(ThisNote.denom, ThisNote.wallet))

ClaimMined ==
    /\ Running("claim", "receipt") /\ Mined
    /\ Claimed
    /\ UNCHANGED <<chain, ours, tries>>

(* relay: the relayer gets the wallet and the signature. *)
RelaySends ==
    /\ Running("relay", "note")
    /\ shown' = shown \cup {ThisNote.sig}
    /\ run' = [run EXCEPT !.at = "answer",
                          !.paid = st.claimed[ThisNote.wallet]]
    /\ UNCHANGED <<deposits, mempool, wires, held, ours, file, tries>>

(* It answers 200 for a claim of this request alone.  Every other answer    *)
(* ends the command, and the signature stays with the relayer.              *)
RelayAnswers ==
    /\ Running("relay", "answer")
    /\ ~ run.paid /\ st.claimed[ThisNote.wallet]
    /\ Claimed
    /\ UNCHANGED <<chain, ours, tries>>

-----------------------------------------------------------------------------
(* spend and sweep.  A transfer costs at most the fee it was planned with,  *)
(* and leaves dust behind, because Arc reverts one that empties an account. *)

NoDust == 0
Dust == 1

Affords(wallet) == held[wallet] > Fee + Dust

Wire(wallet) ==
    /\ Affords(wallet)
    /\ \A x \in wires : x.from # wallet
    /\ wires' = wires \cup {[from |-> wallet,
                             value |-> held[wallet] - Fee - Dust]}
    /\ UNCHANGED <<deposits, mempool, held, shown, ours, file, tries>>

Largest(notes) ==
    {i \in DOMAIN notes :
        /\ notes[i].status = "claimed"
        /\ \A j \in DOMAIN notes :
              notes[j].status = "claimed" => notes[j].denom <= notes[i].denom}

(* spend pays from the largest note that the file says is claimed.          *)
Spend(id) ==
    /\ Free /\ findDeposit(id) # 0
    /\ \E i \in Largest(Notes(id)) :
          /\ Wire(Notes(id)[i].wallet)
          /\ run' = [Idle EXCEPT !.cmd = "spend", !.at = "receipt",
                                 !.notes = <<Notes(id)[i]>>, !.next = 1]

(* sweep asks the chain what each wallet of the deposit holds, whatever     *)
(* the file says of it.                                                     *)
SweepBegins(id) ==
    /\ Free /\ findDeposit(id) # 0 /\ Notes(id) # <<>>
    /\ run' = [Idle EXCEPT !.cmd = "sweep", !.at = "note",
                           !.notes = Notes(id), !.next = 1]
    /\ UNCHANGED <<chain, ours, file, tries>>

NextWallet ==
    run' = IF run.next = Len(run.notes) THEN Idle
           ELSE [run EXCEPT !.at = "note", !.next = @ + 1]

SweepSends ==
    /\ Running("sweep", "note")
    /\ Wire(ThisNote.wallet)
    /\ run' = [run EXCEPT !.at = "receipt"]

SweepSkips ==
    /\ Running("sweep", "note") /\ ~ Affords(ThisNote.wallet)
    /\ NextWallet
    /\ UNCHANGED <<chain, ours, file, tries>>

WireMined ==
    /\ run.cmd \in {"spend", "sweep"} /\ run.at = "receipt"
    /\ \A x \in wires : x.from # ThisNote.wallet
    /\ NextWallet
    /\ UNCHANGED <<chain, ours, file, tries>>

-----------------------------------------------------------------------------
(* The chain. *)

(* The last transaction of the mempool is the one that the command awaits.  *)
Mines(kind) ==
    /\ mempool # <<>> /\ Head(mempool).kind = kind
    /\ mempool' = Tail(mempool)
    /\ run' = IF Len(mempool) = 1 /\ run.at = "receipt"
              THEN [run EXCEPT !.block = now + 1] ELSE run
    /\ UNCHANGED <<wires, shown, ours, file, tries>>

Bring(id, wallets, net) ==
    brought' = [brought EXCEPT ![id] = [wallets |-> wallets, net |-> net]]

(* A local node makes a block for each transaction. *)
MineDeposit ==
    /\ Mines("deposit")
    /\ ours => \A id \in Ids : ~ InBlock(id, now)
    /\ LET tx == Head(mempool)
       IN  /\ Mint!Deposit(Deployer, tx.value, Len(tx.wallets))
           /\ Bring(st.nextId, tx.wallets, tx.net)
    /\ UNCHANGED <<answer, held>>

MineAnnounce ==
    /\ Mines("announce")
    /\ LET tx == Head(mempool)
       IN  IF st.deposits[tx.report.id].status = "Pending"
           THEN /\ LocalMint!Announce(Deployer, tx.report)
                /\ answer' = [answer EXCEPT ![tx.report.id] = tx.sigs]
           ELSE UNCHANGED <<contract, answer>>
    /\ UNCHANGED <<brought, held>>

Pays(sender, denom, wallet) ==
    /\ Mint!Claim(sender, denom, wallet)
    /\ held' = [held EXCEPT ![wallet] = @ + denom]

(* A claim that reverts costs its gas and has a receipt all the same.       *)
MineClaim ==
    /\ Mines("claim")
    /\ LET tx == Head(mempool)
       IN  IF Payable(tx.denom, tx.wallet)
           THEN Pays(Deployer, tx.denom, tx.wallet)
           ELSE UNCHANGED <<contract, held>>
    /\ UNCHANGED <<brought, answer>>

(* Somebody else deposits, with the points that the client would count.     *)
OtherDeposits(value) ==
    /\ ~ ours
    /\ Mint!Deposit(Other, value, pointCount(value))
    /\ Bring(st.nextId, [i \in 1 .. pointCount(value) |-> Stranger], 0)
    /\ UNCHANGED <<answer, mempool, wires, held, shown, client>>

WorkflowAnnounces(id) ==
    LET split == splitGreedy[Mintable(st.deposits[id].amount)]
    IN  /\ ~ ours
        /\ Mint!Announce(Workflow, Report(id, split))
        /\ answer' = [answer EXCEPT ![id] =
                        [i \in DOMAIN split |->
                            <<split[i], brought[id].wallets[i]>>]]
        /\ UNCHANGED <<brought, mempool, wires, held, shown, client>>

(* The relayer sends a claim it was asked for, however late.                *)
RelayerClaims(sig) ==
    /\ sig \in shown
    /\ Pays(Relayer, sig[1], sig[2])
    /\ UNCHANGED <<brought, answer, mempool, wires, shown, client>>

WireLands(x, cost) ==
    /\ x \in wires
    /\ wires' = wires \ {x}
    /\ held' = [held EXCEPT ![x.from] = @ - x.value - cost]
    /\ UNCHANGED <<deposits, mempool, shown, client>>

Block ==
    /\ now < MaxBlocks
    /\ Mint!Tick
    /\ UNCHANGED <<brought, answer, mempool, wires, held, shown, client>>

-----------------------------------------------------------------------------
Init ==
    /\ Mint!Init
    /\ brought = [id \in Ids |-> [wallets |-> <<>>, net |-> 0]]
    /\ answer = [id \in Ids |-> <<>>]
    /\ mempool = <<>> /\ wires = {} /\ shown = {}
    /\ held = [w \in Wallets |-> 0]
    /\ ours \in BOOLEAN
    /\ file = [deployed |-> FALSE, deposits |-> <<>>]
    /\ tries = 0 /\ run = Idle

Next ==
    \/ DeployResets \/ DeploySaves \/ Stop
    \/ \E net \in Nets : DepositSends(net)
    \/ DepositSaves \/ MintSaves
    \/ \E id \in Ids :
          \/ MintSends(id) \/ Sync(id)
          \/ Begin("claim", id) \/ Begin("relay", id)
          \/ Spend(id) \/ SweepBegins(id)
          \/ WorkflowAnnounces(id)
    \/ ClaimSends \/ ClaimMined \/ RelaySends \/ RelayAnswers
    \/ SweepSends \/ SweepSkips \/ WireMined
    \/ MineDeposit \/ MineAnnounce \/ MineClaim
    \/ \E value \in OtherValues : OtherDeposits(value)
    \/ \E sig \in shown : RelayerClaims(sig)
    \/ \E x \in wires, cost \in 0 .. Fee : WireLands(x, cost)
    \/ Block

Spec == Init /\ [][Next]_vars

(***************************************************************************)
(* Fairness.  The user asks for sync and claim again and again, and claim  *)
(* gets its turn before the process stops now and then; a claim that is    *)
(* refused ends.  Blocks take our transactions, and every other command    *)
(* ends, if by its timeout.                                                *)
(***************************************************************************)
Fairness ==
    /\ WF_vars(MineDeposit) /\ WF_vars(MineAnnounce) /\ WF_vars(MineClaim)
    /\ WF_vars((run.cmd = "claim" => ClaimRefused) /\ Stop)
    /\ SF_vars(ClaimSends) /\ SF_vars(ClaimMined)
    /\ \A id \in Ids : SF_vars(Sync(id)) /\ SF_vars(Begin("claim", id))

FairSpec == Spec /\ Fairness

-----------------------------------------------------------------------------
(* Every note of the file, with the deposit it is filed under.             *)
FileNotes ==
    UNION {{<<d.id, i, d.notes[i]>> : i \in DOMAIN d.notes} :
           d \in {file.deposits[k] : k \in DOMAIN file.deposits}}

(***************************************************************************)
(* A note is booked as claimed, in memory or in the file, only when the    *)
(* contract has paid its wallet: the status of the receipt is not looked   *)
(* at, the relayer and an older claim may come first.                      *)
(***************************************************************************)
ClaimedMeansPaid ==
    /\ \A n \in FileNotes :
          n[3].status = "claimed" => st.claimed[n[3].wallet]
    /\ \A i \in DOMAIN run.notes :
          run.notes[i].status = "claimed" => st.claimed[run.notes[i].wallet]

(***************************************************************************)
(* A ready note carries a signature over its own wallet that was announced *)
(* for its deposit, also when the record names the deposit of somebody     *)
(* else and when mint was stopped between its transaction and its save.    *)
(***************************************************************************)
ReadyIsGood ==
    \A n \in FileNotes :
        n[3].status = "ready" =>
            /\ n[3].sig = <<n[3].denom, n[3].wallet>>
            /\ \E i \in DOMAIN answer[n[1]] : answer[n[1]][i] = n[3].sig

(***************************************************************************)
(* A record is the deposit it names, its points and its value, unless the  *)
(* block holds another deposit: logs[0] may then be that one.              *)
(***************************************************************************)
Alone(id) ==
    \A j \in 1 .. st.nextId - 1 : BlockOf(j) = BlockOf(id) => j = id

RecordIsTheDeposit ==
    \A k \in DOMAIN file.deposits :
        LET rec == file.deposits[k]
        IN  Alone(rec.id) =>
                /\ WalletsOf(rec.notes) = brought[rec.id].wallets
                /\ rec.amount = contractMintable(st.deposits[rec.id].amount)

(***************************************************************************)
(* What a user asked for is what the mint announces for the deposit, to    *)
(* the rung: across the client that adds the tax and counts the points,    *)
(* the mint that splits, and the contract that takes the tax.              *)
(***************************************************************************)
AskedIsMinted ==
    \A id \in Ids :
        /\ st.deposits[id].status = "Announced"
        /\ st.deposits[id].depositor = Deployer
        => Total([i \in DOMAIN answer[id] |-> answer[id][i][1]], Len(answer[id]))
              = WholeRungs(brought[id].net)

(* "Every transfer here leaves one base unit in the account": no transfer   *)
(* empties a wallet, whatever it cost, and Arc reverts none.                *)
DustStays == \A w \in Wallets : st.claimed[w] => held[w] > 0

(***************************************************************************)
(* Every signed note of a recorded deposit is paid in the end, although    *)
(* commands stop anywhere.  The exception is a file left behind the chain: *)
(* no command is at work, and a paid note is still ready in front of one   *)
(* that is not paid, and stays so.  It ends every later claim at its       *)
(* estimate, so the notes after it wait for ever.  In the middle of a      *)
(* claim, which saves after its last note, the file is behind too; that is *)
(* no exception, the claim has to go on.                                   *)
(***************************************************************************)
Answered(id) ==
    /\ st.deposits[id].status = "Announced"
    /\ findDeposit(id) # 0
    /\ WalletsOf(Notes(id)) = brought[id].wallets

Paid(id) == \A i \in DOMAIN answer[id] : st.claimed[answer[id][i][2]]

Behind(id) ==
    \E n, m \in FileNotes :
        /\ n[1] = id /\ m[1] = id /\ n[2] < m[2]
        /\ n[3].status = "ready" /\ st.claimed[n[3].wallet]
        /\ m[3].status = "ready" /\ ~ st.claimed[m[3].wallet]

PaidInTheEnd ==
    \A id \in Ids :
        Answered(id) ~> (Paid(id) \/ (Free /\ []Behind(id)))

=============================================================================
