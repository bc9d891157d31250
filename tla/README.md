# Formal models of teecash

teecash is blind-signed eCash whose notes are wallets. A depositor locks USDC in a contract
together with blinded points, a mint inside a TEE signs some of the points, and anybody who
holds an unblinded signature can make the contract pay the wallet that it signs. This
directory models the contract, the mint's workflow, the relayer, the client that lives in a
browser and the one that lives in a terminal. TLC checks the models on small instances. For every
instance, TLAPS proves that the contract implements its abstract specification, and it proves the
safety of the contract, the mint, the ladder, the relayer, the settler, the wallets and sends of the
browser and the command line.

All paths below are relative to `src/`.

## 1. Inventory

### The parts and how they meet

```
 browser (app/)                     relayer (workflow/relayer)          contract (contracts/)
   deposit screen -- deposit(points), value ------------------------->  BlindMint
   melt           -- deposit(points), value ------------------------->    | Deposited
   settler  <----------- Announced, status, receipts ----------------     v
      | POST /claim                                             mint workflow (workflow/blindmint)
      +-----------------> handler -> queue -> worker -- claim -->  BlindMint
   send screen -- wallet to wallet transfers                      ^
   deposit record -- refundByDepositor ---------------------------+
                                       mint -> DON -> forwarder -- onReport/announce -> BlindMint

 command line (cli/): deposit, mint (the forwarder of a local chain), sync, claim -> BlindMint
                      relay -> relayer;  spend, sweep: transfers of note wallets
```

The contract is the only shared truth. The mint keeps no state between two invocations, the
relayer keeps nothing on disk, every browser keeps the keys of its money in IndexedDB, and the
command line keeps them in one JSON file.

| part | source | state | operations | hard behaviour | what makes it correct |
| --- | --- | --- | --- | --- | --- |
| contract | `contracts/src/BlindMint.sol` | deposits, paid wallets, two totals, balance | `deposit`, `announce` (by `onReport`), `claim`, `refundByMint`, `refundByDepositor`, `_send` | the payee is called before the operation ends and may call back or refuse; a race at the refund deadline; a mint key that signs too much | the books balance at every call depth; one outcome per deposit; one payment per wallet; no refund before the deadline; no payee can block an ordinary deposit |
| mint workflow | `workflow/blindmint/workflow.go`, `workflow/announce/state.go` | none (rows and a search range inside one run) | log trigger, sweep, sign and announce | triggers without a cursor, lost and late reports, reads of a moving ledger, overlapping sweeps, restarts | each waiting deposit is found; each is announced once; one bad deposit does not hold up the others |
| ladder | `lib-blind/src/denominations.ts`, `workflow/mint/mint.go`, `BlindMint.mintable` | none | `mintable`, `splitGreedy`, `pointCount`, `grossFor`, `Split` | three implementations of one rule, rounding at the rung, point limits | the three agree; the client brings enough points; the split is the shortest |
| relayer | `workflow/relayer/{main,claim}.go` | job queue, nonce of one account, contexts, a token bucket per caller | `POST /claim`, `GET /health`, limiter, worker, `Claim`, shutdown | timeouts, callers that leave, a call that is left and reaches the node later, a retry of what landed, outside claims, restarts with transactions in the mempool; a clock that is read before the lock | no nonce carries two claims; an answer never says more than the chain; the worker comes back; no caller gets in above its rate |
| settler | `app/lib/settle.ts`, `settler.ts`, `mint.ts`, `refund.ts` | one deposit record, its note records | `settleDeposit`, `claimAll`, `findAnnouncement`, `applyAnnouncement`, `reclaimDeposit` | stale writes between awaits and tabs, node lag, lost relayer answers, reloads, the reclaim race | no write loses a key of unpaid money or books unpaid money; every announced deposit settles |
| store, deposit screen, melt | `app/lib/notes.ts`, `melt.ts`, `privy.ts`, `app/app/deposit/page.tsx` | deposit and note records, the pool of spare wallets | `putDeposit`, `discardDeposit`, `takeSpare`, `meltWallet` | factors exist only here; a send whose answer is lost; a hash that is not written; discards that overlap | no factor of a sent deposit is deleted; no wallet serves twice |
| send screen, planner | `app/lib/spend.ts`, `app/app/send/page.tsx` | the plan, the pocket wallet | `planSweep`, `availableToSend`, sweep, pay, record the change | money moves before its record; stale plans; fee changes; receipts that nobody reads; a melt of several passes | the plan is the best one; no record counts money that is not there, and what the records hide is bounded |
| command line | `cli/src/` | one JSON file | deploy, deposit, mint, sync, claim, relay, spend, sweep | a file that is saved only at the end of a command, commands that stop, deposits of other people in the same block, a relayer that claims late | the file never books money that was not paid or a signature that is not its own; what a user asks for is what the mint announces; a signed note is paid in the end |
| cryptography and encodings | `contracts/src/BLS.sol`, `lib-blind/src/{blind,verify,eip2537,domain}.ts`, `workflow/mint/{verify,eip2537}.go`, `workflow/announce/announce.go` | none | pairings, hashing, ABI | no state | taken as sets of signatures that verify |
| screens and glue | rest of `app/` | none of their own | show the store | none | not modelled |

`PROJECT.json` lists each of these with its status, and under `hazards` the places where the
code is hard to test, each with the properties that cover it or the reason why none does.

## 2. Plan

Done, in this order (most important first):

1. `BlindMint`, its abstract specification `IdealMint`, the mapping `MintRefinement` from one to the
   other, and the proofs `BlindMintProofs`.
2. `Ladder`, `MintWorkflow`, `Relayer`, `Settler`.
3. `Purse` (wallets and drafts) and `SendScreen`.
4. `Denominations`, the arithmetic that the ladder shares with the command line; `Limiter`, the
   token buckets, inside `Relayer`; and `Cli`, the command line composed with the contract of
   `BlindMint`, the mint of `Ladder`, the relayer's late claims and other people's deposits.
5. The proofs `MintProofs`, `RelayerProofs`, `SettlerProofs`, `PurseProofs`.
6. The refinement of `IdealMint` and the points of the client (`MintProofs`) for every instance, and
   `CliProofs`, the safety of the command line over the contract.
7. `SendScreenProofs`, the safety of the send screen, and the fewest notes of the ladder (`MintProofs`).

Every invariant that a passing run checks is now a theorem too, and so is every action property, some
under a condition that section 6 names. What a
next step could add is in section 7: places of the code that no run covers.

Runs are one per question. The instances are chosen so that each finishes in one to three minutes.

## 3. Modules and their code

| module | code | state | actions |
| --- | --- | --- | --- |
| `BlindMint` | the contract | `st`: storage, balance and event log; `stack`: the payments in progress, each with the storage it reverts to; `now` | `Deposit`, `Announce`, `Claim`, `RefundByMint`, `RefundByDepositor`, and `Return` or `Refuse` of the payee, `Tick` |
| `IdealMint` | what it promises | status and value of deposits, the note of each wallet, the till | `Transaction` |
| `MintRefinement` | `BlindMint` read as an `IdealMint` | | the mapping: `PaidNotes` reads off the log what each wallet was paid |
| `Sums` | the recursive functions that several modules use | | `Total`, Solidity's running sum, and `GreedySplits`, the recursion of `splitGreedy` |
| `Denominations` | what each program computes of an amount | | `contractMintable`, `Mintable`, `splitGreedy`, `pointCount`, `grossFor` |
| `Ladder` | the split of the mint | one run of `Split` over any value and any number of points | `NoValue`, `MintsNothing`, `NoPoints`, `TooFewPoints`, `TakeNote`, `NextLevel`, `SplitEnds` |
| `MintWorkflow` | the mint | ledger, triggers and reports on their way, the sweeps | `OnDeposit`, `SweepStart`, `ReadRow`, `ReadHead`, `SweepAnswers`, `SweepSkips`, `SweepFails`, `Crash`, `Restart`, `Deliver`, `LoseReport`, ... |
| `Limiter` | its token buckets | | `Allows` and `After` of `allow`: `Kept` forgets idle callers, `Refilled` adds what time brought |
| `Relayer` | the relayer | contract totals, account nonce, mempool, receipts, calls on the `wire`; requests, contexts, queue, worker; buckets, clock, restarts | the limiter (`Arrive`, `TooManyRequests`, `NoNote`, `Health`), the handler (`Ask` to `TakeReply`/`GiveUp`), the worker (`TakeJob` to `Await`, `SendFails`), `Arrives` and `Refused` of what it sent, `ContextEnds`, `Signal`, `Exit` |
| `Settler` | settler, reclaim | the chain around one deposit, its records, one pass per tab | one action for each stretch between two awaits of `settleDeposit` (`Apply` or `ApplyForeign` after the search); `Reclaim` to `RecordRefund`; `Collect`, `RecordSpent` |
| `Purse` | deposit screen, melt, store | pool, notes, records, one task per page, the discards under way | `TakeSpare`, `CreateWallet`, `ScreenPuts`, `AskWallet`, `PutHash`, `ScreenGivesUp`, `MeltPuts`, `Sign`, `Send`, `UserDiscards`, `Erase`, `Stops`, ... |
| `SendScreen` | send and its melt | money, records, a screen per tab | `Open`, `Start`, `TakePocket`, `Sweep`, `RecordSpent`, `CheckPay`, `Pay` (`Delivered` or `Reverted`), `PutChange`, `SendFails`, `Reload`, the melt (`PickChange`, `ReadBalance`, `NextPass`, `MeltSend`, `MeltEnds`, `RecordMelt`), `FeeMoves` |
| `Cli` | the command line over `BlindMint` | the contract (an INSTANCE of `BlindMint`), mempool, transfers, what the relayer has seen; the file, the running command | `DeployResets`/`DeploySaves`, `DepositSends`/`DepositSaves`, `MintSends`/`MintSaves`, `Sync`, `Begin`, `ClaimSends`/`ClaimMined`, `RelaySends`/`RelayAnswers`, `Spend`, `SweepBegins` to `WireMined`, `Stop`; `MineDeposit`, `OtherDeposits`, `WorkflowAnnounces`, `RelayerClaims`, `WireLands`, ... |

The proofs are in `BlindMintProofs`, `RelayerProofs`, `SettlerProofs`, `PurseProofs`, `SendScreenProofs`
and `CliProofs`, each over the module of its name, and in `MintProofs`, over `Ladder` and `MintWorkflow`.
`SumsProofs` has what they share. Because `MintProofs` extends two specifications, that of `Ladder` is
called `SplitSpec`.

Three rules hold throughout:

- **Atomicity is the code's.** A transaction of the contract is atomic except for calls out of
  it, so `_send` pushes a frame and the callee may do anything before it returns. A JavaScript
  or Go function is cut at its awaits, node calls and channel operations, and only there. One
  IndexedDB transaction is one step.
- **A call may fail and its answer may be lost.** A step that writes on the far side and loses its
  answer on the near side is a step of its own (`Arrives`, `RelayFails`, `ScreenGivesUp`, `Stops`).
- **Cryptography is a set.** `Signed` is the set of pairs that verify. In `BlindMint` it is not tied
  to the announcements, so the contract is checked against a mint key that signs more than it announces.

`PROJECT.json` maps every definition that stands for code to the lines it stands for. Definitions
that the map does not list are properties, instances, and the changed forms that the checks use
to show that a property can fail.

### Abstractions worth knowing

- `BlindMint`: while a payment is open only its payee calls; a payee that calls through other
  contracts is one more `msg.sender`, and no guard but the forwarder's and the depositor's reads it.
  `MapBits` is the width of the duplicate map (256 in the EVM). `Bit(idx)` is empty at and above it,
  as `1 << idx` is zero. The bound `MAX_POINTS` must stay at or below the width. Gas is not
  modelled; a refusing payee stands for every failure of `_send`.
- `Denominations`: the smallest note divides the others, as in the ladder of the code. The three
  `mintable` functions (contract, mint, client) are three definitions, so an edit of one shows.
- `MintWorkflow`: a deposit the mint cannot sign is a member of `Refused`. A failing secret, read or
  write is `SweepFails`, `SweepSkips` or `MissTrigger`. The run has one sweep at a time and two
  reports in flight per deposit: two runs of `onSweep` share no state and meet only through their
  reports. The theorems hold for any set of overlapping sweeps. The head that a sweep reads after
  the rows (`workflow.go:188`) is assumed to be as fresh as the rows.
- `Relayer`: the ninety seconds are `ContextEnds`, which may come at any moment. Other node calls
  may fail until then. A request reads the clock, waits for the lock at most `Lag`, and is let in or
  not; `GET /health` takes tokens of the same bucket. Tokens are measured in units of time, so a
  request takes `PerToken` of them. The clock stops when every request has passed the limiter
  (`LimiterOpen`), because nothing else reads it. What the worker sends is on the `wire` until the
  node takes it or refuses it; a worker whose context ends leaves it there, and so does a restart.
  CORS, configuration and the counters of requests and failures are left out: no branch reads them.
- `Settler`: numbers of blocks replace times. A node may be `Lag` blocks behind. A note record is
  its status. A deposit record is its three fields that a branch reads. `BadPoints` are points whose
  signature does not verify (`mint.ts:220-235`). The reclaim takes the record from the store when the
  button is pressed, where the screen has a copy at most two seconds old
  (`app/app/deposit/[id]/page.tsx:45-49`).
- `Purse`: one change wallet and deposits with at most one point. The estimate of the reserve is a
  choice between enough and not enough. A transaction that the node takes is mined (`melt.ts:177` sends one
  nonce of a wallet that sends nothing else); a dropped or replaced one is not modelled. `contested` is
  the history of wallets that two discards had in their hands at once.
- `SendScreen`: a transfer costs the fee of the moment, a plan reserves one half more and one unit. A
  payment may be mined and revert (a recipient that refuses); the transfer between two wallets of
  the user has no code at its end and its gas was checked. `Reserves` are what a melt keeps back,
  `Misses` by how much the limit of the gas exceeds it, `Burns` what the chain takes. `bounced`,
  `stuck` and `swept` are histories that only the properties read.
- `Cli`: one terminal runs one command at a time, and a wallet has one transfer under way at a time:
  a second one that `commands.ts:420-447` would send before the first is mined is refused by the
  node, which finds its money gone. `deploy` is only run on an empty file, as `README.md:288-289`
  says (it resets the file). A signature is the pair that it verifies for, and unblinding it for
  another wallet gives nothing. A transaction is mined in the order of its nonce and has one receipt
  whatever its status; `DepositSaves` takes the first `Deposited` event of the block, as `logs[0]`
  does. On a local chain (`ours`) the deployer is the forwarder, nobody else deposits and each
  transaction has a block of its own; elsewhere the mint workflow announces. (Without
  `TEECASH_CRE_FORWARDER` the deployer is the forwarder on any chain, `commands.ts:92`; that case is
  not modelled.) The relayer is the set of signatures it has seen, each of which it may claim at any
  later time. The two instances of `BlindMint` in it differ in the forwarder only (`Mint` and
  `LocalMint`).

## 4. Runs

A run with expectation *pass* finishes without an error. All bounds are constants of the
configuration or of its MC module.

| run | instance | what it shows |
| --- | --- | --- |
| `contract` | 2 deposits, ladder 1 and 2, a payee contract and a treasury that may call back or refuse, call depth 2, values 0, 1, 3 and one above the width, reports with points repeated or out of range, unknown denominations and wrong sums | `Solvent`, `NoOverdraft`, `OneNotePerWallet`, `OneOutcome`, `NoPointSignedTwice`, `NoEarlyRefund` at every depth; `ImplementsIdealMint`; `NoDepositStuck` |
| `ladder` | ladder 2, 6, 18, every value from 0 to 60, 0 to 9 points | `ContractAccepts` (no announcement of the mint reverts for its sum), `NeverInexpressible`, `ClientBringsThePoints`, `FewestNotes` (against every choice of counts per denomination) |
| `mint` | 2 deposits, the first of which the mint refuses, a chain of 2 blocks, a search of 1 block, one restart, 2 reports in flight per deposit | `RowsReadAreKnown`, `SearchCoversWaiting`, `NothingDoubleMints`; `GoodAnswered` for the deposit behind the refused one |
| `relayer` | a note and its retry from one caller, a second note for claims by others, nothing announced at first and 1 unit at most, queue of 1, one restart at any time; a burst of one request, a token per 2 ticks, an idle time of 2, 3 ticks, a wait of 1 tick for the lock | `NonceNeverShared`, `OkMeansPaid`, `ConflictMeansPaid`, `RateBounded` (over any stretch of time and of restarts), `WorkerComesBack` |
| `settler` | 2 tabs, 3 points of which two are signed and one of these does not verify, lag 1, window 1, a deposit that may revert, a reclaim | `ClaimedMeansPaid`, `KeysKept` |
| `settler_live` | 1 tab, deposits of 0 and 3 points | `SettlesForGood`, `DustEnds`, `SpentStaysSpent` |
| `purse` | one deposit and two melts (one of them dust), two wallets to give, two discards at a time | `FactorsKept`, `NoWalletTwice`, `SpentIsFollowed` |
| `cli` | ladder 2 and 4, one deposit of ours of dust or of two notes, one of 4 units by somebody else, a local chain and a remote one, 2 blocks, 2 transactions in the mempool, transfers that cost 0 or 1, commands that stop anywhere | `ClaimedMeansPaid`, `ReadyIsGood`, `RecordIsTheDeposit`, `AskedIsMinted`, `DustStays`; `PaidInTheEnd` |
| `send` | two tabs, two notes of 36 or 50, two pockets, amounts 40 and 89, a fee of 2 or 3, which is inside its margin; a payment that may revert; a melt that reserves 3, misses by 0 or 5 and lowers its guess by 4 in the second of its two passes | `PlanIsBest`, `CountedIsHeld`, `HiddenIsEmpty` |

Why the bounds suffice for these questions: the hazards are pairs. Two deposits are the least that
lets value of one pay for another; two levels of call are the least that lets a callee re-enter an
operation inside an operation; two tabs, two sweeps, a note and its retry are the least that lets
one actor write what it read before the other moved; a deposit of ours and one of somebody else are
the least that puts two `Deposited` events into one block, and a net amount of 7 is two notes and a
remainder below the rung. The limiter of `relayer` forgets a caller as early as `Limiter` allows,
after exactly the time of a full refill, which is earlier than its theorem allows for any number of
requests (section 6). With amounts of 40 and 89 a plan takes one note or two, with and without
change; a miss of 5 is more than the 4 of a pass, so a melt can run out of passes, and a miss of 0
ends it in any of them. Sixty units cover more than three of the largest denomination and every
remainder below the rung. What grows without a bound in the code (time, head, restarts, deposits) is
stopped in the guard of the action that increments it, and the bound is a named constant. Deadlock
checking is off where these bounds end a behaviour, which is every run: the end of a bounded clock
is no deadlock of the code.

The properties of `IdealMint` are checked over the storage that the last complete transaction left
(`Committed`), because the abstract machine has no calls.

### Runs that refute a comment of the code

| run | comment | what happens |
| --- | --- | --- |
| `settler_reclaim` | `app/lib/refund.ts:68-69`: the write of a reclaim only saves the screen a wait | The announcement is mined first. The reclaim reverts, `waitForTransactionReceipt` returns that receipt, its status is not read, and `refunded` ends the record. Its signed notes are never claimed. |
| `purse_discard` | `app/lib/notes.ts:263-264`: the check proves that no transaction carried the points | A wallet sends and its answer is lost, or the write of the hash fails, or the page reloads while the wallet is open and the user takes the offer to discard. The record has no hash, and the only factors of a deposit that mines are deleted. |
| `send_stops` | `app/app/send/page.tsx:95-96`: a failure in the middle leaves a balance that matches the chain | The user refuses the payment. The swept notes are spent and the pocket wallet that holds their money has no record. |

`purse` states under which conduct `FactorsKept` does hold: every wallet that sent says so
(`WalletAnswers`), the store writes the hash (`StoreAnswers`), and a user looks into the wallet
before a discard (`UserChecks`). The settler's own discard needs none of them: it only takes records
without notes. `UserChecks` does not keep two discards apart: the button works again while a discard
is under way, and in every tab, so in `purse` the second one may delete a wallet that a later
deposit has taken. The properties name those wallets, `contested`, and hold for all others.

Three properties of passing runs have such an exception, each a set that the model records when it
happens: `contested` of `Purse`; `bounced` and `stuck` of `SendScreen` (a payment that reverted, a melt
that ran out of passes); `left` of a call on the wire of `Relayer` (`NonceNeverShared`). Section 7 says
what the code does there.

## 5. Fairness

- `BlindMint!FairSpec`: time passes, an open call returns, and a depositor who may take a refund
  again and again takes it. No fairness is asked of the mint, the forwarder or the treasury.
  Every operation of the contract is one transaction that its caller can send at any time.
- `Cli!FairSpec`: the user asks for `sync` and `claim` again and again, and a claim gets its turn
  before its process stops now and then (strong fairness, since a stop may always come first). A
  claim that is refused at its estimate ends, and one that is not has to go on. Blocks take our
  transactions in the order of the nonce. Every other command ends, if by the timeout of viem. The
  relayer, the transfers, the workflow and other people owe nothing.
- `MintWorkflow!FairSpec`: the cron trigger fires again and again (`workflow.go:92`), and no read or
  report fails for ever. A sweep may be stopped by a crash or a failing read any number of times,
  therefore its steps have strong fairness. Triggers need not arrive. `GoodAnswered` excepts a deposit
  whose event is more than `catchUpBlocks` behind the head: the sweep no longer finds its points.
- `Relayer!FairSpec`: the context of a request ends (ninety seconds) and a worker whose request has
  ended gives up, because every call it makes carries that context. The node owes nothing.
- `Settler!FairSpec`: the timer starts passes and a pass goes on; calls stop failing at some moment
  (`BecomeSteady`), of which nothing is assumed but that it comes.

## 6. Proofs

`BlindMintProofs` proves, for every set of accounts, ladder, bound and call depth that satisfies
the three named assumptions of `BlindMint`:

| theorem | statement |
| --- | --- |
| `TypeCorrect` | `Spec => []TypeOK` |
| `Solvency` | `Spec => []Solvent`: balance = pending deposits + (announced - claimed) |
| `NoteValueBounded` | `Spec => []NoOverdraft` |
| `WalletPaidOnce` | `Spec => []OneNotePerWallet` |
| `DepositEndsOnce` | `Spec => []OneOutcome` |

None of these is inductive alone. A refusing payee restores a storage that was saved calls
earlier, so the invariant has to speak of every storage in the stack. The inductive invariant
`IInv` says that the current storage and each saved one is `Sound`: it has its type; ids not yet
given are empty; its balance is the sum of its pending deposits and its unclaimed value; claims
stay within announcements; and its event log agrees with its state, one `Claimed` event for a
paid wallet and none for another, one ending event for a deposit that ended and none for
another. Each operation maps a sound storage to a sound one, `Send` pushes the old one, `Return`
drops one, and `Refuse` restores one. `Invariance` is `Spec => []IInv`, with a lemma per action.

Sums are functions `Total(f, n)` over `1 .. n`. `SumsProofs` proves what happens to a sum when one
entry changes, and when all entries are the same. Induction over data is out of this prover's
reach, so those lemmas take the least number at which a sum differs (`LeastNatural`, from the
well-ordering of the naturals for sets) and show that there is none.

The assumptions: the forwarder and the treasury are accounts; denominations are positive and
there is at least one; `MaxPoints <= MapBits`; the enumeration bounds are sets of naturals.

Three more theorems need the past as well as the present:

| theorem | statement |
| --- | --- |
| `PointsSignedOnce` | `Spec => []NoPointSignedTwice` |
| `RefundInTime` | `Spec => NoEarlyRefund` |
| `Refinement` | `Spec => ImplementsIdealMint` |

`PointsSignedOnce` needs that no deposit has more points than the duplicate map has bits, so that
each index below the count has a bit of its own, and a loop that ends with every bit seen once has an
injective list. The other two are properties of steps, and the step that threatens them is `Refuse`,
which puts an old storage back: a refund could appear by a revert, and the ideal mint never takes
anything back. `HistoryInv` says that `Evolves` orders the storages that open payments may restore,
outermost first, with the current one last: a deposit goes on in its life or stays, and a wallet that
was paid stays paid. A transaction of the ideal mint is what happened between two empty stacks. The
bottom of the stack, `Committed`, changes only when the stack empties, and then to a storage that it
evolves into; every other step is a stutter. `Books` of the ideal mint follows from `Solvent` and
`NoOverdraft`, since in each storage the sum over the paid wallets is the running total of the claims
(`Booked`): a `Claimed` event adds one wallet to that sum, by what it adds to the total (`SumOverStep`).

`MintProofs`, on the split, for every ladder of positive multiples of its smallest note:

| theorem | statement |
| --- | --- |
| `ContractTakes` | `SplitSpec => []ContractAccepts` |
| `AlwaysExpressible` | `SplitSpec => []NeverInexpressible` |
| `PointsSuffice` | `SplitSpec => []ClientBringsThePoints` |
| `FewestAlways` | `SplitSpec => []FewestNotes` if each denomination divides the next |
| `GrossMintsRungs` | of `grossFor(net)` the contract mints `net` in whole rungs |

`LadderInv`: what is left plus the notes taken is what the mint mints, what is left is a multiple
of the smallest note, and it is less than the denomination above the present one. Below the
smallest it is therefore zero. `PointsInv` compares the mint with the client: what the mint has taken
and what the client's recursion `GreedySplits` takes of the rest, from the present denomination on,
have together the length of the split that the client counted. Each step of the mint is one unfolding
of the recursion, so no induction is needed beyond that of the behaviour.

`FewInv` is the exchange argument: for any choice of notes for the whole deposit there is one for the rest,
over the denominations still to try, that is no larger than the first less the notes already taken. A
note that the mint takes is in the best such choice (`TakeOne`): a choice with the fewest notes never has
so many of one denomination that they make one of the next (`FewestIsTight`), so all it has below a
denomination is worth less than one of it (`BelowIsLess`). `EachDividesTheNext` is stronger than what `Ladder`
assumes. The ladder of the code, 1 and 10 cent, 1, 10 and 100 USDC (`lib-blind/src/denominations.ts:30`), satisfies it; of
2, 6, 8 it is false, and there 12 is 8, 2, 2 for the mint and 6, 6 at best.

`MintProofs`, on the workflow, for any number of deposits, sweeps, reports and restarts: `TypeCorrect`,
`RowsKnown`, `SearchCovers` and `MintsOnce`. The invariant is `LedgerInv` (rows past the counter are
empty, no event is ahead of the head, a status and its announcements agree) and `RunInv` of each
sweep (what it lists lies below the row it reads next, in order; what it passed and still waits
is listed; the search ends at a head read after the last row, so no listed event is ahead of it).

`RelayerProofs`, for any number of requests, callers and notes:

| theorem | statement |
| --- | --- |
| `TypeCorrect` | `Spec => [](TypeOK /\ NonceInv)` |
| `NoncesDiffer` | `Spec => []NonceNeverShared` |
| `OkIsPaid`, `ConflictIsPaid` | `Spec => []OkMeansPaid`, `Spec => []ConflictMeansPaid` |
| `RateHolds` | `Spec => []RateBounded` if `IdleDrop >= Capacity + 2 * Lag` |

- `NonceInv`: the mempool holds nonces from the one of the account to the count that the node
  reports, each once. What is on the wire has at most that count, and it is either left or the one call
  that the worker waits for; so a worker that has read the count is ahead of everything but what was left.
  A transaction that arrives raises the count or replaces one, and a block that takes one raises the
  nonce of the account by one as it lowers the number that wait. A call that was left is the exception
  of the property, and the invariant shows that there is no other.
- `PaidInv`: a reply of success has a receipt that succeeded, and such a receipt has a payment. A
  conflict is only answered for a wallet that is paid.
- `LimiterInv`: for each caller that is remembered, what it took from any moment `from` on is at
  most `Capacity - from` minus the potential `tokens - seen` of its bucket. A refill leaves the
  potential or lowers it, a token taken lowers it by `PerToken`, and a clock that steps back between
  two requests changes both terms alike. A caller that is forgotten has taken nothing for so long
  that a full bucket gives it no more than it has earned; with two waits for the lock between the
  clocks of its last request and its next one, that takes `Capacity + 2 * Lag`. The sum is taken per
  run of the service, and a stretch that spans restarts adds the bounds of its runs, each with a
  burst of its own. The code has ten minutes against forty seconds (`main.go:140-163`), so the
  assumption holds for any wait below some four and a half minutes.

`SettlerProofs`, for any number of tabs, blocks and points, and any lag of the node:

| theorem | statement |
| --- | --- |
| `TypeCorrect` | `Spec => []TypeOK` |
| `PaidNotes` | `Spec => []ClaimedMeansPaid` |
| `KeysStay` | `Spec => []KeysKept` |
| `SpentStays` | `Spec => SpentStaysSpent` if there is one tab |

`SettlerInv` says what a stale pass may still write. Its list holds only signed points, so a note
that it writes as ready has a signature to keep; at `paid` the relayer has answered for the note that
it writes next, and the contract has paid it; a note is `unused` only if the mint left it out. No
conjunct relates the notes that a pass has read to those in the store, since another tab may have
written them since, and the safety above does not need it. `SpentStays` does, so its `FreshInv` adds
that relation, and it holds only while no other tab writes.

`PurseProofs`, for any number of deposits, melts, wallets, points and discards at a time, under `Conduct` (the
wallet answers, the hash is written, and the user looks into the wallet before a discard, section 4):

| theorem | statement |
| --- | --- |
| `TypeCorrect` | `Spec => []TypeOK`, without `Conduct` |
| `PurseAlways` | `Spec => []PurseInv` |
| `PurseFactors` | `Spec => []FactorsKept` |
| `WalletsOnce` | `Spec => []NoWalletTwice` |
| `SpentFollowed` | `Spec => []SpentIsFollowed` |

What the proof turns on is a discard between its read and its write, with pages of other tabs at
work. `Erasures`: each of its wallets that is not contested is still a note of its deposit, and no
other discard holds it. `Kept`: while the points of a deposit may be sent, a discard of it is under
way only if it has no note that is not contested (the one the settler starts). `Alone` and `Owned`
keep the hands, the notes and the pool apart, so the wallets that a discard or a melt gives back are
in nobody else's hand, unless two discards met over them. Without `Conduct`, `Kept` fails at the
steps that section 4 names. The types need no conduct: `Typed` adds that the wallets given are
finitely many, so that a hand can be counted, and that a melt that still has to blind has a pass
left.

`SendScreenProofs`, for any number of tabs, notes, pockets, prices and amounts, with and without reloads:

| theorem | statement |
| --- | --- |
| `TypeCorrect` | `Spec => []TypeOK` |
| `BaseAlways` | `Spec => []Base` |
| `PlanIsBestAlways` | `Spec => []PlanIsBest` |
| `PursesAlways` | `Spec => []Purses` |
| `HiddenIsEmptyAlways` | `Spec => []HiddenIsEmpty` |
| `CountedIsHeldAlways` | `Spec => []CountedIsHeld` if `FeesInMargin` |

- The plan: a set of notes that delivers keeps what it delivers when the notes that do not pay for
  themselves go (`WithoutSmall`), and no set of a size holds more than the largest notes of that number
  (`LargestOfHolds`). So if a set delivers the amount, the largest notes of its number do.
- `Base`: types, and the plan of a send that is under way adds up, whatever the price did since: what
  its notes hold is the amount, the change and a leg for each and for the payment. So the change is
  never negative and the pocket never short.
- `Purses`: two sends have two pockets; no record names the pocket of a send that is under way, so
  neither a plan nor the melt touches it; it holds what the notes that landed brought, less their
  legs; and a wallet on record holds at most what the record says, one leg and a payment of its own
  that reverted (`bounced`). A sweep leaves at most two legs. A melt that succeeds in pass `p` asked
  for `p` rungs less than its balance and reserve, so it leaves at most `MeltTop`; one that ends
  because its guess is not positive leaves no more either. From there a stale write of `spent` or
  `dust` hides at most `Leftover`, in any order of tabs and melt, but for `bounced` and for the
  wallets of melts that ran out of passes (`stuck`).
- `CountedIsHeld` needs that a payment costs no more than the leg that was planned for it. `FeesInMargin`
  says so of the prices: none is above another by more than half and the unit. The margin is the
  code's (`legCost`, `app/lib/privy.ts:96`); a price that jumps further is a known limit (section 7).

That wallets and prices are finitely many is assumed, because a sum and a highest price have a meaning
only then.

`CliProofs`, for every ladder, any number of deposits, notes, blocks and transactions in the mempool,
commands that stop anywhere, and any other depositor:

| theorem | statement |
| --- | --- |
| `BaseAlways` | `Spec => []Base` |
| `AskedIsMintedAlways` | `Spec => []AskedIsMinted` |
| `RecordIsTheDepositAlways` | `Spec => []RecordIsTheDeposit` |
| `SignedAlways` | `Spec => [](Base /\ Records /\ Signed)` |
| `ReadyIsGoodAlways` | `Spec => []ReadyIsGood` |
| `BooksAlways` | `Spec => [](Base /\ Records /\ Signed /\ Books)` |
| `ClaimedMeansPaidAlways` | `Spec => []ClaimedMeansPaid` |
| `DustStaysAlways` | `Spec => []DustStays` |

The invariants are layers, each proved with those below it. The steps of the chain are first reduced
to four effects (`Opening`, `Settling`, `Paying`, `QuietStep`), whoever takes them, and to what the
contract only ever does (`Evolves`), so that a layer is proved against these and not against the
contract.

- `Base`: types; the ledger (`Ledger`), in which an announcement adds up to what the contract mints; and
  what a command awaits. With no receipt its transaction is the last of the mempool, since one terminal
  runs one command at a time, and with a receipt the mempool is empty. `AskedIsMinted` follows from
  `Ledger` and the arithmetic of the rungs.
- `Records`: a record has the points and the value of its deposit, unless two deposits share the block.
- `Signed`: an announcement is the greedy split of the deposit over its first points, whichever mint
  makes it; and each signature that the file, a command, the mempool or the relayer has is
  one of an announcement. A command `mint` has signatures before its announcement is mined; they
  are those that it will carry, and its save waits for the receipt.
- `Books`: a deposit has a point for each note announced (`Fitting`); no wallet of ours is behind
  two points, in the contract (`BroughtOnce`) or on the way to it (`SentOnce`); so a wallet has one
  signature, and the running totals of the contract are sums over the announcements (`Totals`).
- `PaidFor`: a note booked as claimed is paid. `claim` reads no status of its receipt, so what counts is
  whether the contract may refuse the call. It refuses a wallet that is paid, which is harmless, or a
  note that its totals do not cover. `Totals` excludes the second: an announced and unpaid note
  is still in the difference of the two sums.

`Dusty` stands beside them. One transfer per wallet is under way, and wallet, cost and unit were
compared when it was sent; until it lands the wallet only gains.

The assumptions are those of `Cli` and `Denominations`. `Other # Deployer` says that somebody else's
deposit is not ours. A deposit of ours has at most `MaxNotes` points (`MAX_POINTS`); of a larger one the
contract refuses the transaction, and the estimate ends the command before it sends.

Only liveness is model-checked and not proved (`NoDepositStuck`, `GoodAnswered`, `WorkerComesBack`,
`SettlesForGood`, `DustEnds`, `PaidInTheEnd`): it needs fairness and ENABLED. Each `TypeOK` is a theorem too,
under that name or inside an invariant: `SplitTypeOK` in `LadderInv`, that of `Cli` in `Base`.

## 7. Known limits of the code that no run covers

Reading the code for the models showed these. Each follows from the quoted lines; none has a run
of its own.

- `app/lib/settle.ts:82` rethrows every error other than 409, so a note that the relayer always
  refuses keeps the notes behind it waiting. The comment at `:71` says that a failed claim does
  not stop the others. `SettlesForGood` assumes that calls stop failing.
- `app/lib/mint.ts:149` searches a window of 7,200 blocks after the deposit, while the sweep of the
  mint reaches back 20,000. `settle.ts:211-213` says that a late answer recovers.
- `settle.ts:157`: a node behind the head says that a deposit does not exist, and the record is
  stranded for ever. `SettlesForGood` is checked with `Lag = 0`, the safety properties with lag 1.
- `settle.ts:120`: a deposit whose transaction reverted returns on every pass and never ends.
- `settle.ts:226`: a slow tab may write a note back to `ready` in a deposit that another tab has
  finished. No key is lost, but no pass looks there again.
- `settle.ts:104-107`: a melt whose answer was lost keeps its record without a hash
  (`melt.ts:169-174`), and no pass follows it.
- `app/app/deposit/page.tsx:153-164`: a failed write of the hash ends in the same discard as a
  refusal, although the comment at `:150-152` says that the record stays (`NoAnswer`, in
  `purse_discard`).
- `app/lib/notes.ts:252-278`: two discards of one deposit overlap, in two tabs or by a second press
  of a button that is not disabled. Both read its notes; the first gives the wallets to the pool, a
  new deposit takes one, and the second deletes its note and its factor and gives the wallet to the
  pool again. `purse` has the interleaving; its properties name the wallets (`contested`).
- `app/lib/privy.ts:160`: nobody reads whether the payment reverted. `send/page.tsx:117-130` then
  records only the change, so the amount stays in the pocket and no record counts it (`bounced`).
- `app/lib/melt.ts:210`: a melt whose three passes all ask for too much answers undefined, which
  `settler.ts:93-95` takes for dust: the wallet keeps its money and no later pass looks there
  (`stuck`). `melt.ts:206` says that less than one rung stays; after a second or third pass it is
  one rung or two more.
- `app/lib/mint.ts:233`: once the good notes of a deposit are unblinded, a last one whose signature does not verify
  makes the announcement look foreign, and `settle.ts:222` strands the record. The factor stays.
- `app/app/send/page.tsx`: a reload between a sweep and its record, or a payment whose answer is
  lost, leaves the records behind the chain; `HiddenIsEmpty` and `CountedIsHeld` hold with
  reloads, `MoneyIsRecorded` does not even without. A gas price that rises by more than the
  margin of one half between plan and sweep makes the change smaller than its record.
- `workflow/blindmint/workflow.go:111`: the log trigger signs a deposit that was refunded meanwhile;
  the contract refuses the report.
- `workflow/blindmint/workflow.go:304`: one secret that does not arrive fails the keys of every
  denomination, and with them deposits that do not need it.
- `cli/src/commands.ts:351`: `claim` and `relay` save after their last note. A command that stops
  leaves paid notes that the file calls ready; the next claim ends at the estimate of the first of
  them, the next relay at its 409, and the notes behind wait for ever. `PaidInTheEnd` excepts a file
  that stays in that state with no command at work, and nothing else. A relay of more than eight
  notes meets the burst of the limiter and ends so.
- `cli/src/commands.ts:176`: a deposit that stops before its save loses the blinding factors, and no
  command refunds. `:184`: `logs[0]` may be the deposit of somebody else; ours has no record then.
- A `sync` after a claim puts its notes back to ready (`commands.ts`, `Cli!Synced`). Two terminals
  lose each other's updates, since each writes back the whole file. A `demo` or a second `deploy`
  empties the file.
- `cli/src/commands.ts:429-433`: a transfer offers the base fee of the last block and no priority, so
  one that meets a rising base fee waits; `PaidInTheEnd` is about claims.
- `cli/src/state.ts:5` says that the claim removes the blinding factor of a note. It stays.
- `workflow/relayer/claim.go:170`: a call that the worker leaves when its context ends may reach the node
  after the worker has read the nonce for the next claim. The two have one nonce, and one of them is
  lost; `NonceNeverShared` names the call that was left.
- `justfile:194`: the relayer uses the deployer's key, so a relayer and a command line that run
  together take nonces of one account. `NonceNeverShared` is about the relayer alone.

## 8. Not modelled

Pairings, hashing to the curve and byte encodings (no state, and TLC has nothing to say of them);
pages that only show the store; deployment, tests and vectors; of the command line, `status` and
`privy-check`, which only read, and `demo`, a sequence of the others.

## 9. Running it

`tlc -config MCBlindMint.cfg MCBlindMint`, and in the same way every pair that `PROJECT.json` lists
under `runs`. `tlapm` on each
module whose name ends in `Proofs` checks the proofs. Each entry of
`mutants` names an operator that changes one definition as a plausible slip of the code would;
with it the run reports the property violated.
