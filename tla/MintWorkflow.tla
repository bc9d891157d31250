---------------------------- MODULE MintWorkflow ----------------------------
(***************************************************************************)
(* The mint: workflow/blindmint/workflow.go.  A deposit event starts       *)
(* onDeposit.  A timer starts onSweep, which reads the ledger row by row   *)
(* and answers every deposit that still waits.  Both end in                *)
(* signAndAnnounce, which signs inside the enclave and hands a report to   *)
(* the DON.  The report reaches the contract later, or never, and more     *)
(* than one report may carry the same deposit.                             *)
(*                                                                         *)
(* A log trigger has no cursor: a log that finds the mint down is gone.    *)
(* Every read, secret and write may fail.                                  *)
(***************************************************************************)
EXTENDS Integers, Sequences

CONSTANTS
    MaxDeposits,    \* bound on nextId
    Refused,        \* deposits the mint cannot sign: a bad point, too few points
    Sweeps,         \* runs of onSweep that may overlap
    CatchUpBlocks,
    RefundDelay,    \* in blocks
    MaxHead,        \* bound on the chain
    MaxReports,     \* bound on the reports in flight for one deposit
    MaxCrashes      \* bound on the restarts of the mint

Ids == 1 .. MaxDeposits

ASSUME WorkflowAssumption ==
    /\ MaxDeposits \in Nat /\ Refused \subseteq Ids
    /\ CatchUpBlocks \in Nat /\ RefundDelay \in Nat /\ MaxHead \in Nat
    /\ MaxReports \in Nat /\ MaxCrashes \in Nat

VARIABLES
    \* the chain
    head, nextId,
    status,         \* [Ids -> status of the deposit in the contract]
    born,           \* [Ids -> block of its Deposited event]
    announced,      \* [Ids -> number of announcements the contract accepted]
    \* the DON
    triggers,       \* deposit logs on their way to onDeposit
    reports,        \* [Ids -> reports on their way to the contract]
    \* the mint
    up, crashes,
    sweep           \* [Sweeps -> a run of onSweep]

chain == <<head, nextId, status, born, announced>>
mint == <<up, crashes, sweep>>
vars == <<chain, triggers, reports, mint>>

Idle == [at |-> "idle", next |-> 1, row |-> 1, waiting |-> <<>>,
         from |-> 0, to |-> 0]

-----------------------------------------------------------------------------
(* The contract, as far as the mint meets it. *)

Deposit ==
    /\ nextId \in Ids
    /\ nextId' = nextId + 1
    /\ status' = [status EXCEPT ![nextId] = "Pending"]
    /\ born' = [born EXCEPT ![nextId] = head]
    /\ triggers' = triggers \cup {nextId}
    /\ UNCHANGED <<head, announced, reports, mint>>

Block ==
    /\ head < MaxHead
    /\ head' = head + 1
    /\ UNCHANGED <<nextId, status, born, announced, triggers, reports, mint>>

RefundByDepositor(id) ==
    /\ status[id] = "Pending"
    /\ head >= born[id] + RefundDelay
    /\ status' = [status EXCEPT ![id] = "Refunded"]
    /\ UNCHANGED <<head, nextId, born, announced, triggers, reports, mint>>

AnyStatus(id) == status[id] # "None"
Awaits(id) == status[id] = "Pending"

(* onReport: a deposit that is not pending reverts the announcement. *)
Deliver(id) ==
    /\ reports[id] > 0
    /\ reports' = [reports EXCEPT ![id] = @ - 1]
    /\ IF Awaits(id)
       THEN /\ status' = [status EXCEPT ![id] = "Announced"]
            /\ announced' = [announced EXCEPT ![id] = @ + 1]
       ELSE UNCHANGED <<status, announced>>
    /\ UNCHANGED <<head, nextId, born, triggers, mint>>

(* WriteReport fails, and nothing sends the report again. *)
LoseReport(id) ==
    /\ reports[id] > 0
    /\ reports' = [reports EXCEPT ![id] = @ - 1]
    /\ UNCHANGED <<chain, triggers, mint>>

-----------------------------------------------------------------------------
(* signAndAnnounce: the keys arrive, the points sign, a report leaves. *)

SignAndAnnounce(id) ==
    /\ id \notin Refused
    /\ reports[id] < MaxReports
    /\ reports' = [reports EXCEPT ![id] = @ + 1]

OnDeposit(id) ==
    /\ up /\ id \in triggers
    /\ triggers' = triggers \ {id}
    /\ SignAndAnnounce(id)
    /\ UNCHANGED <<chain, up, crashes, sweep>>

(* No mint was there to take the log, or the handler returned an error. *)
MissTrigger(id) ==
    /\ id \in triggers
    /\ triggers' = triggers \ {id}
    /\ UNCHANGED <<chain, reports, mint>>

-----------------------------------------------------------------------------
(* onSweep. *)

Become(s, run) ==
    /\ sweep' = [sweep EXCEPT ![s] = run]
    /\ UNCHANGED <<chain, triggers, up, crashes>>

LastCounted == nextId - 1
NextIdRead == nextId

(* The timer fires; waitingDeposits reads the counter. *)
SweepStart(s) ==
    /\ up /\ sweep[s].at = "idle"
    /\ Become(s, [Idle EXCEPT !.at = "rows", !.next = NextIdRead])
    /\ UNCHANGED reports

PendingInTime(id) == status[id] = "Pending" /\ head < born[id] + RefundDelay
Waiting(id) == status[id] = "Pending"

(* One row of the ledger.  The chain moves on between two of them. *)
ReadRow(s) ==
    LET run == sweep[s]
    IN  /\ run.at = "rows" /\ run.row < run.next
        /\ Become(s, [run EXCEPT !.row = @ + 1,
                                 !.waiting = IF Waiting(run.row)
                                             THEN Append(@, run.row) ELSE @])
        /\ UNCHANGED reports

(* Nothing waits, so the sweep ends without a search. *)
NothingWaits(s) ==
    /\ sweep[s].at = "rows" /\ sweep[s].row = sweep[s].next
    /\ sweep[s].waiting = <<>>
    /\ Become(s, Idle)
    /\ UNCHANGED reports

LastClosedBlock == head - 1
SearchEnd == head

StartUnclamped(h) == h - CatchUpBlocks
StartOfRange(h) == IF h < CatchUpBlocks THEN 0 ELSE h - CatchUpBlocks

(* headBlock comes after the rows: every deposit they show is behind it. *)
ReadHead(s) ==
    LET run == sweep[s]
    IN  /\ run.at = "rows" /\ run.row = run.next /\ run.waiting # <<>>
        /\ Become(s, [run EXCEPT !.at = "answer", !.to = SearchEnd,
                                 !.from = StartOfRange(SearchEnd)])
        /\ UNCHANGED reports

(* A read of the ledger or of the head failed: onSweep returns the error. *)
SweepFails(s) ==
    /\ sweep[s].at = "rows"
    /\ Become(s, Idle)
    /\ UNCHANGED reports

InRange(run, id) == run.from <= born[id] /\ born[id] <= run.to

AfterThis(run) ==
    IF Len(run.waiting) = 1 THEN Idle
    ELSE [run EXCEPT !.waiting = Tail(@)]

(* depositFromLog finds the event and signAndAnnounce answers it. *)
SweepAnswers(s, id) ==
    LET run == sweep[s]
    IN  /\ run.at = "answer" /\ Head(run.waiting) = id
        /\ InRange(run, id)
        /\ SignAndAnnounce(id)
        /\ Become(s, AfterThis(run))

SweepGivesUp(run) == Idle
SweepContinues(run) == AfterThis(run)

(* The log, a key, a point or the write failed: continue with the others. *)
SweepSkips(s, id) ==
    LET run == sweep[s]
    IN  /\ run.at = "answer" /\ Head(run.waiting) = id
        /\ Become(s, SweepContinues(run))
        /\ UNCHANGED reports

-----------------------------------------------------------------------------
(* The mint stops in the middle of anything.  It keeps no state. *)
Crash ==
    /\ up /\ crashes < MaxCrashes
    /\ up' = FALSE /\ crashes' = crashes + 1
    /\ sweep' = [s \in Sweeps |-> Idle]
    /\ UNCHANGED <<chain, triggers, reports>>

Restart ==
    /\ ~ up
    /\ up' = TRUE
    /\ UNCHANGED <<chain, triggers, reports, crashes, sweep>>

Init ==
    /\ head = 0 /\ nextId = 1
    /\ status = [id \in Ids |-> "None"]
    /\ born = [id \in Ids |-> 0]
    /\ announced = [id \in Ids |-> 0]
    /\ triggers = {} /\ reports = [id \in Ids |-> 0]
    /\ up = TRUE /\ crashes = 0
    /\ sweep = [s \in Sweeps |-> Idle]

Next ==
    \/ Deposit \/ Block \/ Crash \/ Restart
    \/ \E id \in Ids :
          \/ RefundByDepositor(id) \/ Deliver(id) \/ LoseReport(id)
          \/ OnDeposit(id) \/ MissTrigger(id)
    \/ \E s \in Sweeps :
          \/ SweepStart(s) \/ ReadRow(s) \/ NothingWaits(s) \/ ReadHead(s)
          \/ SweepFails(s)
          \/ \E id \in Ids : SweepAnswers(s, id) \/ SweepSkips(s, id)

Spec == Init /\ [][Next]_vars

-----------------------------------------------------------------------------
(***************************************************************************)
(* Fairness.  The cron trigger fires again and again, so a sweep starts    *)
(* again and again.  A read, a secret or a write fails now and then, never *)
(* for ever.  Deposit, Block and the depositor's refund owe nothing.       *)
(***************************************************************************)
Fairness ==
    /\ WF_vars(Restart)
    /\ \A s \in Sweeps :
          /\ SF_vars(SweepStart(s)) /\ SF_vars(ReadHead(s))
          /\ WF_vars(NothingWaits(s))
          /\ \A id \in Ids :
                /\ SF_vars(sweep[s].row = id /\ ReadRow(s))
                /\ SF_vars(SweepAnswers(s, id))
                /\ WF_vars(SweepSkips(s, id))
    /\ \A id \in Ids : SF_vars(Deliver(id))

FairSpec == Spec /\ Fairness

-----------------------------------------------------------------------------
Run == [at : {"idle", "rows", "answer"}, next : 1 .. MaxDeposits + 1,
        row : 1 .. MaxDeposits + 1, waiting : Seq(Ids),
        from : 0 .. MaxHead, to : 0 .. MaxHead]

(* Types of the state, and no more reports for a deposit than the bound.   *)
TypeOK ==
    /\ head \in 0 .. MaxHead /\ nextId \in 1 .. MaxDeposits + 1
    /\ status \in [Ids -> {"None", "Pending", "Announced", "Refunded"}]
    /\ born \in [Ids -> 0 .. MaxHead]
    /\ announced \in [Ids -> Nat]
    /\ triggers \subseteq Ids
    /\ reports \in [Ids -> 0 .. MaxReports]
    /\ up \in BOOLEAN /\ crashes \in 0 .. MaxCrashes
    /\ sweep \in [Sweeps -> Run]

InList(id, list) == \E i \in DOMAIN list : list[i] = id

(* waitingDeposits reads one row at a time while the chain moves.  It still *)
(* lists every deposit it passed that waits at this moment, in order and    *)
(* once.                                                                    *)
RowsReadAreKnown ==
    \A s \in Sweeps : LET run == sweep[s] IN
        /\ \A i, j \in DOMAIN run.waiting :
              i < j => run.waiting[i] < run.waiting[j]
        /\ run.at = "rows" =>
              \A id \in 1 .. run.row - 1 :
                  status[id] = "Pending" => InList(id, run.waiting)

(* The search of a sweep covers every deposit it has to answer, except the *)
(* ones that are more than catchUpBlocks old: no event is ahead of it.     *)
SearchCoversWaiting ==
    \A s \in Sweeps : LET run == sweep[s] IN
        run.at = "answer" =>
            \A id \in Ids :
                InList(id, run.waiting) =>
                    /\ born[id] <= run.to
                    /\ run.to - born[id] <= CatchUpBlocks => InRange(run, id)

(* "Nothing double mints": however many triggers, sweeps and reports carry *)
(* a deposit, it is announced once, and never beside a refund.             *)
NothingDoubleMints ==
    \A id \in Ids : announced[id] = IF status[id] = "Announced" THEN 1 ELSE 0

(***************************************************************************)
(* A deposit the mint can sign does not wait for ever: not when its log    *)
(* met a mint that was down, not when a report is lost, and not behind a   *)
(* deposit the mint refuses.  Only a deposit that fell out of the search   *)
(* may: its event is more than catchUpBlocks behind the head.              *)
(***************************************************************************)
GoodAnswered ==
    \A id \in Ids \ Refused :
        status[id] = "Pending" ~> \/ status[id] # "Pending"
                                  \/ head > born[id] + CatchUpBlocks

=============================================================================
