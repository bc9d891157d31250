------------------------------- MODULE Relayer -------------------------------
(***************************************************************************)
(* The relayer: workflow/relayer.  Any number of requests read the         *)
(* contract, queue a job and wait; one worker sends every claim, because   *)
(* one account has one nonce.  A request lives in a context that ends      *)
(* after ninety seconds, when the caller leaves or when it is answered.    *)
(* Every call to the node may fail, and the relayer may stop at any time.  *)
(* A request passes the limiter of its caller before anything else.        *)
(***************************************************************************)
EXTENDS Limiter, Sequences, FiniteSets

CONSTANTS
    Requests,       \* POST /claim calls
    Notes,          \* wallets with an unblinded signature
    NoteOf,         \* [Requests -> Notes], a retry carries the same note
    Signed,         \* the notes that some rung of the ladder verifies
    Denom,          \* [Notes -> the denomination of that rung]
    MaxAnnounced,   \* bound on totalAnnounced
    QueueSize,      \* the buffer of the jobs channel
    CallerOf,       \* [Requests -> Callers]
    MaxClock,       \* bound on the clock
    Lag,            \* the longest wait for the lock of the limiter
    MaxRestarts,    \* bound on the restarts
    NoJob           \* what the worker holds between two jobs

ASSUME RelayerAssumption ==
    /\ NoteOf \in [Requests -> Notes] /\ Signed \subseteq Notes
    /\ Denom \in [Notes -> Nat \ {0}]
    /\ MaxAnnounced \in Nat /\ QueueSize \in Nat \ {0}
    /\ CallerOf \in [Requests -> Callers]
    /\ MaxClock \in Nat /\ Lag \in Nat /\ MaxRestarts \in Nat
    /\ NoJob \notin Requests

VARIABLES
    \* the chain
    claimed,            \* wallets that the contract paid
    totalClaimed, totalAnnounced,
    nonce,              \* the next nonce of the account of the relayer
    mempool,            \* its transactions that no block holds
    receipts,           \* its transactions that a block holds
    wire,               \* its transactions on their way to the node
    \* the service
    req,                \* [Requests -> the state of the handler]
    ended,              \* the requests whose context is done
    jobs,               \* the channel to the worker
    reply,              \* [Requests -> what the reply channel holds]
    worker,
    stopping,
    clock,
    buckets,            \* the limiter
    restarts,           \* how often the service came back
    granted             \* the requests it let in, the time they carry, and
                        \* the run of the service: this history serves
                        \* RateBounded alone

chain == <<claimed, totalClaimed, totalAnnounced, nonce, mempool, receipts>>
limiter == <<clock, buckets, restarts, granted>>
service == <<req, ended, jobs, reply, worker, stopping, limiter>>
vars == <<chain, wire, service>>

NoReply == 0
Resting(at) == [at |-> at, job |-> NoJob, nonce |-> 0]
NoOne == Resting("idle")

-----------------------------------------------------------------------------
(* The chain. *)

RunsUnbounded(n) == n \notin claimed
Runs(n) == n \notin claimed /\ totalClaimed + Denom[n] <= totalAnnounced

Pay(n) ==
    /\ claimed' = claimed \cup {n}
    /\ totalClaimed' = totalClaimed + Denom[n]

Announce ==
    /\ totalAnnounced < MaxAnnounced
    /\ totalAnnounced' = totalAnnounced + 1
    /\ UNCHANGED <<claimed, totalClaimed, nonce, mempool, receipts, wire, service>>

(* Anybody may claim any note for its wallet. *)
ClaimOutside(n) ==
    /\ n \in Signed /\ Runs(n)
    /\ Pay(n)
    /\ UNCHANGED <<totalAnnounced, nonce, mempool, receipts, wire, service>>

(* A block takes the transaction with the next nonce.  A claim that reverts *)
(* costs its gas.                                                           *)
Mine ==
    \E tx \in mempool :
        /\ tx.nonce = nonce
        /\ nonce' = nonce + 1
        /\ mempool' = mempool \ {tx}
        /\ receipts' = receipts \cup {[of |-> tx.of, ok |-> Runs(NoteOf[tx.of])]}
        /\ IF Runs(NoteOf[tx.of]) THEN Pay(NoteOf[tx.of])
           ELSE UNCHANGED <<claimed, totalClaimed>>
        /\ UNCHANGED <<totalAnnounced, wire, service>>

(* A call of the worker reaches the node now or later, also after the       *)
(* worker left it.  The node holds one transaction for each nonce, and a    *)
(* second one replaces the first or is refused.                             *)
SameNonce(tx) == {x \in mempool : x.nonce = tx.nonce}

Arrives(tx) ==
    /\ wire' = wire \ {tx}
    /\ tx.nonce >= nonce
    /\ mempool' = (mempool \ SameNonce(tx)) \cup {tx}
    /\ UNCHANGED <<claimed, totalClaimed, totalAnnounced, nonce, receipts, service>>

Refused(tx) ==
    /\ wire' = wire \ {tx}
    /\ UNCHANGED <<chain, service>>

-----------------------------------------------------------------------------
(* The handler: derive, check and submit. *)

Handler(r, at, answer, read) ==
    req' = [req EXCEPT ![r] = [at |-> at, answer |-> answer, read |-> read]]

(* The handler returns, and its context ends with it. *)
Answer(r, code) ==
    /\ Handler(r, "answered", code, 0)
    /\ ended' = ended \cup {r}

Unlimited == UNCHANGED <<chain, wire, jobs, reply, worker, stopping>>
Unchanged == Unlimited /\ UNCHANGED limiter

(* throttle reads the clock, and waits for the lock of the limiter after.   *)
Arrive(r) ==
    /\ req[r].at = "new" /\ ~ stopping
    /\ Handler(r, "arrived", 0, clock)
    /\ UNCHANGED ended /\ Unchanged

Throttle(r) ==
    /\ req[r].at = "arrived"
    /\ buckets' = After(buckets, CallerOf[r], req[r].read)
    /\ UNCHANGED <<clock, restarts>> /\ Unlimited

TooManyRequests(r) ==
    /\ Throttle(r)
    /\ ~ Allows(buckets, CallerOf[r], req[r].read)
    /\ Answer(r, 429)
    /\ UNCHANGED granted

LetIn(r) ==
    /\ Throttle(r)
    /\ Allows(buckets, CallerOf[r], req[r].read)
    /\ granted' = granted \cup {[of |-> r, at |-> req[r].read, run |-> restarts]}

(* decode and derive: the body is no note, or one that no rung signed.      *)
NoNote(r) == LetIn(r) /\ Answer(r, 400)

Ask(r) ==
    /\ LetIn(r)
    /\ NoteOf[r] \in Signed
    /\ Handler(r, "claimed", 0, 0)
    /\ UNCHANGED ended

(* The limiter matters no more once every request has passed it.            *)
LimiterOpen == \E r \in Requests : req[r].at \in {"new", "arrived"}

(* GET /health goes through the same limiter, and reads nothing else.       *)
Health(c) ==
    /\ ~ stopping /\ LimiterOpen
    /\ buckets' = After(buckets, c, clock)
    /\ UNCHANGED <<chain, wire, req, ended, jobs, reply, worker, stopping, clock,
                   restarts, granted>>

(* Nobody waits for the lock for long.                                      *)
Tick ==
    /\ clock < MaxClock /\ LimiterOpen
    /\ \A r \in Requests : req[r].at = "arrived" => clock < req[r].read + Lag
    /\ clock' = clock + 1
    /\ UNCHANGED <<chain, wire, req, ended, jobs, reply, worker, stopping, buckets,
                   restarts, granted>>

(* check makes three reads, and the chain moves between them. *)
ReadClaimed(r) ==
    /\ req[r].at = "claimed" /\ r \notin ended
    /\ IF NoteOf[r] \in claimed
       THEN Answer(r, 409)
       ELSE Handler(r, "announced", 0, 0) /\ UNCHANGED ended
    /\ Unchanged

ReadAnnounced(r) ==
    /\ req[r].at = "announced" /\ r \notin ended
    /\ Handler(r, "total", 0, totalAnnounced)
    /\ UNCHANGED ended /\ Unchanged

BoundConflict == 409
BoundReached == 503

ReadTotal(r) ==
    /\ req[r].at = "total" /\ r \notin ended
    /\ IF totalClaimed + Denom[NoteOf[r]] > req[r].read
       THEN Answer(r, BoundReached)
       ELSE Handler(r, "offer", 0, 0) /\ UNCHANGED ended
    /\ Unchanged

(* A read failed, for instance because the context ended. *)
ReadFails(r) ==
    /\ req[r].at \in {"claimed", "announced", "total"}
    /\ Answer(r, 500)
    /\ Unchanged

Enqueue(r) ==
    /\ req[r].at = "offer" /\ Len(jobs) < QueueSize
    /\ jobs' = Append(jobs, r)
    /\ Handler(r, "wait", 0, 0)
    /\ UNCHANGED <<chain, wire, ended, reply, worker, stopping, limiter>>

QueueFull(r) ==
    /\ req[r].at = "offer" /\ r \in ended
    /\ Answer(r, 503)
    /\ Unchanged

TakeReply(r) ==
    /\ req[r].at = "wait" /\ reply[r] # NoReply
    /\ Answer(r, reply[r])
    /\ Unchanged

GiveUp(r) ==
    /\ req[r].at = "wait" /\ r \in ended
    /\ Answer(r, 504)
    /\ Unchanged

(* Ninety seconds are over, or the caller left. *)
ContextEnds(r) ==
    /\ req[r].at \notin {"new", "arrived", "answered", "dropped"}
    /\ ended' = ended \cup {r}
    /\ UNCHANGED req /\ Unchanged

-----------------------------------------------------------------------------
(* The worker: one send at a time. *)

Work(at, n) ==
    /\ worker' = [worker EXCEPT !.at = at, !.nonce = n]
    /\ UNCHANGED <<req, ended, jobs, stopping, limiter>>

CallerListens(r) == req[r].at = "wait"
CanReply(r) == reply[r] = NoReply

(* What is on its way to the node stays there when the worker leaves it.    *)
Leave == wire' = {[x EXCEPT !.left = TRUE] : x \in wire}

(* The reply channel holds one value, so nobody has to be listening. *)
Finish(code) ==
    /\ CanReply(worker.job)
    /\ reply' = [reply EXCEPT ![worker.job] = code]
    /\ worker' = NoOne /\ Leave
    /\ UNCHANGED <<req, ended, jobs, stopping, limiter>>

Busy(at) == worker.at = at
Live(r) == r \notin ended

TakeJob ==
    /\ Busy("idle") /\ jobs # <<>>
    /\ worker' = [at |-> "nonce", job |-> Head(jobs), nonce |-> 0]
    /\ jobs' = Tail(jobs)
    /\ UNCHANGED <<chain, wire, req, ended, reply, stopping, limiter>>

NonceMined == nonce
PendingNonceAt == nonce + Cardinality(mempool)

ReadNonce ==
    /\ Busy("nonce") /\ Live(worker.job)
    /\ Work("estimate", PendingNonceAt)
    /\ UNCHANGED <<chain, wire, reply>>

(* The estimate runs the call on the last block, not on the mempool. *)
EstimateGas ==
    /\ Busy("estimate") /\ Live(worker.job)
    /\ IF Runs(NoteOf[worker.job])
       THEN Work("send", worker.nonce) /\ UNCHANGED <<wire, reply>>
       ELSE Finish(400)
    /\ UNCHANGED chain

(* The node may take the transaction before it answers, after the worker    *)
(* has left, or never.  The worker waits for the answer of the node and for *)
(* the receipt in one: it does nothing between them.                        *)
SendTransaction ==
    /\ Busy("send") /\ Live(worker.job)
    /\ wire' = wire \cup {[nonce |-> worker.nonce, of |-> worker.job, left |-> FALSE]}
    /\ Work("await", worker.nonce)
    /\ UNCHANGED <<chain, reply>>

AnyReceipt(x) == TRUE
ReceiptSuccessful(x) == x.ok

Await ==
    /\ Busy("await")
    /\ \E x \in receipts :
          /\ x.of = worker.job
          /\ Finish(IF ReceiptSuccessful(x) THEN 200 ELSE 500)
    /\ UNCHANGED chain

(* A call to the node failed, for instance because the context ended.  At   *)
(* the estimate the answer is 400.                                          *)
SendFails ==
    /\ worker.at \in {"nonce", "estimate", "send", "await"}
    /\ Finish(IF Busy("estimate") THEN 400 ELSE 500)
    /\ UNCHANGED chain

-----------------------------------------------------------------------------
(* A signal: the worker stops between two jobs and run() returns as soon as *)
(* the server stops listening.  Every open request is cut off.              *)

Signal ==
    /\ ~ stopping /\ stopping' = TRUE
    /\ UNCHANGED <<chain, wire, req, ended, jobs, reply, worker, limiter>>

WorkerStops ==
    /\ stopping /\ Busy("idle")
    /\ worker' = Resting("stopped")
    /\ UNCHANGED <<chain, wire, req, ended, jobs, reply, stopping, limiter>>

(* The next run has a limiter of its own, and it remembers nobody.          *)
Exit ==
    /\ stopping /\ restarts < MaxRestarts
    /\ stopping' = FALSE /\ restarts' = restarts + 1
    /\ req' = [r \in Requests |->
                  IF req[r].at \in {"new", "answered"} THEN req[r]
                  ELSE [at |-> "dropped", answer |-> 0, read |-> 0]]
    /\ ended' = {r \in Requests : req[r].at # "new"}
    /\ jobs' = <<>> /\ worker' = NoOne /\ Leave
    /\ reply' = [r \in Requests |-> NoReply]
    /\ buckets' = [c \in Callers |-> NoBucket]
    /\ UNCHANGED <<chain, clock, granted>>

-----------------------------------------------------------------------------
Init ==
    /\ claimed = {} /\ totalClaimed = 0 /\ totalAnnounced = 0
    /\ nonce = 0 /\ mempool = {} /\ receipts = {} /\ wire = {}
    /\ req = [r \in Requests |-> [at |-> "new", answer |-> 0, read |-> 0]]
    /\ ended = {} /\ jobs = <<>>
    /\ reply = [r \in Requests |-> NoReply]
    /\ worker = NoOne /\ stopping = FALSE
    /\ clock = 0 /\ buckets = [c \in Callers |-> NoBucket]
    /\ restarts = 0 /\ granted = {}

Next ==
    \/ Tick \/ \E c \in Callers : Health(c)
    \/ Announce \/ Mine \/ \E n \in Notes : ClaimOutside(n)
    \/ \E tx \in wire : Arrives(tx) \/ Refused(tx)
    \/ \E r \in Requests :
          \/ Arrive(r) \/ TooManyRequests(r) \/ NoNote(r) \/ Ask(r)
          \/ ReadClaimed(r) \/ ReadAnnounced(r) \/ ReadTotal(r)
          \/ ReadFails(r) \/ Enqueue(r) \/ QueueFull(r) \/ TakeReply(r)
          \/ GiveUp(r) \/ ContextEnds(r)
    \/ TakeJob \/ ReadNonce \/ EstimateGas \/ SendTransaction
    \/ Await \/ SendFails
    \/ Signal \/ WorkerStops \/ Exit

Spec == Init /\ [][Next]_vars

(* A context ends, and every call the worker makes ends with it.  The node  *)
(* owes nothing: it may leave each of them open until then.                 *)
FairSpec ==
    /\ Spec
    /\ WF_vars(worker.job \in ended /\ SendFails)
    /\ \A r \in Requests : WF_vars(ContextEnds(r))

-----------------------------------------------------------------------------
Codes == {0, 200, 400, 409, 429, 500, 503, 504}
Claims == [nonce : Nat, of : Requests, left : BOOLEAN]

TypeOK ==
    /\ claimed \subseteq Notes
    /\ totalClaimed \in 0 .. totalAnnounced /\ totalAnnounced \in 0 .. MaxAnnounced
    /\ nonce \in Nat
    /\ mempool \subseteq Claims /\ wire \subseteq Claims
    /\ receipts \subseteq [of : Requests, ok : BOOLEAN]
    /\ req \in [Requests ->
                  [at : {"new", "arrived", "claimed", "announced", "total", "offer",
                         "wait", "answered", "dropped"},
                   answer : Codes, read : Nat]]
    /\ ended \subseteq Requests
    /\ jobs \in Seq(Requests) /\ Len(jobs) <= QueueSize
    /\ reply \in [Requests -> Codes]
    /\ \/ worker \in {NoOne, Resting("stopped")}
       \/ worker \in [at : {"nonce", "estimate", "send", "await"},
                      job : Requests, nonce : Nat]
    /\ stopping \in BOOLEAN
    /\ clock \in 0 .. MaxClock
    /\ buckets \in [Callers -> [tokens : Int, seen : Int]]
    /\ restarts \in 0 .. MaxRestarts
    /\ granted \subseteq [of : Requests, at : Nat, run : Nat]

(***************************************************************************)
(* "The burst is the size of one deposit.  The refill then bounds          *)
(* sustained use": in any stretch of time a caller gets in with a burst    *)
(* and what the stretch refills, although requests reach the lock out of   *)
(* order and a caller that pauses is forgotten.  A restart forgets every   *)
(* caller, so each one in the stretch is worth another burst.              *)
(***************************************************************************)
RateBounded ==
    \A from, to \in 0 .. MaxClock, first, last \in 0 .. MaxRestarts, c \in Callers :
        LET in == {g \in granted : /\ CallerOf[g.of] = c
                                   /\ from <= g.at /\ g.at <= to
                                   /\ first <= g.run /\ g.run <= last}
        IN  from <= to /\ first <= last =>
                Cardinality(in) * PerToken <= Capacity * (1 + last - first) + to - from

(* "Two claims in flight from one account race": no two claims that the     *)
(* node has or may still get share a nonce, after a timeout that left one   *)
(* in the mempool or after a restart.  The exception is a claim whose call  *)
(* the worker left before the node took it: the node had not counted it.    *)
NonceNeverShared ==
    /\ \A x, y \in mempool \cup wire :
          x.nonce = y.nonce => x = y \/ x.left \/ y.left
    /\ worker.at = "send" =>
          \A x \in mempool \cup wire : x.left \/ x.nonce < worker.nonce

(* 200 goes out only for a note that the contract has paid, by the claim    *)
(* this request sent.                                                       *)
OkMeansPaid ==
    \A r \in Requests :
        req[r].answer = 200 =>
            /\ NoteOf[r] \in claimed
            /\ [of |-> r, ok |-> TRUE] \in receipts

(* 409 goes out only for a wallet that is paid.  The client stores the note *)
(* as claimed on this answer, so any other use of it would lose money.      *)
ConflictMeansPaid ==
    \A r \in Requests : req[r].answer = 409 => NoteOf[r] \in claimed

(* The worker comes back to its queue from every job, although the node may *)
(* never include the claim and the caller may be gone.                      *)
WorkerComesBack == worker.job \in Requests ~> worker.job \notin Requests

=============================================================================
