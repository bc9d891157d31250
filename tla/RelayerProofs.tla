---------------------------- MODULE RelayerProofs ----------------------------
(***************************************************************************)
(* What the relayer promises, for any number of requests, notes, callers   *)
(* and jobs.                                                               *)
(***************************************************************************)
EXTENDS Relayer, FiniteSetTheorems, TLAPS

(* The steps of the handler of one request, of the worker, and the rest.   *)
HandlerStep(r) ==
    \/ Arrive(r) \/ TooManyRequests(r) \/ NoNote(r) \/ Ask(r)
    \/ ReadClaimed(r) \/ ReadAnnounced(r) \/ ReadTotal(r)
    \/ ReadFails(r) \/ Enqueue(r) \/ QueueFull(r) \/ TakeReply(r)
    \/ GiveUp(r) \/ ContextEnds(r)
WorkerStep ==
    \/ TakeJob \/ ReadNonce \/ EstimateGas \/ SendTransaction
    \/ Await \/ SendFails
OtherStep ==
    \/ Tick \/ \E c \in Callers : Health(c)
    \/ Announce \/ Mine \/ \E n \in Notes : ClaimOutside(n)
    \/ \E tx \in wire : Arrives(tx) \/ Refused(tx)
    \/ Signal \/ WorkerStops \/ Exit

LEMMA NextCases ==
    Next => (\E r \in Requests : HandlerStep(r)) \/ WorkerStep \/ OtherStep
<1>1. ASSUME NEW r \in Requests,
             \/ Arrive(r) \/ TooManyRequests(r) \/ NoNote(r) \/ Ask(r)
             \/ ReadClaimed(r) \/ ReadAnnounced(r) \/ ReadTotal(r)
             \/ ReadFails(r) \/ Enqueue(r) \/ QueueFull(r) \/ TakeReply(r)
             \/ GiveUp(r) \/ ContextEnds(r)
      PROVE  HandlerStep(r)
  BY <1>1 DEF HandlerStep
<1> QED BY <1>1 DEF Next, WorkerStep, OtherStep

(* What the handler of a request may hold. *)
Stages == {"new", "arrived", "claimed", "announced", "total", "offer",
           "wait", "answered", "dropped"}

LEMMA HandlerType ==
    ASSUME NEW r \in Requests, NEW at \in Stages, NEW code \in Codes,
           NEW read \in Nat, TypeOK, Handler(r, at, code, read)
    PROVE  req' \in [Requests -> [at : Stages, answer : Codes, read : Nat]]
BY DEF TypeOK, Handler, Stages

LEMMA AnswerType ==
    ASSUME NEW r \in Requests, NEW code \in Codes, TypeOK, Answer(r, code)
    PROVE  /\ req' \in [Requests -> [at : Stages, answer : Codes, read : Nat]]
           /\ ended' \subseteq Requests
<1>1. ended' \subseteq Requests
  BY DEF TypeOK, Answer
<1>2. "answered" \in Stages /\ 0 \in Nat
  BY DEF Stages
<1> QED BY <1>1, <1>2, HandlerType DEF Answer

(* Whatever a caller and a time do, every caller keeps a bucket. *)
LEMMA BucketType ==
    ASSUME NEW b \in [Callers -> [tokens : Int, seen : Int]],
           NEW c \in Callers, NEW t \in Int
    PROVE  After(b, c, t) \in [Callers -> [tokens : Int, seen : Int]]
<1>1. Capacity \in Int /\ PerToken \in Int
  BY LimiterAssumption DEF Capacity
<1>2. Kept(b, t) \in [Callers -> [tokens : Int, seen : Int]]
  BY DEF Kept, NoBucket
<1>3. Full(t) \in [tokens : Int, seen : Int]
  BY <1>1 DEF Full
<1>4. Refilled(b, c, t) \in Int
  BY <1>1, <1>2, <1>3 DEF Refilled, Least
<1> QED BY <1>1, <1>2, <1>4 DEF After

-----------------------------------------------------------------------------
(* The types hold. *)

LEMMA TypeStepHandler ==
    ASSUME TypeOK, NEW r \in Requests,
           HandlerStep(r)
    PROVE  TypeOK'
<1> DEFINE ReqOK == req' \in [Requests -> [at : Stages, answer : Codes, read : Nat]]
           Rest == UNCHANGED <<chain, wire, reply, worker, stopping>>
           Calm == UNCHANGED <<clock, buckets, restarts, granted>>
<1>0. /\ {200, 400, 409, 429, 500, 503, 504, 0} \subseteq Codes /\ 0 \in Nat
      /\ {"arrived", "claimed", "announced", "total", "offer", "wait"} \subseteq Stages
  BY DEF Codes, Stages
<1>15. ended \subseteq Requests /\ totalAnnounced \in Nat
  BY RelayerAssumption DEF TypeOK
<1>1. ASSUME ReqOK, ended' \subseteq Requests, Rest, UNCHANGED jobs, Calm
      PROVE  TypeOK'
  BY <1>1 DEF TypeOK, chain, Stages
<1>2. ASSUME Throttle(r)
      PROVE  buckets' \in [Callers -> [tokens : Int, seen : Int]]
  <2>1. CallerOf[r] \in Callers /\ req[r].read \in Int
    BY RelayerAssumption DEF TypeOK
  <2> QED BY <1>2, <2>1, BucketType DEF Throttle, TypeOK
<1>3. CASE Arrive(r)
  <2>1. clock \in Nat
    BY RelayerAssumption DEF TypeOK
  <2>2. ReqOK
    BY <1>0, <1>3, <2>1, HandlerType DEF Arrive
  <2> QED BY <1>1, <1>3, <2>2 DEF Arrive, Unchanged, Unlimited, limiter, TypeOK
<1>4. CASE TooManyRequests(r)
  <2>1. ReqOK /\ ended' \subseteq Requests
    BY <1>0, <1>4, AnswerType DEF TooManyRequests
  <2>2. Throttle(r)
    BY <1>4 DEF TooManyRequests
  <2> HIDE DEF ReqOK
  <2> QED BY <1>2, <1>4, <2>1, <2>2
          DEF TooManyRequests, Throttle, Unlimited, TypeOK, chain, Stages, ReqOK
<1>5. ASSUME LetIn(r)
      PROVE  /\ granted' \subseteq [of : Requests, at : Nat, run : Nat]
             /\ buckets' \in [Callers -> [tokens : Int, seen : Int]]
             /\ UNCHANGED <<clock, restarts, chain, wire, jobs, reply, worker, stopping>>
  <2>1. req[r].read \in Nat /\ restarts \in Nat
    BY RelayerAssumption DEF TypeOK
  <2> QED BY <1>2, <1>5, <2>1 DEF LetIn, Throttle, Unlimited, TypeOK
<1>6. CASE NoNote(r)
  <2>1. ReqOK /\ ended' \subseteq Requests
    BY <1>0, <1>6, AnswerType DEF NoNote
  <2>2. LetIn(r)
    BY <1>6 DEF NoNote
  <2> HIDE DEF ReqOK
  <2> QED BY <1>5, <2>1, <2>2 DEF TypeOK, chain, Stages, ReqOK
<1>7. CASE Ask(r)
  <2>1. ReqOK
    BY <1>0, <1>7, HandlerType DEF Ask
  <2>2. LetIn(r) /\ UNCHANGED ended
    BY <1>7 DEF Ask
  <2> HIDE DEF ReqOK
  <2> QED BY <1>5, <2>1, <2>2 DEF TypeOK, chain, Stages, ReqOK
<1>8. CASE ReadClaimed(r)
  <2>1. ReqOK /\ ended' \subseteq Requests
    <3>1. CASE Answer(r, 409)
      BY <1>0, <3>1, AnswerType
    <3>2. CASE Handler(r, "announced", 0, 0) /\ UNCHANGED ended
      BY <1>0, <1>15, <3>2, HandlerType
    <3> QED BY <1>8, <3>1, <3>2 DEF ReadClaimed
  <2> HIDE DEF ReqOK
  <2> QED BY <1>1, <1>8, <2>1 DEF ReadClaimed, Unchanged, Unlimited, limiter
<1>9. CASE ReadAnnounced(r)
  <2>1. ReqOK /\ ended' \subseteq Requests
    BY <1>0, <1>9, <1>15, HandlerType DEF ReadAnnounced
  <2> HIDE DEF ReqOK
  <2> QED BY <1>1, <1>9, <2>1 DEF ReadAnnounced, Unchanged, Unlimited, limiter
<1>10. CASE ReadTotal(r)
  <2>1. ReqOK /\ ended' \subseteq Requests
    <3>1. CASE Answer(r, 503)
      BY <1>0, <3>1, AnswerType
    <3>2. CASE Handler(r, "offer", 0, 0) /\ UNCHANGED ended
      BY <1>0, <1>15, <3>2, HandlerType
    <3> QED BY <1>10, <3>1, <3>2 DEF ReadTotal, BoundReached
  <2> HIDE DEF ReqOK
  <2> QED BY <1>1, <1>10, <2>1 DEF ReadTotal, Unchanged, Unlimited, limiter
<1>11. CASE ReadFails(r) \/ QueueFull(r) \/ GiveUp(r)
  <2>1. ReqOK /\ ended' \subseteq Requests
    BY <1>0, <1>11, AnswerType DEF ReadFails, QueueFull, GiveUp
  <2> HIDE DEF ReqOK
  <2> QED BY <1>1, <1>11, <2>1
          DEF ReadFails, QueueFull, GiveUp, Unchanged, Unlimited, limiter
<1>12. CASE TakeReply(r)
  <2>1. reply[r] \in Codes
    BY DEF TypeOK
  <2>2. ReqOK /\ ended' \subseteq Requests
    BY <1>12, <2>1, AnswerType DEF TakeReply
  <2> HIDE DEF ReqOK
  <2> QED BY <1>1, <1>12, <2>2 DEF TakeReply, Unchanged, Unlimited, limiter
<1>13. CASE Enqueue(r)
  <2>1. ReqOK
    BY <1>0, <1>13, HandlerType DEF Enqueue
  <2>2. jobs' \in Seq(Requests) /\ Len(jobs') <= QueueSize
    BY <1>13, RelayerAssumption DEF Enqueue, TypeOK
  <2> HIDE DEF ReqOK
  <2> QED BY <1>13, <2>1, <2>2 DEF Enqueue, TypeOK, chain, limiter, Stages, ReqOK
<1>14. CASE ContextEnds(r)
  BY <1>14 DEF ContextEnds, Unchanged, Unlimited, limiter, chain, TypeOK
<1> HIDE DEF ReqOK
<1> QED BY <1>3, <1>4, <1>6, <1>7, <1>8, <1>9, <1>10, <1>11, <1>12, <1>13, <1>14
        DEF HandlerStep

(* What the worker leaves on the wire is what was there. *)
LEMMA LeaveType ==
    ASSUME TypeOK, Leave
    PROVE  /\ wire' \subseteq Claims
           /\ \A x \in wire' : x.left /\ \E y \in wire : x.nonce = y.nonce
<1>1. ASSUME NEW x \in wire'
      PROVE  x \in Claims /\ x.left /\ \E y \in wire : x.nonce = y.nonce
  <2>1. PICK y \in wire : x = [y EXCEPT !.left = TRUE]
    BY <1>1 DEF Leave
  <2>2. y \in Claims
    BY DEF TypeOK
  <2> QED BY <2>1, <2>2 DEF Claims
<1> QED BY <1>1

(* The worker gives its job back with a code. *)
LEMMA FinishType ==
    ASSUME TypeOK, NEW code \in Codes, worker.job \in Requests, Finish(code)
    PROVE  /\ reply' \in [Requests -> Codes]
           /\ worker' = NoOne /\ wire' \subseteq Claims
           /\ UNCHANGED <<req, ended, jobs, stopping, limiter>>
BY LeaveType DEF TypeOK, Finish

LEMMA WorkerType ==
    ASSUME TypeOK, worker.at \notin {"idle", "stopped"}
    PROVE  /\ worker \in [at : {"nonce", "estimate", "send", "await"},
                          job : Requests, nonce : Nat]
BY DEF TypeOK, NoOne, Resting

LEMMA MempoolCounts ==
    ASSUME IsFiniteSet(mempool), TypeOK
    PROVE  PendingNonceAt \in Nat
BY FS_CardinalityType DEF PendingNonceAt, TypeOK

LEMMA TypeStepWorker ==
    ASSUME TypeOK, IsFiniteSet(mempool),
           WorkerStep
    PROVE  TypeOK'
<1>0. {0, 200, 400, 500} \subseteq Codes
  BY DEF Codes
<1>1. CASE TakeJob
  <2>1. Head(jobs) \in Requests /\ Tail(jobs) \in Seq(Requests)
        /\ Len(Tail(jobs)) <= QueueSize
    BY <1>1, RelayerAssumption DEF TakeJob, TypeOK
  <2> QED BY <1>1, <2>1 DEF TakeJob, TypeOK, chain, limiter
<1>2. ASSUME NEW at \in {"estimate", "send", "await"}, NEW n \in Nat,
             worker.at \in {"nonce", "estimate", "send"}, Work(at, n)
      PROVE  /\ worker' \in [at : {"nonce", "estimate", "send", "await"},
                             job : Requests, nonce : Nat]
             /\ UNCHANGED <<req, ended, jobs, stopping, limiter>>
  BY <1>2, WorkerType DEF Work
<1>3. CASE ReadNonce
  <2>1. PendingNonceAt \in Nat
    BY MempoolCounts
  <2>2. worker.at \in {"nonce", "estimate", "send"}
    BY <1>3 DEF ReadNonce, Busy
  <2>3. /\ worker' \in [at : {"nonce", "estimate", "send", "await"},
                        job : Requests, nonce : Nat]
        /\ UNCHANGED <<req, ended, jobs, stopping, limiter>>
    BY <1>2, <1>3, <2>1, <2>2 DEF ReadNonce
  <2> QED BY <1>3, <2>3 DEF ReadNonce, TypeOK, chain, limiter
<1>4. ASSUME NEW code \in Codes, worker.job \in Requests, Finish(code),
             UNCHANGED chain
      PROVE  TypeOK'
  BY <1>4, FinishType DEF TypeOK, chain, limiter
<1>5. CASE EstimateGas
  <2>1. worker.nonce \in Nat /\ worker.job \in Requests
    BY <1>5, WorkerType DEF EstimateGas, Busy
  <2>2. CASE Work("send", worker.nonce) /\ UNCHANGED <<wire, reply>>
    <3>1. worker.at \in {"nonce", "estimate", "send"}
      BY <1>5 DEF EstimateGas, Busy
    <3>2. /\ worker' \in [at : {"nonce", "estimate", "send", "await"},
                          job : Requests, nonce : Nat]
          /\ UNCHANGED <<req, ended, jobs, stopping, limiter>>
      BY <1>2, <2>1, <2>2, <3>1
    <3> QED BY <1>5, <2>2, <3>2 DEF EstimateGas, TypeOK, chain, limiter
  <2>3. CASE Finish(400)
    BY <1>0, <1>4, <1>5, <2>1, <2>3 DEF EstimateGas
  <2> QED BY <1>5, <2>2, <2>3 DEF EstimateGas
<1>7. CASE SendTransaction
  <2>1. worker.nonce \in Nat /\ worker.job \in Requests /\ worker.at \in {"nonce", "estimate", "send"}
    BY <1>7, WorkerType DEF SendTransaction, Busy
  <2>2. /\ worker' \in [at : {"nonce", "estimate", "send", "await"},
                        job : Requests, nonce : Nat]
        /\ UNCHANGED <<req, ended, jobs, stopping, limiter>>
    BY <1>2, <1>7, <2>1 DEF SendTransaction
  <2>3. wire' \subseteq Claims
    <3>1. [nonce |-> worker.nonce, of |-> worker.job, left |-> FALSE] \in Claims
      BY <2>1 DEF Claims
    <3> QED BY <1>7, <3>1 DEF SendTransaction, TypeOK
  <2> QED BY <1>7, <2>2, <2>3 DEF SendTransaction, TypeOK, chain, limiter
<1>9. CASE Await
  <2>1. worker.job \in Requests
    BY <1>9, WorkerType DEF Await, Busy
  <2>2. PICK x \in receipts : Finish(IF ReceiptSuccessful(x) THEN 200 ELSE 500)
    BY <1>9 DEF Await
  <2>3. (IF ReceiptSuccessful(x) THEN 200 ELSE 500) \in Codes
    BY <1>0
  <2> QED BY <1>4, <1>9, <2>1, <2>2, <2>3 DEF Await
<1>10. CASE SendFails
  <2>1. worker.job \in Requests
    BY <1>10, WorkerType DEF SendFails
  <2>2. (IF Busy("estimate") THEN 400 ELSE 500) \in Codes
    BY <1>0
  <2> QED BY <1>4, <1>10, <2>1, <2>2 DEF SendFails
<1> QED BY <1>1, <1>3, <1>5, <1>7, <1>9, <1>10 DEF WorkerStep

LEMMA TypeStepRest ==
    ASSUME TypeOK,
           OtherStep
    PROVE  TypeOK'
<1> DEFINE Cash(c, p, q) == /\ c \subseteq Notes
                            /\ p \in 0 .. q /\ q \in 0 .. MaxAnnounced
<1>1. CASE Tick
  BY <1>1, RelayerAssumption DEF Tick, TypeOK, chain
<1>2. ASSUME NEW c \in Callers, Health(c) PROVE TypeOK'
  <2>1. buckets' \in [Callers -> [tokens : Int, seen : Int]]
    <3>1. clock \in Int /\ buckets \in [Callers -> [tokens : Int, seen : Int]]
      BY RelayerAssumption DEF TypeOK
    <3> QED BY <1>2, <3>1, BucketType DEF Health
  <2> QED BY <1>2, <2>1 DEF Health, TypeOK, chain
<1>3. CASE Announce
  BY <1>3, RelayerAssumption DEF Announce, TypeOK, service, limiter
<1>4. ASSUME NEW n \in Notes, Runs(n), Pay(n), UNCHANGED totalAnnounced
      PROVE  Cash(claimed', totalClaimed', totalAnnounced')
  BY <1>4, RelayerAssumption DEF Runs, Pay, TypeOK
<1>5. ASSUME NEW n \in Notes, ClaimOutside(n) PROVE TypeOK'
  <2>1. Cash(claimed', totalClaimed', totalAnnounced')
    BY <1>4, <1>5 DEF ClaimOutside
  <2> QED BY <1>5, <2>1 DEF ClaimOutside, TypeOK, service, limiter
<1>6. CASE Mine
  <2>1. PICK tx \in mempool :
          /\ nonce' = nonce + 1
          /\ mempool' = mempool \ {tx}
          /\ receipts' = receipts
                \cup {[of |-> tx.of, ok |-> Runs(NoteOf[tx.of])]}
          /\ IF Runs(NoteOf[tx.of]) THEN Pay(NoteOf[tx.of])
             ELSE UNCHANGED <<claimed, totalClaimed>>
          /\ UNCHANGED <<totalAnnounced, wire, service>>
    BY <1>6 DEF Mine
  <2>2. tx.of \in Requests /\ NoteOf[tx.of] \in Notes
    BY RelayerAssumption DEF TypeOK, Claims
  <2>3. Cash(claimed', totalClaimed', totalAnnounced')
    <3>1. CASE Runs(NoteOf[tx.of])
      BY <1>4, <2>1, <2>2, <3>1
    <3>2. CASE ~ Runs(NoteOf[tx.of])
      BY <2>1, <3>2 DEF TypeOK
    <3> QED BY <3>1, <3>2
  <2>4. Runs(NoteOf[tx.of]) \in BOOLEAN
    BY DEF Runs
  <2>5. receipts' \subseteq [of : Requests, ok : BOOLEAN]
    BY <2>1, <2>2, <2>4 DEF TypeOK
  <2>6. nonce' \in Nat /\ mempool' \subseteq Claims
    BY <2>1 DEF TypeOK
  <2>7. UNCHANGED <<wire, service>>
    BY <2>1
  <2> QED BY <2>3, <2>5, <2>6, <2>7 DEF TypeOK, service, limiter
<1>7. CASE Signal \/ WorkerStops
  BY <1>7 DEF Signal, WorkerStops, TypeOK, chain, limiter
<1>8. CASE Exit
  <2>1. req' \in [Requests -> [at : Stages, answer : Codes, read : Nat]]
    BY <1>8 DEF Exit, TypeOK, Stages, Codes
  <2>2. reply' \in [Requests -> Codes]
    BY <1>8 DEF Exit, NoReply, Codes
  <2>3. buckets' \in [Callers -> [tokens : Int, seen : Int]]
    BY <1>8 DEF Exit, NoBucket
  <2>4. jobs' \in Seq(Requests) /\ Len(jobs') <= QueueSize
    BY <1>8, RelayerAssumption DEF Exit
  <2>5. restarts' \in 0 .. MaxRestarts /\ wire' \subseteq Claims
    BY <1>8, LeaveType, RelayerAssumption DEF Exit, TypeOK
  <2> QED BY <1>8, <2>1, <2>2, <2>3, <2>4, <2>5 DEF Exit, TypeOK, chain, Stages
<1>9. ASSUME NEW tx \in wire, Arrives(tx) \/ Refused(tx) PROVE TypeOK'
  <2>1. mempool' \subseteq Claims /\ wire' \subseteq Claims
    BY <1>9 DEF Arrives, Refused, chain, TypeOK
  <2> QED BY <1>9, <2>1 DEF Arrives, Refused, chain, service, limiter, TypeOK
<1> QED BY <1>1, <1>2, <1>3, <1>5, <1>6, <1>7, <1>8, <1>9 DEF OtherStep

-----------------------------------------------------------------------------
(***************************************************************************)
(* The nonces.  The mempool holds the nonces from the one of the account   *)
(* up to the count that the node reports, each at most once, and none on   *)
(* the wire lies above that count.  The count never falls: a block takes   *)
(* one transaction and raises the nonce by one, and a transaction that     *)
(* replaces another leaves it.  What the worker has not left on the wire   *)
(* is the one claim it waits for, and the others it sent are in the        *)
(* mempool, below the count that it reads next.                            *)
(***************************************************************************)

NonceInv ==
    /\ IsFiniteSet(mempool)
    /\ \A x \in mempool : nonce <= x.nonce /\ x.nonce < PendingNonceAt
    /\ \A x, y \in mempool : x.nonce = y.nonce => x = y
    /\ \A x \in wire : x.nonce <= PendingNonceAt
    /\ \A x \in wire : x.left \/ (worker.at = "await" /\ x.nonce = worker.nonce
                                                    /\ x.of = worker.job)
    /\ \A x \in mempool, y \in wire : x.nonce = y.nonce => x.left \/ y.left
    /\ worker.at \in {"estimate", "send"} =>
          /\ worker.nonce <= PendingNonceAt
          /\ \A x \in mempool \cup wire : x.left \/ x.nonce < worker.nonce

(* The worker is not between its read of the nonce and its send. *)
Unsigned == worker.at \notin {"estimate", "send"}

(* Nothing that the worker still waits for is on the wire before it sends. *)
LEMMA AllLeft ==
    ASSUME NonceInv, worker.at # "await", NEW x \in wire
    PROVE  x.left
BY DEF NonceInv

(* The transaction that reaches the node raises the count or replaces one.  *)
LEMMA ArrivesNonce ==
    ASSUME TypeOK, NonceInv, NEW tx \in wire, Arrives(tx)
    PROVE  NonceInv'
<1>0. /\ IsFiniteSet(mempool) /\ PendingNonceAt \in Nat
      /\ Cardinality(mempool) \in Nat /\ nonce \in Nat
      /\ \A x \in mempool \cup wire : x.nonce \in Nat
  BY MempoolCounts, FS_CardinalityType DEF NonceInv, TypeOK, Claims
<1>1. /\ wire' = wire \ {tx} /\ nonce <= tx.nonce
      /\ mempool' = (mempool \ SameNonce(tx)) \cup {tx}
      /\ nonce' = nonce /\ worker' = worker
  BY DEF Arrives, service
<1>2. tx.nonce <= PendingNonceAt
  BY DEF NonceInv
<1>3. /\ IsFiniteSet(mempool') /\ Cardinality(mempool') \in Nat
      /\ Cardinality(mempool) <= Cardinality(mempool')
      /\ SameNonce(tx) = {} => Cardinality(mempool') = Cardinality(mempool) + 1
  <2>1. CASE SameNonce(tx) = {}
    <3>1. mempool' = mempool \cup {tx} /\ tx \notin mempool
      BY <1>1, <2>1 DEF SameNonce
    <3> QED BY <1>0, <3>1, FS_AddElement
  <2>2. CASE SameNonce(tx) # {}
    <3>1. PICK old \in mempool : old.nonce = tx.nonce
      BY <2>2 DEF SameNonce
    <3>2. SameNonce(tx) = {old}
      BY <3>1 DEF SameNonce, NonceInv
    <3>3. tx \notin mempool \ {old}
      BY <3>1, <3>2 DEF SameNonce
    <3>4. /\ IsFiniteSet(mempool \ {old})
          /\ Cardinality(mempool \ {old}) = Cardinality(mempool) - 1
      BY <1>0, FS_RemoveElement
    <3>5. /\ IsFiniteSet(mempool')
          /\ Cardinality(mempool') = Cardinality(mempool \ {old}) + 1
      BY <1>1, <3>2, <3>3, <3>4, FS_AddElement
    <3> QED BY <1>0, <2>2, <3>4, <3>5
  <2> QED BY <2>1, <2>2
<1>4. PendingNonceAt <= PendingNonceAt' /\ PendingNonceAt' \in Nat
  BY <1>0, <1>1, <1>3 DEF PendingNonceAt
<1>5. tx.nonce < PendingNonceAt'
  <2>1. CASE SameNonce(tx) = {}
    <3>1. PendingNonceAt' = PendingNonceAt + 1
      BY <1>0, <1>1, <1>3, <2>1 DEF PendingNonceAt
    <3> QED BY <1>0, <1>2, <3>1
  <2>2. CASE SameNonce(tx) # {}
    <3>1. tx.nonce < PendingNonceAt
      BY <2>2 DEF SameNonce, NonceInv
    <3> QED BY <1>0, <1>4, <3>1
  <2> QED BY <2>1, <2>2
<1>6. \A x \in mempool' : x = tx \/ (x \in mempool /\ x.nonce # tx.nonce)
  BY <1>1 DEF SameNonce
<1>7. \A x \in mempool' : nonce' <= x.nonce /\ x.nonce < PendingNonceAt'
  <2>1. ASSUME NEW x \in mempool' PROVE nonce' <= x.nonce /\ x.nonce < PendingNonceAt'
    <3>1. CASE x = tx
      BY <1>1, <1>5, <3>1
    <3>2. CASE x \in mempool
      <4>1. nonce <= x.nonce /\ x.nonce < PendingNonceAt
        BY <3>2 DEF NonceInv
      <4> QED BY <1>0, <1>1, <1>4, <3>2, <4>1
    <3> QED BY <1>6, <3>1, <3>2
  <2> QED BY <2>1
<1>8. \A x, y \in mempool' : x.nonce = y.nonce => x = y
  BY <1>6 DEF NonceInv
<1>9. \A x \in wire' : x.nonce <= PendingNonceAt'
  <2>1. ASSUME NEW x \in wire' PROVE x.nonce <= PendingNonceAt'
    <3>1. x.nonce <= PendingNonceAt /\ x.nonce \in Nat
      BY <1>0, <1>1 DEF NonceInv
    <3> QED BY <1>0, <1>4, <3>1
  <2> QED BY <2>1
<1>10. \A x \in wire' : x.left \/ (worker'.at = "await" /\ x.nonce = worker'.nonce
                                                    /\ x.of = worker'.job)
  BY <1>1 DEF NonceInv
<1>11. ASSUME NEW x \in mempool', NEW y \in wire', x.nonce = y.nonce
       PROVE  x.left \/ y.left
  <2>1. CASE x = tx
    <3>1. /\ tx.left \/ (tx.nonce = worker.nonce /\ tx.of = worker.job)
          /\ y.left \/ (y.nonce = worker.nonce /\ y.of = worker.job)
          /\ y \in wire /\ y # tx
      BY <1>1 DEF NonceInv
    <3>2. ASSUME ~ tx.left, ~ y.left PROVE FALSE
      <4>1. tx \in Claims /\ y \in Claims
        BY <3>1 DEF TypeOK
      <4>2. tx.nonce = y.nonce /\ tx.of = y.of /\ tx.left = y.left
        BY <3>1, <3>2, <4>1 DEF Claims
      <4>3. tx = y
        BY <4>1, <4>2 DEF Claims
      <4> QED BY <3>1, <4>3
    <3> QED BY <2>1, <3>2
  <2>2. CASE x \in mempool
    BY <1>1, <1>11, <2>2 DEF NonceInv
  <2> QED BY <1>6, <2>1, <2>2
<1>12. ASSUME worker'.at \in {"estimate", "send"}
       PROVE  /\ worker'.nonce <= PendingNonceAt'
              /\ \A x \in (mempool \cup wire)' : x.left \/ x.nonce < worker'.nonce
  <2>1. /\ worker.nonce <= PendingNonceAt
        /\ \A x \in mempool \cup wire : x.left \/ x.nonce < worker.nonce
    BY <1>1, <1>12 DEF NonceInv
  <2>2. worker.nonce \in Nat
    BY <1>1, <1>12, WorkerType
  <2>3. worker.nonce <= PendingNonceAt'
    BY <1>0, <1>4, <2>1, <2>2
  <2>4. (mempool \cup wire)' \subseteq mempool \cup wire
    BY <1>1
  <2> QED BY <1>1, <2>1, <2>3, <2>4
<1> HIDE DEF PendingNonceAt
<1> QED BY <1>3, <1>7, <1>8, <1>9, <1>10, <1>11, <1>12 DEF NonceInv

LEMMA NonceInvStep ==
    ASSUME TypeOK, NonceInv, [Next]_vars
    PROVE  NonceInv'
<1>0. /\ IsFiniteSet(mempool) /\ PendingNonceAt \in Nat
      /\ Cardinality(mempool) \in Nat /\ nonce \in Nat
      /\ \A x \in mempool \cup wire : x.nonce \in Nat
  BY MempoolCounts, FS_CardinalityType DEF NonceInv, TypeOK, Claims
<1>1. ASSUME UNCHANGED <<nonce, mempool, wire, worker>>
      PROVE  NonceInv'
  BY <1>1 DEF NonceInv, PendingNonceAt
<1>2. ASSUME UNCHANGED <<nonce, mempool, wire>>, worker.at # "await", Unsigned'
      PROVE  NonceInv'
  BY <1>2, AllLeft DEF NonceInv, PendingNonceAt, Unsigned
<1>3. ASSUME UNCHANGED <<nonce, mempool>>, Leave, Unsigned'
      PROVE  NonceInv'
  <2>1. PendingNonceAt' = PendingNonceAt
    BY <1>3 DEF PendingNonceAt
  <2>2. \A x \in wire' : x.left /\ x.nonce <= PendingNonceAt
    BY <1>3, LeaveType DEF NonceInv
  <2> HIDE DEF PendingNonceAt
  <2> QED BY <1>3, <2>1, <2>2 DEF NonceInv, Unsigned
<1>4. ASSUME NEW code, Finish(code), UNCHANGED <<nonce, mempool>>
      PROVE  NonceInv'
  BY <1>3, <1>4 DEF Finish, NoOne, Resting, Unsigned
<1>5. CASE Mine
  <2>1. PICK tx \in mempool :
          /\ tx.nonce = nonce
          /\ nonce' = nonce + 1
          /\ mempool' = mempool \ {tx}
          /\ UNCHANGED <<worker, wire>>
    BY <1>5 DEF Mine, service
  <2>2. IsFiniteSet(mempool')
        /\ Cardinality(mempool') = Cardinality(mempool) - 1
    BY <1>0, <2>1, FS_RemoveElement
  <2>3. PendingNonceAt' = PendingNonceAt
    BY <1>0, <2>1, <2>2 DEF PendingNonceAt
  <2> HIDE DEF PendingNonceAt
  <2>4. \A x \in mempool' : nonce' <= x.nonce /\ x.nonce < PendingNonceAt
    BY <1>0, <2>1 DEF NonceInv
  <2>5. \A x, y \in mempool' : x.nonce = y.nonce => x = y
    BY <2>1 DEF NonceInv
  <2>6. mempool' \subseteq mempool
    BY <2>1
  <2> QED BY <2>1, <2>2, <2>3, <2>4, <2>5, <2>6 DEF NonceInv
<1>6. CASE ReadNonce
  <2>1. /\ worker.at = "nonce" /\ UNCHANGED <<nonce, mempool, wire>>
        /\ worker'.at = "estimate" /\ worker'.nonce = PendingNonceAt
    BY <1>6, WorkerType DEF ReadNonce, Busy, Work, chain
  <2>2. \A x \in wire : x.left
    BY <2>1, AllLeft
  <2>3. PendingNonceAt' = PendingNonceAt
    BY <2>1 DEF PendingNonceAt
  <2> HIDE DEF PendingNonceAt
  <2> QED BY <1>0, <2>1, <2>2, <2>3 DEF NonceInv
<1>7. CASE EstimateGas
  <2>1. CASE Work("send", worker.nonce) /\ UNCHANGED <<wire, reply>>
    <3>1. /\ worker.at = "estimate" /\ UNCHANGED <<nonce, mempool, wire>>
          /\ worker'.at = "send" /\ worker'.nonce = worker.nonce
      BY <1>7, <2>1, WorkerType DEF EstimateGas, Busy, Work, chain
    <3>2. PendingNonceAt' = PendingNonceAt
      BY <3>1 DEF PendingNonceAt
    <3> HIDE DEF PendingNonceAt
    <3> QED BY <3>1, <3>2 DEF NonceInv
  <2>2. CASE Finish(400)
    BY <1>4, <1>7, <2>2 DEF EstimateGas, chain
  <2> QED BY <1>7, <2>1, <2>2 DEF EstimateGas
<1>8. CASE SendTransaction
  <2> DEFINE tx == [nonce |-> worker.nonce, of |-> worker.job, left |-> FALSE]
  <2>1. /\ worker.at = "send" /\ UNCHANGED <<nonce, mempool>>
        /\ wire' = wire \cup {tx}
        /\ worker'.at = "await" /\ worker'.nonce = worker.nonce /\ worker'.job = worker.job
    BY <1>8, WorkerType DEF SendTransaction, Busy, Work, chain
  <2>2. /\ worker.nonce <= PendingNonceAt
        /\ \A x \in mempool \cup wire : x.left \/ x.nonce < worker.nonce
    BY <2>1 DEF NonceInv
  <2>3. tx.nonce = worker.nonce /\ tx.of = worker.job /\ worker.nonce \in Nat
    BY <2>1, WorkerType
  <2>4. \A x \in wire : x.left
    BY <2>1, AllLeft
  <2>5. PendingNonceAt' = PendingNonceAt
    BY <2>1 DEF PendingNonceAt
  <2> HIDE DEF PendingNonceAt, tx
  <2>6. \A x \in wire' : x.nonce <= PendingNonceAt
    BY <2>1, <2>2, <2>3 DEF NonceInv
  <2>7. \A x \in mempool, y \in wire' : x.nonce = y.nonce => x.left \/ y.left
    BY <1>0, <2>1, <2>2, <2>3, <2>4
  <2>8. \A x \in wire' : x.left \/ (worker'.at = "await" /\ x.nonce = worker'.nonce
                                                    /\ x.of = worker'.job)
    BY <2>1, <2>3, <2>4
  <2> QED BY <2>1, <2>5, <2>6, <2>7, <2>8 DEF NonceInv
<1>9. CASE Await \/ SendFails
  BY <1>4, <1>9 DEF Await, SendFails, chain
<1>10. CASE TakeJob \/ WorkerStops
  BY <1>2, <1>10 DEF TakeJob, WorkerStops, Busy, chain, NoOne, Resting, Unsigned
<1>11. CASE Exit
  BY <1>3, <1>11 DEF Exit, chain, NoOne, Resting, Unsigned
<1>12. CASE Tick \/ Announce \/ Signal
  BY <1>1, <1>12 DEF Tick, Announce, Signal, chain, service
<1>17. ASSUME NEW c \in Callers, Health(c) PROVE NonceInv'
  BY <1>1, <1>17 DEF Health, chain
<1>18. ASSUME NEW n \in Notes, ClaimOutside(n) PROVE NonceInv'
  BY <1>1, <1>18 DEF ClaimOutside, service
<1>19. ASSUME NEW tx \in wire, Refused(tx) PROVE NonceInv'
  <2>1. UNCHANGED <<nonce, mempool, worker>> /\ wire' \subseteq wire
    BY <1>19 DEF Refused, chain, service
  <2>2. PendingNonceAt' = PendingNonceAt
    BY <2>1 DEF PendingNonceAt
  <2> HIDE DEF PendingNonceAt
  <2> QED BY <2>1, <2>2 DEF NonceInv
<1>13. ASSUME NEW r \in Requests,
              HandlerStep(r)
       PROVE  NonceInv'
  BY <1>1, <1>13
     DEF HandlerStep, Arrive, TooManyRequests, NoNote, Ask, LetIn, Throttle, ReadClaimed,
         ReadAnnounced, ReadTotal, ReadFails, Enqueue, QueueFull, TakeReply,
         GiveUp, ContextEnds, Unchanged, Unlimited, chain
<1>14. CASE UNCHANGED vars
  BY <1>1, <1>14 DEF vars, chain, service
<1>15. CASE WorkerStep
  BY <1>6, <1>7, <1>8, <1>9, <1>10, <1>15 DEF WorkerStep
<1>16. CASE OtherStep
  BY <1>5, <1>10, <1>11, <1>12, <1>16, <1>17, <1>18, <1>19, ArrivesNonce DEF OtherStep
<1> QED BY <1>13, <1>14, <1>15, <1>16, NextCases

-----------------------------------------------------------------------------
(***************************************************************************)
(* The answers.  What the worker puts into a reply channel rests on a      *)
(* receipt, and a receipt that succeeded on a payment.                     *)
(***************************************************************************)

PaidInv ==
    /\ \A r \in Requests :
          /\ reply[r] \in {NoReply, 200, 400, 500}
          /\ reply[r] = 200 => [of |-> r, ok |-> TRUE] \in receipts
          /\ req[r].answer = 200 => [of |-> r, ok |-> TRUE] \in receipts
          /\ req[r].answer = 409 => NoteOf[r] \in claimed
    /\ \A x \in receipts : x.ok => NoteOf[x.of] \in claimed

LEMMA HandlerAnswers ==
    ASSUME TypeOK, PaidInv, NEW r \in Requests, NEW at, NEW read,
           NEW code, Handler(r, at, code, read),
           code = 200 => reply[r] = 200,
           code = 409 => NoteOf[r] \in claimed,
           UNCHANGED <<claimed, receipts, reply>>
    PROVE  PaidInv'
BY DEF PaidInv, Handler, TypeOK, NoReply

LEMMA HandlerPaid ==
    ASSUME TypeOK, PaidInv, NEW r \in Requests, HandlerStep(r)
    PROVE  PaidInv'
<1>1. ASSUME NEW at, NEW read, NEW code \in {0, 400, 429, 500, 503, 504},
             Handler(r, at, code, read), UNCHANGED <<claimed, receipts, reply>>
      PROVE  PaidInv'
  BY <1>1, HandlerAnswers
<1>2. CASE Arrive(r)
  BY <1>1, <1>2 DEF Arrive, Unchanged, Unlimited, chain
<1>3. CASE TooManyRequests(r)
  BY <1>1, <1>3 DEF TooManyRequests, Throttle, Unlimited, chain, Answer
<1>4. CASE NoNote(r)
  BY <1>1, <1>4 DEF NoNote, LetIn, Throttle, Unlimited, chain, Answer
<1>5. CASE Ask(r)
  BY <1>1, <1>5 DEF Ask, LetIn, Throttle, Unlimited, chain
<1>6. CASE ReadClaimed(r)
  <2>1. CASE NoteOf[r] \in claimed
    <3>1. Handler(r, "answered", 409, 0) /\ UNCHANGED <<claimed, receipts, reply>>
      BY <1>6, <2>1 DEF ReadClaimed, Answer, Unchanged, Unlimited, chain
    <3> QED BY <2>1, <3>1, HandlerAnswers
  <2>2. CASE NoteOf[r] \notin claimed
    BY <1>1, <1>6, <2>2 DEF ReadClaimed, Unchanged, Unlimited, chain
  <2> QED BY <2>1, <2>2
<1>7. CASE ReadAnnounced(r)
  BY <1>1, <1>7 DEF ReadAnnounced, Unchanged, Unlimited, chain
<1>8. CASE ReadTotal(r)
  BY <1>1, <1>8 DEF ReadTotal, BoundReached, Answer, Unchanged, Unlimited, chain
<1>9. CASE ReadFails(r) \/ QueueFull(r) \/ GiveUp(r)
  BY <1>1, <1>9 DEF ReadFails, QueueFull, GiveUp, Answer, Unchanged, Unlimited, chain
<1>10. CASE Enqueue(r)
  BY <1>1, <1>10 DEF Enqueue, chain
<1>11. CASE TakeReply(r)
  <2>1. Handler(r, "answered", reply[r], 0) /\ UNCHANGED <<claimed, receipts, reply>>
    BY <1>11 DEF TakeReply, Answer, Unchanged, Unlimited, chain
  <2>2. reply[r] # 409
    <3>1. reply[r] \in {0, 200, 400, 500}
      BY DEF PaidInv, NoReply
    <3> QED BY <3>1
  <2> QED BY <2>1, <2>2, HandlerAnswers
<1>12. CASE ContextEnds(r)
  BY <1>12 DEF ContextEnds, Unchanged, Unlimited, chain, PaidInv
<1> QED BY <1>2, <1>3, <1>4, <1>5, <1>6, <1>7, <1>8, <1>9, <1>10, <1>11, <1>12
        DEF HandlerStep

LEMMA WorkerPaid ==
    ASSUME TypeOK, PaidInv, WorkerStep
    PROVE  PaidInv'
<1>1. ASSUME UNCHANGED <<req, reply, receipts, claimed>>
      PROVE  PaidInv'
  BY <1>1 DEF PaidInv
<1>2. ASSUME NEW code \in {200, 400, 500}, Finish(code),
             worker.job \in Requests,
             code = 200 => [of |-> worker.job, ok |-> TRUE] \in receipts,
             UNCHANGED <<receipts, claimed>>
      PROVE  PaidInv'
  <2>1. UNCHANGED req /\ reply' = [reply EXCEPT ![worker.job] = code]
    BY <1>2 DEF Finish
  <2>2. reply'[worker.job] = code
    BY <1>2, <2>1 DEF TypeOK
  <2>3. \A r \in Requests : r # worker.job => reply'[r] = reply[r]
    BY <2>1 DEF TypeOK
  <2>4. ASSUME NEW r \in Requests
        PROVE  /\ reply'[r] \in {NoReply, 200, 400, 500}
               /\ reply'[r] = 200 => [of |-> r, ok |-> TRUE] \in receipts
    <3>1. CASE r = worker.job
      BY <1>2, <2>2, <3>1
    <3>2. CASE r # worker.job
      BY <2>3, <3>2 DEF PaidInv
    <3> QED BY <3>1, <3>2
  <2> QED BY <1>2, <2>1, <2>4 DEF PaidInv
<1>3. CASE TakeJob \/ ReadNonce \/ SendTransaction
  BY <1>1, <1>3 DEF TakeJob, ReadNonce, SendTransaction, Work, chain
<1>4. CASE EstimateGas
  <2>1. CASE Work("send", worker.nonce) /\ UNCHANGED <<wire, reply>>
    BY <1>1, <1>4, <2>1 DEF EstimateGas, Work, chain
  <2>2. CASE Finish(400)
    <3>1. worker.job \in Requests
      BY <1>4, WorkerType DEF EstimateGas, Busy
    <3> QED BY <1>2, <1>4, <2>2, <3>1 DEF EstimateGas, chain
  <2> QED BY <1>4, <2>1, <2>2 DEF EstimateGas
<1>6. CASE Await
  <2>1. worker.job \in Requests
    BY <1>6, WorkerType DEF Await, Busy
  <2>2. PICK x \in receipts : /\ x.of = worker.job
                              /\ Finish(IF x.ok THEN 200 ELSE 500)
    BY <1>6 DEF Await, ReceiptSuccessful
  <2>3. x.ok => x = [of |-> worker.job, ok |-> TRUE]
    BY <2>2 DEF TypeOK
  <2>4. UNCHANGED <<receipts, claimed>>
    BY <1>6 DEF Await, chain
  <2>5. CASE x.ok
    <3>1. Finish(200) /\ [of |-> worker.job, ok |-> TRUE] \in receipts
      BY <2>2, <2>3, <2>5
    <3> QED BY <1>2, <2>1, <2>4, <3>1
  <2>6. CASE ~ x.ok
    BY <1>2, <2>1, <2>2, <2>4, <2>6
  <2> QED BY <2>5, <2>6
<1>7. CASE SendFails
  <2>1. worker.job \in Requests
    BY <1>7, WorkerType DEF SendFails
  <2>2. Finish(400) \/ Finish(500)
    BY <1>7 DEF SendFails
  <2> QED BY <1>2, <1>7, <2>1, <2>2 DEF SendFails, chain
<1> QED BY <1>3, <1>4, <1>6, <1>7 DEF WorkerStep

LEMMA OtherPaid ==
    ASSUME TypeOK, PaidInv, OtherStep
    PROVE  PaidInv'
<1>1. ASSUME UNCHANGED <<req, reply, receipts>>, claimed \subseteq claimed'
      PROVE  PaidInv'
  BY <1>1 DEF PaidInv
<1>2. CASE Tick \/ Announce \/ Signal \/ WorkerStops
  BY <1>1, <1>2 DEF Tick, Announce, Signal, WorkerStops, chain, service
<1>3. ASSUME NEW c \in Callers, Health(c) PROVE PaidInv'
  BY <1>1, <1>3 DEF Health, chain
<1>4. ASSUME NEW n \in Notes, ClaimOutside(n) PROVE PaidInv'
  BY <1>1, <1>4 DEF ClaimOutside, Pay, service
<1>7. ASSUME NEW tx \in wire, Arrives(tx) \/ Refused(tx) PROVE PaidInv'
  BY <1>1, <1>7 DEF Arrives, Refused, chain, service
<1>5. CASE Mine
  <2>1. PICK tx \in mempool :
          /\ receipts' = receipts
                \cup {[of |-> tx.of, ok |-> Runs(NoteOf[tx.of])]}
          /\ IF Runs(NoteOf[tx.of]) THEN Pay(NoteOf[tx.of])
             ELSE UNCHANGED <<claimed, totalClaimed>>
          /\ UNCHANGED service
    BY <1>5 DEF Mine
  <2>2. claimed \subseteq claimed'
        /\ (Runs(NoteOf[tx.of]) => NoteOf[tx.of] \in claimed')
    BY <2>1 DEF Pay
  <2>3. UNCHANGED <<req, reply>>
    BY <2>1 DEF service
  <2> DEFINE new == [of |-> tx.of, ok |-> Runs(NoteOf[tx.of])]
  <2>4. new.ok => NoteOf[new.of] \in claimed'
    BY <2>2
  <2>5. receipts' = receipts \cup {new}
    BY <2>1
  <2> HIDE DEF new
  <2> QED BY <2>2, <2>3, <2>4, <2>5 DEF PaidInv
<1>6. CASE Exit
  <2>1. UNCHANGED <<receipts, claimed>>
    BY <1>6 DEF Exit, chain
  <2>2. ASSUME NEW r \in Requests
        PROVE  /\ reply'[r] = NoReply
               /\ req'[r].answer \in {req[r].answer, 0}
    BY <1>6 DEF Exit
  <2> QED BY <2>1, <2>2 DEF PaidInv, NoReply
<1> QED BY <1>2, <1>3, <1>4, <1>5, <1>6, <1>7 DEF OtherStep

LEMMA PaidInvStep ==
    ASSUME TypeOK, PaidInv, [Next]_vars
    PROVE  PaidInv'
<1>1. CASE UNCHANGED vars
  BY <1>1 DEF vars, chain, service, PaidInv
<1> QED BY <1>1, HandlerPaid, WorkerPaid, OtherPaid, NextCases

-----------------------------------------------------------------------------
(***************************************************************************)
(* The limiter.  What a bucket holds less the time of its last use never   *)
(* grows but by a reset, and every grant takes a token of it, so a stretch *)
(* of time in which the bucket is never forgotten lets in a burst and what *)
(* the stretch refills.  A bucket is forgotten after a pause so long that  *)
(* it would have been full at the time that the next request carries,      *)
(* however late that request reached the lock.  A restart fills every      *)
(* bucket, as a pause of Capacity would: a grant is due at its time and    *)
(* such a pause for each restart before it, and over these due times the   *)
(* bound is the one of a service that never restarts.                      *)
(***************************************************************************)

Shift(n) == n * Capacity
Due(g) == g.at + Shift(g.run)
In(c, from, to) ==
    {g \in granted : CallerOf[g.of] = c /\ from <= Due(g) /\ Due(g) <= to}
Taken(S) == Cardinality(S) * PerToken

Forgotten(c) ==
    /\ buckets[c] = NoBucket
    /\ \A g \in granted :
          CallerOf[g.of] = c =>
              g.run < restarts \/ g.at + Capacity + Lag <= clock

Remembered(c) ==
    /\ buckets[c].seen \in Nat
    /\ \A g \in granted :
          CallerOf[g.of] = c => g.run < restarts \/ g.at <= buckets[c].seen + Lag
    /\ \A from, to \in Nat :
          In(c, from, to) # {} =>
              Taken(In(c, from, to))
                  <= Capacity - from - buckets[c].tokens + buckets[c].seen
                        + Shift(restarts)

DueBounded ==
    \A from, to \in Nat, c \in Callers :
        from <= to => Taken(In(c, from, to)) <= Capacity + to - from

(* What a request that carries t needs to know of the restarts. *)
SinceRestart(t) == \A g \in granted : g.run < restarts => g.at <= t

LimiterInv ==
    /\ IsFiniteSet(granted)
    /\ \A g \in granted : g.at <= clock /\ g.run <= restarts
    /\ \A r \in Requests :
          req[r].at = "arrived" => /\ req[r].read <= clock
                                   /\ clock <= req[r].read + Lag
                                   /\ SinceRestart(req[r].read)
    /\ \A c \in Callers : Forgotten(c) \/ Remembered(c)
    /\ DueBounded

LEMMA Shifts ==
    ASSUME NEW m \in Nat, NEW n \in Nat
    PROVE  /\ Capacity \in Nat
           /\ Shift(m) \in Nat
           /\ Shift(m + 1) = Shift(m) + Capacity
           /\ m <= n => Shift(m) <= Shift(n)
           /\ m < n => Shift(m) + Capacity <= Shift(n)
           /\ Capacity * (1 + n - m) = Capacity + Shift(n) - Shift(m)
<1> DEFINE C == Capacity
<1>1. C \in Nat
  BY LimiterAssumption DEF Capacity
<1> HIDE DEF C
<1>2. m * C \in Nat /\ (m + 1) * C = m * C + C
  BY <1>1
<1>3. m <= n => m * C <= n * C
  BY <1>1
<1>4. m < n => m * C + C <= n * C
  <2>1. SUFFICES ASSUME m < n PROVE m * C + C <= n * C
    OBVIOUS
  <2>2. PICK k \in Nat : n = m + 1 + k
    <3>1. n - m - 1 \in Nat /\ n = m + 1 + (n - m - 1)
      BY <2>1
    <3> QED BY <3>1
  <2>3. n * C = m * C + C + k * C /\ k * C \in Nat
    BY <1>1, <2>2
  <2> QED BY <1>1, <1>2, <2>3
<1>5. C * (1 + n - m) = C + n * C - m * C
  BY <1>1
<1> QED BY <1>1, <1>2, <1>3, <1>4, <1>5 DEF Shift, C

(* A grant is due at a time. *)
LEMMA DueType ==
    ASSUME TypeOK, NEW g \in granted
    PROVE  g.at \in Nat /\ g.run \in Nat /\ Due(g) \in Nat /\ Shift(g.run) \in Nat
<1>1. g.at \in Nat /\ g.run \in Nat
  BY DEF TypeOK
<1>2. Shift(g.run) \in Nat
  BY <1>1, Shifts
<1> QED BY <1>1, <1>2 DEF Due

LEMMA TakenEmpty == Taken({}) = 0
<1>1. Cardinality({}) = 0
  BY FS_EmptySet
<1> QED BY <1>1, LimiterAssumption DEF Taken

LEMMA TakenAdd ==
    ASSUME NEW S, NEW x, IsFiniteSet(S)
    PROVE  /\ Taken(S) \in Nat
           /\ Taken(S \cup {x}) \in Nat
           /\ Taken(S \cup {x}) <= Taken(S) + PerToken
<1>1. Cardinality(S) \in Nat
  BY FS_CardinalityType
<1>2. Cardinality(S \cup {x}) \in {Cardinality(S), Cardinality(S) + 1}
  BY FS_AddElement
<1>3. PerToken \in Nat
  BY LimiterAssumption
<1>4. /\ Cardinality(S) * PerToken \in Nat
      /\ (Cardinality(S) + 1) * PerToken = Cardinality(S) * PerToken + PerToken
  BY <1>1, <1>3
<1> QED BY <1>2, <1>3, <1>4 DEF Taken

LEMMA InFinite ==
    ASSUME IsFiniteSet(granted), NEW c, NEW from, NEW to
    PROVE  IsFiniteSet(In(c, from, to))
<1>1. In(c, from, to) \subseteq granted
  BY DEF In
<1> QED BY <1>1, FS_Subset

(* A bucket that is not there would have been full. *)
LEMMA ForgottenIsFull ==
    ASSUME TypeOK, LimiterInv, IdleDrop >= Capacity + 2 * Lag,
           NEW t \in Nat, t <= clock, clock <= t + Lag,
           NEW c \in Callers, Kept(buckets, t)[c] = NoBucket,
           NEW g \in granted, CallerOf[g.of] = c
    PROVE  \/ g.run < restarts
           \/ g.at + Capacity + Lag <= clock /\ g.at + Capacity <= t
<1>1. /\ g.at \in Nat /\ clock \in Nat /\ t \in Nat /\ Lag \in Nat
      /\ Capacity \in Nat /\ IdleDrop \in Nat
      /\ buckets \in [Callers -> [tokens : Int, seen : Int]]
  BY RelayerAssumption, LimiterAssumption DEF TypeOK, Capacity
<1>2. CASE buckets[c] = NoBucket
  <2>1. ~ Remembered(c)
    BY <1>2 DEF Remembered, NoBucket
  <2> QED BY <1>1, <2>1 DEF LimiterInv, Forgotten
<1>3. CASE buckets[c] # NoBucket
  <2>1. t - buckets[c].seen > IdleDrop
    BY <1>3 DEF Kept, IsIdle
  <2>2. g.run < restarts \/ g.at <= buckets[c].seen + Lag
    BY <1>3 DEF LimiterInv, Forgotten, Remembered
  <2> QED BY <1>1, <2>1, <2>2
<1> QED BY <1>2, <1>3

(* And so every grant of its caller is due a full refill before.            *)
LEMMA ForgottenIsDue ==
    ASSUME TypeOK, LimiterInv, IdleDrop >= Capacity + 2 * Lag,
           NEW t \in Nat, t <= clock, clock <= t + Lag, SinceRestart(t),
           NEW c \in Callers, Kept(buckets, t)[c] = NoBucket,
           NEW g \in granted, CallerOf[g.of] = c
    PROVE  Due(g) + Capacity <= t + Shift(restarts)
<1>1. /\ g.at \in Nat /\ g.run \in Nat /\ restarts \in Nat
      /\ g.run <= restarts
  BY RelayerAssumption DEF TypeOK, LimiterInv
<1>2. /\ Shift(g.run) \in Nat /\ Shift(restarts) \in Nat /\ Capacity \in Nat
      /\ Shift(g.run) <= Shift(restarts)
      /\ g.run < restarts => Shift(g.run) + Capacity <= Shift(restarts)
  BY <1>1, Shifts
<1>3. CASE g.run < restarts
  <2>1. g.at <= t
    BY <1>3 DEF SinceRestart
  <2> QED BY <1>1, <1>2, <1>3, <2>1 DEF Due
<1>4. CASE ~ (g.run < restarts)
  <2>1. g.at + Capacity <= t
    BY <1>4, ForgottenIsFull
  <2> QED BY <1>1, <1>2, <2>1 DEF Due
<1> QED BY <1>3, <1>4

(* Before a request takes its token the bound has room for it. *)
LEMMA RoomForOne ==
    ASSUME TypeOK, LimiterInv, IdleDrop >= Capacity + 2 * Lag,
           NEW t \in Nat, t <= clock, clock <= t + Lag, SinceRestart(t),
           NEW c \in Callers, NEW from \in Nat, NEW to \in Nat,
           In(c, from, to) # {}
    PROVE  Taken(In(c, from, to))
               <= Capacity - from - Refilled(buckets, c, t) + t + Shift(restarts)
<1> DEFINE R == Refilled(buckets, c, t)
           S == In(c, from, to)
           Off == Shift(restarts)
<1>1. /\ Capacity \in Nat /\ Off \in Nat
      /\ buckets \in [Callers -> [tokens : Int, seen : Int]]
      /\ \A g \in granted : Due(g) \in Nat
  <2>1. restarts \in Nat
    BY RelayerAssumption DEF TypeOK
  <2> QED BY <2>1, Shifts, DueType DEF TypeOK
<1>2. PICK g \in granted : /\ CallerOf[g.of] = c
                           /\ from <= Due(g) /\ Due(g) <= to
  BY DEF In
<1>3. Taken(S) \in Nat
  BY InFinite, TakenAdd DEF LimiterInv
<1> HIDE DEF S
<1>4. CASE Kept(buckets, t)[c] = NoBucket
  <2>1. R = Capacity
    BY <1>1, <1>4 DEF Refilled, Full, Least
  <2>2. \A x \in granted : CallerOf[x.of] = c => Due(x) + Capacity <= t + Off
    BY <1>4, ForgottenIsDue
  <2> HIDE DEF R, Off
  <2> DEFINE last == IF to <= t + Off - Capacity THEN to ELSE t + Off - Capacity
  <2>3. last \in Nat /\ from <= last /\ last <= t + Off - Capacity
    BY <1>1, <1>2, <2>2
  <2>4. In(c, from, last) = S
    BY <1>1, <2>2 DEF In, S
  <2> HIDE DEF last
  <2>5. Taken(S) <= Capacity + last - from
    BY <2>3, <2>4 DEF LimiterInv, DueBounded
  <2>6. Taken(S) <= Capacity - from - R + t + Off
    BY <1>1, <1>3, <2>1, <2>3, <2>5
  <2> QED BY <2>6 DEF S, R, Off
<1>5. CASE Kept(buckets, t)[c] # NoBucket
  <2>1. Kept(buckets, t)[c] = buckets[c] /\ buckets[c] # NoBucket
    BY <1>5 DEF Kept
  <2>2. R <= buckets[c].tokens + t - buckets[c].seen /\ R \in Int
    BY <1>1, <2>1 DEF Refilled, Least
  <2>3. Taken(S) <= Capacity - from - buckets[c].tokens + buckets[c].seen + Off
    BY <2>1 DEF LimiterInv, Forgotten, Remembered, S
  <2>4. buckets[c].tokens \in Int /\ buckets[c].seen \in Int
    BY <1>1
  <2> HIDE DEF R, Off
  <2>5. Taken(S) <= Capacity - from - R + t + Off
    BY <1>1, <1>3, <2>2, <2>3, <2>4
  <2> QED BY <2>5 DEF S, R, Off
<1> QED BY <1>4, <1>5

(* A caller that nobody asked for keeps its bucket, or loses it when it     *)
(* would be full.                                                           *)
LEMMA OthersBucket ==
    ASSUME TypeOK, LimiterInv, IdleDrop >= Capacity + 2 * Lag,
           NEW t \in Nat, t <= clock, clock <= t + Lag,
           NEW c \in Callers, NEW d \in Callers, d # c,
           buckets' = After(buckets, c, t), UNCHANGED <<clock, restarts>>,
           \A g \in granted' : CallerOf[g.of] = d => g \in granted,
           granted \subseteq granted'
    PROVE  Forgotten(d)' \/ Remembered(d)'
<1>1. buckets'[d] = Kept(buckets, t)[d]
  BY DEF After, Kept
<1>2. \A from, to : In(d, from, to)' = In(d, from, to)
  BY DEF In
<1>3. CASE Kept(buckets, t)[d] = NoBucket
  <2>1. \A g \in granted :
           CallerOf[g.of] = d => g.run < restarts \/ g.at + Capacity + Lag <= clock
    BY <1>3, ForgottenIsFull
  <2> QED BY <1>1, <1>3, <2>1 DEF Forgotten
<1>4. CASE Kept(buckets, t)[d] # NoBucket
  <2>1. Kept(buckets, t)[d] = buckets[d] /\ buckets[d] # NoBucket
    BY <1>4 DEF Kept
  <2>2. Remembered(d)
    BY <2>1 DEF LimiterInv, Forgotten
  <2> QED BY <1>1, <1>2, <2>1, <2>2 DEF Remembered
<1> QED BY <1>3, <1>4

(* A request of c with time t takes a token if there is one. *)
LEMMA LimiterStep ==
    ASSUME TypeOK, LimiterInv, IdleDrop >= Capacity + 2 * Lag,
           NEW t \in Nat, t <= clock, clock <= t + Lag, SinceRestart(t),
           NEW c \in Callers, NEW r,
           buckets' = After(buckets, c, t), UNCHANGED <<clock, restarts>>,
           \/ granted' = granted
           \/ /\ CallerOf[r] = c /\ Allows(buckets, c, t)
              /\ granted' = granted \cup {[of |-> r, at |-> t, run |-> restarts]}
    PROVE  /\ IsFiniteSet(granted')
           /\ \A g \in granted' : g.at <= clock' /\ g.run <= restarts'
           /\ \A d \in Callers : Forgotten(d)' \/ Remembered(d)'
           /\ DueBounded'
<1> DEFINE new == [of |-> r, at |-> t, run |-> restarts]
           R == Refilled(buckets, c, t)
           Off == Shift(restarts)
           T == t + Off
<1>1. /\ t \in Nat /\ Capacity \in Nat /\ PerToken \in Nat /\ Lag \in Nat
      /\ clock \in Nat /\ restarts \in Nat /\ Off \in Nat
      /\ buckets \in [Callers -> [tokens : Int, seen : Int]]
      /\ \A g \in granted : g.at \in Nat
  <2>1. restarts \in Nat /\ clock \in Nat /\ Lag \in Nat /\ PerToken \in Nat
    BY RelayerAssumption, LimiterAssumption DEF TypeOK
  <2> QED BY <2>1, Shifts DEF TypeOK
<1>2. R \in Int /\ R <= Capacity
  <2>1. Kept(buckets, t) \in [Callers -> [tokens : Int, seen : Int]]
        /\ Full(t) \in [tokens : Int, seen : Int]
    BY <1>1 DEF Kept, NoBucket, Full
  <2> QED BY <1>1, <2>1 DEF Refilled, Least
<1>3. IsFiniteSet(granted') /\ \A g \in granted' : g.at <= clock' /\ g.run <= restarts'
  <2>1. IsFiniteSet(granted) /\ \A g \in granted : g.at <= clock /\ g.run <= restarts
    BY DEF LimiterInv
  <2>2. IsFiniteSet(granted \cup {new})
    BY <2>1, FS_AddElement
  <2>3. new.at <= clock /\ new.run <= restarts
    BY <1>1
  <2>4. granted' = granted \/ granted' = granted \cup {new}
    OBVIOUS
  <2> HIDE DEF new
  <2> QED BY <2>1, <2>2, <2>3, <2>4
<1>4. ASSUME NEW d \in Callers, d # c
      PROVE  /\ Forgotten(d)' \/ Remembered(d)'
             /\ \A from, to : In(d, from, to)' = In(d, from, to)
  <2>1. \A g \in granted' : CallerOf[g.of] = d => g \in granted
    BY <1>4
  <2>2. granted \subseteq granted'
    OBVIOUS
  <2>3. \A from, to : In(d, from, to)' = In(d, from, to)
    BY <2>1, <2>2 DEF In
  <2> QED BY <1>4, <2>1, <2>2, <2>3, OthersBucket
<1>5. buckets'[c] = [tokens |-> IF R >= PerToken THEN R - PerToken ELSE R,
                     seen |-> t]
  BY DEF After, Kept
<1>9. Due(new) = T /\ CallerOf[new.of] = CallerOf[r]
  BY DEF Due
<1>11. /\ granted' = granted
          \/ (CallerOf[new.of] = c /\ R >= PerToken /\ granted' = granted \cup {new})
       /\ T \in Nat /\ T = t + Off
  BY <1>1, <1>9 DEF Allows
<1>12. \A from, to \in Nat :
          In(c, from, to) # {} => Taken(In(c, from, to)) <= Capacity - from - R + T
  <2>1. ASSUME NEW from \in Nat, NEW to \in Nat, In(c, from, to) # {}
        PROVE  Taken(In(c, from, to)) <= Capacity - from - R + T
    <3>1. Taken(In(c, from, to)) <= Capacity - from - R + t + Off
      BY <2>1, RoomForOne
    <3>2. Taken(In(c, from, to)) \in Nat
      BY InFinite, TakenAdd DEF LimiterInv
    <3> HIDE DEF R, Off
    <3> QED BY <1>1, <1>2, <3>1, <3>2
  <2> QED BY <2>1
<1> HIDE DEF new, R, Off, T
<1>6. ASSUME NEW from \in Nat, NEW to \in Nat, In(c, from, to)' # {}
      PROVE  /\ Taken(In(c, from, to)')
                    <= Capacity - from - buckets'[c].tokens + T
             /\ from <= to => Taken(In(c, from, to)') <= Capacity + to - from
  <2>1. IsFiniteSet(In(c, from, to)) /\ Taken(In(c, from, to)) \in Nat
        /\ from \in Nat /\ to \in Nat
    <3>1. IsFiniteSet(In(c, from, to))
      BY InFinite DEF LimiterInv
    <3>2. Taken(In(c, from, to)) \in Nat
      BY <3>1, TakenAdd
    <3> QED BY <3>1, <3>2
  <2>2. CASE In(c, from, to)' = In(c, from, to)
    <3>1. Taken(In(c, from, to)) <= Capacity - from - R + T
      BY <1>6, <1>12, <2>2
    <3>2. buckets'[c].tokens <= R /\ buckets'[c].tokens \in Int
      BY <1>1, <1>2, <1>5
    <3>3. from <= to => Taken(In(c, from, to)) <= Capacity + to - from
      BY DEF LimiterInv, DueBounded
    <3> QED BY <1>1, <1>2, <1>11, <2>1, <2>2, <3>1, <3>2, <3>3
  <2>3. CASE In(c, from, to)' # In(c, from, to)
    <3>1. /\ granted' = granted \cup {new} /\ R >= PerToken
          /\ from <= T /\ T <= to
          /\ In(c, from, to)' = In(c, from, to) \cup {new}
      BY <1>9, <1>11, <2>3 DEF In
    <3>2. Taken(In(c, from, to)') <= Capacity - from - (R - PerToken) + T
          /\ Taken(In(c, from, to)') \in Nat
      <4>1. Taken(In(c, from, to)') <= Taken(In(c, from, to)) + PerToken
            /\ Taken(In(c, from, to)') \in Nat
        BY <2>1, <3>1, TakenAdd
      <4>2. CASE In(c, from, to) = {}
        BY <1>1, <1>2, <1>11, <2>1, <3>1, <4>1, <4>2, TakenEmpty
      <4>3. CASE In(c, from, to) # {}
        <5>1. Taken(In(c, from, to)) <= Capacity - from - R + T
          BY <1>12, <4>3
        <5> QED BY <1>1, <1>2, <1>11, <2>1, <4>1, <5>1
      <4> QED BY <4>2, <4>3
    <3>3. buckets'[c].tokens = R - PerToken
      BY <1>5, <3>1
    <3> QED BY <1>1, <1>2, <1>11, <2>1, <3>1, <3>2, <3>3
  <2> QED BY <2>2, <2>3
<1>7. Remembered(c)'
  <2>1. buckets'[c].seen = t
    BY <1>5
  <2>2. \A g \in granted' : g.run < restarts' \/ g.at <= t + Lag
    <3>1. \A g \in granted' : g.at \in Nat
      BY <1>1, <1>11 DEF new
    <3> QED BY <1>1, <1>3, <3>1
  <2>3. buckets'[c].tokens \in Int
    BY <1>1, <1>2, <1>5
  <2>4. ASSUME NEW from \in Nat, NEW to \in Nat, In(c, from, to)' # {}
        PROVE  Taken(In(c, from, to)')
                   <= Capacity - from - buckets'[c].tokens + buckets'[c].seen + Off
    <3>1. Taken(In(c, from, to)') <= Capacity - from - buckets'[c].tokens + T
      BY <1>6, <2>4
    <3> QED BY <1>1, <1>11, <2>1, <2>3, <3>1
  <2>5. Shift(restarts)' = Off
    BY DEF Off
  <2> QED BY <1>1, <2>1, <2>2, <2>4, <2>5 DEF Remembered, Taken
<1>8. DueBounded'
  <2>1. ASSUME NEW from \in Nat, NEW to \in Nat, NEW d \in Callers, from <= to
        PROVE  Taken(In(d, from, to)') <= Capacity + to - from
    <3>1. CASE d = c
      <4>1. CASE In(c, from, to)' = {}
        BY <1>1, <2>1, <3>1, <4>1, TakenEmpty
      <4>2. CASE In(c, from, to)' # {}
        BY <1>6, <2>1, <3>1, <4>2
      <4> QED BY <4>1, <4>2
    <3>2. CASE d # c
      BY <1>4, <2>1, <3>2 DEF LimiterInv, DueBounded
    <3> QED BY <3>1, <3>2
  <2> QED BY <2>1 DEF DueBounded, Taken
<1> QED BY <1>3, <1>4, <1>7, <1>8

LEMMA LimiterInvStep ==
    ASSUME TypeOK, LimiterInv, IdleDrop >= Capacity + 2 * Lag, [Next]_vars
    PROVE  LimiterInv'
<1> DEFINE Reads == \A r \in Requests :
                        req[r].at = "arrived" => /\ req[r].read <= clock
                                                 /\ clock <= req[r].read + Lag
                                                 /\ SinceRestart(req[r].read)
<1>0. /\ clock \in Nat /\ Lag \in Nat /\ MaxClock \in Nat
      /\ \A r \in Requests : req[r].read \in Nat
  BY RelayerAssumption DEF TypeOK
<1>1. ASSUME UNCHANGED <<clock, buckets, restarts, granted>>, Reads'
      PROVE  LimiterInv'
  <2>1. \A c, from, to : In(c, from, to)' = In(c, from, to)
    BY <1>1 DEF In
  <2>2. \A c \in Callers : Forgotten(c)' \/ Remembered(c)'
    BY <1>1, <2>1 DEF LimiterInv, Forgotten, Remembered
  <2>3. DueBounded'
    BY <1>1, <2>1 DEF LimiterInv, DueBounded, Taken
  <2> QED BY <1>1, <2>2, <2>3 DEF LimiterInv
<1>2. ASSUME NEW r \in Requests, NEW at, at # "arrived", NEW code, NEW read,
             Handler(r, at, code, read), UNCHANGED <<clock, restarts>>,
             \A g \in granted' : g \in granted \/ g.run = restarts
      PROVE  Reads'
  <2>1. \A x \in Requests : req'[x].at = "arrived" => req'[x] = req[x]
    BY <1>2 DEF Handler, TypeOK
  <2>2. ASSUME NEW t, SinceRestart(t) PROVE SinceRestart(t)'
    <3>1. restarts \in Nat
      BY RelayerAssumption DEF TypeOK
    <3> QED BY <1>2, <2>2, <3>1 DEF SinceRestart
  <2>3. ASSUME NEW x \in Requests, req'[x].at = "arrived"
        PROVE  /\ req'[x].read <= clock' /\ clock' <= req'[x].read + Lag
               /\ SinceRestart(req[x].read)'
               /\ req'[x].read = req[x].read
    BY <1>2, <2>1, <2>2, <2>3 DEF LimiterInv
  <2> QED BY <2>3 DEF SinceRestart
<1>3. ASSUME NEW r \in Requests, NEW at, at # "arrived", NEW code, NEW read,
             Handler(r, at, code, read), UNCHANGED limiter
      PROVE  LimiterInv'
  <2>1. UNCHANGED <<clock, buckets, restarts, granted>>
    BY <1>3 DEF limiter
  <2> QED BY <1>1, <1>2, <1>3, <2>1
<1>4. ASSUME UNCHANGED <<req, limiter>>
      PROVE  LimiterInv'
  <2>1. UNCHANGED <<clock, buckets, restarts, granted>> /\ req' = req
    BY <1>4 DEF limiter
  <2>2. Reads'
    BY <2>1 DEF LimiterInv, SinceRestart
  <2> QED BY <1>1, <2>1, <2>2
<1>5. ASSUME NEW r \in Requests, req[r].at = "arrived", Throttle(r),
             \/ granted' = granted
             \/ /\ Allows(buckets, CallerOf[r], req[r].read)
                /\ granted' = granted
                      \cup {[of |-> r, at |-> req[r].read, run |-> restarts]},
             Reads'
      PROVE  LimiterInv'
  <2>1. /\ req[r].read \in Nat /\ req[r].read <= clock
        /\ clock <= req[r].read + Lag /\ SinceRestart(req[r].read)
    BY <1>0, <1>5 DEF LimiterInv
  <2>2. CallerOf[r] \in Callers
    BY RelayerAssumption
  <2>3. /\ buckets' = After(buckets, CallerOf[r], req[r].read)
        /\ UNCHANGED <<clock, restarts>>
    BY <1>5 DEF Throttle
  <2>4. /\ IsFiniteSet(granted')
        /\ \A g \in granted' : g.at <= clock' /\ g.run <= restarts'
        /\ \A d \in Callers : Forgotten(d)' \/ Remembered(d)'
        /\ DueBounded'
    BY <1>5, <2>1, <2>2, <2>3, LimiterStep
  <2> QED BY <1>5, <2>4 DEF LimiterInv
<1>6. ASSUME NEW r \in Requests, HandlerStep(r) PROVE LimiterInv'
  <2>1. CASE Arrive(r)
    <3>1. Handler(r, "arrived", 0, clock) /\ UNCHANGED limiter
      BY <2>1 DEF Arrive, Unchanged
    <3>2. UNCHANGED <<clock, buckets, restarts, granted>>
      BY <3>1 DEF limiter
    <3>3. /\ req'[r].read = clock
          /\ \A x \in Requests : x # r => req'[x] = req[x]
      BY <3>1 DEF Handler, TypeOK
    <3>4. SinceRestart(clock)'
      BY <3>2 DEF LimiterInv, SinceRestart
    <3>5. \A t : SinceRestart(t) => SinceRestart(t)'
      BY <3>2 DEF SinceRestart
    <3>6. Reads'
      <4>1. ASSUME NEW x \in Requests, req'[x].at = "arrived"
            PROVE  /\ req'[x].read <= clock' /\ clock' <= req'[x].read + Lag
                   /\ \A g \in granted' : g.run < restarts' => g.at <= req'[x].read
        <5>1. CASE x = r
          BY <1>0, <3>2, <3>3, <3>4, <5>1 DEF SinceRestart
        <5>2. CASE x # r
          BY <3>2, <3>3, <4>1, <5>2 DEF LimiterInv, SinceRestart
        <5> QED BY <5>1, <5>2
      <4> QED BY <4>1 DEF SinceRestart
    <3> QED BY <1>1, <3>2, <3>6
  <2>2. CASE TooManyRequests(r)
    <3>1. Throttle(r) /\ Answer(r, 429) /\ UNCHANGED granted
      BY <2>2 DEF TooManyRequests
    <3>3. UNCHANGED <<clock, restarts>> /\ req[r].at = "arrived"
      BY <3>1 DEF Throttle
    <3>2. Reads' /\ req[r].at = "arrived"
      BY <1>2, <3>1, <3>3 DEF Answer
    <3> QED BY <1>5, <3>1, <3>2
  <2>3. ASSUME LetIn(r), NEW at, at # "arrived", NEW code, NEW read,
               Handler(r, at, code, read)
        PROVE  LimiterInv'
    <3>2. /\ Allows(buckets, CallerOf[r], req[r].read)
          /\ granted' = granted
                \cup {[of |-> r, at |-> req[r].read, run |-> restarts]}
          /\ UNCHANGED <<clock, restarts>> /\ req[r].at = "arrived" /\ Throttle(r)
      BY <2>3 DEF LetIn, Throttle
    <3>3. \A g \in granted' : g \in granted \/ g.run = restarts
      BY <3>2
    <3>1. Reads'
      BY <1>2, <2>3, <3>2, <3>3
    <3> QED BY <1>5, <3>1, <3>2
  <2>4. CASE NoNote(r)
    BY <2>3, <2>4 DEF NoNote, Answer
  <2>5. CASE Ask(r)
    BY <2>3, <2>5 DEF Ask
  <2>6. CASE ReadClaimed(r)
    BY <1>3, <2>6 DEF ReadClaimed, Answer, Unchanged
  <2>7. CASE ReadAnnounced(r)
    BY <1>3, <2>7 DEF ReadAnnounced, Unchanged
  <2>8. CASE ReadTotal(r)
    BY <1>3, <2>8 DEF ReadTotal, Answer, Unchanged
  <2>9. CASE ReadFails(r) \/ QueueFull(r) \/ GiveUp(r)
    BY <1>3, <2>9 DEF ReadFails, QueueFull, GiveUp, Answer, Unchanged
  <2>10. CASE Enqueue(r)
    BY <1>3, <2>10 DEF Enqueue
  <2>11. CASE TakeReply(r)
    BY <1>3, <2>11 DEF TakeReply, Answer, Unchanged
  <2>12. CASE ContextEnds(r)
    BY <1>4, <2>12 DEF ContextEnds, Unchanged
  <2> QED BY <1>6, <2>1, <2>2, <2>4, <2>5, <2>6, <2>7, <2>8, <2>9, <2>10,
             <2>11, <2>12 DEF HandlerStep
<1>7. CASE WorkerStep
  <2>1. ASSUME NEW code, Finish(code) PROVE UNCHANGED <<req, limiter>>
    BY <2>1 DEF Finish
  <2>2. UNCHANGED <<req, limiter>>
    BY <1>7, <2>1 DEF WorkerStep, TakeJob, ReadNonce, EstimateGas,
          SendTransaction, Await, SendFails, Work
  <2> QED BY <1>4, <2>2
<1>8. ASSUME NEW c \in Callers, Health(c) PROVE LimiterInv'
  <2>1. /\ buckets' = After(buckets, c, clock)
        /\ UNCHANGED <<req, clock, restarts, granted>>
    BY <1>8 DEF Health
  <2>2. clock <= clock /\ clock <= clock + Lag /\ SinceRestart(clock)
    BY <1>0 DEF LimiterInv, SinceRestart
  <2>3. /\ IsFiniteSet(granted')
        /\ \A g \in granted' : g.at <= clock' /\ g.run <= restarts'
        /\ \A d \in Callers : Forgotten(d)' \/ Remembered(d)'
        /\ DueBounded'
    BY <1>0, <2>1, <2>2, LimiterStep
  <2>4. Reads'
    BY <2>1 DEF LimiterInv, SinceRestart
  <2> QED BY <2>3, <2>4 DEF LimiterInv
<1>9. CASE Tick
  <2>1. clock' = clock + 1 /\ UNCHANGED <<req, buckets, restarts, granted>>
        /\ \A r \in Requests : req[r].at = "arrived" => clock < req[r].read + Lag
    BY <1>9 DEF Tick
  <2>2. \A c, from, to : In(c, from, to)' = In(c, from, to)
    BY <2>1 DEF In
  <2>3. \A g \in granted : g.at \in Nat /\ Capacity \in Int
    BY LimiterAssumption DEF TypeOK, Capacity
  <2>4. \A c \in Callers : Forgotten(c)' \/ Remembered(c)'
    <3>1. ASSUME NEW c \in Callers, Forgotten(c) PROVE Forgotten(c)'
      BY <1>0, <2>1, <2>3, <3>1 DEF Forgotten
    <3>2. ASSUME NEW c \in Callers, Remembered(c) PROVE Remembered(c)'
      BY <2>1, <2>2, <3>2 DEF Remembered
    <3> QED BY <3>1, <3>2 DEF LimiterInv
  <2>5. DueBounded'
    BY <2>1, <2>2 DEF LimiterInv, DueBounded, Taken
  <2>6. Reads'
    BY <1>0, <2>1 DEF LimiterInv, SinceRestart
  <2>7. \A g \in granted' : g.at <= clock' /\ g.run <= restarts'
    BY <1>0, <2>1, <2>3 DEF LimiterInv
  <2> QED BY <2>1, <2>4, <2>5, <2>6, <2>7 DEF LimiterInv
<1>10. CASE Exit
  <2>1. /\ UNCHANGED <<clock, granted>> /\ restarts' = restarts + 1
        /\ buckets' = [c \in Callers |-> NoBucket]
        /\ \A r \in Requests : req'[r].at # "arrived"
    BY <1>10 DEF Exit
  <2>2. \A g \in granted' : g.at <= clock' /\ g.run <= restarts' /\ g.run < restarts'
    <3>1. restarts \in Nat /\ \A g \in granted : g.run \in Nat
      BY RelayerAssumption DEF TypeOK
    <3> QED BY <2>1, <3>1 DEF LimiterInv
  <2>3. \A c \in Callers : Forgotten(c)'
    BY <2>1, <2>2 DEF Forgotten
  <2>4. \A c, from, to : In(c, from, to)' = In(c, from, to)
    BY <2>1 DEF In
  <2>5. DueBounded'
    BY <2>4 DEF LimiterInv, DueBounded, Taken
  <2> QED BY <2>1, <2>2, <2>3, <2>5 DEF LimiterInv
<1>11. ASSUME NEW n \in Notes, ClaimOutside(n) PROVE LimiterInv'
  BY <1>4, <1>11 DEF ClaimOutside, service
<1>13. ASSUME NEW tx \in wire, Arrives(tx) \/ Refused(tx) PROVE LimiterInv'
  BY <1>4, <1>13 DEF Arrives, Refused, service
<1>12. CASE Announce \/ Mine \/ Signal \/ WorkerStops \/ UNCHANGED vars
  BY <1>4, <1>12 DEF Announce, Mine, Signal, WorkerStops, vars, service
<1> QED BY <1>6, <1>7, <1>8, <1>9, <1>10, <1>11, <1>12, <1>13, NextCases
        DEF OtherStep

(* The bound over the due times is the one over times and restarts.         *)
LEMMA DueIsRate ==
    ASSUME TypeOK, LimiterInv
    PROVE  RateBounded
<1> SUFFICES ASSUME NEW from \in 0 .. MaxClock, NEW to \in 0 .. MaxClock,
                    NEW first \in 0 .. MaxRestarts, NEW last \in 0 .. MaxRestarts,
                    NEW c \in Callers, from <= to, first <= last
             PROVE  Cardinality({g \in granted :
                                    /\ CallerOf[g.of] = c
                                    /\ from <= g.at /\ g.at <= to
                                    /\ first <= g.run /\ g.run <= last}) * PerToken
                        <= Capacity * (1 + last - first) + to - from
  BY DEF RateBounded
<1> DEFINE S == {g \in granted : /\ CallerOf[g.of] = c
                                 /\ from <= g.at /\ g.at <= to
                                 /\ first <= g.run /\ g.run <= last}
           low == from + Shift(first)
           high == to + Shift(last)
<1>1. /\ from \in Nat /\ to \in Nat /\ first \in Nat /\ last \in Nat
      /\ \A g \in granted : g.at \in Nat /\ g.run \in Nat
  BY RelayerAssumption DEF TypeOK
<1>2. /\ Shift(first) \in Nat /\ Shift(last) \in Nat /\ Capacity \in Nat
      /\ Shift(first) <= Shift(last)
      /\ Capacity * (1 + last - first) = Capacity + Shift(last) - Shift(first)
  BY <1>1, Shifts
<1>3. low \in Nat /\ high \in Nat /\ low <= high
  BY <1>1, <1>2
<1>4. S \subseteq In(c, low, high)
  <2>1. ASSUME NEW g \in S PROVE low <= Due(g) /\ Due(g) <= high
    <3>1. /\ Shift(g.run) \in Nat /\ Shift(first) <= Shift(g.run)
          /\ Shift(g.run) <= Shift(last)
      BY <1>1, Shifts
    <3> QED BY <1>1, <1>2, <3>1 DEF Due
  <2> QED BY <2>1 DEF In
<1> HIDE DEF S, low, high
<1>5. Taken(In(c, low, high)) <= Capacity + high - low
  BY <1>3 DEF LimiterInv, DueBounded
<1>6. /\ Cardinality(S) \in Nat /\ Cardinality(In(c, low, high)) \in Nat
      /\ Cardinality(S) <= Cardinality(In(c, low, high))
  <2>1. IsFiniteSet(In(c, low, high))
    BY InFinite DEF LimiterInv
  <2> QED BY <1>4, <2>1, FS_Subset, FS_CardinalityType
<1>7. Cardinality(S) * PerToken <= Taken(In(c, low, high))
  <2> DEFINE m == Cardinality(S)
             n == Cardinality(In(c, low, high))
  <2>1. m \in Nat /\ n \in Nat /\ m <= n /\ PerToken \in Nat
    BY <1>6, LimiterAssumption
  <2> HIDE DEF m, n
  <2>2. m * PerToken <= n * PerToken
    BY <2>1
  <2> QED BY <2>2 DEF m, n, Taken
<1>8. Cardinality(S) * PerToken \in Nat /\ Taken(In(c, low, high)) \in Nat
  BY <1>6, LimiterAssumption DEF Taken
<1>9. Cardinality(S) * PerToken <= Capacity + high - low
  BY <1>2, <1>3, <1>5, <1>7, <1>8
<1>10. Capacity + high - low = Capacity * (1 + last - first) + to - from
  BY <1>1, <1>2 DEF high, low
<1> QED BY <1>9, <1>10 DEF S

-----------------------------------------------------------------------------
(* The theorems. *)

LEMMA InitInv == Init => TypeOK /\ NonceInv /\ PaidInv /\ LimiterInv
<1> SUFFICES ASSUME Init PROVE TypeOK /\ NonceInv /\ PaidInv /\ LimiterInv
  OBVIOUS
<1>1. TypeOK
  <2>1. req \in [Requests -> [at : Stages, answer : Codes, read : Nat]]
        /\ reply \in [Requests -> Codes]
    BY DEF Init, Stages, Codes, NoReply
  <2>2. buckets \in [Callers -> [tokens : Int, seen : Int]]
    BY DEF Init, NoBucket
  <2>3. worker = NoOne /\ jobs = <<>> /\ granted = {} /\ receipts = {}
        /\ mempool = {} /\ claimed = {} /\ ended = {} /\ stopping = FALSE
        /\ wire = {}
    BY DEF Init
  <2>4. <<>> \in Seq(Requests) /\ Len(<<>>) <= QueueSize
    BY RelayerAssumption
  <2>5. /\ totalClaimed \in 0 .. totalAnnounced
        /\ totalAnnounced \in 0 .. MaxAnnounced
        /\ nonce \in Nat /\ clock \in 0 .. MaxClock
        /\ restarts \in 0 .. MaxRestarts
    BY RelayerAssumption DEF Init
  <2> QED BY <2>1, <2>2, <2>3, <2>4, <2>5 DEF TypeOK, Stages
<1>2. NonceInv
  BY FS_EmptySet DEF Init, NonceInv, NoOne, Resting
<1>3. PaidInv
  BY DEF Init, PaidInv, NoReply
<1>4. LimiterInv
  <2>1. /\ granted = {}
        /\ \A c \in Callers : buckets[c] = NoBucket
        /\ \A r \in Requests : req[r].at # "arrived"
    BY DEF Init
  <2>2. DueBounded
    <3>1. \A c, from, to : In(c, from, to) = {}
      BY <2>1 DEF In
    <3>2. Capacity \in Nat
      BY LimiterAssumption DEF Capacity
    <3> QED BY <3>1, <3>2, TakenEmpty DEF DueBounded
  <2>3. \A c \in Callers : Forgotten(c)
    BY <2>1 DEF Forgotten
  <2>4. IsFiniteSet(granted)
    BY <2>1, FS_EmptySet
  <2>5. \A g \in granted : g.at <= clock /\ g.run <= restarts
    BY <2>1
  <2>6. \A c \in Callers : Forgotten(c) \/ Remembered(c)
    BY <2>3
  <2>7. \A r \in Requests :
          req[r].at = "arrived" => /\ req[r].read <= clock
                                   /\ clock <= req[r].read + Lag
                                   /\ SinceRestart(req[r].read)
    BY <2>1
  <2> QED BY <2>2, <2>4, <2>5, <2>6, <2>7 DEF LimiterInv
<1> QED BY <1>1, <1>2, <1>3, <1>4

(* The types hold in every reachable state; the step of the worker that     *)
(* reads the nonce needs the mempool to be finite.                          *)
THEOREM TypeCorrect == Spec => [](TypeOK /\ NonceInv)
<1>1. Init => TypeOK /\ NonceInv
  BY InitInv
<1>2. TypeOK /\ NonceInv /\ [Next]_vars => TypeOK' /\ NonceInv'
  <2> SUFFICES ASSUME TypeOK, NonceInv, [Next]_vars PROVE TypeOK' /\ NonceInv'
    OBVIOUS
  <2>1. NonceInv'
    BY NonceInvStep
  <2>2. CASE UNCHANGED vars
    BY <2>1, <2>2 DEF vars, chain, service, limiter, TypeOK
  <2>3. IsFiniteSet(mempool)
    BY DEF NonceInv
  <2> QED BY <2>1, <2>2, <2>3, NextCases, TypeStepHandler, TypeStepWorker,
             TypeStepRest
<1> QED BY <1>1, <1>2, PTL DEF Spec

(* Two claims of the relayer that the node has, or may still get, never     *)
(* share a nonce, and the one that the worker is about to send takes none   *)
(* that is taken, except a claim whose call the worker left before the node *)
(* took it (main.go and claim.go: one goroutine sends, at the nonce that    *)
(* the node expects next).                                                  *)
THEOREM NoncesDiffer == Spec => []NonceNeverShared
<1>1. TypeOK /\ NonceInv => NonceNeverShared
  <2> SUFFICES ASSUME TypeOK, NonceInv PROVE NonceNeverShared
    OBVIOUS
  <2>1. ASSUME NEW x \in wire, NEW y \in wire, x.nonce = y.nonce
        PROVE  x = y \/ x.left \/ y.left
    <3>1. SUFFICES ASSUME ~ x.left, ~ y.left PROVE x = y
      OBVIOUS
    <3>2. x.of = y.of
      BY <3>1 DEF NonceInv
    <3>3. x \in Claims /\ y \in Claims /\ x.left = FALSE /\ y.left = FALSE
      BY <3>1 DEF TypeOK, Claims
    <3> QED BY <2>1, <3>2, <3>3 DEF Claims
  <2>2. \A x, y \in mempool \cup wire :
            x.nonce = y.nonce => x = y \/ x.left \/ y.left
    BY <2>1 DEF NonceInv
  <2>3. worker.at = "send" =>
            \A x \in mempool \cup wire : x.left \/ x.nonce < worker.nonce
    BY DEF NonceInv
  <2> QED BY <2>2, <2>3 DEF NonceNeverShared
<1> QED BY <1>1, TypeCorrect, PTL

LEMMA PaidAlways == Spec => []PaidInv
<1>1. Init => PaidInv
  BY InitInv
<1>2. TypeOK /\ PaidInv /\ [Next]_vars => PaidInv'
  BY PaidInvStep
<1> QED BY <1>1, <1>2, TypeCorrect, PTL DEF Spec

(* The relayer answers 200 only for a claim of this request that a block    *)
(* holds, whose note the contract has paid.                                 *)
THEOREM OkIsPaid == Spec => []OkMeansPaid
<1>1. PaidInv => OkMeansPaid
  <2> SUFFICES ASSUME PaidInv, NEW r \in Requests, req[r].answer = 200
               PROVE  NoteOf[r] \in claimed /\ [of |-> r, ok |-> TRUE] \in receipts
    BY DEF OkMeansPaid
  <2>1. [of |-> r, ok |-> TRUE] \in receipts
    BY DEF PaidInv
  <2> QED BY <2>1 DEF PaidInv
<1> QED BY <1>1, PaidAlways, PTL

(* The relayer answers 409 only for a wallet that the contract has paid.    *)
THEOREM ConflictIsPaid == Spec => []ConflictMeansPaid
<1>1. PaidInv => ConflictMeansPaid
  BY DEF PaidInv, ConflictMeansPaid
<1> QED BY <1>1, PaidAlways, PTL

(* In any stretch of time a caller gets in with a burst, another one for    *)
(* each restart in it, and what the stretch refills (the limiter of         *)
(* main.go), if a caller is forgotten late enough: after a full refill and  *)
(* twice the longest wait for the lock.                                     *)
THEOREM RateHolds ==
    ASSUME IdleDrop >= Capacity + 2 * Lag
    PROVE  Spec => []RateBounded
<1>1. Init => LimiterInv
  BY InitInv
<1>2. TypeOK /\ LimiterInv /\ [Next]_vars => LimiterInv'
  BY LimiterInvStep
<1>3. TypeOK /\ LimiterInv => RateBounded
  BY DueIsRate
<1> QED BY <1>1, <1>2, <1>3, TypeCorrect, PTL DEF Spec

=============================================================================
