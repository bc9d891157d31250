------------------------------- MODULE Limiter -------------------------------
(***************************************************************************)
(* The token buckets of the relayer (limiter in workflow/relayer/main.go). *)
(* A bucket belongs to a caller and refills with time, so it is measured   *)
(* in the clock's own unit: a request takes PerToken of it, and Burst      *)
(* requests fill it.                                                       *)
(***************************************************************************)
EXTENDS Integers

CONSTANTS
    Callers,    \* peers, never a value of the request
    Burst,      \* newLimiter(8, ...
    PerToken,   \* ..., 5 * time.Second, ...
    IdleDrop    \* ..., 10 * time.Minute)

(* A caller that is forgotten would have had a full bucket by then.        *)
ASSUME LimiterAssumption ==
    /\ Burst \in Nat \ {0} /\ PerToken \in Nat \ {0} /\ IdleDrop \in Nat
    /\ IdleDrop >= Burst * PerToken

Capacity == Burst * PerToken
NoBucket == [tokens |-> 0, seen |-> -1]
Full(t) == [tokens |-> Capacity, seen |-> t]

Least(a, b) == IF a <= b THEN a ELSE b

AnyPause(bucket, t) == t > bucket.seen
IsIdle(bucket, t) == t - bucket.seen > IdleDrop

(* allow drops every caller that stopped ... *)
Kept(buckets, t) ==
    [c \in Callers |-> IF IsIdle(buckets[c], t) THEN NoBucket ELSE buckets[c]]

(* ... makes a full bucket for a new one and refills the old one.  t was    *)
(* read before the lock, so it may lie before the last use of the bucket,  *)
(* and then the bucket loses what it will gain back.                       *)
Refilled(buckets, caller, t) ==
    LET bucket == IF Kept(buckets, t)[caller] = NoBucket THEN Full(t)
                  ELSE Kept(buckets, t)[caller]
    IN  Least(bucket.tokens + t - bucket.seen, Capacity)

Allows(buckets, caller, t) == Refilled(buckets, caller, t) >= PerToken

After(buckets, caller, t) ==
    LET left == Refilled(buckets, caller, t)
    IN  [Kept(buckets, t) EXCEPT
            ![caller] = [tokens |-> IF left >= PerToken THEN left - PerToken
                                    ELSE left,
                         seen |-> t]]

=============================================================================
