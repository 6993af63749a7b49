------------------------------ MODULE Admission ------------------------------
(***************************************************************************)
(* What a gateway lets in: a gate that bounds the requests being served,   *)
(* and behind it a token bucket per key, refilled by the clock.            *)
(*                                                                         *)
(* A call reads the clock before it takes the bucket's lock, so buckets    *)
(* may see times out of order.  One key, whose bucket is forgotten when it *)
(* has not been seen for a while.                                          *)
(***************************************************************************)
EXTENDS Integers, FiniteSetsExt

CONSTANTS
    Request,      \* requests of one key
    Rate,         \* tokens per unit of time
    Burst,        \* the most a bucket holds
    IdleTTL,      \* how long an unseen bucket is kept
    MaxInflight,  \* the gate's slots
    MaxDelay,     \* bound: a call's time between the clock and the lock
    MaxClock      \* bound of the clock

ASSUME AdmissionAssumption ==
    /\ Rate \in Nat \ {0} /\ Burst \in Nat \ {0}
    /\ MaxInflight \in Nat \ {0}
    /\ IsFiniteSet(Request) /\ IdleTTL \in Nat /\ MaxDelay \in Nat /\ MaxClock \in Nat
    /\ (IdleTTL - 2 * MaxDelay) * Rate >= Burst   \* ten minutes refill any bucket

VARIABLES
    now,          \* the clock
    asked,        \* what each request is doing, and the time it read
    quota,        \* the bucket, NoBucket when there is none
    slots         \* requests that hold a slot of the gate

admVars == <<now, asked, quota, slots>>

NoBucket == [left |-> 0, updated |-> -1]

AdmTypeOK ==
    /\ now \in 0 .. MaxClock
    /\ \A r \in Request :
          /\ asked[r].at \in {"new", "held", "asks", "allowed", "limited", "refused"}
          /\ asked[r].time \in 0 .. now
    /\ quota = NoBucket \/ quota.updated \in 0 .. now
    /\ slots \subseteq Request

AdmInit ==
    /\ now = 0
    /\ asked = [r \in Request |-> [at |-> "new", time |-> 0]]
    /\ quota = NoBucket
    /\ slots = {}

Pass ==
    /\ now < MaxClock
    /\ \A r \in Request : asked[r].at = "asks" => now - asked[r].time < MaxDelay
    /\ now' = now + 1
    /\ UNCHANGED <<asked, quota, slots>>

\* An HTTP request takes a slot of the gate first.
Acquire(r) ==
    /\ asked[r].at = "new"
    /\ Cardinality(slots) < MaxInflight
    /\ slots' = slots \cup {r}
    /\ asked' = [asked EXCEPT ![r].at = "held"]
    /\ UNCHANGED <<now, quota>>

\* The wait for a slot runs out, or the client goes away.
Refuse(r) ==
    /\ asked[r].at = "new"
    /\ asked' = [asked EXCEPT ![r].at = "refused"]
    /\ UNCHANGED <<now, quota, slots>>

\* What comes over a WebSocket asks the limiter without a slot.
ReadClock(r) ==
    /\ asked[r].at \in {"new", "held"}
    /\ asked' = [asked EXCEPT ![r] = [at |-> "asks", time |-> now]]
    /\ UNCHANGED <<now, quota, slots>>

\* The bucket as of time t: refilled, and never above Burst.
Refilled(t) ==
    IF quota = NoBucket
    THEN Burst
    ELSE Min({Burst, quota.left + (t - quota.updated) * Rate})

Allow(r) ==
    /\ asked[r].at = "asks"
    /\ LET t == asked[r].time
           left == Refilled(t) IN
       /\ quota' = [left |-> IF left < 1 THEN left ELSE left - 1, updated |-> t]
       /\ asked' = [asked EXCEPT ![r].at = IF left < 1 THEN "limited" ELSE "allowed"]
    /\ UNCHANGED <<now, slots>>

Cleanup ==
    /\ quota # NoBucket
    /\ quota.updated < now - IdleTTL
    /\ quota' = NoBucket
    /\ UNCHANGED <<now, asked, slots>>

\* Served, or turned away by the limiter.
Release(r) ==
    /\ r \in slots
    /\ asked[r].at \in {"allowed", "limited"}
    /\ slots' = slots \ {r}
    /\ UNCHANGED <<now, asked, quota>>

AdmNext ==
    \/ Pass
    \/ Cleanup
    \/ \E r \in Request : ReadClock(r) \/ Allow(r) \/ Acquire(r) \/ Refuse(r) \/ Release(r)

Admitted == {r \in Request : asked[r].at = "allowed"}

\* In any span of time, requests of one key get through at most Burst at once
\* and Rate per unit of time after that, however their goroutines are delayed;
\* and the gate never serves more than its slots.
AdmissionBounded ==
    /\ \A s \in 0 .. now : \A t \in s .. now :
          Cardinality({r \in Admitted : asked[r].time \in s .. t}) <= Burst + Rate * (t - s)
    /\ Cardinality(slots) <= MaxInflight
=============================================================================
