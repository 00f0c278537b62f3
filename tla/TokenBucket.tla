----------------------------- MODULE TokenBucket -----------------------------
(***************************************************************************)
(* The request budget of web/src/lib/token-bucket.ts, shared by everything *)
(* that talks to one provider: `take` reserves the next free moment and    *)
(* sleeps until then, `slow` halves the rate after a refusal, `ok` lets a  *)
(* run of clean answers widen it again.                                    *)
(*                                                                         *)
(* The arithmetic is in whole units: a token is ONE of them and the rate   *)
(* is units per tick, so that the code's fractional tokens are integers    *)
(* here; halving a rate rounds down to a unit.                             *)
(***************************************************************************)
EXTENDS Integers, Sequences

CONSTANTS
    ONE,            \* units of a token
    Ceiling,        \* the opening rate, in units per tick
    Floor,          \* floorPerMinute
    Step,           \* ceiling / 4
    Burst,          \* tokens a full bucket holds
    RecoverAfter,   \* clean answers in a row before the rate widens
    MaxNow,         \* bound: ticks of a behaviour
    MaxTakes        \* bound: requests of a behaviour

ASSUME UnitsPositive == ONE \in Nat \ {0} /\ Burst \in Nat \ {0} /\ RecoverAfter \in Nat \ {0}
ASSUME RatesOrdered ==
    /\ Floor \in Nat \ {0} /\ Ceiling \in Nat /\ Floor <= Ceiling
    /\ Step \in Nat
ASSUME BoundsAreTicks == MaxNow \in Nat /\ MaxTakes \in Nat

VARIABLES
    now,            \* the clock
    rate,           \* perMinute
    clean,          \* clean answers since the last refusal or widening
    tokens, at,     \* state: what the bucket holds, and as of when; ahead of now once
                    \* moments have been reserved
    slots,          \* history: the moments reserved, in the order of the calls
    refused         \* history: whether slow() was called, the slots reserved before the
                    \* last time it was, and the moment the bucket was empty then

bucketVars == <<now, rate, clean, tokens, at, slots, refused>>

Larger(a, b) == IF a > b THEN a ELSE b
Smaller(a, b) == IF a < b THEN a ELSE b

\* Ticks until `units` have been refilled: Math.ceil(units / rate).
TicksFor(units) == (units + rate - 1) \div rate

BucketTypeOK ==
    /\ now \in 0 .. MaxNow
    /\ rate \in Floor .. Ceiling
    /\ clean \in 0 .. RecoverAfter - 1
    /\ tokens \in 0 .. Burst * ONE
    /\ at \in Nat
    /\ slots \in Seq(Nat)
    /\ refused \in [ever : BOOLEAN, after : 0 .. MaxTakes, empty : Nat]

BucketInit ==
    /\ now = 0
    /\ rate = Ceiling
    /\ clean = 0
    /\ tokens = Burst * ONE /\ at = 0
    /\ slots = <<>>
    /\ refused = [ever |-> FALSE, after |-> 0, empty |-> 0]

-----------------------------------------------------------------------------
(* takeToken *)

Frontier == Larger(now, at)

Refilled == Smaller(Burst * ONE, tokens + (Frontier - at) * rate)

\* Mutant of Reserve: the wait is told, the moment is not reserved.
ReservePredicted(moment, left) ==
    /\ slots' = Append(slots, moment)
    /\ tokens' = left
    /\ at' = Frontier

\* The caller's moment is `moment`, and the bucket is accurate as of then.
Reserve(moment, left) ==
    /\ slots' = Append(slots, moment)
    /\ tokens' = left
    /\ at' = moment

\* take(): the reservation; the sleep until then is the caller's own.
take ==
    /\ Len(slots) < MaxTakes
    /\ \/ Refilled >= ONE /\ Reserve(Frontier, Refilled - ONE)
       \/ Refilled < ONE /\ Reserve(Frontier + TicksFor(ONE - Refilled), 0)
    /\ UNCHANGED <<now, rate, clean, refused>>

-----------------------------------------------------------------------------
(* The control loop *)

\* Mutant of slow: the banked tokens are kept.
slowKeepingCredit ==
    /\ clean' = 0
    /\ rate' = Larger(Floor, rate \div 2)
    /\ refused' = [ever |-> TRUE, after |-> Len(slots), empty |-> Larger(now, at)]
    /\ UNCHANGED <<now, tokens, at, slots>>

\* A refusal: half the rate, and nothing in the bucket; reservations stand.
slow ==
    /\ clean' = 0
    /\ rate' = Larger(Floor, rate \div 2)
    /\ tokens' = 0
    /\ at' = Larger(now, at)
    /\ refused' = [ever |-> TRUE, after |-> Len(slots), empty |-> Larger(now, at)]
    /\ UNCHANGED <<now, slots>>

\* A clean answer: below the ceiling it counts, and the last of a run widens the rate.
ok ==
    /\ rate < Ceiling
    /\ IF clean + 1 < RecoverAfter
         THEN clean' = clean + 1 /\ rate' = rate
         ELSE clean' = 0 /\ rate' = Smaller(Ceiling, rate + Step)
    /\ UNCHANGED <<now, tokens, at, slots, refused>>

Tick ==
    /\ now < MaxNow
    /\ now' = now + 1
    /\ UNCHANGED <<rate, clean, tokens, at, slots, refused>>

BucketNext == Tick \/ take \/ slow \/ ok

BucketSpec == BucketInit /\ [][BucketNext]_bucketVars

-----------------------------------------------------------------------------
(* Properties *)

\* What a budget per minute promises the provider: from any request on, no more of them
\* than a full bucket and the refill at the opening rate pay for, whatever refusals and
\* recoveries happen meanwhile and however many callers take at once.
WithinBudget ==
    \A i, j \in 1 .. Len(slots) : i <= j =>
        (j - i + 1) * ONE <= Burst * ONE + (slots[j] - slots[i]) * Ceiling

\* token-bucket.ts:37-41: callers get moments of their own in the order they came, also
\* when the rate changes while some still sleep, and the bucket is never accurate as of a
\* moment before the last one it gave away.
SlotsInOrder ==
    /\ \A i, j \in 1 .. Len(slots) : i <= j => slots[i] <= slots[j]
    /\ slots # <<>> => slots[Len(slots)] <= at

\* volume.ts:261-264: after a refusal there is no credit: every request reserved since
\* pays for itself out of what has been refilled since, "that IS the backoff".
BackoffPaidFor ==
    refused.ever => \A i \in refused.after + 1 .. Len(slots) :
        (i - refused.after) * ONE <= (slots[i] - refused.empty) * Ceiling

=============================================================================
