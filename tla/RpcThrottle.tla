---------------------------- MODULE RpcThrottle ----------------------------
(***************************************************************************)
(* The request throttle every JSON-RPC call of a scan goes through:        *)
(* `throttle`, `acquireSlot` and `releaseSlot` of web/src/lib/chain.ts and *)
(* the shared gate of web/src/lib/rate-limit.ts.                           *)
(*                                                                         *)
(* One element of Requests is one call of the wrapped `request`.  It runs  *)
(* the loop of `throttle`: wait at the gate, take a slot or queue for one, *)
(* send, and on a rate limit note it, give the slot back and go round.     *)
(* Every `await` of that loop is a point where other requests may run, so  *)
(* each stretch between two awaits is one action.                          *)
(*                                                                         *)
(* Time is relative: `pause` is resumeAt - now() (0 once it has passed),   *)
(* `nap[r]` what is left of r's setTimeout.  Tick moves them together.     *)
(***************************************************************************)
EXTENDS Naturals, Sequences, FiniteSets

CONSTANTS
    Requests,      \* the calls one scan makes
    MaxInflight,   \* chain.maxInflight ?? 8: the gate's ceiling
    RecoverAfter,  \* successes in a row before the fan-out widens by one
    Attempts,      \* RATE_LIMIT_ATTEMPTS
    MaxWait,       \* maxWaitMs, in ticks
    DefaultWait,   \* DEFAULT_RATE_LIMIT_WAIT_MS, in ticks
    Stated         \* intervals a 429 may state, 0 when it states none (or zero)

ASSUME RequestsFinite == IsFiniteSet(Requests)
ASSUME LimitsPositive ==
    /\ MaxInflight \in Nat \ {0}
    /\ RecoverAfter \in Nat \ {0}
    /\ Attempts \in Nat \ {0}
ASSUME WaitsAreTicks ==
    /\ MaxWait \in Nat
    /\ DefaultWait \in Nat \ {0}
    /\ Stated \subseteq Nat

VARIABLES
    pc,         \* where each request is in the loop of `throttle`
    attempt,    \* its loop counter
    nap,        \* what is left of its sleep at the gate
    inflight,   \* slots taken
    waiting,    \* requests queued for a slot, oldest first
    permitted,  \* the gate's current fan-out
    streak,     \* successes since the last 429 or widening
    pause,      \* resumeAt - now()
    owed,       \* history: what is left of the interval r itself was last told
    heard       \* history: the requests sent since the last pause was over

vars == <<pc, attempt, nap, inflight, waiting, permitted, streak, pause, owed, heard>>

PC == {"idle", "gate", "asleep", "passed", "queued", "granted", "sent", "done"}

Least(a, b) == IF a < b THEN a ELSE b
Most(a, b) == IF a > b THEN a ELSE b

TypeOK ==
    /\ pc \in [Requests -> PC]
    /\ attempt \in [Requests -> 0 .. Attempts - 1]
    /\ nap \in [Requests -> 0 .. MaxWait]
    /\ inflight \in Nat
    /\ waiting \in Seq(Requests)
    /\ permitted \in 1 .. MaxInflight
    /\ streak \in 0 .. RecoverAfter - 1
    /\ pause \in 0 .. MaxWait
    /\ owed \in [Requests -> 0 .. MaxWait]
    /\ heard \subseteq Requests

Init ==
    /\ pc = [r \in Requests |-> "idle"]
    /\ attempt = [r \in Requests |-> 0]
    /\ nap = [r \in Requests |-> 0]
    /\ inflight = 0
    /\ waiting = <<>>
    /\ permitted = MaxInflight
    /\ streak = 0
    /\ pause = 0
    /\ owed = [r \in Requests |-> 0]
    /\ heard = {}

-----------------------------------------------------------------------------
(* The gate *)

\* What `note` is told for a 429 stating s: a limit that names no interval, or
\* a zero one, still waits the default.
rateLimitWaitMs(s) == IF s > 0 THEN s ELSE DefaultWait

\* The interval `note` honours: the endpoint's, capped.
Capped(s) == Least(rateLimitWaitMs(s), MaxWait)

\* Mutant of note: the last 429 sets the pause, also when it asks for less.
noteOverwriting(wait) ==
    /\ pause' = wait
    /\ permitted' = Most(1, permitted \div 2)
    /\ streak' = 0

\* A 429 extends the shared pause, never shortens it, and halves the fan-out.
note(wait) ==
    /\ pause' = Most(pause, wait)
    /\ permitted' = Most(1, permitted \div 2)
    /\ streak' = 0

\* A success below the ceiling counts towards the next widening by one.
noteSuccess ==
    /\ pause' = pause
    /\ IF permitted >= MaxInflight
         THEN UNCHANGED <<permitted, streak>>
         ELSE IF streak + 1 >= RecoverAfter
                THEN permitted' = permitted + 1 /\ streak' = 0
                ELSE permitted' = permitted /\ streak' = streak + 1

-----------------------------------------------------------------------------
(* Slots *)

\* Mutant of WakeCount: the loop condition read before the slot is given back.
WakeCountTooSoon(permit) ==
    IF permit > inflight
      THEN Least(Len(waiting), permit - inflight)
      ELSE 0

\* Mutant of WakeCount: one out, one in, whatever the limiter permits now.
WakeCountOneForOne(permit) == Least(Len(waiting), 1)

\* How many waiters releaseSlot's loop wakes once this slot is back, under `permit`.
WakeCount(permit) ==
    IF permit > inflight - 1
      THEN Least(Len(waiting), permit - (inflight - 1))
      ELSE 0

Woken(permit) == {waiting[i] : i \in 1 .. WakeCount(permit)}

\* Request r leaves "sent" for `next`; its slot goes back and the waiters that fit
\* under `permit` are granted theirs in the same synchronous stretch.
releaseSlot(r, next, permit) ==
    LET n == WakeCount(permit) IN
    /\ inflight' = inflight - 1 + n
    /\ waiting' = SubSeq(waiting, n + 1, Len(waiting))
    /\ pc' = [q \in Requests |->
                IF q = r THEN next
                ELSE IF q \in Woken(permit) THEN "granted" ELSE pc[q]]

-----------------------------------------------------------------------------
(* The loop of `throttle` *)

\* `request` is called: the first thing it does is wait at the gate.
Call(r) ==
    /\ pc[r] = "idle"
    /\ pc' = [pc EXCEPT ![r] = "gate"]
    /\ UNCHANGED <<attempt, nap, inflight, waiting, permitted, streak, pause, owed, heard>>

\* gate.wait() finds no pause and resolves.
GateOpen(r) ==
    /\ pc[r] = "gate"
    /\ pause = 0
    /\ pc' = [pc EXCEPT ![r] = "passed"]
    /\ UNCHANGED <<attempt, nap, inflight, waiting, permitted, streak, pause, owed, heard>>

\* gate.wait() finds a pause and sleeps what is left of it now.
GateSleep(r) ==
    /\ pc[r] = "gate"
    /\ pause > 0
    /\ pc' = [pc EXCEPT ![r] = "asleep"]
    /\ nap' = [nap EXCEPT ![r] = pause]
    /\ UNCHANGED <<attempt, inflight, waiting, permitted, streak, pause, owed, heard>>

\* Mutant of Wake: one sleep instead of the loop that reads the pause again.
WakeUnchecked(r) ==
    /\ pc[r] = "asleep"
    /\ nap[r] = 0
    /\ pc' = [pc EXCEPT ![r] = "passed"]
    /\ UNCHANGED <<attempt, nap, inflight, waiting, permitted, streak, pause, owed, heard>>

\* The timer fires and the loop of wait() reads the pause again.
Wake(r) ==
    /\ pc[r] = "asleep"
    /\ nap[r] = 0
    /\ pc' = [pc EXCEPT ![r] = "gate"]
    /\ UNCHANGED <<attempt, nap, inflight, waiting, permitted, streak, pause, owed, heard>>

\* acquireSlot with room: the slot is taken on the spot, queue or no queue.
TakeSlot(r) ==
    /\ pc[r] = "passed"
    /\ inflight < permitted
    /\ inflight' = inflight + 1
    /\ pc' = [pc EXCEPT ![r] = "granted"]
    /\ UNCHANGED <<attempt, nap, waiting, permitted, streak, pause, owed, heard>>

\* acquireSlot without room: queue a waker.
QueueForSlot(r) ==
    /\ pc[r] = "passed"
    /\ inflight >= permitted
    /\ waiting' = Append(waiting, r)
    /\ pc' = [pc EXCEPT ![r] = "queued"]
    /\ UNCHANGED <<attempt, nap, inflight, permitted, streak, pause, owed, heard>>

\* `await acquireSlot()` resumes and the transport is called.
Send(r) ==
    /\ pc[r] = "granted"
    /\ pc' = [pc EXCEPT ![r] = "sent"]
    /\ heard' = heard \cup {r}
    /\ UNCHANGED <<attempt, nap, inflight, waiting, permitted, streak, pause, owed>>

\* The transport answers: the slot goes back first, then the gate hears of it.
AnswerOk(r) ==
    /\ pc[r] = "sent"
    /\ releaseSlot(r, "done", permitted)
    /\ noteSuccess
    /\ UNCHANGED <<attempt, nap, owed, heard>>

\* Mutant of AnswerLimited: the attempt is not counted.
AnswerLimitedUncounted(r, s) ==
    /\ pc[r] = "sent"
    /\ attempt[r] < Attempts - 1
    /\ note(Capped(s))
    /\ releaseSlot(r, "gate", permitted')
    /\ owed' = [owed EXCEPT ![r] = Capped(s)]
    /\ UNCHANGED <<attempt, nap, heard>>

\* A 429 with attempts left: the gate hears of it first, so the waiters are woken
\* under the halved fan-out; then round again.
AnswerLimited(r, s) ==
    /\ pc[r] = "sent"
    /\ attempt[r] < Attempts - 1
    /\ note(Capped(s))
    /\ releaseSlot(r, "gate", permitted')
    /\ attempt' = [attempt EXCEPT ![r] = @ + 1]
    /\ owed' = [owed EXCEPT ![r] = Capped(s)]
    /\ UNCHANGED <<nap, heard>>

\* Mutant of AnswerError: the slot is given back on success only, not in `finally`.
AnswerErrorKeepingSlot(r) ==
    /\ pc[r] = "sent"
    /\ pc' = [pc EXCEPT ![r] = "done"]
    /\ UNCHANGED <<attempt, nap, inflight, waiting, permitted, streak, pause, owed, heard>>

\* The 429 of the last attempt is rethrown unnoted, like any other error, which may
\* come on any attempt; so this is the step for both.
AnswerError(r) ==
    /\ pc[r] = "sent"
    /\ releaseSlot(r, "done", permitted)
    /\ UNCHANGED <<attempt, nap, permitted, streak, pause, owed, heard>>

Tick ==
    /\ pause > 0
    /\ pause' = pause - 1
    /\ nap' = [r \in Requests |-> IF nap[r] > 0 THEN nap[r] - 1 ELSE 0]
    /\ owed' = [r \in Requests |-> IF owed[r] > 0 THEN owed[r] - 1 ELSE 0]
    /\ heard' = IF pause = 1 THEN {} ELSE heard
    /\ UNCHANGED <<pc, attempt, inflight, waiting, permitted, streak>>

Answer(r) ==
    \/ AnswerOk(r)
    \/ \E s \in Stated : AnswerLimited(r, s)
    \/ AnswerError(r)

\* What request r does by itself once called.
Advance(r) ==
    \/ GateOpen(r)
    \/ GateSleep(r)
    \/ Wake(r)
    \/ TakeSlot(r)
    \/ QueueForSlot(r)
    \/ Send(r)

AllSettled == \A r \in Requests : pc[r] = "done"

Next ==
    \/ Tick
    \/ \E r \in Requests : Call(r) \/ Advance(r) \/ Answer(r)
    \/ AllSettled /\ UNCHANGED vars

Spec == Init /\ [][Next]_vars

\* Time passes, a continuation that is due runs, and a request that was sent is
\* answered one way or another (viem's transport times out by itself).  Nothing is
\* assumed about which answer comes, nor that a call is ever made.
Fairness ==
    /\ WF_vars(Tick)
    /\ \A r \in Requests : WF_vars(Advance(r)) /\ WF_vars(Answer(r))

FairSpec == Spec /\ Fairness

-----------------------------------------------------------------------------
(* Properties *)

Holders == {r \in Requests : pc[r] \in {"granted", "sent"}}

\* Every slot counted is held by exactly one request between its grant and its
\* answer: no path through try/catch/finally leaks a slot or gives one back twice.
SlotAccounting == inflight = Cardinality(Holders)

\* The queue holds exactly the requests that wait for a slot, each once: a waker
\* that is called twice, or never, breaks this.
QueueIsTheQueued ==
    /\ {waiting[i] : i \in 1 .. Len(waiting)} = {r \in Requests : pc[r] = "queued"}
    /\ \A i, j \in 1 .. Len(waiting) : i # j => waiting[i] # waiting[j]

\* chain.ts:281-292 and 317-343: between the gate and its answer a request is either in
\* the queue, once, or holds one of the slots that are counted.
Accounting == SlotAccounting /\ QueueIsTheQueued

\* A request is queued only while someone holds a slot whose release will wake it,
\* and at most one slot stands free meanwhile (noteSuccess widens after releaseSlot
\* has already looked).
NoLostWakeup ==
    waiting # <<>> => inflight >= 1 /\ inflight + 1 >= permitted

\* A slot is only ever granted within the fan-out the limiter permits at that moment,
\* to a newcomer and to a woken waiter alike, also right after a 429 has halved it.
AdmissionWithinPermit ==
    [][ (\E r \in Requests : pc[r] \in {"passed", "queued"} /\ pc'[r] = "granted")
          => inflight' <= permitted' ]_vars

\* The quiet window of rate-limit.ts:16-18, as far as the code keeps it: a request that is
\* past the gate when a pause begins does go out during it (chain.ts:323-324 queues behind
\* the gate), but none that the endpoint has heard since the last pause goes out a second
\* time before this one is over, however often the others' refusals extend it meanwhile.
OncePerPause ==
    [][ \A r \in heard : pc[r] = "granted" /\ pc'[r] = "sent" => pause = 0 ]_vars

\* A request told to stay away is not on its way again before its own interval (up to
\* the cap) is over, whatever shorter interval another request was told since.
RetryNotEarly ==
    \A r \in Requests :
        pc[r] \in {"passed", "queued", "granted", "sent"} => owed[r] = 0

\* Every call settles, however many of its answers are rate limits.
EveryCallSettles == \A r \in Requests : pc[r] = "gate" ~> pc[r] = "done"

=============================================================================
