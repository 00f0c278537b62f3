----------------------------- MODULE VolumeBatch -----------------------------
(***************************************************************************)
(* `fetchPoolsVolume` of web/src/lib/volume.ts: the volume of a wallet's   *)
(* pools, read by two workers from one queue, from a provider that may cut *)
(* the client off partway.  A worker whose pool was refused three times in *)
(* a row stops the sweep and puts the pool back; after a cooldown the next *)
(* sweep picks the queue up, a bounded number of times.                    *)
(*                                                                         *)
(* A stretch between two awaits is one action: what a worker does with one *)
(* answer includes taking its next pool off the queue.                     *)
(***************************************************************************)
EXTENDS Naturals, Sequences

CONSTANTS
    PoolCount,   \* pools of the wallet
    WORKERS,     \* 2 in the code
    MAX_TRIES,   \* refusals in a row that count as being cut off
    MaxResumes   \* resumePolicy.maxResumes

ASSUME CountsPositive ==
    /\ PoolCount \in Nat \ {0}
    /\ WORKERS \in Nat \ {0}
    /\ MAX_TRIES \in Nat \ {0}
    /\ MaxResumes \in Nat

Pools == 1 .. PoolCount
Worker == 1 .. WORKERS

\* A worker with no pool in hand.
NoPool == 0

VARIABLES
    phase,      \* of the batch: a sweep, the cooldown before the next, or over
    resume,     \* sweeps resumed so far
    queue,      \* pools nobody has in hand and nobody has an answer for
    stop,       \* this sweep was cut off
    pc,         \* where each worker is
    hand,       \* the pool each worker is on
    attempt,    \* its refusals in a row, for that pool
    covered, missing, failed,   \* the pools answered so far
    done,       \* what onProgress was last told
    blocked,    \* the result's flag
    skipped     \* the result's pools that were given up

vars == <<phase, resume, queue, stop, pc, hand, attempt,
          covered, missing, failed, done, blocked, skipped>>

PC == {"looking", "pacing", "asking", "returned"}

TypeOK ==
    /\ phase \in {"sweep", "cooldown", "over"}
    /\ resume \in 0 .. MaxResumes
    /\ queue \in Seq(Pools)
    /\ stop \in BOOLEAN /\ blocked \in BOOLEAN
    /\ pc \in [Worker -> PC]
    /\ hand \in [Worker -> Pools \cup {NoPool}]
    /\ attempt \in [Worker -> 0 .. MAX_TRIES - 1]
    /\ covered \subseteq Pools /\ missing \subseteq Pools /\ failed \subseteq Pools
    /\ done \in Nat
    /\ skipped \subseteq Pools

\* runPass: the first workers each shift a pool before anything is awaited; there are
\* no more workers than pools.
Sweep(q) ==
    /\ phase' = "sweep"
    /\ stop' = FALSE
    /\ hand' = [w \in Worker |-> IF w <= Len(q) THEN q[w] ELSE NoPool]
    /\ pc' = [w \in Worker |-> IF w <= Len(q) THEN "looking" ELSE "returned"]
    /\ attempt' = [w \in Worker |-> 0]
    /\ queue' = SubSeq(q, WORKERS + 1, Len(q))

Init ==
    /\ phase = "sweep" /\ resume = 0 /\ stop = FALSE
    /\ hand = [w \in Worker |-> IF w <= PoolCount THEN w ELSE NoPool]
    /\ pc = [w \in Worker |-> IF w <= PoolCount THEN "looking" ELSE "returned"]
    /\ attempt = [w \in Worker |-> 0]
    /\ queue = [i \in 1 .. (IF WORKERS < PoolCount THEN PoolCount - WORKERS ELSE 0) |->
                  WORKERS + i]
    /\ covered = {} /\ missing = {} /\ failed = {}
    /\ done = 0 /\ blocked = FALSE /\ skipped = {}

-----------------------------------------------------------------------------
(* A worker *)

\* Mutant of NextPool: a stopped sweep drops the pool it has just shifted.
NextPoolDropped(w) ==
    IF queue = <<>>
      THEN /\ pc' = [pc EXCEPT ![w] = "returned"]
           /\ hand' = [hand EXCEPT ![w] = NoPool]
           /\ UNCHANGED queue
      ELSE /\ pc' = [pc EXCEPT ![w] = IF stop THEN "returned" ELSE "looking"]
           /\ hand' = [hand EXCEPT ![w] = IF stop THEN NoPool ELSE Head(queue)]
           /\ queue' = Tail(queue)

\* The loop goes round: with the next pool, or not at all when the queue is empty or the
\* sweep is stopped, in which case the pool shifted goes back where it was.
NextPool(w) ==
    IF queue = <<>> \/ stop
      THEN /\ pc' = [pc EXCEPT ![w] = "returned"]
           /\ hand' = [hand EXCEPT ![w] = NoPool]
           /\ UNCHANGED queue
      ELSE /\ pc' = [pc EXCEPT ![w] = "looking"]
           /\ hand' = [hand EXCEPT ![w] = Head(queue)]
           /\ queue' = Tail(queue)

\* An answer for the pool in hand: it is filed, progress is reported, the loop goes round.
Filed(w) ==
    /\ \/ covered' = covered \cup {hand[w]} /\ UNCHANGED <<missing, failed>>
       \/ missing' = missing \cup {hand[w]} /\ UNCHANGED <<covered, failed>>
    /\ done' = done + 1
    /\ attempt' = [attempt EXCEPT ![w] = 0]
    /\ NextPool(w)
    /\ UNCHANGED <<phase, resume, stop, blocked, skipped>>

\* getJsonCached finds today's answer, on disk or in the page's memo.
CacheHit(w) ==
    /\ pc[w] = "looking"
    /\ Filed(w)

CacheMiss(w) ==
    /\ pc[w] = "looking"
    /\ pc' = [pc EXCEPT ![w] = "pacing"]
    /\ UNCHANGED <<phase, resume, queue, stop, hand, attempt,
                   covered, missing, failed, done, blocked, skipped>>

\* The bucket lets the request go: `await gate.take()` resumes and fetch is called.
Ask(w) ==
    /\ pc[w] = "pacing"
    /\ pc' = [pc EXCEPT ![w] = "asking"]
    /\ UNCHANGED <<phase, resume, queue, stop, hand, attempt,
                   covered, missing, failed, done, blocked, skipped>>

\* Candles, or the certainty that there are none (an empty list, a 404).
Answered(w) ==
    /\ pc[w] = "asking"
    /\ Filed(w)

\* A timeout or an HTTP error is about this pool alone.
Failed(w) ==
    /\ pc[w] = "asking"
    /\ failed' = failed \cup {hand[w]}
    /\ done' = done + 1
    /\ attempt' = [attempt EXCEPT ![w] = 0]
    /\ NextPool(w)
    /\ UNCHANGED <<phase, resume, stop, covered, missing, blocked, skipped>>

\* Mutant of Refused: the try is not counted.
RefusedUncounted(w) ==
    /\ pc[w] = "asking"
    /\ attempt[w] < MAX_TRIES - 1
    /\ pc' = [pc EXCEPT ![w] = "pacing"]
    /\ UNCHANGED <<phase, resume, queue, stop, hand, attempt,
                   covered, missing, failed, done, blocked, skipped>>

\* A 429, readable or opaque, with tries left: slow down and queue at the bucket again.
Refused(w) ==
    /\ pc[w] = "asking"
    /\ attempt[w] < MAX_TRIES - 1
    /\ attempt' = [attempt EXCEPT ![w] = @ + 1]
    /\ pc' = [pc EXCEPT ![w] = "pacing"]
    /\ UNCHANGED <<phase, resume, queue, stop, hand,
                   covered, missing, failed, done, blocked, skipped>>

\* The last try is refused too: the sweep is to stop, and the pool goes back first in line.
CutOff(w) ==
    /\ pc[w] = "asking"
    /\ attempt[w] = MAX_TRIES - 1
    /\ stop' = TRUE
    /\ queue' = <<hand[w]>> \o queue
    /\ hand' = [hand EXCEPT ![w] = NoPool]
    /\ attempt' = [attempt EXCEPT ![w] = 0]
    /\ pc' = [pc EXCEPT ![w] = "returned"]
    /\ UNCHANGED <<phase, resume, covered, missing, failed, done, blocked, skipped>>

Work(w) ==
    \/ CacheHit(w)
    \/ CacheMiss(w)
    \/ Ask(w)
    \/ Answered(w)
    \/ Failed(w)
    \/ Refused(w)
    \/ CutOff(w)

-----------------------------------------------------------------------------
(* The batch *)

\* Every worker has returned, which is what Promise.all waits for.
SweepOver == phase = "sweep" /\ \A w \in Worker : pc[w] = "returned"

Resumable == stop /\ queue # <<>> /\ resume < MaxResumes

\* Cut off with something left and resumes to spare: wait the block out.
Cooldown ==
    /\ SweepOver
    /\ Resumable
    /\ phase' = "cooldown"
    /\ resume' = resume + 1
    /\ blocked' = stop
    /\ UNCHANGED <<queue, stop, pc, hand, attempt, covered, missing, failed, done, skipped>>

\* Mutant of Resume: a pool that failed is asked for again.
ResumeFailedToo ==
    /\ phase = "cooldown"
    /\ \E again \in {<<>>} \cup {<<p>> : p \in failed} : Sweep(queue \o again)
    /\ UNCHANGED <<resume, covered, missing, failed, done, blocked, skipped>>

Resume ==
    /\ phase = "cooldown"
    /\ Sweep(queue)
    /\ UNCHANGED <<resume, covered, missing, failed, done, blocked, skipped>>

\* Otherwise the result: whatever is still queued was given up.
Finish ==
    /\ SweepOver
    /\ ~Resumable
    /\ phase' = "over"
    /\ blocked' = stop
    /\ skipped' = {queue[i] : i \in 1 .. Len(queue)}
    /\ UNCHANGED <<resume, queue, stop, pc, hand, attempt, covered, missing, failed, done>>

Next ==
    \/ \E w \in Worker : Work(w)
    \/ Cooldown
    \/ Resume
    \/ Finish
    \/ phase = "over" /\ UNCHANGED vars

Spec == Init /\ [][Next]_vars

\* Timers fire, and a request is answered or times out (AbortSignal.timeout).  Nothing is
\* assumed about the answers: the provider may refuse for ever.
FairSpec ==
    /\ Spec
    /\ \A w \in Worker : WF_vars(Work(w))
    /\ WF_vars(Cooldown \/ Resume \/ Finish)

-----------------------------------------------------------------------------
(* Properties *)

Queued == {queue[i] : i \in 1 .. Len(queue)}
Held == {hand[w] : w \in Worker} \ {NoPool}
Places == <<Queued, Held, covered, missing, failed>>

\* volume.ts:535-558: through stops, put-backs and resumes, every pool is in exactly one
\* place: queued once, in one worker's hand, or filed under one heading.
EachPoolOnce ==
    /\ \A i, j \in 1 .. Len(queue) : i # j => queue[i] # queue[j]
    /\ \A v, w \in Worker : v # w /\ hand[v] # NoPool => hand[v] # hand[w]
    /\ \A p \in Pools : \E x \in 1 .. 5 :
          p \in Places[x] /\ \A y \in 1 .. 5 : y # x => p \notin Places[y]

\* The result says "blocked" exactly when it gives pools up, and every pool has been
\* answered or given up.
ResultAccountsForAll ==
    phase = "over" =>
        /\ blocked <=> (skipped # {})
        /\ covered \cup missing \cup failed \cup skipped = Pools

\* From the first shift to the result no pool is lost, doubled or left unsaid.
PoolsAccounted == EachPoolOnce /\ ResultAccountsForAll

\* What is known of a pool, as the caller will see it.
HeadingOf(p) ==
    CASE p \in covered -> "covered"
      [] p \in missing -> "missing"
      [] p \in failed -> "failed"
      [] OTHER -> "none"

\* The batch of Batch.tla; the flag is seen with the result only.
Promised == INSTANCE Batch WITH
    Items <- Pools, Headings <- {"covered", "missing", "failed"},
    heading <- [p \in Pools |-> HeadingOf(p)], told <- done,
    over <- phase = "over", blocked <- phase = "over" /\ blocked

\* volume.ts:443-458, 504-510: whatever the workers, the sweeps and the provider do, what
\* the caller sees is a batch: an answer is never taken back or given twice, progress is
\* told with each and with nothing else, and the result says what was given up.
ImplementsBatch == Promised!Spec

\* The batch ends, also when the provider never relents.
BatchEnds == <>(phase = "over")

=============================================================================
