----------------------------- MODULE WalletScan -----------------------------
(***************************************************************************)
(* `analyze` of web/src/lib/chain.ts: the calls a page makes of its chain  *)
(* client, a wallet scan (`analyzeWallet`) or the look-up of a transaction *)
(* (`analyzeTx`), with the address they are made for, which the client     *)
(* keeps in ONE variable and puts on a request when it is sent.            *)
(*                                                                         *)
(* A read stands for the requests it is made of.  It waits at the throttle *)
(* (RpcThrottle) until it is sent, and is answered or fails.  The reads of *)
(* a call that is over go on: a rejected Promise.all cancels nothing.      *)
(***************************************************************************)
EXTENDS Naturals, FiniteSets

CONSTANTS
    Scans,          \* wallet scans, each of an allowlisted wallet of its own
    Lookups,        \* transactions looked up
    None,           \* no address
    MaxOpen,        \* calls of analyze open at once
    MaxPositions,   \* bound: positions a wallet has had
    POSITION_CONCURRENCY,
    Attempts        \* of `retry`

Calls == Scans \cup Lookups

ASSUME CallsDistinct == Scans \cap Lookups = {} /\ None \notin Calls
ASSUME BoundsPositive ==
    /\ MaxOpen \in Nat \ {0} /\ MaxPositions \in Nat
    /\ POSITION_CONCURRENCY \in Nat \ {0} /\ Attempts \in Nat \ {0}

VARIABLES
    subject,        \* walletLaneSubject, as the call that set it
    genesisFloor,   \* whether the client has found it yet
    stage,          \* how far each call has come
    read,           \* its serial read and its three prefetches
    count,          \* the positions enumerated
    next,           \* mapPool's cursor
    hand, job,      \* the position each worker is on, and where its read is
    tries,          \* failures of that position so far
    positions, skipped, done,
    met             \* history: the calls that were open together with another

vars == <<subject, genesisFloor, stage, read, count, next, hand, job, tries,
          positions, skipped, done, met>>

Workers == 1 .. POSITION_CONCURRENCY
Prefetches == {"v3 transfers", "v4 transfers", "v3 lifecycle"}
Parts == {"serial"} \cup Prefetches
Serial == {"head", "v3 owned", "floor", "v4 owned", "receipt", "mint", "position"}
Over == {"returned", "thrown"}
NoPosition == 0

TypeOK ==
    /\ subject \in Calls \cup {None}
    /\ genesisFloor \in BOOLEAN
    /\ stage \in [Calls -> Serial \cup Over \cup {"idle", "prefetch", "positions"}]
    /\ read \in [Calls -> [Parts -> {"none", "waiting", "sent", "answered"}]]
    /\ count \in [Calls -> 0 .. MaxPositions]
    /\ next \in [Calls -> 1 .. MaxPositions + 1]
    /\ hand \in [Calls -> [Workers -> 0 .. MaxPositions]]
    /\ job \in [Calls -> [Workers -> {"none", "waiting", "sent", "backoff"}]]
    /\ tries \in [Calls -> [Workers -> 0 .. Attempts]]
    /\ positions \in [Calls -> SUBSET (1 .. MaxPositions)]
    /\ skipped \in [Calls -> SUBSET (1 .. MaxPositions)]
    /\ done \in [Calls -> 0 .. MaxPositions]
    /\ met \in SUBSET Calls

Init ==
    /\ subject = None
    /\ genesisFloor = FALSE
    /\ stage = [c \in Calls |-> "idle"]
    /\ read = [c \in Calls |-> [p \in Parts |-> "none"]]
    /\ count = [c \in Calls |-> 0]
    /\ next = [c \in Calls |-> 1]
    /\ hand = [c \in Calls |-> [w \in Workers |-> NoPosition]]
    /\ job = [c \in Calls |-> [w \in Workers |-> "none"]]
    /\ tries = [c \in Calls |-> [w \in Workers |-> 0]]
    /\ positions = [c \in Calls |-> {}]
    /\ skipped = [c \in Calls |-> {}]
    /\ done = [c \in Calls |-> 0]
    /\ met = {}

work == <<count, next, hand, job, tries, positions, skipped, done>>

Running(c) == stage[c] \notin Over \cup {"idle"}
Open == {c \in Calls : Running(c)}

-----------------------------------------------------------------------------
(* A call begins, goes from read to read, and ends *)

\* The call goes on to a serial read.
Ask(c, s) ==
    /\ stage' = [stage EXCEPT ![c] = s]
    /\ read' = [read EXCEPT ![c]["serial"] = "waiting"]

\* Mutant of Analyze: the subject is cleared after it was set.
AnalyzeClearing(c) ==
    /\ stage[c] = "idle"
    /\ Cardinality(Open) < MaxOpen
    /\ subject' = None
    /\ Ask(c, "head")
    /\ met' = IF Open = {} THEN met ELSE met \cup Open \cup {c}
    /\ UNCHANGED <<genesisFloor, work>>

\* analyze: whatever subject there was is dropped, and a scan sets its own.  The first
\* read of both kinds is the head.  The page disables its form while a call runs, but a
\* rescan first awaits the reset of the caches, and another may begin in between.
Analyze(c) ==
    /\ stage[c] = "idle"
    /\ Cardinality(Open) < MaxOpen
    /\ subject' = IF c \in Scans THEN c ELSE None
    /\ Ask(c, "head")
    /\ met' = IF Open = {} THEN met ELSE met \cup Open \cup {c}
    /\ UNCHANGED <<genesisFloor, work>>

\* A wallet that is not on the list, or neither a wallet nor a transaction: analyze
\* throws, having dropped the subject.
AnalyzeRefused(c) ==
    /\ stage[c] = "idle"
    /\ Cardinality(Open) < MaxOpen
    /\ subject' = None
    /\ stage' = [stage EXCEPT ![c] = "thrown"]
    /\ met' = IF Open = {} THEN met ELSE met \cup Open \cup {c}
    /\ UNCHANGED <<genesisFloor, read, work>>

\* Mutant of Close: no `finally`, only a result clears the subject.
CloseUncleared(c, how) ==
    /\ stage' = [stage EXCEPT ![c] = how]
    /\ subject' = IF how = "returned" THEN None ELSE subject

\* The end of a call, the `finally` that clears the subject included.  The try of
\* analyzeTx begins after its receipt: what fails before leaves the subject as it is.
Close(c, how) ==
    /\ stage' = [stage EXCEPT ![c] = how]
    /\ subject' = IF c \in Lookups /\ stage[c] \in {"head", "receipt"} THEN subject ELSE None

\* resolveGenesisFloor: the first answer is kept for good, a failure is not.
FloorFound(c) ==
    /\ stage[c] = "floor"
    /\ genesisFloor' = TRUE
    /\ Ask(c, "v4 owned")
    /\ UNCHANGED <<subject, work>>

\* What a scan does with the answer to its serial read.
ScanGoesOn(c) ==
    \/ /\ stage[c] = "head"
       /\ Ask(c, "v3 owned")
       /\ UNCHANGED <<subject, genesisFloor, work>>
    \/ /\ stage[c] = "v3 owned"
       /\ Ask(c, IF genesisFloor THEN "v4 owned" ELSE "floor")
       /\ UNCHANGED <<subject, genesisFloor, work>>
    \/ FloorFound(c)
    \/ /\ stage[c] = "v4 owned"
       /\ \E n \in 0 .. MaxPositions : count' = [count EXCEPT ![c] = n]
       /\ stage' = [stage EXCEPT ![c] = "prefetch"]
       /\ read' = [read EXCEPT ![c] =
                     [p \in Parts |-> IF p = "serial" THEN "none" ELSE "waiting"]]
       /\ UNCHANGED <<subject, genesisFloor, next, hand, job, tries, positions, skipped, done>>

\* The receipt is there.  Its sender is allowlisted, or not; the event in it is of a v3
\* position, of a v4 position, whose mint is looked for first, or there is none.
ReceiptRead(c) ==
    /\ stage[c] = "receipt"
    /\ \/ /\ subject' \in {c, subject}
          /\ \E s \in {"mint", "position"} : Ask(c, s)
       \/ /\ stage' = [stage EXCEPT ![c] = "thrown"]
          /\ read' = [read EXCEPT ![c]["serial"] = "none"]
          /\ subject' = None
    /\ UNCHANGED <<genesisFloor, work>>

\* What a look-up does with the answer to its serial read.
LookupGoesOn(c) ==
    \/ /\ stage[c] = "head"
       /\ Ask(c, "receipt")
       /\ UNCHANGED <<subject, genesisFloor, work>>
    \/ ReceiptRead(c)
    \/ /\ stage[c] = "mint"
       /\ Ask(c, "position")
       /\ UNCHANGED <<subject, genesisFloor, work>>
    \/ /\ stage[c] = "position"
       /\ Close(c, "returned")
       /\ read' = [read EXCEPT ![c]["serial"] = "none"]
       /\ UNCHANGED <<genesisFloor, work>>

\* The answer arrives, from the chain or from the caches, which do not hold heads and
\* floors.
Answered(c) ==
    /\ stage[c] \in Serial
    /\ \/ read[c]["serial"] = "sent"
       \/ read[c]["serial"] = "waiting" /\ stage[c] \in {"v3 owned", "v4 owned", "receipt"}
    /\ IF c \in Scans THEN ScanGoesOn(c) ELSE LookupGoesOn(c)
    /\ UNCHANGED met

\* The read fails, or its answer is not one the call can go on with.
Rejected(c) ==
    /\ stage[c] \in Serial
    /\ read[c]["serial"] = "sent"
    /\ read' = [read EXCEPT ![c]["serial"] = "none"]
    /\ Close(c, "thrown")
    /\ UNCHANGED <<genesisFloor, work, met>>

\* A request of the call gets its slot and is sent; taggedRequest reads the subject now.
Send(c) ==
    /\ \/ \E p \in Parts :
            /\ read[c][p] = "waiting"
            /\ read' = [read EXCEPT ![c][p] = "sent"]
            /\ UNCHANGED job
       \/ \E w \in Workers :
            /\ job[c][w] = "waiting"
            /\ job' = [job EXCEPT ![c][w] = "sent"]
            /\ UNCHANGED read
    /\ UNCHANGED <<subject, genesisFloor, stage, count, next, hand, tries,
                   positions, skipped, done, met>>

-----------------------------------------------------------------------------
(* The three prefetches, and the positions *)

\* mapPool: as many workers as there are positions for, each with one of its own.
StartPool(c) ==
    LET busy == {w \in Workers : w <= count[c]}
    IN  /\ hand' = [hand EXCEPT ![c] = [w \in Workers |-> IF w \in busy THEN w ELSE NoPosition]]
        /\ job' = [job EXCEPT ![c] = [w \in Workers |-> IF w \in busy THEN "waiting" ELSE "none"]]
        /\ next' = [next EXCEPT ![c] = Cardinality(busy) + 1]
        /\ IF busy = {} THEN Close(c, "returned")
           ELSE stage' = [stage EXCEPT ![c] = "positions"] /\ UNCHANGED subject

\* A prefetch has its answer, from the chain or, when it asks for nothing new, from the
\* cache.  The last of them starts the pool.
Prefetched(c) == \E p \in Prefetches :
    /\ stage[c] = "prefetch"
    /\ read[c][p] \in {"waiting", "sent"}
    /\ IF \A o \in Prefetches \ {p} : read[c][o] = "answered"
       THEN read' = [read EXCEPT ![c] = [o \in Parts |-> "none"]] /\ StartPool(c)
       ELSE /\ read' = [read EXCEPT ![c][p] = "answered"]
            /\ UNCHANGED <<subject, stage, next, hand, job>>
    /\ UNCHANGED <<genesisFloor, count, tries, positions, skipped, done, met>>

\* One of them fails, and Promise.all with it, at once: the others are left to go on.
PrefetchFails(c) == \E p \in Prefetches :
    /\ stage[c] = "prefetch"
    /\ read[c][p] = "sent"
    /\ read' = [read EXCEPT ![c] = [o \in Parts |->
                  IF o = p \/ @[o] = "answered" THEN "none" ELSE @[o]]]
    /\ Close(c, "thrown")
    /\ UNCHANGED <<genesisFloor, work, met>>

\* A prefetch that was left behind comes to its end, and nobody looks.
OrphanEnds(c) == \E p \in Prefetches :
    /\ stage[c] \in Over
    /\ read[c][p] = "sent"
    /\ read' = [read EXCEPT ![c][p] = "none"]
    /\ UNCHANGED <<subject, genesisFloor, stage, work, met>>

\* Mutant of TakeNext: each worker goes on from its own index, not the shared cursor.
TakeNextOwn(c, w) ==
    LET more == hand[c][w] < count[c]
    IN  /\ hand' = [hand EXCEPT ![c][w] = IF more THEN @ + 1 ELSE NoPosition]
        /\ job' = [job EXCEPT ![c][w] = IF more THEN "waiting" ELSE "none"]
        /\ next' = [next EXCEPT ![c] = IF more /\ hand[c][w] + 1 = @ THEN @ + 1 ELSE @]

\* A worker of mapPool shifts the cursor, or finds the list at its end.
TakeNext(c, w) ==
    LET more == next[c] <= count[c]
    IN  /\ hand' = [hand EXCEPT ![c][w] = IF more THEN next[c] ELSE NoPosition]
        /\ job' = [job EXCEPT ![c][w] = IF more THEN "waiting" ELSE "none"]
        /\ next' = [next EXCEPT ![c] = IF more THEN @ + 1 ELSE @]

\* `run` is through with a position: progress, the next position, and the scan's result
\* once every worker is back.
RunEnds(c, w) ==
    /\ done' = [done EXCEPT ![c] = @ + 1]
    /\ tries' = [tries EXCEPT ![c][w] = 0]
    /\ TakeNext(c, w)
    /\ IF \A v \in Workers : hand'[c][v] = NoPosition THEN Close(c, "returned")
       ELSE UNCHANGED <<subject, stage>>
    /\ UNCHANGED <<genesisFloor, read, count, met>>

PositionComputed(c) == \E w \in Workers :
    /\ job[c][w] = "sent"
    /\ positions' = [positions EXCEPT ![c] = @ \cup {hand[c][w]}]
    /\ UNCHANGED skipped
    /\ RunEnds(c, w)

\* Mutant of PositionFails: the attempt is not counted.
PositionFailsUncounted(c) == \E w \in Workers :
    /\ job[c][w] = "sent"
    /\ job' = [job EXCEPT ![c][w] = "backoff"]
    /\ UNCHANGED <<subject, genesisFloor, stage, read, count, next, hand, tries,
                   positions, skipped, done, met>>

\* An attempt fails; `retry` sleeps, after the last one too.
PositionFails(c) == \E w \in Workers :
    /\ job[c][w] = "sent"
    /\ tries' = [tries EXCEPT ![c][w] = @ + 1]
    /\ job' = [job EXCEPT ![c][w] = "backoff"]
    /\ UNCHANGED <<subject, genesisFloor, stage, read, count, next, hand,
                   positions, skipped, done, met>>

\* The position is tried once more.
RetryAgain(c) == \E w \in Workers :
    /\ job[c][w] = "backoff" /\ tries[c][w] < Attempts
    /\ job' = [job EXCEPT ![c][w] = "waiting"]
    /\ UNCHANGED <<subject, genesisFloor, stage, read, count, next, hand, tries,
                   positions, skipped, done, met>>

\* The attempts are used up: the position is skipped.
GiveUp(c) == \E w \in Workers :
    /\ job[c][w] = "backoff" /\ tries[c][w] = Attempts
    /\ skipped' = [skipped EXCEPT ![c] = @ \cup {hand[c][w]}]
    /\ UNCHANGED positions
    /\ RunEnds(c, w)

-----------------------------------------------------------------------------

\* Everything that happens to a call once it has begun.
Proceed(c) ==
    \/ Answered(c) \/ Rejected(c) \/ Send(c)
    \/ Prefetched(c) \/ PrefetchFails(c) \/ OrphanEnds(c)
    \/ PositionComputed(c) \/ PositionFails(c) \/ RetryAgain(c) \/ GiveUp(c)

AllOver ==
    /\ \A c \in Calls : stage[c] \in Over /\ \A p \in Parts : read[c][p] = "none"
    /\ UNCHANGED vars

Next == AllOver \/ \E c \in Calls : Analyze(c) \/ AnalyzeRefused(c) \/ Proceed(c)

Spec == Init /\ [][Next]_vars

\* Slots come free and requests are answered somehow (RpcThrottle!EveryCallSettles), and
\* timers fire.  That answers are good is not assumed.
FairSpec == Spec /\ \A c \in Calls : WF_vars(Proceed(c))

-----------------------------------------------------------------------------
(* Properties *)

InHand(c) == {hand[c][w] : w \in Workers} \ {NoPosition}

\* Every position a running scan has taken is with one worker or has one outcome, however
\* the three finish, fail and retry; those it has not taken are with nobody, and progress
\* counts the outcomes.
EachPositionOnce ==
    \A c \in Scans :
        /\ \A v, w \in Workers : v # w /\ hand[c][v] = hand[c][w] => hand[c][v] = NoPosition
        /\ positions[c] \cap skipped[c] = {}
        /\ InHand(c) \cap (positions[c] \cup skipped[c]) = {}
        /\ InHand(c) \cup positions[c] \cup skipped[c] = 1 .. next[c] - 1
        /\ done[c] = Cardinality(positions[c] \cup skipped[c])

\* A scan that returns has an outcome for every position it enumerated: failures fill
\* `skipped`, none of them takes the scan or another position down.
ResultComplete ==
    \A c \in Scans : stage[c] = "returned" => positions[c] \cup skipped[c] = 1 .. count[c]

\* From the enumeration to the return every position is accounted for.
PositionsAccounted == TypeOK /\ EachPositionOnce /\ ResultComplete

\* The subject never outlives the call that set it, whatever failed in between.
NoStaleSubject == subject # None => Running(subject)

Sends(c) ==
    \/ \E p \in Parts : read[c][p] = "waiting" /\ read'[c][p] = "sent"
    \/ \E w \in Workers : job[c][w] = "waiting" /\ job'[c][w] = "sent"

\* Of a call that never shared the page with another, every request of a scan carries the
\* scan's wallet, and a look-up's carries no address but its own sender's.
TaggedWhenAlone ==
    [][\A c \in Calls \ met : Running(c) /\ Sends(c) =>
         subject \in (IF c \in Scans THEN {c} ELSE {c, None})]_vars

\* Every call ends, though every read of it may fail.
CallsEnd == \A c \in Calls : Running(c) ~> ~Running(c)

=============================================================================
