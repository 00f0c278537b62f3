----------------------------- MODULE PointCache -----------------------------
(***************************************************************************)
(* One immutable fact of the chain behind its two caches: the page's memo  *)
(* of promises (`cachedByKey`, web/src/lib/promise-cache.ts) and the point *)
(* on disk (`cachedPoint`, web/src/lib/chain-cache.ts), read by the scans  *)
(* and the background work of one page, and thrown away by "Rescan from    *)
(* chain" while they run.                                                  *)
(*                                                                         *)
(* The fact is the content of one block (a receipt, a timestamp).  The     *)
(* chain may still replace that block while it is less than Depth behind   *)
(* the tip; the cache waits REORG_DEPTH before it writes the fact down.    *)
(***************************************************************************)
EXTENDS Integers

CONSTANTS
    Callers,      \* calls of cachedPoint for this key, one load each at most
    Facts,        \* what the block may hold
    At,           \* the block
    MaxTip,       \* bound: the last block mined
    Depth,        \* how deep the chain really reorganises
    REORG_DEPTH,  \* how deep the cache trusts it not to
    Transit,      \* blocks mined at most while one answer is on its way back
    MaxResets,    \* bound: resets in a behaviour
    NoFact        \* no fact, no call

ASSUME NoFactAssumption == NoFact \notin Facts /\ NoFact \notin Callers
ASSUME BlocksValid ==
    /\ At \in Nat \ {0} /\ MaxTip \in Nat /\ At <= MaxTip
    /\ Depth \in Nat /\ REORG_DEPTH \in Nat /\ Transit \in Nat /\ MaxResets \in Nat
\* chain-cache.ts:60: the depth may not be below "a chain's real reorg depth"; and an
\* answer is judged by the head known when it arrives, not when it was given.
ASSUME DepthSuffices == Depth + Transit <= REORG_DEPTH

VARIABLES
    tip, fact,      \* the canonical chain, and what block At holds in it
    observedHead,   \* the highest head this page was told of
    store,          \* the point on disk
    memo,           \* the call whose promise the page's memo holds
    pc,             \* where each call is
    follows,        \* the call whose promise each call returned (its own, or a memo hit)
    got,            \* what its load has in hand, or resolved to
    seen,           \* the point its load read, NoFact if there was none
    sentTip,        \* history: the tip when its answer was given
    resets,         \* history: resets so far
    born,           \* history: resets before each call was made
    storedIn,       \* history: resets before the point on disk was written
    origin          \* history: resets before what its load resolves to was settled,
                    \*   on the disk or by an answer

pointVars == <<tip, fact, observedHead, store, memo, pc, follows, got, seen,
          sentTip, resets, born, storedIn, origin>>

\* "reading" the store, "asking" the chain, "answered" by a node, then settled; a call
\* that was handed another's promise is "waiting" on it.
PC == {"idle", "reading", "asking", "answered", "resolved", "rejected", "waiting"}
Loading == {"reading", "asking", "answered"}

PointTypeOK ==
    /\ tip \in At .. MaxTip /\ fact \in Facts
    /\ observedHead \in 0 .. MaxTip
    /\ store \in Facts \cup {NoFact}
    /\ memo \in Callers \cup {NoFact}
    /\ pc \in [Callers -> PC]
    /\ follows \in [Callers -> Callers \cup {NoFact}]
    /\ got \in [Callers -> Facts \cup {NoFact}]
    /\ sentTip \in [Callers -> 0 .. MaxTip]
    /\ seen \in [Callers -> Facts \cup {NoFact}]
    /\ resets \in 0 .. MaxResets
    /\ born \in [Callers -> 0 .. MaxResets]
    /\ storedIn \in 0 .. MaxResets
    /\ origin \in [Callers -> 0 .. MaxResets]

PointInit ==
    /\ tip = At /\ fact \in Facts
    /\ observedHead = 0
    /\ store = NoFact /\ memo = NoFact
    /\ pc = [c \in Callers |-> "idle"]
    /\ follows = [c \in Callers |-> NoFact]
    /\ got = [c \in Callers |-> NoFact]
    /\ sentTip = [c \in Callers |-> 0]
    /\ seen = [c \in Callers |-> NoFact]
    /\ resets = 0 /\ born = [c \in Callers |-> 0]
    /\ storedIn = 0 /\ origin = [c \in Callers |-> 0]

history == <<sentTip, resets, born, storedIn, origin>>
caches == <<observedHead, store, memo>>
calls == <<pc, follows, got, seen>>

-----------------------------------------------------------------------------
(* The chain *)

\* An answer under way is delivered, or given up, before Transit blocks have gone by.
Mine ==
    /\ tip < MaxTip
    /\ \A c \in Callers : pc[c] = "answered" => tip < sentTip[c] + Transit
    /\ tip' = tip + 1
    /\ UNCHANGED <<fact, caches, calls, history>>

Reorg ==
    /\ tip < At + Depth
    /\ fact' \in Facts
    /\ UNCHANGED <<tip, caches, calls, history>>

-----------------------------------------------------------------------------
(* The caches *)

\* A scan reads a head, which may be a lagging node's, and tells the cache.
noteHead ==
    /\ \E head \in At .. tip : head > observedHead /\ observedHead' = head
    /\ UNCHANGED <<tip, fact, store, memo, calls, history>>

\* Mutant of isFinal: the block itself is counted among those on top of it.
isFinalOffByOne(block) == observedHead > 0 /\ block + REORG_DEPTH <= observedHead + 1

isFinal(block) == observedHead > 0 /\ block + REORG_DEPTH <= observedHead

\* cachedByKey: a memo hit hands out the promise that is there, whatever becomes of it...
MemoHit(c) ==
    /\ pc[c] = "idle"
    /\ memo # NoFact
    /\ follows' = [follows EXCEPT ![c] = memo]
    /\ pc' = [pc EXCEPT ![c] = "waiting"]
    /\ born' = [born EXCEPT ![c] = resets]
    /\ UNCHANGED <<tip, fact, caches, got, seen, sentTip, resets, storedIn, origin>>

\* ...a miss starts a load, remembers its promise and issues the read of the disk, whose
\* answer is the point of that moment: IndexedDB orders transactions as they are created.
MemoMiss(c) ==
    /\ pc[c] = "idle"
    /\ memo = NoFact
    /\ memo' = c
    /\ follows' = [follows EXCEPT ![c] = c]
    /\ seen' = [seen EXCEPT ![c] = store]
    /\ pc' = [pc EXCEPT ![c] = "reading"]
    /\ born' = [born EXCEPT ![c] = resets]
    /\ origin' = [origin EXCEPT ![c] = storedIn]
    /\ UNCHANGED <<tip, fact, observedHead, store, got, sentTip, resets, storedIn>>

\* store.get resolves: with the point...
PointHit(c) ==
    /\ pc[c] = "reading"
    /\ seen[c] # NoFact
    /\ got' = [got EXCEPT ![c] = seen[c]]
    /\ pc' = [pc EXCEPT ![c] = "resolved"]
    /\ UNCHANGED <<tip, fact, caches, follows, seen, history>>

\* ...or with nothing, for want of one or because the read failed: the chain is asked.
PointMiss(c) ==
    /\ pc[c] = "reading"
    /\ pc' = [pc EXCEPT ![c] = "asking"]
    /\ UNCHANGED <<tip, fact, caches, follows, got, seen, history>>

\* A node answers; the answer is on its way.
NodeAnswers(c) ==
    /\ pc[c] = "asking"
    /\ got' = [got EXCEPT ![c] = fact]
    /\ sentTip' = [sentTip EXCEPT ![c] = tip]
    /\ pc' = [pc EXCEPT ![c] = "answered"]
    /\ UNCHANGED <<tip, fact, caches, follows, seen, resets, born, storedIn, origin>>

\* The answer arrives: written down if its block is final by now, unawaited, and perhaps
\* dropped; shared through the promise either way.
Resolve(c) ==
    /\ pc[c] = "answered"
    /\ \/ UNCHANGED <<store, storedIn>>
       \/ isFinal(At) /\ store' = got[c] /\ storedIn' = resets
    /\ pc' = [pc EXCEPT ![c] = "resolved"]
    /\ origin' = [origin EXCEPT ![c] = resets]
    /\ UNCHANGED <<tip, fact, observedHead, memo, follows, got, seen, sentTip, resets, born>>

\* Mutant of Reject: the rejected promise stays in the memo.
RejectKept(c) ==
    /\ pc[c] \in {"asking", "answered"}
    /\ pc' = [pc EXCEPT ![c] = "rejected"]
    /\ UNCHANGED <<tip, fact, caches, follows, got, seen, history>>

\* The fetcher rejects: cache.delete(key), whoever's promise is under that key by now.
Reject(c) ==
    /\ pc[c] \in {"asking", "answered"}
    /\ memo' = NoFact
    /\ pc' = [pc EXCEPT ![c] = "rejected"]
    /\ UNCHANGED <<tip, fact, observedHead, store, follows, got, seen, history>>

\* Mutant of resetCaches: the disk is cleared and the page's memo is not.
resetCachesOnDisk ==
    /\ resets < MaxResets
    /\ resets' = resets + 1
    /\ store' = NoFact
    /\ UNCHANGED <<tip, fact, observedHead, memo, calls, sentTip, born, storedIn, origin>>

\* "Rescan from chain": the memo is dropped and the clear of the disk issued before
\* anything else of the page runs; the loads under way are not told.
resetCaches ==
    /\ resets < MaxResets
    /\ resets' = resets + 1
    /\ memo' = NoFact
    /\ store' = NoFact
    /\ UNCHANGED <<tip, fact, observedHead, calls, sentTip, born, storedIn, origin>>

Load(c) ==
    \/ PointHit(c)
    \/ PointMiss(c)
    \/ NodeAnswers(c)
    \/ Resolve(c)
    \/ Reject(c)

AllSettled == \A c \in Callers : pc[c] \in {"resolved", "rejected", "waiting"}

PointNext ==
    \/ Mine \/ Reorg
    \/ noteHead
    \/ resetCaches
    \/ \E c \in Callers : MemoHit(c) \/ MemoMiss(c) \/ Load(c)
    \/ AllSettled /\ UNCHANGED pointVars

PointSpec == PointInit /\ [][PointNext]_pointVars

-----------------------------------------------------------------------------
(* Properties *)

\* chain-cache.ts:50-61 and 112-119: what is on disk is what the chain holds, and the
\* chain will not take it back, although finality is judged when the answer arrives and
\* the head may have moved since it was given.
StoredIsFinal == store # NoFact => store = fact /\ At + Depth <= tip

\* promise-cache.ts:12-13: "a rejected entry is EVICTED": the memo never hands out a
\* failure, whatever resets and other loads of the same key happened since.
NeverPoisoned == memo # NoFact => pc[memo] # "rejected"

\* The same, with every call's promise where the memo and its followers say it is.
MemoSound == PointTypeOK /\ NeverPoisoned

\* chain-cache.ts:279-281, resetCaches: nothing that the memo or the disk had settled on
\* before a rescan is handed to a call made after it, whether by a memo hit, by the disk or
\* through a load of before the rescan that wrote the disk.  That it "reads the chain from
\* scratch" is more than the code does: a load the rescan found under way may still write
\* what a node told it before (cachedPoint's put), and a call after the rescan takes that.
RescanForgets ==
    \A c \in Callers :
        follows[c] # NoFact /\ pc[follows[c]] = "resolved" => origin[follows[c]] >= born[c]

=============================================================================
