----------------------------- MODULE BatchCache -----------------------------
(***************************************************************************)
(* `cachedLogsById` of web/src/lib/chain-cache.ts: the batched per-token   *)
(* queries, one stored record per id.  A call reads all its ids' records   *)
(* in one transaction, asks the chain once per bucket of ids whose records *)
(* reach equally far, the buckets in parallel, and writes all the changed  *)
(* records in one transaction when the last bucket has answered.           *)
(*                                                                         *)
(* One element of Scans is one call in flight, in whatever tab.            *)
(***************************************************************************)
EXTENDS LogChain, LogRanges

\* Each id's query under the one key prefix.
Ids == Queries

VARIABLES
    store,      \* store[i]: the record of id i on disk
    pc,         \* where each call is
    ids,        \* the ids it was called with
    from, to,   \* its request
    seen,       \* seen[s][i]: the record it may reuse for id i (cachedOf)
    pending,    \* the ids whose bucket has not answered yet
    got,        \* got[s][i]: the logs the chain answered for id i (fetchedOf)
    answer      \* answer[s][i]: what it returned for id i

vars == <<chain, tip, store, pc, ids, from, to, seen, pending, got, answer>>

PC == {"idle", "reading", "fetching", "answered"}

Record == [from : 0 .. MaxTip, to : 0 .. MaxTip, logs : SUBSET Log]

TypeOK ==
    /\ ChainTypeOK
    /\ store \in [Ids -> Record]
    /\ pc \in [Scans -> PC]
    /\ ids \in [Scans -> SUBSET Ids]
    /\ from \in [Scans -> 0 .. MaxTip]
    /\ to \in [Scans -> 0 .. MaxTip]
    /\ seen \in [Scans -> [Ids -> Record]]
    /\ pending \in [Scans -> SUBSET Ids]
    /\ got \in [Scans -> [Ids -> SUBSET Log]]
    /\ answer \in [Scans -> [Ids -> SUBSET Log]]

Nothing == [i \in Ids |-> {}]
NoRecords == [i \in Ids |-> NoRecord]

Init ==
    /\ ChainInit
    /\ store = NoRecords
    /\ pc = [s \in Scans |-> "idle"]
    /\ ids = [s \in Scans |-> {}]
    /\ from = [s \in Scans |-> NoBlock]
    /\ to = [s \in Scans |-> NoBlock]
    /\ seen = [s \in Scans |-> NoRecords]
    /\ pending = [s \in Scans |-> {}]
    /\ got = [s \in Scans |-> Nothing]
    /\ answer = [s \in Scans |-> Nothing]

-----------------------------------------------------------------------------
(* The call *)

\* A scan that read the head h from some node asks for a set of ids from f on.
Begin(s) ==
    /\ pc[s] = "idle"
    /\ \E wanted \in SUBSET Ids \ {{}}, f \in Starts, h \in Blocks :
          /\ f <= h /\ h <= tip /\ tip - HeadLag <= h
          /\ ids' = [ids EXCEPT ![s] = wanted]
          /\ from' = [from EXCEPT ![s] = f]
          /\ to' = [to EXCEPT ![s] = h]
    /\ pc' = [pc EXCEPT ![s] = "reading"]
    /\ UNCHANGED <<chain, tip, store, seen, pending, got, answer>>

\* Mutant of Reusable: a record is reused whatever block it starts at.
ReusableAnyStart(rec, f) == rec

\* A record that starts elsewhere counts as none.
Reusable(rec, f) == IF rec.from = f THEN rec ELSE NoRecord

\* store.getMany resolves: with the records, or with nothing when the read failed.
ReadStore(s) ==
    /\ pc[s] = "reading"
    /\ \E records \in {store, NoRecords} :
          seen' = [seen EXCEPT ![s] =
                     [i \in Ids |-> IF i \in ids[s] THEN Reusable(records[i], from[s])
                                                    ELSE NoRecord]]
    /\ pending' = [pending EXCEPT ![s] = ids[s]]
    /\ pc' = [pc EXCEPT ![s] = "fetching"]
    /\ UNCHANGED <<chain, tip, store, ids, from, to, got, answer>>

\* groupByCachedTo: the ids of the bucket that i falls in.
Bucket(s, i) == {j \in ids[s] : seen[s][j].to = seen[s][i].to}

FetchFrom(s, i) == IF seen[s][i] = NoRecord THEN from[s] ELSE seen[s][i].to + 1

\* The chain answers one bucket's query; a bucket that reaches the head asks nothing,
\* and LogsIn of an empty range is that.  The logs are filed under their ids.
FetchBucket(s, i) ==
    /\ pc[s] = "fetching"
    /\ i \in pending[s]
    /\ got' = [got EXCEPT ![s] =
                [j \in Ids |-> IF j \in Bucket(s, i) THEN LogsIn(j, FetchFrom(s, i), to[s])
                                                     ELSE got[s][j]]]
    /\ pending' = [pending EXCEPT ![s] = @ \ Bucket(s, i)]
    /\ UNCHANGED <<chain, tip, store, pc, ids, from, to, seen, answer>>

Merged(s, i) == mergeLogs(seen[s][i].logs, got[s][i])

PersistTo(s, i) == nextPersistTo(seen[s][i].to, from[s], to[s], Depth)

\* Whether id i's record is written: there is something to write, and it would differ.
Writes(s, i) ==
    /\ i \in ids[s]
    /\ PersistTo(s, i) # NoBlock
    /\ ~(seen[s][i] # NoRecord /\ got[s][i] = {} /\ PersistTo(s, i) = seen[s][i].to)

NewRecord(s, i) ==
    [from |-> from[s], to |-> PersistTo(s, i), logs |-> upTo(Merged(s, i), PersistTo(s, i))]

\* Mutant of Finish: the answer holds what the record holds beyond the asked head.
FinishUntrimmed(s) ==
    /\ pc[s] = "fetching"
    /\ pending[s] = {}
    /\ answer' = [answer EXCEPT ![s] =
                   [i \in Ids |-> IF i \in ids[s] THEN Merged(s, i) ELSE {}]]
    /\ store' \in {store, [i \in Ids |-> IF Writes(s, i) THEN NewRecord(s, i) ELSE store[i]]}
    /\ pc' = [pc EXCEPT ![s] = "answered"]
    /\ UNCHANGED <<chain, tip, ids, from, to, seen, pending, got>>

\* The last bucket has answered: every id gets its logs, and the changed records go to
\* disk in one transaction, unawaited, which may be dropped as a whole.
Finish(s) ==
    /\ pc[s] = "fetching"
    /\ pending[s] = {}
    /\ answer' = [answer EXCEPT ![s] =
                   [i \in Ids |-> IF i \in ids[s] THEN upTo(Merged(s, i), to[s]) ELSE {}]]
    /\ store' \in {store, [i \in Ids |-> IF Writes(s, i) THEN NewRecord(s, i) ELSE store[i]]}
    /\ pc' = [pc EXCEPT ![s] = "answered"]
    /\ UNCHANGED <<chain, tip, ids, from, to, seen, pending, got>>

\* The call is over: answered and done with, one of its fetches rejected, or its page gone.
Leave(s) ==
    /\ pc[s] # "idle"
    /\ pc' = [pc EXCEPT ![s] = "idle"]
    /\ ids' = [ids EXCEPT ![s] = {}]
    /\ from' = [from EXCEPT ![s] = NoBlock]
    /\ to' = [to EXCEPT ![s] = NoBlock]
    /\ seen' = [seen EXCEPT ![s] = NoRecords]
    /\ pending' = [pending EXCEPT ![s] = {}]
    /\ got' = [got EXCEPT ![s] = Nothing]
    /\ answer' = [answer EXCEPT ![s] = Nothing]
    /\ UNCHANGED <<chain, tip, store>>

\* "Rescan from chain", in any tab; calls in flight are not told.
resetCaches ==
    /\ store' = NoRecords
    /\ UNCHANGED <<chain, tip, pc, ids, from, to, seen, pending, got, answer>>

ChainStep ==
    /\ Mine \/ Reorg
    /\ UNCHANGED <<store, pc, ids, from, to, seen, pending, got, answer>>

Call(s) ==
    \/ Begin(s)
    \/ ReadStore(s)
    \/ \E i \in Ids : FetchBucket(s, i)
    \/ Finish(s)
    \/ Leave(s)

Next ==
    \/ ChainStep
    \/ resetCaches
    \/ \E s \in Scans : Call(s)

Spec == Init /\ [][Next]_vars

-----------------------------------------------------------------------------
(* Properties *)

\* log-cache.ts:20, for every id: the record's logs are every matching log of the chain
\* in [from, to], and the chain will never disown one of them.
RecordsComplete ==
    \A i \in Ids : store[i] # NoRecord =>
        /\ store[i].logs = LogsIn(i, store[i].from, store[i].to)
        /\ store[i].to + Depth <= tip

\* chain-cache.ts:218-220 and 262-264: every id asked for is answered, with exactly the
\* chain's logs in the settled part of the request and none outside the request.
AnswersExact ==
    \A s \in Scans : pc[s] = "answered" => \A i \in ids[s] :
        /\ \A l \in answer[s][i] : from[s] <= l.block /\ l.block <= to[s]
        /\ upTo(answer[s][i], to[s] - Depth) = LogsIn(i, from[s], to[s] - Depth)

=============================================================================
