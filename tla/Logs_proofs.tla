---------------------------- MODULE Logs_proofs ----------------------------
(***************************************************************************)
(* Proofs about the two log caches: every record on disk is complete and   *)
(* every answer exact, for any number of scans and tabs, any ids, any      *)
(* reorg depth, any lag of the heads and any length of the chain.          *)
(*                                                                         *)
(* A record is written from what a scan read long before: the inductive    *)
(* invariants therefore say of the copy in a scan's hands what they say of *)
(* the record on disk, and of the logs fetched that their settled part is  *)
(* the chain's.  First come the facts about the chain both rest on, then   *)
(* BatchCache, whose theorems hold for any start blocks, then RangeCache,  *)
(* whose theorems need all requests of a key to start at one block: without*)
(* that premise they are false (chain-cache.ts:192).                       *)
(***************************************************************************)
EXTENDS RangeCache, BatchCache, TLAPS

-----------------------------------------------------------------------------
(* Histories *)

\* Two histories that agree on the blocks up to t match the same logs there.
LEMMA MatchingAgrees ==
    ASSUME NEW old, NEW new, NEW f \in Int, NEW t \in Int,
           \A b \in Blocks : b <= t => new[b] = old[b]
    PROVE  Matching(new, f, t) = Matching(old, f, t)
  <1>1. \A b \in {x \in Blocks : f <= x /\ x <= t /\ old[x] # NoLog} : new[b] = old[b]
    OBVIOUS
  <1>2. {x \in Blocks : f <= x /\ x <= t /\ new[x] # NoLog}
          = {x \in Blocks : f <= x /\ x <= t /\ old[x] # NoLog}
    OBVIOUS
  <1> QED BY <1>1, <1>2 DEF Matching

\* The logs of a history are logs, and lie where they were looked for.
LEMMA MatchingBounds ==
    ASSUME NEW history \in [Blocks -> Content], NEW f \in Int, NEW t \in Int
    PROVE  /\ Matching(history, f, t) \subseteq Log
           /\ \A l \in Matching(history, f, t) : f <= l.block /\ l.block <= t
  BY DEF Matching, Log

\* A log of a history is its block's content, and is matched by every range around it.
LEMMA MatchingMember ==
    ASSUME NEW history, NEW f \in Int, NEW t \in Int, NEW l
    PROVE  l \in Matching(history, f, t) <=>
             \E b \in Blocks : /\ f <= b /\ b <= t /\ history[b] # NoLog
                               /\ l = [block |-> b, content |-> history[b]]
  BY DEF Matching

\* A cached prefix [f, m] merged with new logs above m is the history up to t, as
\* soon as the new part is.
LEMMA MergeExtends ==
    ASSUME NEW history \in [Blocks -> Content], NEW f \in Int, NEW m \in Int, NEW t \in Int,
           f <= m + 1,
           NEW more \in SUBSET Log,
           \A l \in more : m + 1 <= l.block,
           upTo(more, t) = Matching(history, m + 1, t)
    PROVE  upTo(mergeLogs(Matching(history, f, m), more), t) = Matching(history, f, t)
  <1> DEFINE cached == Matching(history, f, m)
  <1>1. \A l \in cached : l.block \in Int /\ f <= l.block /\ l.block <= m
    BY MatchingBounds DEF Log, Blocks
  <1>2. \A l \in more : l.block \in Int
    BY DEF Log, Blocks
  <1>3. mergeLogs(cached, more) = cached \cup more
    BY <1>1, <1>2 DEF mergeLogs
  <1>4. ASSUME NEW l \in Matching(history, f, t)
        PROVE  l \in upTo(cached \cup more, t)
    <2>1. PICK b \in Blocks : /\ f <= b /\ b <= t /\ history[b] # NoLog
                              /\ l = [block |-> b, content |-> history[b]]
      BY <1>4, MatchingMember
    <2>2. b \in Int /\ l.block = b
      BY <2>1 DEF Blocks
    <2>3. CASE b <= m
      <3>1. l \in cached
        BY <2>1, <2>3, MatchingMember
      <3> QED BY <3>1, <2>1, <2>2 DEF upTo
    <2>4. CASE m + 1 <= b
      <3>1. l \in Matching(history, m + 1, t)
        BY <2>1, <2>4, MatchingMember
      <3> HIDE DEF cached
      <3> QED BY <3>1 DEF upTo
    <2> QED BY <2>2, <2>3, <2>4
  <1>5. ASSUME NEW l \in upTo(cached \cup more, t)
        PROVE  l \in Matching(history, f, t)
    <2>1. CASE l \in cached
      <3>1. PICK b \in Blocks : /\ f <= b /\ b <= m /\ history[b] # NoLog
                                /\ l = [block |-> b, content |-> history[b]]
        BY <2>1, MatchingMember
      <3>2. b <= t
        BY <3>1, <1>5 DEF upTo
      <3> QED BY <3>1, <3>2, MatchingMember
    <2>2. CASE l \in more
      <3>1. l \in Matching(history, m + 1, t)
        BY <2>2, <1>5 DEF upTo
      <3>2. PICK b \in Blocks : /\ m + 1 <= b /\ b <= t /\ history[b] # NoLog
                                /\ l = [block |-> b, content |-> history[b]]
        BY <3>1, MatchingMember
      <3>3. f <= b
        BY <3>2 DEF Blocks
      <3> QED BY <3>2, <3>3, MatchingMember
    <2> QED BY <1>5, <2>1, <2>2 DEF upTo
  <1> QED BY <1>3, <1>4, <1>5

-----------------------------------------------------------------------------
(* The chain moves on *)

\* What is settled stays as it is, and settled.
LEMMA SettledStays ==
    ASSUME ChainTypeOK, Mine \/ Reorg
    PROVE  /\ tip' \in Blocks /\ tip <= tip'
           /\ chain' \in [Queries -> [Blocks -> Content]]
           /\ \A q \in Queries, b \in Blocks : b + Depth <= tip => chain'[q][b] = chain[q][b]
  <1> USE ChainBounds DEF ChainTypeOK, Blocks
  <1>1. CASE Mine
    BY <1>1 DEF Mine
  <1>2. CASE Reorg
    <2>1. PICK b \in Blocks, new \in [Queries -> Content] :
            /\ ~Settled(b)
            /\ chain' = [q \in Queries |-> [chain[q] EXCEPT ![b] = new[q]]]
      BY <1>2 DEF Reorg
    <2>2. tip' = tip
      BY <1>2 DEF Reorg
    <2> QED BY <2>1, <2>2 DEF Settled
  <1> QED BY <1>1, <1>2

\* So every settled range of a query matches the same logs after the step.
LEMMA SettledLogsStay ==
    ASSUME ChainTypeOK, Mine \/ Reorg, NEW q \in Queries
    PROVE  \A f, t \in Int : t + Depth <= tip =>
                Matching(chain'[q], f, t) = Matching(chain[q], f, t)
  <1> SUFFICES ASSUME NEW f \in Int, NEW t \in Int, t + Depth <= tip
               PROVE  Matching(chain'[q], f, t) = Matching(chain[q], f, t)
    OBVIOUS
  <1>1. \A b \in Blocks : b <= t => chain'[q][b] = chain[q][b]
    <2> SUFFICES ASSUME NEW b \in Blocks, b <= t
                 PROVE  b + Depth <= tip
      BY SettledStays
    <2> QED BY ChainBounds DEF Blocks, ChainTypeOK
  <1> QED BY <1>1, MatchingAgrees

-----------------------------------------------------------------------------
(* BatchCache *)

-----------------------------------------------------------------------------
(* The inductive invariant *)

\* A record is the settled history of what it covers.
Sound(i, rec) ==
    rec # NoRecord =>
        /\ rec.from \in Blocks
        /\ rec.from <= rec.to
        /\ rec.to + Depth <= tip
        /\ rec.logs = LogsIn(i, rec.from, rec.to)

StoreSound == \A i \in Ids : Sound(i, store[i])

\* What a call has read is no worse than what is stored, and fits its request.
SeenSound ==
    \A s \in Scans :
        /\ pc[s] = "idle" => seen[s] = NoRecords
        /\ \A i \in Ids : /\ Sound(i, seen[s][i])
                          /\ seen[s][i] # NoRecord => seen[s][i].from = from[s]

\* A call in flight asks for blocks of the chain.
RequestSound ==
    \A s \in Scans : pc[s] # "idle" => from[s] \in Blocks /\ from[s] <= to[s] /\ to[s] <= tip

\* What a bucket brought is the rest of each id's history, up to the settled block.
FetchedSound ==
    \A s \in Scans : pc[s] = "fetching" => \A i \in ids[s] \ pending[s] :
        /\ \A l \in got[s][i] : FetchFrom(s, i) <= l.block /\ l.block <= to[s]
        /\ upTo(got[s][i], to[s] - Depth) = LogsIn(i, FetchFrom(s, i), to[s] - Depth)

Inv == TypeOK /\ StoreSound /\ SeenSound /\ RequestSound /\ FetchedSound /\ AnswersExact

-----------------------------------------------------------------------------
(* The chain moves on *)

\* A sound record stays sound.
LEMMA SoundStays ==
    ASSUME TypeOK, Mine \/ Reorg, NEW i \in Ids, NEW rec \in Record, Sound(i, rec)
    PROVE  rec # NoRecord =>
             /\ rec.from \in Blocks /\ rec.from <= rec.to /\ rec.to + Depth <= tip'
             /\ rec.logs = Matching(chain'[i], rec.from, rec.to)
  <1> SUFFICES ASSUME rec # NoRecord
               PROVE  /\ rec.to + Depth <= tip'
                      /\ rec.logs = Matching(chain'[i], rec.from, rec.to)
    BY DEF Sound
  <1>1. /\ rec.from \in Int /\ rec.to \in Int /\ rec.to + Depth <= tip
        /\ rec.logs = Matching(chain[i], rec.from, rec.to)
    BY DEF Sound, LogsIn, Record
  <1>2. tip \in Int /\ tip' \in Int /\ tip <= tip'
    BY SettledStays DEF TypeOK, ChainTypeOK, Blocks
  <1>3. rec.to + Depth <= tip'
    BY <1>1, <1>2, ChainBounds
  <1>4. Matching(chain'[i], rec.from, rec.to) = Matching(chain[i], rec.from, rec.to)
    BY <1>1, SettledLogsStay DEF Ids, TypeOK
  <1> QED BY <1>1, <1>3, <1>4

-----------------------------------------------------------------------------
(* The steps *)

LEMMA InitSound == Init => Inv
  <1> SUFFICES ASSUME Init PROVE Inv
    OBVIOUS
  <1>1. NoRecord \in Record
    BY ChainBounds DEF NoRecord, NoBlock, Record
  <1>2. TypeOK
    BY <1>1, ChainBounds, EmptyContent
       DEF Init, ChainInit, TypeOK, ChainTypeOK, Blocks, PC, NoRecords, Nothing, NoBlock
  <1>3. StoreSound /\ SeenSound
    BY DEF Init, StoreSound, SeenSound, Sound, NoRecords
  <1>4. RequestSound /\ FetchedSound /\ AnswersExact
    BY DEF Init, RequestSound, FetchedSound, AnswersExact
  <1> QED BY <1>2, <1>3, <1>4 DEF Inv

LEMMA ChainStepKeeps == Inv /\ ChainStep => Inv'
  <1> SUFFICES ASSUME Inv, ChainStep PROVE Inv'
    OBVIOUS
  <1>1. Mine \/ Reorg
    BY DEF ChainStep
  <1>2. UNCHANGED <<store, pc, ids, from, to, seen, pending, got, answer>>
    BY DEF ChainStep
  <1>3. TypeOK'
    BY <1>1, <1>2, SettledStays DEF Inv, TypeOK, ChainTypeOK
  <1>4. StoreSound'
    BY <1>1, <1>2, SoundStays DEF Inv, TypeOK, StoreSound, Sound, LogsIn
  <1>5. SeenSound'
    BY <1>1, <1>2, SoundStays DEF Inv, TypeOK, SeenSound, Sound, LogsIn
  <1>6. RequestSound'
    BY <1>1, <1>2, SettledStays DEF Inv, TypeOK, ChainTypeOK, RequestSound, Blocks
  <1>7. ASSUME NEW s \in Scans, pc[s] # "idle", NEW i \in Ids, NEW f \in Int
        PROVE  Matching(chain'[i], f, to[s] - Depth) = Matching(chain[i], f, to[s] - Depth)
    <2>1. to[s] - Depth \in Int /\ (to[s] - Depth) + Depth <= tip
      BY <1>7, ChainBounds DEF Inv, TypeOK, ChainTypeOK, RequestSound, Blocks
    <2> QED BY <1>1, <2>1, SettledLogsStay DEF Inv, Ids, TypeOK
  <1>8. FetchedSound'
    <2> SUFFICES ASSUME NEW s \in Scans, pc[s] = "fetching", NEW i \in ids[s] \ pending[s]
                 PROVE  LogsIn(i, FetchFrom(s, i), to[s] - Depth)'
                          = LogsIn(i, FetchFrom(s, i), to[s] - Depth)
      BY <1>2 DEF Inv, FetchedSound, FetchFrom, upTo
    <2>1. i \in Ids /\ FetchFrom(s, i) \in Int /\ FetchFrom(s, i)' = FetchFrom(s, i)
      BY <1>2 DEF Inv, TypeOK, FetchFrom, Record
    <2> QED BY <1>2, <1>7, <2>1 DEF LogsIn
  <1>9. AnswersExact'
    <2> SUFFICES ASSUME NEW s \in Scans, pc[s] = "answered", NEW i \in ids[s]
                 PROVE  LogsIn(i, from[s], to[s] - Depth)' = LogsIn(i, from[s], to[s] - Depth)
      BY <1>2 DEF Inv, AnswersExact, upTo
    <2>1. i \in Ids /\ from[s] \in Int
      BY DEF Inv, TypeOK
    <2> QED BY <1>2, <1>7, <2>1 DEF LogsIn
  <1> QED BY <1>3, <1>4, <1>5, <1>6, <1>8, <1>9 DEF Inv

\* A clear forgets records; there is nothing wrong with no record.
LEMMA ResetKeeps == Inv /\ resetCaches => Inv'
  <1> SUFFICES ASSUME Inv, resetCaches PROVE Inv'
    OBVIOUS
  <1>1. NoRecord \in Record
    BY ChainBounds DEF NoRecord, NoBlock, Record
  <1>2. TypeOK'
    BY <1>1 DEF Inv, resetCaches, TypeOK, ChainTypeOK, NoRecords
  <1>3. StoreSound'
    BY DEF resetCaches, StoreSound, Sound, NoRecords
  <1>4. SeenSound' /\ RequestSound' /\ FetchedSound' /\ AnswersExact'
    BY DEF Inv, resetCaches, SeenSound, RequestSound, FetchedSound, AnswersExact, Sound,
           LogsIn, FetchFrom
  <1> QED BY <1>2, <1>3, <1>4 DEF Inv

LEMMA BeginKeeps == ASSUME NEW s \in Scans PROVE Inv /\ Begin(s) => Inv'
  <1> SUFFICES ASSUME Inv, Begin(s) PROVE Inv'
    OBVIOUS
  <1>1. PICK wanted \in SUBSET Ids, f \in Starts, h \in Blocks :
          /\ f <= h /\ h <= tip
          /\ ids' = [ids EXCEPT ![s] = wanted]
          /\ from' = [from EXCEPT ![s] = f]
          /\ to' = [to EXCEPT ![s] = h]
    BY DEF Begin
  <1>2. f \in Blocks /\ f \in 0 .. MaxTip /\ h \in 0 .. MaxTip
    BY RequestsValid, ChainBounds DEF Blocks
  <1>3. pc[s] = "idle" /\ pc' = [pc EXCEPT ![s] = "reading"]
    BY DEF Begin
  <1>4. UNCHANGED <<chain, tip, store, seen, pending, got, answer>>
    BY DEF Begin
  <1>5. TypeOK'
    BY <1>1, <1>2, <1>3, <1>4 DEF Inv, TypeOK, ChainTypeOK, PC
  <1>6. StoreSound'
    BY <1>4 DEF Inv, StoreSound, Sound, LogsIn
  <1>7. SeenSound'
    <2>1. \A i \in Ids : seen[s][i] = NoRecord
      BY <1>3 DEF Inv, SeenSound, NoRecords
    <2>2. \A p \in Scans, i \in Ids : Sound(i, seen[p][i])'
      BY <1>4 DEF Inv, SeenSound, Sound, LogsIn
    <2>3. \A p \in Scans : p # s => from'[p] = from[p] /\ pc'[p] = pc[p]
      BY <1>1, <1>3 DEF Inv, TypeOK
    <2>4. pc'[s] = "reading"
      BY <1>3 DEF Inv, TypeOK
    <2> QED BY <1>4, <2>1, <2>2, <2>3, <2>4 DEF Inv, SeenSound
  <1>8. RequestSound'
    BY <1>1, <1>2, <1>3, <1>4 DEF Inv, TypeOK, RequestSound
  <1>9. \A p \in Scans : pc'[p] \in {"fetching", "answered"} =>
           p # s /\ pc[p] = pc'[p] /\ ids'[p] = ids[p] /\ from'[p] = from[p] /\ to'[p] = to[p]
    BY <1>1, <1>3 DEF Inv, TypeOK
  <1>10. FetchedSound' /\ AnswersExact'
    BY <1>4, <1>9 DEF Inv, FetchedSound, AnswersExact, LogsIn, FetchFrom
  <1> QED BY <1>5, <1>6, <1>7, <1>8, <1>10 DEF Inv

LEMMA LeaveKeeps == ASSUME NEW s \in Scans PROVE Inv /\ Leave(s) => Inv'
  <1> SUFFICES ASSUME Inv, Leave(s) PROVE Inv'
    OBVIOUS
  <1> USE DEF Leave
  <1>1. NoRecord \in Record
    BY ChainBounds DEF NoRecord, NoBlock, Record
  <1>2. NoBlock \in 0 .. MaxTip /\ NoRecords \in [Ids -> Record] /\ Nothing \in [Ids -> SUBSET Log]
    BY <1>1, ChainBounds DEF NoBlock, NoRecords, Nothing
  <1>3. TypeOK'
    BY <1>2 DEF Inv, TypeOK, ChainTypeOK, PC
  <1>4. StoreSound'
    BY DEF Inv, StoreSound, Sound, LogsIn
  <1>5. \A p \in Scans : p # s =>
           /\ pc'[p] = pc[p] /\ ids'[p] = ids[p] /\ from'[p] = from[p] /\ to'[p] = to[p]
           /\ seen'[p] = seen[p] /\ pending'[p] = pending[p] /\ got'[p] = got[p]
           /\ answer'[p] = answer[p]
    BY DEF Inv, TypeOK
  <1>6. pc'[s] = "idle" /\ seen'[s] = NoRecords
    BY DEF Inv, TypeOK
  <1>7. SeenSound'
    <2>1. \A i \in Ids : seen'[s][i] = NoRecord
      BY <1>6 DEF NoRecords
    <2> QED BY <1>5, <1>6, <2>1 DEF Inv, SeenSound, Sound, LogsIn
  <1>8. RequestSound'
    BY <1>5, <1>6 DEF Inv, RequestSound
  <1>9. FetchedSound' /\ AnswersExact'
    BY <1>5, <1>6 DEF Inv, FetchedSound, AnswersExact, LogsIn, FetchFrom
  <1> QED BY <1>3, <1>4, <1>7, <1>8, <1>9 DEF Inv

\* What is read is what is stored, or nothing.
LEMMA ReadStoreKeeps == ASSUME NEW s \in Scans PROVE Inv /\ ReadStore(s) => Inv'
  <1> SUFFICES ASSUME Inv, ReadStore(s) PROVE Inv'
    OBVIOUS
  <1>1. PICK records \in {store, NoRecords} :
          seen' = [seen EXCEPT ![s] =
                     [i \in Ids |-> IF i \in ids[s] THEN Reusable(records[i], from[s])
                                                    ELSE NoRecord]]
    BY DEF ReadStore
  <1>2. pc[s] = "reading" /\ pc' = [pc EXCEPT ![s] = "fetching"]
        /\ pending' = [pending EXCEPT ![s] = ids[s]]
    BY DEF ReadStore
  <1>3. UNCHANGED <<chain, tip, store, ids, from, to, got, answer>>
    BY DEF ReadStore
  <1>4. NoRecord \in Record
    BY ChainBounds DEF NoRecord, NoBlock, Record
  <1>5. \A i \in Ids : records[i] \in Record /\ Sound(i, records[i])
    BY <1>4 DEF Inv, TypeOK, StoreSound, Sound, NoRecords
  <1>6. \A i \in Ids : /\ seen'[s][i] \in {records[i], NoRecord}
                       /\ seen'[s][i] # NoRecord => seen'[s][i].from = from[s]
    BY <1>1 DEF Inv, TypeOK, Reusable
  <1>7. TypeOK'
    <2>1. seen' \in [Scans -> [Ids -> Record]]
      BY <1>1, <1>4, <1>5 DEF Inv, TypeOK, Reusable
    <2> QED BY <1>2, <1>3, <2>1 DEF Inv, TypeOK, ChainTypeOK, PC
  <1>8. StoreSound'
    BY <1>3 DEF Inv, StoreSound, Sound, LogsIn
  <1>9. \A p \in Scans : p # s =>
           pc'[p] = pc[p] /\ seen'[p] = seen[p] /\ pending'[p] = pending[p]
    BY <1>1, <1>2 DEF Inv, TypeOK
  <1>10. pc'[s] = "fetching" /\ pending'[s] = ids'[s]
    BY <1>2, <1>3 DEF Inv, TypeOK
  <1>11. SeenSound'
    <2>1. \A i \in Ids : Sound(i, seen'[s][i])
      BY <1>5, <1>6 DEF Sound
    <2>2. ASSUME NEW p \in Scans, NEW i \in Ids
          PROVE  /\ (pc[p] = "idle")' => (seen[p] = NoRecords)'
                 /\ Sound(i, seen[p][i])'
                 /\ (seen[p][i] # NoRecord => seen[p][i].from = from[p])'
      <3>1. CASE p = s
        BY <1>3, <1>6, <1>10, <2>1, <3>1 DEF Sound, LogsIn
      <3>2. CASE p # s
        BY <1>3, <1>9, <3>2 DEF Inv, SeenSound, Sound, LogsIn
      <3> QED BY <3>1, <3>2
    <2>3. \A p \in Scans : (pc[p] = "idle")' => (seen[p] = NoRecords)'
      BY <1>9, <1>10 DEF Inv, SeenSound
    <2> QED BY <2>2, <2>3 DEF SeenSound
  <1>12. RequestSound'
    BY <1>2, <1>3, <1>9 DEF Inv, RequestSound
  <1>13. FetchedSound' /\ AnswersExact'
    BY <1>3, <1>9, <1>10 DEF Inv, FetchedSound, AnswersExact, LogsIn, FetchFrom
  <1> QED BY <1>7, <1>8, <1>11, <1>12, <1>13 DEF Inv

\* The ids of one bucket all resume at the same block.
LEMMA BucketSharesStart ==
    ASSUME Inv, NEW s \in Scans, NEW i \in Ids, NEW j \in Bucket(s, i)
    PROVE  FetchFrom(s, j) = FetchFrom(s, i)
  <1>1. i \in Ids /\ j \in Ids /\ seen[s][j].to = seen[s][i].to
    BY DEF Inv, TypeOK, Bucket
  <1>2. \A k \in Ids : seen[s][k] # NoRecord => seen[s][k].to # NoRecord.to
    <2> SUFFICES ASSUME NEW k \in Ids, seen[s][k] # NoRecord
                 PROVE  seen[s][k].to # 0
      BY DEF NoRecord, NoBlock
    <2>1. seen[s][k].from \in Blocks /\ seen[s][k].from <= seen[s][k].to
      BY DEF Inv, SeenSound, Sound
    <2>2. seen[s][k].to \in Int
      BY DEF Inv, TypeOK, Record
    <2> QED BY <2>1, <2>2 DEF Blocks
  <1> QED BY <1>1, <1>2 DEF FetchFrom

\* A bucket's ids get the chain's logs from where their records end.
LEMMA FetchBucketKeeps ==
    ASSUME NEW s \in Scans, NEW i \in Ids PROVE Inv /\ FetchBucket(s, i) => Inv'
  <1> SUFFICES ASSUME Inv, FetchBucket(s, i) PROVE Inv'
    OBVIOUS
  <1>1. /\ pc[s] = "fetching" /\ i \in pending[s]
        /\ got' = [got EXCEPT ![s] =
                    [j \in Ids |-> IF j \in Bucket(s, i)
                                     THEN Matching(chain[j], FetchFrom(s, i), to[s])
                                     ELSE got[s][j]]]
        /\ pending' = [pending EXCEPT ![s] = @ \ Bucket(s, i)]
    BY DEF FetchBucket, LogsIn
  <1>2. UNCHANGED <<chain, tip, store, pc, ids, from, to, seen, answer>>
    BY DEF FetchBucket
  <1>3. to[s] \in Int /\ FetchFrom(s, i) \in Int /\ Depth \in Nat
    BY ChainBounds DEF Inv, TypeOK, FetchFrom, Record
  <1>4. \A j \in Ids : /\ Matching(chain[j], FetchFrom(s, i), to[s]) \subseteq Log
                       /\ \A l \in Matching(chain[j], FetchFrom(s, i), to[s]) :
                             FetchFrom(s, i) <= l.block /\ l.block <= to[s]
    BY <1>3, MatchingBounds DEF Inv, TypeOK, ChainTypeOK, Ids
  <1>5. TypeOK'
    <2>1. got' \in [Scans -> [Ids -> SUBSET Log]]
      BY <1>1, <1>4 DEF Inv, TypeOK
    <2> QED BY <1>1, <1>2, <2>1 DEF Inv, TypeOK, ChainTypeOK
  <1>6. StoreSound' /\ SeenSound' /\ RequestSound'
    BY <1>2 DEF Inv, StoreSound, SeenSound, RequestSound, Sound, LogsIn
  <1>7. AnswersExact'
    BY <1>2 DEF Inv, AnswersExact, LogsIn
  <1>8. FetchedSound'
    <2> SUFFICES ASSUME NEW p \in Scans, pc[p] = "fetching", NEW j \in ids[p] \ pending'[p]
                 PROVE  /\ \A l \in got'[p][j] : FetchFrom(p, j) <= l.block /\ l.block <= to[p]
                        /\ upTo(got'[p][j], to[p] - Depth)
                             = Matching(chain[j], FetchFrom(p, j), to[p] - Depth)
      BY <1>2 DEF FetchedSound, LogsIn, FetchFrom
    <2>1. j \in Ids
      BY DEF Inv, TypeOK
    <2>2. CASE p = s /\ j \in Bucket(s, i)
      <3>1. got'[p][j] = Matching(chain[j], FetchFrom(s, i), to[s])
        BY <1>1, <2>1, <2>2 DEF Inv, TypeOK
      <3>2. FetchFrom(p, j) = FetchFrom(s, i)
        BY <2>2, BucketSharesStart
      <3>3. upTo(Matching(chain[j], FetchFrom(s, i), to[s]), to[s] - Depth)
              = Matching(chain[j], FetchFrom(s, i), to[s] - Depth)
        BY <1>3 DEF upTo, Matching, Blocks
      <3> QED BY <1>4, <2>1, <2>2, <3>1, <3>2, <3>3
    <2>3. CASE ~(p = s /\ j \in Bucket(s, i))
      <3>1. got'[p][j] = got[p][j] /\ j \notin pending[p]
        BY <1>1, <2>1, <2>3 DEF Inv, TypeOK
      <3> QED BY <3>1 DEF Inv, FetchedSound, LogsIn
    <2> QED BY <2>2, <2>3
  <1> QED BY <1>5, <1>6, <1>7, <1>8 DEF Inv

\* What a call combines is, up to a block t no lower than what it could settle itself
\* and no higher than what it knows, the history of its request.
LEMMA CombinedIsHistory ==
    ASSUME Inv, NEW s \in Scans, pc[s] = "fetching", pending[s] = {}, NEW i \in ids[s],
           NEW t \in Int,
           t = to[s] - Depth \/ (seen[s][i] # NoRecord /\ t = seen[s][i].to /\ to[s] - Depth < t)
    PROVE  upTo(Merged(s, i), t) = Matching(chain[i], from[s], t)
  <1> DEFINE start == FetchFrom(s, i)
             cached == Matching(chain[i], from[s], start - 1)
  <1>1. /\ i \in Ids /\ i \in Queries /\ chain[i] \in [Blocks -> Content]
        /\ from[s] \in Int /\ to[s] \in Int /\ Depth \in Nat /\ start \in Int
        /\ got[s][i] \in SUBSET Log
    BY ChainBounds DEF Inv, TypeOK, ChainTypeOK, FetchFrom, Record, Ids
  <1>2. seen[s][i].logs = cached /\ from[s] <= start
    <2>1. CASE seen[s][i] = NoRecord
      <3>1. start = from[s] /\ seen[s][i].logs = {}
        BY <2>1 DEF FetchFrom, NoRecord
      <3>2. Matching(chain[i], from[s], from[s] - 1) = {}
        BY <1>1 DEF Matching, Blocks
      <3> QED BY <1>1, <3>1, <3>2
    <2>2. CASE seen[s][i] # NoRecord
      <3>1. start = seen[s][i].to + 1 /\ seen[s][i].to \in Int
        BY <1>1, <2>2 DEF FetchFrom, Inv, TypeOK, Record
      <3>2. /\ seen[s][i].from = from[s] /\ from[s] <= seen[s][i].to
            /\ seen[s][i].logs = Matching(chain[i], from[s], seen[s][i].to)
        BY <1>1, <2>2 DEF Inv, SeenSound, Sound, LogsIn
      <3>3. start - 1 = seen[s][i].to
        BY <3>1
      <3> QED BY <1>1, <3>1, <3>2, <3>3
    <2> QED BY <2>1, <2>2
  <1>3. /\ \A l \in got[s][i] : start <= l.block /\ l.block \in Int
        /\ upTo(got[s][i], to[s] - Depth) = Matching(chain[i], start, to[s] - Depth)
    BY DEF Inv, FetchedSound, LogsIn, Log, Blocks, TypeOK
  <1>4. upTo(got[s][i], t) = Matching(chain[i], start, t)
    <2>1. CASE t = to[s] - Depth
      BY <1>3, <2>1
    <2>2. CASE seen[s][i] # NoRecord /\ t = seen[s][i].to
      <3>1. start = t + 1
        BY <2>2 DEF FetchFrom
      <3>2. upTo(got[s][i], t) = {}
        BY <1>3, <3>1 DEF upTo
      <3>3. Matching(chain[i], start, t) = {}
        BY <3>1 DEF Matching, Blocks
      <3> QED BY <3>2, <3>3
    <2> QED BY <2>1, <2>2
  <1> HIDE DEF start
  <1>5. (start - 1) \in Int /\ (start - 1) + 1 = start
    BY <1>1
  <1>6. upTo(mergeLogs(cached, got[s][i]), t) = Matching(chain[i], from[s], t)
    BY <1>1, <1>2, <1>3, <1>4, <1>5, MergeExtends
  <1> QED BY <1>2, <1>6 DEF Merged

\* Every log a call combines is a log, from the first block of its request on.
LEMMA CombinedBounds ==
    ASSUME Inv, NEW s \in Scans, pc[s] = "fetching", pending[s] = {}, NEW i \in ids[s]
    PROVE  Merged(s, i) \subseteq Log /\ \A l \in Merged(s, i) : from[s] <= l.block
  <1>1. i \in Ids /\ i \in Queries /\ from[s] \in Int /\ chain[i] \in [Blocks -> Content]
    BY DEF Inv, TypeOK, ChainTypeOK, Ids
  <1>2. Merged(s, i) \subseteq seen[s][i].logs \cup got[s][i]
    BY DEF Merged, mergeLogs
  <1>3. seen[s][i].logs \subseteq Log /\ got[s][i] \subseteq Log
    BY <1>1 DEF Inv, TypeOK, Record
  <1>4. \A l \in seen[s][i].logs : from[s] <= l.block
    <2>1. CASE seen[s][i] = NoRecord
      BY <2>1 DEF NoRecord
    <2>2. CASE seen[s][i] # NoRecord
      <3>1. seen[s][i].logs = Matching(chain[i], from[s], seen[s][i].to) /\ seen[s][i].to \in Int
        BY <1>1, <2>2 DEF Inv, TypeOK, SeenSound, Sound, LogsIn, Record
      <3> QED BY <1>1, <3>1, MatchingBounds
    <2> QED BY <2>1, <2>2
  <1>5. from[s] <= FetchFrom(s, i) /\ FetchFrom(s, i) \in Int
    <2>1. CASE seen[s][i] = NoRecord
      BY <1>1, <2>1 DEF FetchFrom
    <2>2. CASE seen[s][i] # NoRecord
      BY <1>1, <2>2 DEF FetchFrom, Inv, TypeOK, Record, SeenSound, Sound
    <2> QED BY <2>1, <2>2
  <1>6. \A l \in got[s][i] : FetchFrom(s, i) <= l.block
    BY DEF Inv, FetchedSound
  <1>7. \A l \in got[s][i] : from[s] <= l.block
    BY <1>1, <1>3, <1>5, <1>6 DEF Log, Blocks
  <1> QED BY <1>2, <1>3, <1>4, <1>7

\* What a call writes down for an id is a sound record.
LEMMA WrittenSound ==
    ASSUME Inv, NEW s \in Scans, pc[s] = "fetching", pending[s] = {}, NEW i \in Ids,
           Writes(s, i)
    PROVE  NewRecord(s, i) \in Record /\ Sound(i, NewRecord(s, i))
  <1> DEFINE t == PersistTo(s, i)
  <1>1. /\ i \in ids[s] /\ i \in Queries
        /\ from[s] \in 0 .. MaxTip /\ to[s] \in 0 .. MaxTip /\ seen[s][i].to \in 0 .. MaxTip
        /\ Depth \in Nat /\ MaxTip \in Nat /\ tip \in Int
    BY ChainBounds DEF Writes, Inv, TypeOK, ChainTypeOK, Record, Ids, Blocks
  <1>2. from[s] \in Blocks /\ to[s] <= tip
    BY DEF Inv, RequestSound
  <1>3. /\ from[s] <= t /\ to[s] - Depth <= t
        /\ t = to[s] - Depth \/ (seen[s][i].to # 0 /\ t = seen[s][i].to /\ to[s] - Depth < t)
    BY <1>1 DEF Writes, PersistTo, nextPersistTo, NoBlock
  <1>4. seen[s][i].to # 0 => seen[s][i] # NoRecord
    BY DEF NoRecord, NoBlock
  <1>5. t \in 0 .. MaxTip /\ t + Depth <= tip
    <2>1. CASE t = to[s] - Depth
      BY <1>1, <1>2, <1>3, <2>1
    <2>2. CASE seen[s][i] # NoRecord /\ t = seen[s][i].to
      BY <1>1, <2>2 DEF Inv, SeenSound, Sound
    <2> QED BY <1>3, <1>4, <2>1, <2>2
  <1>6. upTo(Merged(s, i), t) = Matching(chain[i], from[s], t)
    BY <1>1, <1>3, <1>4, <1>5, CombinedIsHistory
  <1>7. upTo(Merged(s, i), t) \subseteq Log
    BY <1>1, CombinedBounds DEF upTo
  <1> HIDE DEF t
  <1>8. NewRecord(s, i) = [from |-> from[s], to |-> t, logs |-> upTo(Merged(s, i), t)]
    BY DEF NewRecord, t
  <1>9. NewRecord(s, i) \in Record
    BY <1>1, <1>5, <1>7, <1>8 DEF Record
  <1>10. Sound(i, NewRecord(s, i))
    BY <1>2, <1>3, <1>5, <1>6, <1>8 DEF Sound, LogsIn
  <1> QED BY <1>9, <1>10

\* What a call returns is exact.
LEMMA FinishKeeps == ASSUME NEW s \in Scans PROVE Inv /\ Finish(s) => Inv'
  <1> SUFFICES ASSUME Inv, Finish(s) PROVE Inv'
    OBVIOUS
  <1>1. pc[s] = "fetching" /\ pending[s] = {} /\ pc' = [pc EXCEPT ![s] = "answered"]
    BY DEF Finish
  <1>2. answer' = [answer EXCEPT ![s] =
                    [i \in Ids |-> IF i \in ids[s] THEN upTo(Merged(s, i), to[s]) ELSE {}]]
    BY DEF Finish
  <1>3. UNCHANGED <<chain, tip, ids, from, to, seen, pending, got>>
    BY DEF Finish
  <1>4. store' \in [Ids -> Record] /\ \A i \in Ids : Sound(i, store'[i])
    <2>1. CASE store' = store
      BY <2>1 DEF Inv, TypeOK, StoreSound
    <2>2. CASE store' = [i \in Ids |-> IF Writes(s, i) THEN NewRecord(s, i) ELSE store[i]]
      BY <1>1, <2>2, WrittenSound DEF Inv, TypeOK, StoreSound
    <2> QED BY <2>1, <2>2 DEF Finish
  <1>5. TypeOK'
    <2>1. \A i \in ids[s] : upTo(Merged(s, i), to[s]) \subseteq Log
      BY <1>1, CombinedBounds DEF upTo
    <2>2. answer' \in [Scans -> [Ids -> SUBSET Log]]
      BY <1>2, <2>1 DEF Inv, TypeOK
    <2> QED BY <1>1, <1>3, <1>4, <2>2 DEF Inv, TypeOK, ChainTypeOK, PC
  <1>6. StoreSound'
    BY <1>3, <1>4 DEF StoreSound, Sound, LogsIn
  <1>7. \A p \in Scans : pc'[p] = IF p = s THEN "answered" ELSE pc[p]
    BY <1>1 DEF Inv, TypeOK
  <1>8. SeenSound' /\ RequestSound' /\ FetchedSound'
    BY <1>1, <1>3, <1>7
       DEF Inv, SeenSound, RequestSound, FetchedSound, Sound, LogsIn, FetchFrom
  <1>9. AnswersExact'
    <2> SUFFICES ASSUME NEW p \in Scans, pc'[p] = "answered", NEW i \in ids[p]
                 PROVE  /\ \A l \in answer'[p][i] : from[p] <= l.block /\ l.block <= to[p]
                        /\ upTo(answer'[p][i], to[p] - Depth)
                             = Matching(chain[i], from[p], to[p] - Depth)
      BY <1>3 DEF AnswersExact, LogsIn
    <2>1. i \in Ids
      BY DEF Inv, TypeOK
    <2>2. CASE p = s
      <3>1. answer'[s][i] = upTo(Merged(s, i), to[s])
        BY <1>2, <2>1, <2>2 DEF Inv, TypeOK
      <3>2. Merged(s, i) \subseteq Log /\ \A l \in Merged(s, i) : from[s] <= l.block
        BY <1>1, <2>2, CombinedBounds
      <3>3. to[s] - Depth \in Int /\ to[s] \in Int /\ Depth \in Nat
        BY ChainBounds DEF Inv, TypeOK
      <3>4. upTo(upTo(Merged(s, i), to[s]), to[s] - Depth) = upTo(Merged(s, i), to[s] - Depth)
        BY <3>2, <3>3 DEF upTo, Log, Blocks
      <3>5. upTo(Merged(s, i), to[s] - Depth) = Matching(chain[i], from[s], to[s] - Depth)
        BY <1>1, <2>2, <3>3, CombinedIsHistory
      <3> QED BY <2>2, <3>1, <3>2, <3>4, <3>5 DEF upTo
    <2>3. CASE p # s
      <3>1. answer'[p] = answer[p] /\ pc[p] = "answered"
        BY <1>2, <1>7, <2>3 DEF Inv, TypeOK
      <3> QED BY <3>1 DEF Inv, AnswersExact, LogsIn
    <2> QED BY <2>2, <2>3
  <1> QED BY <1>5, <1>6, <1>8, <1>9 DEF Inv

-----------------------------------------------------------------------------
(* The theorems *)

LEMMA StepKeeps == Inv /\ [Next]_vars => Inv'
  <1> SUFFICES ASSUME Inv, [Next]_vars PROVE Inv'
    OBVIOUS
  <1>1. CASE ChainStep
    BY <1>1, ChainStepKeeps
  <1>2. CASE resetCaches
    BY <1>2, ResetKeeps
  <1>3. ASSUME NEW s \in Scans, Call(s) PROVE Inv'
    BY <1>3, BeginKeeps, ReadStoreKeeps, FetchBucketKeeps, FinishKeeps, LeaveKeeps DEF Call
  <1>4. CASE UNCHANGED vars
    BY <1>4 DEF vars, Inv, TypeOK, ChainTypeOK, StoreSound, SeenSound, RequestSound,
                FetchedSound, AnswersExact, Sound, LogsIn, FetchFrom
  <1> QED BY <1>1, <1>2, <1>3, <1>4 DEF Next

LEMMA Invariance == Spec => []Inv
  BY InitSound, StepKeeps, PTL DEF Spec

\* Every variable keeps its type: no record or answer of cachedLogsById holds anything
\* but logs of blocks the chain has.
THEOREM TypeCorrect == Spec => []TypeOK
  BY Invariance, PTL DEF Inv

\* log-cache.ts:20 for the per-token records: whatever the interleaving of tabs, reorgs,
\* clears and lost writes, a record's logs are all the logs of its range, for good.
THEOREM RecordsStayComplete == Spec => []RecordsComplete
  <1>1. Inv => RecordsComplete
    BY DEF Inv, StoreSound, Sound, RecordsComplete
  <1> QED BY <1>1, Invariance, PTL

\* Every id cachedLogsById was asked for is answered with exactly the settled logs of the
\* request, wherever they came from.
THEOREM AnswersStayExact == Spec => []AnswersExact
  BY Invariance, PTL DEF Inv

-----------------------------------------------------------------------------
(* RangeCache *)

\* The premise: one start block per key.
OneStart == \A f, g \in Starts : f = g

\* A record is the settled history of what it covers.
RecordSound(rec) ==
    rec # NoRecord =>
        /\ rec.from \in Starts
        /\ rec.from <= rec.to
        /\ rec.to + Depth <= tip
        /\ rec.logs = LogsIn(Key, rec.from, rec.to)

\* What a scan has read is as sound as what is stored.
ReadSound == \A s \in Scans : RecordSound(read[s]) /\ (stage[s] = "idle" => read[s] = NoRecord)

\* A scan in flight asks for blocks of the chain; one that fetches has something to fetch.
RangeSound ==
    \A s \in Scans :
        /\ stage[s] # "idle" => first[s] \in Starts /\ first[s] <= last[s] /\ last[s] <= tip
        /\ stage[s] \in {"fetching", "fetched"} /\ read[s] # NoRecord => read[s].to < last[s]

\* Where a scan's fetch begins.
RestFrom(s) == IF read[s] = NoRecord THEN first[s] ELSE read[s].to + 1

\* What was fetched is the rest of the history, up to the settled block.
RestSound ==
    \A s \in Scans : stage[s] = "fetched" =>
        /\ \A l \in fetched[s] : RestFrom(s) <= l.block /\ l.block <= last[s]
        /\ upTo(fetched[s], last[s] - Depth) = LogsIn(Key, RestFrom(s), last[s] - Depth)

RangeInv == RangeTypeOK /\ RecordSound(record) /\ ReadSound /\ RangeSound /\ RestSound /\ AnswerExact

-----------------------------------------------------------------------------
(* Records and plans *)

LEMMA NoRecordTyped == NoRecord \in RangeRecord /\ NoBlock \in 0 .. MaxTip
BY ChainBounds DEF NoRecord, NoBlock, RangeRecord

LEMMA StartsAreBlocks == Starts \subseteq Int /\ \A f \in Starts : f >= 1 /\ f \in 0 .. MaxTip
BY RequestsValid, ChainBounds DEF Blocks

\* Of a request that starts where the record does, the plan is the rest.
LEMMA PlanIsRest ==
    ASSUME NEW rec \in RangeRecord, NEW f \in Int, NEW t \in Int, rec # NoRecord => rec.from = f
    PROVE  /\ planRangeFetch(rec, f, t).kind = "hit" <=> rec # NoRecord /\ rec.to >= t
           /\ planRangeFetch(rec, f, t).kind # "hit" =>
                planRangeFetch(rec, f, t).from = IF rec = NoRecord THEN f ELSE rec.to + 1
           /\ planRangeFetch(rec, f, t).kind = "extend" <=> rec # NoRecord /\ ~(rec.to >= t)
BY DEF planRangeFetch

\* A record of this key starts where a scan's request does.
LEMMA SameStart ==
    ASSUME OneStart, RangeInv, NEW s \in Scans, stage[s] # "idle", NEW rec \in RangeRecord, RecordSound(rec)
    PROVE  rec # NoRecord => rec.from = first[s]
BY DEF OneStart, RangeInv, RangeSound, RecordSound

\* What a scan that fetches asks for, and what it makes of the answer.
LEMMA FetchIsRest ==
    ASSUME OneStart, RangeInv, NEW s \in Scans, stage[s] \in {"fetching", "fetched"}
    PROVE  /\ Plan(s).from = RestFrom(s)
           /\ Combined(s) = mergeLogs(read[s].logs, fetched[s])
<1>1. /\ read[s] \in RangeRecord /\ RecordSound(read[s]) /\ first[s] \in Int /\ last[s] \in Int
      /\ stage[s] # "idle"
  BY DEF RangeInv, RangeTypeOK, ReadSound
<1>2. read[s] # NoRecord => read[s].from = first[s]
  BY <1>1, SameStart
<1>3. read[s] # NoRecord => ~(read[s].to >= last[s])
  BY <1>1 DEF RangeInv, RangeSound, RangeRecord
<1>4. Plan(s).from = RestFrom(s) /\ (Plan(s).kind = "extend" <=> read[s] # NoRecord)
  BY <1>1, <1>2, <1>3, PlanIsRest DEF Plan, RestFrom
<1>5. read[s] = NoRecord => read[s].logs = {}
  BY DEF NoRecord
<1> QED BY <1>4, <1>5 DEF Combined

-----------------------------------------------------------------------------
(* The chain moves on *)

LEMMA RecordSoundStays ==
    ASSUME RangeTypeOK, Mine \/ Reorg, NEW rec \in RangeRecord, RecordSound(rec)
    PROVE  rec # NoRecord =>
             /\ rec.from \in Starts /\ rec.from <= rec.to /\ rec.to + Depth <= tip'
             /\ rec.logs = Matching(chain'[Key], rec.from, rec.to)
<1> SUFFICES ASSUME rec # NoRecord
             PROVE  /\ rec.to + Depth <= tip'
                    /\ rec.logs = Matching(chain'[Key], rec.from, rec.to)
  BY DEF RecordSound
<1>1. /\ rec.from \in Int /\ rec.to \in Int /\ rec.to + Depth <= tip
      /\ rec.logs = Matching(chain[Key], rec.from, rec.to)
  BY DEF RecordSound, LogsIn, RangeRecord
<1>2. tip \in Int /\ tip' \in Int /\ tip <= tip'
  BY SettledStays DEF RangeTypeOK, ChainTypeOK, Blocks
<1>3. rec.to + Depth <= tip'
  BY <1>1, <1>2, ChainBounds
<1>4. Matching(chain'[Key], rec.from, rec.to) = Matching(chain[Key], rec.from, rec.to)
  BY <1>1, OneKey, SettledLogsStay DEF RangeTypeOK
<1> QED BY <1>1, <1>3, <1>4

LEMMA ChainMovesKeeps == RangeInv /\ ChainMoves => RangeInv'
<1> SUFFICES ASSUME RangeInv, ChainMoves PROVE RangeInv'
  OBVIOUS
<1>1. Mine \/ Reorg
  BY DEF ChainMoves
<1>2. UNCHANGED <<record, stage, first, last, read, fetched, reply>>
  BY DEF ChainMoves
<1>3. RangeTypeOK'
  BY <1>1, <1>2, SettledStays DEF RangeInv, RangeTypeOK, ChainTypeOK
<1>4. RecordSound(record)' /\ ReadSound'
  BY <1>1, <1>2, RecordSoundStays DEF RangeInv, RangeTypeOK, ReadSound, RecordSound, LogsIn
<1>5. RangeSound'
  BY <1>1, <1>2, SettledStays, StartsAreBlocks
     DEF RangeInv, RangeTypeOK, ChainTypeOK, RangeSound, Blocks
<1>6. ASSUME NEW s \in Scans, stage[s] # "idle", NEW f \in Int
      PROVE  Matching(chain'[Key], f, last[s] - Depth) = Matching(chain[Key], f, last[s] - Depth)
  <2>1. last[s] - Depth \in Int /\ (last[s] - Depth) + Depth <= tip
    BY <1>6, ChainBounds DEF RangeInv, RangeTypeOK, ChainTypeOK, RangeSound, Blocks
  <2> QED BY <1>1, <2>1, OneKey, SettledLogsStay DEF RangeInv, RangeTypeOK
<1>7. RestSound'
  <2> SUFFICES ASSUME NEW s \in Scans, stage[s] = "fetched"
               PROVE  LogsIn(Key, RestFrom(s), last[s] - Depth)'
                        = LogsIn(Key, RestFrom(s), last[s] - Depth)
    BY <1>2 DEF RangeInv, RestSound, RestFrom, upTo
  <2>1. RestFrom(s) \in Int /\ RestFrom(s)' = RestFrom(s)
    BY <1>2 DEF RangeInv, RangeTypeOK, RestFrom, RangeRecord
  <2> QED BY <1>2, <1>6, <2>1 DEF LogsIn
<1>8. AnswerExact'
  <2> SUFFICES ASSUME NEW s \in Scans, stage[s] = "answered"
               PROVE  LogsIn(Key, first[s], last[s] - Depth)' = LogsIn(Key, first[s], last[s] - Depth)
    BY <1>2 DEF RangeInv, AnswerExact, upTo
  <2>1. first[s] \in Int
    BY DEF RangeInv, RangeTypeOK
  <2> QED BY <1>2, <1>6, <2>1 DEF LogsIn
<1> QED BY <1>3, <1>4, <1>5, <1>7, <1>8 DEF RangeInv

-----------------------------------------------------------------------------
(* A scan's steps *)

LEMMA RangeInitSound == RangeInit => RangeInv
<1> SUFFICES ASSUME RangeInit PROVE RangeInv
  OBVIOUS
<1>1. RangeTypeOK
  BY NoRecordTyped, ChainBounds, EmptyContent
     DEF RangeInit, ChainInit, RangeTypeOK, ChainTypeOK, Blocks, Stages
<1>2. RecordSound(record) /\ ReadSound
  BY DEF RangeInit, ReadSound, RecordSound
<1>3. RangeSound /\ RestSound /\ AnswerExact
  BY DEF RangeInit, RangeSound, RestSound, AnswerExact
<1> QED BY <1>1, <1>2, <1>3 DEF RangeInv

LEMMA ResetRecordKeeps == RangeInv /\ resetRecord => RangeInv'
<1> SUFFICES ASSUME RangeInv, resetRecord PROVE RangeInv'
  OBVIOUS
<1>1. RangeTypeOK'
  BY NoRecordTyped DEF RangeInv, resetRecord, RangeTypeOK, ChainTypeOK
<1>2. RecordSound(record)'
  BY DEF resetRecord, RecordSound
<1>3. ReadSound' /\ RangeSound' /\ RestSound' /\ AnswerExact'
  BY DEF RangeInv, resetRecord, ReadSound, RangeSound, RestSound, AnswerExact, RecordSound,
         LogsIn, RestFrom
<1> QED BY <1>1, <1>2, <1>3 DEF RangeInv

LEMMA BeginRangeKeeps == ASSUME NEW s \in Scans PROVE RangeInv /\ BeginRange(s) => RangeInv'
<1> SUFFICES ASSUME RangeInv, BeginRange(s) PROVE RangeInv'
  OBVIOUS
<1>1. PICK f \in Starts, h \in Blocks :
        /\ f <= h /\ h <= tip
        /\ first' = [first EXCEPT ![s] = f]
        /\ last' = [last EXCEPT ![s] = h]
  BY DEF BeginRange
<1>2. f \in 0 .. MaxTip /\ h \in 0 .. MaxTip
  BY StartsAreBlocks, ChainBounds DEF Blocks
<1>3. stage[s] = "idle" /\ stage' = [stage EXCEPT ![s] = "reading"]
  BY DEF BeginRange
<1>4. UNCHANGED <<chain, tip, record, read, fetched, reply>>
  BY DEF BeginRange
<1>5. RangeTypeOK'
  BY <1>1, <1>2, <1>3, <1>4 DEF RangeInv, RangeTypeOK, ChainTypeOK, Stages
<1>6. /\ stage'[s] = "reading" /\ first'[s] = f /\ last'[s] = h
      /\ \A p \in Scans \ {s} : stage'[p] = stage[p] /\ first'[p] = first[p] /\ last'[p] = last[p]
  BY <1>1, <1>3 DEF RangeInv, RangeTypeOK
<1>7. RecordSound(record)' /\ ReadSound'
  BY <1>4, <1>6 DEF RangeInv, ReadSound, RecordSound, LogsIn
<1>8. RangeSound'
  BY <1>1, <1>4, <1>6 DEF RangeInv, RangeSound
<1>9. RestSound' /\ AnswerExact'
  BY <1>4, <1>6 DEF RangeInv, RestSound, AnswerExact, LogsIn, RestFrom
<1> QED BY <1>5, <1>7, <1>8, <1>9 DEF RangeInv

LEMMA LeaveRangeKeeps == ASSUME NEW s \in Scans PROVE RangeInv /\ LeaveRange(s) => RangeInv'
<1> SUFFICES ASSUME RangeInv, LeaveRange(s) PROVE RangeInv'
  OBVIOUS
<1> USE DEF LeaveRange
<1>1. RangeTypeOK'
  BY NoRecordTyped DEF RangeInv, RangeTypeOK, ChainTypeOK, Stages
<1>2. /\ stage'[s] = "idle" /\ read'[s] = NoRecord
      /\ \A p \in Scans \ {s} :
            /\ stage'[p] = stage[p] /\ first'[p] = first[p] /\ last'[p] = last[p]
            /\ read'[p] = read[p] /\ fetched'[p] = fetched[p] /\ reply'[p] = reply[p]
  BY DEF RangeInv, RangeTypeOK
<1>3. RecordSound(record)' /\ ReadSound'
  BY <1>2 DEF RangeInv, ReadSound, RecordSound, LogsIn
<1>4. RangeSound'
  BY <1>2 DEF RangeInv, RangeSound
<1>5. RestSound' /\ AnswerExact'
  BY <1>2 DEF RangeInv, RestSound, AnswerExact, LogsIn, RestFrom
<1> QED BY <1>1, <1>3, <1>4, <1>5 DEF RangeInv

\* The settled part of a sound record that reaches a request's end answers it.
LEMMA HitIsExact ==
    ASSUME OneStart, RangeInv, NEW s \in Scans, stage[s] # "idle", NEW rec \in RangeRecord, RecordSound(rec),
           rec # NoRecord, rec.to >= last[s]
    PROVE  /\ upTo(rec.logs, last[s]) \in SUBSET Log
           /\ \A l \in upTo(rec.logs, last[s]) : first[s] <= l.block /\ l.block <= last[s]
           /\ upTo(upTo(rec.logs, last[s]), last[s] - Depth)
                = Matching(chain[Key], first[s], last[s] - Depth)
<1>1. /\ first[s] \in Int /\ last[s] \in Int /\ Depth \in Nat /\ rec.to \in Int
      /\ chain[Key] \in [Blocks -> Content]
  BY OneKey, ChainBounds DEF RangeInv, RangeTypeOK, ChainTypeOK, RangeRecord
<1>2. rec.logs = Matching(chain[Key], first[s], rec.to)
  BY SameStart DEF RecordSound, LogsIn
<1>3. rec.logs \subseteq Log /\ \A l \in rec.logs : first[s] <= l.block
  BY <1>1, <1>2, MatchingBounds
<1>4. upTo(Matching(chain[Key], first[s], rec.to), last[s] - Depth)
        = Matching(chain[Key], first[s], last[s] - Depth)
  BY <1>1 DEF upTo, Matching, Blocks
<1>5. upTo(upTo(rec.logs, last[s]), last[s] - Depth) = upTo(rec.logs, last[s] - Depth)
  BY <1>1, <1>3 DEF upTo, Log, Blocks
<1> QED BY <1>2, <1>3, <1>4, <1>5 DEF upTo

LEMMA ReadRangeKeeps ==
    ASSUME OneStart, NEW s \in Scans PROVE RangeInv /\ ReadRange(s) => RangeInv'
<1> SUFFICES ASSUME RangeInv, ReadRange(s) PROVE RangeInv'
  OBVIOUS
<1>1. PICK rec \in {record, NoRecord} :
        /\ read' = [read EXCEPT ![s] = rec]
        /\ \/ /\ planRangeFetch(rec, first[s], last[s]).kind = "hit"
              /\ reply' = [reply EXCEPT ![s] = upTo(rec.logs, last[s])]
              /\ stage' = [stage EXCEPT ![s] = "answered"]
           \/ /\ planRangeFetch(rec, first[s], last[s]).kind # "hit"
              /\ stage' = [stage EXCEPT ![s] = "fetching"]
              /\ UNCHANGED reply
  BY DEF ReadRange
<1>2. stage[s] = "reading" /\ UNCHANGED <<chain, tip, record, first, last, fetched>>
  BY DEF ReadRange
<1>3. rec \in RangeRecord /\ RecordSound(rec) /\ first[s] \in Int /\ last[s] \in Int
  BY NoRecordTyped DEF RangeInv, RangeTypeOK, RecordSound
<1>4. rec # NoRecord => rec.from = first[s]
  BY <1>2, <1>3, SameStart
<1>5. /\ planRangeFetch(rec, first[s], last[s]).kind = "hit" <=> rec # NoRecord /\ rec.to >= last[s]
  BY <1>3, <1>4, PlanIsRest
<1>6. /\ read'[s] = rec /\ stage'[s] \in {"answered", "fetching"}
      /\ stage'[s] = "fetching" => rec = NoRecord \/ rec.to < last[s]
      /\ \A p \in Scans \ {s} : stage'[p] = stage[p] /\ read'[p] = read[p] /\ reply'[p] = reply[p]
  BY <1>1, <1>3, <1>5 DEF RangeInv, RangeTypeOK, RangeRecord
<1>7. stage'[s] = "answered" =>
        /\ reply'[s] = upTo(rec.logs, last[s]) /\ rec # NoRecord /\ rec.to >= last[s]
  BY <1>1, <1>5 DEF RangeInv, RangeTypeOK
<1>8. RangeTypeOK'
  <2>1. reply' \in [Scans -> SUBSET Log]
    <3>1. CASE UNCHANGED reply
      BY <3>1 DEF RangeInv, RangeTypeOK
    <3>2. CASE /\ reply' = [reply EXCEPT ![s] = upTo(rec.logs, last[s])]
               /\ planRangeFetch(rec, first[s], last[s]).kind = "hit"
      BY <1>2, <1>3, <1>5, <3>2, HitIsExact DEF RangeInv, RangeTypeOK
    <3> QED BY <1>1, <3>1, <3>2
  <2>2. stage' \in [Scans -> Stages] /\ read' \in [Scans -> RangeRecord]
    BY <1>1, <1>3 DEF RangeInv, RangeTypeOK, Stages
  <2> QED BY <1>2, <2>1, <2>2 DEF RangeInv, RangeTypeOK, ChainTypeOK
<1>9. RecordSound(record)' /\ ReadSound'
  BY <1>2, <1>3, <1>6 DEF RangeInv, ReadSound, RecordSound, LogsIn
<1>10. RangeSound'
  BY <1>2, <1>6 DEF RangeInv, RangeSound
<1>11. RestSound'
  BY <1>2, <1>6 DEF RangeInv, RestSound, LogsIn, RestFrom
<1>12. AnswerExact'
  <2> SUFFICES ASSUME NEW p \in Scans, stage'[p] = "answered"
               PROVE  /\ \A l \in reply'[p] : first[p] <= l.block /\ l.block <= last[p]
                      /\ upTo(reply'[p], last[p] - Depth)
                           = Matching(chain[Key], first[p], last[p] - Depth)
    BY <1>2 DEF AnswerExact, LogsIn
  <2>1. CASE p = s
    BY <1>2, <1>3, <1>7, <2>1, HitIsExact
  <2>2. CASE p # s
    BY <1>6, <2>2 DEF RangeInv, AnswerExact, LogsIn
  <2> QED BY <2>1, <2>2
<1> QED BY <1>8, <1>9, <1>10, <1>11, <1>12 DEF RangeInv

LEMMA FetchRangeKeeps ==
    ASSUME OneStart, NEW s \in Scans PROVE RangeInv /\ FetchRange(s) => RangeInv'
<1> SUFFICES ASSUME RangeInv, FetchRange(s) PROVE RangeInv'
  OBVIOUS
<1> DEFINE new == Matching(chain[Key], RestFrom(s), last[s])
<1>1. /\ stage[s] = "fetching" /\ stage' = [stage EXCEPT ![s] = "fetched"]
      /\ fetched' = [fetched EXCEPT ![s] = new]
  BY FetchIsRest DEF FetchRange, LogsIn
<1>2. UNCHANGED <<chain, tip, record, first, last, read, reply>>
  BY DEF FetchRange
<1>3. last[s] \in Int /\ RestFrom(s) \in Int /\ Depth \in Nat /\ chain[Key] \in [Blocks -> Content]
  BY OneKey, ChainBounds DEF RangeInv, RangeTypeOK, ChainTypeOK, RestFrom, RangeRecord
<1>4. /\ new \subseteq Log
      /\ \A l \in new : RestFrom(s) <= l.block /\ l.block <= last[s]
  BY <1>3, MatchingBounds
<1>5. upTo(new, last[s] - Depth) = Matching(chain[Key], RestFrom(s), last[s] - Depth)
  BY <1>3 DEF upTo, Matching, Blocks
<1> HIDE DEF new
<1>6. RangeTypeOK'
  BY <1>1, <1>2, <1>4 DEF RangeInv, RangeTypeOK, ChainTypeOK, Stages
<1>7. /\ stage'[s] = "fetched" /\ fetched'[s] = new
      /\ \A p \in Scans \ {s} : stage'[p] = stage[p] /\ fetched'[p] = fetched[p]
  BY <1>1 DEF RangeInv, RangeTypeOK
<1>8. RecordSound(record)' /\ ReadSound' /\ RangeSound'
  BY <1>1, <1>2, <1>7 DEF RangeInv, ReadSound, RangeSound, RecordSound, LogsIn
<1>9. RestSound'
  BY <1>2, <1>4, <1>5, <1>7 DEF RangeInv, RestSound, RestFrom, LogsIn
<1>10. AnswerExact'
  BY <1>2, <1>7 DEF RangeInv, AnswerExact, LogsIn
<1> QED BY <1>6, <1>8, <1>9, <1>10 DEF RangeInv

\* What a scan combines is, up to a block t no lower than what it could settle itself and
\* no higher than what it knows, the history of its request.
LEMMA CombinedIsRest ==
    ASSUME OneStart, RangeInv, NEW s \in Scans, stage[s] = "fetched", NEW t \in Int,
           t = last[s] - Depth \/ (read[s] # NoRecord /\ t = read[s].to /\ last[s] - Depth < t)
    PROVE  /\ upTo(Combined(s), t) = Matching(chain[Key], first[s], t)
           /\ Combined(s) \subseteq Log
           /\ \A l \in Combined(s) : first[s] <= l.block /\ l.block <= last[s]
<1> DEFINE start == RestFrom(s)
           cached == Matching(chain[Key], first[s], start - 1)
<1>1. /\ chain[Key] \in [Blocks -> Content]
      /\ first[s] \in Int /\ last[s] \in Int /\ Depth \in Nat /\ start \in Int
      /\ fetched[s] \in SUBSET Log
  BY OneKey, ChainBounds DEF RangeInv, RangeTypeOK, ChainTypeOK, RestFrom, RangeRecord
<1>2. read[s].logs = cached /\ first[s] <= start /\ start <= last[s]
  <2>1. CASE read[s] = NoRecord
    <3>1. start = first[s] /\ read[s].logs = {}
      BY <2>1 DEF RestFrom, NoRecord
    <3>2. Matching(chain[Key], first[s], first[s] - 1) = {}
      BY <1>1 DEF Matching, Blocks
    <3>3. first[s] <= last[s]
      BY DEF RangeInv, RangeSound
    <3> QED BY <1>1, <3>1, <3>2, <3>3
  <2>2. CASE read[s] # NoRecord
    <3>1. start = read[s].to + 1 /\ read[s].to \in Int
      BY <1>1, <2>2 DEF RestFrom, RangeInv, RangeTypeOK, RangeRecord
    <3>2. RecordSound(read[s]) /\ read[s] \in RangeRecord /\ read[s].to < last[s]
      BY <2>2 DEF RangeInv, ReadSound, RangeTypeOK, RangeSound
    <3>3. /\ read[s].from = first[s] /\ first[s] <= read[s].to
          /\ read[s].logs = Matching(chain[Key], first[s], read[s].to)
      BY <1>1, <2>2, <3>2, SameStart DEF RecordSound, LogsIn
    <3>4. start - 1 = read[s].to
      BY <3>1
    <3> QED BY <1>1, <3>1, <3>2, <3>3, <3>4
  <2> QED BY <2>1, <2>2
<1>3. /\ \A l \in fetched[s] : start <= l.block /\ l.block \in Int /\ l.block <= last[s]
      /\ upTo(fetched[s], last[s] - Depth) = Matching(chain[Key], start, last[s] - Depth)
  BY DEF RangeInv, RestSound, LogsIn, Log, Blocks, RangeTypeOK
<1>4. upTo(fetched[s], t) = Matching(chain[Key], start, t)
  <2>1. CASE t = last[s] - Depth
    BY <1>3, <2>1
  <2>2. CASE read[s] # NoRecord /\ t = read[s].to
    <3>1. start = t + 1
      BY <2>2 DEF RestFrom
    <3>2. upTo(fetched[s], t) = {}
      BY <1>3, <3>1 DEF upTo
    <3>3. Matching(chain[Key], start, t) = {}
      BY <3>1 DEF Matching, Blocks
    <3> QED BY <3>2, <3>3
  <2> QED BY <2>1, <2>2
<1>5. Combined(s) = mergeLogs(read[s].logs, fetched[s])
  BY FetchIsRest
<1> HIDE DEF start
<1>6. (start - 1) \in Int /\ (start - 1) + 1 = start
  BY <1>1
<1>7. cached \subseteq Log /\ \A l \in cached : first[s] <= l.block /\ l.block <= start - 1
  BY <1>1, <1>6, MatchingBounds
<1>8. upTo(mergeLogs(cached, fetched[s]), t) = Matching(chain[Key], first[s], t)
  BY <1>1, <1>2, <1>3, <1>4, <1>6, MergeExtends
<1> HIDE DEF cached
<1>9. Combined(s) \subseteq cached \cup fetched[s]
  BY <1>2, <1>5 DEF mergeLogs
<1>10. \A l \in cached \cup fetched[s] : first[s] <= l.block /\ l.block <= last[s]
  BY <1>1, <1>2, <1>3, <1>7 DEF Log, Blocks
<1> QED BY <1>1, <1>2, <1>5, <1>7, <1>8, <1>9, <1>10

\* What a scan writes down is a sound record.
LEMMA WrittenRecordSound ==
    ASSUME OneStart, RangeInv, NEW s \in Scans, stage[s] = "fetched",
           NEW t, t = nextPersistTo(read[s].to, first[s], last[s], Depth), t # NoBlock
    PROVE  LET rec == [from |-> first[s], to |-> t, logs |-> upTo(Combined(s), t)]
           IN  rec \in RangeRecord /\ RecordSound(rec)
<1>1. /\ first[s] \in 0 .. MaxTip /\ last[s] \in 0 .. MaxTip /\ read[s].to \in 0 .. MaxTip
      /\ Depth \in Nat /\ MaxTip \in Nat /\ tip \in Int
  BY ChainBounds DEF RangeInv, RangeTypeOK, ChainTypeOK, RangeRecord, Blocks
<1>2. first[s] \in Starts /\ last[s] <= tip
  BY DEF RangeInv, RangeSound
<1>3. /\ first[s] <= t /\ last[s] - Depth <= t
      /\ t = last[s] - Depth \/ (read[s].to # 0 /\ t = read[s].to /\ last[s] - Depth < t)
  BY <1>1 DEF nextPersistTo, NoBlock
<1>4. read[s].to # 0 => read[s] # NoRecord
  BY DEF NoRecord, NoBlock
<1>5. t \in 0 .. MaxTip /\ t + Depth <= tip
  <2>1. CASE t = last[s] - Depth
    BY <1>1, <1>2, <1>3, <2>1
  <2>2. CASE read[s] # NoRecord /\ t = read[s].to
    BY <1>1, <2>2 DEF RangeInv, ReadSound, RecordSound
  <2> QED BY <1>3, <1>4, <2>1, <2>2
<1>6. upTo(Combined(s), t) = Matching(chain[Key], first[s], t) /\ Combined(s) \subseteq Log
  BY <1>1, <1>3, <1>4, <1>5, CombinedIsRest
<1>7. upTo(Combined(s), t) \subseteq Log
  BY <1>6 DEF upTo
<1> DEFINE rec == [from |-> first[s], to |-> t, logs |-> upTo(Combined(s), t)]
<1>8. rec \in RangeRecord
  BY <1>1, <1>5, <1>7 DEF RangeRecord
<1>9. RecordSound(rec)
  BY <1>2, <1>3, <1>5, <1>6 DEF RecordSound, LogsIn
<1> QED BY <1>8, <1>9

LEMMA FinishRangeKeeps ==
    ASSUME OneStart, NEW s \in Scans PROVE RangeInv /\ FinishRange(s) => RangeInv'
<1> SUFFICES ASSUME RangeInv, FinishRange(s) PROVE RangeInv'
  OBVIOUS
<1>1. /\ stage[s] = "fetched" /\ stage' = [stage EXCEPT ![s] = "answered"]
      /\ reply' = [reply EXCEPT ![s] = Combined(s)]
  BY DEF FinishRange
<1>2. UNCHANGED <<chain, tip, first, last, read, fetched>>
  BY DEF FinishRange
<1>3. record' \in RangeRecord /\ RecordSound(record')
  <2> DEFINE t == nextPersistTo(read[s].to, first[s], last[s], Depth)
             rec == [from |-> first[s], to |-> t, logs |-> upTo(Combined(s), t)]
  <2>1. record' = record \/ (t # NoBlock /\ record' = rec)
    BY DEF FinishRange, writeRange
  <2>2. CASE record' = record
    BY <2>2 DEF RangeInv, RangeTypeOK
  <2>3. CASE t # NoBlock /\ record' = rec
    <3>1. rec \in RangeRecord /\ RecordSound(rec)
      BY <1>1, <2>3, WrittenRecordSound
    <3> QED BY <2>3, <3>1
  <2> QED BY <2>1, <2>2, <2>3
<1>4. /\ last[s] - Depth \in Int /\ Depth \in Nat
  BY ChainBounds DEF RangeInv, RangeTypeOK
<1>5. /\ upTo(Combined(s), last[s] - Depth) = Matching(chain[Key], first[s], last[s] - Depth)
      /\ Combined(s) \subseteq Log
      /\ \A l \in Combined(s) : first[s] <= l.block /\ l.block <= last[s]
  BY <1>1, <1>4, CombinedIsRest
<1>6. RangeTypeOK'
  BY <1>1, <1>2, <1>3, <1>5 DEF RangeInv, RangeTypeOK, ChainTypeOK, Stages
<1>7. /\ stage'[s] = "answered" /\ reply'[s] = Combined(s)
      /\ \A p \in Scans \ {s} : stage'[p] = stage[p] /\ reply'[p] = reply[p]
  BY <1>1 DEF RangeInv, RangeTypeOK
<1>8. RecordSound(record)'
  BY <1>2, <1>3 DEF RecordSound, LogsIn
<1>9. ReadSound' /\ RangeSound' /\ RestSound'
  BY <1>1, <1>2, <1>7 DEF RangeInv, ReadSound, RangeSound, RestSound, RecordSound, LogsIn, RestFrom
<1>10. AnswerExact'
  BY <1>2, <1>5, <1>7 DEF RangeInv, AnswerExact, LogsIn
<1> QED BY <1>6, <1>8, <1>9, <1>10 DEF RangeInv

-----------------------------------------------------------------------------
(* The theorems *)

LEMMA RangeStepKeeps == ASSUME OneStart PROVE RangeInv /\ [RangeNext]_rangeVars => RangeInv'
<1> SUFFICES ASSUME RangeInv, [RangeNext]_rangeVars PROVE RangeInv'
  OBVIOUS
<1>1. CASE ChainMoves
  BY <1>1, ChainMovesKeeps
<1>2. CASE resetRecord
  BY <1>2, ResetRecordKeeps
<1>3. ASSUME NEW s \in Scans, BeginRange(s) \/ ReadRange(s) \/ FetchRange(s) \/ FinishRange(s) \/ LeaveRange(s)
      PROVE  RangeInv'
  BY <1>3, BeginRangeKeeps, ReadRangeKeeps, FetchRangeKeeps, FinishRangeKeeps, LeaveRangeKeeps
<1>4. CASE UNCHANGED rangeVars
  BY <1>4 DEF rangeVars, RangeInv, RangeTypeOK, ChainTypeOK, ReadSound, RangeSound, RestSound,
              AnswerExact, RecordSound, LogsIn, RestFrom
<1> QED BY <1>1, <1>2, <1>3, <1>4 DEF RangeNext

LEMMA RangeInvariance == ASSUME OneStart PROVE RangeSpec => []RangeInv
BY RangeInitSound, RangeStepKeeps, PTL DEF RangeSpec

\* log-cache.ts:20 for a key of one start block: whatever scans, tabs, reorgs, clears and
\* lost writes do, the record's logs are all the logs of its range, for good.
THEOREM RecordStaysSound == ASSUME OneStart PROVE RangeSpec => []CacheSound
<1>1. RangeInv => CacheSound
  BY DEF RangeInv, RecordSound, CacheSound, RecordComplete
<1> QED BY <1>1, RangeInvariance, PTL

\* cachedLogRange answers with exactly the settled logs of the request, from wherever they
\* came, and with nothing outside it.
THEOREM AnswerStaysExact == ASSUME OneStart PROVE RangeSpec => []AnswerExact
<1>1. RangeInv => AnswerExact
  BY DEF RangeInv
<1> QED BY <1>1, RangeInvariance, PTL

=============================================================================
