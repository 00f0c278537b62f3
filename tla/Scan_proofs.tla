------------------------------ MODULE Scan_proofs ------------------------------
(***************************************************************************)
(* Theorems about a scan and the cache it reads the facts of a block from. *)
(*                                                                         *)
(* About PointCache: for any number of calls and rescans, any heads, depth *)
(* and transit within REORG_DEPTH.  The argument is about an answer on its *)
(* way: it is no older than Transit blocks, so when the head says that its *)
(* block is REORG_DEPTH deep, the block was Depth deep when the answer was *)
(* given, and has not changed since.                                       *)
(*                                                                         *)
(* About WalletScan: for any number of scans and look-ups open at once,    *)
(* any number of positions, workers and attempts.  Two arguments that do   *)
(* not meet: what a step makes of the subject, and where a position is     *)
(* (not taken yet, with one worker, or with an outcome).                   *)
(***************************************************************************)
EXTENDS PointCache, WalletScan, FiniteSetTheorems, TLAPS

-----------------------------------------------------------------------------
(* PointCache *)

\* What an answer on its way is worth: it is young, and the chain's for good if its block
\* was deep enough when it was given.
AnswerYoung(c) ==
    /\ got[c] \in Facts
    /\ sentTip[c] <= tip /\ tip <= sentTip[c] + Transit
    /\ At + Depth <= sentTip[c] => got[c] = fact

\* A load resolves to nothing settled before it began, and whoever follows it was there by
\* the rescan it began after.
Dated(c) ==
    /\ born[c] <= resets
    /\ (pc[c] = "reading" /\ seen[c] # NoFact) \/ pc[c] = "resolved" => born[c] <= origin[c]
    /\ pc[c] = "idle" => follows[c] = NoFact
    /\ follows[c] # NoFact =>
          pc[follows[c]] \in Loading \cup {"resolved", "rejected"} /\ born[c] <= born[follows[c]]

\* The page is never told of a block that is not mined; the memo holds the promise of a
\* load of this side of the last rescan that has not failed, and the point on disk was
\* written on this side of it.
PointIInv ==
    /\ PointTypeOK
    /\ StoredIsFinal
    /\ observedHead <= tip
    /\ memo # NoFact => pc[memo] \in Loading \cup {"resolved"} /\ born[memo] = resets
    /\ \A c \in Callers : pc[c] = "answered" => AnswerYoung(c)
    /\ store # NoFact => storedIn = resets
    /\ \A c \in Callers : Dated(c)

-----------------------------------------------------------------------------
(* The types *)

LEMMA PointInitTyped == PointInit => PointTypeOK
BY BlocksValid DEF PointInit, PointTypeOK, PC

LEMMA LoadTyped ==
    ASSUME PointTypeOK, NEW c \in Callers, Load(c)
    PROVE  PointTypeOK'
<1>1. CASE PointHit(c)
  BY <1>1 DEF PointHit, PointTypeOK, PC, caches, history
<1>2. CASE PointMiss(c)
  BY <1>2 DEF PointMiss, PointTypeOK, PC, caches, history
<1>3. CASE NodeAnswers(c)
  <2>1. tip \in 0 .. MaxTip
    BY BlocksValid DEF PointTypeOK
  <2> QED BY <1>3, <2>1 DEF NodeAnswers, PointTypeOK, PC, caches
<1>4. CASE Resolve(c)
  BY <1>4 DEF Resolve, PointTypeOK, PC
<1>5. CASE Reject(c)
  BY <1>5 DEF Reject, PointTypeOK, PC, history
<1> QED BY <1>1, <1>2, <1>3, <1>4, <1>5 DEF Load

LEMMA PointNextTyped ==
    ASSUME PointTypeOK, [PointNext]_pointVars
    PROVE  PointTypeOK'
<1>1. CASE Mine
  BY <1>1, BlocksValid DEF Mine, PointTypeOK, caches, calls, history
<1>2. CASE Reorg
  BY <1>2 DEF Reorg, PointTypeOK, caches, calls, history
<1>3. CASE noteHead
  <2>1. observedHead' \in 0 .. MaxTip
    BY <1>3, BlocksValid DEF noteHead, PointTypeOK
  <2> QED BY <1>3, <2>1 DEF noteHead, PointTypeOK, calls, history
<1>4. CASE resetCaches
  BY <1>4, BlocksValid DEF resetCaches, PointTypeOK, calls
<1>5. CASE \E c \in Callers : MemoHit(c) \/ MemoMiss(c)
  <2>1. PICK c \in Callers : MemoHit(c) \/ MemoMiss(c)
    BY <1>5
  <2>2. CASE MemoHit(c)
    BY <2>2 DEF MemoHit, PointTypeOK, PC, caches
  <2>3. CASE MemoMiss(c)
    BY <2>3 DEF MemoMiss, PointTypeOK, PC
  <2> QED BY <2>1, <2>2, <2>3
<1>6. CASE \E c \in Callers : Load(c)
  BY <1>6, LoadTyped
<1>7. CASE UNCHANGED pointVars
  BY <1>7 DEF pointVars, PointTypeOK
<1> QED BY <1>1, <1>2, <1>3, <1>4, <1>5, <1>6, <1>7 DEF PointNext

-----------------------------------------------------------------------------
(* The invariant *)

LEMMA PointInitIInv == PointInit => PointIInv
<1> SUFFICES ASSUME PointInit PROVE PointIInv
  OBVIOUS
<1>1. observedHead <= tip
  BY BlocksValid DEF PointInit
<1>2. ASSUME NEW c \in Callers PROVE Dated(c)
  <2>1. pc[c] = "idle" /\ follows[c] = NoFact /\ born[c] = 0 /\ resets = 0
    BY DEF PointInit
  <2> QED BY <2>1 DEF Dated
<1> QED BY <1>1, <1>2, PointInitTyped DEF PointInit, PointIInv, StoredIsFinal

\* A load that goes on stays dated, and so does every call.
LEMMA DatedLoad ==
    ASSUME PointTypeOK, \A d \in Callers : Dated(d), NEW c \in Callers,
           pc[c] \in Loading, pc'[c] \in {"asking", "answered", "resolved", "rejected"},
           pc'[c] = "resolved" => born[c] <= origin'[c],
           \A d \in Callers \ {c} : pc'[d] = pc[d] /\ origin'[d] = origin[d],
           UNCHANGED <<born, resets, follows, seen>>
    PROVE  \A d \in Callers : Dated(d)'
<1> TAKE d \in Callers
<1>1. pc[d] = "idle" <=> pc'[d] = "idle"
  BY DEF Loading
<1>2. (pc'[d] = "reading" /\ seen[d] # NoFact) \/ pc'[d] = "resolved" => born[d] <= origin'[d]
  <2>1. CASE d = c
    BY <2>1 DEF Loading
  <2>2. CASE d # c
    BY <2>2 DEF Dated
  <2> QED BY <2>1, <2>2
<1>3. follows[d] # NoFact =>
        pc'[follows[d]] \in Loading \cup {"resolved", "rejected"} /\ born[d] <= born[follows[d]]
  <2> SUFFICES ASSUME follows[d] # NoFact
               PROVE  /\ pc'[follows[d]] \in Loading \cup {"resolved", "rejected"}
                      /\ born[d] <= born[follows[d]]
    OBVIOUS
  <2>1. follows[d] \in Callers
    BY DEF PointTypeOK
  <2>2. /\ pc[follows[d]] \in Loading \cup {"resolved", "rejected"}
        /\ born[d] <= born[follows[d]]
    BY DEF Dated
  <2>3. CASE follows[d] = c
    BY <2>2, <2>3 DEF Loading
  <2>4. CASE follows[d] # c
    BY <2>1, <2>2, <2>4
  <2> QED BY <2>2, <2>3, <2>4
<1> QED BY <1>1, <1>2, <1>3 DEF Dated

\* A load's step, other than the answer's arrival.
LEMMA LoadKeeps ==
    ASSUME PointIInv, NEW c \in Callers, PointHit(c) \/ PointMiss(c) \/ NodeAnswers(c) \/ Reject(c)
    PROVE  PointIInv'
<1> USE DEF PointIInv
<1>1. PointTypeOK'
  BY LoadTyped DEF Load
<1>2. c # NoFact /\ UNCHANGED <<tip, fact, observedHead, store, born, resets, storedIn, origin,
                               follows, seen>>
  BY NoFactAssumption DEF PointHit, PointMiss, NodeAnswers, Reject, caches, history
<1>3. StoredIsFinal' /\ (observedHead <= tip)'
  BY <1>2 DEF StoredIsFinal
<1>4. memo' # NoFact => pc'[memo'] \in Loading \cup {"resolved"} /\ born'[memo'] = resets'
  <2>1. CASE Reject(c)
    BY <2>1 DEF Reject
  <2>2. CASE PointHit(c) \/ PointMiss(c) \/ NodeAnswers(c)
    <3>1. memo' = memo
      BY <2>2 DEF PointHit, PointMiss, NodeAnswers, caches
    <3>2. pc'[c] \in Loading \cup {"resolved"} /\ \A d \in Callers \ {c} : pc'[d] = pc[d]
      BY <2>2 DEF PointHit, PointMiss, NodeAnswers, PointTypeOK, Loading
    <3>3. memo # NoFact => memo \in Callers
      BY DEF PointTypeOK
    <3> QED BY <3>1, <3>2, <3>3, <1>2
  <2> QED BY <2>1, <2>2
<1>5. ASSUME NEW d \in Callers, pc'[d] = "answered" PROVE AnswerYoung(d)'
  <2>1. CASE NodeAnswers(c) /\ d = c
    <3>1. got'[c] = fact /\ sentTip'[c] = tip
      BY <2>1 DEF NodeAnswers, PointTypeOK
    <3> QED BY <2>1, <3>1, <1>2, BlocksValid DEF AnswerYoung, PointTypeOK
  <2>2. CASE ~(NodeAnswers(c) /\ d = c)
    <3>1. pc[d] = "answered" /\ got'[d] = got[d] /\ sentTip'[d] = sentTip[d]
      BY <2>2, <1>5 DEF PointHit, PointMiss, NodeAnswers, Reject, PointTypeOK, history
    <3> QED BY <3>1, <1>2 DEF AnswerYoung
  <2> QED BY <2>1, <2>2
<1>6. \A d \in Callers : Dated(d)'
  <2>1. /\ pc[c] \in Loading
        /\ pc'[c] \in {"asking", "answered", "resolved", "rejected"}
        /\ pc'[c] = "resolved" => pc[c] = "reading" /\ seen[c] # NoFact
        /\ \A d \in Callers \ {c} : pc'[d] = pc[d]
    BY DEF PointHit, PointMiss, NodeAnswers, Reject, PointTypeOK, Loading
  <2>2. pc'[c] = "resolved" => born[c] <= origin'[c]
    BY <1>2, <2>1 DEF Dated
  <2> QED BY <1>2, <2>1, <2>2, DatedLoad
<1> QED BY <1>1, <1>2, <1>3, <1>4, <1>5, <1>6

\* The answer that is written down was given when its block was Depth deep.
LEMMA FinalWhenGiven ==
    ASSUME PointIInv, NEW c \in Callers, pc[c] = "answered", isFinal(At)
    PROVE  got[c] = fact /\ At + Depth <= tip
<1>1. At + REORG_DEPTH <= tip
  BY BlocksValid DEF PointIInv, isFinal, PointTypeOK
<1>2. AnswerYoung(c)
  BY DEF PointIInv
<1>3. sentTip[c] \in Nat /\ tip \in Nat
  BY BlocksValid DEF PointIInv, PointTypeOK
<1>4. At + Depth <= sentTip[c]
  BY <1>1, <1>2, <1>3, BlocksValid, DepthSuffices DEF AnswerYoung
<1> QED BY <1>2, <1>3, <1>4, BlocksValid DEF AnswerYoung

LEMMA ResolveKeeps ==
    ASSUME PointIInv, NEW c \in Callers, Resolve(c)
    PROVE  PointIInv'
<1> USE DEF PointIInv
<1>1. PointTypeOK'
  BY LoadTyped DEF Load
<1>2. UNCHANGED <<tip, fact, observedHead, memo, got, born, resets, sentTip, follows, seen>>
  BY DEF Resolve
<1>3. pc'[c] = "resolved" /\ \A d \in Callers \ {c} : pc'[d] = pc[d]
  BY DEF Resolve, PointTypeOK
<1>4. StoredIsFinal'
  <2>1. CASE store' = store
    BY <2>1, <1>2 DEF StoredIsFinal
  <2>2. CASE store' # store
    <3>1. isFinal(At) /\ store' = got[c] /\ pc[c] = "answered"
      BY <2>2 DEF Resolve
    <3> QED BY <3>1, <1>2, FinalWhenGiven DEF StoredIsFinal
  <2> QED BY <2>1, <2>2
<1>5. memo' # NoFact => pc'[memo'] \in Loading \cup {"resolved"} /\ born'[memo'] = resets'
  <2>1. memo # NoFact => memo \in Callers
    BY DEF PointTypeOK
  <2> QED BY <2>1, <1>2, <1>3
<1>6. ASSUME NEW d \in Callers, pc'[d] = "answered" PROVE AnswerYoung(d)'
  BY <1>6, <1>2, <1>3 DEF AnswerYoung
<1>7. store' # NoFact => storedIn' = resets'
  BY <1>2 DEF Resolve
<1>8. \A d \in Callers : Dated(d)'
  <2>1. pc[c] = "answered" /\ origin'[c] = resets /\ \A d \in Callers \ {c} : origin'[d] = origin[d]
    BY DEF Resolve, PointTypeOK
  <2>2. born[c] <= origin'[c]
    BY <2>1 DEF Dated
  <2> QED BY <1>2, <1>3, <2>1, <2>2, DatedLoad DEF Loading
<1> QED BY <1>1, <1>2, <1>4, <1>5, <1>6, <1>7, <1>8

LEMMA PointNextKeeps ==
    ASSUME PointIInv, [PointNext]_pointVars
    PROVE  PointIInv'
<1> USE DEF PointIInv
<1>1. PointTypeOK'
  BY PointNextTyped
<1>2. CASE Mine
  <2>1. UNCHANGED <<fact, observedHead, store, memo, pc, got, born, resets, sentTip,
                    storedIn, origin, follows, seen>>
    BY <1>2 DEF Mine, caches, calls, history
  <2>2. tip' = tip + 1 /\ tip \in Nat /\ observedHead \in Nat
    BY <1>2, BlocksValid DEF Mine, PointTypeOK
  <2>3. StoredIsFinal' /\ (observedHead <= tip)'
    BY <2>1, <2>2, BlocksValid DEF StoredIsFinal
  <2>4. ASSUME NEW d \in Callers, pc'[d] = "answered" PROVE AnswerYoung(d)'
    <3>1. tip < sentTip[d] + Transit /\ AnswerYoung(d)
      BY <1>2, <2>1, <2>4 DEF Mine
    <3>2. sentTip[d] \in Nat
      BY BlocksValid DEF PointTypeOK
    <3>3. sentTip[d] <= tip + 1 /\ tip + 1 <= sentTip[d] + Transit
      BY <3>1, <3>2, <2>2, BlocksValid DEF AnswerYoung
    <3> QED BY <3>1, <3>3, <2>1, <2>2 DEF AnswerYoung
  <2> QED BY <1>1, <2>1, <2>3, <2>4 DEF Dated
<1>3. CASE Reorg
  <2>1. UNCHANGED <<tip, observedHead, store, memo, pc, got, born, resets, sentTip,
                    storedIn, origin, follows, seen>>
    BY <1>3 DEF Reorg, caches, calls, history
  <2>2. ~(At + Depth <= tip) /\ tip \in Nat
    BY <1>3, BlocksValid DEF Reorg, PointTypeOK
  <2>3. StoredIsFinal'
    BY <2>1, <2>2 DEF StoredIsFinal
  <2>4. ASSUME NEW d \in Callers, pc'[d] = "answered" PROVE AnswerYoung(d)'
    <3>1. AnswerYoung(d) /\ sentTip[d] \in Nat
      BY <2>1, <2>4, BlocksValid DEF PointTypeOK
    <3>2. ~(At + Depth <= sentTip[d])
      BY <3>1, <2>2, BlocksValid DEF AnswerYoung
    <3> QED BY <3>1, <3>2, <2>1 DEF AnswerYoung
  <2> QED BY <1>1, <2>1, <2>3, <2>4 DEF Dated
<1>4. CASE noteHead
  <2>1. UNCHANGED <<tip, fact, store, memo, pc, got, born, resets, sentTip,
                    storedIn, origin, follows, seen>>
    BY <1>4 DEF noteHead, calls, history
  <2>2. observedHead' <= tip'
    BY <1>4, BlocksValid DEF noteHead, PointTypeOK
  <2> QED BY <1>1, <2>1, <2>2 DEF StoredIsFinal, AnswerYoung, Dated
<1>5. CASE resetCaches
  <2>1. UNCHANGED <<tip, fact, observedHead, pc, got, born, sentTip, origin, follows, seen>>
    BY <1>5 DEF resetCaches, calls
  <2>2. memo' = NoFact /\ store' = NoFact /\ resets' = resets + 1
    BY <1>5 DEF resetCaches
  <2>3. \A d \in Callers : Dated(d)'
    <3>1. \A d \in Callers : born[d] <= resets'
      BY <2>2, BlocksValid DEF Dated, PointTypeOK
    <3> QED BY <2>1, <3>1 DEF Dated
  <2> QED BY <1>1, <2>1, <2>2, <2>3 DEF StoredIsFinal, AnswerYoung
<1>6. CASE \E c \in Callers : MemoHit(c) \/ MemoMiss(c)
  <2>1. PICK c \in Callers : MemoHit(c) \/ MemoMiss(c)
    BY <1>6
  <2>2. UNCHANGED <<tip, fact, observedHead, store, got, resets, sentTip, storedIn>>
    BY <2>1 DEF MemoHit, MemoMiss, caches
  <2>3. /\ pc[c] = "idle" /\ pc'[c] \in {"waiting", "reading"} /\ born'[c] = resets
        /\ \A d \in Callers \ {c} :
              /\ pc'[d] = pc[d] /\ born'[d] = born[d] /\ follows'[d] = follows[d]
              /\ seen'[d] = seen[d] /\ origin'[d] = origin[d]
    BY <2>1 DEF MemoHit, MemoMiss, PointTypeOK
  <2>4. memo' # NoFact => pc'[memo'] \in Loading \cup {"resolved"} /\ born'[memo'] = resets'
    <3>1. CASE MemoHit(c)
      <4>1. memo' = memo /\ memo # c
        BY <3>1, <2>3 DEF MemoHit, caches, Loading
      <4>2. memo # NoFact => memo \in Callers \ {c}
        BY <4>1 DEF PointTypeOK
      <4> QED BY <4>1, <4>2, <2>2, <2>3
    <3>2. CASE MemoMiss(c)
      BY <3>2, <2>2 DEF MemoMiss, PointTypeOK, Loading
    <3> QED BY <3>1, <3>2, <2>1
  <2>5. ASSUME NEW d \in Callers, pc'[d] = "answered" PROVE AnswerYoung(d)'
    BY <2>2, <2>3, <2>5 DEF AnswerYoung
  <2>6. Dated(c)'
    <3>1. resets \in Nat /\ born'[c] <= resets'
      BY <2>2, <2>3, BlocksValid DEF PointTypeOK
    <3>2. CASE MemoHit(c)
      <4>1. follows'[c] = memo /\ memo \in Callers \ {c} /\ pc'[c] = "waiting"
        BY <2>3, <3>2 DEF MemoHit, PointTypeOK, Loading
      <4>2. born'[memo] = resets /\ pc'[memo] \in Loading \cup {"resolved"}
        BY <2>3, <4>1, NoFactAssumption
      <4> QED BY <2>3, <3>1, <4>1, <4>2 DEF Dated
    <3>3. CASE MemoMiss(c)
      <4>1. follows'[c] = c /\ pc'[c] = "reading" /\ seen'[c] = store /\ origin'[c] = storedIn
        BY <3>3 DEF MemoMiss, PointTypeOK
      <4> QED BY <2>3, <3>1, <4>1 DEF Dated, Loading
    <3> QED BY <2>1, <3>2, <3>3
  <2>7. ASSUME NEW d \in Callers \ {c} PROVE Dated(d)'
    <3>1. follows[d] # c
      <4>1. pc[c] \notin Loading \cup {"resolved", "rejected"}
        BY <2>3 DEF Loading
      <4> QED BY <4>1, NoFactAssumption DEF Dated
    <3>2. follows[d] # NoFact => follows[d] \in Callers \ {c}
      BY <3>1 DEF PointTypeOK
    <3> QED BY <2>2, <2>3, <3>2 DEF Dated
  <2> QED BY <1>1, <2>2, <2>4, <2>5, <2>6, <2>7 DEF StoredIsFinal
<1>7. CASE \E c \in Callers : Load(c)
  BY <1>7, LoadKeeps, ResolveKeeps DEF Load
<1>8. CASE UNCHANGED pointVars
  BY <1>1, <1>8 DEF pointVars, StoredIsFinal, AnswerYoung, Dated
<1> QED BY <1>2, <1>3, <1>4, <1>5, <1>6, <1>7, <1>8 DEF PointNext

\* The invariant of answers, memo and disk holds always.
LEMMA PointInvariance == PointSpec => []PointIInv
BY PointInitIInv, PointNextKeeps, PTL DEF PointSpec

-----------------------------------------------------------------------------
(* What follows *)

\* What is on disk is what the chain holds, for good (cachedPoint, isFinal).
THEOREM DiskStaysFinal == PointSpec => []StoredIsFinal
<1>1. PointIInv => StoredIsFinal
  BY DEF PointIInv
<1> QED BY <1>1, PointInvariance, PTL

\* The memo never hands out a promise that failed (cachedByKey).
THEOREM MemoStaysSound == PointSpec => []MemoSound
<1>1. PointIInv => MemoSound
  BY DEF PointIInv, MemoSound, NeverPoisoned, Loading
<1> QED BY <1>1, PointInvariance, PTL

\* Nothing the memo or the disk had settled on before a rescan is handed to a call made
\* after it (resetCaches); loads that were under way at the rescan are not told of it, and
\* nothing is claimed of what a node told them before.
THEOREM RescansForget == PointSpec => []RescanForgets
<1>1. PointIInv => RescanForgets
  <2> SUFFICES ASSUME PointIInv, NEW c \in Callers, follows[c] # NoFact,
                      pc[follows[c]] = "resolved"
               PROVE  origin[follows[c]] >= born[c]
    BY DEF RescanForgets
  <2>1. follows[c] \in Callers
    BY DEF PointIInv, PointTypeOK
  <2>2. born[c] <= born[follows[c]] /\ born[follows[c]] <= origin[follows[c]]
    BY <2>1 DEF PointIInv, Dated
  <2>3. born[c] \in Nat /\ born[follows[c]] \in Nat /\ origin[follows[c]] \in Nat
    BY <2>1, BlocksValid DEF PointIInv, PointTypeOK
  <2> QED BY <2>2, <2>3
<1> QED BY <1>1, PointInvariance, PTL

-----------------------------------------------------------------------------
(* WalletScan *)

Stages == Serial \cup Over \cup {"idle", "prefetch", "positions"}

\* The two halves of TypeOK.
ControlTyped ==
    /\ subject \in Calls \cup {None}
    /\ genesisFloor \in BOOLEAN
    /\ stage \in [Calls -> Stages]
    /\ read \in [Calls -> [Parts -> {"none", "waiting", "sent", "answered"}]]
    /\ met \in SUBSET Calls

WorkTyped ==
    /\ count \in [Calls -> 0 .. MaxPositions]
    /\ next \in [Calls -> 1 .. MaxPositions + 1]
    /\ hand \in [Calls -> [Workers -> 0 .. MaxPositions]]
    /\ job \in [Calls -> [Workers -> {"none", "waiting", "sent", "backoff"}]]
    /\ tries \in [Calls -> [Workers -> 0 .. Attempts]]
    /\ positions \in [Calls -> SUBSET (1 .. MaxPositions)]
    /\ skipped \in [Calls -> SUBSET (1 .. MaxPositions)]
    /\ done \in [Calls -> 0 .. MaxPositions]

\* The subject is that of a call that runs, and of a look-up only once it has its receipt;
\* a call that met no other runs alone, with a subject of its own.
SubjectInv ==
    /\ \A c \in Calls : subject = c => Running(c)
    /\ \A c \in Lookups : stage[c] \in {"head", "receipt"} => subject # c
    /\ \A c \in Calls \ met : Running(c) =>
          /\ \A d \in Calls : Running(d) => d = c
          /\ subject \in (IF c \in Scans THEN {c} ELSE {c, None})

\* Hands h, outcomes P and S, cursor n and progress d: the positions below the cursor are
\* once each in a hand or among the outcomes.
Once(h, P, S, n, d) ==
    /\ \A v, w \in Workers : v # w /\ h[v] = h[w] => h[v] = NoPosition
    /\ P \cap S = {}
    /\ \A w \in Workers : h[w] \notin P \cup S
    /\ \A w \in Workers : h[w] < n
    /\ P \cup S \subseteq 1 .. n - 1
    /\ \A i \in 1 .. n - 1 : i \in P \cup S \/ \E w \in Workers : h[w] = i
    /\ d = Cardinality(P \cup S)

\* What a call has done of its work, and what its stage says of that.
Accounted(c) ==
    /\ Once(hand[c], positions[c], skipped[c], next[c], done[c])
    /\ next[c] <= count[c] + 1
    /\ \A w \in Workers :
          /\ job[c][w] = "none" <=> hand[c][w] = NoPosition
          /\ job[c][w] \in {"none", "waiting", "sent"} => tries[c][w] < Attempts
          /\ hand[c][w] # NoPosition => stage[c] = "positions"
          /\ hand[c][w] = NoPosition /\ stage[c] = "positions" => next[c] = count[c] + 1
    /\ stage[c] \notin Over \cup {"positions"} =>
          positions[c] = {} /\ skipped[c] = {} /\ next[c] = 1
    /\ c \in Scans /\ stage[c] = "returned" => next[c] = count[c] + 1

IInv ==
    /\ ControlTyped
    /\ WorkTyped
    /\ SubjectInv
    /\ \A c \in Calls : Accounted(c)

LEMMA TypeOKSplits == TypeOK <=> ControlTyped /\ WorkTyped
BY Zenon DEF TypeOK, ControlTyped, WorkTyped, Stages

-----------------------------------------------------------------------------
(* Values *)

Hands == [Workers -> 0 .. MaxPositions]
Some == SUBSET (1 .. MaxPositions)

LEMMA CountFromOne ==
    ASSUME NEW n \in 0 .. MaxPositions
    PROVE  1 <= n + 1
BY BoundsPositive

\* An outcome is one position more, and there are no more of them than positions.
LEMMA OneMore ==
    ASSUME NEW A \in Some, NEW x \in 1 .. MaxPositions, x \notin A
    PROVE  /\ Cardinality(A \cup {x}) = Cardinality(A) + 1
           /\ Cardinality(A \cup {x}) \in 0 .. MaxPositions
<1>1. IsFiniteSet(1 .. MaxPositions) /\ Cardinality(1 .. MaxPositions) = MaxPositions
  BY BoundsPositive, FS_Interval
<1>2. IsFiniteSet(A)
  BY <1>1, FS_Subset DEF Some
<1>3. Cardinality(A \cup {x}) = Cardinality(A) + 1
  BY <1>2, FS_AddElement
<1>4. A \cup {x} \in SUBSET (1 .. MaxPositions)
  BY DEF Some
<1>5. IsFiniteSet(A \cup {x}) /\ Cardinality(A \cup {x}) <= MaxPositions
  BY <1>1, <1>4, FS_Subset
<1>6. Cardinality(A \cup {x}) \in Nat
  BY <1>5, FS_CardinalityType
<1> QED BY <1>3, <1>5, <1>6, BoundsPositive

\* A worker's position gets its outcome and the worker lets go of it.
LEMMA FileOne ==
    ASSUME NEW h \in Hands, NEW P \in Some, NEW S \in Some, NEW n \in Nat, NEW d,
           Once(h, P, S, n, d), NEW w \in Workers, h[w] # NoPosition,
           NEW Q \in Some, NEW T \in Some,
           \/ Q = P \cup {h[w]} /\ T = S
           \/ Q = P /\ T = S \cup {h[w]}
    PROVE  /\ Once([h EXCEPT ![w] = NoPosition], Q, T, n, d + 1)
           /\ d + 1 \in 0 .. MaxPositions
<1> DEFINE g == [h EXCEPT ![w] = NoPosition]
<1>1. g[w] = NoPosition /\ \A v \in Workers \ {w} : g[v] = h[v]
  BY DEF Hands
<1>2. h[w] \in 1 .. MaxPositions /\ h[w] \notin P \cup S /\ Q \cup T = (P \cup S) \cup {h[w]}
  BY DEF Hands, Once, NoPosition
<1>3. P \cup S \in Some
  BY DEF Some
<1>4. Cardinality(Q \cup T) = d + 1 /\ d + 1 \in 0 .. MaxPositions
  BY <1>2, <1>3, OneMore DEF Once
<1> HIDE DEF g
<1>5. \A v, u \in Workers : v # u /\ g[v] = g[u] => g[v] = NoPosition
  BY <1>1 DEF Once
<1>6. Q \cap T = {}
  BY <1>2 DEF Once
<1>7. \A v \in Workers : g[v] \notin Q \cup T /\ g[v] < n
  <2> TAKE v \in Workers
  <2>1. CASE v = w
    <3>1. n > 0
      BY <1>2 DEF Once
    <3>2. 0 \notin Q \cup T
      BY DEF Some
    <3> QED BY <2>1, <1>1, <3>1, <3>2 DEF NoPosition
  <2>2. CASE v # w
    <3>1. g[v] = h[v] /\ h[v] # h[w]
      BY <1>1, <2>2 DEF Once
    <3> QED BY <3>1, <1>2 DEF Once
  <2> QED BY <2>1, <2>2
<1>8. Q \cup T \subseteq 1 .. n - 1
  <2>1. h[w] \in 1 .. n - 1
    BY <1>2 DEF Once
  <2> QED BY <1>2, <2>1 DEF Once
<1>9. \A i \in 1 .. n - 1 : i \in Q \cup T \/ \E v \in Workers : g[v] = i
  <2> TAKE i \in 1 .. n - 1
  <2>1. CASE \E v \in Workers : h[v] = i
    <3>1. PICK v \in Workers : h[v] = i
      BY <2>1
    <3> QED BY <3>1, <1>1, <1>2
  <2>2. CASE i \in P \cup S
    BY <2>2, <1>2
  <2> QED BY <2>1, <2>2 DEF Once
<1>10. Once(g, Q, T, n, d + 1)
  BY <1>4, <1>5, <1>6, <1>7, <1>8, <1>9 DEF Once
<1> QED BY <1>4, <1>10 DEF g

\* A free worker takes the position at the cursor.
LEMMA TakeOne ==
    ASSUME NEW h \in Hands, NEW P \in Some, NEW S \in Some, NEW n \in Nat \ {0}, NEW d,
           Once(h, P, S, n, d), NEW w \in Workers, h[w] = NoPosition
    PROVE  Once([h EXCEPT ![w] = n], P, S, n + 1, d)
<1> DEFINE g == [h EXCEPT ![w] = n]
<1>1. g[w] = n /\ \A v \in Workers \ {w} : g[v] = h[v]
  BY DEF Hands
<1>2. \A v \in Workers : h[v] \in Nat
  BY BoundsPositive DEF Hands
<1> HIDE DEF g
<1>3. \A v, u \in Workers : v # u /\ g[v] = g[u] => g[v] = NoPosition
  BY <1>1, <1>2 DEF Once
<1>4. \A v \in Workers : g[v] \notin P \cup S /\ g[v] < n + 1
  BY <1>1, <1>2 DEF Once
<1>5. P \cup S \subseteq 1 .. n + 1 - 1
  BY DEF Once
<1>6. \A i \in 1 .. n + 1 - 1 : i \in P \cup S \/ \E v \in Workers : g[v] = i
  <2> TAKE i \in 1 .. n + 1 - 1
  <2>1. CASE i = n
    BY <2>1, <1>1
  <2>2. CASE i # n
    <3>1. i \in 1 .. n - 1 /\ h[w] # i
      BY <2>2 DEF NoPosition
    <3>2. i \in P \cup S \/ \E v \in Workers \ {w} : h[v] = i
      BY <3>1 DEF Once
    <3> QED BY <3>2, <1>1
  <2> QED BY <2>1, <2>2
<1> QED BY <1>3, <1>4, <1>5, <1>6 DEF Once, g

\* The pool starts: the first positions, one each, as many as there are workers for.
LEMMA StartAll ==
    ASSUME NEW k \in 0 .. MaxPositions
    PROVE  LET busy == {w \in Workers : w <= k}
               n == Cardinality(busy) + 1
               h == [w \in Workers |-> IF w \in busy THEN w ELSE NoPosition]
           IN  /\ Once(h, {}, {}, n, 0)
               /\ n \in 1 .. k + 1
               /\ h \in Hands
               /\ \A w \in Workers : w \notin busy => n = k + 1
<1> DEFINE busy == {w \in Workers : w <= k}
           n == Cardinality(busy) + 1
           h == [w \in Workers |-> IF w \in busy THEN w ELSE NoPosition]
           top == IF k <= POSITION_CONCURRENCY THEN k ELSE POSITION_CONCURRENCY
<1>1. k \in Nat /\ top \in Nat /\ top <= k /\ busy = 1 .. top
  <2>1. k \in Nat /\ POSITION_CONCURRENCY \in Nat
    BY BoundsPositive
  <2>2. top \in Nat /\ top <= k /\ top <= POSITION_CONCURRENCY
    BY <2>1
  <2>3. \A w \in Nat : w <= top <=> w <= k /\ w <= POSITION_CONCURRENCY
    BY <2>1
  <2>4. \A w : w \in busy <=> w \in 1 .. top
    BY <2>1, <2>2, <2>3 DEF Workers
  <2> QED BY <2>1, <2>2, <2>4
<1>3. \A w \in Workers : w \notin busy => top = k
  BY <1>1, BoundsPositive DEF Workers
<1>4. \A w \in Workers : w \in Nat \ {0} /\ h[w] = IF w \in busy THEN w ELSE NoPosition
  BY DEF Workers
<1>5. h \in Hands
  BY <1>1, BoundsPositive DEF Hands, NoPosition, Workers
<1>6. \A i \in 1 .. top : i \in Workers /\ h[i] = i
  BY <1>1
<1>7. Cardinality({}) = 0
  BY FS_EmptySet
<1> HIDE DEF h, top, busy
<1>2. n = top + 1
  <2>1. Cardinality(1 .. top) = top
    BY <1>1, FS_Interval
  <2> QED BY <2>1, <1>1
<1>8. /\ \A v, w \in Workers : v # w /\ h[v] = h[w] => h[v] = NoPosition
      /\ \A w \in Workers : h[w] < top + 1
  BY <1>1, <1>4 DEF NoPosition
<1>9. Once(h, {}, {}, top + 1, 0)
  BY <1>1, <1>6, <1>7, <1>8 DEF Once
<1>10. n = top + 1 /\ top + 1 \in 1 .. k + 1
  BY <1>1, <1>2
<1> QED BY <1>3, <1>5, <1>9, <1>10 DEF busy, h

-----------------------------------------------------------------------------
(* Types of the control *)

LEMMA AskTyped ==
    ASSUME ControlTyped, NEW c \in Calls, NEW s \in Serial, Ask(c, s)
    PROVE  /\ stage' \in [Calls -> Stages]
           /\ read' \in [Calls -> [Parts -> {"none", "waiting", "sent", "answered"}]]
BY DEF ControlTyped, Ask, Stages, Parts

LEMMA CloseTyped ==
    ASSUME ControlTyped, NEW c \in Calls, NEW how \in Over, Close(c, how)
    PROVE  /\ stage' \in [Calls -> Stages]
           /\ subject' \in Calls \cup {None}
BY DEF ControlTyped, Close, Stages

LEMMA StartPoolTyped ==
    ASSUME ControlTyped, NEW c \in Calls, StartPool(c)
    PROVE  /\ stage' \in [Calls -> Stages]
           /\ subject' \in Calls \cup {None}
<1>1. CASE Close(c, "returned")
  BY <1>1, CloseTyped DEF Over
<1>2. CASE stage' = [stage EXCEPT ![c] = "positions"] /\ UNCHANGED subject
  BY <1>2 DEF ControlTyped, Stages
<1> QED BY <1>1, <1>2 DEF StartPool

LEMMA RunEndsTyped ==
    ASSUME ControlTyped, NEW c \in Calls, NEW w \in Workers, RunEnds(c, w)
    PROVE  ControlTyped'
<1>1. CASE Close(c, "returned")
  BY <1>1, CloseTyped DEF RunEnds, Over, ControlTyped
<1>2. CASE UNCHANGED <<subject, stage>>
  BY <1>2 DEF RunEnds, ControlTyped
<1> QED BY <1>1, <1>2 DEF RunEnds

LEMMA AnsweredTyped ==
    ASSUME ControlTyped, NEW c \in Calls, Answered(c)
    PROVE  ControlTyped'
<1>1. met' = met
  BY DEF Answered
<1>2. CASE c \in Scans /\ ScanGoesOn(c)
  <2>1. CASE \E s \in Serial : Ask(c, s) /\ genesisFloor' \in BOOLEAN /\ subject' = subject
    BY <2>1, <1>1, AskTyped DEF ControlTyped
  <2>2. CASE /\ stage' = [stage EXCEPT ![c] = "prefetch"]
             /\ read' = [read EXCEPT ![c] =
                          [p \in Parts |-> IF p = "serial" THEN "none" ELSE "waiting"]]
             /\ UNCHANGED <<subject, genesisFloor>>
    BY <2>2, <1>1 DEF ControlTyped, Stages
  <2> QED BY <1>2, <2>1, <2>2 DEF ScanGoesOn, FloorFound, Serial, ControlTyped
<1>3. CASE LookupGoesOn(c)
  <2>1. CASE \E s \in Serial : Ask(c, s) /\ genesisFloor' = genesisFloor /\ subject' \in {subject, c}
    BY <2>1, <1>1, AskTyped DEF ControlTyped
  <2>2. CASE /\ stage' = [stage EXCEPT ![c] = "thrown"]
             /\ read' = [read EXCEPT ![c]["serial"] = "none"]
             /\ subject' = None /\ UNCHANGED genesisFloor
    BY <2>2, <1>1 DEF ControlTyped, Stages, Over, Parts
  <2>3. CASE /\ Close(c, "returned")
             /\ read' = [read EXCEPT ![c]["serial"] = "none"]
             /\ UNCHANGED genesisFloor
    BY <2>3, <1>1, CloseTyped DEF ControlTyped, Over, Parts
  <2> QED BY <1>3, <2>1, <2>2, <2>3 DEF LookupGoesOn, ReceiptRead, Serial
<1> QED BY <1>2, <1>3 DEF Answered

LEMMA ReadsTyped ==
    ASSUME ControlTyped, NEW c \in Calls,
           Rejected(c) \/ Send(c) \/ Prefetched(c) \/ PrefetchFails(c) \/ OrphanEnds(c)
    PROVE  ControlTyped'
<1>1. CASE Rejected(c)
  <2>1. Close(c, "thrown")
    BY <1>1 DEF Rejected
  <2> QED BY <1>1, <2>1, CloseTyped DEF Rejected, ControlTyped, Over, Parts
<1>2. CASE Send(c)
  BY <1>2, SMTT(30) DEF Send, ControlTyped
<1>3. CASE Prefetched(c)
  <2>1. PICK p \in Prefetches :
          /\ \/ read' = [read EXCEPT ![c] = [o \in Parts |-> "none"]] /\ StartPool(c)
             \/ read' = [read EXCEPT ![c][p] = "answered"] /\ UNCHANGED <<subject, stage>>
          /\ UNCHANGED <<genesisFloor, met>>
    BY <1>3 DEF Prefetched
  <2> QED BY <2>1, StartPoolTyped DEF ControlTyped
<1>4. CASE PrefetchFails(c)
  <2>1. PICK p \in Prefetches :
          /\ read' = [read EXCEPT ![c] = [o \in Parts |->
                        IF o = p \/ @[o] = "answered" THEN "none" ELSE @[o]]]
          /\ Close(c, "thrown")
          /\ UNCHANGED <<genesisFloor, met>>
    BY <1>4 DEF PrefetchFails
  <2> QED BY <2>1, CloseTyped DEF ControlTyped, Over
<1>5. CASE OrphanEnds(c)
  <2>1. PICK p \in Prefetches : read' = [read EXCEPT ![c][p] = "none"]
    BY <1>5 DEF OrphanEnds
  <2>2. UNCHANGED <<subject, genesisFloor, stage, met>>
    BY <1>5 DEF OrphanEnds
  <2> QED BY <2>1, <2>2 DEF ControlTyped
<1> QED BY <1>1, <1>2, <1>3, <1>4, <1>5

LEMMA ControlStaysTyped ==
    ASSUME ControlTyped, [Next]_vars
    PROVE  ControlTyped'
<1>1. ASSUME NEW c \in Calls, Analyze(c) PROVE ControlTyped'
  <2>1. Ask(c, "head") /\ "head" \in Serial
    BY <1>1 DEF Analyze, Serial
  <2>2. met' \in SUBSET Calls /\ subject' \in Calls \cup {None}
    BY <1>1 DEF Analyze, ControlTyped, Open
  <2> QED BY <1>1, <2>1, <2>2, AskTyped DEF Analyze, ControlTyped
<1>2. ASSUME NEW c \in Calls, AnalyzeRefused(c) PROVE ControlTyped'
  BY <1>2 DEF AnalyzeRefused, ControlTyped, Open, Stages, Over
<1>3. ASSUME NEW c \in Calls, PositionComputed(c) \/ GiveUp(c) PROVE ControlTyped'
  BY <1>3, RunEndsTyped DEF PositionComputed, GiveUp
<1>4. ASSUME NEW c \in Calls, PositionFails(c) \/ RetryAgain(c) PROVE ControlTyped'
  BY <1>4 DEF PositionFails, RetryAgain, ControlTyped
<1>5. CASE UNCHANGED vars
  BY <1>5 DEF vars, ControlTyped
<1> QED BY <1>1, <1>2, <1>3, <1>4, <1>5, AnsweredTyped, ReadsTyped DEF Next, Proceed, AllOver

-----------------------------------------------------------------------------
(* The subject *)

\* What a step makes of the subject and of a stage: nothing;...
Still == UNCHANGED <<subject, stage, met>>

\* ...a call goes on, and a look-up that knows its sender may set its own;...
GoesOn(c) == \E s \in Stages \ (Over \cup {"idle"}) :
    /\ Running(c)
    /\ stage' = [stage EXCEPT ![c] = s]
    /\ s \in {"head", "receipt"} => stage[c] = "head"
    /\ \/ subject' = subject
       \/ subject' = c /\ c \in Lookups /\ s \notin {"head", "receipt"}
    /\ met' = met

\* ...a call ends, and clears it, unless it is a look-up that has none yet.
Ends(c) == \E s \in Over :
    /\ Running(c)
    /\ stage' = [stage EXCEPT ![c] = s]
    /\ \/ subject' = None
       \/ subject' = subject /\ c \in Lookups /\ stage[c] \in {"head", "receipt"}
    /\ met' = met

LEMMA CloseEnds ==
    ASSUME NEW c \in Calls, NEW how \in Over, Running(c), Close(c, how), met' = met
    PROVE  Ends(c)
BY DEF Ends, Close

LEMMA AnsweredMoves ==
    ASSUME NEW c \in Calls, Answered(c)
    PROVE  GoesOn(c) \/ Ends(c)
<1>1. Running(c) /\ met' = met
  BY DEF Answered, Running, Serial, Over
<1>2. CASE c \in Scans /\ ScanGoesOn(c)
  BY <1>1, <1>2 DEF ScanGoesOn, FloorFound, Ask, GoesOn, Stages, Serial, Over
<1>3. CASE c \in Lookups /\ LookupGoesOn(c)
  <2>1. CASE stage[c] = "position"
    <3>1. Close(c, "returned")
      BY <1>3, <2>1 DEF LookupGoesOn, ReceiptRead
    <3> QED BY <1>1, <3>1, CloseEnds DEF Over
  <2>2. CASE ReceiptRead(c)
    BY <1>1, <1>3, <2>2 DEF ReceiptRead, Ask, GoesOn, Ends, Stages, Serial, Over
  <2>3. CASE stage[c] \in {"head", "mint"}
    BY <1>1, <1>3, <2>3 DEF LookupGoesOn, ReceiptRead, Ask, GoesOn, Stages, Serial, Over
  <2> QED BY <1>3, <2>1, <2>2, <2>3 DEF LookupGoesOn
<1> QED BY <1>2, <1>3 DEF Answered, Calls

LEMMA RunEndsMoves ==
    ASSUME NEW c \in Calls, NEW w \in Workers, Running(c), RunEnds(c, w)
    PROVE  Still \/ Ends(c)
<1>1. CASE Close(c, "returned")
  BY <1>1, CloseEnds DEF RunEnds, Over
<1>2. CASE UNCHANGED <<subject, stage>>
  BY <1>2 DEF RunEnds, Still
<1> QED BY <1>1, <1>2 DEF RunEnds

LEMMA ProceedMoves ==
    ASSUME WorkTyped, NEW c \in Calls, Accounted(c), Proceed(c)
    PROVE  Still \/ GoesOn(c) \/ Ends(c)
<1>1. CASE Answered(c)
  BY <1>1, AnsweredMoves
<1>2. CASE Rejected(c)
  <2>1. Running(c) /\ Close(c, "thrown") /\ met' = met
    BY <1>2 DEF Rejected, Running, Serial, Over
  <2> QED BY <2>1, CloseEnds DEF Over
<1>3. CASE PrefetchFails(c)
  <2>1. Running(c) /\ Close(c, "thrown") /\ met' = met
    BY <1>3 DEF PrefetchFails, Running, Over
  <2> QED BY <2>1, CloseEnds DEF Over
<1>4. CASE Prefetched(c)
  <2>1. Running(c) /\ met' = met
    BY <1>4 DEF Prefetched, Running, Over
  <2>2. CASE UNCHANGED <<subject, stage>>
    BY <2>1, <2>2 DEF Still
  <2>3. CASE Close(c, "returned")
    BY <2>1, <2>3, CloseEnds DEF Over
  <2>4. CASE stage' = [stage EXCEPT ![c] = "positions"] /\ UNCHANGED subject
    BY <2>1, <2>4 DEF GoesOn, Stages, Over
  <2> QED BY <1>4, <2>2, <2>3, <2>4 DEF Prefetched, StartPool
<1>5. CASE PositionComputed(c) \/ GiveUp(c)
  <2>1. PICK w \in Workers : job[c][w] \in {"sent", "backoff"} /\ RunEnds(c, w)
    BY <1>5 DEF PositionComputed, GiveUp
  <2>2. stage[c] = "positions"
    BY <2>1 DEF Accounted
  <2> QED BY <2>1, <2>2, RunEndsMoves DEF Running, Over
<1>6. CASE Send(c) \/ OrphanEnds(c) \/ PositionFails(c) \/ RetryAgain(c)
  BY <1>6 DEF Send, OrphanEnds, PositionFails, RetryAgain, Still
<1> QED BY <1>1, <1>2, <1>3, <1>4, <1>5, <1>6 DEF Proceed

LEMMA MovesKeepSubject ==
    ASSUME ControlTyped, SubjectInv, NEW c \in Calls, Still \/ GoesOn(c) \/ Ends(c)
    PROVE  SubjectInv'
<1>1. CASE Still
  BY <1>1 DEF Still, SubjectInv, Running
<1>2. CASE GoesOn(c)
  <2>1. \A d \in Calls : Running(d)' <=> Running(d)
    BY <1>2 DEF GoesOn, Running, ControlTyped
  <2>2. \A d \in Lookups : stage'[d] \in {"head", "receipt"} => subject' # d
    BY <1>2 DEF GoesOn, SubjectInv, ControlTyped, Calls
  <2>3. subject' = subject \/ (subject' = c /\ c \in Lookups)
    BY <1>2 DEF GoesOn
  <2>4. \A d \in Calls \ met : Running(d) =>
          subject' \in (IF d \in Scans THEN {d} ELSE {d, None})
    BY <1>2, <2>3, CallsDistinct DEF SubjectInv, GoesOn
  <2>5. \A d \in Calls : subject' = d => Running(d)
    BY <1>2, <2>3 DEF SubjectInv, GoesOn
  <2> QED BY <1>2, <2>1, <2>2, <2>4, <2>5 DEF SubjectInv, GoesOn
<1>3. CASE Ends(c)
  <2>1. /\ \A d \in Calls \ {c} : stage'[d] = stage[d]
        /\ stage'[c] \in Over
        /\ Running(c) /\ met' = met
    BY <1>3 DEF Ends, ControlTyped
  <2>2. \A d \in Calls : Running(d)' <=> Running(d) /\ d # c
    BY <2>1 DEF Running
  <2>3. subject' = None \/ (subject' = subject /\ subject # c)
    BY <1>3 DEF Ends, SubjectInv
  <2>4. \A d \in Calls : subject' = d => Running(d)'
    BY <2>2, <2>3, CallsDistinct DEF SubjectInv
  <2>5. \A d \in Lookups : stage'[d] \in {"head", "receipt"} => subject' # d
    BY <2>1, <2>3, CallsDistinct DEF SubjectInv, Over, Calls
  <2>6. \A d \in Calls \ met : ~Running(d)'
    BY <2>1, <2>2 DEF SubjectInv
  <2> QED BY <2>1, <2>4, <2>5, <2>6 DEF SubjectInv
<1> QED BY <1>1, <1>2, <1>3

LEMMA SubjectKept ==
    ASSUME IInv, [Next]_vars
    PROVE  SubjectInv'
<1> USE DEF IInv
<1>1. ASSUME NEW c \in Calls, Analyze(c) PROVE SubjectInv'
  <2>1. /\ stage[c] = "idle" /\ stage'[c] = "head"
        /\ \A d \in Calls \ {c} : stage'[d] = stage[d]
        /\ subject' = IF c \in Scans THEN c ELSE None
    BY <1>1 DEF Analyze, Ask, ControlTyped
  <2>2. \A d \in Calls : Running(d)' <=> Running(d) \/ d = c
    BY <2>1 DEF Running, Over
  <2>3. \A d \in Calls : subject' = d => Running(d)'
    BY <2>1, <2>2, CallsDistinct
  <2>4. \A d \in Lookups : subject' # d
    BY <2>1, CallsDistinct DEF Calls
  <2>5. CASE Open = {}
    <3>1. \A d \in Calls : Running(d)' => d = c
      BY <2>2, <2>5 DEF Open
    <3> QED BY <2>1, <2>3, <2>4, <3>1 DEF SubjectInv
  <2>6. CASE Open # {}
    <3>1. \A d \in Calls : Running(d)' => d \in met'
      BY <1>1, <2>2, <2>6 DEF Analyze, Open
    <3> QED BY <2>3, <2>4, <3>1 DEF SubjectInv
  <2> QED BY <2>5, <2>6
<1>2. ASSUME NEW c \in Calls, AnalyzeRefused(c) PROVE SubjectInv'
  <2>1. /\ stage[c] = "idle" /\ stage'[c] = "thrown"
        /\ \A d \in Calls \ {c} : stage'[d] = stage[d]
        /\ subject' = None
    BY <1>2 DEF AnalyzeRefused, ControlTyped
  <2>2. \A d \in Calls : Running(d)' <=> Running(d)
    BY <2>1 DEF Running, Over
  <2>3. \A d \in Calls : Running(d) => d \in met'
    BY <1>2 DEF AnalyzeRefused, Open
  <2> QED BY <2>1, <2>2, <2>3, CallsDistinct DEF SubjectInv, Calls
<1>3. ASSUME NEW c \in Calls, Proceed(c) PROVE SubjectInv'
  BY <1>3, ProceedMoves, MovesKeepSubject
<1>4. CASE UNCHANGED vars
  BY <1>4 DEF vars, SubjectInv, Running
<1> QED BY <1>1, <1>2, <1>3, <1>4 DEF Next, AllOver

-----------------------------------------------------------------------------
(* The positions *)

WorkInv == WorkTyped /\ \A c \in Calls : Accounted(c)

\* A call that is not among its positions goes to another stage, its work as it was.
LEMMA StageKeeps ==
    ASSUME ControlTyped, WorkInv, NEW c \in Calls, UNCHANGED work,
           NEW s \in Stages \ {"positions"}, stage' = [stage EXCEPT ![c] = s],
           stage[c] \notin Over \cup {"positions"}, s = "returned" => c \notin Scans
    PROVE  WorkInv'
<1>1. WorkTyped'
  BY DEF WorkInv, WorkTyped, work
<1>2. ASSUME NEW d \in Calls PROVE Accounted(d)'
  <2>1. Accounted(d)
    BY DEF WorkInv
  <2>2. stage'[d] = IF d = c THEN s ELSE stage[d]
    BY DEF ControlTyped
  <2>3. \A w \in Workers : stage[c] # "positions" => hand[c][w] = NoPosition
    BY DEF WorkInv, Accounted
  <2> QED BY <2>1, <2>2, <2>3 DEF Accounted, work
<1> QED BY <1>1, <1>2 DEF WorkInv

\* Nothing of the work or of the stages changes.
LEMMA StillKeeps ==
    ASSUME WorkInv, UNCHANGED <<work, stage>>
    PROVE  WorkInv'
BY DEF WorkInv, WorkTyped, Accounted, work

\* A worker's read or its count of failures changes, while it keeps its position.
LEMMA JobKeeps ==
    ASSUME WorkInv, NEW c \in Calls, NEW w \in Workers,
           NEW j \in {"waiting", "sent", "backoff"}, NEW t \in 0 .. Attempts,
           job[c][w] # "none", j # "backoff" => t < Attempts,
           job' = [job EXCEPT ![c][w] = j], tries' = [tries EXCEPT ![c][w] = t],
           UNCHANGED <<stage, count, next, hand, positions, skipped, done>>
    PROVE  WorkInv'
<1>1. WorkTyped'
  BY DEF WorkInv, WorkTyped
<1>2. ASSUME NEW d \in Calls PROVE Accounted(d)'
  <2>1. Accounted(d)
    BY DEF WorkInv
  <2>2. \A v \in Workers :
          /\ job'[d][v] = IF d = c /\ v = w THEN j ELSE job[d][v]
          /\ tries'[d][v] = IF d = c /\ v = w THEN t ELSE tries[d][v]
    BY DEF WorkInv, WorkTyped
  <2> QED BY <2>1, <2>2 DEF Accounted
<1> QED BY <1>1, <1>2 DEF WorkInv

\* The enumeration has its answer.
LEMMA CountKeeps ==
    ASSUME ControlTyped, WorkInv, NEW c \in Calls, stage[c] = "v4 owned",
           NEW n \in 0 .. MaxPositions, count' = [count EXCEPT ![c] = n],
           stage' = [stage EXCEPT ![c] = "prefetch"],
           UNCHANGED <<next, hand, job, tries, positions, skipped, done>>
    PROVE  WorkInv'
<1>1. WorkTyped'
  BY DEF WorkInv, WorkTyped
<1>2. ASSUME NEW d \in Calls PROVE Accounted(d)'
  <2>1. Accounted(d)
    BY DEF WorkInv
  <2>2. /\ stage'[d] = IF d = c THEN "prefetch" ELSE stage[d]
        /\ count'[d] = IF d = c THEN n ELSE count[d]
    BY DEF ControlTyped, WorkInv, WorkTyped
  <2>3. CASE d = c
    <3>1. next[c] = 1 /\ \A w \in Workers : hand[c][w] = NoPosition
      BY <2>1, <2>3 DEF Accounted, Over
    <3>2. next'[c] = 1 /\ count'[c] = n /\ stage'[c] = "prefetch" /\ 1 <= n + 1
      <4>1. 1 <= n + 1
        BY CountFromOne
      <4> QED BY <2>2, <2>3, <3>1, <4>1
    <3>3. UNCHANGED <<hand, job, tries, positions, skipped, done, next>>
      OBVIOUS
    <3>4. Accounted(c)'
      BY <2>1, <2>3, <3>1, <3>2, <3>3 DEF Accounted, Over
    <3> QED BY <2>3, <3>4
  <2>4. CASE d # c
    BY <2>1, <2>2, <2>4 DEF Accounted
  <2> QED BY <2>3, <2>4
<1> QED BY <1>1, <1>2 DEF WorkInv

\* The pool starts, or is over at once.
LEMMA StartPoolKeeps ==
    ASSUME ControlTyped, WorkInv, NEW c \in Calls, stage[c] = "prefetch", StartPool(c),
           UNCHANGED <<count, tries, positions, skipped, done>>
    PROVE  WorkInv'
<1> DEFINE busy == {w \in Workers : w <= count[c]}
           h == [w \in Workers |-> IF w \in busy THEN w ELSE NoPosition]
           j == [w \in Workers |-> IF w \in busy THEN "waiting" ELSE "none"]
           n == Cardinality(busy) + 1
<1>1. /\ hand' = [hand EXCEPT ![c] = h] /\ job' = [job EXCEPT ![c] = j]
      /\ next' = [next EXCEPT ![c] = n]
  BY Zenon DEF StartPool
<1>2. count[c] \in 0 .. MaxPositions
  BY DEF WorkInv, WorkTyped
<1>3. /\ Once(h, {}, {}, n, 0) /\ n \in 1 .. count[c] + 1 /\ h \in Hands
      /\ \A w \in Workers : w \notin busy => n = count[c] + 1
  BY <1>2, StartAll, Zenon
<1>4. stage'[c] = (IF busy = {} THEN "returned" ELSE "positions")
      /\ \A d \in Calls \ {c} : stage'[d] = stage[d]
  BY DEF StartPool, Close, ControlTyped
<1>5. Accounted(c)
  BY DEF WorkInv
<1>6. \A w \in Workers : (w \in busy <=> h[w] # NoPosition) /\ j[w] = (IF w \in busy THEN "waiting" ELSE "none")
  BY DEF Workers, NoPosition
<1>7. j \in [Workers -> {"none", "waiting", "sent", "backoff"}]
  OBVIOUS
<1>8. 1 \in Workers
  BY BoundsPositive DEF Workers
<1> HIDE DEF busy, h, j, n
<1>9. positions[c] = {} /\ skipped[c] = {} /\ next[c] = 1
  BY <1>5 DEF Accounted, Over
<1>10. done[c] = 0
  BY <1>5, <1>9, FS_EmptySet DEF Accounted, Once
<1>11. \A w \in Workers : tries[c][w] < Attempts
  BY <1>5 DEF Accounted
<1>12. WorkTyped'
  <2>1. n \in 1 .. MaxPositions + 1
    BY <1>2, <1>3, BoundsPositive
  <2> QED BY <1>1, <1>3, <1>7, <2>1 DEF WorkInv, WorkTyped, Hands
<1>13. /\ hand'[c] = h /\ job'[c] = j /\ next'[c] = n
       /\ \A d \in Calls \ {c} : hand'[d] = hand[d] /\ job'[d] = job[d] /\ next'[d] = next[d]
  BY <1>1 DEF WorkInv, WorkTyped
<1>14. Accounted(c)'
  <2>1. Once(hand[c], positions[c], skipped[c], next[c], done[c])'
    BY <1>3, <1>9, <1>10, <1>13, Zenon
  <2>2. (next[c] <= count[c] + 1)'
    BY <1>2, <1>3, <1>13
  <2>3. \A w \in Workers :
          /\ (job[c][w] = "none" <=> hand[c][w] = NoPosition)'
          /\ (job[c][w] \in {"none", "waiting", "sent"} => tries[c][w] < Attempts)'
          /\ (hand[c][w] # NoPosition => stage[c] = "positions")'
          /\ (hand[c][w] = NoPosition /\ stage[c] = "positions" => next[c] = count[c] + 1)'
    BY <1>3, <1>4, <1>6, <1>11, <1>13
  <2>4. stage'[c] \in Over \cup {"positions"}
    BY <1>4 DEF Over
  <2>5. stage'[c] = "returned" => next'[c] = count'[c] + 1
    BY <1>3, <1>4, <1>8, <1>13
  <2> QED BY <2>1, <2>2, <2>3, <2>4, <2>5 DEF Accounted
<1>15. ASSUME NEW d \in Calls \ {c} PROVE Accounted(d)'
  BY <1>4, <1>13 DEF Accounted, WorkInv
<1> QED BY <1>12, <1>14, <1>15 DEF WorkInv

\* A worker is through with its position.
LEMMA RunEndsKeeps ==
    ASSUME ControlTyped, WorkInv, NEW c \in Calls, NEW w \in Workers,
           hand[c][w] # NoPosition, RunEnds(c, w),
           \/ positions' = [positions EXCEPT ![c] = @ \cup {hand[c][w]}] /\ skipped' = skipped
           \/ skipped' = [skipped EXCEPT ![c] = @ \cup {hand[c][w]}] /\ positions' = positions
    PROVE  WorkInv'
<1> DEFINE h == hand[c]
           n == next[c]
           more == n <= count[c]
           g == [h EXCEPT ![w] = IF more THEN n ELSE NoPosition]
           m == IF more THEN n + 1 ELSE n
           Q == positions'[c]
           T == skipped'[c]
<1>1. /\ h \in Hands /\ n \in Nat \ {0} /\ count[c] \in 0 .. MaxPositions
      /\ positions[c] \in Some /\ skipped[c] \in Some /\ h[w] \in 1 .. MaxPositions
  BY BoundsPositive DEF WorkInv, WorkTyped, Hands, Some, NoPosition
<1>2. Accounted(c)
  BY DEF WorkInv
<1>3. stage[c] = "positions"
  BY <1>2 DEF Accounted
<1>4. \/ Q = positions[c] \cup {h[w]} /\ T = skipped[c]
      \/ Q = positions[c] /\ T = skipped[c] \cup {h[w]}
  BY DEF WorkInv, WorkTyped
<1>5. Q \in Some /\ T \in Some
  BY <1>1, <1>4 DEF Some
<1>6. /\ Once([h EXCEPT ![w] = NoPosition], Q, T, n, done[c] + 1)
      /\ done[c] + 1 \in 0 .. MaxPositions
  <2> HIDE DEF Q, T
  <2>1. Once(h, positions[c], skipped[c], n, done[c])
    BY <1>2 DEF Accounted
  <2> HIDE DEF h, n
  <2>2. n \in Nat /\ h[w] # NoPosition
    BY <1>1 DEF NoPosition
  <2> QED BY <1>1, <1>4, <1>5, <2>1, <2>2, FileOne
<1>7. Once(g, Q, T, m, done[c] + 1)
  <2> HIDE DEF Q, T
  <2>1. CASE more
    <3> DEFINE e == [h EXCEPT ![w] = NoPosition]
    <3>1. e \in Hands /\ e[w] = NoPosition /\ g = [e EXCEPT ![w] = n]
      BY <1>1, <2>1, BoundsPositive DEF Hands, NoPosition
    <3>2. m = n + 1
      BY <2>1
    <3> HIDE DEF e, g, m, n
    <3>3. Once(e, Q, T, n, done[c] + 1)
      BY <1>6 DEF e, n
    <3> QED BY <1>1, <1>5, <3>1, <3>2, <3>3, TakeOne DEF n
  <2>2. CASE ~more
    BY <1>6, <2>2
  <2> QED BY <2>1, <2>2
<1>8. /\ hand' = [hand EXCEPT ![c][w] = IF more THEN n ELSE NoPosition]
      /\ job' = [job EXCEPT ![c][w] = IF more THEN "waiting" ELSE "none"]
      /\ next' = [next EXCEPT ![c] = m]
      /\ done' = [done EXCEPT ![c] = done[c] + 1]
      /\ tries' = [tries EXCEPT ![c][w] = 0]
      /\ count' = count
  BY DEF RunEnds, TakeNext
<1>9. /\ hand'[c] = g /\ next'[c] = m /\ done'[c] = done[c] + 1
      /\ \A v \in Workers :
            /\ job'[c][v] = IF v = w THEN (IF more THEN "waiting" ELSE "none") ELSE job[c][v]
            /\ tries'[c][v] = IF v = w THEN 0 ELSE tries[c][v]
      /\ \A d \in Calls \ {c} :
            /\ hand'[d] = hand[d] /\ next'[d] = next[d] /\ done'[d] = done[d]
            /\ job'[d] = job[d] /\ tries'[d] = tries[d]
            /\ positions'[d] = positions[d] /\ skipped'[d] = skipped[d]
  BY <1>8 DEF WorkInv, WorkTyped
<1>10. m \in 1 .. MaxPositions + 1 /\ m <= count[c] + 1
  BY <1>1, <1>2, BoundsPositive DEF Accounted
<1>11. WorkTyped'
  <2>1. /\ positions' \in [Calls -> SUBSET (1 .. MaxPositions)]
        /\ skipped' \in [Calls -> SUBSET (1 .. MaxPositions)]
    <3>1. /\ positions[c] \cup {hand[c][w]} \in SUBSET (1 .. MaxPositions)
          /\ skipped[c] \cup {hand[c][w]} \in SUBSET (1 .. MaxPositions)
      BY <1>1 DEF Some
    <3>2. /\ positions \in [Calls -> SUBSET (1 .. MaxPositions)]
          /\ skipped \in [Calls -> SUBSET (1 .. MaxPositions)]
      BY DEF WorkInv, WorkTyped
    <3>3. \/ positions' = [positions EXCEPT ![c] = positions[c] \cup {hand[c][w]}]
             /\ skipped' = skipped
          \/ skipped' = [skipped EXCEPT ![c] = skipped[c] \cup {hand[c][w]}]
             /\ positions' = positions
      OBVIOUS
    <3> HIDE DEF h
    <3> QED BY <3>1, <3>2, <3>3
  <2>2. hand' \in [Calls -> [Workers -> 0 .. MaxPositions]]
    <3>1. (IF more THEN n ELSE NoPosition) \in 0 .. MaxPositions
      BY <1>1, BoundsPositive DEF NoPosition
    <3> QED BY <1>8, <3>1 DEF WorkInv, WorkTyped
  <2>3. /\ next' \in [Calls -> 1 .. MaxPositions + 1]
        /\ done' \in [Calls -> 0 .. MaxPositions]
    <3> HIDE DEF m
    <3> QED BY <1>6, <1>8, <1>10 DEF WorkInv, WorkTyped
  <2>4. /\ job' \in [Calls -> [Workers -> {"none", "waiting", "sent", "backoff"}]]
        /\ tries' \in [Calls -> [Workers -> 0 .. Attempts]]
        /\ count' \in [Calls -> 0 .. MaxPositions]
    BY <1>8, BoundsPositive DEF WorkInv, WorkTyped
  <2> QED BY <2>1, <2>2, <2>3, <2>4 DEF WorkTyped
<1>12. \A v \in Workers : g[v] = IF v = w THEN (IF more THEN n ELSE NoPosition) ELSE h[v]
  BY <1>1 DEF Hands
<1>13. /\ \A d \in Calls \ {c} : stage'[d] = stage[d]
       /\ \/ stage'[c] = "returned" /\ \A v \in Workers : hand'[c][v] = NoPosition
          \/ stage'[c] = "positions"
  BY <1>3 DEF RunEnds, Close, ControlTyped
<1>14. m = count[c] + 1 \/ \A v \in Workers : g[v] # NoPosition
  <2>1. CASE \E v \in Workers \ {w} : h[v] = NoPosition
    BY <1>1, <1>2, <1>3, <2>1 DEF Accounted
  <2>2. CASE ~more
    BY <1>1, <1>2, <2>2 DEF Accounted
  <2>3. CASE more /\ \A v \in Workers \ {w} : h[v] # NoPosition
    BY <1>1, <1>12, <2>3 DEF NoPosition
  <2> QED BY <2>1, <2>2, <2>3
<1>15. Accounted(c)'
  <2>1. Once(hand[c], positions[c], skipped[c], next[c], done[c])'
    <3> HIDE DEF g, m, Q, T
    <3> QED BY <1>7, <1>9 DEF Q, T
  <2>2. (next[c] <= count[c] + 1)'
    BY <1>8, <1>9, <1>10
  <2>3. \A v \in Workers :
          /\ (job[c][v] = "none" <=> hand[c][v] = NoPosition)'
          /\ (job[c][v] \in {"none", "waiting", "sent"} => tries[c][v] < Attempts)'
    <3> TAKE v \in Workers
    <3>1. CASE v = w
      BY <1>1, <1>9, <1>12, <3>1, BoundsPositive DEF NoPosition
    <3>2. CASE v # w
      BY <1>2, <1>9, <1>12, <3>2 DEF Accounted
    <3> QED BY <3>1, <3>2
  <2>4. \A v \in Workers :
          /\ (hand[c][v] # NoPosition => stage[c] = "positions")'
          /\ (hand[c][v] = NoPosition /\ stage[c] = "positions" => next[c] = count[c] + 1)'
    BY <1>8, <1>9, <1>13, <1>14
  <2>5. stage'[c] \in Over \cup {"positions"}
    BY <1>13 DEF Over
  <2>6. stage'[c] = "returned" => next'[c] = count'[c] + 1
    BY <1>8, <1>9, <1>13, <1>14
  <2> QED BY <2>1, <2>2, <2>3, <2>4, <2>5, <2>6 DEF Accounted
<1>16. ASSUME NEW d \in Calls \ {c} PROVE Accounted(d)'
  BY <1>8, <1>9, <1>13 DEF Accounted, WorkInv
<1> QED BY <1>11, <1>15, <1>16 DEF WorkInv

LEMMA AnsweredKeeps ==
    ASSUME ControlTyped, WorkInv, NEW c \in Calls, Answered(c)
    PROVE  WorkInv'
<1>1. stage[c] \in Serial /\ stage[c] \notin Over \cup {"positions"}
  BY DEF Answered, Serial, Over
<1>2. CASE c \in Scans /\ ScanGoesOn(c)
  <2>1. CASE /\ stage[c] = "v4 owned"
             /\ \E n \in 0 .. MaxPositions : count' = [count EXCEPT ![c] = n]
             /\ stage' = [stage EXCEPT ![c] = "prefetch"]
             /\ UNCHANGED <<next, hand, job, tries, positions, skipped, done>>
    BY <2>1, CountKeeps
  <2>2. CASE \E s \in {"v3 owned", "v4 owned", "floor"} :
               stage' = [stage EXCEPT ![c] = s] /\ UNCHANGED work
    BY <1>1, <2>2, StageKeeps DEF Stages, Serial
  <2> QED BY <1>2, <2>1, <2>2 DEF ScanGoesOn, FloorFound, Ask
<1>3. CASE c \in Lookups /\ LookupGoesOn(c)
  <2>1. c \notin Scans
    BY <1>3, CallsDistinct
  <2>2. \E s \in {"receipt", "mint", "position", "thrown", "returned"} :
          stage' = [stage EXCEPT ![c] = s] /\ UNCHANGED work
    BY <1>3 DEF LookupGoesOn, ReceiptRead, Ask, Close
  <2> QED BY <1>1, <2>1, <2>2, StageKeeps DEF Stages, Serial, Over
<1> QED BY <1>2, <1>3 DEF Answered, Calls

LEMMA ProceedKeepsWork ==
    ASSUME ControlTyped, WorkInv, NEW c \in Calls, Proceed(c)
    PROVE  WorkInv'
<1>1. CASE Answered(c)
  BY <1>1, AnsweredKeeps
<1>2. CASE Rejected(c) \/ PrefetchFails(c)
  <2>1. stage[c] \notin Over \cup {"positions"} /\ UNCHANGED work
    BY <1>2 DEF Rejected, PrefetchFails, Serial, Over
  <2>2. stage' = [stage EXCEPT ![c] = "thrown"]
    BY <1>2 DEF Rejected, PrefetchFails, Close
  <2> QED BY <2>1, <2>2, StageKeeps DEF Stages, Over
<1>3. CASE Send(c)
  <2>1. CASE UNCHANGED job
    <3>1. UNCHANGED <<work, stage>>
      BY <1>3, <2>1 DEF Send, work
    <3> QED BY <3>1, StillKeeps
  <2>2. CASE \E w \in Workers : job[c][w] = "waiting" /\ job' = [job EXCEPT ![c][w] = "sent"]
    <3>1. PICK w \in Workers : job[c][w] = "waiting" /\ job' = [job EXCEPT ![c][w] = "sent"]
      BY <2>2
    <3>2. UNCHANGED <<stage, count, next, hand, tries, positions, skipped, done>>
      BY <1>3 DEF Send
    <3>3. tries[c][w] < Attempts /\ tries[c][w] \in 0 .. Attempts
      BY <3>1 DEF WorkInv, WorkTyped, Accounted
    <3>4. tries' = [tries EXCEPT ![c][w] = tries[c][w]]
      BY <3>2 DEF WorkInv, WorkTyped
    <3> QED BY <3>1, <3>2, <3>3, <3>4, JobKeeps
  <2> QED BY <1>3, <2>1, <2>2 DEF Send
<1>4. CASE Prefetched(c)
  <2>1. stage[c] = "prefetch" /\ UNCHANGED <<count, tries, positions, skipped, done>>
    BY <1>4 DEF Prefetched
  <2>2. CASE StartPool(c)
    BY <2>1, <2>2, StartPoolKeeps
  <2>3. CASE UNCHANGED <<stage, next, hand, job>>
    BY <2>1, <2>3, StillKeeps DEF work
  <2> QED BY <1>4, <2>2, <2>3 DEF Prefetched
<1>5. CASE OrphanEnds(c)
  <2>1. UNCHANGED <<work, stage>>
    BY <1>5 DEF OrphanEnds
  <2> QED BY <2>1, StillKeeps
<1>6. CASE PositionComputed(c) \/ GiveUp(c)
  <2>1. PICK w \in Workers :
          /\ job[c][w] \in {"sent", "backoff"} /\ RunEnds(c, w)
          /\ \/ positions' = [positions EXCEPT ![c] = @ \cup {hand[c][w]}] /\ skipped' = skipped
             \/ skipped' = [skipped EXCEPT ![c] = @ \cup {hand[c][w]}] /\ positions' = positions
    BY <1>6 DEF PositionComputed, GiveUp
  <2>2. hand[c][w] # NoPosition
    BY <2>1 DEF WorkInv, Accounted
  <2> QED BY <2>1, <2>2, RunEndsKeeps
<1>7. CASE PositionFails(c)
  <2>1. PICK w \in Workers :
          /\ job[c][w] = "sent" /\ job' = [job EXCEPT ![c][w] = "backoff"]
          /\ tries' = [tries EXCEPT ![c][w] = @ + 1]
          /\ UNCHANGED <<stage, count, next, hand, positions, skipped, done>>
    BY <1>7 DEF PositionFails
  <2>2. tries[c][w] < Attempts /\ tries[c][w] \in 0 .. Attempts
    BY <2>1 DEF WorkInv, WorkTyped, Accounted
  <2>3. tries[c][w] + 1 \in 0 .. Attempts
    BY <2>2, BoundsPositive
  <2> QED BY <2>1, <2>3, JobKeeps
<1>8. CASE RetryAgain(c)
  <2>1. PICK w \in Workers :
          /\ job[c][w] = "backoff" /\ tries[c][w] < Attempts
          /\ job' = [job EXCEPT ![c][w] = "waiting"]
          /\ UNCHANGED <<stage, count, next, hand, tries, positions, skipped, done>>
    BY <1>8 DEF RetryAgain
  <2>2. tries[c][w] \in 0 .. Attempts /\ tries' = [tries EXCEPT ![c][w] = tries[c][w]]
    BY <2>1 DEF WorkInv, WorkTyped
  <2> QED BY <2>1, <2>2, JobKeeps
<1> QED BY <1>1, <1>2, <1>3, <1>4, <1>5, <1>6, <1>7, <1>8 DEF Proceed

LEMMA NextKeepsWork ==
    ASSUME ControlTyped, WorkInv, [Next]_vars
    PROVE  WorkInv'
<1>1. ASSUME NEW c \in Calls, Analyze(c) \/ AnalyzeRefused(c) PROVE WorkInv'
  <2>1. stage[c] \notin Over \cup {"positions"} /\ UNCHANGED work
    BY <1>1 DEF Analyze, AnalyzeRefused, Over
  <2>2. \E s \in {"head", "thrown"} : stage' = [stage EXCEPT ![c] = s]
    BY <1>1 DEF Analyze, AnalyzeRefused, Ask
  <2> QED BY <2>1, <2>2, StageKeeps DEF Stages, Serial, Over
<1>2. CASE UNCHANGED vars
  BY <1>2, StillKeeps DEF vars, work
<1> QED BY <1>1, <1>2, ProceedKeepsWork DEF Next, AllOver

-----------------------------------------------------------------------------
(* The invariant, and what follows *)

LEMMA InitIInv == Init => IInv
<1> SUFFICES ASSUME Init PROVE IInv
  OBVIOUS
<1>1. ControlTyped
  BY DEF Init, ControlTyped, Stages
<1>2. WorkTyped
  BY BoundsPositive DEF Init, WorkTyped, NoPosition
<1>3. SubjectInv
  BY CallsDistinct DEF Init, SubjectInv, Running, Calls
<1>4. ASSUME NEW c \in Calls PROVE Accounted(c)
  <2>1. /\ \A w \in Workers : hand[c][w] = NoPosition
        /\ positions[c] = {} /\ skipped[c] = {} /\ next[c] = 1 /\ done[c] = 0
    BY DEF Init
  <2>2. Once(hand[c], positions[c], skipped[c], next[c], done[c])
    BY <2>1, FS_EmptySet DEF Once, NoPosition
  <2> QED BY <2>2, BoundsPositive DEF Init, Accounted, Over
<1> QED BY <1>1, <1>2, <1>3, <1>4 DEF IInv

LEMMA NextKeeps ==
    ASSUME IInv, [Next]_vars
    PROVE  IInv'
<1>1. ControlTyped /\ WorkInv
  BY DEF IInv, WorkInv
<1>2. ControlTyped' /\ SubjectInv' /\ WorkInv'
  BY <1>1, ControlStaysTyped, SubjectKept, NextKeepsWork
<1> QED BY <1>2 DEF IInv, WorkInv

\* Control, work and subject stay as the invariant has them.
LEMMA Invariance == Spec => []IInv
BY InitIInv, NextKeeps, PTL DEF Spec

\* Every variable of a page's calls keeps its type: no cursor or count runs past the
\* positions there are, and no attempt past the last.
THEOREM TypeCorrect == Spec => []TypeOK
<1>1. IInv => TypeOK
  BY TypeOKSplits DEF IInv
<1> QED BY <1>1, Invariance, PTL

\* Each position a scan enumerates is taken once and comes to one outcome; a scan that
\* returns has them all (analyzeWallet, mapPool, retry).
THEOREM PositionsStayAccounted == Spec => []PositionsAccounted
<1>1. IInv => PositionsAccounted
  <2> SUFFICES ASSUME IInv PROVE PositionsAccounted
    OBVIOUS
  <2>1. TypeOK
    BY TypeOKSplits DEF IInv
  <2>2. ASSUME NEW c \in Scans
        PROVE  /\ \A v, w \in Workers : v # w /\ hand[c][v] = hand[c][w] => hand[c][v] = NoPosition
               /\ positions[c] \cap skipped[c] = {}
               /\ InHand(c) \cap (positions[c] \cup skipped[c]) = {}
               /\ InHand(c) \cup positions[c] \cup skipped[c] = 1 .. next[c] - 1
               /\ done[c] = Cardinality(positions[c] \cup skipped[c])
               /\ stage[c] = "returned" => positions[c] \cup skipped[c] = 1 .. count[c]
    <3>1. /\ Accounted(c) /\ next[c] \in Nat \ {0} /\ count[c] \in Nat
          /\ \A w \in Workers : hand[c][w] \in Nat
      BY BoundsPositive DEF IInv, WorkTyped, Calls
    <3>2. Once(hand[c], positions[c], skipped[c], next[c], done[c])
      BY <3>1 DEF Accounted
    <3>3. InHand(c) \cap (positions[c] \cup skipped[c]) = {}
      BY <3>2 DEF Once, InHand
    <3>4. InHand(c) \cup positions[c] \cup skipped[c] = 1 .. next[c] - 1
      <4>1. InHand(c) \subseteq 1 .. next[c] - 1
        BY <3>1, <3>2 DEF Once, InHand, NoPosition
      <4>2. 1 .. next[c] - 1 \subseteq InHand(c) \cup positions[c] \cup skipped[c]
        BY <3>1, <3>2 DEF Once, InHand, NoPosition
      <4> QED BY <3>2, <4>1, <4>2 DEF Once
    <3>5. stage[c] = "returned" => positions[c] \cup skipped[c] = 1 .. count[c]
      <4> SUFFICES ASSUME stage[c] = "returned" PROVE positions[c] \cup skipped[c] = 1 .. count[c]
        OBVIOUS
      <4>1. next[c] = count[c] + 1
        BY <3>1 DEF Accounted
      <4>2. InHand(c) = {}
        BY <3>1 DEF Accounted, InHand
      <4>3. next[c] - 1 = count[c]
        BY <3>1, <4>1
      <4> QED BY <3>4, <4>2, <4>3
    <3> QED BY <3>2, <3>3, <3>4, <3>5 DEF Once
  <2> QED BY <2>1, <2>2 DEF PositionsAccounted, EachPositionOnce, ResultComplete
<1> QED BY <1>1, Invariance, PTL

\* The one subject of the client is that of a call that runs (analyze, walletLaneSubject).
THEOREM SubjectNeverStale == Spec => []NoStaleSubject
<1>1. IInv => NoStaleSubject
  BY DEF IInv, ControlTyped, SubjectInv, NoStaleSubject
<1> QED BY <1>1, Invariance, PTL

\* A request of a call that never met another goes out with that call's own subject
\* (taggedRequest).
THEOREM TaggedAsItself == Spec => TaggedWhenAlone
<1>1. IInv => \A c \in Calls \ met : Running(c) =>
                 subject \in (IF c \in Scans THEN {c} ELSE {c, None})
  BY DEF IInv, SubjectInv
<1>2. IInv /\ [Next]_vars =>
        [\A c \in Calls \ met : Running(c) /\ Sends(c) =>
           subject \in (IF c \in Scans THEN {c} ELSE {c, None})]_vars
  BY <1>1
<1> QED BY <1>2, Invariance, PTL DEF Spec, TaggedWhenAlone
=============================================================================
