----------------------------- MODULE Rpc_proofs -----------------------------
(***************************************************************************)
(* Proofs about the requests of the page: how RpcThrottle paces them, and  *)
(* how LogSplit makes them of a query.  The two have no state in common.   *)
(***************************************************************************)
EXTENDS RpcThrottle, LogSplit, FunctionTheorems, FiniteSetTheorems,
        SequenceTheorems, WellFoundedInduction, TLAPS

-----------------------------------------------------------------------------
(***************************************************************************)
(* RpcThrottle, for any finite set of requests, any ceiling, any number    *)
(* of attempts and any stated intervals.                                   *)
(*                                                                         *)
(* Inv is the inductive invariant.  None of its parts is inductive alone:  *)
(* giving a slot back keeps `inflight` a natural number only because       *)
(* SlotAccounting says the answered request held one, waking n waiters     *)
(* raises the number of holders by n only because QueueIsTheQueued says    *)
(* they are n different requests that hold none, and RetryNotEarly needs   *)
(* that no sleep and no debt outlasts the shared pause.                    *)
(***************************************************************************)

\* Every sleep, and every interval still owed, ends no later than the shared pause.
TimersWithinPause ==
    \A r \in Requests : nap[r] <= pause /\ owed[r] <= pause

Inv ==
    /\ TypeOK
    /\ QueueIsTheQueued
    /\ SlotAccounting
    /\ NoLostWakeup
    /\ TimersWithinPause
    /\ RetryNotEarly

-----------------------------------------------------------------------------
(* Waking waiters *)

\* The first n places of a queue without repetitions hold n different requests.
LEMMA PrefixCardinality ==
    ASSUME NEW q \in Seq(Requests), NEW n \in 0 .. Len(q),
           \A i, j \in 1 .. Len(q) : i # j => q[i] # q[j]
    PROVE  /\ IsFiniteSet({q[i] : i \in 1 .. n})
           /\ Cardinality({q[i] : i \in 1 .. n}) = n
<1> DEFINE T == {q[i] : i \in 1 .. n}
           f == [i \in 1 .. n |-> q[i]]
<1>1. f \in Bijection(1 .. n, T)
  <2>1. f \in [1 .. n -> T]
    OBVIOUS
  <2>2. \A a, b \in 1 .. n : f[a] = f[b] => a = b
    OBVIOUS
  <2>3. \A t \in T : \E a \in 1 .. n : f[a] = t
    OBVIOUS
  <2> QED BY <2>1, <2>2, <2>3, Fun_IsBij
<1>2. ExistsBijection(1 .. n, T)
  BY <1>1 DEF ExistsBijection
<1>3. IsFiniteSet(1 .. n) /\ Cardinality(1 .. n) = n
  BY FS_Interval
<1> QED BY <1>2, <1>3, FS_Bijection, Zenon

\* releaseSlot wakes no more than queue, and stops exactly when the fan-out is
\* used up or the queue is empty.
LEMMA WakeCountBounds ==
    ASSUME TypeOK, inflight >= 1, NEW permit \in Nat \ {0}
    PROVE  /\ WakeCount(permit) \in 0 .. Len(waiting)
           /\ inflight - 1 + WakeCount(permit) \in Nat
           /\ WakeCount(permit) > 0 => inflight - 1 + WakeCount(permit) <= permit
           /\ WakeCount(permit) < Len(waiting)
                => inflight - 1 + WakeCount(permit) >= permit
BY LenProperties DEF TypeOK, WakeCount, Least

\* What giving one slot back does, whatever the answer was: the counter, the queue
\* and the requests' places stay in step.
LEMMA ReleaseEffect ==
    ASSUME TypeOK, QueueIsTheQueued, SlotAccounting,
           NEW r \in Requests, pc[r] = "sent",
           NEW next \in {"gate", "done"}, NEW permit \in Nat \ {0},
           releaseSlot(r, next, permit)
    PROVE  /\ pc' \in [Requests -> PC]
           /\ inflight' \in Nat
           /\ waiting' \in Seq(Requests)
           /\ QueueIsTheQueued'
           /\ SlotAccounting'
           /\ waiting' # <<>> => inflight' >= permit
           /\ WakeCount(permit) > 0 => inflight' <= permit
           /\ \A q \in Requests : pc'[q] # pc[q]
                => \/ q = r /\ pc'[q] = next
                   \/ pc[q] = "queued" /\ pc'[q] = "granted" /\ WakeCount(permit) > 0
<1> DEFINE n == WakeCount(permit)
           W == Woken(permit)
<1>1. IsFiniteSet(Holders) /\ r \in Holders
  BY RequestsFinite, FS_Subset DEF Holders
<1>2. inflight \in Nat /\ inflight >= 1
  BY <1>1, FS_EmptySet, FS_CardinalityType DEF SlotAccounting, TypeOK
<1>3. /\ n \in 0 .. Len(waiting)
      /\ inflight - 1 + n \in Nat
      /\ n > 0 => inflight - 1 + n <= permit
      /\ n < Len(waiting) => inflight - 1 + n >= permit
  BY <1>2, WakeCountBounds
<1>4. waiting \in Seq(Requests) /\ Len(waiting) \in Nat
  BY LenProperties DEF TypeOK
<1>5. /\ inflight' = inflight - 1 + n
      /\ waiting' = SubSeq(waiting, n + 1, Len(waiting))
      /\ pc' = [q \in Requests |->
                  IF q = r THEN next ELSE IF q \in W THEN "granted" ELSE pc[q]]
  BY DEF releaseSlot
<1>6. IsFiniteSet(W) /\ Cardinality(W) = n
  BY <1>3, <1>4, PrefixCardinality DEF Woken, QueueIsTheQueued
<1>7. /\ W \subseteq {q \in Requests : pc[q] = "queued"}
      /\ W \cap Holders = {}
      /\ r \notin W
  BY <1>3 DEF Woken, QueueIsTheQueued, Holders
<1>8. Holders' = (Holders \ {r}) \cup W
  BY <1>5, <1>7 DEF Holders, TypeOK
<1>9. SlotAccounting'
  <2>1. IsFiniteSet(Holders \ {r}) /\ Cardinality(Holders \ {r}) = inflight - 1
    BY <1>1, FS_RemoveElement DEF SlotAccounting
  <2>2. Cardinality((Holders \ {r}) \cap W) = 0
    <3>1. (Holders \ {r}) \cap W = {}
      BY <1>7
    <3> QED BY <3>1, FS_EmptySet
  <2>3. Cardinality(Holders') = (inflight - 1) + n - 0
    BY <2>1, <2>2, <1>6, <1>8, FS_Union
  <2> QED BY <2>3, <1>2, <1>3, <1>5 DEF SlotAccounting
<1>10. /\ waiting' \in Seq(Requests)
       /\ Len(waiting') = Len(waiting) - n
       /\ \A i \in 1 .. Len(waiting) - n : waiting'[i] = waiting[n + i]
  <2>1. \A i \in n + 1 .. Len(waiting) : waiting[i] \in Requests
    BY <1>3, <1>4, ElementOfSeq
  <2> QED BY <2>1, <1>3, <1>4, <1>5, SubSeqProperties
<1>11. QueueIsTheQueued'
  <2>1. {waiting'[i] : i \in 1 .. Len(waiting')}
           = {waiting[i] : i \in 1 .. Len(waiting)} \ W
    <3>1. \A i \in 1 .. Len(waiting') : n + i \in 1 .. Len(waiting)
      BY <1>3, <1>4, <1>10
    <3>2. \A j \in 1 .. Len(waiting) : j > n => j - n \in 1 .. Len(waiting')
      BY <1>3, <1>4, <1>10
    <3>3. \A i \in 1 .. Len(waiting') : waiting'[i] \notin W
      <4> SUFFICES ASSUME NEW i \in 1 .. Len(waiting'), NEW j \in 1 .. n,
                          waiting'[i] = waiting[j]
                   PROVE  FALSE
        BY DEF Woken
      <4>1. waiting'[i] = waiting[n + i]
        BY <1>10
      <4>2. n + i \in 1 .. Len(waiting) /\ j \in 1 .. Len(waiting) /\ n + i # j
        BY <1>3, <1>4, <3>1
      <4> QED BY <4>1, <4>2 DEF QueueIsTheQueued
    <3>4. \A j \in 1 .. Len(waiting) : j > n =>
             \E i \in 1 .. Len(waiting') : waiting'[i] = waiting[j]
      BY <1>3, <1>4, <1>10, <3>2
    <3>5. \A j \in 1 .. Len(waiting) : waiting[j] \notin W => j > n
      BY <1>3, <1>4 DEF Woken
    <3> QED BY <1>10, <3>1, <3>3, <3>4, <3>5
  <2>2. {q \in Requests : pc'[q] = "queued"} = {q \in Requests : pc[q] = "queued"} \ W
    BY <1>5, <1>7
  <2>3. ASSUME NEW i \in 1 .. Len(waiting'), NEW j \in 1 .. Len(waiting'), i # j
        PROVE  waiting'[i] # waiting'[j]
    <3>1. waiting'[i] = waiting[n + i] /\ waiting'[j] = waiting[n + j]
      BY <1>10
    <3>2. n + i \in 1 .. Len(waiting) /\ n + j \in 1 .. Len(waiting) /\ n + i # n + j
      BY <1>3, <1>4, <1>10, <2>3
    <3> QED BY <3>1, <3>2 DEF QueueIsTheQueued
  <2> QED BY <2>1, <2>2, <2>3 DEF QueueIsTheQueued
<1>12. waiting' # <<>> => inflight' >= permit
  <2>1. waiting' # <<>> => Len(waiting') > 0
    BY <1>10, EmptySeq, LenProperties
  <2> QED BY <2>1, <1>3, <1>5, <1>10
<1>13. pc' \in [Requests -> PC]
  BY <1>5 DEF TypeOK, PC
<1>14. \A q \in Requests : pc'[q] # pc[q]
                => \/ q = r /\ pc'[q] = next
                   \/ pc[q] = "queued" /\ pc'[q] = "granted" /\ n > 0
  <2>1. W # {} => n > 0
    BY <1>3 DEF Woken
  <2> QED BY <1>5, <1>7, <2>1
<1> QED BY <1>3, <1>5, <1>9, <1>10, <1>11, <1>12, <1>13, <1>14

-----------------------------------------------------------------------------
(* The invariant *)

LEMMA InitInv == Init => Inv
<1> SUFFICES ASSUME Init PROVE Inv
  OBVIOUS
<1>1. TypeOK
  BY LimitsPositive, WaitsAreTicks, EmptySeq DEF Init, TypeOK, PC
<1>2. QueueIsTheQueued /\ NoLostWakeup
  BY EmptySeq DEF Init, QueueIsTheQueued, NoLostWakeup
<1>3. SlotAccounting
  <2>1. Holders = {}
    BY DEF Init, Holders
  <2> QED BY <2>1, FS_EmptySet DEF Init, SlotAccounting
<1>4. TimersWithinPause /\ RetryNotEarly
  BY DEF Init, TimersWithinPause, RetryNotEarly
<1> QED BY <1>1, <1>2, <1>3, <1>4 DEF Inv

\* A step that only moves r between places outside the queue and the slots.
LEMMA MoveOutside ==
    ASSUME Inv, NEW r \in Requests, NEW to \in {"gate", "asleep", "passed"},
           pc[r] \in {"idle", "gate", "asleep"},
           pc' = [pc EXCEPT ![r] = to],
           UNCHANGED <<inflight, waiting, permitted>>
    PROVE  /\ pc' \in [Requests -> PC]
           /\ QueueIsTheQueued' /\ SlotAccounting' /\ NoLostWakeup'
<1>1. pc' \in [Requests -> PC]
  BY DEF Inv, TypeOK, PC
<1>2. Holders' = Holders
  BY DEF Inv, TypeOK, Holders
<1>3. {q \in Requests : pc'[q] = "queued"} = {q \in Requests : pc[q] = "queued"}
  BY DEF Inv, TypeOK
<1> QED BY <1>1, <1>2, <1>3 DEF Inv, QueueIsTheQueued, SlotAccounting, NoLostWakeup

LEMMA TakeSlotInv ==
    ASSUME Inv, NEW r \in Requests, TakeSlot(r)
    PROVE  Inv'
<1>1. TypeOK'
  BY DEF Inv, TypeOK, TakeSlot, PC
<1>2. Holders' = Holders \cup {r} /\ r \notin Holders
  BY DEF Inv, TypeOK, TakeSlot, Holders
<1>3. SlotAccounting'
  <2>1. IsFiniteSet(Holders)
    BY RequestsFinite, FS_Subset DEF Holders
  <2> QED BY <2>1, <1>2, FS_AddElement DEF Inv, SlotAccounting, TakeSlot
<1>4. {q \in Requests : pc'[q] = "queued"} = {q \in Requests : pc[q] = "queued"}
  BY DEF Inv, TypeOK, TakeSlot
<1>5. QueueIsTheQueued'
  BY <1>4 DEF Inv, QueueIsTheQueued, TakeSlot
<1>6. NoLostWakeup'
  BY DEF Inv, TypeOK, NoLostWakeup, TakeSlot
<1>7. TimersWithinPause' /\ RetryNotEarly'
  BY DEF Inv, TypeOK, TimersWithinPause, RetryNotEarly, TakeSlot
<1> QED BY <1>1, <1>3, <1>5, <1>6, <1>7 DEF Inv

LEMMA QueueForSlotInv ==
    ASSUME Inv, NEW r \in Requests, QueueForSlot(r)
    PROVE  Inv'
<1>1. /\ waiting \in Seq(Requests) /\ Len(waiting) \in Nat
      /\ waiting' = Append(waiting, r)
      /\ pc' = [pc EXCEPT ![r] = "queued"] /\ pc[r] = "passed"
  BY LenProperties DEF Inv, TypeOK, QueueForSlot
<1>2. /\ waiting' \in Seq(Requests)
      /\ Len(waiting') = Len(waiting) + 1
      /\ \A i \in 1 .. Len(waiting) : waiting'[i] = waiting[i]
      /\ waiting'[Len(waiting) + 1] = r
  BY <1>1, AppendProperties
<1>3. TypeOK'
  BY <1>1, <1>2 DEF Inv, TypeOK, QueueForSlot, PC
<1>4. Holders' = Holders
  BY <1>1 DEF Inv, TypeOK, Holders
<1>5. SlotAccounting'
  BY <1>4 DEF Inv, SlotAccounting, QueueForSlot
<1>6. QueueIsTheQueued'
  <2>1. {q \in Requests : pc'[q] = "queued"}
          = {q \in Requests : pc[q] = "queued"} \cup {r}
    BY <1>1 DEF Inv, TypeOK
  <2>2. {waiting'[i] : i \in 1 .. Len(waiting')}
          = {waiting[i] : i \in 1 .. Len(waiting)} \cup {r}
    <3>1. \A i \in 1 .. Len(waiting') : i = Len(waiting) + 1 \/ i \in 1 .. Len(waiting)
      BY <1>1, <1>2
    <3>2. \A i \in 1 .. Len(waiting) : i \in 1 .. Len(waiting')
      BY <1>1, <1>2
    <3>3. Len(waiting) + 1 \in 1 .. Len(waiting')
      BY <1>1, <1>2
    <3> QED BY <1>2, <3>1, <3>2, <3>3
  <2>3. \A i \in 1 .. Len(waiting) : waiting[i] # r
    BY <1>1 DEF Inv, QueueIsTheQueued
  <2>4. \A i, j \in 1 .. Len(waiting') : i # j => waiting'[i] # waiting'[j]
    BY <1>1, <1>2, <2>3 DEF Inv, QueueIsTheQueued
  <2> QED BY <2>1, <2>2, <2>4 DEF Inv, QueueIsTheQueued
<1>7. NoLostWakeup'
  BY DEF Inv, TypeOK, NoLostWakeup, QueueForSlot
<1>8. TimersWithinPause' /\ RetryNotEarly'
  BY DEF Inv, TypeOK, TimersWithinPause, RetryNotEarly, QueueForSlot
<1> QED BY <1>3, <1>5, <1>6, <1>7, <1>8 DEF Inv

LEMMA SendInv ==
    ASSUME Inv, NEW r \in Requests, Send(r)
    PROVE  Inv'
<1>1. TypeOK' /\ TimersWithinPause' /\ RetryNotEarly'
  BY DEF Inv, TypeOK, TimersWithinPause, RetryNotEarly, Send, PC
<1>2. Holders' = Holders
  BY DEF Inv, TypeOK, Holders, Send
<1>3. {q \in Requests : pc'[q] = "queued"} = {q \in Requests : pc[q] = "queued"}
  BY DEF Inv, TypeOK, Send
<1> QED BY <1>1, <1>2, <1>3
        DEF Inv, QueueIsTheQueued, SlotAccounting, NoLostWakeup, Send

\* Full use of a fan-out p leaves room for one widening, to q.
LEMMA SlackOfOne ==
    \A i, q \in Nat, p \in Nat \ {0} :
        i >= p /\ q <= p + 1 => i >= 1 /\ i + 1 >= q
OBVIOUS

LEMMA AnswerOkInv ==
    ASSUME Inv, NEW r \in Requests, AnswerOk(r)
    PROVE  Inv'
<1>1. permitted \in Nat \ {0} /\ permitted \in 1 .. MaxInflight
  BY DEF Inv, TypeOK
<1>2. /\ pc' \in [Requests -> PC] /\ inflight' \in Nat /\ waiting' \in Seq(Requests)
      /\ QueueIsTheQueued' /\ SlotAccounting'
      /\ waiting' # <<>> => inflight' >= permitted
      /\ \A q \in Requests : pc'[q] # pc[q]
                => \/ q = r /\ pc'[q] = "done"
                   \/ pc[q] = "queued" /\ pc'[q] = "granted"
  BY <1>1, ReleaseEffect DEF Inv, AnswerOk
<1>3. /\ permitted' \in 1 .. MaxInflight /\ permitted' <= permitted + 1
      /\ streak' \in 0 .. RecoverAfter - 1
      /\ UNCHANGED <<attempt, nap, owed, pause, heard>>
  BY <1>1, LimitsPositive DEF Inv, TypeOK, AnswerOk, noteSuccess
<1>4. TypeOK'
  BY <1>2, <1>3 DEF Inv, TypeOK
<1>5. NoLostWakeup'
  <2>1. inflight' \in Nat /\ permitted' \in Nat /\ permitted' <= permitted + 1
    BY <1>2, <1>3, LimitsPositive
  <2> QED BY <1>1, <1>2, <2>1, SlackOfOne, Zenon DEF NoLostWakeup
<1>6. TimersWithinPause' /\ RetryNotEarly'
  BY <1>2, <1>3 DEF Inv, TypeOK, TimersWithinPause, RetryNotEarly, PC
<1> QED BY <1>2, <1>4, <1>5, <1>6 DEF Inv

LEMMA AnswerLimitedInv ==
    ASSUME Inv, NEW r \in Requests, NEW s \in Stated, AnswerLimited(r, s)
    PROVE  Inv'
<1>1. /\ Capped(s) \in 0 .. MaxWait
      /\ permitted' \in 1 .. MaxInflight
      /\ streak' \in 0 .. RecoverAfter - 1
      /\ pause' \in 0 .. MaxWait /\ pause' >= pause /\ pause' >= Capped(s)
  BY LimitsPositive, WaitsAreTicks
     DEF Inv, TypeOK, AnswerLimited, note, Capped, rateLimitWaitMs, Least, Most
<1>2. permitted' \in Nat \ {0}
  BY <1>1, LimitsPositive
<1>3. /\ pc' \in [Requests -> PC] /\ inflight' \in Nat /\ waiting' \in Seq(Requests)
      /\ QueueIsTheQueued' /\ SlotAccounting'
      /\ waiting' # <<>> => inflight' >= permitted'
      /\ \A q \in Requests : pc'[q] # pc[q]
                => \/ q = r /\ pc'[q] = "gate"
                   \/ pc[q] = "queued" /\ pc'[q] = "granted"
  BY <1>2, ReleaseEffect DEF Inv, AnswerLimited
<1>4. pc'[r] = "gate"
  BY DEF AnswerLimited, releaseSlot
<1>5. TypeOK'
  <2>1. attempt' \in [Requests -> 0 .. Attempts - 1]
    BY LimitsPositive DEF Inv, TypeOK, AnswerLimited
  <2>2. /\ owed' \in [Requests -> 0 .. MaxWait] /\ nap' \in [Requests -> 0 .. MaxWait]
        /\ heard' \subseteq Requests
    BY <1>1 DEF Inv, TypeOK, AnswerLimited
  <2> QED BY <1>1, <1>3, <2>1, <2>2 DEF TypeOK
<1>6. NoLostWakeup'
  <2>1. permitted' \in Nat /\ permitted' <= permitted' + 1
    <3>1. \A p \in Nat \ {0} : p \in Nat /\ p <= p + 1
      OBVIOUS
    <3> QED BY <1>2, <3>1, Zenon
  <2> QED BY <1>2, <1>3, <2>1, SlackOfOne, Zenon DEF NoLostWakeup
<1>7. TimersWithinPause'
  BY <1>1 DEF Inv, TypeOK, TimersWithinPause, AnswerLimited
<1>8. RetryNotEarly'
  BY <1>3, <1>4 DEF Inv, TypeOK, RetryNotEarly, AnswerLimited
<1> QED BY <1>3, <1>5, <1>6, <1>7, <1>8 DEF Inv

LEMMA AnswerErrorInv ==
    ASSUME Inv, NEW r \in Requests, AnswerError(r)
    PROVE  Inv'
<1>1. permitted \in Nat \ {0}
  BY DEF Inv, TypeOK
<1>2. /\ pc' \in [Requests -> PC] /\ inflight' \in Nat /\ waiting' \in Seq(Requests)
      /\ QueueIsTheQueued' /\ SlotAccounting'
      /\ waiting' # <<>> => inflight' >= permitted
      /\ \A q \in Requests : pc'[q] # pc[q]
                => \/ q = r /\ pc'[q] = "done"
                   \/ pc[q] = "queued" /\ pc'[q] = "granted"
  BY <1>1, ReleaseEffect DEF Inv, AnswerError
<1>3. UNCHANGED <<attempt, nap, permitted, streak, pause, owed, heard>>
  BY DEF AnswerError
<1>4. TypeOK'
  BY <1>2, <1>3 DEF Inv, TypeOK
<1>5. NoLostWakeup'
  <2>1. permitted \in Nat /\ permitted <= permitted + 1 /\ permitted' = permitted
    BY <1>1, <1>3
  <2> QED BY <1>1, <1>2, <2>1, SlackOfOne, Zenon DEF NoLostWakeup
<1>6. TimersWithinPause' /\ RetryNotEarly'
  BY <1>2, <1>3 DEF Inv, TypeOK, TimersWithinPause, RetryNotEarly, PC
<1> QED BY <1>2, <1>4, <1>5, <1>6 DEF Inv

LEMMA TickInv == ASSUME Inv, Tick PROVE Inv'
<1>1. TypeOK'
  <2>1. pause' \in 0 .. MaxWait
    BY WaitsAreTicks DEF Inv, TypeOK, Tick
  <2>2. nap' \in [Requests -> 0 .. MaxWait] /\ owed' \in [Requests -> 0 .. MaxWait]
    <3>1. \A t \in 0 .. MaxWait : (IF t > 0 THEN t - 1 ELSE 0) \in 0 .. MaxWait
      BY WaitsAreTicks
    <3> QED BY <3>1 DEF Inv, TypeOK, Tick
  <2> QED BY <2>1, <2>2 DEF Inv, TypeOK, Tick
<1>2. QueueIsTheQueued' /\ SlotAccounting' /\ NoLostWakeup'
  BY DEF Inv, QueueIsTheQueued, SlotAccounting, NoLostWakeup, Holders, Tick
<1>3. TimersWithinPause' /\ RetryNotEarly'
  BY DEF Inv, TypeOK, TimersWithinPause, RetryNotEarly, Tick
<1> QED BY <1>1, <1>2, <1>3 DEF Inv

\* Calling, and everything that happens at the gate.
LEMMA GateInv ==
    ASSUME Inv, NEW r \in Requests,
           Call(r) \/ GateOpen(r) \/ GateSleep(r) \/ Wake(r)
    PROVE  Inv'
<1>1. /\ pc' \in [Requests -> PC]
      /\ QueueIsTheQueued' /\ SlotAccounting' /\ NoLostWakeup'
  <2>1. CASE Call(r)       BY <2>1, MoveOutside DEF Call
  <2>2. CASE GateOpen(r)   BY <2>2, MoveOutside DEF GateOpen
  <2>3. CASE GateSleep(r)  BY <2>3, MoveOutside DEF GateSleep
  <2>4. CASE Wake(r)       BY <2>4, MoveOutside DEF Wake
  <2> QED BY <2>1, <2>2, <2>3, <2>4
<1>2. TypeOK'
  BY <1>1 DEF Inv, TypeOK, Call, GateOpen, GateSleep, Wake
<1>3. TimersWithinPause'
  <2>1. pause \in Nat /\ pause' = pause /\ owed' = owed
    BY DEF Inv, TypeOK, Call, GateOpen, GateSleep, Wake
  <2>2. nap' = nap \/ nap' = [nap EXCEPT ![r] = pause]
    BY DEF Call, GateOpen, GateSleep, Wake
  <2>3. \A q \in Requests : nap'[q] <= pause
    <3>1. nap \in [Requests -> 0 .. MaxWait] /\ \A q \in Requests : nap[q] <= pause
      BY DEF Inv, TypeOK, TimersWithinPause
    <3>2. CASE nap' = [nap EXCEPT ![r] = pause]
      BY <2>1, <3>1, <3>2
    <3> QED BY <2>2, <3>1, <3>2
  <2> QED BY <2>1, <2>3 DEF Inv, TimersWithinPause
<1>4. RetryNotEarly'
  BY DEF Inv, TypeOK, TimersWithinPause, RetryNotEarly, Call, GateOpen, GateSleep, Wake
<1> QED BY <1>1, <1>2, <1>3, <1>4 DEF Inv

LEMMA NextInv == Inv /\ [Next]_vars => Inv'
<1> SUFFICES ASSUME Inv, [Next]_vars PROVE Inv'
  OBVIOUS
<1>1. CASE Tick
  BY <1>1, TickInv
<1>2. ASSUME NEW r \in Requests, Call(r) \/ Advance(r) PROVE Inv'
  BY <1>2, GateInv, TakeSlotInv, QueueForSlotInv, SendInv DEF Advance
<1>3. ASSUME NEW r \in Requests, Answer(r) PROVE Inv'
  BY <1>3, AnswerOkInv, AnswerLimitedInv, AnswerErrorInv DEF Answer
<1>4. CASE UNCHANGED vars
  BY <1>4, SMTT(30) DEF Inv, TypeOK, QueueIsTheQueued, SlotAccounting, NoLostWakeup, Holders,
              TimersWithinPause, RetryNotEarly, vars
<1> QED BY <1>1, <1>2, <1>3, <1>4 DEF Next

LEMMA SpecInv == Spec => []Inv
<1>1. Init => Inv
  BY InitInv
<1>2. Inv /\ [Next]_vars => Inv'
  BY NextInv
<1> QED BY <1>1, <1>2, PTL DEF Spec

-----------------------------------------------------------------------------
(* Theorems *)

\* Every variable keeps its type; in particular the fan-out never leaves
\* 1..MaxInflight and no request counts past its last attempt (rate-limit.ts note,
\* noteSuccess; chain.ts throttle).
THEOREM TypeCorrect == Spec => []TypeOK
BY SpecInv, PTL DEF Inv

\* No path through throttle's try/catch/finally leaks a slot or frees one twice.
THEOREM SlotsAccounted == Spec => []SlotAccounting
BY SpecInv, PTL DEF Inv

\* A waker sits in the queue exactly while its request waits, and once.
THEOREM QueueCorrect == Spec => []QueueIsTheQueued
BY SpecInv, PTL DEF Inv

\* Between the gate and its answer every request is in the queue or holds a slot.
THEOREM AccountsBalance == Spec => []Accounting
BY SlotsAccounted, QueueCorrect, PTL DEF Accounting

\* acquireSlot and releaseSlot never leave the queue behind with nobody to wake it.
THEOREM WakeupsKept == Spec => []NoLostWakeup
BY SpecInv, PTL DEF Inv

\* A request that was told to stay away stays away that long, however the pauses of
\* several requests overlap.
THEOREM RetriesOnTime == Spec => []RetryNotEarly
BY SpecInv, PTL DEF Inv

\* While intervals are waited at all, what was heard since the last pause is at the endpoint,
\* or done, or waits at the gate for a pause that is not over.
HeardWait ==
    MaxWait > 0 =>
        \A r \in heard :
            \/ pc[r] \in {"sent", "done"}
            \/ pc[r] \in {"gate", "asleep"} /\ pause > 0

LEMMA HeardStep == ASSUME Inv, HeardWait, [Next]_vars PROVE HeardWait'
<1> SUFFICES ASSUME MaxWait > 0, NEW r \in heard'
             PROVE  \/ pc'[r] \in {"sent", "done"}
                    \/ pc'[r] \in {"gate", "asleep"} /\ pause' > 0
  BY DEF HeardWait
<1>1. ASSUME NEW q \in Requests, AnswerOk(q) \/ AnswerError(q) \/ \E s \in Stated : AnswerLimited(q, s)
      PROVE  r \in heard /\ pc[q] = "sent" /\ pause' >= pause /\ pause' \in Nat
  <2>1. pause \in Nat
    BY DEF Inv, TypeOK
  <2>2. CASE AnswerOk(q) \/ AnswerError(q)
    BY <2>1, <2>2 DEF AnswerOk, AnswerError, noteSuccess
  <2>3. CASE \E s \in Stated : AnswerLimited(q, s)
    BY <2>1, <2>3, WaitsAreTicks DEF AnswerLimited, note, Capped, rateLimitWaitMs, Least, Most
  <2> QED BY <1>1, <2>2, <2>3
<1>2. ASSUME NEW q \in Requests, AnswerOk(q) \/ AnswerError(q)
      PROVE  pc'[r] = IF r = q THEN "done" ELSE pc[r]
  <2>1. r \in heard /\ r \in Requests /\ pc[r] # "queued"
    BY <1>1, <1>2 DEF Inv, TypeOK, HeardWait
  <2>2. pc[q] = "sent" /\ \E permit \in Nat \ {0} : releaseSlot(q, "done", permit)
    BY <1>2 DEF AnswerOk, AnswerError, Inv, TypeOK
  <2>3. pc'[r] # pc[r] => r = q /\ pc'[r] = "done"
    BY <2>1, <2>2, ReleaseEffect DEF Inv
  <2>4. pc'[q] = "done"
    BY <2>2 DEF releaseSlot
  <2> QED BY <2>3, <2>4
<1>3. ASSUME NEW q \in Requests, NEW s \in Stated, AnswerLimited(q, s)
      PROVE  (pc'[r] = IF r = q THEN "gate" ELSE pc[r]) /\ pause' > 0
  <2>1. r \in heard /\ r \in Requests /\ pc[r] # "queued"
    BY <1>1, <1>3 DEF Inv, TypeOK, HeardWait
  <2>2. permitted' \in Nat \ {0}
    BY <1>3 DEF Inv, TypeOK, AnswerLimited, note, Most
  <2>3. pc[q] = "sent" /\ releaseSlot(q, "gate", permitted')
    BY <1>3 DEF AnswerLimited
  <2>4. pc'[r] # pc[r] => r = q /\ pc'[r] = "gate"
    BY <2>1, <2>2, <2>3, ReleaseEffect DEF Inv
  <2>5. pc'[q] = "gate"
    BY <2>3 DEF releaseSlot
  <2>6. pause' > 0
    BY <1>3, WaitsAreTicks DEF Inv, TypeOK, AnswerLimited, note, Capped, rateLimitWaitMs, Least, Most
  <2> QED BY <2>4, <2>5, <2>6
<1>4. CASE Tick
  BY <1>4 DEF Tick, HeardWait, Inv, TypeOK
<1>5. ASSUME NEW q \in Requests, Call(q) \/ Advance(q)
      PROVE  \/ pc'[r] \in {"sent", "done"}
             \/ pc'[r] \in {"gate", "asleep"} /\ pause' > 0
  <2> USE DEF Inv, TypeOK, HeardWait
  <2>1. CASE Call(q) \/ GateSleep(q) \/ Wake(q)
    BY <2>1 DEF Call, GateSleep, Wake
  <2>2. CASE GateOpen(q) \/ TakeSlot(q) \/ QueueForSlot(q)
    <3>1. r \in heard /\ pause' = pause /\ \A p \in Requests \ {q} : pc'[p] = pc[p]
      BY <2>2 DEF GateOpen, TakeSlot, QueueForSlot
    <3>2. pc[q] = "passed" \/ (pc[q] = "gate" /\ pause = 0)
      BY <2>2 DEF GateOpen, TakeSlot, QueueForSlot
    <3>3. pc[r] \in {"sent", "done"} \/ (pc[r] \in {"gate", "asleep"} /\ pause > 0)
      BY <3>1
    <3>4. r # q
      <4> HIDE DEF Inv, TypeOK, HeardWait
      <4>1. pause > 0 => pause # 0
        BY DEF Inv, TypeOK
      <4> QED BY <3>2, <3>3, <4>1
    <3> QED BY <3>1, <3>4
  <2>3. CASE Send(q)
    BY <2>3 DEF Send
  <2> QED BY <1>5, <2>1, <2>2, <2>3 DEF Advance
<1>6. CASE UNCHANGED vars
  BY <1>6 DEF vars, HeardWait
<1>7. ASSUME NEW q \in Requests, Answer(q)
      PROVE  \/ pc'[r] \in {"sent", "done"}
             \/ pc'[r] \in {"gate", "asleep"} /\ pause' > 0
  <2>1. CASE AnswerOk(q) \/ AnswerError(q)
    BY <1>1, <1>2, <2>1 DEF HeardWait, Inv, TypeOK
  <2>2. CASE \E s \in Stated : AnswerLimited(q, s)
    BY <1>1, <1>3, <2>2 DEF HeardWait
  <2> QED BY <1>7, <2>1, <2>2 DEF Answer
<1> QED BY <1>4, <1>5, <1>6, <1>7 DEF Next

\* No request is sent twice within one pause, whatever extends it (rate-limit.ts:119-120).
THEOREM HeardOnce == Spec => OncePerPause
<1>1. Init => HeardWait
  BY DEF Init, HeardWait
<1>2. Inv /\ HeardWait /\ [Next]_vars => HeardWait'
  BY HeardStep
<1>3. Inv /\ HeardWait /\ [Next]_vars =>
        [ \A r \in heard : pc[r] = "granted" /\ pc'[r] = "sent" => pause = 0 ]_vars
  <2> SUFFICES ASSUME Inv, HeardWait, NEW r \in heard, pc[r] = "granted"
               PROVE  pause = 0
    OBVIOUS
  <2>1. ~(MaxWait > 0)
    BY DEF HeardWait
  <2> QED BY <2>1, WaitsAreTicks DEF Inv, TypeOK
<1> QED BY <1>1, <1>2, <1>3, SpecInv, PTL DEF Spec, OncePerPause

\* Newcomers and woken waiters alike are admitted within the fan-out of the moment.
THEOREM AdmissionsPermitted == Spec => AdmissionWithinPermit
<1>1. Inv /\ [Next]_vars =>
        [ (\E r \in Requests : pc[r] \in {"passed", "queued"} /\ pc'[r] = "granted")
             => inflight' <= permitted' ]_vars
  <2> SUFFICES ASSUME Inv, Next,
                      NEW r \in Requests, pc[r] \in {"passed", "queued"}, pc'[r] = "granted"
               PROVE  inflight' <= permitted'
    OBVIOUS
  <2>1. ASSUME NEW q \in Requests, AnswerOk(q) PROVE inflight' <= permitted'
    <3>1. permitted \in Nat \ {0} /\ permitted' >= permitted /\ permitted' \in Nat
      BY <2>1, SMTT(30) DEF Inv, TypeOK, AnswerOk, noteSuccess
    <3>2. pc[q] = "sent" /\ releaseSlot(q, "done", permitted)
      BY <2>1 DEF AnswerOk
    <3> QED BY <3>1, <3>2, ReleaseEffect DEF Inv
  <2>2. ASSUME NEW q \in Requests, NEW s \in Stated, AnswerLimited(q, s)
        PROVE inflight' <= permitted'
    <3>1. permitted' \in Nat \ {0}
      BY <2>2 DEF Inv, TypeOK, AnswerLimited, note, Most
    <3>2. pc[q] = "sent" /\ releaseSlot(q, "gate", permitted')
      BY <2>2 DEF AnswerLimited
    <3> QED BY <3>1, <3>2, ReleaseEffect DEF Inv
  <2>3. ASSUME NEW q \in Requests, AnswerError(q) PROVE inflight' <= permitted'
    <3>1. permitted \in Nat \ {0} /\ permitted' = permitted
      BY <2>3 DEF Inv, TypeOK, AnswerError
    <3>2. pc[q] = "sent" /\ releaseSlot(q, "done", permitted)
      BY <2>3 DEF AnswerError
    <3> QED BY <3>1, <3>2, ReleaseEffect DEF Inv
  <2>4. ASSUME NEW q \in Requests, Call(q) \/ Advance(q) PROVE inflight' <= permitted'
    <3>1. CASE TakeSlot(q)
      BY <3>1 DEF Inv, TypeOK, TakeSlot
    <3> QED BY <2>4, <3>1 DEF Inv, TypeOK, Advance, Call, GateOpen, GateSleep, Wake,
                              QueueForSlot, Send
  <2>5. CASE Tick \/ UNCHANGED vars
    BY <2>5 DEF Tick, vars
  <2> QED BY <2>1, <2>2, <2>3, <2>4, <2>5 DEF Next, Answer
<1> QED BY <1>1, SpecInv, PTL DEF Spec, AdmissionWithinPermit

-----------------------------------------------------------------------------
(***************************************************************************)
(* LogSplit, for any chain, any logs on it, any cap on an answer and any   *)
(* set of deployments.                                                     *)
(*                                                                         *)
(* IInv is the inductive invariant: the pieces of a query lie one after    *)
(* another from where it begins to the tip, and what an answered piece has *)
(* is the logs of its blocks.  To get from pieces that adjoin to pieces    *)
(* that are in order and leave no block out takes an induction, so IInv    *)
(* says all three: a piece that is cut in two keeps each of them.          *)
(***************************************************************************)

\* A piece of a query, asked for or answered.
Pieces == [from : 0 .. Tip, to : 0 .. Tip, tries : 0 .. ATTEMPTS - 1, got : SUBSET (0 .. Tip + 1)]

Typed ==
    /\ SplitTypeOK
    /\ mode \in {"mint", "owner", "point"}
    /\ pieces \in Seq(Pieces)

\* The pieces of a query follow each other from its start to its end.
Follows(ps, start) ==
    /\ ps[1].from = start /\ ps[Len(ps)].to = Tip
    /\ \A i \in 1 .. Len(ps) - 1 : ps[i + 1].from = ps[i].to + 1
    /\ \A i, j \in 1 .. Len(ps) : i < j => ps[i].to < ps[j].from
    /\ \A b \in start .. Tip : \E i \in 1 .. Len(ps) : ps[i].from <= b /\ b <= ps[i].to

Following == pieces # <<>> => Follows(pieces, Start)

\* A piece that is answered has its own logs.
Exact == \A i \in DOMAIN pieces : Open(i) \/ pieces[i].got = LogsOf(pieces[i].from, pieces[i].to)

\* Which callers are where, and with a query or without.
Staged ==
    /\ progress = "whole" => mode = "mint"
    /\ progress = "probe0" => mode = "owner"
    /\ mode = "point" => progress \in {"idle", "done"} /\ pieces = <<>>
    /\ progress \in {"idle", "probe0", "probe", "failed"} => pieces = <<>>
    /\ progress \in {"whole", "tail", "done"} /\ mode # "point" => pieces # <<>>
    /\ progress = "done" => \A i \in DOMAIN pieces : ~Open(i)
    /\ progress \in {"idle", "whole", "probe"} /\ mode = "mint" => truncatedAt = NoFloor
    /\ mode # "mint" => truncatedAt = NoFloor
    /\ mode # "owner" => genesisFloor = NoFloor
    /\ mode = "owner" /\ genesisFloor = NoFloor => pieces = <<>>

\* The lower bound of the search is pruned, and what was found lies within the tolerance
\* of a block that was.
Searched ==
    /\ progress = "probe" => lo < kept
    /\ \A floor \in {truncatedAt, genesisFloor} :
         floor \in {0, NoFloor} \/ floor < kept + Tolerance

IInv == Typed /\ Following /\ Exact /\ Staged /\ Searched

-----------------------------------------------------------------------------
(* Sequences *)

LEMMA LeastNat ==
    ASSUME NEW S, S \subseteq Nat, S # {}
    PROVE  \E n \in S : \A m \in S : n <= m
<1>1. IsWellFoundedOn(OpToRel(<, Nat), Nat)
  BY NatLessThanWellFounded
<1>2. PICK n \in S : \A m \in S : ~ (<<m, n>> \in OpToRel(<, Nat))
  BY <1>1, WFMin
<1>3. \A m \in S : ~ (m < n)
  BY <1>2 DEF OpToRel
<1> QED BY <1>3

\* Where the items of a sequence are when two stand in the place of one.
Between(front, a, b, back) == front \o <<a, b>> \o back

IsBetween(S, front, a, b, back, new) ==
    /\ new \in Seq(S) /\ Len(new) = Len(front) + Len(back) + 2
    /\ \A k \in 1 .. Len(front) : new[k] = front[k]
    /\ new[Len(front) + 1] = a /\ new[Len(front) + 2] = b
    /\ \A k \in Len(front) + 3 .. Len(front) + Len(back) + 2 :
         new[k] = back[k - Len(front) - 2]

LEMMA Joined ==
    ASSUME NEW S, NEW front \in Seq(S), NEW back \in Seq(S), NEW a \in S, NEW b \in S
    PROVE  IsBetween(S, front, a, b, back, Between(front, a, b, back))
<1> DEFINE new == Between(front, a, b, back)
<1> DEFINE n == Len(front)
<1>0. n = Len(front)
  OBVIOUS
<1> HIDE DEF n
<1> DEFINE half == front \o <<a, b>>
<1>1. n \in Nat /\ Len(back) \in Nat
  BY <1>0
<1>2. <<a, b>> \in Seq(S) /\ Len(<<a, b>>) = 2 /\ <<a, b>>[1] = a /\ <<a, b>>[2] = b
  OBVIOUS
<1>3. /\ half \in Seq(S) /\ Len(half) = n + 2
      /\ \A k \in 1 .. n + 2 : half[k] = IF k <= n THEN front[k] ELSE <<a, b>>[k - n]
  BY <1>0, <1>2, ConcatProperties
<1>4. /\ \A k \in 1 .. n : half[k] = front[k]
      /\ half[n + 1] = a /\ half[n + 2] = b
  <2>1. \A k \in 1 .. n : half[k] = front[k]
    BY <1>1, <1>3
  <2>2. n + 1 \in 1 .. n + 2 /\ ~(n + 1 <= n) /\ (n + 1) - n = 1
    BY <1>1
  <2>3. n + 2 \in 1 .. n + 2 /\ ~(n + 2 <= n) /\ (n + 2) - n = 2
    BY <1>1
  <2>4. half[n + 1] = <<a, b>>[(n + 1) - n] /\ half[n + 2] = <<a, b>>[(n + 2) - n]
    BY <1>3, <2>2, <2>3
  <2> QED BY <1>2, <2>1, <2>2, <2>3, <2>4
<1> HIDE DEF half
<1>9. new = half \o back
  BY DEF Between, half
<1> HIDE DEF new
<1>5. /\ new \in Seq(S) /\ Len(new) = n + 2 + Len(back)
      /\ \A k \in 1 .. n + 2 + Len(back) : new[k] = IF k <= n + 2 THEN half[k] ELSE back[k - (n + 2)]
  <2>1. /\ half \o back \in Seq(S) /\ Len(half \o back) = Len(half) + Len(back)
        /\ \A k \in 1 .. Len(half) + Len(back) :
              (half \o back)[k] = IF k <= Len(half) THEN half[k] ELSE back[k - Len(half)]
    BY <1>3, ConcatProperties, Zenon
  <2> QED BY <1>3, <1>9, <2>1
<1>6. \A k \in n + 3 .. n + Len(back) + 2 : new[k] = back[k - n - 2]
  BY <1>1, <1>5
<1>7. \A k \in 1 .. n + 2 : new[k] = half[k]
  BY <1>1, <1>5
<1>8. /\ \A k \in 1 .. n : new[k] = front[k]
      /\ new[n + 1] = a /\ new[n + 2] = b
  BY <1>1, <1>4, <1>7
<1>10. IsBetween(S, front, a, b, back, new)
  BY <1>0, <1>1, <1>5, <1>6, <1>8 DEF IsBetween
<1> QED BY <1>10 DEF new

InPlace(S, s, i, a, b, new) ==
    /\ new \in Seq(S) /\ Len(new) = Len(s) + 1
    /\ \A k \in 1 .. i - 1 : new[k] = s[k]
    /\ new[i] = a /\ new[i + 1] = b
    /\ \A k \in i + 2 .. Len(s) + 1 : new[k] = s[k - 1]

LEMMA Replaced ==
    ASSUME NEW S, NEW s \in Seq(S), NEW i \in 1 .. Len(s), NEW a \in S, NEW b \in S
    PROVE  InPlace(S, s, i, a, b, SubSeq(s, 1, i - 1) \o <<a, b>> \o SubSeq(s, i + 1, Len(s)))
<1> DEFINE front == SubSeq(s, 1, i - 1)
           back == SubSeq(s, i + 1, Len(s))
<1>1. /\ front \in Seq(S) /\ Len(front) = i - 1
      /\ \A k \in 1 .. i - 1 : front[k] = s[k]
  OBVIOUS
<1>2. /\ back \in Seq(S) /\ Len(back) = Len(s) - i
      /\ \A k \in 1 .. Len(s) - i : back[k] = s[k + i]
  OBVIOUS
<1> HIDE DEF front, back
<1> DEFINE new == front \o <<a, b>> \o back
<1>3. /\ new \in Seq(S) /\ Len(new) = (i - 1) + (Len(s) - i) + 2
      /\ \A k \in 1 .. i - 1 : new[k] = front[k]
      /\ new[(i - 1) + 1] = a /\ new[(i - 1) + 2] = b
      /\ \A k \in (i - 1) + 3 .. Len(new) : new[k] = back[k - (i - 1) - 2]
  <2>1. IsBetween(S, front, a, b, back, Between(front, a, b, back))
    BY <1>1, <1>2, Joined
  <2>2. Between(front, a, b, back) = new
    BY DEF Between
  <2> QED BY <1>1, <1>2, <2>1, <2>2 DEF IsBetween
<1> HIDE DEF new
<1>4. Len(s) \in Nat /\ i \in Int
  OBVIOUS
<1>5. /\ new \in Seq(S) /\ Len(new) = Len(s) + 1
      /\ \A k \in 1 .. i - 1 : new[k] = s[k]
      /\ new[i] = a /\ new[i + 1] = b
  BY <1>1, <1>3, <1>4
<1>6. ASSUME NEW k \in i + 2 .. Len(s) + 1
      PROVE  new[k] = s[k - 1]
  <2>1. new[k] = back[k - (i - 1) - 2]
    BY <1>3, <1>4
  <2>2. k - (i - 1) - 2 = k - i - 1 /\ k - i - 1 \in 1 .. Len(s) - i /\ (k - i - 1) + i = k - 1
    BY <1>4
  <2> QED BY <1>2, <2>1, <2>2
<1>7. InPlace(S, s, i, a, b, new)
  BY <1>5, <1>6 DEF InPlace
<1> QED BY <1>7 DEF new, front, back

-----------------------------------------------------------------------------
(* The pieces *)

\* A piece may stay what it was in all but its answer.
LEMMA SameRanges ==
    ASSUME NEW ps \in Seq(Pieces), NEW qs \in Seq(Pieces), Len(qs) = Len(ps),
           \A i \in 1 .. Len(ps) : qs[i].from = ps[i].from /\ qs[i].to = ps[i].to,
           ps # <<>>, NEW start, Follows(ps, start)
    PROVE  qs # <<>> /\ Follows(qs, start)
<1>1. Len(ps) \in Nat /\ 1 <= Len(ps)
  OBVIOUS
<1> DEFINE n == Len(ps)
<1>2. /\ ps[1].from = start /\ ps[n].to = Tip
      /\ \A k \in 1 .. n - 1 : ps[k + 1].from = ps[k].to + 1
      /\ \A k, l \in 1 .. n : k < l => ps[k].to < ps[l].from
      /\ \A x \in start .. Tip : \E k \in 1 .. n : ps[k].from <= x /\ x <= ps[k].to
  BY DEF Follows
<1>3. Len(qs) = n /\ qs # <<>> /\ \A k \in 1 .. n : qs[k].from = ps[k].from /\ qs[k].to = ps[k].to
  BY <1>1
<1> HIDE DEF n
<1>4. n \in Nat /\ 1 <= n
  BY <1>1 DEF n
<1>5. qs[1].from = start /\ qs[n].to = Tip
  BY <1>2, <1>3, <1>4
<1>6. \A k \in 1 .. n - 1 : qs[k + 1].from = qs[k].to + 1
  BY <1>2, <1>3, <1>4
<1>7. \A k, l \in 1 .. n : k < l => qs[k].to < qs[l].from
  BY <1>2, <1>3
<1>8. \A x \in start .. Tip : \E k \in 1 .. n : qs[k].from <= x /\ x <= qs[k].to
  BY <1>2, <1>3
<1> QED BY <1>3, <1>5, <1>6, <1>7, <1>8 DEF Follows

\* Where a piece is cut the two halves follow each other.
LEMMA CutUp ==
    ASSUME NEW ps \in Seq(Pieces), NEW start \in Int, Follows(ps, start),
           NEW i \in 1 .. Len(ps), NEW mid \in Int, ps[i].from <= mid, mid < ps[i].to,
           NEW a \in Pieces, a.from = ps[i].from, a.to = mid,
           NEW b \in Pieces, b.from = mid + 1, b.to = ps[i].to,
           NEW qs, InPlace(Pieces, ps, i, a, b, qs)
    PROVE  qs # <<>> /\ Follows(qs, start)
<1> DEFINE n == Len(ps)
<1>1. /\ n \in Nat /\ 1 <= n /\ i \in Int /\ 1 <= i /\ i <= n
      /\ Tip \in Nat
  BY LogSplitAssumption
<1>2. \A k \in 1 .. n : ps[k].from \in Int /\ ps[k].to \in Int
  <2> SUFFICES ASSUME NEW k \in 1 .. n PROVE ps[k].from \in Int /\ ps[k].to \in Int
    OBVIOUS
  <2>1. ps[k] \in Pieces
    OBVIOUS
  <2>2. \A p \in Pieces : p.from \in 0 .. Tip /\ p.to \in 0 .. Tip
    BY DEF Pieces
  <2> QED BY <2>1, <2>2, <1>1
<1>3. /\ Len(qs) = n + 1 /\ qs # <<>>
      /\ \A k \in 1 .. i - 1 : qs[k] = ps[k]
      /\ qs[i] = a /\ qs[i + 1] = b
      /\ \A k \in i + 2 .. n + 1 : qs[k] = ps[k - 1]
  BY <1>1 DEF InPlace
<1>4. /\ ps[1].from = start /\ ps[n].to = Tip
      /\ \A k \in 1 .. n - 1 : ps[k + 1].from = ps[k].to + 1
      /\ \A k, l \in 1 .. n : k < l => ps[k].to < ps[l].from
      /\ \A x \in start .. Tip : \E k \in 1 .. n : ps[k].from <= x /\ x <= ps[k].to
  BY DEF Follows
<1> HIDE DEF n
<1>5. qs[1].from = start
  <2>1. CASE i = 1
    BY <2>1, <1>3, <1>4
  <2>2. CASE i > 1
    <3>1. 1 \in 1 .. i - 1
      BY <2>2, <1>1
    <3> QED BY <3>1, <1>3, <1>4
  <2> QED BY <2>1, <2>2, <1>1
<1>6. qs[n + 1].to = Tip
  <2>1. CASE i = n
    BY <2>1, <1>3, <1>4
  <2>2. CASE i < n
    <3>1. n + 1 \in i + 2 .. n + 1 /\ (n + 1) - 1 = n
      BY <2>2, <1>1
    <3> QED BY <3>1, <1>3, <1>4
  <2> QED BY <2>1, <2>2, <1>1
<1>7. ASSUME NEW k \in 1 .. n
      PROVE  qs[k + 1].from = qs[k].to + 1
  <2>1. CASE k + 1 < i
    <3>1. k \in 1 .. i - 1 /\ k + 1 \in 1 .. i - 1 /\ k \in 1 .. n - 1
      BY <2>1, <1>1
    <3> QED BY <3>1, <1>3, <1>4
  <2>2. CASE k + 1 = i
    <3>1. k \in 1 .. i - 1 /\ k \in 1 .. n - 1
      BY <2>2, <1>1
    <3> QED BY <3>1, <2>2, <1>3, <1>4
  <2>3. CASE k = i
    BY <2>3, <1>3
  <2>4. CASE k = i + 1
    <3>1. k + 1 \in i + 2 .. n + 1 /\ (k + 1) - 1 = i + 1 /\ i \in 1 .. n - 1
      BY <2>4, <1>1
    <3> QED BY <3>1, <2>4, <1>3, <1>4
  <2>5. CASE k > i + 1
    <3>1. /\ k + 1 \in i + 2 .. n + 1 /\ (k + 1) - 1 = (k - 1) + 1
          /\ k \in i + 2 .. n + 1 /\ k - 1 \in 1 .. n - 1
      BY <2>5, <1>1
    <3> QED BY <3>1, <1>3, <1>4
  <2> QED BY <2>1, <2>2, <2>3, <2>4, <2>5, <1>1
\* Each of the new pieces lies within an old one, and only the halves within the same.
<1> DEFINE Old(k) == IF k <= i THEN k ELSE k - 1
<1>8. ASSUME NEW k \in 1 .. n + 1
      PROVE  /\ Old(k) \in 1 .. n
             /\ qs[k].from >= ps[Old(k)].from /\ qs[k].to <= ps[Old(k)].to
             /\ qs[k].from \in Int /\ qs[k].to \in Int
  <2>1. Old(k) \in 1 .. n
    BY <1>1
  <2>2. CASE k < i
    <3>1. k \in 1 .. i - 1 /\ Old(k) = k
      BY <2>2, <1>1
    <3> QED BY <3>1, <2>1, <1>2, <1>3
  <2>3. CASE k = i
    BY <2>1, <2>3, <1>2, <1>3
  <2>4. CASE k = i + 1
    <3>1. Old(k) = i
      BY <2>4, <1>1
    <3> QED BY <3>1, <2>1, <2>4, <1>1, <1>2, <1>3
  <2>5. CASE k > i + 1
    <3>1. k \in i + 2 .. n + 1 /\ Old(k) = k - 1
      BY <2>5, <1>1
    <3> QED BY <3>1, <2>1, <1>2, <1>3
  <2> QED BY <2>2, <2>3, <2>4, <2>5, <1>1
<1>9. ASSUME NEW k \in 1 .. n + 1, NEW l \in 1 .. n + 1, k < l
      PROVE  qs[k].to < qs[l].from
  <2>1. CASE k = i /\ l = i + 1
    BY <2>1, <1>3
  <2>2. CASE ~(k = i /\ l = i + 1)
    <3>1. Old(k) < Old(l)
      BY <2>2, <1>1, <1>9
    <3>2. /\ Old(k) \in 1 .. n /\ qs[k].to <= ps[Old(k)].to /\ qs[k].to \in Int
          /\ Old(l) \in 1 .. n /\ qs[l].from >= ps[Old(l)].from /\ qs[l].from \in Int
      BY <1>8
    <3> HIDE DEF Old
    <3>3. ps[Old(k)].to < ps[Old(l)].from
      BY <3>1, <3>2, <1>4
    <3>4. ps[Old(k)].to \in Int /\ ps[Old(l)].from \in Int
      BY <3>2, <1>2
    <3>5. \A x, y, u, v \in Int : x <= u /\ u < v /\ y >= v => x < y
      OBVIOUS
    <3> QED BY <3>2, <3>3, <3>4, <3>5
  <2> QED BY <2>1, <2>2
<1>10. ASSUME NEW x \in start .. Tip
       PROVE  \E k \in 1 .. n + 1 : qs[k].from <= x /\ x <= qs[k].to
  <2>1. PICK k \in 1 .. n : ps[k].from <= x /\ x <= ps[k].to
    BY <1>4
  <2>2. CASE k < i
    <3>1. k \in 1 .. i - 1 /\ k \in 1 .. n + 1
      BY <2>2, <1>1
    <3> QED BY <3>1, <2>1, <1>3
  <2>3. CASE k = i /\ x <= mid
    <3>1. i \in 1 .. n + 1
      BY <1>1
    <3> QED BY <3>1, <2>1, <2>3, <1>3
  <2>4. CASE k = i /\ ~(x <= mid)
    <3>1. i + 1 \in 1 .. n + 1 /\ mid + 1 <= x
      BY <2>4, <1>1
    <3> QED BY <3>1, <2>1, <2>4, <1>3
  <2>5. CASE k > i
    <3>1. k + 1 \in i + 2 .. n + 1 /\ (k + 1) - 1 = k /\ k + 1 \in 1 .. n + 1
      BY <2>5, <1>1
    <3> QED BY <3>1, <2>1, <1>3
  <2> QED BY <2>2, <2>3, <2>4, <2>5, <1>1
<1>11. \A k \in 1 .. Len(qs) - 1 : qs[k + 1].from = qs[k].to + 1
  <2>1. 1 .. Len(qs) - 1 = 1 .. n
    BY <1>1, <1>3
  <2> QED BY <2>1, <1>7
<1>12. qs[Len(qs)].to = Tip
  BY <1>3, <1>6
<1>13. \A k, l \in 1 .. Len(qs) : k < l => qs[k].to < qs[l].from
  BY <1>3, <1>9
<1>14. \A x \in start .. Tip : \E k \in 1 .. Len(qs) : qs[k].from <= x /\ x <= qs[k].to
  BY <1>3, <1>10
<1> QED BY <1>3, <1>5, <1>11, <1>12, <1>13, <1>14 DEF Follows

-----------------------------------------------------------------------------
(* The proxy *)

\* A request for logs comes back as pruned only if it names blocks the public node has pruned.
LEMMA GoneIsPruned ==
    ASSUME NEW from \in Int, NEW to \in Int, NEW out \in LogOutcomes(from, to), isPruned(out)
    PROVE  from < kept
<1> DEFINE req == [kind |-> "logs", old |-> from < kept, subject |-> Subject]
           serve == IF Cardinality(LogsOf(from, to)) > Cap THEN {"width", "size"} ELSE {"ok"}
           list == upstreams(site, req)
<1>1. out \in Outcomes(site, req, serve) /\ out \in {"gone", "goneHistory"}
  BY DEF LogOutcomes, isPruned
<1>2. out \notin serve
  BY <1>1
<1> HIDE DEF serve, list
<1>3. PICK i \in DOMAIN list : \E a \in AnswersOf(list[i], req, serve) : out = Out(a)
  BY <1>1 DEF Outcomes, list
<1>4. out \in AnswersOf(list[i], req, serve)
  BY <1>1, <1>3 DEF Out
<1>5. req.kind = "logs" /\ (req.old => from < kept)
  OBVIOUS
<1> HIDE DEF req
<1>6. out \notin Faults
  BY <1>1 DEF Faults
<1>7. CASE list[i] = "index"
  BY <1>7, <1>1, <1>4 DEF AnswersOf
<1>8. CASE list[i] # "index" /\ ~(list[i] = "public" /\ req.old)
  <2>1. AnswersOf(list[i], req, serve) = Faults \cup serve
    BY <1>8 DEF AnswersOf
  <2> QED BY <2>1, <1>2, <1>4, <1>6
<1> QED BY <1>5, <1>7, <1>8

\* What is relayed is what the first upstream with a final answer says.
LEMMA RelayStops ==
    ASSUME NEW S, NEW answers \in Seq(S), answers # <<>>, NEW edge
    PROVE  LET relay == Relay(edge, answers) IN
           /\ relay.asked \in 1 .. Len(answers)
           /\ IsFinal(edge, Len(answers), relay.asked, answers[relay.asked])
           /\ \A j \in 1 .. relay.asked - 1 : ~IsFinal(edge, Len(answers), j, answers[j])
           /\ relay.out = Out(answers[relay.asked])
<1> DEFINE n == Len(answers)
           Stops(i) == /\ IsFinal(edge, n, i, answers[i])
                       /\ \A j \in 1 .. i - 1 : ~IsFinal(edge, n, j, answers[j])
           final == {i \in 1 .. n : IsFinal(edge, n, i, answers[i])}
<1>1. n \in Nat /\ n >= 1 /\ n \in final
  BY DEF IsFinal
<1>2. PICK i \in final : \A j \in final : i <= j
  <2>1. final \subseteq Nat /\ final # {}
    BY <1>1
  <2> HIDE DEF final
  <2> QED BY <2>1, LeastNat
<1>3. i \in 1 .. n /\ Stops(i)
  BY <1>1, <1>2
<1> DEFINE stop == CHOOSE k \in 1 .. n : Stops(k)
<1>4. stop \in 1 .. n /\ Stops(stop)
  BY <1>3
<1>5. Relay(edge, answers) = [asked |-> stop, out |-> Out(answers[stop])]
  BY DEF Relay
<1> QED BY <1>4, <1>5

-----------------------------------------------------------------------------
(* The invariant *)

LEMMA Floors == Tip \in Nat /\ NoFloor = Tip + 1 /\ Pending \subseteq 0 .. Tip + 1
BY LogSplitAssumption DEF NoFloor, Pending

\* No set of logs is mistaken for a piece without its answer.
LEMMA LogsAreNot ==
    ASSUME NEW from, NEW to
    PROVE  LogsOf(from, to) # Pending /\ LogsOf(from, to) \in SUBSET (0 .. Tip + 1)
<1>1. LogsOf(from, to) \subseteq 0 .. Tip /\ Tip \in Nat
  BY LogSplitAssumption DEF LogsOf
<1>2. Tip + 1 \in Pending /\ Tip + 1 \notin 0 .. Tip /\ 0 .. Tip \subseteq 0 .. Tip + 1
  BY <1>1 DEF Pending
<1> QED BY <1>1, <1>2

\* A query is one piece when it begins.
LEMMA Whole ==
    ASSUME NEW from \in 0 .. Tip
    PROVE  LET ps == <<Piece(from, Tip)>> IN
           /\ ps \in Seq(Pieces) /\ ps # <<>> /\ Len(ps) = 1
           /\ ps[1].from = from /\ ps[1].to = Tip /\ ps[1].tries = 0 /\ ps[1].got = Pending
           /\ Follows(ps, from)
<1>1. Piece(from, Tip) \in Pieces
  BY Floors, LogSplitAssumption DEF Pieces, Piece
<1>2. \A x \in from .. Tip : from <= x /\ x <= Tip
  BY Floors
<1> QED BY <1>1, <1>2, Floors DEF Follows, Piece

\* What holds of the pieces and of the control when a query begins.
LEMMA Begun ==
    ASSUME NEW from \in 0 .. Tip, Query(from), Start' = from
    PROVE  /\ pieces' \in Seq(Pieces) /\ pieces' # <<>>
           /\ \A i \in DOMAIN pieces' :
                 /\ pieces'[i].from \in 0 .. Tip /\ pieces'[i].to \in pieces'[i].from .. Tip
                 /\ pieces'[i].tries \in 0 .. ATTEMPTS - 1
           /\ Following' /\ Exact'
<1> DEFINE ps == <<Piece(from, Tip)>>
<1>1. pieces' = ps
  BY DEF Query
<1>2. /\ ps \in Seq(Pieces) /\ ps # <<>> /\ Len(ps) = 1
      /\ ps[1].from = from /\ ps[1].to = Tip /\ ps[1].tries = 0 /\ ps[1].got = Pending
      /\ Follows(ps, from)
  BY Whole
<1> HIDE DEF ps
<1>3. DOMAIN pieces' = {1}
  BY <1>1, <1>2
<1>4. \A i \in DOMAIN pieces' :
         /\ pieces'[i].from \in 0 .. Tip /\ pieces'[i].to \in pieces'[i].from .. Tip
         /\ pieces'[i].tries \in 0 .. ATTEMPTS - 1
  BY <1>1, <1>2, <1>3, Floors, LogSplitAssumption
<1>5. Following'
  BY <1>1, <1>2 DEF Following, Follows
<1>6. Exact'
  BY <1>1, <1>2, <1>3 DEF Exact, Open
<1> QED BY <1>1, <1>2, <1>4, <1>5, <1>6

LEMMA InitIInv == SplitInit => IInv
<1> SUFFICES ASSUME SplitInit PROVE IInv
  OBVIOUS
<1>1. pieces = <<>> /\ pieces \in Seq(Pieces) /\ DOMAIN pieces = {}
  BY DEF SplitInit
<1>2. Typed
  BY <1>1, Floors, LogSplitAssumption DEF SplitInit, Typed, SplitTypeOK
<1>3. Following /\ Exact
  BY <1>1 DEF Following, Exact
<1>4. Staged /\ Searched
  BY <1>1 DEF SplitInit, Staged, Searched
<1> QED BY <1>2, <1>3, <1>4 DEF IInv

\* The piece a request is made for.
LEMMA PieceOf ==
    ASSUME IInv, NEW i \in DOMAIN pieces
    PROVE  /\ i \in 1 .. Len(pieces) /\ pieces[i] \in Pieces /\ pieces # <<>>
           /\ pieces[i].from \in 0 .. Tip /\ pieces[i].to \in pieces[i].from .. Tip
           /\ pieces[i].tries \in 0 .. ATTEMPTS - 1
           /\ mode \in {"mint", "owner"} /\ progress \in {"whole", "tail", "done"}
           /\ Follows(pieces, Start) /\ Start \in 0 .. Tip
<1>1. i \in 1 .. Len(pieces) /\ pieces[i] \in Pieces /\ pieces # <<>>
  BY DEF IInv, Typed
<1>2. /\ pieces[i].from \in 0 .. Tip /\ pieces[i].to \in pieces[i].from .. Tip
      /\ pieces[i].tries \in 0 .. ATTEMPTS - 1
  BY DEF IInv, Typed, SplitTypeOK
<1>3. mode \in {"mint", "owner"} /\ progress \in {"whole", "tail", "done"}
  BY <1>1 DEF IInv, Typed, SplitTypeOK, Staged
<1>4. Start \in 0 .. Tip
  BY <1>1, <1>3, Floors DEF IInv, Typed, SplitTypeOK, Staged, Start
<1> QED BY <1>1, <1>2, <1>3, <1>4 DEF IInv, Following

\* A piece that is answered, or asked for again, stays where it was.
LEMMA Updated ==
    ASSUME IInv, NEW i \in DOMAIN pieces, NEW q \in Pieces,
           q.from = pieces[i].from, q.to = pieces[i].to,
           q.got = Pending \/ q.got = LogsOf(q.from, q.to),
           pieces' = [pieces EXCEPT ![i] = q],
           UNCHANGED <<mode, genesisFloor, truncatedAt>>
    PROVE  /\ pieces' \in Seq(Pieces) /\ pieces' # <<>> /\ DOMAIN pieces' = DOMAIN pieces
           /\ \A k \in DOMAIN pieces' :
                 /\ pieces'[k].from \in 0 .. Tip /\ pieces'[k].to \in pieces'[k].from .. Tip
                 /\ pieces'[k].tries \in 0 .. ATTEMPTS - 1
           /\ Following' /\ Exact'
<1>1. /\ i \in 1 .. Len(pieces) /\ pieces # <<>> /\ pieces \in Seq(Pieces)
      /\ Follows(pieces, Start)
  BY PieceOf DEF IInv, Typed
<1>2. /\ pieces' \in Seq(Pieces) /\ Len(pieces') = Len(pieces) /\ DOMAIN pieces' = DOMAIN pieces
      /\ pieces'[i] = q /\ \A k \in DOMAIN pieces : k # i => pieces'[k] = pieces[k]
  BY <1>1
<1>3. \A k \in 1 .. Len(pieces) :
         pieces'[k].from = pieces[k].from /\ pieces'[k].to = pieces[k].to
  BY <1>1, <1>2
<1>4. Start' = Start
  BY DEF Start
<1>5. pieces' # <<>> /\ Follows(pieces', Start)
  BY <1>1, <1>2, <1>3, SameRanges
<1>6. \A p \in Pieces : p.tries \in 0 .. ATTEMPTS - 1
  BY DEF Pieces
<1>7. \A k \in DOMAIN pieces' :
         /\ pieces'[k].from \in 0 .. Tip /\ pieces'[k].to \in pieces'[k].from .. Tip
         /\ pieces'[k].tries \in 0 .. ATTEMPTS - 1
  BY <1>1, <1>2, <1>3, <1>6 DEF IInv, Typed, SplitTypeOK
<1>8. Exact'
  <2> SUFFICES ASSUME NEW k \in DOMAIN pieces'
               PROVE  pieces'[k].got = Pending \/ pieces'[k].got = LogsOf(pieces'[k].from, pieces'[k].to)
    BY DEF Exact, Open
  <2>1. CASE k = i
    BY <2>1, <1>2
  <2>2. CASE k # i
    BY <2>2, <1>2 DEF IInv, Exact, Open
  <2> QED BY <2>1, <2>2
<1> QED BY <1>2, <1>4, <1>5, <1>7, <1>8 DEF Following

LEMMA AskOk ==
    ASSUME IInv, NEW i \in DOMAIN pieces, Open(i),
           Answered(i, LogsOf(pieces[i].from, pieces[i].to)),
           UNCHANGED <<site, kept, mode, lo, hi, genesisFloor, truncatedAt, read>>
    PROVE  IInv'
<1> DEFINE p == pieces[i]
           q == [p EXCEPT !.got = LogsOf(p.from, p.to)]
<1>1. /\ p \in Pieces /\ mode \in {"mint", "owner"} /\ progress \in {"whole", "tail", "done"}
      /\ pieces # <<>>
  BY PieceOf
<1>2. q \in Pieces /\ q.from = p.from /\ q.to = p.to /\ q.got = LogsOf(q.from, q.to)
  BY <1>1, LogsAreNot DEF Pieces
<1>3. pieces' = [pieces EXCEPT ![i] = q]
  BY DEF Answered
<1>4. pieces'[i] = q /\ \A k \in DOMAIN pieces : k # i => pieces'[k] = pieces[k]
  BY <1>3 DEF IInv, Typed
<1> HIDE DEF q, p
<1>5. /\ pieces' \in Seq(Pieces) /\ pieces' # <<>> /\ DOMAIN pieces' = DOMAIN pieces
      /\ \A k \in DOMAIN pieces' :
            /\ pieces'[k].from \in 0 .. Tip /\ pieces'[k].to \in pieces'[k].from .. Tip
            /\ pieces'[k].tries \in 0 .. ATTEMPTS - 1
      /\ Following' /\ Exact'
  BY <1>2, <1>3, Updated DEF p
<1>6. progress' \in {progress, "done"} /\ (progress' = "done" => \A k \in DOMAIN pieces : k # i => ~Open(k))
  <2>1. progress # "done"
    BY DEF IInv, Staged
  <2> QED BY <2>1 DEF Answered
<1>7. progress' = "done" => \A k \in DOMAIN pieces' : ~Open(k)'
  <2> SUFFICES ASSUME progress' = "done", NEW k \in DOMAIN pieces' PROVE pieces'[k].got # Pending
    BY DEF Open
  <2>1. CASE k = i
    BY <2>1, <1>2, <1>4, LogsAreNot
  <2>2. CASE k # i
    BY <2>2, <1>4, <1>5, <1>6 DEF Open
  <2> QED BY <2>1, <2>2
<1>8. Typed'
  BY <1>1, <1>5, <1>6 DEF IInv, Typed, SplitTypeOK
<1>9. Staged'
  BY <1>1, <1>5, <1>6, <1>7 DEF IInv, Staged
<1>10. Searched'
  BY <1>1, <1>6 DEF IInv, Searched
<1> QED BY <1>5, <1>8, <1>9, <1>10 DEF IInv

LEMMA AskAgain ==
    ASSUME IInv, NEW i \in DOMAIN pieces, Open(i), pieces[i].tries < ATTEMPTS - 1,
           pieces' = [pieces EXCEPT ![i].tries = @ + 1],
           UNCHANGED <<progress, site, kept, mode, lo, hi, genesisFloor, truncatedAt, read>>
    PROVE  IInv'
<1> DEFINE p == pieces[i]
           q == [p EXCEPT !.tries = @ + 1]
<1>1. /\ p \in Pieces /\ mode \in {"mint", "owner"} /\ progress \in {"whole", "tail", "done"}
      /\ pieces # <<>> /\ p.tries \in 0 .. ATTEMPTS - 1
  BY PieceOf
<1>2. q \in Pieces /\ q.from = p.from /\ q.to = p.to /\ q.got = Pending
  <2>1. p.tries + 1 \in 0 .. ATTEMPTS - 1
    BY <1>1, LogSplitAssumption
  <2> QED BY <1>1, <2>1 DEF Pieces, Open
<1>3. pieces' = [pieces EXCEPT ![i] = q]
  OBVIOUS
<1> HIDE DEF q, p
<1>5. /\ pieces' \in Seq(Pieces) /\ pieces' # <<>> /\ DOMAIN pieces' = DOMAIN pieces
      /\ \A k \in DOMAIN pieces' :
            /\ pieces'[k].from \in 0 .. Tip /\ pieces'[k].to \in pieces'[k].from .. Tip
            /\ pieces'[k].tries \in 0 .. ATTEMPTS - 1
      /\ Following' /\ Exact'
  BY <1>2, <1>3, Updated DEF p
<1>6. progress # "done"
  BY DEF IInv, Staged
<1>7. Typed'
  BY <1>1, <1>5 DEF IInv, Typed, SplitTypeOK
<1>8. Staged'
  BY <1>1, <1>5, <1>6 DEF IInv, Staged
<1>9. Searched'
  BY DEF IInv, Searched
<1> QED BY <1>5, <1>7, <1>8, <1>9 DEF IInv

\* A cut lies within its piece, whoever suggests it.
LEMMA CutInside ==
    ASSUME NEW p \in Pieces, NEW out, p.to - p.from >= 1, NEW mid \in Cuts(p, out)
    PROVE  mid \in 0 .. Tip /\ p.from <= mid /\ mid < p.to
<1>1. p.from \in 0 .. Tip /\ p.to \in 0 .. Tip /\ Tip \in Nat
  BY Floors DEF Pieces
<1>2. mid = p.from + (p.to - p.from) \div 2 \/ mid \in p.from + 1 .. p.to - 1
  BY DEF Cuts
<1>3. \A d \in Nat : d >= 1 => d \div 2 \in Nat /\ d \div 2 < d
  OBVIOUS
<1>4. p.to - p.from \in Nat
  BY <1>1
<1>5. (p.to - p.from) \div 2 \in Nat /\ (p.to - p.from) \div 2 < p.to - p.from
  BY <1>3, <1>4
<1> QED BY <1>1, <1>2, <1>5

LEMMA AskCut ==
    ASSUME IInv, NEW i \in DOMAIN pieces, Open(i), NEW out, Narrowed(pieces[i], out),
           NEW mid \in Cuts(pieces[i], out),
           pieces' = SubSeq(pieces, 1, i - 1) \o Split(pieces[i], mid) \o
                     SubSeq(pieces, i + 1, Len(pieces)),
           UNCHANGED <<progress, site, kept, mode, lo, hi, genesisFloor, truncatedAt, read>>
    PROVE  IInv'
<1> DEFINE p == pieces[i]
           a == Piece(p.from, mid)
           b == Piece(mid + 1, p.to)
<1>1. /\ i \in 1 .. Len(pieces) /\ p \in Pieces /\ p.from \in 0 .. Tip /\ p.to \in p.from .. Tip
      /\ mode \in {"mint", "owner"} /\ progress \in {"whole", "tail", "done"} /\ pieces # <<>>
      /\ Follows(pieces, Start) /\ Start \in 0 .. Tip
  BY PieceOf
<1>2. mid \in 0 .. Tip /\ p.from <= mid /\ mid < p.to
  BY <1>1, CutInside DEF Narrowed
<1>3. /\ a \in Pieces /\ a.from = p.from /\ a.to = mid /\ a.tries = 0 /\ a.got = Pending
      /\ b \in Pieces /\ b.from = mid + 1 /\ b.to = p.to /\ b.tries = 0 /\ b.got = Pending
  BY <1>1, <1>2, Floors, LogSplitAssumption, SMTT(30) DEF Piece, Pieces
<1>4. pieces' = SubSeq(pieces, 1, i - 1) \o <<a, b>> \o SubSeq(pieces, i + 1, Len(pieces))
  BY DEF Split
<1> HIDE DEF a, b
<1>5. pieces \in Seq(Pieces)
  BY DEF IInv, Typed
<1>6. InPlace(Pieces, pieces, i, a, b, pieces')
  <2>1. InPlace(Pieces, pieces, i, a, b,
                SubSeq(pieces, 1, i - 1) \o <<a, b>> \o SubSeq(pieces, i + 1, Len(pieces)))
    BY <1>1, <1>3, <1>5, Replaced
  <2> QED BY <2>1, <1>4
<1>7. pieces' # <<>> /\ Follows(pieces', Start)
  <2>1. Start \in Int /\ mid \in Int
    BY <1>1, <1>2, Floors
  <2> QED BY <1>1, <1>2, <1>3, <1>5, <1>6, <2>1, CutUp
<1> HIDE DEF p
\* Each piece there is now was one before or is one of the two halves.
<1>8. /\ pieces' \in Seq(Pieces) /\ Len(pieces') = Len(pieces) + 1
      /\ \A k \in 1 .. i - 1 : pieces'[k] = pieces[k]
      /\ pieces'[i] = a /\ pieces'[i + 1] = b
      /\ \A k \in i + 2 .. Len(pieces) + 1 : pieces'[k] = pieces[k - 1]
  BY <1>6 DEF InPlace
<1> DEFINE n == Len(pieces)
<1>8a. n \in Nat /\ i \in 1 .. n /\ DOMAIN pieces = 1 .. n /\ DOMAIN pieces' = 1 .. n + 1
  BY <1>1, <1>5, <1>8
<1>8b. /\ \A k \in 1 .. i - 1 : pieces'[k] = pieces[k]
       /\ \A k \in i + 2 .. n + 1 : pieces'[k] = pieces[k - 1]
  BY <1>8
<1> HIDE DEF n
<1>9. ASSUME NEW k \in DOMAIN pieces'
      PROVE  pieces'[k] \in {a, b} \/ \E l \in DOMAIN pieces : pieces'[k] = pieces[l]
  <2>0. k \in Int /\ 1 <= k /\ k <= n + 1 /\ i \in Int /\ 1 <= i /\ i <= n
    BY <1>8a
  <2>1. CASE k < i
    <3>1. k \in 1 .. i - 1 /\ k \in DOMAIN pieces
      BY <2>0, <2>1, <1>8a
    <3> QED BY <3>1, <1>8b
  <2>2. CASE k = i \/ k = i + 1
    BY <2>2, <1>8
  <2>3. CASE k > i + 1
    <3>1. k \in i + 2 .. n + 1 /\ k - 1 \in DOMAIN pieces
      BY <2>0, <2>3, <1>8a
    <3>2. pieces'[k] = pieces[k - 1]
      BY <3>1, <1>8b
    <3> QED BY <3>1, <3>2
  <2>4. k < i \/ (k = i \/ k = i + 1) \/ k > i + 1
    BY <2>0
  <2> QED BY <2>1, <2>2, <2>3, <2>4, Zenon
<1>10. \A k \in DOMAIN pieces' :
          /\ pieces'[k].from \in 0 .. Tip /\ pieces'[k].to \in pieces'[k].from .. Tip
          /\ pieces'[k].tries \in 0 .. ATTEMPTS - 1
  <2>1. \A q \in {a, b} : /\ q.from \in 0 .. Tip /\ q.to \in q.from .. Tip
                         /\ q.tries \in 0 .. ATTEMPTS - 1
    <3>1. /\ mid + 1 \in 0 .. Tip /\ p.to \in mid + 1 .. Tip /\ mid \in p.from .. Tip
          /\ p.to \in 0 .. Tip /\ 0 \in 0 .. ATTEMPTS - 1
      BY <1>1, <1>2, Floors, LogSplitAssumption, SMTT(30)
    <3> QED BY <1>1, <1>2, <1>3, <3>1
  <2> QED BY <1>9, <2>1 DEF IInv, Typed, SplitTypeOK
<1>11. Exact'
  <2> SUFFICES ASSUME NEW k \in DOMAIN pieces'
               PROVE  pieces'[k].got = Pending \/ pieces'[k].got = LogsOf(pieces'[k].from, pieces'[k].to)
    BY DEF Exact, Open
  <2> QED BY <1>3, <1>9 DEF IInv, Exact, Open
<1>12. Following'
  BY <1>7 DEF Following, Start
<1>13. progress # "done"
  BY DEF IInv, Staged
<1>14. Typed'
  BY <1>8, <1>10 DEF IInv, Typed, SplitTypeOK
<1>15. Staged'
  BY <1>1, <1>7, <1>13 DEF IInv, Staged
<1>16. Searched'
  BY DEF IInv, Searched
<1> QED BY <1>11, <1>12, <1>14, <1>15, <1>16 DEF IInv

\* A query that was refused because its blocks are gone was so for a block that is.
LEMMA AskFailed ==
    ASSUME IInv, NEW i \in DOMAIN pieces, NEW out \in LogOutcomes(pieces[i].from, pieces[i].to),
           Rejected(out),
           UNCHANGED <<site, kept, mode, genesisFloor, truncatedAt, read>>
    PROVE  IInv'
<1>1. /\ pieces[i].from \in 0 .. Tip /\ pieces[i].to \in pieces[i].from .. Tip
      /\ mode \in {"mint", "owner"} /\ Tip \in Nat /\ kept \in 0 .. MaxKept
      /\ kept \in Nat
  BY PieceOf, Floors, LogSplitAssumption DEF IInv, Typed, SplitTypeOK
<1>2. pieces' = <<>> /\ pieces' \in Seq(Pieces) /\ DOMAIN pieces' = {}
  BY DEF Rejected
<1>3. Following' /\ Exact'
  BY <1>2 DEF Following, Exact
<1>4. CASE isPruned(out) /\ mode = "mint" /\ progress = "whole"
  <2>1. progress' = "probe" /\ lo' = 0 /\ hi' = Tip
    BY <1>4 DEF Rejected
  <2>2. 0 < kept
    <3>1. pieces[i].from \in Int /\ pieces[i].to \in Int
      BY <1>1
    <3>2. pieces[i].from < kept
      BY <1>4, <3>1, GoneIsPruned
    <3> QED BY <1>1, <3>2
  <2>3. Typed'
    BY <1>1, <1>2, <2>1 DEF IInv, Typed, SplitTypeOK
  <2>4. Staged'
    BY <1>1, <1>2, <1>4, <2>1 DEF IInv, Staged
  <2>5. Searched'
    BY <2>1, <2>2 DEF IInv, Searched
  <2> QED BY <1>3, <2>3, <2>4, <2>5 DEF IInv
<1>5. CASE ~(isPruned(out) /\ mode = "mint" /\ progress = "whole")
  <2>1. progress' = "failed" /\ UNCHANGED <<lo, hi>>
    BY <1>5 DEF Rejected
  <2>2. Typed'
    BY <1>2, <2>1 DEF IInv, Typed, SplitTypeOK
  <2>3. Staged'
    BY <1>1, <1>2, <2>1 DEF IInv, Staged
  <2>4. Searched'
    BY <2>1 DEF IInv, Searched
  <2> QED BY <1>3, <2>2, <2>3, <2>4 DEF IInv
<1> QED BY <1>4, <1>5

LEMMA AskStep == ASSUME IInv, NEW i \in DOMAIN pieces, Ask(i) PROVE IInv'
<1>1. /\ Open(i)
      /\ \E out \in LogOutcomes(pieces[i].from, pieces[i].to) :
            \/ /\ Answered(i, LogsOf(pieces[i].from, pieces[i].to))
               /\ UNCHANGED <<lo, hi>>
            \/ /\ Narrowed(pieces[i], out)
               /\ \E mid \in Cuts(pieces[i], out) :
                     pieces' = SubSeq(pieces, 1, i - 1) \o Split(pieces[i], mid) \o
                               SubSeq(pieces, i + 1, Len(pieces))
               /\ UNCHANGED <<progress, lo, hi>>
            \/ /\ pieces[i].tries < ATTEMPTS - 1
               /\ pieces' = [pieces EXCEPT ![i].tries = @ + 1]
               /\ UNCHANGED <<progress, lo, hi>>
            \/ Rejected(out)
      /\ UNCHANGED <<site, kept, mode, genesisFloor, truncatedAt, read>>
  BY DEF Ask
<1>2. CASE Answered(i, LogsOf(pieces[i].from, pieces[i].to)) /\ UNCHANGED <<lo, hi>>
  BY <1>1, <1>2, AskOk
<1>3. CASE /\ pieces[i].tries < ATTEMPTS - 1
           /\ pieces' = [pieces EXCEPT ![i].tries = @ + 1]
           /\ UNCHANGED <<progress, lo, hi>>
  BY <1>1, <1>3, AskAgain
<1>4. ASSUME NEW out, Narrowed(pieces[i], out), NEW mid \in Cuts(pieces[i], out),
             pieces' = SubSeq(pieces, 1, i - 1) \o Split(pieces[i], mid) \o
                       SubSeq(pieces, i + 1, Len(pieces)),
             UNCHANGED <<progress, lo, hi>>
      PROVE  IInv'
  BY <1>1, <1>4, AskCut
<1>5. ASSUME NEW out \in LogOutcomes(pieces[i].from, pieces[i].to), Rejected(out)
      PROVE  IInv'
  BY <1>1, <1>5, AskFailed
<1> QED BY <1>1, <1>2, <1>3, <1>4, <1>5

\* What findLogFloor comes back with is a floor of the query that follows.
LEMMA FoundStep ==
    ASSUME IInv, NEW floor \in 0 .. Tip, Found(floor), progress \in {"probe0", "probe"},
           floor = 0 \/ floor < kept + Tolerance,
           progress = "probe0" => mode = "owner",
           UNCHANGED <<site, kept, mode, lo, hi, read>>
    PROVE  IInv'
<1>1. /\ mode \in {"mint", "owner"} /\ progress' = "tail" /\ Query(floor)
      /\ genesisFloor' = IF mode = "owner" THEN floor ELSE genesisFloor
      /\ truncatedAt' = IF mode = "mint" THEN floor ELSE truncatedAt
  BY DEF Found, IInv, Typed, Staged
<1>2. floor \in 0 .. NoFloor /\ floor # NoFloor
  BY Floors
<1>3. Start' = floor
  BY <1>1, <1>2 DEF Start
<1>4. /\ pieces' \in Seq(Pieces) /\ pieces' # <<>>
      /\ \A i \in DOMAIN pieces' :
            /\ pieces'[i].from \in 0 .. Tip /\ pieces'[i].to \in pieces'[i].from .. Tip
            /\ pieces'[i].tries \in 0 .. ATTEMPTS - 1
      /\ Following' /\ Exact'
  BY <1>1, <1>3, Begun
<1>5. Typed'
  BY <1>1, <1>2, <1>4 DEF IInv, Typed, SplitTypeOK
<1>6. Staged'
  BY <1>1, <1>2, <1>4 DEF IInv, Staged
<1>7. Searched'
  BY <1>1 DEF IInv, Searched
<1> QED BY <1>4, <1>5, <1>6, <1>7 DEF IInv

LEMMA ProbeStep == ASSUME IInv, Probe PROVE IInv'
<1>1. /\ progress = "probe" /\ lo \in 0 .. Tip /\ hi \in lo .. Tip /\ lo < kept /\ Tip \in Nat
      /\ kept \in Nat /\ Tolerance \in Nat \ {0} /\ ProbeWidth \in Nat
      /\ UNCHANGED <<site, kept, mode, read>>
  BY Floors, LogSplitAssumption DEF Probe, IInv, Typed, SplitTypeOK, Searched
<1>2. CASE hi - lo <= Tolerance
  <2>1. Found(hi) /\ UNCHANGED <<lo, hi>>
    BY <1>2 DEF Probe
  <2>2. hi \in 0 .. Tip /\ hi < kept + Tolerance
    BY <1>1, <1>2
  <2> QED BY <1>1, <2>1, <2>2, FoundStep
<1>3. CASE ~(hi - lo <= Tolerance)
  <2> DEFINE mid == lo + (hi - lo) \div 2
  <2>1. mid \in Int /\ mid \in lo .. hi /\ mid \in 0 .. Tip
    <3>1. \A d \in Nat : d \div 2 \in Nat /\ d \div 2 <= d
      OBVIOUS
    <3>2. hi - lo \in Nat
      BY <1>1
    <3>3. (hi - lo) \div 2 \in Nat /\ (hi - lo) \div 2 <= hi - lo
      BY <3>1, <3>2
    <3> QED BY <1>1, <3>3
  <2>2. PICK out \in LogOutcomes(mid, mid + ProbeWidth) :
           \/ hi' = mid /\ UNCHANGED <<lo, progress>>
           \/ Verdict(out) = "gone" /\ lo' = mid /\ UNCHANGED <<hi, progress>>
           \/ progress' = "failed" /\ UNCHANGED <<lo, hi>>
    BY <1>3 DEF Probe
  <2>3. UNCHANGED <<pieces, genesisFloor, truncatedAt>>
    BY <1>3 DEF Probe
  <2> HIDE DEF mid
  <2>4. Verdict(out) = "gone" => mid < kept
    <3>1. Verdict(out) = "gone" => isPruned(out)
      BY DEF Verdict
    <3>2. mid + ProbeWidth \in Int
      BY <1>1, <2>1
    <3> QED BY <2>1, <3>1, <3>2, GoneIsPruned
  <2>5. pieces = <<>>
    BY <1>1 DEF IInv, Staged
  <2>6. Typed'
    BY <1>1, <2>1, <2>2, <2>3 DEF IInv, Typed, SplitTypeOK
  <2>7. Following' /\ Exact'
    BY <2>3, <2>5 DEF Following, Exact
  <2>8. Staged'
    BY <1>1, <2>2, <2>3, <2>5 DEF IInv, Staged
  <2>9. Searched'
    BY <1>1, <2>2, <2>3, <2>4 DEF IInv, Searched
  <2> QED BY <2>6, <2>7, <2>8, <2>9 DEF IInv
<1> QED BY <1>2, <1>3

LEMMA ProbeGenesisStep == ASSUME IInv, ProbeGenesis PROVE IInv'
<1>1. /\ progress = "probe0" /\ mode = "owner" /\ pieces = <<>> /\ Tip \in Nat /\ kept \in Nat
      /\ ProbeWidth \in Nat /\ UNCHANGED <<site, kept, mode, read>>
  BY Floors, LogSplitAssumption DEF ProbeGenesis, IInv, Typed, SplitTypeOK, Staged
<1>2. PICK out \in LogOutcomes(0, ProbeWidth) :
         \/ Found(0) /\ UNCHANGED <<lo, hi>>
         \/ /\ Verdict(out) = "gone" /\ progress' = "probe" /\ lo' = 0 /\ hi' = Tip
            /\ UNCHANGED <<pieces, genesisFloor, truncatedAt>>
         \/ /\ progress' = "failed"
            /\ UNCHANGED <<pieces, lo, hi, genesisFloor, truncatedAt>>
  BY DEF ProbeGenesis
<1>3. CASE Found(0) /\ UNCHANGED <<lo, hi>>
  <2>1. 0 \in 0 .. Tip
    BY <1>1
  <2> QED BY <1>1, <1>3, <2>1, FoundStep
<1>4. CASE /\ Verdict(out) = "gone" /\ progress' = "probe" /\ lo' = 0 /\ hi' = Tip
           /\ UNCHANGED <<pieces, genesisFloor, truncatedAt>>
  <2>1. 0 < kept
    <3>1. isPruned(out)
      BY <1>4 DEF Verdict
    <3>2. 0 \in Int /\ ProbeWidth \in Int
      BY <1>1
    <3> QED BY <3>1, <3>2, GoneIsPruned
  <2>2. Typed'
    BY <1>1, <1>4 DEF IInv, Typed, SplitTypeOK
  <2>3. Following' /\ Exact'
    BY <1>1, <1>4 DEF Following, Exact
  <2>4. Staged'
    BY <1>1, <1>4 DEF IInv, Staged
  <2>5. Searched'
    BY <1>1, <1>4, <2>1 DEF IInv, Searched
  <2> QED BY <2>2, <2>3, <2>4, <2>5 DEF IInv
<1>5. CASE progress' = "failed" /\ UNCHANGED <<pieces, lo, hi, genesisFloor, truncatedAt>>
  <2>1. Typed' /\ Following' /\ Exact'
    BY <1>1, <1>5 DEF IInv, Typed, SplitTypeOK, Following, Exact
  <2>2. Staged' /\ Searched'
    BY <1>1, <1>5 DEF IInv, Staged, Searched
  <2> QED BY <2>1, <2>2 DEF IInv
<1> QED BY <1>2, <1>3, <1>4, <1>5

LEMMA QueryStep == ASSUME IInv, SearchMint \/ ReadOwners PROVE IInv'
<1>1. UNCHANGED <<site, kept, mode, lo, hi, genesisFloor, truncatedAt, read>>
  BY DEF SearchMint, ReadOwners
<1>2. ASSUME NEW from \in 0 .. Tip, Query(from), Start' = from, progress' \in {"whole", "tail"},
             progress' = "whole" => mode = "mint" /\ truncatedAt = NoFloor,
             mode = "owner" => genesisFloor # NoFloor, mode # "point"
      PROVE  IInv'
  <2>1. /\ pieces' \in Seq(Pieces) /\ pieces' # <<>>
        /\ \A i \in DOMAIN pieces' :
              /\ pieces'[i].from \in 0 .. Tip /\ pieces'[i].to \in pieces'[i].from .. Tip
              /\ pieces'[i].tries \in 0 .. ATTEMPTS - 1
        /\ Following' /\ Exact'
    BY <1>2, Begun
  <2>2. Typed'
    BY <1>1, <1>2, <2>1 DEF IInv, Typed, SplitTypeOK
  <2>3. Staged'
    BY <1>1, <1>2, <2>1 DEF IInv, Staged
  <2>4. Searched'
    BY <1>1, <1>2 DEF IInv, Searched
  <2> QED BY <2>1, <2>2, <2>3, <2>4 DEF IInv
<1>3. CASE SearchMint
  <2>1. /\ mode = "mint" /\ truncatedAt = NoFloor /\ progress' = "whole" /\ Query(0)
        /\ 0 \in 0 .. Tip
    BY <1>3, Floors DEF SearchMint, IInv, Staged
  <2>2. Start' = 0
    BY <1>1, <2>1 DEF Start
  <2> QED BY <1>2, <2>1, <2>2
<1>4. CASE ReadOwners /\ genesisFloor = NoFloor
  <2>1. mode = "owner" /\ progress' = "probe0" /\ UNCHANGED pieces /\ pieces = <<>>
    BY <1>4 DEF ReadOwners, IInv, Staged
  <2>2. Typed' /\ Following' /\ Exact'
    BY <1>1, <2>1 DEF IInv, Typed, SplitTypeOK, Following, Exact
  <2>3. Staged' /\ Searched'
    BY <1>1, <1>4, <2>1 DEF IInv, Staged, Searched
  <2> QED BY <2>2, <2>3 DEF IInv
<1>5. CASE ReadOwners /\ genesisFloor # NoFloor
  <2>1. mode = "owner" /\ progress' = "tail" /\ Query(genesisFloor) /\ genesisFloor \in 0 .. Tip
    BY <1>5, Floors DEF ReadOwners, IInv, Typed, SplitTypeOK
  <2>2. Start' = genesisFloor
    BY <1>1, <2>1 DEF Start
  <2> QED BY <1>2, <1>5, <2>1, <2>2
<1> QED BY <1>3, <1>4, <1>5

LEMMA ReadPinnedStep == ASSUME IInv, ReadPinned PROVE IInv'
<1>1. /\ mode = "point" /\ progress = "idle" /\ progress' = "done" /\ pieces = <<>>
      /\ UNCHANGED <<site, kept, mode, pieces, lo, hi, genesisFloor, truncatedAt>>
  BY DEF ReadPinned, IInv, Staged
<1>2. Typed' /\ Following' /\ Exact'
  BY <1>1 DEF IInv, Typed, SplitTypeOK, Following, Exact
<1>3. Staged' /\ Searched'
  BY <1>1 DEF IInv, Staged, Searched
<1> QED BY <1>2, <1>3 DEF IInv

\* What is gone stays gone.
LEMMA PruneStep == ASSUME IInv, Prune PROVE IInv'
<1>1. /\ kept' = kept + 1 /\ kept \in Nat /\ kept' \in 0 .. MaxKept
      /\ UNCHANGED <<site, mode, progress, pieces, lo, hi, genesisFloor, truncatedAt, read>>
  BY LogSplitAssumption DEF Prune, IInv, Typed, SplitTypeOK
<1>2. Typed'
  BY <1>1 DEF IInv, Typed, SplitTypeOK
<1>3. Following' /\ Exact'
  BY <1>1 DEF IInv, Following, Start, Exact, Open
<1>4. Staged'
  BY <1>1 DEF IInv, Staged, Open
<1>5. Searched'
  <2>1. \A x \in Nat : x < kept => x < kept'
    BY <1>1
  <2>2. \A x \in Nat : x < kept + Tolerance => x < kept' + Tolerance
    BY <1>1, LogSplitAssumption
  <2>3. lo \in Nat /\ truncatedAt \in Nat /\ genesisFloor \in Nat
    BY Floors DEF IInv, Typed, SplitTypeOK
  <2> QED BY <1>1, <2>1, <2>2, <2>3 DEF IInv, Searched
<1> QED BY <1>2, <1>3, <1>4, <1>5 DEF IInv

LEMMA IInvStutter == ASSUME IInv, UNCHANGED splitVars PROVE IInv'
<1>1. Typed' /\ Following' /\ Exact'
  BY DEF IInv, splitVars, Typed, SplitTypeOK, Following, Start, Exact, Open
<1>2. Staged' /\ Searched'
  BY DEF IInv, splitVars, Staged, Searched, Open
<1> QED BY <1>1, <1>2 DEF IInv

LEMMA IInvStep == IInv /\ [SplitNext]_splitVars => IInv'
BY AskStep, ProbeStep, ProbeGenesisStep, QueryStep, ReadPinnedStep, PruneStep, IInvStutter
   DEF SplitNext, Request

\* The inductive invariant of the split queries and of the search for a floor.
THEOREM SplitInv == SplitSpec => []IInv
<1>1. SplitInit => IInv
  BY InitIInv
<1>2. IInv /\ [SplitNext]_splitVars => IInv'
  BY IInvStep
<1> QED BY <1>1, <1>2, PTL DEF SplitSpec

-----------------------------------------------------------------------------
(* What the invariant gives *)

LEMMA IInvOnce == IInv => EveryBlockOnce
BY DEF IInv, Following, Follows, EveryBlockOnce, Last

LEMMA IInvExact == IInv => LogsExact
<1> SUFFICES ASSUME IInv, progress = "done", mode # "point" PROVE LogsExact
  BY DEF LogsExact
<1>1. pieces # <<>> /\ pieces \in Seq(Pieces) /\ \A i \in DOMAIN pieces : ~Open(i)
  BY DEF IInv, Typed, Staged
<1>2. /\ Len(pieces) \in Nat /\ 1 <= Len(pieces) /\ DOMAIN pieces = 1 .. Len(pieces)
      /\ 1 \in DOMAIN pieces
  BY <1>1
<1>3. \A i \in DOMAIN pieces :
        /\ pieces[i].from \in 0 .. Tip /\ pieces[i].to \in pieces[i].from .. Tip
        /\ pieces[i].got = LogsOf(pieces[i].from, pieces[i].to)
  BY <1>1 DEF IInv, Typed, SplitTypeOK, Exact
<1>4. Follows(pieces, Start) /\ Start \in 0 .. Tip /\ Tip \in Nat /\ Logs \subseteq 0 .. Tip
  BY <1>1, <1>2, PieceOf, Floors, LogSplitAssumption
<1>5. /\ pieces[1].from = Start
      /\ \A i, j \in DOMAIN pieces : i < j => pieces[i].to < pieces[j].from
      /\ \A b \in Start .. Tip : \E i \in DOMAIN pieces : pieces[i].from <= b /\ b <= pieces[i].to
  BY <1>2, <1>4 DEF Follows
<1>6. ASSUME NEW i \in DOMAIN pieces PROVE Start <= pieces[i].from
  <2>1. CASE i = 1
    BY <2>1, <1>4, <1>5
  <2>2. CASE i # 1
    <3>1. pieces[1].to < pieces[i].from /\ pieces[1].to \in Start .. Tip
      BY <2>2, <1>2, <1>3, <1>5
    <3>2. pieces[i].from \in 0 .. Tip
      BY <1>3
    <3> QED BY <3>1, <3>2, <1>4
  <2> QED BY <2>1, <2>2
<1>7. UNION {pieces[i].got : i \in DOMAIN pieces} = LogsOf(Start, Tip)
  <2>1. ASSUME NEW i \in DOMAIN pieces, NEW b \in pieces[i].got PROVE b \in LogsOf(Start, Tip)
    <3>1. b \in Logs /\ pieces[i].from <= b /\ b <= pieces[i].to
      BY <1>3 DEF LogsOf
    <3>2. b \in 0 .. Tip /\ Start <= b
      BY <3>1, <1>3, <1>4, <1>6
    <3> QED BY <3>1, <3>2 DEF LogsOf
  <2>2. ASSUME NEW b \in LogsOf(Start, Tip) PROVE \E i \in DOMAIN pieces : b \in pieces[i].got
    <3>1. b \in Logs /\ b \in Start .. Tip
      BY <1>4 DEF LogsOf
    <3>2. PICK i \in DOMAIN pieces : pieces[i].from <= b /\ b <= pieces[i].to
      BY <3>1, <1>5
    <3>3. b \in pieces[i].got
      BY <3>1, <3>2, <1>3 DEF LogsOf
    <3> QED BY <3>3
  <2> QED BY <2>1, <2>2
<1>8. ASSUME NEW i \in DOMAIN pieces, NEW j \in DOMAIN pieces, i < j,
             NEW a \in pieces[i].got, NEW b \in pieces[j].got
      PROVE  a < b
  <2>1. a \in Logs /\ a <= pieces[i].to /\ b \in Logs /\ pieces[j].from <= b
    BY <1>3 DEF LogsOf
  <2>2. pieces[i].to < pieces[j].from
    BY <1>5, <1>8
  <2>3. a \in Int /\ b \in Int /\ pieces[i].to \in Int /\ pieces[j].from \in Int
    BY <2>1, <1>3, <1>4
  <2> QED BY <2>1, <2>2, <2>3
<1> QED BY <1>7, <1>8 DEF LogsExact

\* SplitSpec keeps the pieces of a split query and their answers sound (rpc-logs.ts,
\* getLogsChunked): whatever way and however often it is cut, it asks for each block of its
\* range once, and what it ends with is every log of the range, in order.
THEOREM QueryIsSound == SplitSpec => []QuerySound
<1>1. IInv => QuerySound
  BY IInvOnce, IInvExact DEF IInv, Typed, QuerySound
<1> QED BY <1>1, SplitInv, PTL

\* SplitSpec keeps it so that a search leaves out only what the public node has pruned, but for
\* the tolerance of findLogFloor (rpc-logs.ts).
THEOREM OnlyGoneMissing == SplitSpec => []OnlyTheGoneIsMissing
<1>1. IInv => OnlyTheGoneIsMissing
  <2> SUFFICES ASSUME IInv, NEW floor \in {truncatedAt, genesisFloor}, floor # NoFloor,
                      NEW b \in Logs, b < floor
               PROVE  b < kept + Tolerance
    BY DEF OnlyTheGoneIsMissing
  <2>1. floor = 0 \/ floor < kept + Tolerance
    BY DEF IInv, Searched
  <2>2. b \in Nat /\ floor \in Nat /\ kept + Tolerance \in Int
    BY Floors, LogSplitAssumption DEF IInv, Typed, SplitTypeOK
  <2> QED BY <2>1, <2>2
<1> QED BY <1>1, SplitInv, PTL

-----------------------------------------------------------------------------
(* The read of pinned state *)

\* A request for pinned state has no part in the index.
LEMMA PinnedList ==
    ASSUME NEW old, NEW req, req = [kind |-> "pinned", old |-> old, subject |-> Subject],
           NEW serve, NEW ex \in Exchanges(site, req, serve)
    PROVE  /\ ex.list = upstreams(site, req)
           /\ ex.answers \in [DOMAIN ex.list -> UNION {AnswersOf(ex.list[i], req, serve) : i \in DOMAIN ex.list}]
           /\ \A i \in DOMAIN ex.list : ex.answers[i] \in AnswersOf(ex.list[i], req, serve)
           /\ ex.relay = Relay(site.edge, ex.answers)
BY DEF Exchanges

LEMMA UpstreamNames ==
    ASSUME NEW req
    PROVE  resolveChainUpstreams(site, isLaneRequest(req)) \in Seq({"wallet", "public", "paid"})
<1> DEFINE Names == {"wallet", "public", "paid"}
           has == site.has
           lane == isLaneRequest(req)
           first == IF lane /\ "wallet" \in has THEN <<"wallet">> ELSE <<>>
           last == IF "paid" \in has THEN <<"paid">> ELSE <<>>
<1>0. /\ <<"wallet">> \in Seq(Names) /\ <<"public">> \in Seq(Names) /\ <<"paid">> \in Seq(Names)
      /\ <<>> \in Seq(Names)
  OBVIOUS
<1>1. first \in Seq(Names) /\ last \in Seq(Names) /\ <<"public">> \in Seq(Names)
  BY <1>0, Zenon
<1> HIDE DEF first, last, Names
<1>2. first \o <<"public">> \o last \in Seq(Names)
  BY <1>1, ConcatProperties, Zenon
<1>3. <<>> \in Seq(Names)
  OBVIOUS
<1>4. orderUpstreams(has, lane) = first \o <<"public">> \o last
  BY DEF orderUpstreams, first, last
<1> QED BY <1>2, <1>3, <1>4 DEF resolveChainUpstreams, Names

LEMMA ListIsSeq ==
    ASSUME NEW req, req.kind = "pinned"
    PROVE  \E n \in Nat : DOMAIN upstreams(site, req) = 1 .. n
<1> DEFINE list == resolveChainUpstreams(site, isLaneRequest(req))
           allowed == isAllowlistedSubject(req.subject, site.list)
<1>1. list \in Seq({"wallet", "public", "paid"})
  BY UpstreamNames
<1>2. tryArcLogsViaEtherscan(site, req) = <<>>
  BY DEF tryArcLogsViaEtherscan
<1> HIDE DEF list
<1>3. restrictUpstreams(list, allowed) \in Seq({"wallet", "public", "paid"})
  <2>1. CASE allowed
    BY <1>1, <2>1 DEF restrictUpstreams
  <2>2. CASE ~allowed
    <3>1. Cardinality({j \in DOMAIN list : list[j] = "public"}) \in Nat
      <4>1. IsFiniteSet(DOMAIN list)
        BY <1>1, FS_Interval
      <4> QED BY <4>1, FS_Subset, FS_CardinalityType
    <3> QED BY <2>2, <3>1 DEF restrictUpstreams
  <2> QED BY <2>1, <2>2
<1>4. upstreams(site, req) \in Seq({"wallet", "public", "paid"})
  BY <1>1, <1>2, <1>3 DEF upstreams, list
<1> QED BY <1>4

\* For a stranger the edge has the public endpoint alone.
LEMMA StrangersList ==
    ASSUME NEW req, req.kind = "pinned", site.edge, ~isAllowlistedSubject(req.subject, site.list)
    PROVE  \A i \in DOMAIN upstreams(site, req) : upstreams(site, req)[i] = "public"
<1> DEFINE list == resolveChainUpstreams(site, isLaneRequest(req))
           n == Cardinality({j \in DOMAIN list : list[j] = "public"})
           only == [i \in 1 .. n |-> "public"]
<1>1. CASE list = <<>>
  <2>1. upstreams(site, req) = <<>>
    BY <1>1 DEF upstreams
  <2> QED BY <2>1
<1>2. CASE list # <<>>
  <2>1. upstreams(site, req) = <<>> \o only
    BY <1>2 DEF upstreams, tryArcLogsViaEtherscan, restrictUpstreams
  <2>2. only \in Seq({"public"})
    <3>1. list \in Seq({"wallet", "public", "paid"})
      BY UpstreamNames
    <3> HIDE DEF list
    <3>2. n \in Nat
      <4>1. IsFiniteSet(DOMAIN list)
        BY <3>1, FS_Interval
      <4> QED BY <4>1, FS_Subset, FS_CardinalityType
    <3> QED BY <3>2
  <2> HIDE DEF only
  <2>3. upstreams(site, req) \in Seq({"public"})
    BY <2>1, <2>2
  <2> QED BY <2>3
<1> QED BY <1>1, <1>2

\* On the edge every answer in the words of pruned state is passed on to the next endpoint,
\* and an answer that is one is not.
LEMMA EdgeSpills ==
    ASSUME NEW edge, edge
    PROVE  /\ ~Spills(edge, "ok")
           /\ \A a : isPrunedStateFailure(a) => Spills(edge, a)
BY DEF Spills, spillReason, isPrunedStateFailure

\* One read of pinned state, from what it may come back as.
LEMMA ReadIsRight ==
    ASSUME NEW old, NEW serve \in {{"ok"}, {"gone", "goneHash"}}, NEW ex,
           ex \in Exchanges(site, [kind |-> "pinned", old |-> old, subject |-> Subject], serve)
    PROVE  /\ site.edge /\ ~isAllowlistedSubject(Subject, site.list) =>
                 \A i \in 1 .. ex.relay.asked : ex.list[i] = "public"
           /\ site.edge /\ isPrunedStateFailure(ex.relay.out) =>
                 \A i \in DOMAIN ex.answers : ex.answers[i] # "ok"
<1> DEFINE req == [kind |-> "pinned", old |-> old, subject |-> Subject]
           S == UNION {AnswersOf(ex.list[i], req, serve) : i \in DOMAIN ex.list}
           answers == ex.answers
           list == ex.list
<1>1. /\ list = upstreams(site, req)
      /\ answers \in [DOMAIN list -> UNION {AnswersOf(list[i], req, serve) : i \in DOMAIN list}]
      /\ \A i \in DOMAIN list : answers[i] \in AnswersOf(list[i], req, serve)
      /\ ex.relay = Relay(site.edge, answers)
  BY PinnedList
<1>2. req.kind = "pinned" /\ req.subject = Subject
  OBVIOUS
<1> HIDE DEF req
<1>3. PICK n \in Nat : DOMAIN list = 1 .. n
  BY <1>1, <1>2, ListIsSeq
<1>4. answers \in Seq(S) /\ Len(answers) = n
  <2>1. answers \in [1 .. n -> S]
    BY <1>1, <1>3
  <2> HIDE DEF S
  <2> QED BY <2>1
<1> HIDE DEF answers, list, S
<1>5. CASE answers = <<>>
  <2>1. ex.relay.asked = 0 /\ DOMAIN answers = {}
    BY <1>1, <1>5 DEF Relay
  <2> QED BY <2>1 DEF answers, list
<1>6. CASE answers # <<>>
  <2> DEFINE k == ex.relay.asked
  <2>1. /\ k \in 1 .. n
        /\ IsFinal(site.edge, n, k, answers[k])
        /\ \A j \in 1 .. k - 1 : ~IsFinal(site.edge, n, j, answers[j])
        /\ ex.relay.out = Out(answers[k])
    BY <1>1, <1>4, <1>6, RelayStops
  <2> HIDE DEF k
  <2>2. ASSUME site.edge, ~isAllowlistedSubject(Subject, site.list), NEW i \in 1 .. k
        PROVE  list[i] = "public"
    <3>1. i \in DOMAIN list
      BY <1>3, <2>1
    <3> QED BY <1>1, <1>2, <2>2, <3>1, StrangersList
  <2>3. ASSUME site.edge, isPrunedStateFailure(ex.relay.out), NEW i \in DOMAIN answers
        PROVE  answers[i] # "ok"
    <3>1. answers[k] = ex.relay.out
      BY <2>1, <2>3 DEF Out, isPrunedStateFailure
    <3>2. Spills(site.edge, answers[k]) /\ ~Spills(site.edge, "ok")
      BY <2>3, <3>1, EdgeSpills
    <3>3. k = n
      BY <2>1, <3>2 DEF IsFinal
    <3>4. i \in 1 .. k
      BY <1>4, <2>3, <3>3
    <3>5. CASE i = k
      BY <3>2, <3>5
    <3>6. CASE i \in 1 .. k - 1
      BY <2>1, <3>2, <3>6 DEF IsFinal
    <3> QED BY <2>1, <3>4, <3>5, <3>6
  <2> QED BY <2>2, <2>3 DEF answers, list, k
<1> QED BY <1>5, <1>6

\* Who reads pinned state, and what they have read.
LEMMA ReadStep ==
    ASSUME StrangersStayPublic, HonestlyPruned, [SplitNext]_splitVars
    PROVE  StrangersStayPublic' /\ HonestlyPruned'
<1>1. CASE ReadPinned
  <2>1. site' = site
    BY <1>1 DEF ReadPinned
  <2>2. PICK old \in BOOLEAN, serve \in {{"ok"}, {"gone", "goneHash"}} :
           read' \in Exchanges(site, [kind |-> "pinned", old |-> old, subject |-> Subject], serve)
    BY <1>1 DEF ReadPinned
  <2>3. /\ site.edge /\ ~isAllowlistedSubject(Subject, site.list) =>
              \A i \in 1 .. read'.relay.asked : read'.list[i] = "public"
        /\ site.edge /\ isPrunedStateFailure(read'.relay.out) =>
              \A i \in DOMAIN read'.answers : read'.answers[i] # "ok"
    BY <2>2, ReadIsRight
  <2> QED BY <2>1, <2>3 DEF StrangersStayPublic, HonestlyPruned
<1>2. CASE UNCHANGED <<site, read>>
  BY <1>2 DEF StrangersStayPublic, HonestlyPruned
<1>3. ReadPinned \/ UNCHANGED <<site, read>>
  BY DEF SplitNext, Request, SearchMint, Probe, ProbeGenesis, Ask, ReadOwners, Prune, splitVars
<1> QED BY <1>1, <1>2, <1>3

LEMMA InitRead == SplitInit => StrangersStayPublic /\ HonestlyPruned
BY DEF SplitInit, NoRead, StrangersStayPublic, HonestlyPruned

\* SplitSpec keeps a stranger's reads off the endpoints that cost (wallet-lane-gate.ts), whatever
\* the public one answers.
THEOREM StrangersArePublic == SplitSpec => []StrangersStayPublic
<1>1. SplitInit => StrangersStayPublic /\ HonestlyPruned
  BY InitRead
<1>2. StrangersStayPublic /\ HonestlyPruned /\ [SplitNext]_splitVars => (StrangersStayPublic /\ HonestlyPruned)'
  BY ReadStep
<1> QED BY <1>1, <1>2, PTL DEF SplitSpec

\* On the edge, what the page takes for pruned state no endpoint of the request's order would
\* have answered: spill.ts and read-failure.ts agree on the words that say so, and each
\* endpoint that says them passes the request on.
THEOREM PrunedIsHonest == SplitSpec => []HonestlyPruned
<1>1. SplitInit => StrangersStayPublic /\ HonestlyPruned
  BY InitRead
<1>2. StrangersStayPublic /\ HonestlyPruned /\ [SplitNext]_splitVars => (StrangersStayPublic /\ HonestlyPruned)'
  BY ReadStep
<1> QED BY <1>1, <1>2, PTL DEF SplitSpec
=============================================================================
