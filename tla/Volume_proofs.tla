----------------------------- MODULE Volume_proofs -----------------------------
(***************************************************************************)
(* Proofs about what the volume of the wallet's pools costs: the budget of *)
(* its requests and the batch that makes them.  The two modules have no    *)
(* state in common.                                                        *)
(***************************************************************************)
EXTENDS TokenBucket, VolumeBatch, SequenceTheorems, TLAPS

-----------------------------------------------------------------------------
(***************************************************************************)
(* TokenBucket: the budget holds for every rate, burst and clock.          *)
(*                                                                         *)
(* The argument is one ledger per request i: what the requests from i on   *)
(* have cost, plus what is still in the bucket, never exceeds a full       *)
(* bucket plus the refill at the opening rate between i's moment and the   *)
(* moment the bucket is accurate as of.  The same ledger, opened empty at  *)
(* the last refusal, is the backoff.                                       *)
(***************************************************************************)

-----------------------------------------------------------------------------
(* Arithmetic *)

\* The ticks waited refill at least what was short.
LEMMA TicksSuffice ==
    ASSUME NEW r \in Nat \ {0}, NEW u \in Nat
    PROVE  /\ (u + r - 1) \div r \in Nat
           /\ u <= ((u + r - 1) \div r) * r
  <1> DEFINE q == (u + r - 1) \div r
  <1>1. u + r - 1 \in Nat
    OBVIOUS
  <1>2. q \in Nat /\ u + r - 1 < (q + 1) * r
    BY <1>1
  <1>3. (q + 1) * r = q * r + r
    BY <1>2
  <1> HIDE DEF q
  <1> QED BY <1>2, <1>3 DEF q

\* A product grows with each of its factors.
LEMMA ProductMonotone ==
    ASSUME NEW a \in Nat, NEW b \in Nat, NEW c \in Nat, b <= c
    PROVE  a * b <= a * c
  <1>1. a * c = a * b + a * (c - b)
    OBVIOUS
  <1>2. a * (c - b) \in Nat
    OBVIOUS
  <1> QED BY <1>1, <1>2

\* What a stretch of time refills is refilled piecewise.
LEMMA RefillAdds ==
    ASSUME NEW a \in Int, NEW b \in Int, NEW c \in Int, NEW r \in Int
    PROVE  (c - a) * r = (b - a) * r + (c - b) * r
  OBVIOUS

-----------------------------------------------------------------------------
(* The inductive invariant *)

\* What the requests after the first `before` cost, and what is held, is covered by the
\* credit given and the refill from one moment to the other.
Balance(n, before, held, credit, from, moment) ==
    (n - before) * ONE + held <= credit + (moment - from) * Ceiling

Ledgers ==
    \A i \in 1 .. Len(slots) :
        Balance(Len(slots), i - 1, tokens, Burst * ONE, slots[i], at)

\* The ledger opened, empty, at the last refusal.
BackoffLedger ==
    refused.ever =>
        /\ refused.after <= Len(slots)
        /\ Balance(Len(slots), refused.after, tokens, 0, refused.empty, at)

Inv ==
    /\ BucketTypeOK
    /\ Len(slots) <= MaxTakes
    /\ SlotsInOrder
    /\ Ledgers
    /\ WithinBudget
    /\ BackoffLedger
    /\ BackoffPaidFor

LEMMA BucketInitInv == BucketInit => Inv
  <1> SUFFICES ASSUME BucketInit PROVE Inv
    OBVIOUS
  <1>1. Burst * ONE \in Nat
    BY UnitsPositive
  <1>2. BucketTypeOK
    BY <1>1, UnitsPositive, RatesOrdered, BoundsAreTicks DEF BucketInit, BucketTypeOK
  <1>3. slots = <<>> /\ Len(slots) = 0 /\ ~refused.ever
    BY DEF BucketInit
  <1>4. Len(slots) <= MaxTakes
    BY <1>3, BoundsAreTicks
  <1> QED BY <1>2, <1>3, <1>4
          DEF Inv, SlotsInOrder, Ledgers, WithinBudget, BackoffLedger, BackoffPaidFor

-----------------------------------------------------------------------------
(* take *)

\* The moment given away and what is left then: a token has been paid for out of what the
\* bucket held and what the opening rate would have refilled since.
LEMMA TokenPaidFor ==
    ASSUME Inv, take
    PROVE  \E moment, left \in Nat :
              /\ slots' = Append(slots, moment) /\ tokens' = left /\ at' = moment
              /\ at <= moment
              /\ left + ONE <= Burst * ONE
              /\ left + ONE <= tokens + (moment - at) * Ceiling
  <1>1. /\ now \in Nat /\ at \in Nat /\ tokens \in Nat /\ rate \in Nat \ {0} /\ rate <= Ceiling
        /\ Ceiling \in Nat /\ ONE \in Nat \ {0} /\ Burst \in Nat \ {0}
    BY UnitsPositive, RatesOrdered DEF Inv, BucketTypeOK
  <1>2. Burst * ONE \in Nat /\ ONE <= Burst * ONE
    <2>1. ONE * 1 <= ONE * Burst
      BY <1>1, ProductMonotone
    <2>2. ONE * 1 = ONE /\ ONE * Burst = Burst * ONE /\ Burst * ONE \in Nat
      BY <1>1
    <2> QED BY <2>1, <2>2
  <1> DEFINE elapsed == Frontier - at
  <1>3. Frontier \in Nat /\ at <= Frontier /\ elapsed \in Nat
    BY <1>1 DEF Frontier, Larger
  <1>4. elapsed * rate \in Nat /\ elapsed * Ceiling \in Nat /\ elapsed * rate <= elapsed * Ceiling
    BY <1>1, <1>3, ProductMonotone
  <1>5. /\ Refilled \in Nat /\ Refilled <= Burst * ONE
        /\ Refilled <= tokens + elapsed * Ceiling
    BY <1>1, <1>2, <1>4 DEF Refilled, Smaller
  <1>6. CASE Refilled >= ONE /\ Reserve(Frontier, Refilled - ONE)
    <2>1. Refilled - ONE \in Nat /\ (Refilled - ONE) + ONE = Refilled
      BY <1>1, <1>5, <1>6
    <2> QED BY <1>3, <1>5, <1>6, <2>1 DEF Reserve
  <1>7. CASE Refilled < ONE /\ Reserve(Frontier + TicksFor(ONE - Refilled), 0)
    <2> DEFINE short == ONE - Refilled
               ticks == TicksFor(short)
    <2>1. short \in Nat
      BY <1>1, <1>5, <1>7
    <2>2. ticks \in Nat /\ short <= ticks * rate
      BY <1>1, <2>1, TicksSuffice DEF TicksFor
    <2> HIDE DEF ticks
    <2>3. ticks * rate <= ticks * Ceiling /\ ticks * rate \in Nat /\ ticks * Ceiling \in Nat
      BY <1>1, <2>2, ProductMonotone
    <2>4. ((Frontier + ticks) - at) * Ceiling = elapsed * Ceiling + ticks * Ceiling
      BY <1>1, <1>3, <2>2
    <2>5. ONE <= tokens + ((Frontier + ticks) - at) * Ceiling
      BY <1>1, <1>4, <1>5, <2>1, <2>2, <2>3, <2>4
    <2>6. Reserve(Frontier + ticks, 0)
      BY <1>7 DEF ticks
    <2>7. Frontier + ticks \in Nat /\ at <= Frontier + ticks
      BY <1>1, <1>3, <2>2
    <2> QED BY <1>1, <1>2, <2>5, <2>6, <2>7 DEF Reserve
  <1> QED BY <1>6, <1>7 DEF take

\* A request more keeps a ledger balanced if it was paid for.
LEMMA BalanceKept ==
    ASSUME NEW n \in Int, NEW before \in Int, NEW held \in Int, NEW credit \in Int,
           NEW from \in Int, NEW moment \in Int, NEW next \in Int, NEW left \in Int,
           Balance(n, before, held, credit, from, moment),
           left + ONE <= held + (next - moment) * Ceiling
    PROVE  Balance(n + 1, before, left, credit, from, next)
  <1>1. ONE \in Int /\ Ceiling \in Int
    BY UnitsPositive, RatesOrdered
  <1>2. (n + 1 - before) * ONE = (n - before) * ONE + ONE
    BY <1>1
  <1>3. (next - from) * Ceiling = (moment - from) * Ceiling + (next - moment) * Ceiling
    BY <1>1, RefillAdds
  <1>4. /\ (n - before) * ONE \in Int /\ (moment - from) * Ceiling \in Int
        /\ (next - moment) * Ceiling \in Int
    BY <1>1
  <1>5. (n - before) * ONE + held <= credit + (moment - from) * Ceiling
    BY DEF Balance
  <1> QED BY <1>1, <1>2, <1>3, <1>4, <1>5 DEF Balance

LEMMA TakeKeeps == Inv /\ take => Inv'
  <1> SUFFICES ASSUME Inv, take PROVE Inv'
    OBVIOUS
  <1>1. PICK moment \in Nat, left \in Nat :
          /\ slots' = Append(slots, moment) /\ tokens' = left /\ at' = moment
          /\ at <= moment
          /\ left + ONE <= Burst * ONE
          /\ left + ONE <= tokens + (moment - at) * Ceiling
    BY TokenPaidFor
  <1> DEFINE n == Len(slots)
  <1>2. /\ n \in Nat /\ n < MaxTakes /\ slots \in Seq(Nat) /\ at \in Nat /\ tokens \in Nat
        /\ ONE \in Nat \ {0} /\ Burst \in Nat /\ Ceiling \in Nat /\ MaxTakes \in Nat
        /\ Burst * ONE \in Nat
    BY UnitsPositive, RatesOrdered, BoundsAreTicks DEF Inv, BucketTypeOK, take
  <1>3. /\ Len(slots') = n + 1 /\ slots' \in Seq(Nat) /\ slots'[n + 1] = moment
        /\ \A i \in 1 .. n : slots'[i] = slots[i] /\ slots[i] \in Nat
    BY <1>1, <1>2
  <1>4. UNCHANGED <<now, rate, clean, refused>>
    BY DEF take
  <1>5. BucketTypeOK'
    BY <1>1, <1>2, <1>3, <1>4 DEF Inv, BucketTypeOK
  <1>6. Len(slots') <= MaxTakes
    BY <1>2, <1>3
  <1>7. SlotsInOrder'
    <2>1. ASSUME NEW i \in 1 .. n PROVE slots[i] <= at
      <3>1. i <= n /\ n \in 1 .. n /\ slots # <<>>
        BY <1>2
      <3>2. slots[i] <= slots[n] /\ slots[n] <= at
        BY <3>1 DEF Inv, SlotsInOrder
      <3> QED BY <3>1, <3>2, <1>2, <1>3
    <2>2. \A i \in 1 .. n + 1 : slots'[i] <= moment
      BY <1>1, <1>2, <1>3, <2>1
    <2> QED BY <1>1, <1>2, <1>3, <2>2 DEF Inv, SlotsInOrder
  <1>8. Ledgers'
    <2> SUFFICES ASSUME NEW i \in 1 .. n + 1
                 PROVE  Balance(n + 1, i - 1, left, Burst * ONE, slots'[i], moment)
      BY <1>1, <1>3, Zenon DEF Ledgers
    <2>1. CASE i = n + 1
      <3>1. (n + 1 - (i - 1)) * ONE = ONE /\ (moment - slots'[i]) * Ceiling = 0
        BY <1>2, <1>3, <2>1
      <3> QED BY <1>1, <1>2, <3>1 DEF Balance
    <2>2. CASE i \in 1 .. n
      <3>1. Balance(n, i - 1, tokens, Burst * ONE, slots[i], at)
        BY <1>2, <2>2 DEF Inv, Ledgers
      <3>2. i - 1 \in Int /\ slots[i] \in Int
        BY <1>2, <1>3, <2>2
      <3>3. Balance(n + 1, i - 1, left, Burst * ONE, slots[i], moment)
        BY <1>1, <1>2, <3>1, <3>2, BalanceKept
      <3> QED BY <1>3, <2>2, <3>3
    <2> QED BY <1>2, <2>1, <2>2
  <1>9. WithinBudget'
    <2> SUFFICES ASSUME NEW i \in 1 .. n + 1, NEW j \in 1 .. n + 1, i <= j
                 PROVE  (j - i + 1) * ONE <= Burst * ONE + (slots'[j] - slots'[i]) * Ceiling
      BY <1>3 DEF WithinBudget
    <2>1. CASE j = n + 1
      <3>1. Balance(n + 1, i - 1, left, Burst * ONE, slots'[i], moment)
        BY <1>1, <1>3, <1>8, Zenon DEF Ledgers
      <3>2. (n + 1 - (i - 1)) * ONE \in Int /\ (moment - slots'[i]) * Ceiling \in Int
        BY <1>2, <1>3
      <3>3. n + 1 - (i - 1) = n + 1 - i + 1
        BY <1>2
      <3> QED BY <1>2, <1>3, <2>1, <3>1, <3>2, <3>3 DEF Balance
    <2>2. CASE j \in 1 .. n
      <3>1. i \in 1 .. n
        BY <1>2, <2>2
      <3> QED BY <1>2, <1>3, <2>2, <3>1 DEF Inv, WithinBudget
    <2> QED BY <1>2, <2>1, <2>2
  <1>10. refused.ever =>
           refused.after <= n /\ Balance(n + 1, refused.after, left, 0, refused.empty, moment)
    <2>1. refused.after \in Int /\ refused.empty \in Int
      BY DEF Inv, BucketTypeOK
    <2>2. refused.ever =>
            refused.after <= n /\ Balance(n, refused.after, tokens, 0, refused.empty, at)
      BY DEF Inv, BackoffLedger
    <2> QED BY <1>1, <1>2, <2>1, <2>2, BalanceKept
  <1>11. BackoffLedger'
    <2>1. refused.ever => refused.after <= n + 1
      BY <1>2, <1>10 DEF Inv, BucketTypeOK
    <2> HIDE DEF n
    <2> QED BY <1>1, <1>3, <1>4, <1>10, <2>1, Zenon DEF BackoffLedger
  <1>12. BackoffPaidFor'
    <2>1. PICK before \in Nat, empty \in Nat : before = refused.after /\ empty = refused.empty
      BY DEF Inv, BucketTypeOK
    <2> SUFFICES ASSUME refused.ever, NEW i \in before + 1 .. n + 1
                 PROVE  (i - before) * ONE <= (slots'[i] - empty) * Ceiling
      BY <1>3, <1>4, <2>1 DEF BackoffPaidFor
    <2>2. CASE i = n + 1
      <3>1. Balance(n + 1, before, left, 0, empty, moment)
        BY <1>10, <2>1
      <3> DEFINE cost == (n + 1 - before) * ONE
                 refill == (moment - empty) * Ceiling
      <3>2. cost \in Int /\ refill \in Int /\ left \in Nat
        BY <1>2
      <3>3. cost + left <= 0 + refill
        BY <3>1 DEF Balance
      <3> HIDE DEF cost, refill
      <3>4. cost <= refill
        BY <3>2, <3>3
      <3>5. (i - before) * ONE = cost
        BY <2>2 DEF cost
      <3>6. (slots'[i] - empty) * Ceiling = refill
        BY <1>3, <2>2, Zenon DEF refill
      <3> QED BY <3>4, <3>5, <3>6, Zenon
    <2>3. CASE i \in before + 1 .. n
      BY <1>2, <1>3, <2>1, <2>3, SMTT(30) DEF Inv, BackoffPaidFor
    <2> QED BY <1>2, <2>2, <2>3
  <1> QED BY <1>5, <1>6, <1>7, <1>8, <1>9, <1>11, <1>12 DEF Inv

-----------------------------------------------------------------------------
(* The other steps *)

\* A refusal empties the bucket and moves nothing that was reserved.
LEMMA SlowKeeps == Inv /\ slow => Inv'
  <1> SUFFICES ASSUME Inv, slow PROVE Inv'
    OBVIOUS
  <1> DEFINE moment == Larger(now, at)
  <1>1. /\ clean' = 0 /\ rate' = Larger(Floor, rate \div 2) /\ tokens' = 0
        /\ at' = moment /\ refused' = [ever |-> TRUE, after |-> Len(slots), empty |-> moment]
        /\ UNCHANGED <<now, slots>>
    BY DEF slow
  <1>2. /\ Len(slots) \in Nat /\ now \in Nat /\ at \in Nat /\ tokens \in Nat
        /\ rate \in Nat /\ rate <= Ceiling /\ Ceiling \in Nat /\ Floor \in Nat
        /\ Floor <= Ceiling /\ ONE \in Nat /\ Burst * ONE \in Nat /\ RecoverAfter \in Nat \ {0}
        /\ MaxTakes \in Nat
    BY UnitsPositive, RatesOrdered, BoundsAreTicks DEF Inv, BucketTypeOK
  <1>3. moment \in Nat /\ at <= moment
    BY <1>2 DEF Larger
  <1>4. rate' \in Floor .. Ceiling
    BY <1>1, <1>2 DEF Larger
  <1>5. BucketTypeOK'
    BY <1>1, <1>2, <1>3, <1>4 DEF Inv, BucketTypeOK
  <1>6. (Len(slots) <= MaxTakes)'
    BY <1>1 DEF Inv
  <1>7. SlotsInOrder'
    <2>1. slots # <<>> => slots[Len(slots)] <= moment
      BY <1>2, <1>3 DEF Inv, SlotsInOrder, BucketTypeOK
    <2> QED BY <1>1, <2>1 DEF Inv, SlotsInOrder
  <1> HIDE DEF moment
  <1>8. Ledgers'
    <2> SUFFICES ASSUME NEW i \in 1 .. Len(slots)
                 PROVE  Balance(Len(slots), i - 1, 0, Burst * ONE, slots[i], moment)
      BY <1>1, Zenon DEF Ledgers
    <2>1. Balance(Len(slots), i - 1, tokens, Burst * ONE, slots[i], at)
      BY DEF Inv, Ledgers
    <2>2. slots[i] \in Nat
      BY DEF Inv, BucketTypeOK
    <2>3. (moment - slots[i]) * Ceiling
            = (at - slots[i]) * Ceiling + (moment - at) * Ceiling
      BY <1>2, <1>3, <2>2, RefillAdds
    <2>4. (moment - at) * Ceiling \in Nat /\ (at - slots[i]) * Ceiling \in Int
      BY <1>2, <1>3, <2>2
    <2>5. (Len(slots) - (i - 1)) * ONE \in Int
      BY <1>2
    <2> QED BY <1>2, <2>1, <2>3, <2>4, <2>5 DEF Balance
  <1>9. WithinBudget'
    BY <1>1 DEF Inv, WithinBudget
  <1>10. BackoffLedger'
    <2>1. Balance(Len(slots), Len(slots), 0, 0, moment, moment)
      <3>1. (Len(slots) - Len(slots)) * ONE = 0 /\ (moment - moment) * Ceiling = 0
        BY <1>2, <1>3
      <3> QED BY <3>1 DEF Balance
    <2>2. Len(slots) <= Len(slots)
      BY <1>2
    <2>3. refused'.after = Len(slots) /\ refused'.empty = moment
      BY <1>1
    <2> QED BY <1>1, <2>1, <2>2, <2>3, Zenon DEF BackoffLedger
  <1>11. BackoffPaidFor'
    <2>1. \A i \in Len(slots) + 1 .. Len(slots) : FALSE
      BY <1>2
    <2>2. refused'.after = Len(slots)
      BY <1>1
    <2> QED BY <1>1, <2>1, <2>2, Zenon DEF BackoffPaidFor
  <1> QED BY <1>5, <1>6, <1>7, <1>8, <1>9, <1>10, <1>11 DEF Inv

\* Widening the rate, the clock, and standing still touch no ledger.
LEMMA OkKeeps == Inv /\ ok => Inv'
  <1> SUFFICES ASSUME Inv, ok PROVE Inv'
    OBVIOUS
  <1>1. UNCHANGED <<now, tokens, at, slots, refused>>
    BY DEF ok
  <1>2. BucketTypeOK'
    BY <1>1, UnitsPositive, RatesOrdered DEF Inv, BucketTypeOK, ok, Smaller
  <1> QED BY <1>1, <1>2 DEF Inv, SlotsInOrder, Ledgers, WithinBudget, BackoffLedger,
                            BackoffPaidFor

LEMMA TickKeeps == Inv /\ Tick => Inv'
  <1> SUFFICES ASSUME Inv, Tick PROVE Inv'
    OBVIOUS
  <1>1. UNCHANGED <<rate, clean, tokens, at, slots, refused>>
    BY DEF Tick
  <1>2. BucketTypeOK'
    BY <1>1, BoundsAreTicks DEF Inv, BucketTypeOK, Tick
  <1> QED BY <1>1, <1>2 DEF Inv, SlotsInOrder, Ledgers, WithinBudget, BackoffLedger,
                            BackoffPaidFor

LEMMA StutterKeeps == Inv /\ UNCHANGED bucketVars => Inv'
  BY DEF Inv, bucketVars, BucketTypeOK, SlotsInOrder, Ledgers, WithinBudget, BackoffLedger, BackoffPaidFor

LEMMA Invariance == BucketSpec => []Inv
  <1>1. Inv /\ [BucketNext]_bucketVars => Inv'
    BY TakeKeeps, SlowKeeps, OkKeeps, TickKeeps, StutterKeeps DEF BucketNext
  <1> QED BY BucketInitInv, <1>1, PTL DEF BucketSpec

-----------------------------------------------------------------------------
(* The theorems *)

\* Every variable of the bucket keeps its type: the rate stays between its floor and the
\* ceiling, and the bucket never holds more than the burst.
THEOREM BucketTypeCorrect == BucketSpec => []BucketTypeOK
  BY Invariance, PTL DEF Inv

\* However many callers take at once, and whatever refusals and recoveries happen, the
\* requests let go in any window are paid for by one burst and the opening rate.
THEOREM BudgetKept == BucketSpec => []WithinBudget
  BY Invariance, PTL DEF Inv

\* Callers get their moments in the order they came.
THEOREM OrderKept == BucketSpec => []SlotsInOrder
  BY Invariance, PTL DEF Inv

\* After a refusal there is no credit until it has been refilled.
THEOREM BackoffKept == BucketSpec => []BackoffPaidFor
  BY Invariance, PTL DEF Inv

-----------------------------------------------------------------------------
(***************************************************************************)
(* VolumeBatch: for any number of pools and workers, any number of tries   *)
(* and resumes.                                                            *)
(*                                                                         *)
(* The argument is where a pool is: queued, in a hand, or filed.  Four     *)
(* moves are all the steps make of it (a pool is filed, with or without    *)
(* another shifted; put back; or a sweep begins), and each is a lemma      *)
(* about values, whatever the step around it.                              *)
(***************************************************************************)

\* The pools queued, in a hand and filed: once each, and all of them.
Placed(q, h, F) ==
    /\ \A i, j \in 1 .. Len(q) : i # j => q[i] # q[j]
    /\ \A v, w \in Worker : v # w /\ h[v] # NoPool => h[v] # h[w]
    /\ \A i \in 1 .. Len(q), w \in Worker : q[i] # h[w]
    /\ \A i \in 1 .. Len(q) : q[i] \notin F
    /\ \A w \in Worker : h[w] \notin F
    /\ \A p \in Pools : \/ p \in F
                        \/ \E w \in Worker : h[w] = p
                        \/ \E i \in 1 .. Len(q) : q[i] = p

Answers == covered \cup missing \cup failed

\* One heading each; hands that match where their workers are; a stopped sweep leaves
\* something, and one that is not stopped leaves a worker only when nothing is queued.
IInv ==
    /\ TypeOK
    /\ Placed(queue, hand, Answers)
    /\ covered \cap missing = {} /\ covered \cap failed = {} /\ missing \cap failed = {}
    /\ \A w \in Worker : pc[w] = "returned" <=> hand[w] = NoPool
    /\ phase # "sweep" => \A w \in Worker : pc[w] = "returned"
    /\ stop => queue # <<>>
    /\ phase = "sweep" /\ ~stop /\ queue # <<>> => \A w \in Worker : pc[w] # "returned"
    /\ phase = "over" => skipped = Queued /\ (blocked <=> queue # <<>>)

Hands == [Worker -> Pools \cup {NoPool}]

-----------------------------------------------------------------------------
(* The moves *)

LEMMA NoPoolIsNone == NoPool \notin Pools
BY DEF NoPool, Pools

\* A pool is filed and its worker returns.
LEMMA FileLast ==
    ASSUME NEW q \in Seq(Pools), NEW h \in Hands, NEW F, F \subseteq Pools,
           NEW w \in Worker, h[w] # NoPool, Placed(q, h, F)
    PROVE  Placed(q, [h EXCEPT ![w] = NoPool], F \cup {h[w]})
<1> DEFINE g == [h EXCEPT ![w] = NoPool]
           G == F \cup {h[w]}
<1>1. g[w] = NoPool /\ \A v \in Worker : v # w => g[v] = h[v]
  BY DEF Hands
<1>2. h[w] \in Pools
  BY DEF Hands
<1> HIDE DEF g
<1>3. \A i, j \in 1 .. Len(q) : i # j => q[i] # q[j]
  BY DEF Placed
<1>4. \A v, u \in Worker : v # u /\ g[v] # NoPool => g[v] # g[u]
  BY <1>1 DEF Placed
<1>5. \A i \in 1 .. Len(q) : q[i] \in Pools
  OBVIOUS
<1>6. \A i \in 1 .. Len(q), v \in Worker : q[i] # g[v]
  BY <1>1, <1>5, NoPoolIsNone DEF Placed
<1>7. \A i \in 1 .. Len(q) : q[i] \notin G
  BY DEF Placed
<1>8. \A v \in Worker : g[v] \notin G
  BY <1>1, <1>2, NoPoolIsNone DEF Placed
<1>9. \A p \in Pools : p \in G \/ (\E v \in Worker : g[v] = p) \/ \E i \in 1 .. Len(q) : q[i] = p
  BY <1>1 DEF Placed
<1>10. Placed(q, g, G)
  BY <1>3, <1>4, <1>6, <1>7, <1>8, <1>9 DEF Placed
<1> QED BY <1>10 DEF g

\* A pool is filed and its worker shifts the next.
LEMMA FileNext ==
    ASSUME NEW q \in Seq(Pools), q # <<>>, NEW h \in Hands, NEW F, F \subseteq Pools,
           NEW w \in Worker, h[w] # NoPool, Placed(q, h, F)
    PROVE  Placed(Tail(q), [h EXCEPT ![w] = Head(q)], F \cup {h[w]})
<1> DEFINE g == [h EXCEPT ![w] = Head(q)]
           G == F \cup {h[w]}
           r == Tail(q)
<1>1. g[w] = q[1] /\ \A v \in Worker : v # w => g[v] = h[v]
  BY DEF Hands
<1>2. /\ r \in Seq(Pools) /\ Len(r) = Len(q) - 1 /\ Len(q) \in Nat /\ Len(q) > 0
      /\ \A i \in 1 .. Len(r) : r[i] = q[i + 1]
  BY HeadTailProperties, EmptySeq
<1> HIDE DEF g, r
<1>3. \A i \in 1 .. Len(r) : i + 1 \in 1 .. Len(q) /\ i + 1 # 1
  BY <1>2
<1>4. 1 \in 1 .. Len(q)
  BY <1>2
<1>5. \A i, j \in 1 .. Len(r) : i # j => r[i] # r[j]
  <2> SUFFICES ASSUME NEW i \in 1 .. Len(r), NEW j \in 1 .. Len(r), i # j PROVE r[i] # r[j]
    OBVIOUS
  <2>1. i + 1 # j + 1
    OBVIOUS
  <2> QED BY <2>1, <1>2, <1>3 DEF Placed
<1>6. \A v, u \in Worker : v # u /\ g[v] # NoPool => g[v] # g[u]
  BY <1>1, <1>4 DEF Placed
<1>7. \A i \in 1 .. Len(r), v \in Worker : r[i] # g[v]
  BY <1>1, <1>2, <1>3, <1>4 DEF Placed
<1>8. \A i \in 1 .. Len(r) : r[i] \notin G
  BY <1>2, <1>3, SMTT(30) DEF Placed
<1>9. \A v \in Worker : g[v] \notin G
  BY <1>1, <1>4 DEF Placed
<1>10. ASSUME NEW p \in Pools
       PROVE  p \in G \/ (\E v \in Worker : g[v] = p) \/ \E i \in 1 .. Len(r) : r[i] = p
  <2>1. CASE \E i \in 1 .. Len(q) : q[i] = p
    <3>1. PICK i \in 1 .. Len(q) : q[i] = p
      BY <2>1
    <3>2. CASE i = 1
      BY <3>1, <3>2, <1>1
    <3>3. CASE i # 1
      <4>1. i - 1 \in 1 .. Len(r) /\ (i - 1) + 1 = i
        BY <3>3, <1>2
      <4> QED BY <4>1, <3>1, <1>2
    <3> QED BY <3>2, <3>3
  <2>2. CASE p \in F
    BY <2>2
  <2>3. CASE \E v \in Worker : h[v] = p
    BY <2>3, <1>1
  <2> QED BY <2>1, <2>2, <2>3 DEF Placed
<1>11. Placed(r, g, G)
  BY <1>5, <1>6, <1>7, <1>8, <1>9, <1>10 DEF Placed
<1> QED BY <1>11 DEF g, r

\* A pool goes back to where it was shifted from.
LEMMA PutBack ==
    ASSUME NEW q \in Seq(Pools), NEW h \in Hands, NEW F, F \subseteq Pools,
           NEW w \in Worker, h[w] # NoPool, Placed(q, h, F)
    PROVE  /\ <<h[w]>> \o q \in Seq(Pools) /\ <<h[w]>> \o q # <<>>
           /\ Placed(<<h[w]>> \o q, [h EXCEPT ![w] = NoPool], F)
<1> DEFINE g == [h EXCEPT ![w] = NoPool]
           r == <<h[w]>> \o q
<1>1. g[w] = NoPool /\ \A v \in Worker : v # w => g[v] = h[v]
  BY DEF Hands
<1>2. h[w] \in Pools
  BY DEF Hands
<1>3. <<h[w]>> \in Seq(Pools) /\ Len(<<h[w]>>) = 1 /\ <<h[w]>>[1] = h[w]
  BY <1>2
<1>4. /\ r \in Seq(Pools) /\ Len(r) = 1 + Len(q) /\ Len(q) \in Nat
      /\ \A i \in 1 .. 1 + Len(q) : r[i] = IF i <= 1 THEN <<h[w]>>[i] ELSE q[i - 1]
  BY <1>3, ConcatProperties
<1>5. r[1] = h[w]
  BY <1>3, <1>4
<1>6. \A i \in 2 .. Len(r) : i - 1 \in 1 .. Len(q) /\ r[i] = q[i - 1]
  BY <1>4
<1>7. r # <<>>
  BY <1>4
<1> HIDE DEF g, r
<1>8. \A i \in 1 .. Len(r) : i = 1 \/ i \in 2 .. Len(r)
  BY <1>4
<1>9. \A i, j \in 1 .. Len(r) : i # j => r[i] # r[j]
  <2> SUFFICES ASSUME NEW i \in 1 .. Len(r), NEW j \in 1 .. Len(r), i # j PROVE r[i] # r[j]
    OBVIOUS
  <2>1. i - 1 # j - 1
    OBVIOUS
  <2> QED BY <2>1, <1>5, <1>6, <1>8 DEF Placed
<1>10. \A v, u \in Worker : v # u /\ g[v] # NoPool => g[v] # g[u]
  BY <1>1 DEF Placed
<1>11. \A i \in 1 .. Len(r) : r[i] \in Pools
  BY <1>4
<1>12. \A i \in 1 .. Len(r), v \in Worker : r[i] # g[v]
  <2> SUFFICES ASSUME NEW i \in 1 .. Len(r), NEW v \in Worker PROVE r[i] # g[v]
    OBVIOUS
  <2>1. CASE v = w
    BY <2>1, <1>1, <1>11, NoPoolIsNone
  <2>2. CASE v # w
    BY <2>2, <1>1, <1>5, <1>6, <1>8 DEF Placed
  <2> QED BY <2>1, <2>2
<1>13. \A i \in 1 .. Len(r) : r[i] \notin F
  BY <1>5, <1>6, <1>8 DEF Placed
<1>14. \A v \in Worker : g[v] \notin F
  BY <1>1, NoPoolIsNone DEF Placed
<1>15. ASSUME NEW p \in Pools
       PROVE  p \in F \/ (\E v \in Worker : g[v] = p) \/ \E i \in 1 .. Len(r) : r[i] = p
  <2>1. CASE \E i \in 1 .. Len(q) : q[i] = p
    <3>1. PICK i \in 1 .. Len(q) : q[i] = p
      BY <2>1
    <3>2. i + 1 \in 1 .. Len(r) /\ i + 1 \in 2 .. Len(r) /\ (i + 1) - 1 = i
      BY <1>4
    <3> QED BY <3>1, <3>2, <1>6
  <2>2. CASE p \in F
    BY <2>2
  <2>3. CASE \E v \in Worker : h[v] = p
    <3>1. 1 \in 1 .. Len(r)
      BY <1>4
    <3> QED BY <2>3, <3>1, <1>1, <1>5
  <2> QED BY <2>1, <2>2, <2>3 DEF Placed
<1>16. Placed(r, g, F)
  BY <1>9, <1>10, <1>12, <1>13, <1>14, <1>15 DEF Placed
<1> QED BY <1>4, <1>7, <1>16 DEF g, r

\* A sweep begins: the first workers take the first pools.
Dealt(q) == [w \in Worker |-> IF w <= Len(q) THEN q[w] ELSE NoPool]
Rest(q) == SubSeq(q, WORKERS + 1, Len(q))

LEMMA Deal ==
    ASSUME NEW q \in Seq(Pools), NEW h \in Hands, NEW F, F \subseteq Pools,
           \A w \in Worker : h[w] = NoPool, Placed(q, h, F)
    PROVE  /\ Dealt(q) \in Hands /\ Rest(q) \in Seq(Pools)
           /\ Placed(Rest(q), Dealt(q), F)
           /\ \A w \in Worker : w <= Len(q) <=> Dealt(q)[w] # NoPool
           /\ Rest(q) # <<>> => \A w \in Worker : w <= Len(q)
<1> DEFINE g == Dealt(q)
           r == Rest(q)
<1>1. Len(q) \in Nat /\ WORKERS \in Nat /\ \A i \in 1 .. Len(q) : q[i] \in Pools
  BY CountsPositive
<1>2. \A w \in Worker : w \in Nat /\ w >= 1 /\ w <= WORKERS
  BY <1>1 DEF Worker
<1>3. /\ r \in Seq(Pools)
      /\ Len(r) = IF WORKERS + 1 <= Len(q) THEN Len(q) - (WORKERS + 1) + 1 ELSE 0
      /\ \A i \in 1 .. Len(q) - (WORKERS + 1) + 1 : r[i] = q[(WORKERS + 1) + i - 1]
  <2>1. \A i \in WORKERS + 1 .. Len(q) : q[i] \in Pools
    BY <1>1
  <2> QED BY <2>1, <1>1, SubSeqProperties DEF Rest
<1>4. \A w \in Worker : g[w] = IF w <= Len(q) THEN q[w] ELSE NoPool
  BY DEF Dealt
<1>5. \A w \in Worker : w <= Len(q) => w \in 1 .. Len(q)
  BY <1>1, <1>2
<1>6. \A i \in 1 .. Len(r) : WORKERS + i \in 1 .. Len(q) /\ r[i] = q[WORKERS + i]
  BY <1>1, <1>3
<1>7. g \in Hands
  BY <1>1, <1>5 DEF Dealt, Hands
<1>8. \A w \in Worker : w <= Len(q) <=> g[w] # NoPool
  BY <1>1, <1>4, <1>5, NoPoolIsNone
<1>9. r # <<>> => \A w \in Worker : w <= Len(q)
  <2>1. r # <<>> => Len(r) # 0
    BY <1>3, EmptySeq
  <2> QED BY <2>1, <1>1, <1>2, <1>3
<1>10. Len(r) \in Nat
  BY <1>3
<1> HIDE DEF g, r
<1>11. \A i, j \in 1 .. Len(r) : i # j => r[i] # r[j]
  <2> SUFFICES ASSUME NEW i \in 1 .. Len(r), NEW j \in 1 .. Len(r), i # j PROVE r[i] # r[j]
    OBVIOUS
  <2>1. WORKERS + i # WORKERS + j
    BY <1>1
  <2> QED BY <2>1, <1>6 DEF Placed
<1>12. \A v, w \in Worker : v # w /\ g[v] # NoPool => g[v] # g[w]
  BY <1>4, <1>5, <1>8 DEF Placed
<1>13. \A i \in 1 .. Len(r), w \in Worker : r[i] # g[w]
  <2> SUFFICES ASSUME NEW i \in 1 .. Len(r), NEW w \in Worker PROVE r[i] # g[w]
    OBVIOUS
  <2>1. CASE w <= Len(q)
    <3>1. WORKERS + i # w
      BY <1>1, <1>2, <1>10
    <3> QED BY <2>1, <3>1, <1>4, <1>5, <1>6 DEF Placed
  <2>2. CASE ~(w <= Len(q))
    BY <2>2, <1>1, <1>4, <1>6, NoPoolIsNone
  <2> QED BY <2>1, <2>2
<1>14. \A i \in 1 .. Len(r) : r[i] \notin F
  BY <1>6 DEF Placed
<1>15. \A w \in Worker : g[w] \notin F
  BY <1>4, <1>5, NoPoolIsNone DEF Placed
<1>16. ASSUME NEW p \in Pools
       PROVE  p \in F \/ (\E w \in Worker : g[w] = p) \/ \E i \in 1 .. Len(r) : r[i] = p
  <2>1. CASE \E i \in 1 .. Len(q) : q[i] = p
    <3>1. PICK i \in 1 .. Len(q) : q[i] = p
      BY <2>1
    <3>2. CASE i <= WORKERS
      <4>1. i \in Worker /\ i <= Len(q)
        BY <3>2, <1>1 DEF Worker
      <4> QED BY <4>1, <3>1, <1>4
    <3>3. CASE ~(i <= WORKERS)
      <4>1. i - WORKERS \in 1 .. Len(r) /\ WORKERS + (i - WORKERS) = i
        BY <3>3, <1>1, <1>3
      <4> QED BY <4>1, <3>1, <1>6
    <3> QED BY <3>2, <3>3
  <2>2. CASE p \in F
    BY <2>2
  <2>3. ~ \E w \in Worker : h[w] = p
    BY NoPoolIsNone
  <2> QED BY <2>1, <2>2, <2>3 DEF Placed
<1>17. Placed(r, g, F)
  BY <1>11, <1>12, <1>13, <1>14, <1>15, <1>16 DEF Placed
<1> QED BY <1>3, <1>7, <1>8, <1>9, <1>17 DEF g, r

-----------------------------------------------------------------------------
(* The invariant *)

LEMMA InitInv == Init => IInv
<1> SUFFICES ASSUME Init PROVE IInv
  OBVIOUS
<1>1. PoolCount \in Nat /\ WORKERS \in Nat /\ PoolCount > 0 /\ WORKERS > 0 /\ MAX_TRIES \in Nat
      /\ MAX_TRIES > 0 /\ MaxResumes \in Nat
  BY CountsPositive
<1> DEFINE n == IF WORKERS < PoolCount THEN PoolCount - WORKERS ELSE 0
<1>2. n \in Nat /\ queue = [i \in 1 .. n |-> WORKERS + i]
  BY <1>1 DEF Init
<1>3. \A i \in 1 .. n : WORKERS + i \in Pools
  BY <1>1 DEF Pools
<1>4. queue \in Seq(Pools) /\ Len(queue) = n
  BY <1>2, <1>3, IsASeq
<1>5. \A i \in 1 .. Len(queue) : queue[i] = WORKERS + i
  BY <1>2, <1>4
<1>6. \A w \in Worker : w \in Nat /\ w >= 1 /\ w <= WORKERS
  BY <1>1 DEF Worker
<1>7. \A w \in Worker : hand[w] = (IF w <= PoolCount THEN w ELSE NoPool)
                     /\ pc[w] = (IF w <= PoolCount THEN "looking" ELSE "returned")
  BY DEF Init
<1>8. \A w \in Worker : w <= PoolCount => w \in Pools
  BY <1>1, <1>6 DEF Pools
<1>9. TypeOK
  <2>1. hand \in [Worker -> Pools \cup {NoPool}]
    BY <1>8 DEF Init
  <2>2. attempt \in [Worker -> 0 .. MAX_TRIES - 1]
    BY <1>1 DEF Init
  <2>3. pc \in [Worker -> PC]
    BY DEF Init, PC
  <2>4. phase \in {"sweep", "cooldown", "over"} /\ resume \in 0 .. MaxResumes /\ done \in Nat
    BY <1>1 DEF Init
  <2>5. stop \in BOOLEAN /\ blocked \in BOOLEAN
    BY DEF Init
  <2>6. covered \subseteq Pools /\ missing \subseteq Pools /\ failed \subseteq Pools /\ skipped \subseteq Pools
    BY DEF Init
  <2> QED BY <1>4, <2>1, <2>2, <2>3, <2>4, <2>5, <2>6, Zenon DEF TypeOK
<1>10. Placed(queue, hand, Answers)
  <2> HIDE DEF n
  <2>1. \A i, j \in 1 .. Len(queue) : i # j => queue[i] # queue[j]
    BY <1>1, <1>2, <1>4, <1>5
  <2>2. \A v, w \in Worker : v # w /\ hand[v] # NoPool => hand[v] # hand[w]
    BY <1>6, <1>7 DEF NoPool
  <2>3. \A i \in 1 .. Len(queue), w \in Worker : queue[i] # hand[w]
    <3> SUFFICES ASSUME NEW i \in 1 .. Len(queue), NEW w \in Worker PROVE queue[i] # hand[w]
      OBVIOUS
    <3>1. WORKERS + i # w /\ WORKERS + i # 0
      BY <1>1, <1>2, <1>4, <1>6
    <3> QED BY <3>1, <1>5, <1>7 DEF NoPool
  <2>4. Answers = {}
    BY DEF Init, Answers
  <2>5. ASSUME NEW p \in Pools
        PROVE  (\E w \in Worker : hand[w] = p) \/ \E i \in 1 .. Len(queue) : queue[i] = p
    <3>0. p \in Nat /\ p >= 1 /\ p <= PoolCount
      BY <1>1 DEF Pools
    <3>1. CASE p <= WORKERS
      <4>1. p \in Worker
        BY <3>0, <3>1, <1>1 DEF Worker
      <4> QED BY <3>0, <4>1, <1>7
    <3>2. CASE ~(p <= WORKERS)
      <4>1. p - WORKERS \in 1 .. Len(queue) /\ WORKERS + (p - WORKERS) = p
        BY <3>0, <3>2, <1>1, <1>4 DEF n
      <4> QED BY <4>1, <1>5
    <3> QED BY <3>1, <3>2
  <2> QED BY <2>1, <2>2, <2>3, <2>4, <2>5 DEF Placed
<1>11. \A w \in Worker : pc[w] = "returned" <=> hand[w] = NoPool
  BY <1>6, <1>7 DEF NoPool
<1>12. queue # <<>> => \A w \in Worker : pc[w] # "returned"
  <2>1. queue # <<>> => Len(queue) # 0
    BY <1>4, EmptySeq
  <2>2. queue # <<>> => PoolCount > WORKERS
    BY <2>1, <1>1, <1>4
  <2> QED BY <2>2, <1>1, <1>6, <1>7
<1> QED BY <1>9, <1>10, <1>11, <1>12 DEF Init, IInv

\* A pool is filed and its worker goes round the loop.
LEMMA GoesRound ==
    ASSUME IInv, NEW w \in Worker, pc[w] # "returned", NextPool(w),
           UNCHANGED <<phase, stop, blocked, skipped>>, Answers' = Answers \cup {hand[w]}
    PROVE  /\ phase = "sweep"
           /\ queue' \in Seq(Pools) /\ hand' \in Hands /\ pc' \in [Worker -> PC]
           /\ Placed(queue', hand', Answers')
           /\ \A v \in Worker : pc'[v] = "returned" <=> hand'[v] = NoPool
           /\ stop' => queue' # <<>>
           /\ phase' = "sweep" /\ ~stop' /\ queue' # <<>> => \A v \in Worker : pc'[v] # "returned"
<1>1. /\ queue \in Seq(Pools) /\ hand \in Hands /\ pc \in [Worker -> PC]
      /\ Placed(queue, hand, Answers) /\ Answers \subseteq Pools
      /\ \A v \in Worker : pc[v] = "returned" <=> hand[v] = NoPool
  BY DEF IInv, TypeOK, Hands, Answers
<1>2. hand[w] # NoPool /\ phase = "sweep"
  BY DEF IInv
<1>3. CASE queue = <<>> \/ stop
  <2>1. /\ pc' = [pc EXCEPT ![w] = "returned"] /\ hand' = [hand EXCEPT ![w] = NoPool]
        /\ queue' = queue
    BY <1>3 DEF NextPool
  <2>2. Placed(queue', hand', Answers')
    BY <1>1, <1>2, <2>1, FileLast
  <2>3. hand' \in Hands /\ pc' \in [Worker -> PC]
    BY <1>1, <2>1 DEF Hands, PC
  <2>4. \A v \in Worker : pc'[v] = "returned" <=> hand'[v] = NoPool
    BY <1>1, <2>1 DEF Hands
  <2>5. /\ stop' => queue' # <<>>
        /\ ~stop' /\ queue' # <<>> => \A v \in Worker : pc'[v] # "returned"
    BY <1>3, <2>1 DEF IInv
  <2> QED BY <1>1, <1>2, <2>1, <2>2, <2>3, <2>4, <2>5
<1>4. CASE ~(queue = <<>> \/ stop)
  <2>1. /\ pc' = [pc EXCEPT ![w] = "looking"] /\ hand' = [hand EXCEPT ![w] = Head(queue)]
        /\ queue' = Tail(queue)
    BY <1>4 DEF NextPool
  <2>2. Head(queue) \in Pools /\ Tail(queue) \in Seq(Pools)
    BY <1>1, <1>4, HeadTailProperties
  <2>3. Placed(queue', hand', Answers')
    BY <1>1, <1>2, <1>4, <2>1, FileNext
  <2>4. hand' \in Hands /\ pc' \in [Worker -> PC]
    BY <1>1, <2>1, <2>2 DEF Hands, PC
  <2>5. \A v \in Worker : pc'[v] = "returned" <=> hand'[v] = NoPool
    BY <1>1, <2>1, <2>2, NoPoolIsNone DEF Hands
  <2>6. \A v \in Worker : pc[v] # "returned"
    BY <1>2, <1>4 DEF IInv
  <2>7. \A v \in Worker : pc'[v] # "returned"
    BY <1>1, <2>1, <2>6
  <2> QED BY <1>2, <1>4, <2>1, <2>2, <2>3, <2>4, <2>5, <2>7
<1> QED BY <1>3, <1>4

\* An answer under one heading keeps everything.
LEMMA FilingKeeps ==
    ASSUME IInv, NEW w \in Worker, pc[w] # "returned", NextPool(w), done' = done + 1,
           attempt' = [attempt EXCEPT ![w] = 0],
           UNCHANGED <<phase, resume, stop, blocked, skipped>>,
           \/ covered' = covered \cup {hand[w]} /\ UNCHANGED <<missing, failed>>
           \/ missing' = missing \cup {hand[w]} /\ UNCHANGED <<covered, failed>>
           \/ failed' = failed \cup {hand[w]} /\ UNCHANGED <<covered, missing>>
    PROVE  IInv'
<1>1. Answers' = Answers \cup {hand[w]}
  BY DEF Answers
<1>2. /\ phase = "sweep"
      /\ queue' \in Seq(Pools) /\ hand' \in Hands /\ pc' \in [Worker -> PC]
      /\ Placed(queue', hand', Answers')
      /\ \A v \in Worker : pc'[v] = "returned" <=> hand'[v] = NoPool
      /\ stop' => queue' # <<>>
      /\ phase' = "sweep" /\ ~stop' /\ queue' # <<>> => \A v \in Worker : pc'[v] # "returned"
  BY <1>1, GoesRound
<1>3. hand[w] \in Pools /\ hand[w] \notin Answers
  BY DEF IInv, TypeOK, Placed
<1>4. /\ covered' \cap missing' = {} /\ covered' \cap failed' = {} /\ missing' \cap failed' = {}
      /\ covered' \subseteq Pools /\ missing' \subseteq Pools /\ failed' \subseteq Pools
  BY <1>3 DEF IInv, TypeOK, Answers
<1>5. attempt' \in [Worker -> 0 .. MAX_TRIES - 1] /\ done' \in Nat
  <2>1. MAX_TRIES \in Nat /\ MAX_TRIES > 0
    BY CountsPositive
  <2> QED BY <2>1 DEF IInv, TypeOK
<1>6. TypeOK'
  BY <1>2, <1>4, <1>5 DEF IInv, TypeOK, Hands
<1> QED BY <1>2, <1>4, <1>6 DEF IInv, Answers

\* What neither moves a pool nor sends a worker home keeps everything.
LEMMA WaitingKeeps ==
    ASSUME IInv, NEW w \in Worker, pc[w] # "returned", NEW step \in PC \ {"returned"},
           pc' = [pc EXCEPT ![w] = step], attempt' \in [Worker -> 0 .. MAX_TRIES - 1],
           UNCHANGED <<phase, resume, queue, stop, hand, covered, missing, failed, done,
                       blocked, skipped>>
    PROVE  IInv'
<1>1. pc' \in [Worker -> PC] /\ \A v \in Worker : pc'[v] = "returned" <=> pc[v] = "returned"
  BY DEF IInv, TypeOK
<1>2. TypeOK'
  BY <1>1 DEF IInv, TypeOK
<1>3. phase = "sweep"
  BY DEF IInv
<1>4. Placed(queue', hand', Answers')
  BY DEF IInv, Answers
<1> QED BY <1>1, <1>2, <1>3, <1>4 DEF IInv, Answers

LEMMA CutOffKeeps ==
    ASSUME IInv, NEW w \in Worker, CutOff(w)
    PROVE  IInv'
<1>1. /\ queue \in Seq(Pools) /\ hand \in Hands /\ pc \in [Worker -> PC]
      /\ Placed(queue, hand, Answers) /\ Answers \subseteq Pools
      /\ \A v \in Worker : pc[v] = "returned" <=> hand[v] = NoPool
  BY DEF IInv, TypeOK, Hands, Answers
<1>2. hand[w] # NoPool /\ phase = "sweep"
  BY DEF IInv, CutOff
<1>3. /\ pc' = [pc EXCEPT ![w] = "returned"] /\ hand' = [hand EXCEPT ![w] = NoPool]
      /\ queue' = <<hand[w]>> \o queue /\ stop' = TRUE /\ Answers' = Answers
      /\ attempt' = [attempt EXCEPT ![w] = 0]
      /\ UNCHANGED <<phase, resume, covered, missing, failed, done, blocked, skipped>>
  BY DEF CutOff, Answers
<1>4. queue' \in Seq(Pools) /\ queue' # <<>> /\ Placed(queue', hand', Answers')
  BY <1>1, <1>2, <1>3, PutBack
<1>5. hand' \in Hands /\ pc' \in [Worker -> PC]
  BY <1>1, <1>3 DEF Hands, PC
<1>6. \A v \in Worker : pc'[v] = "returned" <=> hand'[v] = NoPool
  BY <1>1, <1>3 DEF Hands
<1>7. attempt' \in [Worker -> 0 .. MAX_TRIES - 1]
  <2>1. MAX_TRIES \in Nat /\ MAX_TRIES > 0
    BY CountsPositive
  <2> QED BY <2>1, <1>3 DEF IInv, TypeOK
<1>8. TypeOK'
  BY <1>3, <1>4, <1>5, <1>7 DEF IInv, TypeOK, Hands
<1> QED BY <1>2, <1>3, <1>4, <1>6, <1>8 DEF IInv

LEMMA WorkKeeps ==
    ASSUME IInv, NEW w \in Worker, Work(w)
    PROVE  IInv'
<1>1. CASE CacheHit(w)
  BY <1>1, FilingKeeps DEF CacheHit, Filed
<1>2. CASE CacheMiss(w)
  <2>1. attempt' \in [Worker -> 0 .. MAX_TRIES - 1]
    BY <1>2 DEF CacheMiss, IInv, TypeOK
  <2>2. "pacing" \in PC \ {"returned"}
    BY DEF PC
  <2> QED BY <1>2, <2>1, <2>2, WaitingKeeps DEF CacheMiss
<1>3. CASE Ask(w)
  <2>1. attempt' \in [Worker -> 0 .. MAX_TRIES - 1]
    BY <1>3 DEF Ask, IInv, TypeOK
  <2>2. "asking" \in PC \ {"returned"}
    BY DEF PC
  <2> QED BY <1>3, <2>1, <2>2, WaitingKeeps DEF Ask
<1>4. CASE Answered(w)
  BY <1>4, FilingKeeps DEF Answered, Filed
<1>5. CASE Failed(w)
  BY <1>5, FilingKeeps DEF Failed
<1>6. CASE Refused(w)
  <2>1. MAX_TRIES \in Nat
    BY CountsPositive
  <2>2. attempt \in [Worker -> 0 .. MAX_TRIES - 1] /\ attempt[w] < MAX_TRIES - 1
        /\ attempt' = [attempt EXCEPT ![w] = attempt[w] + 1]
    BY <1>6 DEF Refused, IInv, TypeOK
  <2>3. attempt[w] + 1 \in 0 .. MAX_TRIES - 1
    BY <2>1, <2>2
  <2>4. attempt' \in [Worker -> 0 .. MAX_TRIES - 1]
    BY <2>2, <2>3
  <2>5. "pacing" \in PC \ {"returned"}
    BY DEF PC
  <2> QED BY <1>6, <2>4, <2>5, WaitingKeeps DEF Refused
<1>7. CASE CutOff(w)
  BY <1>7, CutOffKeeps
<1> QED BY <1>1, <1>2, <1>3, <1>4, <1>5, <1>6, <1>7 DEF Work

LEMMA CooldownKeeps == ASSUME IInv, Cooldown PROVE IInv'
<1>1. resume' \in 0 .. MaxResumes
  BY CountsPositive DEF Cooldown, Resumable, IInv, TypeOK
<1>2. TypeOK'
  BY <1>1 DEF Cooldown, IInv, TypeOK
<1>3. Placed(queue', hand', Answers')
  BY DEF Cooldown, IInv, Answers
<1> QED BY <1>2, <1>3 DEF Cooldown, SweepOver, IInv, Answers

LEMMA ResumeKeeps == ASSUME IInv, Resume PROVE IInv'
<1>1. /\ queue \in Seq(Pools) /\ hand \in Hands /\ Placed(queue, hand, Answers)
      /\ Answers \subseteq Pools /\ \A w \in Worker : hand[w] = NoPool
  BY DEF IInv, TypeOK, Hands, Answers, Resume
<1>2. /\ hand' = Dealt(queue) /\ queue' = Rest(queue) /\ phase' = "sweep" /\ stop' = FALSE
      /\ pc' = [w \in Worker |-> IF w <= Len(queue) THEN "looking" ELSE "returned"]
      /\ attempt' = [w \in Worker |-> 0]
      /\ UNCHANGED <<resume, covered, missing, failed, done, blocked, skipped>>
  BY DEF Resume, Sweep, Dealt, Rest
<1>3. /\ hand' \in Hands /\ queue' \in Seq(Pools) /\ Placed(queue', hand', Answers)
      /\ \A w \in Worker : w <= Len(queue) <=> hand'[w] # NoPool
      /\ queue' # <<>> => \A w \in Worker : w <= Len(queue)
  BY <1>1, <1>2, Deal
<1>4. \A w \in Worker : pc'[w] = "returned" <=> ~(w <= Len(queue))
  BY <1>2
<1>5. Answers' = Answers
  BY <1>2 DEF Answers
<1>6. attempt' \in [Worker -> 0 .. MAX_TRIES - 1]
  <2>1. MAX_TRIES \in Nat /\ MAX_TRIES > 0
    BY CountsPositive
  <2> QED BY <2>1, <1>2
<1>7. pc' \in [Worker -> PC]
  BY <1>2 DEF PC
<1>8. TypeOK'
  BY <1>2, <1>3, <1>6, <1>7 DEF IInv, TypeOK, Hands
<1> QED BY <1>2, <1>3, <1>4, <1>5, <1>8 DEF IInv

LEMMA WorkersExist == 1 \in Worker
BY CountsPositive DEF Worker

\* A sweep that is over and was not cut off has emptied the queue.
LEMMA StoppedMeansLeft == ASSUME IInv, SweepOver PROVE stop <=> queue # <<>>
BY WorkersExist DEF IInv, SweepOver

LEMMA FinishKeeps == ASSUME IInv, Finish PROVE IInv'
<1>1. stop <=> queue # <<>>
  BY StoppedMeansLeft DEF Finish
<1>2. Queued \subseteq Pools
  BY DEF Queued, IInv, TypeOK
<1>3. phase' = "over" /\ blocked' = stop /\ skipped' = Queued
      /\ UNCHANGED <<resume, queue, stop, pc, hand, attempt, covered, missing, failed, done>>
  BY DEF Finish, Queued
<1>4. TypeOK'
  BY <1>2, <1>3 DEF IInv, TypeOK
<1>5. Placed(queue', hand', Answers')
  BY <1>3 DEF IInv, Answers
<1>6. Queued' = Queued
  BY <1>3 DEF Queued
<1> QED BY <1>1, <1>3, <1>4, <1>5, <1>6 DEF Finish, SweepOver, IInv, Answers

LEMMA NextInv == IInv /\ [Next]_vars => IInv'
<1> SUFFICES ASSUME IInv, [Next]_vars PROVE IInv'
  OBVIOUS
<1>1. ASSUME NEW w \in Worker, Work(w) PROVE IInv'
  BY <1>1, WorkKeeps
<1>2. CASE Cooldown
  BY <1>2, CooldownKeeps
<1>3. CASE Resume
  BY <1>3, ResumeKeeps
<1>4. CASE Finish
  BY <1>4, FinishKeeps
<1>5. CASE UNCHANGED vars
  BY <1>5 DEF IInv, TypeOK, Answers, Queued, vars
<1> QED BY <1>1, <1>2, <1>3, <1>4, <1>5 DEF Next

LEMMA SpecInv == Spec => []IInv
BY InitInv, NextInv, PTL DEF Spec

-----------------------------------------------------------------------------
(* What follows *)

LEMMA OneOfFive ==
    ASSUME NEW p, NEW A, NEW B, NEW C, NEW D, NEW E,
           \/ p \in A /\ p \notin B /\ p \notin C /\ p \notin D /\ p \notin E
           \/ p \in B /\ p \notin A /\ p \notin C /\ p \notin D /\ p \notin E
           \/ p \in C /\ p \notin A /\ p \notin B /\ p \notin D /\ p \notin E
           \/ p \in D /\ p \notin A /\ p \notin B /\ p \notin C /\ p \notin E
           \/ p \in E /\ p \notin A /\ p \notin B /\ p \notin C /\ p \notin D
    PROVE  \E x \in 1 .. 5 : p \in <<A, B, C, D, E>>[x]
             /\ \A y \in 1 .. 5 : y # x => p \notin <<A, B, C, D, E>>[y]
<1> DEFINE P == <<A, B, C, D, E>>
<1>1. P[1] = A /\ P[2] = B /\ P[3] = C /\ P[4] = D /\ P[5] = E
  OBVIOUS
<1>2. \A y \in 1 .. 5 : y = 1 \/ y = 2 \/ y = 3 \/ y = 4 \/ y = 5
  OBVIOUS
<1>3. 1 \in 1 .. 5 /\ 2 \in 1 .. 5 /\ 3 \in 1 .. 5 /\ 4 \in 1 .. 5 /\ 5 \in 1 .. 5
  OBVIOUS
<1> HIDE DEF P
<1>4. \E x \in 1 .. 5 : p \in P[x] /\ \A y \in 1 .. 5 : y # x => p \notin P[y]
  <2>1. CASE p \in A /\ p \notin B /\ p \notin C /\ p \notin D /\ p \notin E
    BY <2>1, <1>1, <1>2, <1>3
  <2>2. CASE p \in B /\ p \notin A /\ p \notin C /\ p \notin D /\ p \notin E
    BY <2>2, <1>1, <1>2, <1>3
  <2>3. CASE p \in C /\ p \notin A /\ p \notin B /\ p \notin D /\ p \notin E
    BY <2>3, <1>1, <1>2, <1>3
  <2>4. CASE p \in D /\ p \notin A /\ p \notin B /\ p \notin C /\ p \notin E
    BY <2>4, <1>1, <1>2, <1>3
  <2>5. CASE p \in E /\ p \notin A /\ p \notin B /\ p \notin C /\ p \notin D
    BY <2>5, <1>1, <1>2, <1>3
  <2> QED BY <2>1, <2>2, <2>3, <2>4, <2>5
<1> QED BY <1>4 DEF P

LEMMA InvOnce == IInv => EachPoolOnce
<1> SUFFICES ASSUME IInv PROVE EachPoolOnce
  OBVIOUS
<1>1. ASSUME NEW p \in Pools
      PROVE  \E x \in 1 .. 5 : p \in Places[x] /\ \A y \in 1 .. 5 : y # x => p \notin Places[y]
  <2>1. p \in Queued <=> \E i \in 1 .. Len(queue) : queue[i] = p
    BY DEF Queued
  <2>2. p \in Held <=> \E w \in Worker : hand[w] = p
    BY NoPoolIsNone DEF Held
  <2>3. /\ p \in Queued => p \notin Held /\ p \notin Answers
        /\ p \in Held => p \notin Answers
        /\ p \in Queued \/ p \in Held \/ p \in Answers
    BY <2>1, <2>2 DEF IInv, Placed
  <2>4. /\ p \in Answers <=> p \in covered \/ p \in missing \/ p \in failed
        /\ ~(p \in covered /\ p \in missing) /\ ~(p \in covered /\ p \in failed)
        /\ ~(p \in missing /\ p \in failed)
    BY DEF IInv, Answers
  <2> QED BY <2>3, <2>4, OneOfFive DEF Places
<1> QED BY <1>1 DEF EachPoolOnce, IInv, Placed

\* In the result a pool is skipped exactly when it has no answer.
LEMMA SkippedAreQueued ==
    ASSUME IInv, \A w \in Worker : hand[w] = NoPool
    PROVE  Queued = {p \in Pools : p \notin Answers}
<1>1. \A i \in 1 .. Len(queue) : queue[i] \in Pools /\ queue[i] \notin Answers
  BY DEF IInv, TypeOK, Placed
<1>2. ASSUME NEW p \in Pools, p \notin Answers PROVE p \in Queued
  BY <1>2, NoPoolIsNone DEF IInv, Placed, Queued
<1> QED BY <1>1, <1>2 DEF Queued

LEMMA InvAccounts == IInv => ResultAccountsForAll
<1> SUFFICES ASSUME IInv, phase = "over"
             PROVE  (blocked <=> skipped # {}) /\ covered \cup missing \cup failed \cup skipped = Pools
  BY DEF ResultAccountsForAll
<1>1. skipped = Queued /\ (blocked <=> queue # <<>>) /\ \A w \in Worker : hand[w] = NoPool
  BY DEF IInv
<1>2. Queued = {p \in Pools : p \notin Answers}
  BY <1>1, SkippedAreQueued
<1>3. queue # <<>> <=> Queued # {}
  <2>1. queue \in Seq(Pools)
    BY DEF IInv, TypeOK
  <2>2. queue # <<>> <=> Len(queue) # 0
    BY <2>1, EmptySeq
  <2>3. Len(queue) # 0 <=> 1 \in 1 .. Len(queue)
    BY <2>1
  <2>4. \A i \in 1 .. Len(queue) : 1 \in 1 .. Len(queue)
    BY <2>1
  <2> QED BY <2>2, <2>3, <2>4 DEF Queued
<1>4. Answers \subseteq Pools
  BY DEF IInv, TypeOK, Answers
<1> QED BY <1>1, <1>2, <1>3, <1>4 DEF Answers

\* Every variable keeps its type: no worker counts past its tries, no batch past its
\* resumes (volume.ts:268-298, 561-568).
THEOREM TypeCorrect == Spec => []TypeOK
BY SpecInv, PTL DEF IInv

\* Through stops, put-backs and resumes every pool is queued, in one hand, or filed once,
\* and what the result says of them is true (volume.ts:535-596).
THEOREM PoolsStayAccounted == Spec => []PoolsAccounted
<1>1. IInv => PoolsAccounted
  BY InvOnce, InvAccounts DEF PoolsAccounted
<1> QED BY <1>1, SpecInv, PTL

-----------------------------------------------------------------------------
(* The batch the caller sees *)

Headings == {"covered", "missing", "failed"}
HeadingMap == [p \in Pools |-> HeadingOf(p)]

LEMMA InitPromised == Init => Promised!Init
<1> SUFFICES ASSUME Init PROVE Promised!Init
  OBVIOUS
<1>1. \A p \in Pools : HeadingOf(p) = "none"
  BY DEF Init, HeadingOf
<1> QED BY <1>1 DEF Init, Promised!Init

LEMMA Unfiled ==
    ASSUME IInv, NEW p \in Pools
    PROVE  HeadingOf(p) = "none" <=> p \notin Answers
BY DEF HeadingOf, Answers

LEMMA FilingIsFile ==
    ASSUME IInv, NEW w \in Worker, pc[w] # "returned", done' = done + 1,
           UNCHANGED <<phase, blocked, skipped>>,
           \/ covered' = covered \cup {hand[w]} /\ UNCHANGED <<missing, failed>>
           \/ missing' = missing \cup {hand[w]} /\ UNCHANGED <<covered, failed>>
           \/ failed' = failed \cup {hand[w]} /\ UNCHANGED <<covered, missing>>
    PROVE  Promised!Next
<1>1. hand[w] \in Pools /\ hand[w] \notin Answers /\ phase = "sweep"
  BY DEF IInv, TypeOK, Placed
<1>2. HeadingOf(hand[w]) = "none"
  BY <1>1, Unfiled
<1>3. PICK k \in Headings : \A p \in Pools :
          HeadingOf(p)' = IF p = hand[w] THEN k ELSE HeadingOf(p)
  <2>1. hand[w] \notin covered /\ hand[w] \notin missing /\ hand[w] \notin failed
    BY <1>1 DEF Answers
  <2>2. CASE covered' = covered \cup {hand[w]} /\ UNCHANGED <<missing, failed>>
    <3>1. \A p \in Pools : HeadingOf(p)' = IF p = hand[w] THEN "covered" ELSE HeadingOf(p)
      BY <2>1, <2>2 DEF HeadingOf
    <3> QED BY <3>1 DEF Headings
  <2>3. CASE missing' = missing \cup {hand[w]} /\ UNCHANGED <<covered, failed>>
    <3>1. \A p \in Pools : HeadingOf(p)' = IF p = hand[w] THEN "missing" ELSE HeadingOf(p)
      BY <2>1, <2>3 DEF HeadingOf
    <3> QED BY <3>1 DEF Headings
  <2>4. CASE failed' = failed \cup {hand[w]} /\ UNCHANGED <<covered, missing>>
    <3>1. \A p \in Pools : HeadingOf(p)' = IF p = hand[w] THEN "failed" ELSE HeadingOf(p)
      BY <2>1, <2>4 DEF HeadingOf
    <3> QED BY <3>1 DEF Headings
  <2> QED BY <2>2, <2>3, <2>4
<1>4. [p \in Pools |-> HeadingOf(p)]' = [HeadingMap EXCEPT ![hand[w]] = k]
  BY <1>1, <1>3 DEF HeadingMap
<1>5. Promised!File(hand[w], k)
  BY <1>1, <1>2, <1>4 DEF Promised!File, HeadingMap
<1> QED BY <1>1, <1>5 DEF Promised!Next, Headings

LEMMA FinishIsClose == ASSUME IInv, Finish PROVE Promised!Next
<1>1. /\ phase = "sweep" /\ phase' = "over" /\ blocked' = stop /\ skipped' = Queued
      /\ UNCHANGED <<queue, covered, missing, failed, done>> /\ SweepOver
  BY DEF Finish, SweepOver, Queued
<1>2. \A w \in Worker : hand[w] = NoPool
  BY <1>1 DEF IInv, SweepOver
<1>3. Queued = {p \in Pools : p \notin Answers}
  BY <1>2, SkippedAreQueued
<1>4. {p \in Pools : [q \in Pools |-> HeadingOf(q)][p] = "none"} = Queued
  BY <1>3, Unfiled
<1>5. IInv'
  BY FinishKeeps
<1>6. blocked' <=> skipped' # {}
  <2>1. ResultAccountsForAll'
    BY <1>5, InvAccounts, PTL
  <2> QED BY <2>1, <1>1 DEF ResultAccountsForAll
<1>7. [p \in Pools |-> HeadingOf(p)]' = [p \in Pools |-> HeadingOf(p)]
  BY <1>1 DEF HeadingOf
<1>8. Promised!Close
  BY <1>1, <1>4, <1>6, <1>7 DEF Promised!Close
<1> QED BY <1>8 DEF Promised!Next

\* What touches neither answers nor result is not seen.
LEMMA Unseen ==
    ASSUME UNCHANGED <<covered, missing, failed, done, skipped>>,
           (phase' = "over") <=> (phase = "over"),
           (phase' = "over" /\ blocked') <=> (phase = "over" /\ blocked)
    PROVE  UNCHANGED Promised!vars
<1>1. [p \in Pools |-> HeadingOf(p)]' = [p \in Pools |-> HeadingOf(p)]
  BY DEF HeadingOf
<1>2. (phase = "over")' = (phase = "over") /\ (phase = "over" /\ blocked)' = (phase = "over" /\ blocked)
  OBVIOUS
<1> QED BY <1>1, <1>2 DEF Promised!vars

LEMMA StepPromised == IInv /\ [Next]_vars => [Promised!Next]_(Promised!vars)
<1> SUFFICES ASSUME IInv, [Next]_vars PROVE Promised!Next \/ UNCHANGED Promised!vars
  OBVIOUS
<1>1. ASSUME NEW w \in Worker, Work(w) PROVE Promised!Next \/ UNCHANGED Promised!vars
  <2>1. CASE CacheHit(w)
    BY <2>1, FilingIsFile DEF CacheHit, Filed
  <2>2. CASE Answered(w)
    BY <2>2, FilingIsFile DEF Answered, Filed
  <2>3. CASE Failed(w)
    BY <2>3, FilingIsFile DEF Failed
  <2>4. CASE CacheMiss(w)
    BY <2>4, Unseen DEF CacheMiss
  <2>5. CASE Ask(w)
    BY <2>5, Unseen DEF Ask
  <2>6. CASE Refused(w)
    BY <2>6, Unseen DEF Refused
  <2>7. CASE CutOff(w)
    BY <2>7, Unseen DEF CutOff
  <2> QED BY <1>1, <2>1, <2>2, <2>3, <2>4, <2>5, <2>6, <2>7 DEF Work
<1>2. CASE Cooldown
  BY <1>2, Unseen DEF Cooldown, SweepOver
<1>3. CASE Resume
  BY <1>3, Unseen DEF Resume, Sweep
<1>4. CASE Finish
  BY <1>4, FinishIsClose
<1>5. CASE UNCHANGED vars
  BY <1>5, Unseen DEF vars
<1> QED BY <1>1, <1>2, <1>3, <1>4, <1>5 DEF Next

\* The implementation of the batch: every step of the workers and sweeps files one pool,
\* closes the batch, or is not seen by the caller (volume.ts:443-458, 504-596).
THEOREM BatchImplemented == Spec => ImplementsBatch
BY InitPromised, StepPromised, SpecInv, PTL DEF Spec, ImplementsBatch, Promised!Spec
=============================================================================
