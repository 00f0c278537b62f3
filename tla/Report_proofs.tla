---------------------------- MODULE Report_proofs ----------------------------
(***************************************************************************)
(* Theorems about what the readers of PositionReader report.               *)
(*                                                                         *)
(* The events of v4 are fair when the position is read from its mint, and  *)
(* also when its payments have been read (TakesAre); its prices come from  *)
(* the states of blocks (ResolveIs, FeedV4).  SoundInv puts it together    *)
(* over ReaderInv.                                                         *)
(*                                                                         *)
(* Deposits are what the blocks spent when each mint is decoded by a tick  *)
(* that gives its amounts back, as every source does that is no guess:     *)
(* the block's own state, the mint's payment (TickOfMint, SpentIs) and the *)
(* last trade (SwapTickIs).  DepositInv has this over SoundInv.            *)
(*                                                                         *)
(* Payouts are what the blocks paid, whatever was pruned, because the chain*)
(* pays a change what the position has earned since the one before it      *)
(* (Accounts), and a complete walk from the mint on either has that payment*)
(* itself or the growth between the two, which the wrap does not disturb   *)
(* (GrowthBetween, EarnedIs, PaysAre).  PayoutInv has this over SoundInv.  *)
(*                                                                         *)
(* In a market that stands still inside the range every price is its tick  *)
(* (FlatPoints, FlatTicks), and what the blocks put in is what they took   *)
(* out and what is left (FlatBalance, by induction over the blocks), so    *)
(* that nothing is gained but fees (FlatUsd).  FlatInv has this over both. *)
(***************************************************************************)
EXTENDS Position_proofs

-----------------------------------------------------------------------------
(* Ticks and prices of v4 *)

Swap == [at : Nat, tick : PoolTicks]

LEMMA SwapsAre == ASSUME ChainInv, NEW h \in 1 .. Height PROVE SwapsTo(h) \in Seq(Swap)
<1> DEFINE one(b) == IF b > 1 /\ blocks[b].tick # blocks[b - 1].after
                     THEN <<[at |-> b, tick |-> blocks[b].tick]>> ELSE <<>>
           two(b) == IF blocks[b].after # blocks[b].tick
                     THEN <<[at |-> b, tick |-> blocks[b].after]>> ELSE <<>>
           s == [b \in 1 .. h |-> one(b) \o two(b)]
<1>1. h \in Nat /\ h >= 1 /\ Height \in Nat
  BY TipIs
<1>2. ASSUME NEW b \in 1 .. h PROVE one(b) \in Seq(Swap) /\ two(b) \in Seq(Swap)
  <2>1. blocks[b].tick \in PoolTicks /\ blocks[b].after \in PoolTicks /\ b \in Nat
    BY <1>1, BlockIs DEF Block, PoolTicks
  <2>2. [at |-> b, tick |-> blocks[b].tick] \in Swap /\ [at |-> b, tick |-> blocks[b].after] \in Swap
    BY <2>1 DEF Swap
  <2>3. \A a \in Swap : <<a>> \in Seq(Swap)
    OBVIOUS
  <2>4. <<>> \in Seq(Swap)
    OBVIOUS
  <2> QED BY <2>2, <2>3, <2>4
<1>3. SwapsTo(h) = FlattenSeq(s)
  BY DEF SwapsTo
<1> HIDE DEF one, two
<1>4. ASSUME NEW b \in 1 .. h PROVE one(b) \o two(b) \in Seq(Swap)
  BY <1>2
<1>5. s \in Seq(Seq(Swap)) /\ s # <<>>
  BY <1>1, <1>4
<1> HIDE DEF s
<1>6. FlattenSeq(s) \in Seq(Swap)
  BY <1>5, FlattenInOrder
<1> QED BY <1>3, <1>6

LEMMA SomeOf ==
    ASSUME NEW n \in Nat, NEW S \in SUBSET (1 .. n), S # {} PROVE Min(S) \in S /\ Max(S) \in S
<1>1. IsFiniteSet(S)
  <2>1. IsFiniteSet(1 .. n)
    BY FS_Interval
  <2> QED BY <2>1, FS_Subset
<1>2. S \subseteq Int
  OBVIOUS
<1> QED BY <1>1, <1>2, Ends

LEMMA LastTrade ==
    ASSUME NEW swaps \in Seq(Swap), NEW T, \A i \in 1 .. Len(swaps) : swaps[i].tick \in T, NEW b
    PROVE  tickAtBlockOrNull(swaps, b) \in T \cup {NoTick}
<1> DEFINE upTo == {i \in DOMAIN swaps : swaps[i].at <= b}
<1>1. PICK n \in Nat : n = Len(swaps) /\ DOMAIN swaps = 1 .. n
  OBVIOUS
<1>2. upTo \in SUBSET (1 .. n)
  BY <1>1
<1>3. tickAtBlockOrNull(swaps, b) = IF upTo = {} THEN NoTick ELSE swaps[Max(upTo)].tick
  BY DEF tickAtBlockOrNull
<1> HIDE DEF upTo
<1>4. upTo # {} => Max(upTo) \in 1 .. n
  BY <1>2, SomeOf
<1> QED BY <1>1, <1>3, <1>4

LEMMA FirstOfIs ==
    ASSUME NEW t, NEW n \in Nat, DOMAIN t = 1 .. n, NEW k \in 1 .. n, t[k] # NoTick
    PROVE  \E i \in 1 .. n : t[i] # NoTick /\ FirstOf(t) = t[i]
<1> DEFINE I == {i \in 1 .. n : t[i] # NoTick}
<1>1. I \in SUBSET (1 .. n) /\ I # {}
  OBVIOUS
<1>2. FirstOf(t) = t[Min(I)]
  BY DEF FirstOf
<1>3. Min(I) \in I
  <2> HIDE DEF I
  <2> QED BY <1>1, SomeOf
<1> QED BY <1>2, <1>3

\* A tick that a mint evidences is a tick of the range, and that of one of the block's mints.
Evidenced(r, spent, b, t) ==
    /\ b \in DOMAIN spent
    /\ \E i \in 1 .. Len(r) : r[i].block = b /\ r[i].delta > 0 /\ t = tickFromAmounts(spent[b], r[i].delta)

LEMMA ImpliedAre ==
    ASSUME NEW r \in Seq(RawEvent), NEW spent, \A b \in DOMAIN spent : spent[b] \in Amount
    PROVE  \A b \in DOMAIN impliedMintTicks(r, spent) :
              LET t == impliedMintTicks(r, spent)[b] IN t \in TickLower .. TickUpper /\ Evidenced(r, spent, b, t)
<1> DEFINE T(i) == tickFromAmounts(spent[r[i].block], r[i].delta)
           Good(i) == LET geo == amountsFromLiquidity(r[i].delta, T(i))
                          gt == spent[r[i].block]
                      IN  T(i) # NoTick /\ nearlyEqual(geo[1], gt[1]) /\ nearlyEqual(geo[2], gt[2])
           mints == {i \in DOMAIN r : r[i].delta > 0 /\ r[i].block \in DOMAIN spent /\ Good(i)}
           D == {r[i].block : i \in mints}
           m == [b \in D |-> T(Max({i \in mints : r[i].block = b}))]
<1>1. impliedMintTicks(r, spent) = m
  BY DEF impliedMintTicks
<1>2. PICK n \in Nat : n = Len(r) /\ DOMAIN r = 1 .. n /\ \A i \in 1 .. n : r[i] \in RawEvent
  OBVIOUS
<1>3. \A i \in mints : T(i) # NoTick /\ r[i].block \in DOMAIN spent /\ i \in 1 .. n
  <2> HIDE DEF T
  <2> QED BY <1>2
<1>4. \A i \in mints : Evidenced(r, spent, r[i].block, T(i))
  BY <1>2 DEF Evidenced
<1>5. ASSUME NEW i \in mints PROVE T(i) \in TickLower .. TickUpper
  <2>1. T(i) # NoTick /\ r[i].block \in DOMAIN spent /\ r[i] \in RawEvent
    BY <1>2, <1>3
  <2>2. spent[r[i].block] \in Amount /\ r[i].delta \in Int
    BY <2>1 DEF RawEvent
  <2>3. T(i) \in TickLower .. TickUpper \cup {NoTick}
    <3> DEFINE a == spent[r[i].block]
               d == r[i].delta
    <3>1. a \in Amount /\ d \in Int
      BY <2>2
    <3> HIDE DEF a, d
    <3>2. tickFromAmounts(a, d) \in TickLower .. TickUpper \cup {NoTick}
      BY <3>1, TickFromIs
    <3> QED BY <3>2 DEF a, d
  <2> HIDE DEF T
  <2> QED BY <2>1, <2>3
<1> HIDE DEF T, Good, mints
<1>6. ASSUME NEW b \in D PROVE m[b] \in TickLower .. TickUpper /\ Evidenced(r, spent, b, m[b])
  <2> DEFINE S == {i \in mints : r[i].block = b}
  <2>1. S # {} /\ S \in SUBSET (1 .. n)
    BY <1>3
  <2>2. Max(S) \in S
    <3> HIDE DEF S
    <3> QED BY <2>1, SomeOf
  <2>3. m[b] = T(Max(S))
    OBVIOUS
  <2> QED BY <1>4, <1>5, <2>2, <2>3
<1>7. DOMAIN m = D
  OBVIOUS
<1> HIDE DEF m, D
<1> QED BY <1>1, <1>6, <1>7

\* The first of two or of three that is something, when the last of them is.
LEMMA FirstOfTwo ==
    ASSUME NEW T, NoTick \notin T, NEW a \in T \cup {NoTick}, NEW b \in T
    PROVE  FirstOf(<<a, b>>) \in T
<1> DEFINE t == <<a, b>>
<1>1. DOMAIN t = 1 .. 2 /\ t[1] = a /\ t[2] = b /\ 2 \in Nat /\ 2 \in 1 .. 2 /\ t[2] # NoTick
  OBVIOUS
<1> HIDE DEF t
<1>2. \E i \in 1 .. 2 : t[i] # NoTick /\ FirstOf(t) = t[i]
  BY <1>1, FirstOfIs
<1>3. 1 .. 2 = {1, 2}
  OBVIOUS
<1>4. FirstOf(t) \in T
  BY <1>1, <1>2, <1>3
<1> QED BY <1>4 DEF t

LEMMA FirstOfThree ==
    ASSUME NEW T, NoTick \notin T, NEW a \in T \cup {NoTick}, NEW b \in T \cup {NoTick}, NEW c \in T
    PROVE  FirstOf(<<a, b, c>>) \in T
<1> DEFINE t == <<a, b, c>>
<1>1. DOMAIN t = 1 .. 3 /\ t[1] = a /\ t[2] = b /\ t[3] = c /\ 3 \in Nat /\ 3 \in 1 .. 3 /\ t[3] # NoTick
  OBVIOUS
<1> HIDE DEF t
<1>2. \E i \in 1 .. 3 : t[i] # NoTick /\ FirstOf(t) = t[i]
  BY <1>1, FirstOfIs
<1>3. 1 .. 3 = {1, 2, 3}
  OBVIOUS
<1>4. FirstOf(t) \in T
  BY <1>1, <1>2, <1>3
<1> QED BY <1>4 DEF t

\* What a block's tick is taken from, an estimate or not, is where the pool may be.
LEMMA SourceIs ==
    ASSUME ChainInv, head \in 1 .. Height, NEW b \in 1 .. Height, NEW gone, NEW implied,
           \A c \in DOMAIN implied : implied[c] \in TickLower .. TickUpper
    PROVE  TickSources(b, gone, implied).tick \in PoolTicks
<1>1. blocks[b].after \in PoolTicks /\ InitTick \in PoolTicks /\ TickLower .. TickUpper \subseteq PoolTicks
      /\ NoTick \notin PoolTicks
  BY BlockIs, ReaderAssumption, NoTickIsNone DEF Block, PoolTicks
<1>2. slot0TickAt(b, gone) \in PoolTicks \cup {NoTick}
  BY <1>1 DEF slot0TickAt
<1>3. swapTickAt(b) \in PoolTicks \cup {NoTick}
  <2>1. poolSwaps \in Seq(Swap)
    BY SwapsAre DEF poolSwaps
  <2>2. \A i \in 1 .. Len(poolSwaps) : poolSwaps[i].tick \in PoolTicks
    <3>1. \A i \in 1 .. Len(poolSwaps) : poolSwaps[i] \in Swap
      BY <2>1
    <3> QED BY <3>1 DEF Swap
  <2> HIDE DEF poolSwaps
  <2> QED BY <2>1, <2>2, LastTrade DEF swapTickAt
<1>4. FirstOf(<<swapTickAt(b), poolInitTick>>) \in PoolTicks
  BY <1>1, <1>3, FirstOfTwo DEF poolInitTick
<1>5. CASE slot0TickAt(b, gone) # NoTick
  BY <1>2, <1>5 DEF TickSources
<1>6. CASE slot0TickAt(b, gone) = NoTick /\ b \in DOMAIN implied
  BY <1>1, <1>6 DEF TickSources
<1>7. CASE slot0TickAt(b, gone) = NoTick /\ b \notin DOMAIN implied
  BY <1>4, <1>7 DEF TickSources
<1> QED BY <1>5, <1>6, <1>7

-----------------------------------------------------------------------------
(* The states of v4, and their prices *)

\* A block's state before it is priced.
ReadState == [tick : PoolTicks, price : {NoTick}, fg : GrowthRead]

LEMMA ReconciledIn ==
    ASSUME NEW B, NEW acc, acc \in [st : [B -> ReadState], fixed : Nat],
           NEW r, NEW i, r[i].block \in B, r[i].delta \in Int,
           NEW got, r[i].block \in DOMAIN got => got[r[i].block] \in Amount
    PROVE  /\ Reconciled(acc, r, got, i) \in [st : [B -> ReadState], fixed : Nat]
           /\ Reconciled(acc, r, got, i).fixed = 0 => Reconciled(acc, r, got, i) = acc
<1> DEFINE b == r[i].block
           t == tickFromAmounts(got[b], -r[i].delta)
           more == [acc.st EXCEPT ![b].tick = t]
<1>1. b \in B /\ -r[i].delta \in Int /\ acc.st \in [B -> ReadState] /\ acc.fixed \in Nat
      /\ (b \in DOMAIN got => got[b] \in Amount)
  OBVIOUS
<1>2. ASSUME Refuted(r, acc.st, got, i), t # NoTick PROVE more \in [B -> ReadState]
  <2>1. b \in DOMAIN got
    BY <1>2 DEF Refuted
  <2> DEFINE a == got[b]
             d == -r[i].delta
  <2>2. a \in Amount /\ d \in Int
    BY <1>1, <2>1
  <2> HIDE DEF a, d
  <2>3. tickFromAmounts(a, d) \in TickLower .. TickUpper \cup {NoTick}
    BY <2>2, TickFromIs
  <2>4. t \in PoolTicks
    BY <1>2, <2>3, NoTickIsNone DEF a, d
  <2> HIDE DEF t
  <2>5. acc.st[b] \in ReadState
    BY <1>1
  <2>6. [acc.st[b] EXCEPT !.tick = t] \in ReadState
    BY <2>4, <2>5 DEF ReadState
  <2> HIDE DEF b
  <2> QED BY <1>1, <2>6
<1> HIDE DEF more
<1>3. Reconciled(acc, r, got, i) =
        IF Refuted(r, acc.st, got, i) /\ t # NoTick THEN [st |-> more, fixed |-> acc.fixed + 1] ELSE acc
  BY DEF Reconciled, more
<1> HIDE DEF t, b
<1>4. acc.fixed + 1 # 0
  BY <1>1
<1> QED BY <1>1, <1>2, <1>3, <1>4

\* Whatever is refuted, every block keeps a tick where the pool may be, and nothing else changes;
\* when nothing is counted as refuted, nothing changes.
Reconciles(w, B, read) == w.st \in [B -> ReadState] /\ (w.fixed = 0 => w.st = read)

LEMMA ReconcileKeeps ==
    ASSUME NEW B, NEW r \in Seq(RawEvent), \A i \in 1 .. Len(r) : r[i].block \in B,
           NEW read \in [B -> ReadState], NEW got, \A b \in DOMAIN got : got[b] \in Amount
    PROVE  Reconciles(reconcileRemovalTicks(r, read, got), B, read)
<1> DEFINE A == {x \in [st : [B -> ReadState], fixed : Nat] : x.fixed = 0 => x.st = read}
           start == [st |-> read, fixed |-> 0]
           M(x, i) == Reconciled(x, r, got, i)
           Fold(f) == f = [i \in 0 .. Len(r) |-> IF i = 0 THEN start ELSE M(f[i - 1], i)]
<1>1. PICK n \in Nat : n = Len(r) /\ \A i \in 1 .. n : r[i] \in RawEvent /\ r[i].block \in B
  OBVIOUS
<1>2. start \in A
  OBVIOUS
<1>3. \A i \in 1 .. n : \A x \in A : M(x, i) \in A
  <2> SUFFICES ASSUME NEW i \in 1 .. n, NEW x \in A PROVE Reconciled(x, r, got, i) \in A
    OBVIOUS
  <2>1. r[i].block \in B /\ r[i].delta \in Int
    BY <1>1 DEF RawEvent
  <2>2. x \in [st : [B -> ReadState], fixed : Nat] /\ (x.fixed = 0 => x.st = read)
    OBVIOUS
  <2>3. /\ Reconciled(x, r, got, i) \in [st : [B -> ReadState], fixed : Nat]
        /\ Reconciled(x, r, got, i).fixed = 0 => Reconciled(x, r, got, i) = x
    BY <2>1, <2>2, ReconciledIn
  <2> QED BY <2>2, <2>3
<1>4. \A x \in A : x.st \in [B -> ReadState] /\ (x.fixed = 0 => x.st = read)
  OBVIOUS
<1> HIDE DEF start, M, A
<1>5. PICK h \in [0 .. n -> A] : Fold(h)
  <2> DEFINE G == [x \in (1 .. n) \X A |-> M(x[2], x[1])]
  <2>1. \A i \in 1 .. n : \A x \in A : G[<<i, x>>] = M(x, i)
    OBVIOUS
  <2>2. \A i \in 1 .. n : \A x \in A : G[<<i, x>>] \in A
    <3> HIDE DEF G
    <3> QED BY <1>3, <2>1
  <2> HIDE DEF G
  <2>3. PICK h \in [0 .. n -> A] : Recursion(h, n, start, G)
    BY <1>2, <2>2, RecursionExists
  <2>4. \A i \in 0 .. n : i # 0 => i \in 1 .. n /\ h[i - 1] \in A
    BY <1>1
  <2>5. h = [i \in 0 .. n |-> IF i = 0 THEN start ELSE G[<<i, h[i - 1]>>]]
    BY <2>3 DEF Recursion
  <2>6. \A i \in 0 .. n : h[i] = IF i = 0 THEN start ELSE M(h[i - 1], i)
    BY <2>1, <2>4, <2>5
  <2>7. h = [i \in 0 .. n |-> IF i = 0 THEN start ELSE M(h[i - 1], i)]
    BY <2>6
  <2> QED BY <1>1, <2>7
<1>6. PICK f : Fold(f) /\ reconcileRemovalTicks(r, read, got) = f[n]
  <2>1. reconcileRemovalTicks(r, read, got) = (CHOOSE f : Fold(f))[n]
    BY <1>1 DEF reconcileRemovalTicks, start, M
  <2> HIDE DEF Fold
  <2> QED BY <1>5, <2>1
<1>7. f[0] = start /\ \A i \in 1 .. n : f[i] = M(f[i - 1], i)
  <2>1. \A g : Fold(g) => g[0] = start /\ \A i \in 1 .. n : g[i] = M(g[i - 1], i)
    BY <1>1
  <2> HIDE DEF Fold
  <2> QED BY <1>6, <2>1
<1> HIDE DEF Fold
<1>8. \A i \in 0 .. n : f[i] \in A
  <2> DEFINE P == {i \in 0 .. n : f[i] \in A}
  <2>1. 0 \in P
    BY <1>1, <1>2, <1>7
  <2>2. ASSUME NEW i \in 0 .. n - 1, i \in P PROVE i + 1 \in P
    <3>1. i + 1 \in 1 .. n /\ (i + 1) - 1 = i /\ i + 1 \in 0 .. n
      BY <1>1
    <3> QED BY <1>3, <1>7, <2>2, <3>1
  <2> HIDE DEF P
  <2>3. \A i \in 0 .. n : i \in P
    BY <1>1, <2>1, <2>2, CountUp
  <2> QED BY <2>3 DEF P
<1>9. n \in 0 .. n
  BY <1>1
<1> QED BY <1>4, <1>6, <1>8, <1>9 DEF Reconciles

\* States of blocks each of which has a price that is one.
PriceOf(x) == IF x.price # NoTick THEN x.price ELSE x.tick
Priced(s) == \A b \in DOMAIN s : isPriceableTick(PriceOf(s[b]))
RealTicks == {t \in Int : isPriceableTick(t)}

LEMMA RealIs == NoTick \notin RealTicks /\ TickLower .. TickUpper \subseteq RealTicks
<1>1. NoTick \notin RealTicks
  BY TicksOrdered DEF RealTicks, NoTick, isPriceableTick
<1>2. TickLower .. TickUpper \subseteq RealTicks
  BY RangePriced DEF RealTicks
<1> QED BY <1>1, <1>2

\* A block at the AMM's limit gets a price from whichever source has one.
LEMMA ResolveIs ==
    ASSUME NEW D, IsFiniteSet(D), D \subseteq Nat, NEW s \in [D -> ReadState],
           NEW swaps \in Seq(Swap)
    PROVE  LET p == resolvePriceTicks(s, swaps).st IN
           DOMAIN p = D /\ Priced(p) /\ \A b \in D : p[b].tick \in PoolTicks
<1> DEFINE I == {i \in DOMAIN swaps : isPriceableTick(swaps[i].tick)}
           traded == Picked(swaps, I)
           pinned == {b \in D : ~isPriceableTick(s[b].tick)}
           good(b) == {g \in D \ pinned : g < b}
           LastGood(b) == IF good(b) = {} THEN NoTick ELSE s[Max(good(b))].tick
           trade(b) == tickAtBlockOrNull(traded, b)
           price(b) == FirstOf(<<trade(b), LastGood(b), Clamp(s[b].tick)>>)
           p == [b \in D |-> IF b \in pinned THEN [s[b] EXCEPT !.price = price(b)] ELSE s[b]]
<1>1. DOMAIN s = D /\ \A b \in D : s[b] \in ReadState /\ s[b].tick \in PoolTicks /\ s[b].price = NoTick
                                   /\ s[b].tick \in Int
  <2>1. \A x \in ReadState : x.tick \in PoolTicks /\ x.price = NoTick /\ x.tick \in Int
    <3>1. \A x \in ReadState : x.tick \in PoolTicks /\ x.price = NoTick
      BY DEF ReadState
    <3>2. \A n \in PoolTicks : n \in Int
      BY NoTickIsNone
    <3> QED BY <3>1, <3>2
  <2> QED BY <2>1
<1>2. resolvePriceTicks(s, swaps).st = p
  BY <1>1 DEF resolvePriceTicks
<1>3. ASSUME NEW b \in D PROVE trade(b) \in RealTicks \cup {NoTick}
  <2>1. PICK k : traded \in Seq(Swap) /\ Order(k, traded, swaps, I)
    BY PickedInOrder
  <2>2. \A i \in 1 .. Len(traded) : traded[i].tick \in RealTicks
    <3> SUFFICES ASSUME NEW i \in 1 .. Len(traded) PROVE traded[i].tick \in RealTicks
      OBVIOUS
    <3>1. traded[i] \in Swap
      BY <2>1
    <3>2. traded[i] = swaps[k[i]] /\ k[i] \in I
      <4> HIDE DEF I, traded
      <4> QED BY <2>1 DEF Order
    <3>3. isPriceableTick(swaps[k[i]].tick)
      BY <3>2
    <3> HIDE DEF traded
    <3>4. traded[i].tick \in PoolTicks
      BY <3>1 DEF Swap
    <3>5. \A n \in PoolTicks : n \in Int
      BY NoTickIsNone
    <3> QED BY <3>2, <3>3, <3>4, <3>5 DEF RealTicks
  <2> HIDE DEF traded
  <2> QED BY <2>1, <2>2, LastTrade
<1>4. ASSUME NEW b \in D PROVE LastGood(b) \in RealTicks \cup {NoTick}
  <2>1. CASE good(b) = {}
    BY <2>1
  <2>2. CASE good(b) # {}
    <3>1. good(b) \subseteq D /\ good(b) \subseteq Int
      OBVIOUS
    <3>2. IsFiniteSet(good(b))
      BY <3>1, FS_Subset
    <3>3. \A g \in good(b) : s[g].tick \in RealTicks
      BY <1>1 DEF RealTicks
    <3>4. LastGood(b) = s[Max(good(b))].tick
      BY <2>2
    <3> HIDE DEF good, LastGood
    <3>5. Max(good(b)) \in good(b)
      BY <2>2, <3>1, <3>2, Ends
    <3> QED BY <3>3, <3>4, <3>5
  <2> QED BY <2>1, <2>2
<1>5. ASSUME NEW b \in D PROVE Clamp(s[b].tick) \in RealTicks
  BY <1>1, ClampIn, RealIs
<1>6. ASSUME NEW b \in D PROVE price(b) \in RealTicks
  <2> HIDE DEF trade, LastGood
  <2> QED BY <1>3, <1>4, <1>5, RealIs, FirstOfThree
<1> HIDE DEF price
<1>7. ASSUME NEW b \in pinned
      PROVE  p[b].price = price(b) /\ p[b].tick = s[b].tick
  BY <1>1 DEF ReadState
<1>8. ASSUME NEW b \in D \ pinned PROVE p[b] = s[b]
  OBVIOUS
<1>9. DOMAIN p = D /\ pinned \subseteq D /\ \A b \in D \ pinned : isPriceableTick(s[b].tick)
  OBVIOUS
<1> HIDE DEF p, pinned
<1>10. ASSUME NEW b \in D PROVE isPriceableTick(PriceOf(p[b])) /\ p[b].tick \in PoolTicks
  <2>1. CASE b \in pinned
    BY <1>1, <1>6, <1>7, <2>1, RealIs DEF PriceOf, RealTicks
  <2>2. CASE b \notin pinned
    BY <1>1, <1>8, <1>9, <2>2 DEF PriceOf
  <2> QED BY <2>1, <2>2
<1> QED BY <1>2, <1>9, <1>10 DEF Priced

\* The feed of v4 has, for every time, the price of one of the blocks it is made from.
LEMMA FeedV4 ==
    ASSUME NEW s, IsFiniteSet(DOMAIN s), DOMAIN s \subseteq Nat, DOMAIN s # {},
           NEW upTo \in Nat, NEW at \in 0 .. upTo
    PROVE  \E b \in DOMAIN s : buildV4PriceFeed(s, upTo)[at] = PriceOf(s[b])
<1> DEFINE before == {b \in DOMAIN s : b <= at}
           b == IF before = {} THEN Min(DOMAIN s) ELSE Max(before)
<1>1. buildV4PriceFeed(s, upTo)[at] = IF s[b].price # NoTick THEN s[b].price ELSE s[b].tick
  BY DEF buildV4PriceFeed
<1>2. before \subseteq DOMAIN s /\ before \subseteq Int /\ DOMAIN s \subseteq Int
  OBVIOUS
<1>3. IsFiniteSet(before)
  BY <1>2, FS_Subset
<1>4. b \in DOMAIN s
  <2>1. before # {} => Max(before) \in before
    <3> HIDE DEF before
    <3> QED BY <1>2, <1>3, Ends
  <2>2. Min(DOMAIN s) \in DOMAIN s
    BY <1>2, Ends
  <2> QED BY <1>2, <2>1, <2>2
<1> HIDE DEF b
<1> QED BY <1>1, <1>4 DEF PriceOf

\* What the reader makes of the node's answers.
LEMMA StatesTyped ==
    ASSUME ReaderInv, LogsRead(blocks), version = "v4", NEW native \in BOOLEAN, NEW unread,
           NEW gone, NEW tickGone, StatesOf(ownerFlows(native, unread), gone, tickGone)
    PROVE  /\ st' \in [Txs -> ReadState] /\ Txs \subseteq 1 .. Height
           /\ DOMAIN received' \subseteq Txs
           /\ \A b \in DOMAIN received' :
                received'[b] \in Amount /\ (blocks[b].spent = Zero => received'[b] = blocks[b].paid)
           /\ ticksOk' => \A b \in Txs :
                LET source == TickSources(b, tickGone, impliedMintTicks(raw, outflowsOf(ownerFlows(native, unread))))
                IN  ~source.guessed /\ st'[b].tick = source.tick /\ st'[b].fg = feeGrowthAt(b, gone)
<1> DEFINE flows == ownerFlows(native, unread)
           implied == impliedMintTicks(raw, outflowsOf(flows))
           source == [b \in Txs |-> TickSources(b, tickGone, implied)]
           read == [b \in Txs |-> [tick |-> source[b].tick, price |-> NoTick, fg |-> feeGrowthAt(b, gone)]]
<1>1. ChainInv /\ head \in 1 .. Height /\ RawOf(blocks, raw, Mod(blocks, head, ctx))
  BY DEF ReaderInv, LogsRead, Height
<1>2. Txs = TxsOf(raw) /\ Txs \subseteq 1 .. Height
  <2>1. Mod(blocks, head, ctx) \subseteq 1 .. Height
    BY <1>1, TipIs DEF Mod
  <2> QED BY <1>1, <2>1, TxsAre
<1>3. raw \in Seq(RawEvent) /\ \A i \in 1 .. Len(raw) : raw[i].block \in Txs
  BY <1>1, <1>2 DEF RawOf, TxsOf
<1>4. /\ DOMAIN flows \subseteq Txs
      /\ \A b \in DOMAIN flows : flows[b] \in Int \X Int
      /\ \A b \in DOMAIN flows : blocks[b].spent = Zero => flows[b] = blocks[b].paid
  BY <1>1, <1>2, FlowsAre
<1> HIDE DEF flows
<1>5. /\ DOMAIN inflowsOf(flows) \subseteq DOMAIN flows
      /\ \A b \in DOMAIN inflowsOf(flows) :
           inflowsOf(flows)[b] = flows[b] /\ inflowsOf(flows)[b] \in Amount
  BY <1>4, InflowsAre
<1>6. \A b \in DOMAIN outflowsOf(flows) : outflowsOf(flows)[b] \in Amount
  BY <1>4, OutflowsAre
<1>7. \A c \in DOMAIN implied : implied[c] \in TickLower .. TickUpper
  BY <1>3, <1>6, ImpliedAre
<1> HIDE DEF implied
<1>8. \A b \in Txs : source[b].tick \in PoolTicks
  BY <1>1, <1>2, <1>7, SourceIs
<1>9. \A b \in Txs : feeGrowthAt(b, gone) \in GrowthRead
  BY <1>1, <1>2, GrowthIs DEF feeGrowthAt, GrowthRead
<1>10. read \in [Txs -> ReadState]
  <2> HIDE DEF source
  <2> QED BY <1>8, <1>9 DEF ReadState
<1>11. /\ received' = inflowsOf(flows)
       /\ st' = reconcileRemovalTicks(raw, read, inflowsOf(flows)).st
       /\ ticksOk' => /\ reconcileRemovalTicks(raw, read, inflowsOf(flows)).fixed = 0
                      /\ \A b \in Txs : ~TickSources(b, tickGone, implied).guessed
  BY DEF StatesOf, flows, implied
<1>12. \A b \in Txs : read[b].tick = TickSources(b, tickGone, implied).tick /\ read[b].fg = feeGrowthAt(b, gone)
  OBVIOUS
<1> HIDE DEF read, source
<1>13. st' \in [Txs -> ReadState] /\ (ticksOk' => st' = read)
  <2> DEFINE got == inflowsOf(flows)
             w == reconcileRemovalTicks(raw, read, got)
  <2>1. \A b \in DOMAIN got : got[b] \in Amount
    BY <1>5
  <2>2. st' = w.st /\ (ticksOk' => w.fixed = 0)
    BY <1>11
  <2> HIDE DEF got
  <2>3. Reconciles(w, Txs, read)
    BY <1>3, <1>10, <2>1, ReconcileKeeps
  <2> HIDE DEF w
  <2> QED BY <2>2, <2>3 DEF Reconciles
<1> QED BY <1>2, <1>4, <1>5, <1>11, <1>12, <1>13 DEF implied, flows

-----------------------------------------------------------------------------
(* What is reported *)

Withdrawn(events) == Total([i \in withdrawals(events) |-> events[i].amt])
Fees(events) == Total([i \in feeClaims(events) |-> FeeOf(events, i)])

LEMMA ReportSays ==
    ASSUME NEW events, NEW feed, NEW known, Report(events, feed, known)
    PROVE  /\ result'.open = IsOpen /\ result'.feed = feed
           /\ result'.times = {events[i].at : i \in DOMAIN events}
           /\ result'.pnl.fees = Fees(events) /\ result'.pnl.withdrawn = Withdrawn(events)
<1> DEFINE p == computePnL(events, feed, meta.pair = "anchor0")
<1>1. p.fees = Fees(events) /\ p.withdrawn = Withdrawn(events)
  BY DEF computePnL, Fees, Withdrawn
<1> HIDE DEF p
<1>2. result' = [pnl |-> p, open |-> IsOpen, feed |-> feed, now |-> Height, exit |-> exitTxHash(events),
                 times |-> {events[i].at : i \in DOMAIN events}]
  BY DEF Report, p
<1> QED BY <1>1, <1>2

LEMMA FeesAre == ASSUME NEW events, Fair(events) PROVE Fees(events) \in Amount
BY ClaimsAre DEF Fees

LEMMA SoundReport ==
    ASSUME NEW events \in Seq(AnyEvent), NEW feed, NEW known, Report(events, feed, known)
    PROVE  /\ (\A i \in 1 .. Len(events) : isPriceableTick(feed[events[i].at])) => PricedForReal'
           /\ Fair(events) => result'.pnl.fees \in Amount
<1>1. ASSUME \A i \in 1 .. Len(events) : isPriceableTick(feed[events[i].at]) PROVE PricedForReal'
  <2>1. DOMAIN events = 1 .. Len(events)
    OBVIOUS
  <2>2. result'.feed = feed /\ result'.times = {events[i].at : i \in DOMAIN events}
    BY ReportSays
  <2> QED BY <1>1, <2>1, <2>2 DEF PricedForReal
<1>2. ASSUME Fair(events) PROVE result'.pnl.fees \in Amount
  BY <1>2, FeesAre, ReportSays
<1> QED BY <1>1, <1>2

\* What the reader has read, besides its logs.
MetaRead == meta.owed \in Amount /\ meta.liq \in Nat

LEMMA V3Placed ==
    ASSUME ChainInv, NEW r, r # <<>>, NEW S \in SUBSET (1 .. Height), EventsOf(blocks, r, S)
    PROVE  /\ Placed(r, Height) /\ Fair(r)
           /\ \A i \in 1 .. Len(r) :
                 r[i].kind # "collect" => impliedEventPrice(r[i]) \in TickLower .. TickUpper \cup {NoTick}
<1>1. Height \in Nat /\ r \in Seq(AnyEvent)
  BY TipIs DEF EventsOf
<1>2. Fair(r)
  BY EventsFair
<1>3. ASSUME NEW i \in 1 .. Len(r)
      PROVE  /\ r[i].tx = r[i].at /\ r[i].at \in 1 .. Height
             /\ r[i].kind # "collect" => impliedEventPrice(r[i]) \in TickLower .. TickUpper \cup {NoTick}
  <2> DEFINE e == r[i]
             x == blocks[e.tx]
  <2>1. e.tx \in 1 .. Height /\ From(x, e) /\ e \in AnyEvent
    <3>1. e \in AnyEvent
      BY <1>1
    <3>2. e.tx \in S /\ From(x, e)
      BY DEF EventsOf
    <3> QED BY <3>1, <3>2
  <2>2. x.tick \in Int
    BY <2>1, BlockIs, NoTickIsNone DEF Block, PoolTicks
  <2> HIDE DEF e, x
  <2>3. e.kind # "collect" => impliedEventPrice(e) \in TickLower .. TickUpper \cup {NoTick}
    <3> SUFFICES ASSUME e.kind # "collect" PROVE impliedEventPrice(e) \in TickLower .. TickUpper \cup {NoTick}
      OBVIOUS
    <3>1. e.liq \in Nat \ {0} /\ e.amt = amountsFromLiquidity(e.liq, x.tick)
      BY <2>1 DEF From, AnyEvent
    <3> QED BY <2>2, <3>1, EvidenceIs
  <2>4. e.tx = e.at
    BY <2>1 DEF From
  <2> QED BY <2>1, <2>3, <2>4 DEF e
<1>4. Placed(r, Height)
  BY <1>1, <1>3 DEF Placed, Ordered, EventsOf
<1> QED BY <1>2, <1>3, <1>4

LEMMA ExitIs ==
    ASSUME NEW r, r \in Seq(AnyEvent), NEW T,
           \A i \in 1 .. Len(r) : r[i].kind # "collect" => impliedEventPrice(r[i]) \in T \cup {NoTick}
    PROVE  closedExitPrice(r) \in T \cup {NoTick}
<1> DEFINE B == {i \in DOMAIN r : r[i].kind = "decrease" /\ r[i].liq > 0}
<1>1. PICK n \in Nat : n = Len(r) /\ DOMAIN r = 1 .. n
  OBVIOUS
<1>2. B \in SUBSET (1 .. n) /\ B = Burns(r) /\ \A i \in B : r[i].kind # "collect"
  BY <1>1 DEF Burns
<1> HIDE DEF B
<1>3. B # {} => Max(B) \in B
  BY <1>2, SomeOf
<1>4. LastBurn(r) = IF B = {} THEN 0 ELSE Max(B)
  BY <1>2 DEF LastBurn, LastOf
<1>5. closedExitPrice(r) = IF LastBurn(r) = 0 THEN NoTick ELSE impliedEventPrice(r[LastBurn(r)])
  BY DEF closedExitPrice
<1>6. CASE B = {}
  BY <1>4, <1>5, <1>6
<1>7. CASE B # {}
  <2>1. Max(B) \in 1 .. n /\ r[Max(B)].kind # "collect" /\ Max(B) # 0
    BY <1>2, <1>3, <1>7
  <2> QED BY <1>1, <1>4, <1>5, <1>7, <2>1
<1> QED BY <1>6, <1>7

LEMMA V3Reported ==
    ASSUME ReaderInv, MetaRead, EventsOf(blocks, raw, Mod(blocks, head, ctx)), FinishV3
    PROVE  PricedForReal' /\ result'.pnl.fees \in Amount
<1> DEFINE cur == amountsFromLiquidity(meta.liq, Tip.after)
           events == IF IsOpen THEN raw \o Synthetic(cur, meta.owed) ELSE raw
           live == IsOpen \/ closedExitPrice(events) = NoTick
           mark == IF live THEN pricingTick(Tip.after) ELSE closedExitPrice(events)
           markAt == events[Len(events)].at
<1>1. ChainInv /\ raw # <<>> /\ Mod(blocks, head, ctx) \in SUBSET (1 .. Height) /\ Height \in Nat
  BY TipIs DEF ReaderInv, LogsRead, FinishV3, Mod, Height
<1>2. Tip.after \in PoolTicks /\ Tip.after \in Int
  BY <1>1, TipIs, NoTickIsNone DEF Block, PoolTicks
<1>3. /\ Placed(raw, Height) /\ Fair(raw)
      /\ \A i \in 1 .. Len(raw) :
            raw[i].kind # "collect" => impliedEventPrice(raw[i]) \in TickLower .. TickUpper \cup {NoTick}
  BY <1>1, V3Placed
<1>4. cur \in Amount /\ meta.owed \in Amount
  BY <1>2, AmountsAre DEF MetaRead
<1> HIDE DEF cur
<1>5. /\ Ordered(events) /\ Fair(events)
      /\ \A i \in 1 .. Len(events) : events[i].tx # Open /\ events[i].kind # "collect" =>
            impliedEventPrice(events[i]) \in TickLower .. TickUpper \cup {NoTick}
  <2>1. CASE IsOpen
    <3> DEFINE E == raw \o Synthetic(cur, meta.owed)
    <3>1. Ordered(E) /\ Marked(raw, E, cur, meta.owed) /\ Fair(E)
      BY <1>1, <1>3, <1>4, SyntheticIs
    <3> HIDE DEF E
    <3>2. PICK n \in Nat : n = Len(raw)
      BY <1>3 DEF Placed, Ordered
    <3>3. /\ Len(E) = n + 2 /\ E[n + 1].tx = Open /\ E[n + 2].tx = Open
          /\ \A i \in 1 .. n : E[i] = raw[i]
      BY <3>1, <3>2 DEF Marked
    <3>4. \A i \in 1 .. n + 2 : i \in 1 .. n \/ i = n + 1 \/ i = n + 2
      BY <3>2
    <3>5. \A i \in 1 .. Len(E) : E[i].tx # Open /\ E[i].kind # "collect" =>
            impliedEventPrice(E[i]) \in TickLower .. TickUpper \cup {NoTick}
      BY <1>3, <3>2, <3>3, <3>4
    <3> QED BY <2>1, <3>1, <3>5 DEF E
  <2>2. CASE ~IsOpen
    BY <1>3, <2>2 DEF Placed
  <2> QED BY <2>1, <2>2
<1>6. Report(events, buildImpliedPriceFeed(events, mark, markAt), TRUE)
  BY DEF FinishV3, cur
<1>7. ~live => ~IsOpen
  OBVIOUS
<1>8. isPriceableTick(mark)
  <2>1. CASE live
    BY <1>2, <2>1, PricingIs
  <2>2. CASE ~live
    <3>1. events = raw /\ closedExitPrice(events) # NoTick /\ mark = closedExitPrice(events)
      BY <2>2
    <3>2. closedExitPrice(raw) \in TickLower .. TickUpper \cup {NoTick}
      <4>1. raw \in Seq(AnyEvent)
        BY <1>3 DEF Placed, Ordered
      <4> QED BY <1>3, <4>1, ExitIs
    <3>3. mark \in TickLower .. TickUpper
      BY <3>1, <3>2
    <3> HIDE DEF mark
    <3> QED BY <3>3, RangePriced
  <2> QED BY <2>1, <2>2
<1> HIDE DEF events, mark
<1>9. \A i \in 1 .. Len(events) : isPriceableTick(buildImpliedPriceFeed(events, mark, markAt)[events[i].at])
  BY <1>5, <1>8, FeedPriced
<1>10. events \in Seq(AnyEvent)
  BY <1>5 DEF Ordered
<1> HIDE DEF markAt
<1> QED BY <1>5, <1>6, <1>9, <1>10, SoundReport

\* The blocks read are all there were since the mint, with one change in each.
ReadFromMint(bl) ==
    version = "v4" => OneEach(bl, Mod(bl, head, ctx)) /\ FromMint(Mod(bl, head, ctx))

\* The events that are made of the raw ones, the walk that makes them, and where they are.
Decoding(f, ev) ==
    /\ Walking(f, raw, st, received) /\ buildV4Events(raw, st, received) = f[Len(raw)]
    /\ ev = f[Len(raw)].events /\ Placed(ev, Height)
    /\ ReadFromMint(blocks) => Fair(ev)

LEMMA DecodingIs ==
    ASSUME ReaderInv, pc = "now", version = "v4", st \in [Txs -> ReadState]
    PROVE  \E f, ev : Decoding(f, ev)
<1> DEFINE S == Mod(blocks, head, ctx)
<1>1. ChainInv /\ raw # <<>> /\ S \in SUBSET (1 .. Height) /\ RawOf(blocks, raw, S) /\ Height \in Nat
  BY TipIs DEF ReaderInv, LogsRead, Mod, Height
<1>2. raw \in Seq(RawEvent) /\ Txs = TxsOf(raw) /\ Txs \subseteq 1 .. Height
  <2>1. Txs = TxsOf(raw) /\ Txs \subseteq S
    BY <1>1, TxsAre
  <2> QED BY <1>1, <2>1 DEF RawOf
<1>3. Readings(raw, st, received)
  <2>1. \A i \in 1 .. Len(raw) : raw[i].block \in Txs
    BY <1>2 DEF TxsOf
  <2>2. \A b \in Txs : st[b].tick \in PoolTicks /\ st[b].fg \in GrowthRead
    <3>1. \A x \in ReadState : x.tick \in PoolTicks /\ x.fg \in GrowthRead
      BY DEF ReadState
    <3> QED BY <3>1
  <2>3. \A b \in DOMAIN received : received[b] \in Amount
    BY DEF ReaderInv, StatesRead
  <2> QED BY <1>1, <1>2, <2>1, <2>2, <2>3 DEF Readings
<1>4. PICK f \in [0 .. Len(raw) -> Walk] :
        Walks(f, raw, st, received) /\ buildV4Events(raw, st, received) = f[Len(raw)]
  BY <1>3, WalkSteps
<1>5. Walking(f, raw, st, received)
  BY <1>3, <1>4 DEF Walking
<1> DEFINE ev == f[Len(raw)].events
<1>6. \A i, j \in 1 .. Len(raw) : i < j => raw[i].block <= raw[j].block
  <2> SUFFICES ASSUME NEW i \in 1 .. Len(raw), NEW j \in 1 .. Len(raw), i < j
               PROVE  raw[i].block <= raw[j].block
    OBVIOUS
  <2>1. raw[i].block \in Nat /\ raw[j].block \in Nat
    <3>1. raw[i] \in RawEvent /\ raw[j] \in RawEvent
      BY <1>2
    <3> QED BY <3>1 DEF RawEvent
  <2>2. raw[i].block < raw[j].block \/ raw[i].block = raw[j].block
    BY <1>1 DEF RawOf
  <2> QED BY <2>1, <2>2
<1>7. Placed(ev, Height)
  <2>1. /\ ev \in Seq(AnyEvent) /\ ev # <<>>
        /\ \A i \in 1 .. Len(ev) : ev[i].tx = ev[i].at /\ ev[i].at \in TxsOf(raw)
        /\ \A i, j \in 1 .. Len(ev) : i < j => ev[i].at <= ev[j].at
    BY <1>5, <1>6, WalkPlaced
  <2> HIDE DEF ev
  <2> QED BY <1>2, <2>1 DEF Placed, Ordered
<1>8. ASSUME ReadFromMint(blocks) PROVE Fair(ev)
  <2>1. OneEach(blocks, S) /\ FromMint(S)
    BY <1>8 DEF ReadFromMint
  <2> HIDE DEF S
  <2>2. Decoded(f, raw, received)
    BY <1>1, <1>5, <2>1, MintDecoded
  <2>3. \A i, j \in 1 .. Len(raw) : i < j => raw[i].block < raw[j].block
    BY <1>1, <2>1, RawRises
  <2> QED BY <1>5, <2>2, <2>3, WalkFair
<1> HIDE DEF ev
<1>9. Decoding(f, ev)
  BY <1>4, <1>5, <1>7, <1>8 DEF Decoding, ev
<1> QED BY <1>9

\* The states the prices are taken from: those of the logs' blocks, and of the tip.
WithNow ==
    IF ~IsOpen THEN st
    ELSE [b \in DOMAIN st \cup {Height} |->
            IF b = Height THEN [tick |-> Tip.after, price |-> NoTick, fg |-> FeeGrowthInside(Height)]
            ELSE st[b]]

LEMMA WithNowIs ==
    ASSUME ChainInv, Txs \subseteq 1 .. Height, st \in [Txs -> ReadState]
    PROVE  \E D : /\ WithNow \in [D -> ReadState] /\ Txs \subseteq D /\ D \subseteq 1 .. Height
                  /\ IsFiniteSet(D)
<1> DEFINE D == IF IsOpen THEN Txs \cup {Height} ELSE Txs
           now == [tick |-> Tip.after, price |-> NoTick, fg |-> FeeGrowthInside(Height)]
<1>1. Height \in 1 .. Height /\ Tip = blocks[Height] /\ Height \in Nat
  BY TipIs DEF ChainInv
<1>2. now \in ReadState
  <2>1. Tip.after \in PoolTicks /\ FeeGrowthInside(Height) \in GrowthRead
    BY <1>1, GrowthIs DEF GrowthRead
  <2> QED BY <2>1 DEF ReadState
<1> HIDE DEF now
<1>3. DOMAIN st = Txs /\ \A b \in Txs : st[b] \in ReadState
  OBVIOUS
<1>4. D \subseteq 1 .. Height /\ Txs \subseteq D
  BY <1>1
<1>5. IsFiniteSet(D)
  <2>1. IsFiniteSet(1 .. Height)
    BY <1>1, FS_Interval
  <2> HIDE DEF D
  <2> QED BY <1>4, <2>1, FS_Subset
<1>6. WithNow \in [D -> ReadState]
  <2>1. CASE ~IsOpen
    BY <2>1 DEF WithNow
  <2>2. CASE IsOpen
    <3>1. WithNow = [b \in Txs \cup {Height} |-> IF b = Height THEN now ELSE st[b]]
      BY <1>3, <2>2 DEF WithNow, now
    <3>2. \A b \in Txs \cup {Height} : (IF b = Height THEN now ELSE st[b]) \in ReadState
      BY <1>2, <1>3
    <3>3. WithNow \in [Txs \cup {Height} -> ReadState]
      BY <3>1, <3>2
    <3> QED BY <2>2, <3>3
  <2> QED BY <2>1, <2>2
<1> HIDE DEF D
<1> QED BY <1>4, <1>5, <1>6

LEMMA AccruedIs ==
    ASSUME ChainInv, MetaRead, NEW x \in ReadState, x.fg # NoGrowth
    PROVE  feesFromGrowth(meta.liq, FeeGrowthInside(Height), x.fg) \in Amount
<1>1. Height \in 1 .. Height
  BY TipIs DEF ChainInv
<1>2. FeeGrowthInside(Height) \in 0 .. Wrap - 1
  BY <1>1, GrowthIs
<1>3. x.fg \in 0 .. Wrap - 1
  BY DEF ReadState, GrowthRead
<1>4. meta.liq \in Int /\ meta.liq >= 0
  BY DEF MetaRead
<1> QED BY <1>2, <1>3, <1>4, FeesIn

\* The events of a v4 position: those decoded, and of an open one what it would pay now.
Marks(f, ev, events, accrued) ==
    /\ Ordered(events) /\ (Fair(ev) => Fair(events))
    /\ ~IsOpen => events = ev
    /\ IsOpen => accrued \in Amount
                 /\ Marked(ev, events, amountsFromLiquidity(meta.liq, Tip.after), accrued)

LEMMA MarksAre ==
    ASSUME ChainInv, MetaRead, NEW f, NEW ev, Decoding(f, ev), NEW fees \in Amount
    PROVE  Marks(f, ev, ev \o IF IsOpen THEN Synthetic(amountsFromLiquidity(meta.liq, Tip.after), fees) ELSE <<>>,
                 fees)
<1> DEFINE cur == amountsFromLiquidity(meta.liq, Tip.after)
           E == ev \o Synthetic(cur, fees)
<1>1. Tip.after \in PoolTicks /\ Tip.after \in Int /\ Height \in Nat
  BY TipIs, NoTickIsNone DEF Block, PoolTicks
<1>2. cur \in Amount
  BY <1>1, AmountsAre DEF MetaRead
<1>3. Placed(ev, Height) /\ Ordered(ev) /\ ev \in Seq(AnyEvent)
  BY DEF Decoding, Placed, Ordered
<1> HIDE DEF cur
<1>4. CASE IsOpen
  <2>1. Ordered(E) /\ Marked(ev, E, cur, fees) /\ (Fair(ev) => Fair(E))
    BY <1>1, <1>2, <1>3, SyntheticIs
  <2> HIDE DEF E
  <2>2. Marks(f, ev, E, fees)
    BY <1>4, <2>1 DEF Marks, cur
  <2> QED BY <1>4, <2>2 DEF E, cur
<1>5. CASE ~IsOpen
  <2>1. ev \o <<>> = ev
    BY <1>3
  <2> QED BY <1>3, <1>5, <2>1 DEF Marks
<1> QED BY <1>4, <1>5

\* What an open v4 position has not claimed: the growth since its last event, both known.
Accrued(fees) ==
    LET last == raw[Len(raw)].block IN
    /\ WithNow[last].fg # NoGrowth
    /\ fees = feesFromGrowth(meta.liq, FeeGrowthInside(Height), WithNow[last].fg)

\* The report of a v4 position, and the states it leaves.
V4Report(f, ev, events, accrued, s) ==
    /\ Decoding(f, ev) /\ Marks(f, ev, events, accrued)
    /\ feesOk' => f[Len(raw)].complete /\ (IsOpen => Accrued(accrued))
    /\ \E D : DOMAIN s = D /\ Txs \subseteq D /\ D \subseteq 1 .. Height /\ IsFiniteSet(D)
    /\ Priced(s) /\ \A b \in DOMAIN s : s[b].tick \in PoolTicks
    /\ st' = s /\ ((\A b \in DOMAIN WithNow : isPriceableTick(WithNow[b].tick)) => s = WithNow)
    /\ (ticksOk' => ticksOk)
    /\ \E known : Report(events, buildV4PriceFeed(s, events[Len(events)].at), known)

LEMMA V4ReportIs ==
    ASSUME ReaderInv, MetaRead, st \in [Txs -> ReadState], FinishV4
    PROVE  \E f, ev, events, accrued, s : V4Report(f, ev, events, accrued, s)
<1> DEFINE last == raw[Len(raw)].block
           built == buildV4Events(raw, st, received)
           known == WithNow[last].fg # NoGrowth
           fees == IF known THEN feesFromGrowth(meta.liq, FeeGrowthInside(Height), WithNow[last].fg) ELSE Zero
           events == built.events \o
                     IF IsOpen THEN Synthetic(amountsFromLiquidity(meta.liq, Tip.after), fees) ELSE <<>>
           pinned == \E b \in DOMAIN WithNow : ~isPriceableTick(WithNow[b].tick)
           priced(swaps) == IF pinned THEN resolvePriceTicks(WithNow, swaps) ELSE [st |-> WithNow, fixed |-> 0]
<1>1. ChainInv /\ pc = "now" /\ version = "v4" /\ head \in 1 .. Height /\ raw # <<>>
      /\ RawOf(blocks, raw, Mod(blocks, head, ctx)) /\ Height \in Nat
  BY TipIs DEF ReaderInv, LogsRead, FinishV4, Height
<1>2. PICK swaps \in {poolSwaps, <<>>} :
        /\ st' = priced(swaps).st
        /\ ticksOk' = (ticksOk /\ priced(swaps).fixed = 0)
        /\ Report(events, buildV4PriceFeed(priced(swaps).st, events[Len(events)].at),
                  built.complete /\ (IsOpen => known))
  <2> HIDE DEF last, built, known, fees
  <2> USE DEF last, built, known, fees
  <2> QED BY DEF FinishV4, WithNow
<1>3. PICK f, ev : Decoding(f, ev)
  BY <1>1, DecodingIs
<1>4. built.events = ev
  BY <1>3 DEF Decoding
<1>5. raw \in Seq(RawEvent) /\ Txs \subseteq 1 .. Height /\ last \in Txs
  <2>1. Mod(blocks, head, ctx) \subseteq 1 .. Height
    BY <1>1 DEF Mod
  <2>2. Txs = TxsOf(raw) /\ Txs \subseteq 1 .. Height
    BY <1>1, <2>1, TxsAre
  <2>3. raw \in Seq(RawEvent)
    BY <1>1 DEF RawOf
  <2>4. Len(raw) \in 1 .. Len(raw)
    BY <1>1, <2>3
  <2> QED BY <2>2, <2>3, <2>4 DEF TxsOf
<1>6. PICK D : WithNow \in [D -> ReadState] /\ Txs \subseteq D /\ D \subseteq 1 .. Height /\ IsFiniteSet(D)
  BY <1>1, <1>5, WithNowIs
<1>7. DOMAIN WithNow = D /\ \A b \in D : WithNow[b] \in ReadState
  BY <1>6
<1>8. fees \in Amount
  <2>1. WithNow[last] \in ReadState
    BY <1>5, <1>6, <1>7
  <2>2. CASE known
    BY <1>1, <2>1, <2>2, AccruedIs
  <2>3. CASE ~known
    BY <2>3, ZeroIs
  <2> QED BY <2>2, <2>3
<1> HIDE DEF fees, known
<1>9. Marks(f, ev, events, fees)
  <2> HIDE DEF built
  <2> QED BY <1>1, <1>3, <1>4, <1>8, MarksAre
<1> DEFINE s == priced(swaps).st
<1>10. DOMAIN s = D /\ Priced(s) /\ \A b \in D : s[b].tick \in PoolTicks
  <2>1. CASE pinned
    <3>1. swaps \in Seq(Swap)
      <4>1. poolSwaps \in Seq(Swap)
        BY <1>1, SwapsAre DEF poolSwaps
      <4>2. <<>> \in Seq(Swap)
        OBVIOUS
      <4> QED BY <4>1, <4>2
    <3>2. s = resolvePriceTicks(WithNow, swaps).st
      BY <2>1
    <3>3. D \subseteq Nat
      BY <1>1, <1>6
    <3> HIDE DEF s
    <3> QED BY <1>6, <3>1, <3>2, <3>3, ResolveIs
  <2>2. CASE ~pinned
    <3>1. s = WithNow
      BY <2>2
    <3>2. \A b \in D : isPriceableTick(WithNow[b].tick)
      BY <1>7, <2>2
    <3>3. \A x \in ReadState : x.price = NoTick /\ x.tick \in PoolTicks
      BY DEF ReadState
    <3>4. \A b \in D : PriceOf(WithNow[b]) = WithNow[b].tick /\ WithNow[b].tick \in PoolTicks
      BY <1>7, <3>3 DEF PriceOf
    <3> HIDE DEF s
    <3> QED BY <1>7, <3>1, <3>2, <3>4 DEF Priced
  <2> QED BY <2>1, <2>2
<1>11. (\A b \in DOMAIN WithNow : isPriceableTick(WithNow[b].tick)) => s = WithNow
  OBVIOUS
<1> HIDE DEF events, built, priced
<1>12. feesOk' = (built.complete /\ (IsOpen => known)) /\ (ticksOk' => ticksOk)
  BY <1>2 DEF Report
<1>13. feesOk' => f[Len(raw)].complete /\ (IsOpen => Accrued(fees))
  <2>1. built = f[Len(raw)]
    BY <1>3 DEF Decoding, built
  <2>2. ASSUME feesOk', IsOpen PROVE Accrued(fees)
    <3>1. known
      BY <1>12, <2>2
    <3> QED BY <3>1 DEF Accrued, fees, known
  <2> QED BY <1>12, <2>1, <2>2
<1>14. V4Report(f, ev, events, fees, s)
  BY <1>2, <1>3, <1>6, <1>9, <1>10, <1>11, <1>12, <1>13 DEF V4Report
<1> HIDE DEF s
<1> QED BY <1>14

LEMMA V4Reported ==
    ASSUME ReaderInv, NEW f, NEW ev, NEW events, NEW accrued, NEW s, V4Report(f, ev, events, accrued, s),
           raw # <<>>, raw \in Seq(RawEvent)
    PROVE  PricedForReal' /\ (ReadFromMint(blocks) => result'.pnl.fees \in Amount)
<1>1. PICK known : Report(events, buildV4PriceFeed(s, events[Len(events)].at), known)
  BY DEF V4Report
<1>2. events \in Seq(AnyEvent) /\ events # <<>>
      /\ \A i, j \in 1 .. Len(events) : i < j => events[i].at <= events[j].at
  BY DEF V4Report, Marks, Ordered
<1>3. PICK n \in Nat : n = Len(events) /\ n \in 1 .. n
  BY <1>2
<1>4. \A i \in 1 .. n : events[i].at \in Nat
  <2>1. \A i \in 1 .. n : events[i] \in AnyEvent
    BY <1>2, <1>3
  <2> QED BY <2>1 DEF AnyEvent
<1>5. ASSUME NEW i \in 1 .. n PROVE events[i].at \in 0 .. events[n].at
  <2>1. i = n \/ i < n
    OBVIOUS
  <2>2. events[i].at <= events[n].at
    BY <1>2, <1>3, <1>4, <2>1
  <2> QED BY <1>3, <1>4, <2>2
<1>6. IsFiniteSet(DOMAIN s) /\ DOMAIN s \subseteq Nat /\ DOMAIN s # {} /\ Priced(s)
  <2>1. Priced(s) /\ IsFiniteSet(DOMAIN s) /\ DOMAIN s \subseteq 1 .. Height /\ Txs \subseteq DOMAIN s
    BY DEF V4Report
  <2>2. Txs # {}
    <3>1. 1 \in DOMAIN raw
      OBVIOUS
    <3> QED BY <3>1 DEF Txs
  <2>3. Height \in Nat
    BY TipIs DEF ReaderInv
  <2> QED BY <2>1, <2>2, <2>3
<1> DEFINE upTo == events[Len(events)].at
           feed == buildV4PriceFeed(s, upTo)
<1>7. upTo \in Nat
  BY <1>3, <1>4
<1>8. \A i \in 1 .. Len(events) : isPriceableTick(feed[events[i].at])
  <2> SUFFICES ASSUME NEW i \in 1 .. n PROVE isPriceableTick(feed[events[i].at])
    BY <1>3
  <2> DEFINE at == events[i].at
  <2>1. at \in 0 .. upTo
    BY <1>3, <1>5
  <2> HIDE DEF at, upTo
  <2>2. isPriceableTick(feed[at])
    BY <1>6, <1>7, <2>1, FeedV4 DEF Priced
  <2> QED BY <2>2 DEF at
<1>9. ReadFromMint(blocks) => Fair(events)
  BY DEF V4Report, Decoding, Marks
<1> HIDE DEF feed
<1>10. Report(events, feed, known)
  BY <1>1 DEF feed
<1> QED BY <1>2, <1>8, <1>9, <1>10, SoundReport

\* Of the events of one kind in a transaction there is a first.
LEMMA FirstOfKind ==
    ASSUME NEW events \in Seq(AnyEvent), NEW i \in 1 .. Len(events)
    PROVE  \E k \in OfKind(events, events[i].kind) : events[k].tx = events[i].tx
<1> DEFINE S == {j \in 1 .. Len(events) : events[j].kind = events[i].kind /\ events[j].tx = events[i].tx}
<1>1. PICK n \in Nat : n = Len(events) /\ DOMAIN events = 1 .. n
  OBVIOUS
<1>2. S \subseteq 1 .. n /\ i \in S /\ S \subseteq Int
  BY <1>1
<1>3. IsFiniteSet(S)
  <2>1. IsFiniteSet(1 .. n)
    BY FS_Interval
  <2> HIDE DEF S
  <2> QED BY <1>2, <2>1, FS_Subset
<1>4. Min(S) \in S /\ \A x \in S : Min(S) <= x
  <2> HIDE DEF S
  <2> QED BY <1>2, <1>3, Ends
<1>5. PICK k \in S : \A x \in S : k <= x
  BY <1>4
<1>6. k \in DOMAIN events /\ events[k].kind = events[i].kind /\ events[k].tx = events[i].tx
  BY <1>1, <1>5
<1>7. IsFirst(events, k)
  <2> SUFFICES ASSUME NEW j \in 1 .. k - 1, events[j].tx = events[k].tx, events[j].kind = events[k].kind
               PROVE  FALSE
    BY DEF IsFirst
  <2>1. k \in 1 .. n /\ j \in 1 .. n /\ j < k
    BY <1>2, <1>5
  <2>2. j \in S
    BY <1>1, <1>6, <2>1
  <2> QED BY <1>5, <2>1, <2>2
<1> QED BY <1>6, <1>7 DEF OfKind

\* Every block but the mint's only takes out, and what it was paid has been read.
TakesOnly(bl) ==
    /\ OneEach(bl, Mod(bl, head, ctx))
    /\ \A b \in Mod(bl, head, ctx) \ {1} : bl[b].delta[1] <= 0 /\ b \in DOMAIN received
PaidRead(bl) == \A b \in DOMAIN received : bl[b].spent = Zero => received[b] = bl[b].paid
PaidTo(bl) == Total([b \in {c \in 1 .. head : Counts(bl, head, ctx, c)} |-> bl[b].paid])

\* Each raw event is the mint's, which collects nothing, or collects what its block paid.
LEMMA TakesAre ==
    ASSUME ReaderInv, pc = "now", version = "v4", PaidRead(blocks), TakesOnly(blocks),
           NEW f, Walking(f, raw, st, received), NEW j \in 1 .. Len(raw)
    PROVE  LET b == raw[j].block
               new == NewAt(f, raw, st, received, j) IN
           /\ b \in Mod(blocks, head, ctx) /\ b \in 1 .. Height
           /\ \A i \in 1 .. Len(new) : new[i].tx = b
           /\ b = 1 => \A i \in 1 .. Len(new) : new[i].kind = "increase"
           /\ b # 1 => /\ \E i \in 1 .. Len(new) : new[i].kind = "collect"
                       /\ \A i \in 1 .. Len(new) : new[i].kind = "collect" => new[i].amt = blocks[b].paid
           /\ f[j - 1].liq >= 0 \/ (raw[j].delta <= 0 /\ b \in DOMAIN received)
<1> DEFINE S == Mod(blocks, head, ctx)
           b == raw[j].block
           acc == f[j - 1]
           e == raw[j]
           x == st[b]
           new == NewOf(acc, e, x, received)
<1>1. ChainInv /\ S \in SUBSET (1 .. Height) /\ RawOf(blocks, raw, S) /\ OneEach(blocks, S)
      /\ Height \in Nat
  BY TipIs DEF ReaderInv, LogsRead, Mod, Height, TakesOnly
<1>2. b \in S /\ b \in 1 .. Height /\ e.delta \in Int /\ blocks[b].delta = <<e.delta>> /\ e.block = b
  BY <1>1, OneDelta
<1>3. Given(acc, e, x, received) /\ Len(raw) \in Nat /\ f[0].liq = 0
  BY WalkGiven
<1>4. NewAt(f, raw, st, received, j) = new
  BY DEF NewAt
<1> HIDE DEF acc, e, x, new
<1>5. \A i \in 1 .. Len(new) : new[i].tx = b
  BY <1>2, <1>3, NewIs DEF new
<1>6. CASE b = 1
  <2>1. e.delta > 0
    <3>1. blocks[1].delta = <<Opening>> /\ Opening > 0 /\ Opening \in Nat
      BY <1>1, ChainAssumption DEF ChainInv, Mints
    <3> QED BY <1>2, <1>6, <3>1
  <2>2. j = 1
    <3>1. \A i \in 1 .. Len(raw) : i < j => raw[i].block < raw[j].block
      BY <1>1, RawRises
    <3>2. \A i \in 1 .. Len(raw) : raw[i].block \in 1 .. Height
      BY <1>1, OneDelta
    <3>3. 1 < j => raw[1].block < 1
      BY <1>3, <1>6, <3>1
    <3>4. j # 1 => 1 < j /\ 1 \in 1 .. Len(raw)
      BY <1>3
    <3> QED BY <1>1, <3>2, <3>3, <3>4
  <2>3. acc.liq = 0
    BY <1>3, <2>2 DEF acc
  <2>4. FeeSince(acc, x) = Zero
    BY <1>3, <2>3, PartsAre
  <2>5. ~Positive(FeeSince(acc, x))
    BY <2>4 DEF Positive, Zero
  <2>6. new = <<PutInEvent(e, x)>>
    BY <2>1, <2>5, NewCases DEF new
  <2>7. \A i \in 1 .. Len(new) : new[i].kind = "increase"
    <3>1. PutInEvent(e, x).kind = "increase"
      BY DEF PutInEvent, Event
    <3>2. Len(new) = 1 /\ new[1] = PutInEvent(e, x)
      BY <2>6
    <3> QED BY <3>1, <3>2
  <2> QED BY <1>2, <1>4, <1>5, <1>6, <2>3, <2>7 DEF acc
<1>7. CASE b # 1
  <2>1. e.delta <= 0 /\ b \in DOMAIN received
    <3>1. blocks[b].delta[1] <= 0 /\ b \in DOMAIN received
      BY <1>2, <1>7 DEF TakesOnly
    <3> QED BY <1>2, <3>1
  <2>2. received[b] = blocks[b].paid
    <3>1. Honest(blocks[b], version)
      BY <1>1, <1>2, BlockIs
    <3>2. \A i \in DOMAIN blocks[b].delta : blocks[b].delta[i] <= 0
      BY <1>2, <2>1
    <3> QED BY <2>1, <3>1, <3>2 DEF Honest, PaidRead
  <2>3. Gets(acc, e, x, received) = blocks[b].paid
    BY <1>2, <2>1, <2>2 DEF Gets
  <2>4. /\ \E i \in 1 .. Len(new) : new[i].kind = "collect"
        /\ \A i \in 1 .. Len(new) : new[i].kind = "collect" => new[i].amt = Gets(acc, e, x, received)
    BY <1>3, <2>1, NewIs DEF new
  <2> QED BY <1>2, <1>4, <1>5, <1>7, <2>1, <2>3, <2>4 DEF e
<1> QED BY <1>6, <1>7

\* A closed position that only takes out reports what it was paid.
LEMMA V4Pays ==
    ASSUME ReaderInv, pc = "now", version = "v4", PaidRead(blocks), TakesOnly(blocks),
           NEW f, NEW ev, Decoding(f, ev)
    PROVE  Plus(Withdrawn(ev), Fees(ev)) = PaidTo(blocks)
<1> DEFINE S == Mod(blocks, head, ctx)
           due == [b \in S |-> blocks[b].paid]
           C == {c \in 1 .. head : Counts(blocks, head, ctx, c)}
           all == [b \in C |-> blocks[b].paid]
<1>1. ChainInv /\ S \in SUBSET (1 .. Height) /\ RawOf(blocks, raw, S) /\ OneEach(blocks, S)
      /\ Height \in Nat /\ head \in 1 .. Height
  BY TipIs DEF ReaderInv, LogsRead, Mod, Height, TakesOnly
<1>2. Walking(f, raw, st, received) /\ ev = f[Len(raw)].events /\ ev \in Seq(AnyEvent)
  BY DEF Decoding, Placed, Ordered
<1>3. PICK b : Entries(b, ev, f, raw, st, received)
  BY <1>2, WalkEntries
<1>4. ASSUME NEW j \in 1 .. Len(raw)
      PROVE  LET c == raw[j].block
                 new == NewAt(f, raw, st, received, j) IN
             /\ c \in S /\ c \in 1 .. Height
             /\ \A i \in 1 .. Len(new) : new[i].tx = c
             /\ c = 1 => \A i \in 1 .. Len(new) : new[i].kind = "increase"
             /\ c # 1 => /\ \E i \in 1 .. Len(new) : new[i].kind = "collect"
                         /\ \A i \in 1 .. Len(new) : new[i].kind = "collect" => new[i].amt = blocks[c].paid
             /\ f[j - 1].liq >= 0 \/ (raw[j].delta <= 0 /\ c \in DOMAIN received)
  BY <1>2, TakesAre
<1> HIDE DEF S
<1>5. Fair(ev)
  <2>1. Decoded(f, raw, received)
    BY <1>4 DEF Decoded
  <2>2. \A i, j \in 1 .. Len(raw) : i < j => raw[i].block < raw[j].block
    BY <1>1, RawRises
  <2> QED BY <1>2, <2>1, <2>2, WalkFair
\* Where an entry comes from, and what becomes of a removal.
<1>6. ASSUME NEW i \in 1 .. Len(ev)
      PROVE  /\ ev[i].tx \in S
             /\ ev[i].kind = "collect" => ev[i].amt = blocks[ev[i].tx].paid
             /\ ev[i].kind # "increase" => ev[i].tx # 1
  <2>1. b[i] \in 1 .. Len(raw) /\ \E y \in 1 .. Len(NewAt(f, raw, st, received, b[i])) :
            ev[i] = NewAt(f, raw, st, received, b[i])[y]
    BY <1>3 DEF Entries
  <2>2. PICK j \in 1 .. Len(raw) : \E y \in 1 .. Len(NewAt(f, raw, st, received, j)) :
            ev[i] = NewAt(f, raw, st, received, j)[y]
    BY <2>1
  <2>3. PICK y \in 1 .. Len(NewAt(f, raw, st, received, j)) : ev[i] = NewAt(f, raw, st, received, j)[y]
    BY <2>2
  <2>4. raw[j].block \in S /\ ev[i].tx = raw[j].block
        /\ (raw[j].block = 1 => ev[i].kind = "increase")
        /\ (raw[j].block # 1 /\ ev[i].kind = "collect" => ev[i].amt = blocks[raw[j].block].paid)
    BY <1>4, <2>3
  <2>5. "increase" # "collect"
    OBVIOUS
  <2> QED BY <2>4, <2>5
<1>7. ASSUME NEW c \in S, c # 1
      PROVE  \E i \in OfKind(ev, "collect") : ev[i].tx = c
  <2>1. PICK j \in 1 .. Len(raw) : raw[j].block = c
    BY <1>1, RawRises
  <2>2. PICK y \in 1 .. Len(NewAt(f, raw, st, received, j)) :
          NewAt(f, raw, st, received, j)[y].kind = "collect" /\ NewAt(f, raw, st, received, j)[y].tx = c
    BY <1>4, <1>7, <2>1
  <2>3. PICK i \in 1 .. Len(ev) : ev[i] = NewAt(f, raw, st, received, j)[y]
    BY <1>3 DEF Entries
  <2>4. ev[i].kind = "collect" /\ ev[i].tx = c
    BY <2>2, <2>3
  <2> QED BY <1>2, <2>4, FirstOfKind
<1>8. /\ DOMAIN ev = 1 .. Len(ev)
      /\ \A kind : OfKind(ev, kind) \subseteq 1 .. Len(ev)
      /\ \A kind : \A i \in OfKind(ev, kind) : ev[i].kind = kind
  BY <1>5, KindIs
<1>9. \A d \in withdrawals(ev) :
        ev[d].amt = Zero \/ \E i \in OfKind(ev, "collect") : ev[i].tx = ev[d].tx
  <2> SUFFICES ASSUME NEW d \in withdrawals(ev) PROVE \E i \in OfKind(ev, "collect") : ev[i].tx = ev[d].tx
    OBVIOUS
  <2>1. d \in 1 .. Len(ev) /\ ev[d].kind = "decrease"
    BY <1>8 DEF withdrawals
  <2>2. ev[d].tx \in S /\ ev[d].tx # 1
    BY <1>6, <2>1
  <2> QED BY <1>7, <2>2
<1>10. \A i \in OfKind(ev, "collect") : ev[i].tx \in DOMAIN due /\ ev[i].amt = due[ev[i].tx]
  BY <1>6, <1>8
<1>11. \A c \in DOMAIN due : due[c] = Zero \/ \E i \in OfKind(ev, "collect") : ev[i].tx = c
  <2>1. blocks[1].paid = Zero
    BY <1>1 DEF ChainInv, Mints
  <2> QED BY <1>7, <2>1
\* What was paid to the others that count is nothing.
<1>12. Amounts(all) /\ DOMAIN all = C /\ S \subseteq C /\ \A c \in C \ S : all[c] = Zero
  <2>1. C \subseteq 1 .. head /\ \A c \in C : c \in 1 .. Height
    BY <1>1
  <2>2. IsFiniteSet(C)
    <3>1. IsFiniteSet(1 .. head)
      BY <1>1, FS_Interval
    <3> HIDE DEF C
    <3> QED BY <2>1, <3>1, FS_Subset
  <2>3. \A c \in C : blocks[c].paid \in Amount /\ (blocks[c].delta = <<>> => blocks[c].paid = Zero)
    <3> SUFFICES ASSUME NEW c \in 1 .. Height
                 PROVE  blocks[c].paid \in Amount /\ (blocks[c].delta = <<>> => blocks[c].paid = Zero)
      BY <2>1
    <3>1. blocks[c] \in Block /\ Honest(blocks[c], version)
      BY <1>1, BlockIs
    <3> QED BY <3>1 DEF Honest, Block
  <2>4. \A c \in 1 .. head : c \in S <=> c \in C /\ blocks[c].delta # <<>>
    BY DEF S, Mod
  <2>5. S \subseteq C
    BY DEF S, Mod
  <2> HIDE DEF C
  <2> QED BY <2>1, <2>2, <2>3, <2>4, <2>5 DEF Amounts
<1>13. Amounts(due) /\ Total(due) = Total(all)
  <2>1. DOMAIN due = S /\ \A c \in S : due[c] = all[c]
    BY <1>12
  <2> HIDE DEF due, all, C
  <2> QED BY <1>12, <2>1, TotalOnly
<1> HIDE DEF due
<1>14. Plus(Withdrawn(ev), Fees(ev)) = Total(due)
  BY <1>5, <1>9, <1>10, <1>11, <1>13, ReportedIs DEF Withdrawn, Fees
<1> QED BY <1>13, <1>14 DEF PaidTo

-----------------------------------------------------------------------------
(* The reading and its report *)

InHand(bl) ==
    /\ version = "v3" => EventsOf(bl, raw, Mod(bl, head, ctx))
    /\ version = "v4" => st \in [Txs -> ReadState] /\ PaidRead(bl)

Told(bl) ==
    /\ \A at \in result.times : isPriceableTick(result.feed[at])
    /\ ReadFromMint(bl) => result.pnl.fees \in Amount
    /\ version = "v4" /\ ~result.open /\ TakesOnly(bl) => Reported = PaidTo(bl)

SoundInv ==
    /\ ReaderInv
    /\ TypeOK
    /\ MetaRead
    /\ pc = "now" => InHand(blocks)
    /\ pc = "done" => Told(blocks)

LEMMA SoundStarts == ASSUME Init PROVE SoundInv
<1>1. ReaderInv
  BY ReaderStarts
<1>2. MetaRead
  BY ZeroIs DEF Init, MetaRead
<1>3. DOMAIN <<>> = {}
  OBVIOUS
<1>4. 0 \in 0 .. MaxBlocks
  BY ChainAssumption
<1>5. TypeOK
  BY <1>3, <1>4 DEF Init, TypeOK
<1> QED BY <1>1, <1>2, <1>5 DEF Init, SoundInv

LEMMA EventsStay ==
    ASSUME NEW r, NEW S, NEW bl, EventsOf(bl, r, S), NEW more, \A b \in S : more[b] = bl[b]
    PROVE  EventsOf(more, r, S)
<1>1. \A i \in 1 .. Len(r) : r[i].tx \in S /\ From(more[r[i].tx], r[i])
  BY DEF EventsOf
<1>2. \A b \in S : \A kind : Shows(more[b], kind) =>
        \E i \in 1 .. Len(r) : r[i].tx = b /\ r[i].kind = kind
  BY DEF EventsOf
<1> QED BY <1>1, <1>2 DEF EventsOf

LEMMA SoundGoesOn ==
    ASSUME SoundInv, Mine, UNCHANGED readerVars, ~Over PROVE SoundInv'
<1>1. ReaderInv /\ ReaderInv' /\ ChainInv
  BY ChainGoesOn DEF SoundInv, ReaderInv
<1>2. /\ version' = version /\ Height \in Nat /\ Height' = Height + 1
      /\ \A b \in 1 .. Height : blocks'[b] = blocks[b]
  BY <1>1, MineGrows
<1>3. /\ pc' = pc /\ ctx' = ctx /\ head' = head /\ raw' = raw /\ st' = st /\ received' = received
      /\ lost' = lost /\ ticksOk' = ticksOk /\ feesOk' = feesOk /\ meta' = meta
  BY DEF readerVars
<1>4. TypeOK' /\ MetaRead'
  BY <1>3 DEF SoundInv, TypeOK, MetaRead
<1>5. ASSUME pc = "now" PROVE InHand(blocks')
  <2> DEFINE S == Mod(blocks, head, ctx)
  <2>1. LogsRead(blocks) /\ InHand(blocks)
    BY <1>1, <1>5 DEF SoundInv, ReaderInv
  <2>2. head \in 1 .. Height
    BY <2>1 DEF LogsRead, Height
  <2>3. Mod(blocks', head, ctx) = S /\ S \subseteq 1 .. Height /\ \A b \in S : blocks'[b] = blocks[b]
    BY <1>2, <2>2, ModStays
  <2>4. version = "v3" => EventsOf(blocks, raw, S)
    BY <2>1 DEF InHand
  <2>5. version = "v4" => RawOf(blocks, raw, S)
    BY <2>1 DEF LogsRead
  <2> HIDE DEF S
  <2>6. version = "v3" => EventsOf(blocks', raw, S)
    BY <2>3, <2>4, EventsStay
  <2>7. ASSUME version = "v4" PROVE PaidRead(blocks')
    <3>1. Txs \subseteq 1 .. Height
      BY <2>3, <2>5, <2>7, TxsAre
    <3>2. DOMAIN received \subseteq DOMAIN st
      BY DEF SoundInv, TypeOK
    <3>3. st \in [Txs -> ReadState] /\ PaidRead(blocks)
      BY <2>1, <2>7 DEF InHand
    <3>4. \A b \in DOMAIN received : blocks'[b] = blocks[b]
      BY <1>2, <3>1, <3>2, <3>3
    <3> QED BY <3>3, <3>4 DEF PaidRead
  <2> QED BY <2>1, <2>3, <2>6, <2>7 DEF InHand
<1>6. InHand(blocks)' <=> InHand(blocks')
  <2>1. Txs' = Txs
    BY <1>3 DEF Txs
  <2>2. PaidRead(blocks)' <=> PaidRead(blocks')
    BY <1>3 DEF PaidRead
  <2> QED BY <1>2, <1>3, <2>1, <2>2 DEF InHand
<1>7. pc # "done"
  BY DEF Over
<1> QED BY <1>1, <1>3, <1>4, <1>5, <1>6, <1>7 DEF SoundInv

LEMMA SoundBegin == ASSUME SoundInv, Begin PROVE SoundInv'
<1>1. ReaderInv'
  BY BeginKeeps DEF SoundInv
<1>2. Height \in 0 .. MaxBlocks /\ 0 \in 0 .. MaxBlocks
  BY ChainAssumption DEF SoundInv, ReaderInv, ChainInv
<1>3. /\ head' \in {Height, 0} /\ pc' = "meta"
      /\ UNCHANGED <<meta, st, received, lost, ticksOk, feesOk>>
  BY DEF Begin
<1>4. TypeOK' /\ MetaRead'
  BY <1>2, <1>3 DEF SoundInv, TypeOK, MetaRead
<1> QED BY <1>1, <1>3, <1>4 DEF SoundInv

LEMMA SoundMeta == ASSUME SoundInv, ReadMeta PROVE SoundInv'
<1>1. ReaderInv' /\ ChainInv
  BY ReadMetaKeeps DEF SoundInv, ReaderInv
<1>2. /\ pc' \in {"failed", "logs"} /\ head' = head
      /\ meta'.liq = Tip.liq /\ meta'.owed = Plus(owed.fees, owed.principal)
      /\ UNCHANGED <<st, received, lost, ticksOk, feesOk>>
  BY DEF ReadMeta
<1>3. Tip.liq \in Nat /\ owed.fees \in Amount /\ owed.principal \in Amount
  BY <1>1, TipIs DEF Block, ChainInv, Owed
<1>4. MetaRead'
  BY <1>2, <1>3, PlusIs DEF MetaRead
<1>5. TypeOK'
  BY <1>2 DEF SoundInv, TypeOK
<1> QED BY <1>1, <1>2, <1>4, <1>5 DEF SoundInv

LEMMA SoundLogs == ASSUME SoundInv, ReadLogs PROVE SoundInv'
<1>1. ReaderInv /\ ReaderInv' /\ ChainInv
  BY ReadLogsKeeps DEF SoundInv, ReaderInv
<1>2. /\ blocks' = blocks /\ version' = version /\ ctx' = ctx /\ pc = "logs" /\ ctx \in BOOLEAN
      /\ UNCHANGED <<meta, st, received, lost, ticksOk, feesOk>>
  BY <1>1 DEF ReadLogs, chainVars, ReaderInv
<1> DEFINE upTo == IF ctx THEN head ELSE Height
           events == IF version = "v3" THEN V3EventsTo(upTo) ELSE ModifiesTo(upTo)
           transfers == TransfersTo(upTo)
           scoped == IF ctx THEN Scoped(events, transfers) ELSE [events |-> events, held |-> TRUE]
<1>3. /\ head' = upTo /\ raw' = scoped.events
      /\ pc' = IF scoped.events = <<>> THEN "failed" ELSE IF version = "v3" THEN "now" ELSE "states"
  BY DEF ReadLogs
<1>4. upTo \in 1 .. Height /\ upTo \in 0 .. MaxBlocks
  <2>1. Height \in 1 .. Height /\ Height \in 1 .. MaxBlocks /\ MaxBlocks \in Nat
    BY <1>1, TipIs, ChainAssumption DEF ChainInv
  <2>2. ctx => head \in 1 .. Height
    BY <1>1, <1>2 DEF ReaderInv
  <2> QED BY <2>1, <2>2
<1>5. version = "v3" => EventsOf(blocks, scoped.events, Mod(blocks, upTo, ctx))
  <2> SUFFICES ASSUME version = "v3" PROVE EventsOf(blocks, scoped.events, Mod(blocks, upTo, ctx))
    OBVIOUS
  <2> DEFINE m == upTo
  <2>1. m \in 1 .. Height
    BY <1>4
  <2>2. scoped.events = IF ctx THEN Scoped(V3EventsTo(m), TransfersTo(m)).events ELSE V3EventsTo(m)
    OBVIOUS
  <2> HIDE DEF m, scoped
  <2>3. /\ EventsOf(blocks, V3EventsTo(m), Mod(blocks, m, FALSE))
        /\ EventsOf(blocks, Scoped(V3EventsTo(m), TransfersTo(m)).events, Mod(blocks, m, TRUE))
    BY <1>1, <2>1, ScopedV3
  <2>4. CASE ctx = TRUE
    BY <2>2, <2>3, <2>4 DEF m
  <2>5. CASE ctx = FALSE
    BY <2>2, <2>3, <2>5 DEF m
  <2> QED BY <1>2, <2>4, <2>5
<1> HIDE DEF upTo, scoped
<1>6. pc' # "done" /\ (pc' = "now" => version = "v3")
  BY <1>3
<1>7. pc' = "now" => InHand(blocks)'
  <2> SUFFICES ASSUME version = "v3" PROVE InHand(blocks)'
    BY <1>6
  <2>1. version' # "v4" /\ EventsOf(blocks', raw', Mod(blocks', head', ctx'))
    BY <1>2, <1>3, <1>5
  <2> QED BY <2>1 DEF InHand
<1>8. TypeOK' /\ MetaRead'
  <2>1. pc' \in {"failed", "now", "states"}
    BY <1>3
  <2> QED BY <1>2, <1>3, <1>4, <2>1 DEF SoundInv, TypeOK, MetaRead
<1> QED BY <1>1, <1>6, <1>7, <1>8 DEF SoundInv

LEMMA SoundStates == ASSUME SoundInv, ReadStates PROVE SoundInv'
<1>1. ReaderInv /\ ReaderInv' /\ ChainInv
  BY ReadStatesKeeps DEF SoundInv, ReaderInv
<1>2. /\ blocks' = blocks /\ version' = version /\ ctx' = ctx /\ head' = head /\ raw' = raw
      /\ meta' = meta /\ feesOk' = feesOk /\ pc = "states" /\ pc' = "now"
  BY DEF ReadStates, chainVars
<1>3. LogsRead(blocks) /\ version = "v4"
  BY <1>1, <1>2 DEF ReaderInv
<1>4. PICK native \in BOOLEAN, unread \in Unreadable, horizon \in {0} \cup Txs :
         \E tickGone \in {{}, {b \in Txs : b <= horizon}} :
            StatesOf(ownerFlows(native, unread), {b \in Txs : b <= horizon}, tickGone)
  BY DEF ReadStates
<1> DEFINE gone == {b \in Txs : b <= horizon}
<1>5. PICK tickGone \in {{}, gone} : StatesOf(ownerFlows(native, unread), gone, tickGone)
  BY <1>4
<1>6. gone \subseteq Txs
  OBVIOUS
<1> HIDE DEF gone
<1>7. /\ st' \in [Txs -> ReadState] /\ Txs \subseteq 1 .. Height
      /\ DOMAIN received' \subseteq Txs
      /\ \A b \in DOMAIN received' :
           received'[b] \in Amount /\ (blocks[b].spent = Zero => received'[b] = blocks[b].paid)
  BY <1>1, <1>3, <1>5, StatesTyped
<1>8. lost' = gone /\ ticksOk' \in BOOLEAN
  BY <1>5 DEF StatesOf
<1>9. Txs' = Txs
  BY <1>2 DEF Txs
<1>10. InHand(blocks)'
  BY <1>2, <1>3, <1>7, <1>9 DEF InHand, PaidRead
<1>11. TypeOK'
  <2>1. DOMAIN st' = Txs /\ \A b \in Txs : st'[b] \in ReadState
    BY <1>7
  <2>2. \A b \in DOMAIN st' : st'[b].tick \in MinTick .. MaxTick
    BY <2>1 DEF ReadState, PoolTicks
  <2>3. Txs \subseteq 1 .. MaxBlocks
    <3>1. Height \in 1 .. MaxBlocks /\ MaxBlocks \in Nat
      BY <1>1, ChainAssumption DEF ChainInv
    <3> QED BY <1>7, <3>1
  <2>4. head \in 0 .. MaxBlocks /\ feesOk \in BOOLEAN
    BY DEF SoundInv, TypeOK
  <2> QED BY <1>2, <1>6, <1>7, <1>8, <2>1, <2>2, <2>3, <2>4 DEF TypeOK
<1>12. MetaRead'
  BY <1>2 DEF SoundInv, MetaRead
<1> QED BY <1>1, <1>2, <1>10, <1>11, <1>12 DEF SoundInv

LEMMA ReportKeeps ==
    ASSUME NEW events, NEW feed, NEW known, Report(events, feed, known)
    PROVE  /\ (ReadFromMint(blocks)' <=> ReadFromMint(blocks)) /\ (TakesOnly(blocks)' <=> TakesOnly(blocks))
           /\ PaidTo(blocks)' = PaidTo(blocks) /\ MetaRead' = MetaRead
           /\ version' = version /\ pc' = "done" /\ head' = head /\ received' = received /\ lost' = lost
           /\ feesOk' = known
<1>1. /\ blocks' = blocks /\ version' = version /\ ctx' = ctx /\ head' = head /\ received' = received
      /\ meta' = meta /\ pc' = "done" /\ lost' = lost /\ feesOk' = known
  BY DEF Report, chainVars
<1> QED BY <1>1 DEF ReadFromMint, FromMint, TakesOnly, PaidTo, MetaRead

LEMMA SoundFinishV3 == ASSUME SoundInv, FinishV3 PROVE SoundInv'
<1>1. ReaderInv /\ ReaderInv' /\ pc = "now" /\ version = "v3" /\ MetaRead
  BY FinishV3Keeps DEF SoundInv, FinishV3
<1>2. PricedForReal' /\ result'.pnl.fees \in Amount
  <2>1. EventsOf(blocks, raw, Mod(blocks, head, ctx))
    BY <1>1 DEF SoundInv, InHand
  <2> QED BY <1>1, <2>1, V3Reported
<1>3. PICK events, feed : Report(events, feed, TRUE)
  BY DEF FinishV3
<1>4. version' = version /\ pc' = "done" /\ head' = head /\ received' = received /\ lost' = lost
      /\ feesOk' = TRUE /\ MetaRead'
  BY <1>1, <1>3, ReportKeeps
<1>5. st' = st /\ ticksOk' \in BOOLEAN
  BY DEF FinishV3
<1>6. TypeOK'
  BY <1>4, <1>5 DEF SoundInv, TypeOK
<1>7. Told(blocks)'
  <2>1. version' # "v4"
    BY <1>1, <1>4
  <2> QED BY <1>2, <1>4, <2>1 DEF Told, PricedForReal, Done
<1> QED BY <1>1, <1>4, <1>6, <1>7 DEF SoundInv

LEMMA SoundFinishV4 == ASSUME SoundInv, FinishV4 PROVE SoundInv'
<1>1. ReaderInv /\ ReaderInv' /\ pc = "now" /\ version = "v4" /\ MetaRead
      /\ st \in [Txs -> ReadState] /\ PaidRead(blocks)
  BY FinishV4Keeps DEF SoundInv, FinishV4, InHand
<1>2. PICK f, ev, events, accrued, s : V4Report(f, ev, events, accrued, s)
  BY <1>1, V4ReportIs
<1>3. PICK known : Report(events, buildV4PriceFeed(s, events[Len(events)].at), known)
  BY <1>2 DEF V4Report
<1>4. /\ (ReadFromMint(blocks)' <=> ReadFromMint(blocks)) /\ (TakesOnly(blocks)' <=> TakesOnly(blocks))
      /\ PaidTo(blocks)' = PaidTo(blocks) /\ MetaRead'
      /\ version' = version /\ pc' = "done" /\ head' = head /\ received' = received /\ lost' = lost
      /\ feesOk' = known
  BY <1>1, <1>3, ReportKeeps
<1>5. PricedForReal' /\ (ReadFromMint(blocks) => result'.pnl.fees \in Amount)
  <2>1. raw # <<>> /\ RawOf(blocks, raw, Mod(blocks, head, ctx))
    BY <1>1 DEF ReaderInv, LogsRead
  <2>2. raw \in Seq(RawEvent)
    BY <2>1 DEF RawOf
  <2> QED BY <1>1, <1>2, <2>1, <2>2, V4Reported
<1>6. ASSUME TakesOnly(blocks), ~result'.open PROVE Reported' = PaidTo(blocks)
  <2>1. /\ result'.open = IsOpen
        /\ result'.pnl.fees = Fees(events) /\ result'.pnl.withdrawn = Withdrawn(events)
    BY <1>3, ReportSays
  <2>2. events = ev /\ Decoding(f, ev)
    BY <1>2, <1>6, <2>1 DEF V4Report, Marks
  <2>3. Plus(Withdrawn(ev), Fees(ev)) = PaidTo(blocks)
    BY <1>1, <1>6, <2>2, V4Pays
  <2> QED BY <2>1, <2>2, <2>3 DEF Reported
<1>7. Told(blocks)'
  <2>1. \A at \in result'.times : isPriceableTick(result'.feed[at])
    BY <1>4, <1>5 DEF PricedForReal, Done
  <2>2. ReadFromMint(blocks)' => result'.pnl.fees \in Amount
    BY <1>4, <1>5
  <2>3. ~result'.open /\ TakesOnly(blocks)' => Reported' = PaidTo(blocks)'
    BY <1>4, <1>6
  <2> QED BY <2>1, <2>2, <2>3 DEF Told
<1>8. TypeOK'
  <2>1. st' = s /\ (\A b \in DOMAIN s : s[b].tick \in PoolTicks) /\ Txs \subseteq DOMAIN s
        /\ DOMAIN s \subseteq 1 .. Height
    BY <1>2 DEF V4Report
  <2>2. Height \in 1 .. MaxBlocks /\ MaxBlocks \in Nat
    BY <1>1, ChainAssumption DEF ReaderInv, ChainInv
  <2>3. DOMAIN s \subseteq 1 .. MaxBlocks
    BY <2>1, <2>2
  <2>4. DOMAIN received \subseteq DOMAIN s
    <3>1. DOMAIN received \subseteq DOMAIN st /\ DOMAIN st = Txs
      BY <1>1 DEF SoundInv, TypeOK
    <3> QED BY <2>1, <3>1
  <2>5. ticksOk' \in BOOLEAN /\ feesOk' \in BOOLEAN
    <3>1. ticksOk' \in BOOLEAN
      BY DEF FinishV4
    <3>2. feesOk' \in BOOLEAN
      BY DEF FinishV4, Report
    <3> QED BY <3>1, <3>2
  <2>6. head \in 0 .. MaxBlocks /\ lost \subseteq 1 .. MaxBlocks
    BY DEF SoundInv, TypeOK
  <2> QED BY <1>4, <2>1, <2>3, <2>4, <2>5, <2>6 DEF TypeOK, PoolTicks
<1> QED BY <1>1, <1>4, <1>7, <1>8 DEF SoundInv

LEMMA SoundKeeps == ASSUME SoundInv, [Next]_vars PROVE SoundInv'
<1>1. CASE (Over /\ UNCHANGED vars) \/ UNCHANGED vars
  <2>1. UNCHANGED vars
    BY <1>1
  <2>2. ReaderInv'
    BY <2>1, ReaderKeeps DEF SoundInv
  <2>3. /\ blocks' = blocks /\ version' = version /\ pc' = pc /\ ctx' = ctx /\ head' = head
        /\ raw' = raw /\ st' = st /\ received' = received /\ lost' = lost /\ ticksOk' = ticksOk
        /\ feesOk' = feesOk /\ meta' = meta /\ result' = result
    BY <2>1 DEF vars, chainVars, readerVars
  <2>4. TypeOK' /\ MetaRead'
    BY <2>3 DEF SoundInv, TypeOK, MetaRead
  <2>5. pc = "now" => InHand(blocks)'
    BY <2>3 DEF SoundInv, InHand, PaidRead, Txs
  <2>6. pc = "done" => Told(blocks)'
    <3>1. ReadFromMint(blocks)' <=> ReadFromMint(blocks)
      BY <2>3 DEF ReadFromMint, FromMint
    <3>2. TakesOnly(blocks)' <=> TakesOnly(blocks)
      BY <2>3 DEF TakesOnly
    <3>3. PaidTo(blocks)' = PaidTo(blocks) /\ Reported' = Reported
      BY <2>3 DEF PaidTo, Reported
    <3> QED BY <2>3, <3>1, <3>2, <3>3 DEF SoundInv, Told
  <2> QED BY <2>2, <2>3, <2>4, <2>5, <2>6 DEF SoundInv
<1>2. CASE ~Over /\ Mine /\ UNCHANGED readerVars
  BY <1>2, SoundGoesOn
<1>3. CASE Read
  BY <1>3, SoundBegin, SoundMeta, SoundLogs, SoundStates, SoundFinishV3, SoundFinishV4 DEF Read
<1> QED BY <1>1, <1>2, <1>3 DEF Next

(* Before and at its report every reading has what it needs for one: the   *)
(* decoded logs of v3 and the states of v4, each at a tick the AMM has,    *)
(* and of every block that only paid its owner the payment itself.         *)
THEOREM SoundAlways == Spec => []SoundInv
<1>1. Init => SoundInv
  BY SoundStarts
<1>2. SoundInv /\ [Next]_vars => SoundInv'
  BY SoundKeeps
<1> QED BY <1>1, <1>2, PTL DEF Spec

LEMMA ChangedIs ==
    ASSUME SoundInv, Done
    PROVE  /\ Changed = Mod(blocks, head, ctx) /\ Counted = {c \in 1 .. head : Counts(blocks, head, ctx, c)}
<1>1. ChainInv /\ head \in 1 .. Height
  BY DEF Done, SoundInv, ReaderInv, LogsRead, Height
<1>2. \A b : b \in Counted <=> Counts(blocks, head, ctx, b)
  BY <1>1, CountedIs
<1>3. \A b : Counts(blocks, head, ctx, b) => b \in 1 .. head
  BY DEF Counts
<1>4. Counted = {c \in 1 .. head : Counts(blocks, head, ctx, c)}
  BY <1>2, <1>3
<1>5. Changed = {b \in Counted : blocks[b].delta # <<>>}
  BY DEF Changed
<1>6. Mod(blocks, head, ctx) = {b \in 1 .. head : blocks[b].delta # <<>> /\ Counts(blocks, head, ctx, b)}
  BY DEF Mod
<1>7. Changed = Mod(blocks, head, ctx)
  BY <1>2, <1>3, <1>5, <1>6
<1> QED BY <1>4, <1>7

(* No report values a flow at one of the AMM's limits, which are no price, *)
(* and none has fees below zero when the position is read from its mint,   *)
(* a change to a block: what computePnL makes of the events of             *)
(* computePositionPnL and computePositionPnLV4, whatever was pruned and    *)
(* whatever the pool did while they read.                                  *)
THEOREM ReportsAreSound == Spec => []ReportSound
<1>1. SoundInv => ReportSound
  <2> SUFFICES ASSUME SoundInv PROVE ReportSound
    OBVIOUS
  <2>1. TypeOK
    BY DEF SoundInv
  <2>2. PricedForReal
    BY DEF SoundInv, PricedForReal, Done, Told
  <2>3. FeesNotNegative
    <3> SUFFICES ASSUME Done, version = "v4" => OneChangeEach /\ MineFromMint
                 PROVE  result.pnl.fees[1] >= 0 /\ result.pnl.fees[2] >= 0
      BY DEF FeesNotNegative
    <3>1. Changed = Mod(blocks, head, ctx)
      BY ChangedIs
    <3>2. ASSUME version = "v4" PROVE OneEach(blocks, Changed) /\ FromMint(Changed)
      <4>1. OneChangeEach /\ MineFromMint
        BY <3>2
      <4>2. OneEach(blocks, Changed)
        BY <4>1 DEF OneChangeEach, OneEach
      <4>3. FromMint(Changed)
        <5> SUFFICES ASSUME NEW b \in 1 .. Max(Changed), blocks[b].delta # <<>> PROVE b \in Changed
          BY DEF FromMint
        <5> QED BY <4>1 DEF MineFromMint, Changed
      <4> QED BY <4>2, <4>3
    <3>3. ReadFromMint(blocks)
      BY <3>1, <3>2 DEF ReadFromMint
    <3>4. result.pnl.fees \in Amount
      BY <3>3 DEF SoundInv, Told, Done
    <3> QED BY <3>4 DEF Amount
  <2> QED BY <2>1, <2>2, <2>3 DEF ReportSound
<1> QED BY <1>1, SoundAlways, PTL

(* Of a closed v4 position that only ever took out, and whose payments     *)
(* were all read off the chain, withdrawals and fees come to exactly what  *)
(* was paid: whatever ticks were guessed, buildV4Events and resolveActions *)
(* (v4-decode.ts, uniswap-v3-pnl.ts) only say which part is a fee.         *)
THEOREM PaymentsAreReported == Spec => []PaidIsReported
<1>1. SoundInv => PaidIsReported
  <2> SUFFICES ASSUME SoundInv, Done, version = "v4", ~result.open, OneChangeEach,
                      \A b \in Changed \ {1} : blocks[b].delta[1] <= 0 /\ b \in DOMAIN received
               PROVE  Reported = PaidOut
    BY DEF PaidIsReported
  <2>1. Changed = Mod(blocks, head, ctx) /\ Counted = {c \in 1 .. head : Counts(blocks, head, ctx, c)}
    BY ChangedIs
  <2>2. TakesOnly(blocks)
    BY <2>1 DEF TakesOnly, OneEach, OneChangeEach
  <2>3. Reported = PaidTo(blocks)
    BY <2>2 DEF SoundInv, Told, Done
  <2>4. PaidTo(blocks) = PaidOut
    BY <2>1 DEF PaidTo, PaidOut
  <2> QED BY <2>3, <2>4
<1> QED BY <1>1, SoundAlways, PTL

-----------------------------------------------------------------------------
(* What the blocks spent *)

\* A transaction with one increase puts in what that increase takes.
LEMMA PutInOne ==
    ASSUME NEW delta \in Seq(Int), NEW t \in Int, NEW k \in DOMAIN delta, delta[k] > 0,
           \A i \in DOMAIN delta : delta[i] > 0 => i = k
    PROVE  PutIn(delta, t) = amountsFromLiquidity(delta[k], t)
<1> DEFINE f == [i \in {i \in DOMAIN delta : delta[i] > 0} |-> amountsFromLiquidity(delta[i], t)]
<1>1. delta[k] \in Nat
  <2>1. delta[k] \in Int
    OBVIOUS
  <2> QED BY <2>1
<1>2. DOMAIN f = {k} /\ f[k] = amountsFromLiquidity(delta[k], t)
  OBVIOUS
<1>3. f[k] \in Amount
  BY <1>1, <1>2, AmountsAre
<1>4. PutIn(delta, t) = Total(f)
  BY DEF PutIn
<1> HIDE DEF f
<1> QED BY <1>2, <1>3, <1>4, TotalOne

\* What a block spent is what its changes put in.
Spending(bl) == \A b \in 1 .. Len(bl) : bl[b].spent = PutIn(bl[b].delta, bl[b].tick)

LEMMA SpendingStarts == ASSUME ChainInit PROVE Spending(blocks)
<1>1. PICK who \in {Me, Other}, t \in Ticks :
        blocks = <<[tick |-> t, after |-> t, delta |-> <<Opening>>, growth |-> 0,
                    liq |-> Opening, owner |-> who, next |-> who,
                    spent |-> amountsFromLiquidity(Opening, t), paid |-> Zero]>>
  BY DEF ChainInit
<1>2. /\ Len(blocks) = 1 /\ blocks[1].delta = <<Opening>> /\ blocks[1].tick = t
      /\ blocks[1].spent = amountsFromLiquidity(Opening, t)
  BY <1>1
<1>3. t \in Int /\ Opening \in Int /\ Opening > 0
  <2>1. t \in MinTick .. MaxTick /\ Opening \in Nat \ {0}
    BY ChainAssumption
  <2> QED BY <2>1
<1> DEFINE d == <<Opening>>
<1>4. d \in Seq(Int) /\ 1 \in DOMAIN d /\ d[1] = Opening /\ \A i \in DOMAIN d : i = 1
  BY <1>3
<1> HIDE DEF d
<1>5. PutIn(d, t) = amountsFromLiquidity(Opening, t)
  BY <1>3, <1>4, PutInOne
<1> QED BY <1>2, <1>5 DEF Spending, d

LEMMA SpendingKeeps ==
    ASSUME ChainInv, Mine, Spending(blocks) PROVE Spending(blocks')
<1>1. PICK n \in Nat : n = Len(blocks) /\ blocks \in Seq(Block)
  BY DEF ChainInv
<1>2. ASSUME NEW x, blocks' = Append(blocks, x), x.spent = PutIn(x.delta, x.tick)
      PROVE  Spending(blocks')
  <2>1. Len(blocks') = n + 1 /\ blocks'[n + 1] = x /\ \A b \in 1 .. n : blocks'[b] = blocks[b]
    BY <1>1, <1>2
  <2>2. ASSUME NEW b \in 1 .. n + 1 PROVE blocks'[b].spent = PutIn(blocks'[b].delta, blocks'[b].tick)
    <3>1. CASE b = n + 1
      BY <1>2, <2>1, <3>1
    <3>2. CASE b # n + 1
      <4>1. b \in 1 .. n
        BY <1>1, <3>2
      <4> QED BY <1>1, <2>1, <4>1 DEF Spending
    <3> QED BY <3>1, <3>2
  <2> QED BY <2>1, <2>2 DEF Spending
<1>3. ASSUME NEW t \in Ticks, NEW delta \in Changes, NEW grown \in Growths, NEW collects, NEW burnt,
             NEW after, ChangeOf(t, after, delta, grown, collects, burnt)
      PROVE  Spending(blocks')
  <2>1. PICK g, L, o, p : blocks' = Append(blocks,
             [tick |-> t, after |-> after, delta |-> delta, growth |-> g, liq |-> L,
              owner |-> Tip.next, next |-> o, spent |-> PutIn(delta, t), paid |-> p])
    BY <1>3 DEF ChangeOf
  <2> DEFINE x == [tick |-> t, after |-> after, delta |-> delta, growth |-> g, liq |-> L,
                   owner |-> Tip.next, next |-> o, spent |-> PutIn(delta, t), paid |-> p]
  <2>2. blocks' = Append(blocks, x) /\ x.spent = PutIn(delta, t) /\ x.delta = delta /\ x.tick = t
    BY <2>1
  <2> HIDE DEF x
  <2> QED BY <1>2, <2>2
<1>4. CASE Change
  BY <1>3, <1>4 DEF Change
<1>5. CASE Pass
  <2>0. PICK t \in Ticks \cup LateTicks : \E g, o : blocks' = Append(blocks,
             [tick |-> t, after |-> t, delta |-> <<>>, growth |-> g,
              liq |-> Tip.liq, owner |-> Tip.next, next |-> o, spent |-> Zero, paid |-> Zero])
    BY <1>5 DEF Pass
  <2>1. PICK g, o : blocks' = Append(blocks,
             [tick |-> t, after |-> t, delta |-> <<>>, growth |-> g,
              liq |-> Tip.liq, owner |-> Tip.next, next |-> o, spent |-> Zero, paid |-> Zero])
    BY <2>0
  <2> DEFINE x == [tick |-> t, after |-> t, delta |-> <<>>, growth |-> g,
                   liq |-> Tip.liq, owner |-> Tip.next, next |-> o, spent |-> Zero, paid |-> Zero]
  <2>2. blocks' = Append(blocks, x) /\ x.spent = Zero /\ x.delta = <<>> /\ x.tick = t
    BY <2>1
  <2> HIDE DEF x
  <2>3. t \in Int
    <3>1. t \in MinTick .. MaxTick
      BY ChainAssumption
    <3> QED BY <3>1
  <2> DEFINE none == <<>>
  <2>4. none \in Seq(Int) /\ DOMAIN none = {}
    OBVIOUS
  <2> HIDE DEF none
  <2>5. PutIn(none, t) = Zero
    BY <2>3, <2>4, PutInIs
  <2> QED BY <1>2, <2>2, <2>5 DEF none
<1> QED BY <1>4, <1>5 DEF Mine

-----------------------------------------------------------------------------
(* The trades, and the tick they leave *)

\* Where two trades of a block left the pool: before the position's transaction, and after it.
Before(b) ==
    IF b > 1 /\ blocks[b].tick # blocks[b - 1].after
    THEN <<[at |-> b, tick |-> blocks[b].tick]>> ELSE <<>>
After(b) ==
    IF blocks[b].after # blocks[b].tick THEN <<[at |-> b, tick |-> blocks[b].after]>> ELSE <<>>
TradesOf(b) == Before(b) \o After(b)

LEMMA TradesAre ==
    ASSUME ChainInv, NEW b \in 1 .. Height
    PROVE  /\ TradesOf(b) \in Seq(Swap) /\ \A i \in 1 .. Len(TradesOf(b)) : TradesOf(b)[i].at = b
           /\ Len(TradesOf(b)) > 0 => TradesOf(b)[Len(TradesOf(b))].tick = blocks[b].after
           /\ b > 1 /\ Len(TradesOf(b)) = 0 => blocks[b].after = blocks[b - 1].after
<1> DEFINE x == [at |-> b, tick |-> blocks[b].tick]
           y == [at |-> b, tick |-> blocks[b].after]
<1>1. blocks[b].tick \in PoolTicks /\ blocks[b].after \in PoolTicks /\ b \in Nat
  <2>1. Height \in Nat
    BY TipIs
  <2> QED BY <2>1, BlockIs DEF Block, PoolTicks
<1>2. /\ x \in Swap /\ x.at = b /\ x.tick = blocks[b].tick
      /\ y \in Swap /\ y.at = b /\ y.tick = blocks[b].after
  BY <1>1 DEF Swap
<1>3. /\ Before(b) = IF b > 1 /\ blocks[b].tick # blocks[b - 1].after THEN <<x>> ELSE <<>>
      /\ After(b) = IF blocks[b].after # blocks[b].tick THEN <<y>> ELSE <<>>
  BY DEF Before, After
<1> HIDE DEF x, y
<1>4. \A e \in Swap : <<e>> \in Seq(Swap) /\ Len(<<e>>) = 1 /\ <<e>>[1] = e
  OBVIOUS
<1>5. <<>> \in Seq(Swap) /\ Len(<<>>) = 0
  OBVIOUS
<1> DEFINE u == Before(b)
           v == After(b)
           w == TradesOf(b)
<1>6. /\ u \in Seq(Swap) /\ (Len(u) = 0 \/ (Len(u) = 1 /\ u[1] = x))
      /\ v \in Seq(Swap) /\ (Len(v) = 0 \/ (Len(v) = 1 /\ v[1] = y))
  BY <1>2, <1>3, <1>4, <1>5
<1>7. /\ Len(v) = 0 => blocks[b].after = blocks[b].tick
      /\ Len(u) = 0 /\ b > 1 => blocks[b].tick = blocks[b - 1].after
  BY <1>2, <1>3, <1>4
<1>8. w = u \o v
  BY DEF TradesOf
<1> HIDE DEF u, v, w
<1>9. /\ w \in Seq(Swap) /\ Len(w) = Len(u) + Len(v)
      /\ \A i \in 1 .. Len(u) : w[i] = u[i]
      /\ \A i \in 1 .. Len(v) : w[Len(u) + i] = v[i]
  BY <1>6, <1>8, JoinIs
<1> SUFFICES /\ \A i \in 1 .. Len(w) : w[i].at = b
             /\ Len(w) > 0 => w[Len(w)].tick = blocks[b].after
             /\ b > 1 /\ Len(w) = 0 => blocks[b].after = blocks[b - 1].after
  BY <1>9 DEF w
<1>10. CASE Len(v) = 0 /\ Len(u) = 0
  BY <1>7, <1>9, <1>10
<1>11. CASE Len(v) = 0 /\ Len(u) = 1
  <2>1. Len(w) = 1 /\ w[1] = x /\ 1 .. 1 = {1}
    BY <1>6, <1>9, <1>11
  <2> QED BY <1>2, <1>7, <1>9, <1>11, <2>1
<1>12. CASE Len(v) = 1 /\ Len(u) = 0
  <2>1. Len(w) = 1 /\ w[1] = y /\ 1 .. 1 = {1}
    BY <1>6, <1>9, <1>12
  <2>2. \A i \in 1 .. Len(w) : w[i].at = b
    BY <1>2, <2>1
  <2>3. w[Len(w)].tick = blocks[b].after
    BY <1>2, <2>1
  <2> QED BY <2>1, <2>2, <2>3
<1>13. CASE Len(v) = 1 /\ Len(u) = 1
  <2>1. Len(w) = 2 /\ w[1] = x /\ w[2] = y /\ 1 .. 2 = {1, 2}
    BY <1>6, <1>9, <1>13
  <2>2. \A i \in 1 .. Len(w) : w[i].at = b
    BY <1>2, <2>1
  <2>3. w[Len(w)].tick = blocks[b].after
    BY <1>2, <2>1
  <2> QED BY <2>1, <2>2, <2>3
<1> QED BY <1>6, <1>10, <1>11, <1>12, <1>13

\* The last trade at or before a block left the pool where the block leaves it.
LEMMA SwapTickIs ==
    ASSUME ChainInv, NEW h \in 1 .. Height, NEW b \in 1 .. h,
           tickAtBlockOrNull(SwapsTo(h), b) # NoTick
    PROVE  tickAtBlockOrNull(SwapsTo(h), b) = blocks[b].after
<1> DEFINE s == [x \in 1 .. h |-> TradesOf(x)]
           p == FlattenSeq(s)
<1>1. h \in Nat /\ h >= 1 /\ Height \in Nat /\ h <= Height
  BY TipIs
<1>2. SwapsTo(h) = p
  BY DEF SwapsTo, TradesOf, Before, After
<1>3. \A x \in 1 .. h : s[x] = TradesOf(x) /\ x \in 1 .. Height
  BY <1>1
<1>4. s \in Seq(Seq(Swap)) /\ s # <<>> /\ Len(s) = h
  <2>1. \A x \in 1 .. h : TradesOf(x) \in Seq(Swap)
    BY <1>3, TradesAre
  <2> QED BY <1>1, <2>1
<1> HIDE DEF s
<1>5. PICK k, c : p \in Seq(Swap) /\ Layout(k, c, p, s)
  BY <1>4, FlattenInOrder
<1>6. PICK n \in Nat : n = Len(p) /\ DOMAIN p = 1 .. n
  BY <1>5
<1> HIDE DEF p
<1> DEFINE upTo == {i \in DOMAIN p : p[i].at <= b}
           m == Max(upTo)
<1>7. upTo # {} /\ tickAtBlockOrNull(p, b) = p[m].tick
  BY <1>2 DEF tickAtBlockOrNull
<1>8. ASSUME NEW i \in 1 .. n
      PROVE  /\ k[i] \in 1 .. h /\ c[i] \in 1 .. Len(TradesOf(k[i])) /\ p[i] = TradesOf(k[i])[c[i]]
             /\ p[i].at = k[i]
  <2>1. k[i] \in 1 .. h /\ c[i] \in 1 .. Len(s[k[i]]) /\ p[i] = s[k[i]][c[i]]
    BY <1>4, <1>5, <1>6 DEF Layout
  <2>2. k[i] \in 1 .. Height /\ c[i] \in 1 .. Len(TradesOf(k[i])) /\ p[i] = TradesOf(k[i])[c[i]]
    BY <1>3, <2>1
  <2> QED BY <2>1, <2>2, TradesAre
<1>9. m \in 1 .. n /\ p[m].at <= b /\ \A i \in 1 .. n : p[i].at <= b => i <= m
  <2>1. upTo \in SUBSET (1 .. n)
    BY <1>6
  <2>2. IsFiniteSet(upTo)
    <3>1. IsFiniteSet(1 .. n)
      BY FS_Interval
    <3> HIDE DEF upTo
    <3> QED BY <2>1, <3>1, FS_Subset
  <2>3. Max(upTo) \in upTo /\ \A i \in upTo : i <= Max(upTo)
    <3> HIDE DEF upTo
    <3>1. upTo \subseteq Int
      BY <2>1
    <3> QED BY <1>7, <2>2, <3>1, Ends
  <2> QED BY <1>6, <2>3
<1> HIDE DEF m, upTo
<1> DEFINE a == k[m]
<1>10. /\ a \in 1 .. h /\ a <= b /\ c[m] \in 1 .. Len(TradesOf(a)) /\ p[m] = TradesOf(a)[c[m]]
       /\ a \in 1 .. Height
  BY <1>1, <1>8, <1>9
<1>11. ASSUME NEW x \in 1 .. b, NEW y \in 1 .. Len(TradesOf(x))
       PROVE  x < a \/ (x = a /\ y <= c[m])
  <2>1. x \in 1 .. h /\ y \in 1 .. Len(s[x])
    <3>1. x \in 1 .. h
      BY <1>1
    <3> QED BY <1>3, <3>1
  <2>2. PICK i \in 1 .. n : k[i] = x /\ c[i] = y
    BY <1>4, <1>5, <1>6, <2>1 DEF Layout
  <2>3. i <= m
    <3>1. p[i].at = x
      BY <1>8, <2>2
    <3>2. p[i].at <= b
      BY <1>1, <3>1
    <3> QED BY <1>9, <3>2
  <2>4. CASE i = m
    BY <1>10, <2>2, <2>4
  <2>5. CASE i < m
    <3>1. k[i] < k[m] \/ (k[i] = k[m] /\ c[i] < c[m])
      BY <1>5, <1>6, <1>9, <2>5 DEF Layout
    <3>2. c[m] \in Int /\ y \in Int
      <4>1. TradesOf(a) \in Seq(Swap) /\ TradesOf(x) \in Seq(Swap)
        BY <1>3, <1>10, <2>1, TradesAre
      <4> QED BY <1>10, <4>1
    <3> QED BY <2>2, <3>1, <3>2
  <2> QED BY <1>9, <2>3, <2>4, <2>5
<1>12. p[m].tick = blocks[a].after
  <2>1. TradesOf(a) \in Seq(Swap)
    BY <1>10, TradesAre
  <2> DEFINE l == Len(TradesOf(a))
  <2>2. l \in Nat /\ c[m] \in 1 .. l
    BY <1>10, <2>1
  <2>3. a \in 1 .. b /\ l \in 1 .. l
    BY <1>1, <1>10, <2>2
  <2>4. a < a \/ (a = a /\ l <= c[m])
    BY <1>11, <2>3
  <2>5. c[m] = l /\ l > 0
    BY <1>10, <2>2, <2>4
  <2> QED BY <1>10, <2>5, TradesAre
<1>13. \A x \in 1 .. b : a < x => blocks[x].after = blocks[x - 1].after
  <2> SUFFICES ASSUME NEW x \in 1 .. b, a < x PROVE blocks[x].after = blocks[x - 1].after
    OBVIOUS
  <2>1. x \in 1 .. Height /\ x > 1
    BY <1>1, <1>10
  <2>2. TradesOf(x) \in Seq(Swap)
    BY <2>1, TradesAre
  <2>3. Len(TradesOf(x)) = 0
    <3>1. SUFFICES ASSUME Len(TradesOf(x)) # 0 PROVE FALSE
      OBVIOUS
    <3>2. 1 \in 1 .. Len(TradesOf(x))
      BY <2>2, <3>1
    <3>3. x < a \/ x = a
      BY <1>11, <3>2
    <3> QED BY <1>10, <3>3
  <2> QED BY <2>1, <2>3, TradesAre
<1>14. a \in Nat /\ a >= 1 /\ b \in Nat /\ b >= a
  BY <1>1, <1>10
<1> HIDE DEF a
<1>15. PICK d \in Nat : b = a + d
  <2>1. b - a \in Nat /\ b = a + (b - a)
    BY <1>14
  <2> QED BY <2>1
<1> DEFINE P == {i \in 0 .. d : blocks[a + i].after = blocks[a].after}
<1>16. 0 \in P
  BY <1>10, <1>15
<1>17. ASSUME NEW i \in 0 .. d - 1, i \in P PROVE i + 1 \in P
  <2>1. a + (i + 1) \in 1 .. b /\ a < a + (i + 1) /\ (a + (i + 1)) - 1 = a + i /\ i + 1 \in 0 .. d
    BY <1>14, <1>15
  <2> QED BY <1>13, <1>17, <2>1
<1> HIDE DEF P
<1>18. \A i \in 0 .. d : i \in P
  BY <1>16, <1>17, CountUp
<1>19. blocks[b].after = blocks[a].after
  <2>1. d \in 0 .. d
    BY <1>15
  <2> QED BY <1>15, <1>18, <2>1 DEF P
<1> QED BY <1>2, <1>7, <1>12, <1>19 DEF a

-----------------------------------------------------------------------------
(* The tick that a mint evidences *)

\* What a mint of liquidity d at tick t is seen to spend.
SeenToSpend(gt, d, t) ==
    LET a == amountsFromLiquidity(d, t) IN
    /\ gt \in Amount /\ gt[2] = a[2]
    /\ gt[1] = a[1] \/ (gt[1] = a[1] + Refund /\ a[1] > 0)

\* It gives the amounts back to the token, though more of the native coin was sent along.
LEMMA TickOfMint ==
    ASSUME NEW d \in Nat \ {0}, NEW t \in Int, NEW gt, SeenToSpend(gt, d, t)
    PROVE  amountsFromLiquidity(d, tickFromAmounts(gt, d)) = amountsFromLiquidity(d, t)
<1> DEFINE c == Clamp(t)
           x == TickUpper - c
           y == c - TickLower
           k == tickFromAmounts(gt, d)
<1>1. /\ TickLower \in Nat /\ TickUpper \in Nat /\ TickLower < TickUpper
      /\ c \in TickLower .. TickUpper
  BY TicksOrdered, ClampIn
<1>2. amountsFromLiquidity(d, t) = <<d * x, d * y>>
  BY DEF amountsFromLiquidity
<1> HIDE DEF c
<1>3. x \in Nat /\ y \in Nat /\ x + y > 0 /\ TickLower + y = c /\ (x = 0 => c = TickUpper)
      /\ (y = 0 => c = TickLower) /\ (x = 0 \/ y = 0 \/ (x > 0 /\ y > 0))
  BY <1>1
<1>4. /\ Clamp(c) = c
      /\ \A z : Clamp(z) = c => amountsFromLiquidity(d, z) = amountsFromLiquidity(d, t)
  BY <1>1, <1>2 DEF Clamp, amountsFromLiquidity
<1> HIDE DEF x, y
<1>5. d * x \in Nat /\ d * y \in Nat /\ (d * x > 0 <=> x > 0) /\ (d * y > 0 <=> y > 0)
      /\ (d * y) \div d = y
  <2>1. d * x \in Nat /\ d * y \in Nat
    BY <1>3, TimesNat
  <2>2. (d * y) \div d = y /\ (d * x) \div d = x
    BY <1>3, TimesBack
  <2>3. d * 0 = 0 /\ 0 \div d = 0
    OBVIOUS
  <2>4. x # 0 => d * x # 0
    BY <2>2, <2>3
  <2>5. y # 0 => d * y # 0
    BY <2>2, <2>3
  <2> QED BY <1>3, <2>1, <2>2, <2>3, <2>4, <2>5
<1>6. /\ gt[1] \in Nat /\ gt[2] \in Nat /\ gt = <<gt[1], gt[2]>> /\ gt[2] = d * y
      /\ gt[1] = d * x \/ (gt[1] = d * x + Refund /\ d * x > 0)
  BY <1>2 DEF SeenToSpend, Amount
<1>7. /\ gt[1] > 0 <=> x > 0
      /\ gt[2] > 0 <=> y > 0
  BY <1>5, <1>6, ReaderAssumption
<1>8. gt # Zero
  <2>1. gt[1] > 0 \/ gt[2] > 0
    BY <1>3, <1>7
  <2> QED BY <2>1 DEF Zero
<1>9. CASE x > 0 /\ y > 0
  <2>1. k = Clamp(TickLower + gt[2] \div d)
    BY <1>7, <1>8, <1>9 DEF tickFromAmounts
  <2>2. gt[2] \div d = y
    BY <1>5, <1>6
  <2>3. k = c
    BY <1>3, <1>4, <2>1, <2>2
  <2> QED BY <1>4, <2>3
<1>10. CASE x > 0 /\ y = 0
  <2>1. gt[1] > 0 /\ gt[2] = 0 /\ ~(gt[2] > 0)
    BY <1>6, <1>7, <1>10
  <2>2. k = TickLower
    BY <1>8, <2>1 DEF tickFromAmounts
  <2> QED BY <1>3, <1>4, <1>10, <2>2
<1>11. CASE x = 0
  <2>1. ~(gt[1] > 0) /\ ~(d <= 0)
    BY <1>7, <1>11
  <2>2. k = TickUpper
    BY <1>8, <2>1 DEF tickFromAmounts
  <2> QED BY <1>3, <1>4, <1>11, <2>2
<1> QED BY <1>3, <1>9, <1>10, <1>11

\* What is known of what an owner spent, when nothing was paid at the same time.
LEMMA SpentIs ==
    ASSUME ChainInv, NEW native \in BOOLEAN, NEW unread, Txs \subseteq 1 .. Height,
           NEW b \in DOMAIN outflowsOf(ownerFlows(native, unread)), blocks[b].paid = Zero
    PROVE  LET gt == outflowsOf(ownerFlows(native, unread))[b] IN
           /\ gt \in Amount /\ gt[2] = blocks[b].spent[2]
           /\ gt[1] = blocks[b].spent[1] \/ (gt[1] = blocks[b].spent[1] + Refund /\ blocks[b].spent[1] > 0)
<1> DEFINE flows == ownerFlows(native, unread)
           out == outflowsOf(flows)
<1>1. /\ DOMAIN flows \subseteq Txs
      /\ \A x \in DOMAIN flows : flows[x] \in Int \X Int /\ FlowOf(blocks[x], flows[x])
  BY FlowsAre
<1> HIDE DEF flows
<1>5. b \in DOMAIN flows /\ out[b] = Minus(Zero, flows[b]) /\ out[b] \in Amount
  BY <1>1, OutflowsAre DEF flows
<1>6. FlowOf(blocks[b], flows[b]) /\ b \in 1 .. Height
  BY <1>1, <1>5
<1>7. blocks[b].spent[1] \in Nat /\ blocks[b].spent[2] \in Nat /\ blocks[b].paid[1] = 0 /\ blocks[b].paid[2] = 0
  <2>1. blocks[b].spent \in Amount
    BY <1>6, BlockIs DEF Block
  <2>2. Zero[1] = 0 /\ Zero[2] = 0
    BY DEF Zero
  <2> QED BY <2>1, <2>2 DEF Amount
<1>8. out[b][1] = 0 - flows[b][1] /\ out[b][2] = 0 - flows[b][2]
  BY <1>5 DEF Minus, Zero
<1>9. /\ out[b][2] = blocks[b].spent[2]
      /\ out[b][1] = blocks[b].spent[1] \/ (out[b][1] = blocks[b].spent[1] + Refund /\ blocks[b].spent[1] > 0)
  <2> HIDE DEF out
  <2> QED BY <1>6, <1>7, <1>8, ReaderAssumption DEF FlowOf
<1> QED BY <1>5, <1>9 DEF flows

\* The first of two that is something.
LEMMA FirstIsFirst == ASSUME NEW a, a # NoTick, NEW b PROVE FirstOf(<<a, b>>) = a
<1> DEFINE s == <<a, b>>
           I == {i \in DOMAIN s : s[i] # NoTick}
<1>1. DOMAIN s = 1 .. 2 /\ s[1] = a
  OBVIOUS
<1> HIDE DEF s
<1>2. 1 \in I /\ I \in SUBSET (1 .. 2)
  BY <1>1
<1>3. FirstOf(s) = s[Min(I)]
  BY DEF FirstOf
<1> HIDE DEF I
<1>4. IsFiniteSet(I) /\ I \subseteq Int /\ I # {}
  <2>1. IsFiniteSet(1 .. 2)
    <3>1. 1 \in Int /\ 2 \in Int
      OBVIOUS
    <3> QED BY <3>1, FS_Interval
  <2>2. IsFiniteSet(I)
    BY <1>2, <2>1, FS_Subset
  <2> QED BY <1>2, <2>2
<1>5. Min(I) \in I /\ Min(I) <= 1
  BY <1>2, <1>4, Ends
<1>6. Min(I) = 1
  <2>1. Min(I) \in 1 .. 2
    BY <1>2, <1>5
  <2> QED BY <1>5, <2>1
<1> QED BY <1>1, <1>3, <1>6 DEF s

-----------------------------------------------------------------------------
(* The states that mints are decoded by *)

OneIncrease(bl, S) ==
    \A b \in S : \A i, j \in DOMAIN bl[b].delta : bl[b].delta[i] > 0 /\ bl[b].delta[j] > 0 => i = j
Increases(x) == \E i \in DOMAIN x.delta : x.delta[i] > 0
Fresh(bl, S) == \A b \in S : Increases(bl[b]) => bl[b].paid = Zero

\* A tick by which a block's deposit is what it spent.
GivesBack(x, t) == \A i \in DOMAIN x.delta : x.delta[i] > 0 => amountsFromLiquidity(x.delta[i], t) = x.spent

\* Such is the tick that an honest source gives.
LEMMA HonestTick ==
    ASSUME ChainInv, version = "v4", head \in 1 .. Height, Spending(blocks), Txs \subseteq 1 .. head,
           NEW S, RawOf(blocks, raw, S), Calm(blocks, S), OneIncrease(blocks, S),
           NEW native \in BOOLEAN, NEW unread, NEW gone, Fresh(blocks, S \cap gone),
           NEW implied, implied = impliedMintTicks(raw, outflowsOf(ownerFlows(native, unread))),
           NEW b \in Txs, b \in S, ~TickSources(b, gone, implied).guessed
    PROVE  GivesBack(blocks[b], TickSources(b, gone, implied).tick)
<1> DEFINE x == blocks[b]
           t == x.tick
           out == outflowsOf(ownerFlows(native, unread))
           source == TickSources(b, gone, implied)
<1> SUFFICES ASSUME NEW k \in DOMAIN x.delta, x.delta[k] > 0
             PROVE  amountsFromLiquidity(x.delta[k], source.tick) = x.spent
  BY DEF GivesBack
<1> DEFINE d == x.delta[k]
<1>1. b \in 1 .. Height /\ b \in 1 .. head /\ Height \in Nat /\ Txs \subseteq 1 .. Height
  BY TipIs
<1>2. /\ x.delta \in Seq(Int) /\ t \in Int /\ x.after \in PoolTicks /\ x.after = t
      /\ x.spent = PutIn(x.delta, t)
  <2>1. x \in Block
    BY <1>1, BlockIs
  <2>2. x.tick \in MinTick .. MaxTick /\ x.after \in MinTick .. MaxTick
    BY <2>1 DEF Block
  <2>3. x.after = x.tick
    BY DEF Calm
  <2>4. x.spent = PutIn(x.delta, x.tick)
    BY <1>1 DEF Spending, Height
  <2> QED BY <2>1, <2>2, <2>3, <2>4 DEF Block, PoolTicks
<1>3. d \in Nat \ {0} /\ \A i \in DOMAIN x.delta : x.delta[i] > 0 => i = k
  <2>1. d \in Int
    BY <1>2
  <2> QED BY <2>1 DEF OneIncrease
<1> HIDE DEF x, d
<1>4. x.spent = amountsFromLiquidity(d, t)
  <2>1. x.delta[k] > 0
    BY DEF d
  <2> QED BY <1>2, <1>3, <2>1, PutInOne DEF d
<1>5. x.after # NoTick
  BY <1>2, NoTickIsNone
<1>6. CASE slot0TickAt(b, gone) # NoTick
  <2>1. slot0TickAt(b, gone) = x.after
    BY <1>6 DEF slot0TickAt, x
  <2>2. source.tick = t
    BY <1>2, <1>6, <2>1 DEF TickSources
  <2> QED BY <1>4, <2>2 DEF d
<1>7. CASE slot0TickAt(b, gone) = NoTick /\ b \in DOMAIN implied
  <2>1. b \in gone
    BY <1>5, <1>7 DEF slot0TickAt, x
  <2>2. x.paid = Zero
    <3>1. Increases(x)
      BY DEF Increases
    <3> QED BY <2>1, <3>1 DEF Fresh, x
  <2>3. source.tick = implied[b]
    BY <1>7 DEF TickSources
  <2>4. \A c \in DOMAIN out : out[c] \in Amount
    <3>1. \A c \in DOMAIN ownerFlows(native, unread) : ownerFlows(native, unread)[c] \in Int \X Int
      BY <1>1, FlowsAre
    <3> QED BY <3>1, OutflowsAre
  <2>5. raw \in Seq(RawEvent)
    BY DEF RawOf
  <2>6. Evidenced(raw, out, b, implied[b])
    <3> HIDE DEF out
    <3>1. implied = impliedMintTicks(raw, out)
      BY DEF out
    <3> QED BY <1>7, <2>4, <2>5, <3>1, ImpliedAre
  <2>7. PICK i \in 1 .. Len(raw) :
          raw[i].block = b /\ raw[i].delta > 0 /\ implied[b] = tickFromAmounts(out[b], raw[i].delta)
    BY <2>6 DEF Evidenced
  <2>8. raw[i].delta = d
    <3>1. PICK j \in DOMAIN x.delta : raw[i].delta = x.delta[j]
      BY <2>7 DEF RawOf, x
    <3> QED BY <1>3, <2>7, <3>1 DEF d
  <2>9. SeenToSpend(out[b], d, t)
    <3>1. b \in DOMAIN out
      BY <2>6 DEF Evidenced
    <3>2. /\ out[b] \in Amount /\ out[b][2] = x.spent[2]
          /\ out[b][1] = x.spent[1] \/ (out[b][1] = x.spent[1] + Refund /\ x.spent[1] > 0)
      BY <1>1, <2>2, <3>1, SpentIs DEF x
    <3> QED BY <1>4, <3>2 DEF SeenToSpend
  <2>10. amountsFromLiquidity(d, implied[b]) = amountsFromLiquidity(d, t)
    <3> HIDE DEF out, t
    <3> QED BY <1>2, <1>3, <2>7, <2>8, <2>9, TickOfMint
  <2> QED BY <1>4, <2>3, <2>10 DEF d
<1>8. CASE slot0TickAt(b, gone) = NoTick /\ b \notin DOMAIN implied
  <2>1. swapTickAt(b) # NoTick /\ source.tick = FirstOf(<<swapTickAt(b), poolInitTick>>)
    BY <1>8 DEF TickSources
  <2>2. swapTickAt(b) = x.after
    BY <1>1, <2>1, SwapTickIs DEF swapTickAt, poolSwaps, x
  <2>3. FirstOf(<<swapTickAt(b), poolInitTick>>) = swapTickAt(b)
    BY <2>1, FirstIsFirst
  <2>4. source.tick = t
    BY <1>2, <2>1, <2>2, <2>3
  <2> QED BY <1>4, <2>4 DEF d
<1> QED BY <1>6, <1>7, <1>8

\* When the reading does not say that it guessed, every mint is decoded by such a tick.
Clear(bl) ==
    LET M == Mod(bl, head, ctx) IN ticksOk /\ Calm(bl, M) /\ OneIncrease(bl, M) /\ Fresh(bl, M \cap lost)
MintsRead(bl) == Clear(bl) => \A b \in Txs : GivesBack(bl[b], st[b].tick)

LEMMA StatesClear ==
    ASSUME ReaderInv, Spending(blocks), LogsRead(blocks), version = "v4", NEW native \in BOOLEAN, NEW unread,
           NEW gone, NEW tickGone \in {{}, gone}, StatesOf(ownerFlows(native, unread), gone, tickGone),
           Calm(blocks, Mod(blocks, head, ctx)), OneIncrease(blocks, Mod(blocks, head, ctx)),
           Fresh(blocks, Mod(blocks, head, ctx) \cap gone), ticksOk'
    PROVE  \A b \in Txs : GivesBack(blocks[b], st'[b].tick)
<1> DEFINE M == Mod(blocks, head, ctx)
           implied == impliedMintTicks(raw, outflowsOf(ownerFlows(native, unread)))
<1>1. ChainInv /\ head \in 1 .. Height /\ RawOf(blocks, raw, M)
  BY DEF ReaderInv, LogsRead, Height
<1>2. Txs \subseteq M /\ Txs \subseteq 1 .. head
  <2>1. M \subseteq 1 .. head
    BY DEF Mod
  <2> HIDE DEF M
  <2> QED BY <1>1, <2>1, TxsAre
<1>3. Calm(blocks, M) /\ OneIncrease(blocks, M) /\ Fresh(blocks, M \cap tickGone)
  BY DEF Fresh
<1>4. \A b \in Txs : LET source == TickSources(b, tickGone, implied)
                     IN  ~source.guessed /\ st'[b].tick = source.tick
  BY StatesTyped
<1> HIDE DEF M
<1>5. implied = impliedMintTicks(raw, outflowsOf(ownerFlows(native, unread)))
  OBVIOUS
<1> HIDE DEF implied
<1> SUFFICES ASSUME NEW b \in Txs PROVE GivesBack(blocks[b], st'[b].tick)
  OBVIOUS
<1>6. GivesBack(blocks[b], TickSources(b, tickGone, implied).tick)
  BY <1>1, <1>2, <1>3, <1>4, <1>5, HonestTick
<1> QED BY <1>4, <1>6

-----------------------------------------------------------------------------
(* What is reported as deposited *)

Deposited(events) == Total([i \in deposits(events) |-> events[i].amt])
SpentBy(bl) == Total([b \in {c \in 1 .. head : Counts(bl, head, ctx, c)} |-> bl[b].spent])

\* The increases among the events are the blocks', each of what its block spent.
PutsIn(ev, bl, S) ==
    /\ ev \in Seq(AnyEvent)
    /\ \A i \in 1 .. Len(ev) : ev[i].kind = "increase" => ev[i].tx \in S /\ ev[i].amt = bl[ev[i].tx].spent
    /\ \A b \in S : Increases(bl[b]) => \E i \in 1 .. Len(ev) : ev[i].kind = "increase" /\ ev[i].tx = b

\* What the events of a kind say comes to what is due, when each says what its own
\* transaction is due.
LEMMA KindTotal ==
    ASSUME NEW ev \in Seq(AnyEvent), NEW kind, NEW due, Amounts(due),
           \A i \in 1 .. Len(ev) : ev[i].kind = kind => ev[i].tx \in DOMAIN due /\ ev[i].amt = due[ev[i].tx],
           \A b \in DOMAIN due : due[b] = Zero \/ \E i \in 1 .. Len(ev) : ev[i].kind = kind /\ ev[i].tx = b
    PROVE  Total([i \in OfKind(ev, kind) |-> ev[i].amt]) = Total(due)
<1> DEFINE D == OfKind(ev, kind)
           put == [i \in D |-> ev[i].amt]
           m == [i \in D |-> ev[i].tx]
           got == [b \in {m[i] : i \in D} |-> due[b]]
<1>1. DOMAIN ev = 1 .. Len(ev) /\ Len(ev) \in Nat
  OBVIOUS
<1>2. D \subseteq 1 .. Len(ev) /\ \A i \in D : ev[i].kind = kind /\ IsFirst(ev, i)
  BY <1>1 DEF OfKind
<1>3. \A b \in DOMAIN due : due[b] \in Amount
  BY DEF Amounts
<1> HIDE DEF D
<1>4. \A i \in D : ev[i].tx \in DOMAIN due /\ ev[i].amt = due[ev[i].tx]
  BY <1>2
<1>5. ASSUME NEW i \in D, NEW j \in D, ev[i].tx = ev[j].tx PROVE i = j
  <2>1. i \in Nat /\ j \in Nat /\ i >= 1 /\ j >= 1
    BY <1>1, <1>2
  <2>2. i < j => i \in 1 .. j - 1
    BY <2>1
  <2>3. j < i => j \in 1 .. i - 1
    BY <2>1
  <2>4. ev[i].kind = ev[j].kind /\ IsFirst(ev, i) /\ IsFirst(ev, j)
    BY <1>2
  <2>5. ~(i < j)
    BY <1>5, <2>2, <2>4 DEF IsFirst
  <2>6. ~(j < i)
    BY <1>5, <2>3, <2>4 DEF IsFirst
  <2> QED BY <2>1, <2>5, <2>6
<1>6. Amounts(put)
  <2>1. IsFiniteSet(1 .. Len(ev))
    BY <1>1, FS_Interval
  <2>2. IsFiniteSet(D)
    BY <1>2, <2>1, FS_Subset
  <2> QED BY <1>3, <1>4, <2>2 DEF Amounts
<1>7. Total(got) = Total(put)
  <2>1. /\ DOMAIN put = D /\ DOMAIN got = {m[i] : i \in DOMAIN put}
        /\ \A i, j \in DOMAIN put : m[i] = m[j] => i = j
        /\ \A i \in DOMAIN put : got[m[i]] = put[i]
    BY <1>4, <1>5
  <2> HIDE DEF put, got, m
  <2> QED BY <1>6, <2>1, TotalImage
<1>8. Total(got) = Total(due)
  <2>1. DOMAIN got \subseteq DOMAIN due /\ \A b \in DOMAIN got : got[b] = due[b]
    BY <1>4
  <2>2. ASSUME NEW b \in DOMAIN due, b \notin DOMAIN got PROVE due[b] = Zero
    <3> SUFFICES ASSUME due[b] # Zero PROVE FALSE
      OBVIOUS
    <3>1. PICK k \in 1 .. Len(ev) : ev[k].kind = kind /\ ev[k].tx = b
      OBVIOUS
    <3>2. PICK i \in D : ev[i].tx = ev[k].tx
      BY <3>1, FirstOfKind DEF D
    <3>3. m[i] = b
      BY <3>1, <3>2
    <3> QED BY <2>2, <3>2, <3>3
  <2>3. \A b \in DOMAIN due \ DOMAIN got : due[b] = Zero
    BY <2>2
  <2> HIDE DEF got
  <2> QED BY <2>1, <2>3, TotalOnly
<1> QED BY <1>7, <1>8 DEF D

\* Then what is reported as deposited is what was spent.
LEMMA DepositedIs ==
    ASSUME ChainInv, head \in 1 .. Height, NEW ev, PutsIn(ev, blocks, Mod(blocks, head, ctx))
    PROVE  Deposited(ev) = SpentBy(blocks)
<1> DEFINE S == Mod(blocks, head, ctx)
           C == {c \in 1 .. head : Counts(blocks, head, ctx, c)}
           due == [b \in C |-> blocks[b].spent]
<1>1. ev \in Seq(AnyEvent) /\ DOMAIN ev = 1 .. Len(ev) /\ Len(ev) \in Nat /\ Height \in Nat
  BY TipIs DEF PutsIn
<1>2. \A b \in S : b \in C /\ blocks[b].delta # <<>>
  BY DEF Mod
<1>3. \A b \in C \ S : blocks[b].delta = <<>>
  BY DEF Mod
<1>4. \A b \in C : /\ b \in 1 .. Height /\ blocks[b].spent \in Amount
                   /\ ~Increases(blocks[b]) => blocks[b].spent = Zero
  <2> SUFFICES ASSUME NEW b \in 1 .. Height
               PROVE  /\ blocks[b].spent \in Amount
                      /\ ~Increases(blocks[b]) => blocks[b].spent = Zero
    BY <1>1
  <2>1. blocks[b] \in Block /\ Honest(blocks[b], version)
    BY BlockIs
  <2>2. \A i \in DOMAIN blocks[b].delta : blocks[b].delta[i] \in Int
    <3>1. blocks[b].delta \in Seq(Int)
      BY <2>1 DEF Block
    <3> QED BY <3>1
  <2>3. ~Increases(blocks[b]) => \A i \in DOMAIN blocks[b].delta : blocks[b].delta[i] <= 0
    BY <2>2 DEF Increases
  <2> QED BY <2>1, <2>3 DEF Honest, Block
<1>5. \A b \in C \ S : ~Increases(blocks[b])
  <2>1. \A x : x = <<>> => DOMAIN x = {}
    OBVIOUS
  <2> QED BY <1>3, <2>1 DEF Increases
<1>6. IsFiniteSet(C)
  <2>1. IsFiniteSet(1 .. head) /\ C \subseteq 1 .. head
    <3>1. IsFiniteSet(1 .. head)
      BY <1>1, FS_Interval
    <3> QED BY <3>1
  <2> HIDE DEF C
  <2> QED BY <2>1, FS_Subset
<1> HIDE DEF S, C
<1>7. Amounts(due)
  BY <1>4, <1>6 DEF Amounts
<1>8. \A i \in 1 .. Len(ev) : ev[i].kind = "increase" => ev[i].tx \in DOMAIN due /\ ev[i].amt = due[ev[i].tx]
  BY <1>2 DEF PutsIn, S
<1>9. \A b \in DOMAIN due : due[b] = Zero \/ \E i \in 1 .. Len(ev) : ev[i].kind = "increase" /\ ev[i].tx = b
  <2> SUFFICES ASSUME NEW b \in C, Increases(blocks[b])
               PROVE  \E i \in 1 .. Len(ev) : ev[i].kind = "increase" /\ ev[i].tx = b
    BY <1>4
  <2>1. b \in S
    BY <1>5
  <2> QED BY <2>1 DEF PutsIn, S
<1>10. SpentBy(blocks) = Total(due)
  BY DEF SpentBy, C
<1> HIDE DEF due
<1> QED BY <1>1, <1>7, <1>8, <1>9, <1>10, KindTotal DEF Deposited, deposits

\* What an open position would pay now is no deposit.
LEMMA MarkedPutsIn ==
    ASSUME NEW r, NEW S, NEW bl, PutsIn(r, bl, S), NEW E \in Seq(AnyEvent), NEW cur, NEW fees,
           Marked(r, E, cur, fees)
    PROVE  PutsIn(E, bl, S)
<1>1. PICK n \in Nat : n = Len(r)
  BY DEF PutsIn
<1>2. /\ Len(E) = n + 2 /\ \A i \in 1 .. n : E[i] = r[i]
      /\ E[n + 1].kind = "decrease" /\ E[n + 2].kind = "collect"
  BY <1>1 DEF Marked
<1>3. \A i \in 1 .. n + 2 : i \in 1 .. n \/ i = n + 1 \/ i = n + 2
  BY <1>1
<1>4. \A i \in 1 .. Len(E) : E[i].kind = "increase" => i \in 1 .. n
  BY <1>2, <1>3
<1>5. \A i \in 1 .. Len(E) : E[i].kind = "increase" => E[i].tx \in S /\ E[i].amt = bl[E[i].tx].spent
  BY <1>1, <1>2, <1>4 DEF PutsIn
<1>6. \A i \in 1 .. n : i \in 1 .. Len(E)
  BY <1>1, <1>2
<1>7. ASSUME NEW b \in S, Increases(bl[b])
      PROVE  \E i \in 1 .. Len(E) : E[i].kind = "increase" /\ E[i].tx = b
  <2>1. PICK i \in 1 .. n : r[i].kind = "increase" /\ r[i].tx = b
    BY <1>1, <1>7 DEF PutsIn
  <2> QED BY <1>2, <1>6, <2>1
<1> QED BY <1>5, <1>7 DEF PutsIn

LEMMA ReportDeposits ==
    ASSUME NEW events, NEW feed, NEW known, Report(events, feed, known)
    PROVE  result'.pnl.deposited = Deposited(events)
<1> DEFINE p == computePnL(events, feed, meta.pair = "anchor0")
<1>1. p.deposited = Deposited(events)
  BY DEF computePnL, Deposited
<1> HIDE DEF p
<1>2. result' = [pnl |-> p, open |-> IsOpen, feed |-> feed, now |-> Height, exit |-> exitTxHash(events),
                 times |-> {events[i].at : i \in DOMAIN events}]
  BY DEF Report, p
<1> QED BY <1>1, <1>2

\* In v3 each increase is of what its block spent, when it is the only one there.
LEMMA V3PutsIn ==
    ASSUME ChainInv, Spending(blocks), NEW S \in SUBSET (1 .. Height), NEW r, EventsOf(blocks, r, S),
           OneIncrease(blocks, S)
    PROVE  PutsIn(r, blocks, S)
<1>1. r \in Seq(AnyEvent)
  BY DEF EventsOf
<1>2. ASSUME NEW i \in 1 .. Len(r), r[i].kind = "increase"
      PROVE  r[i].tx \in S /\ r[i].amt = blocks[r[i].tx].spent
  <2> DEFINE e == r[i]
             x == blocks[e.tx]
  <2>1. e.tx \in S /\ e.tx \in 1 .. Height /\ From(x, e)
    BY DEF EventsOf
  <2>2. x \in Block /\ x.spent = PutIn(x.delta, x.tick)
    BY <2>1, BlockIs DEF Spending, Height
  <2>3. \A j, k \in DOMAIN x.delta : x.delta[j] > 0 /\ x.delta[k] > 0 => j = k
    BY <2>1 DEF OneIncrease
  <2> HIDE DEF e, x
  <2>4. e.kind = "increase"
    BY <1>2 DEF e
  <2>5. PICK k \in DOMAIN x.delta : e.liq = Magnitude(x.delta[k]) /\ x.delta[k] > 0
        /\ e.amt = amountsFromLiquidity(e.liq, x.tick)
    BY <2>1, <2>4 DEF From
  <2>6. x.delta \in Seq(Int) /\ x.tick \in Int
    <3>1. x.tick \in MinTick .. MaxTick /\ x.delta \in Seq(Int)
      BY <2>2 DEF Block
    <3> QED BY <3>1, NoTickIsNone DEF PoolTicks
  <2>7. e.liq = x.delta[k]
    <3>1. x.delta[k] \in Int
      BY <2>6
    <3> QED BY <2>5, <3>1 DEF Magnitude
  <2>8. PutIn(x.delta, x.tick) = amountsFromLiquidity(x.delta[k], x.tick)
    BY <2>3, <2>5, <2>6, PutInOne
  <2> QED BY <2>1, <2>2, <2>5, <2>7, <2>8 DEF e, x
<1>3. ASSUME NEW b \in S, Increases(blocks[b])
      PROVE  \E i \in 1 .. Len(r) : r[i].kind = "increase" /\ r[i].tx = b
  <2>1. Shows(blocks[b], "increase")
    BY <1>3 DEF Increases, Shows
  <2> QED BY <2>1 DEF EventsOf
<1> QED BY <1>1, <1>2, <1>3 DEF PutsIn

\* So is each in v4, decoded by a tick that gives it back.
LEMMA V4PutsIn ==
    ASSUME ReaderInv, pc = "now", version = "v4", \A b \in Txs : GivesBack(blocks[b], st[b].tick),
           NEW f, NEW ev, Decoding(f, ev)
    PROVE  PutsIn(ev, blocks, Mod(blocks, head, ctx))
<1> DEFINE S == Mod(blocks, head, ctx)
<1>1. ChainInv /\ RawOf(blocks, raw, S) /\ S \subseteq 1 .. Height
  BY DEF ReaderInv, LogsRead, Mod, Height
<1>2. Walking(f, raw, st, received) /\ ev = f[Len(raw)].events /\ ev \in Seq(AnyEvent)
  BY DEF Decoding, Placed, Ordered
<1>3. PICK b : Entries(b, ev, f, raw, st, received)
  BY <1>2, WalkEntries
<1> HIDE DEF S
<1>4. ASSUME NEW j \in 1 .. Len(raw)
      PROVE  LET new == NewAt(f, raw, st, received, j)
                 c == raw[j].block IN
             /\ c \in S
             /\ \A y \in 1 .. Len(new) : new[y].kind = "increase" => new[y].tx = c /\ new[y].amt = blocks[c].spent
             /\ raw[j].delta > 0 => \E y \in 1 .. Len(new) : new[y].kind = "increase" /\ new[y].tx = c
  <2> DEFINE acc == f[j - 1]
             e == raw[j]
             c == e.block
             x == st[c]
             new == NewOf(acc, e, x, received)
  <2>1. Given(acc, e, x, received)
    BY <1>2, WalkGiven
  <2>2. NewAt(f, raw, st, received, j) = new
    BY DEF NewAt
  <2>3. c \in S /\ \E k \in DOMAIN blocks[c].delta : e.delta = blocks[c].delta[k]
    BY <1>1 DEF RawOf
  <2>4. e.delta > 0 => Moves(e, x) = blocks[c].spent
    <3> SUFFICES ASSUME e.delta > 0 PROVE Moves(e, x) = blocks[c].spent
      OBVIOUS
    <3>1. c \in Txs
      BY <1>1 DEF RawOf, Txs
    <3>2. GivesBack(blocks[c], x.tick)
      BY <3>1
    <3>3. amountsFromLiquidity(e.delta, x.tick) = blocks[c].spent
      BY <2>3, <3>2 DEF GivesBack
    <3>4. Magnitude(e.delta) = e.delta
      <4>1. e.delta \in Int
        BY <2>1, PartsAre
      <4> HIDE DEF e
      <4> QED BY <4>1 DEF Magnitude
    <3> QED BY <3>3, <3>4 DEF Moves
  <2>5. e.delta \in Int
    BY <2>1, PartsAre
  <2> HIDE DEF acc, x, new, c
  <2>6. c = e.block
    BY DEF c
  <2> HIDE DEF e
  <2>7. /\ PutInEvent(e, x).kind = "increase" /\ PutInEvent(e, x).tx = c /\ PutInEvent(e, x).amt = Moves(e, x)
        /\ FeeEvent(acc, e, x).kind = "collect" /\ TakenEvent(e, x, received).kind = "decrease"
        /\ PaidEvent(acc, e, x, received).kind = "collect"
    BY <2>6 DEF PutInEvent, FeeEvent, TakenEvent, PaidEvent, Event
  <2>8. CASE e.delta > 0
    <3>1. \/ new = <<PutInEvent(e, x), FeeEvent(acc, e, x)>>
          \/ new = <<PutInEvent(e, x)>>
      BY <2>8, NewCases DEF new
    <3>2. /\ new[1] = PutInEvent(e, x) /\ 1 \in 1 .. Len(new)
          /\ \A y \in 1 .. Len(new) : new[y] = PutInEvent(e, x) \/ new[y] = FeeEvent(acc, e, x)
      <4> DEFINE p == PutInEvent(e, x)
                 q == FeeEvent(acc, e, x)
      <4>1. new = <<p, q>> \/ new = <<p>>
        BY <3>1
      <4> HIDE DEF p, q
      <4>2. /\ new[1] = p /\ 1 \in 1 .. Len(new)
            /\ \A y \in 1 .. Len(new) : new[y] = p \/ new[y] = q
        BY <4>1
      <4> QED BY <4>2 DEF p, q
    <3>3. "increase" # "collect"
      OBVIOUS
    <3> QED BY <2>2, <2>3, <2>4, <2>7, <2>8, <3>2, <3>3 DEF e, c
  <2>9. CASE ~(e.delta > 0)
    <3>1. \/ new = <<TakenEvent(e, x, received), PaidEvent(acc, e, x, received)>>
          \/ new = <<PaidEvent(acc, e, x, received)>>
      BY <2>9, NewCases DEF new
    <3>2. \A y \in 1 .. Len(new) : new[y] = TakenEvent(e, x, received) \/ new[y] = PaidEvent(acc, e, x, received)
      <4> DEFINE p == TakenEvent(e, x, received)
                 q == PaidEvent(acc, e, x, received)
      <4>1. new = <<p, q>> \/ new = <<q>>
        BY <3>1
      <4> HIDE DEF p, q
      <4>2. \A y \in 1 .. Len(new) : new[y] = p \/ new[y] = q
        BY <4>1
      <4> QED BY <4>2 DEF p, q
    <3>3. "increase" # "collect" /\ "increase" # "decrease"
      OBVIOUS
    <3> QED BY <2>2, <2>3, <2>7, <2>9, <3>2, <3>3 DEF e, c
  <2> QED BY <2>8, <2>9
<1>5. ASSUME NEW i \in 1 .. Len(ev), ev[i].kind = "increase"
      PROVE  ev[i].tx \in S /\ ev[i].amt = blocks[ev[i].tx].spent
  <2>1. PICK j \in 1 .. Len(raw) : \E y \in 1 .. Len(NewAt(f, raw, st, received, j)) :
            ev[i] = NewAt(f, raw, st, received, j)[y]
    BY <1>3 DEF Entries
  <2>2. PICK y \in 1 .. Len(NewAt(f, raw, st, received, j)) : ev[i] = NewAt(f, raw, st, received, j)[y]
    BY <2>1
  <2> QED BY <1>4, <1>5, <2>2
<1>6. ASSUME NEW c \in S, Increases(blocks[c])
      PROVE  \E i \in 1 .. Len(ev) : ev[i].kind = "increase" /\ ev[i].tx = c
  <2>1. PICK k \in DOMAIN blocks[c].delta : blocks[c].delta[k] > 0
    BY <1>6 DEF Increases
  <2>2. PICK j \in 1 .. Len(raw) : raw[j].block = c /\ raw[j].delta = blocks[c].delta[k]
    BY <1>1 DEF RawOf
  <2>3. PICK y \in 1 .. Len(NewAt(f, raw, st, received, j)) :
          NewAt(f, raw, st, received, j)[y].kind = "increase" /\ NewAt(f, raw, st, received, j)[y].tx = c
    BY <1>4, <2>1, <2>2
  <2>4. PICK i \in 1 .. Len(ev) : ev[i] = NewAt(f, raw, st, received, j)[y]
    BY <1>3 DEF Entries
  <2> QED BY <2>3, <2>4
<1> QED BY <1>2, <1>5, <1>6 DEF PutsIn, S

-----------------------------------------------------------------------------
(* The reading, and what it reports as deposited *)

DepositsTold(bl) == Clear(bl) => result.pnl.deposited = SpentBy(bl)

DepositInv ==
    /\ SoundInv
    /\ Spending(blocks)
    /\ pc = "now" /\ version = "v4" => MintsRead(blocks)
    /\ pc = "done" => DepositsTold(blocks)

LEMMA DepositStarts == ASSUME Init PROVE DepositInv
<1>1. SoundInv /\ Spending(blocks)
  BY SoundStarts, SpendingStarts DEF Init
<1> QED BY <1>1 DEF Init, DepositInv

LEMMA DepositGoesOn ==
    ASSUME DepositInv, Mine, UNCHANGED readerVars, ~Over PROVE DepositInv'
<1>1. SoundInv /\ SoundInv' /\ ReaderInv /\ ChainInv /\ Spending(blocks)
  BY SoundGoesOn DEF DepositInv, SoundInv, ReaderInv
<1>2. Spending(blocks')
  BY <1>1, SpendingKeeps
<1>3. /\ version' = version /\ Height \in Nat /\ \A b \in 1 .. Height : blocks'[b] = blocks[b]
  BY <1>1, MineGrows
<1>4. /\ pc' = pc /\ ctx' = ctx /\ head' = head /\ raw' = raw /\ st' = st /\ lost' = lost /\ ticksOk' = ticksOk
  BY DEF readerVars
<1>5. ASSUME pc = "now", version = "v4" PROVE MintsRead(blocks)'
  <2> DEFINE M == Mod(blocks, head, ctx)
  <2>1. LogsRead(blocks) /\ MintsRead(blocks)
    BY <1>1, <1>5 DEF DepositInv, ReaderInv
  <2>2. head \in 1 .. Height /\ RawOf(blocks, raw, M)
    BY <1>5, <2>1 DEF LogsRead, Height
  <2>3. Mod(blocks', head, ctx) = M /\ M \subseteq 1 .. Height /\ \A b \in M : blocks'[b] = blocks[b]
    BY <1>3, <2>2, ModStays
  <2>4. Txs' = Txs /\ Txs \subseteq M
    BY <1>4, <2>2, TxsAre DEF Txs
  <2> HIDE DEF M
  <2>5. Clear(blocks)' => Clear(blocks)
    <3> SUFFICES ASSUME Clear(blocks)' PROVE Clear(blocks)
      OBVIOUS
    <3>1. ticksOk /\ Calm(blocks', M) /\ OneIncrease(blocks', M) /\ Fresh(blocks', M \cap lost)
      BY <1>4, <2>3 DEF Clear
    <3>2. Calm(blocks, M) /\ OneIncrease(blocks, M) /\ Fresh(blocks, M \cap lost)
      BY <2>3, <3>1 DEF Calm, OneIncrease, Fresh
    <3> QED BY <3>1, <3>2 DEF Clear, M
  <2>6. ASSUME Clear(blocks), NEW b \in Txs PROVE GivesBack(blocks'[b], st[b].tick)
    <3>1. GivesBack(blocks[b], st[b].tick)
      BY <2>1, <2>6 DEF MintsRead
    <3> QED BY <2>3, <2>4, <3>1
  <2> QED BY <1>4, <2>4, <2>5, <2>6 DEF MintsRead
<1>6. pc # "done"
  BY DEF Over
<1> QED BY <1>1, <1>2, <1>3, <1>4, <1>5, <1>6 DEF DepositInv

LEMMA DepositStates == ASSUME DepositInv, ReadStates PROVE DepositInv'
<1>1. SoundInv' /\ ReaderInv /\ Spending(blocks)
  BY SoundStates DEF DepositInv, SoundInv
<1>2. /\ blocks' = blocks /\ version' = version /\ ctx' = ctx /\ head' = head /\ raw' = raw
      /\ pc = "states" /\ pc' = "now"
  BY DEF ReadStates, chainVars
<1>3. LogsRead(blocks) /\ version = "v4"
  BY <1>1, <1>2 DEF ReaderInv
<1>4. PICK native \in BOOLEAN, unread \in Unreadable, horizon \in {0} \cup Txs :
         \E tickGone \in {{}, {b \in Txs : b <= horizon}} :
            StatesOf(ownerFlows(native, unread), {b \in Txs : b <= horizon}, tickGone)
  BY DEF ReadStates
<1> DEFINE gone == {b \in Txs : b <= horizon}
           M == Mod(blocks, head, ctx)
<1>5. PICK tickGone \in {{}, gone} : StatesOf(ownerFlows(native, unread), gone, tickGone)
  BY <1>4
<1> HIDE DEF gone
<1>6. lost' = gone /\ Txs' = Txs /\ Mod(blocks', head', ctx') = M
  BY <1>2, <1>5 DEF StatesOf, Txs
<1>7. ASSUME Clear(blocks)' PROVE \A b \in Txs : GivesBack(blocks[b], st'[b].tick)
  <2>1. ticksOk' /\ Calm(blocks, M) /\ OneIncrease(blocks, M) /\ Fresh(blocks, M \cap gone)
    BY <1>2, <1>6, <1>7 DEF Clear
  <2> QED BY <1>1, <1>3, <1>5, <2>1, StatesClear
<1>8. MintsRead(blocks)'
  BY <1>2, <1>6, <1>7 DEF MintsRead
<1>9. Spending(blocks)'
  BY <1>1, <1>2
<1> QED BY <1>1, <1>2, <1>8, <1>9 DEF DepositInv

\* The report of events that put in what the blocks did.
LEMMA ToldDeposits ==
    ASSUME ReaderInv, pc = "now", NEW events, PutsIn(events, blocks, Mod(blocks, head, ctx)),
           NEW feed, NEW known, Report(events, feed, known)
    PROVE  result'.pnl.deposited = SpentBy(blocks)'
<1>1. ChainInv /\ head \in 1 .. Height
  BY DEF ReaderInv, LogsRead, Height
<1>2. result'.pnl.deposited = SpentBy(blocks)
  BY <1>1, DepositedIs, ReportDeposits
<1>3. blocks' = blocks /\ ctx' = ctx /\ head' = head
  BY DEF Report, chainVars
<1> QED BY <1>2, <1>3 DEF SpentBy

LEMMA DepositFinishV3 == ASSUME DepositInv, FinishV3 PROVE DepositInv'
<1> DEFINE M == Mod(blocks, head, ctx)
           cur == amountsFromLiquidity(meta.liq, Tip.after)
           events == IF IsOpen THEN raw \o Synthetic(cur, meta.owed) ELSE raw
<1>1. SoundInv' /\ ReaderInv /\ ChainInv /\ Spending(blocks) /\ pc = "now" /\ version = "v3" /\ MetaRead
  BY SoundFinishV3 DEF DepositInv, SoundInv, ReaderInv, FinishV3
<1>2. PICK feed : Report(events, feed, TRUE)
  BY DEF FinishV3
<1>3. blocks' = blocks /\ ctx' = ctx /\ head' = head /\ version' = version /\ pc' = "done"
  BY <1>2 DEF Report, chainVars
<1>4. ASSUME OneIncrease(blocks, M) PROVE result'.pnl.deposited = SpentBy(blocks)'
  <2>1. raw # <<>> /\ M \in SUBSET (1 .. Height) /\ EventsOf(blocks, raw, M) /\ Height \in Nat
    BY <1>1, TipIs DEF ReaderInv, LogsRead, Mod, Height, DepositInv, SoundInv, InHand
  <2> HIDE DEF M
  <2>2. PutsIn(raw, blocks, M)
    BY <1>1, <1>4, <2>1, V3PutsIn
  <2>3. PutsIn(events, blocks, M)
    <3>1. CASE ~IsOpen
      BY <2>2, <3>1
    <3>2. CASE IsOpen
      <4> DEFINE E == raw \o Synthetic(cur, meta.owed)
      <4>1. cur \in Amount /\ meta.owed \in Amount
        <5>1. Tip.after \in Int
          BY <1>1, TipIs, NoTickIsNone DEF Block, PoolTicks
        <5> QED BY <1>1, <5>1, AmountsAre DEF MetaRead
      <4>2. Placed(raw, Height)
        BY <1>1, <2>1, V3Placed
      <4> HIDE DEF cur
      <4>3. Ordered(E) /\ Marked(raw, E, cur, meta.owed)
        BY <2>1, <4>1, <4>2, SyntheticIs
      <4>4. events = E
        BY <3>2
      <4> HIDE DEF E, events
      <4>5. E \in Seq(AnyEvent)
        BY <4>3 DEF Ordered
      <4>6. PutsIn(E, blocks, M)
        BY <2>2, <4>3, <4>5, MarkedPutsIn
      <4> QED BY <4>4, <4>6
    <3> QED BY <3>1, <3>2
  <2> HIDE DEF events
  <2> QED BY <1>1, <1>2, <2>3, ToldDeposits DEF M
<1>5. DepositsTold(blocks)'
  <2>1. Clear(blocks)' => OneIncrease(blocks, M)
    BY <1>3 DEF Clear
  <2> QED BY <1>4, <2>1 DEF DepositsTold
<1>6. Spending(blocks)'
  BY <1>1, <1>3
<1> QED BY <1>1, <1>3, <1>5, <1>6 DEF DepositInv

LEMMA DepositFinishV4 == ASSUME DepositInv, FinishV4 PROVE DepositInv'
<1> DEFINE M == Mod(blocks, head, ctx)
<1>1. /\ SoundInv' /\ ReaderInv /\ Spending(blocks) /\ pc = "now" /\ version = "v4" /\ MetaRead
      /\ st \in [Txs -> ReadState] /\ MintsRead(blocks)
  BY SoundFinishV4 DEF DepositInv, SoundInv, FinishV4, InHand
<1>2. PICK f, ev, events, accrued, s : V4Report(f, ev, events, accrued, s)
  BY <1>1, V4ReportIs
<1>3. PICK known : Report(events, buildV4PriceFeed(s, events[Len(events)].at), known)
  BY <1>2 DEF V4Report
<1>4. blocks' = blocks /\ ctx' = ctx /\ head' = head /\ version' = version /\ pc' = "done" /\ lost' = lost
  BY <1>3 DEF Report, chainVars
<1>5. ticksOk' => ticksOk
  BY DEF FinishV4
<1>6. ASSUME Clear(blocks)' PROVE result'.pnl.deposited = SpentBy(blocks)'
  <2>1. Clear(blocks)
    BY <1>4, <1>5, <1>6 DEF Clear
  <2>2. \A b \in Txs : GivesBack(blocks[b], st[b].tick)
    BY <1>1, <2>1 DEF MintsRead
  <2>3. Decoding(f, ev) /\ Marks(f, ev, events, accrued)
    BY <1>2 DEF V4Report
  <2>4. PutsIn(ev, blocks, M)
    BY <1>1, <2>2, <2>3, V4PutsIn
  <2> HIDE DEF M
  <2>5. PutsIn(events, blocks, M)
    <3>1. CASE ~IsOpen
      BY <2>3, <2>4, <3>1 DEF Marks
    <3>2. CASE IsOpen
      <4>1. events \in Seq(AnyEvent)
            /\ Marked(ev, events, amountsFromLiquidity(meta.liq, Tip.after), accrued)
        BY <2>3, <3>2 DEF Marks, Ordered
      <4> QED BY <2>4, <4>1, MarkedPutsIn
    <3> QED BY <3>1, <3>2
  <2> QED BY <1>1, <1>3, <2>5, ToldDeposits DEF M
<1>7. DepositsTold(blocks)'
  BY <1>6 DEF DepositsTold
<1>8. Spending(blocks)'
  BY <1>1, <1>4
<1> QED BY <1>1, <1>4, <1>7, <1>8 DEF DepositInv

LEMMA DepositKeeps == ASSUME DepositInv, [Next]_vars PROVE DepositInv'
<1>1. SoundInv'
  BY SoundKeeps DEF DepositInv
<1>2. CASE (Over /\ UNCHANGED vars) \/ UNCHANGED vars
  <2>1. /\ blocks' = blocks /\ version' = version /\ pc' = pc /\ ctx' = ctx /\ head' = head
        /\ raw' = raw /\ st' = st /\ lost' = lost /\ ticksOk' = ticksOk /\ result' = result
    BY <1>2 DEF vars, chainVars, readerVars
  <2>2. Txs' = Txs /\ (Clear(blocks)' <=> Clear(blocks)) /\ SpentBy(blocks)' = SpentBy(blocks)
    BY <2>1 DEF Txs, Clear, SpentBy
  <2>3. (MintsRead(blocks)' <=> MintsRead(blocks)) /\ (DepositsTold(blocks)' <=> DepositsTold(blocks))
    BY <2>1, <2>2 DEF MintsRead, DepositsTold
  <2>4. Spending(blocks)' <=> Spending(blocks)
    BY <2>1
  <2> QED BY <1>1, <2>1, <2>3, <2>4 DEF DepositInv
<1>3. CASE ~Over /\ Mine /\ UNCHANGED readerVars
  BY <1>3, DepositGoesOn
<1>4. CASE Begin \/ ReadMeta \/ ReadLogs
  <2>1. blocks' = blocks /\ pc' \notin {"done"} /\ (pc' = "now" => version' = "v3")
    <3>1. CASE Begin
      BY <3>1 DEF Begin, chainVars
    <3>2. CASE ReadMeta
      BY <3>2 DEF ReadMeta, chainVars
    <3>3. CASE ReadLogs
      BY <3>3 DEF ReadLogs, chainVars
    <3> QED BY <1>4, <3>1, <3>2, <3>3
  <2>2. Spending(blocks)'
    BY <2>1 DEF DepositInv
  <2> QED BY <1>1, <2>1, <2>2 DEF DepositInv
<1>5. CASE ReadStates \/ FinishV3 \/ FinishV4
  BY <1>5, DepositStates, DepositFinishV3, DepositFinishV4
<1> QED BY <1>2, <1>3, <1>4, <1>5 DEF Next, Read

(* Whenever the reading does not say that it guessed, each mint of a v4    *)
(* position is decoded by a tick that gives back what was spent on it,     *)
(* read off the chain, off the mint's own payment or off the last trade.   *)
THEOREM DepositsAlways == Spec => []DepositInv
<1>1. Init => DepositInv
  BY DepositStarts
<1>2. DepositInv /\ [Next]_vars => DepositInv'
  BY DepositKeeps
<1> QED BY <1>1, <1>2, PTL DEF Spec

(* Deposits are what was put in, whichever source a pruned block's tick    *)
(* came from (TickSources, impliedMintTicks, tickAtBlockOrNull), as long   *)
(* as the reading does not say that it guessed.                            *)
THEOREM DepositsAreExact == Spec => []DepositsExact
<1>1. DepositInv => DepositsExact
  <2> SUFFICES ASSUME DepositInv, Done, ticksOk, NoLateTrade, OneIncreaseEach, FreshMints
               PROVE  result.pnl.deposited = Total([b \in Counted |-> blocks[b].spent])
    BY DEF DepositsExact
  <2> DEFINE M == Mod(blocks, head, ctx)
  <2>1. Changed = M /\ Counted = {c \in 1 .. head : Counts(blocks, head, ctx, c)} /\ ChainInv
        /\ M \subseteq 1 .. Height
    <3>1. SoundInv /\ ChainInv /\ LogsRead(blocks)
      BY DEF DepositInv, SoundInv, ReaderInv, Done
    <3>2. M \subseteq 1 .. Height
      BY <3>1, TipIs DEF LogsRead, Mod, Height
    <3> QED BY <3>1, <3>2, ChangedIs
  <2>2. Calm(blocks, M)
    BY <2>1 DEF Calm, NoLateTrade
  <2>3. Fresh(blocks, M \cap lost)
    BY <2>1 DEF Fresh, FreshMints, Increases
  <2>4. OneIncrease(blocks, M)
    <3> HIDE DEF M
    <3> SUFFICES ASSUME NEW b \in M, NEW i \in DOMAIN blocks[b].delta, NEW j \in DOMAIN blocks[b].delta,
                        blocks[b].delta[i] > 0, blocks[b].delta[j] > 0, i # j
                 PROVE  FALSE
      BY DEF OneIncrease
    <3> DEFINE up == {k \in DOMAIN blocks[b].delta : blocks[b].delta[k] > 0}
    <3>1. Cardinality(up) <= 1
      BY <2>1 DEF OneIncreaseEach
    <3>2. IsFiniteSet(up) /\ {i, j} \subseteq up
      <4>1. up \subseteq 1 .. Len(blocks[b].delta) /\ Len(blocks[b].delta) \in Nat
        BY <2>1, DeltaIs
      <4>2. IsFiniteSet(1 .. Len(blocks[b].delta))
        BY <4>1, FS_Interval
      <4>3. {i, j} \subseteq up
        OBVIOUS
      <4> HIDE DEF up
      <4> QED BY <4>1, <4>2, <4>3, FS_Subset
    <3> HIDE DEF up
    <3>3. Cardinality({i, j}) = 2
      <4>1. IsFiniteSet({i}) /\ Cardinality({i}) = 1
        BY FS_Singleton
      <4>2. j \notin {i} /\ {i} \cup {j} = {i, j}
        OBVIOUS
      <4>3. Cardinality({i} \cup {j}) = Cardinality({i}) + 1
        BY <4>1, <4>2, FS_AddElement
      <4> QED BY <4>1, <4>2, <4>3
    <3>4. Cardinality({i, j}) <= Cardinality(up)
      BY <3>2, FS_Subset
    <3>5. Cardinality(up) \in Nat
      BY <3>2, FS_CardinalityType
    <3> QED BY <3>1, <3>3, <3>4, <3>5
  <2>5. Clear(blocks)
    BY <2>2, <2>3, <2>4 DEF Clear
  <2>6. result.pnl.deposited = SpentBy(blocks)
    BY <2>5 DEF DepositInv, DepositsTold, Done
  <2> QED BY <2>1, <2>6 DEF SpentBy
<1> QED BY <1>1, DepositsAlways, PTL

-----------------------------------------------------------------------------
(* What the chain pays: the liquidity taken out, and what was earned since the change *)
(* before                                                                            *)

\* The position's last change up to a block.
LastChange(bl, p, n) == bl[p].delta # <<>> /\ \A c \in p + 1 .. n : bl[c].delta = <<>>

\* What a position has earned from its change in block p until the growth is g.
Grew(bl, p, g) == <<(g - bl[p].growth) * bl[p].liq, (g - bl[p].growth) * bl[p].liq>>

\* Growth never falls, and every change of a v4 position pays what it takes out and earned.
Accounts(bl, o) ==
    /\ \A b \in 1 .. Len(bl) : bl[b].growth < Wrap
    /\ \A p, b \in 1 .. Len(bl) : p < b => bl[p].growth <= bl[b].growth
    /\ version = "v4" =>
         /\ o.fees = Zero /\ o.principal = Zero
         /\ \A p \in 1 .. Len(bl) : LastChange(bl, p, Len(bl)) => o.since = bl[p].growth
         /\ \A p, b \in 1 .. Len(bl) : p < b /\ LastChange(bl, p, b - 1) /\ bl[b].delta # <<>> =>
              bl[b].paid = Plus(TakenOut(bl[b].delta, bl[b].tick), Grew(bl, p, bl[b].growth))

\* The chain starts so.
LEMMA AccountsStart == ASSUME ChainInit PROVE Accounts(blocks, owed)
<1>1. Len(blocks) = 1 /\ blocks[1].growth = 0
  BY DEF ChainInit
<1>2. \A b \in 1 .. Len(blocks) : b = 1
  BY <1>1
<1>3. owed = [fees |-> Zero, principal |-> Zero, since |-> 0]
  BY DEF ChainInit
<1>4. owed.fees = Zero /\ owed.principal = Zero /\ owed.since = 0
  BY <1>3
<1>5. 0 < Wrap
  BY WrapPositive
<1> QED BY <1>1, <1>2, <1>4, <1>5 DEF Accounts

\* One more block keeps them, when it pays what it owes.
LEMMA AccountsGrow ==
    ASSUME ChainInv, Accounts(blocks, owed), NEW x, blocks' = Append(blocks, x), version' = version,
           x.growth \in Nat, Tip.growth <= x.growth, x.growth < Wrap,
           version = "v4" =>
             /\ owed'.fees = Zero /\ owed'.principal = Zero
             /\ x.delta = <<>> => owed'.since = owed.since
             /\ x.delta # <<>> =>
                  /\ owed'.since = x.growth
                  /\ \A p \in 1 .. Height : LastChange(blocks, p, Height) =>
                       x.paid = Plus(TakenOut(x.delta, x.tick), Grew(blocks, p, x.growth))
    PROVE  Accounts(blocks, owed)'
<1> DEFINE n == Height
           more == blocks'
<1>1. blocks \in Seq(Block) /\ n \in Nat /\ n >= 1 /\ n = Len(blocks)
  BY TipIs DEF ChainInv, Height
<1>2. Len(more) = n + 1 /\ more[n + 1] = x /\ \A b \in 1 .. n : more[b] = blocks[b]
  BY <1>1
<1>3. \A b \in 1 .. n : blocks[b].growth \in Nat
  <2>1. \A b \in 1 .. n : blocks[b] \in Block
    BY <1>1
  <2>2. \A y \in Block : y.growth \in Nat
    BY DEF Block
  <2> QED BY <2>1, <2>2
<1>4. Tip = blocks[n]
  BY DEF Tip
<1> HIDE DEF n, more
<1>5. ASSUME NEW b \in 1 .. n + 1 PROVE more[b].growth < Wrap
  BY <1>1, <1>2, <1>5 DEF Accounts
<1>6. ASSUME NEW p \in 1 .. n + 1, NEW b \in 1 .. n + 1, p < b PROVE more[p].growth <= more[b].growth
  <2>1. p \in 1 .. n /\ more[p] = blocks[p]
    BY <1>1, <1>2, <1>6
  <2>2. CASE b \in 1 .. n
    BY <1>1, <1>2, <1>6, <2>1, <2>2 DEF Accounts
  <2>3. CASE b = n + 1
    <3>1. blocks[p].growth <= blocks[n].growth
      <4>1. CASE p = n
        BY <1>1, <1>3, <4>1
      <4>2. CASE p < n
        BY <1>1, <2>1, <4>2 DEF Accounts
      <4> QED BY <1>1, <2>1, <4>1, <4>2
    <3>2. n \in 1 .. n
      BY <1>1
    <3> QED BY <1>2, <1>3, <1>4, <2>1, <2>3, <3>1, <3>2
  <2> QED BY <1>1, <2>2, <2>3
<1>7. ASSUME NEW p \in 1 .. n, NEW m \in 1 .. n PROVE LastChange(more, p, m) <=> LastChange(blocks, p, m)
  <2>1. \A c \in p + 1 .. m : c \in 1 .. n
    BY <1>1
  <2> QED BY <1>2, <2>1 DEF LastChange
<1>8. ASSUME version = "v4", NEW p \in 1 .. n + 1, LastChange(more, p, n + 1)
      PROVE  owed'.since = more[p].growth
  <2>1. CASE p = n + 1
    BY <1>2, <1>8, <2>1 DEF LastChange
  <2>2. CASE p \in 1 .. n
    <3>1. n + 1 \in p + 1 .. n + 1 /\ \A c \in p + 1 .. n : c \in p + 1 .. n + 1
      BY <1>1, <2>2
    <3>2. x.delta = <<>> /\ LastChange(more, p, n)
      BY <1>2, <1>8, <3>1 DEF LastChange
    <3>3. n \in 1 .. n
      BY <1>1
    <3>4. LastChange(blocks, p, n)
      BY <1>7, <2>2, <3>2, <3>3
    <3>5. owed.since = blocks[p].growth
      BY <1>1, <1>8, <2>2, <3>4 DEF Accounts, n
    <3> QED BY <1>2, <1>8, <2>2, <3>2, <3>5
  <2> QED BY <1>1, <2>1, <2>2
<1>9. ASSUME version = "v4", NEW p \in 1 .. n + 1, NEW b \in 1 .. n + 1, p < b,
             LastChange(more, p, b - 1), more[b].delta # <<>>
      PROVE  more[b].paid = Plus(TakenOut(more[b].delta, more[b].tick), Grew(more, p, more[b].growth))
  <2>1. p \in 1 .. n /\ b - 1 \in 1 .. n /\ more[p] = blocks[p]
    BY <1>1, <1>2, <1>9
  <2>2. LastChange(blocks, p, b - 1) /\ \A g : Grew(more, p, g) = Grew(blocks, p, g)
    BY <1>7, <1>9, <2>1 DEF Grew
  <2>3. CASE b \in 1 .. n
    BY <1>1, <1>2, <1>9, <2>2, <2>1, <2>3 DEF Accounts, n
  <2>4. CASE b = n + 1
    <3>1. b - 1 = n
      BY <1>1, <2>4
    <3> QED BY <1>2, <1>9, <2>1, <2>2, <2>4, <3>1 DEF n
  <2> QED BY <1>1, <2>3, <2>4
<1>10. Len(more) = n + 1
  BY <1>2
<1> QED BY <1>5, <1>6, <1>8, <1>9, <1>10 DEF Accounts, more

\* What the chain does keeps them.
LEMMA AccountsKeep ==
    ASSUME ChainInv, Mine, Accounts(blocks, owed) PROVE Accounts(blocks, owed)'
<1>1. Tip \in Block /\ Tip = blocks[Height] /\ Height \in Nat /\ Height >= 1 /\ Height = Len(blocks)
  BY TipIs DEF ChainInv, Height
<1>2. Tip.growth \in Nat /\ Tip.liq \in Nat
  BY <1>1 DEF Block
<1>3. Growths \subseteq Nat /\ Ticks \cup LateTicks \subseteq MinTick .. MaxTick
      /\ Changes \subseteq Seq(Int) \ {<<>>}
  BY ChainAssumption
<1>4. owed.since \in Nat
  BY DEF ChainInv, Owed
<1>5. ASSUME NEW t \in Ticks, NEW delta \in Changes, NEW grown \in Growths, NEW collects, NEW burnt,
             NEW after, ChangeOf(t, after, delta, grown, collects, burnt)
      PROVE  Accounts(blocks, owed)'
  <2> DEFINE g == Tip.growth + grown
             fees == Plus(owed.fees, Earned(g, Tip.liq))
             principal == Plus(owed.principal, TakenOut(delta, t))
  <2>1. PICK L, o, p : blocks' = Append(blocks,
             [tick |-> t, after |-> after, delta |-> delta, growth |-> g, liq |-> L,
              owner |-> Tip.next, next |-> o, spent |-> PutIn(delta, t),
              paid |-> IF collects THEN Plus(principal, fees) ELSE Zero])
    BY <1>5 DEF ChangeOf
  <2> DEFINE x == [tick |-> t, after |-> after, delta |-> delta, growth |-> g, liq |-> L,
              owner |-> Tip.next, next |-> o, spent |-> PutIn(delta, t),
              paid |-> IF collects THEN Plus(principal, fees) ELSE Zero]
  <2>2. /\ version' = version /\ g < Wrap /\ (version = "v4" => collects)
        /\ owed' = IF collects THEN [fees |-> Zero, principal |-> Zero, since |-> g]
                   ELSE [fees |-> fees, principal |-> principal, since |-> g]
    BY <1>5 DEF ChangeOf
  <2>3. blocks' = Append(blocks, x) /\ x.growth = g /\ x.delta = delta /\ x.tick = t
        /\ (collects => x.paid = Plus(principal, fees))
    BY <2>1
  <2> HIDE DEF x
  <2>4. g \in Nat /\ Tip.growth <= g
    BY <1>2, <1>3
  <2>5. delta # <<>> /\ delta \in Seq(Int) /\ t \in Int
    <3>1. t \in MinTick .. MaxTick
      BY <1>3
    <3>2. delta # <<>> /\ delta \in Seq(Int)
      BY <1>3
    <3> QED BY <3>1, <3>2
  <2> HIDE DEF g
  <2>6. CASE version = "v4"
    <3>1. owed'.fees = Zero /\ owed'.principal = Zero /\ owed'.since = g
      BY <2>2, <2>6
    <3>2. ASSUME NEW p0 \in 1 .. Height, LastChange(blocks, p0, Height)
          PROVE  x.paid = Plus(TakenOut(x.delta, x.tick), Grew(blocks, p0, x.growth))
      <4>1. owed.fees = Zero /\ owed.principal = Zero /\ owed.since = blocks[p0].growth
        BY <1>1, <2>6, <3>2 DEF Accounts
      <4>2. Tip.liq = blocks[p0].liq
        <5>1. Height \in 1 .. Height /\ p0 <= Height
          BY <1>1
        <5>2. \A c \in 1 .. Height : p0 < c /\ c <= Height => blocks[c].delta = <<>>
          BY <1>1, <3>2 DEF LastChange
        <5> QED BY <1>1, <5>1, <5>2, SameLiq
      <4>3. Earned(g, Tip.liq) = Grew(blocks, p0, g)
        BY <4>1, <4>2 DEF Earned, Grew
      <4> DEFINE e == Grew(blocks, p0, g)
                 k == TakenOut(delta, t)
      <4>4. e = <<e[1], e[2]>> /\ e[1] \in Int /\ e[2] \in Int
        <5>1. (g - owed.since) * Tip.liq \in Int
          BY <1>2, <1>4, <2>4
        <5> QED BY <4>3, <5>1 DEF Earned
      <4>5. k \in Amount
        BY <2>5, TakenOutIs
      <4> HIDE DEF e, k
      <4>6. k[1] \in Int /\ k[2] \in Int /\ k = <<k[1], k[2]>>
        BY <4>5 DEF Amount
      <4>7. fees = Plus(Zero, e) /\ principal = Plus(Zero, k)
        BY <4>1, <4>3 DEF e, k
      <4>8. fees = e /\ principal = k
        BY <4>4, <4>6, <4>7 DEF Plus, Zero
      <4> QED BY <2>2, <2>3, <2>6, <4>8 DEF e, k
    <3> QED BY <1>1, <2>2, <2>3, <2>4, <2>5, <3>1, <3>2, AccountsGrow
  <2>7. CASE version # "v4"
    BY <1>1, <2>2, <2>3, <2>4, <2>7, AccountsGrow
  <2> QED BY <2>6, <2>7
<1>6. CASE Change
  BY <1>5, <1>6 DEF Change
<1>7. CASE Pass
  <2>1. PICK t \in Ticks \cup LateTicks, grown \in Growths, next \in {Me, Other} :
          /\ Tip.growth + grown < Wrap
          /\ blocks' = Append(blocks,
             [tick |-> t, after |-> t, delta |-> <<>>, growth |-> Tip.growth + grown,
              liq |-> Tip.liq, owner |-> Tip.next, next |-> next, spent |-> Zero, paid |-> Zero])
    BY <1>7 DEF Pass
  <2> DEFINE x == [tick |-> t, after |-> t, delta |-> <<>>, growth |-> Tip.growth + grown,
              liq |-> Tip.liq, owner |-> Tip.next, next |-> next, spent |-> Zero, paid |-> Zero]
  <2>2. blocks' = Append(blocks, x) /\ x.growth = Tip.growth + grown /\ x.delta = <<>>
    BY <2>1
  <2>3. version' = version /\ owed' = owed
    BY <1>7 DEF Pass
  <2> HIDE DEF x
  <2>4. x.growth \in Nat /\ Tip.growth <= x.growth /\ x.growth < Wrap
    BY <1>2, <1>3, <2>1, <2>2
  <2>5. version = "v4" => owed.fees = Zero /\ owed.principal = Zero
    BY DEF Accounts
  <2> QED BY <2>2, <2>3, <2>4, <2>5, AccountsGrow
<1> QED BY <1>6, <1>7 DEF Mine

-----------------------------------------------------------------------------
(* Events that pay out what was paid *)

\* The events of the blocks S pay out what was paid there, each amount of it once.
PaysOut(ev, bl, S) ==
    /\ Fair(ev)
    /\ \A i \in 1 .. Len(ev) : ev[i].tx \in S /\ (ev[i].kind = "collect" => ev[i].amt = bl[ev[i].tx].paid)
    /\ \A i \in 1 .. Len(ev) : ev[i].kind = "decrease" /\ ev[i].amt # Zero =>
         \E k \in 1 .. Len(ev) : ev[k].kind = "collect" /\ ev[k].tx = ev[i].tx
    /\ \A b \in S : bl[b].paid # Zero => \E k \in 1 .. Len(ev) : ev[k].kind = "collect" /\ ev[k].tx = b

\* What was paid in the blocks that count, and that nothing was in those without a change.
Counting == {c \in 1 .. head : Counts(blocks, head, ctx, c)}
LEMMA CountingIs ==
    ASSUME ChainInv, head \in 1 .. Height
    PROVE  /\ IsFiniteSet(Counting) /\ Counting \subseteq 1 .. Height
           /\ \A c \in Counting : blocks[c].paid \in Amount
           /\ Mod(blocks, head, ctx) \subseteq Counting
           /\ \A c \in Counting \ Mod(blocks, head, ctx) : blocks[c].paid = Zero
<1>1. Height \in Nat
  BY TipIs
<1>2. Counting \subseteq 1 .. head /\ Counting \subseteq 1 .. Height
  BY <1>1 DEF Counting
<1>3. IsFiniteSet(Counting)
  <2>1. IsFiniteSet(1 .. head)
    BY <1>1, FS_Interval
  <2> QED BY <1>2, <2>1, FS_Subset
<1>4. \A c \in Counting : blocks[c].paid \in Amount /\ (blocks[c].delta = <<>> => blocks[c].paid = Zero)
  <2> SUFFICES ASSUME NEW c \in 1 .. Height
               PROVE  blocks[c].paid \in Amount /\ (blocks[c].delta = <<>> => blocks[c].paid = Zero)
    BY <1>2
  <2>1. blocks[c] \in Block /\ Honest(blocks[c], version)
    BY BlockIs
  <2> QED BY <2>1 DEF Honest, Block
<1>5. \A c \in 1 .. head : c \in Mod(blocks, head, ctx) <=> c \in Counting /\ blocks[c].delta # <<>>
  BY DEF Mod, Counting
<1>6. Mod(blocks, head, ctx) \subseteq Counting
  BY DEF Mod, Counting
<1> QED BY <1>2, <1>3, <1>4, <1>5, <1>6

\* One more amount than f has.
LEMMA TotalMore ==
    ASSUME NEW f, Amounts(f), NEW x, x \notin DOMAIN f, NEW v \in Amount, NEW g,
           DOMAIN g = DOMAIN f \cup {x}, g[x] = v, \A y \in DOMAIN f : g[y] = f[y]
    PROVE  Amounts(g) /\ Total(g) = Plus(Total(f), v)
<1> DEFINE D == DOMAIN f \cup {x}
           base == [y \in D |-> IF y = x THEN Zero ELSE f[y]]
           more == [y \in D |-> IF y = x THEN v ELSE Zero]
           only == [y \in {x} |-> v]
<1>1. IsFiniteSet(D)
  <2>1. IsFiniteSet(DOMAIN f) /\ IsFiniteSet({x})
    BY FS_Singleton DEF Amounts
  <2> QED BY <2>1, FS_Union
<1>2. \A y \in DOMAIN f : f[y] \in Amount
  BY DEF Amounts
<1>3. Zero \in Amount
  BY ZeroIs
<1>4. Amounts(base) /\ DOMAIN base = D
  BY <1>1, <1>2, <1>3 DEF Amounts
<1>5. Amounts(more) /\ DOMAIN more = D
  BY <1>1, <1>3 DEF Amounts
<1>6. Total(f) = Total(base)
  <2>1. DOMAIN f \subseteq DOMAIN base /\ (\A y \in DOMAIN f : f[y] = base[y])
        /\ \A y \in DOMAIN base \ DOMAIN f : base[y] = Zero
    BY <1>4
  <2> HIDE DEF base
  <2> QED BY <1>4, <2>1, TotalOnly
<1>7. Total(only) = Total(more)
  <2>1. DOMAIN only \subseteq DOMAIN more /\ (\A y \in DOMAIN only : only[y] = more[y])
        /\ \A y \in DOMAIN more \ DOMAIN only : more[y] = Zero
    BY <1>5
  <2> HIDE DEF only, more
  <2> QED BY <1>5, <2>1, TotalOnly
<1>8. Total(only) = v
  <2>1. DOMAIN only = {x} /\ only[x] = v
    OBVIOUS
  <2> HIDE DEF only
  <2> QED BY <2>1, TotalOne
<1>9. \A y \in DOMAIN base : g[y] = Plus(base[y], more[y])
  <2>1. \A a \in Amount : Plus(a, Zero) = a /\ Plus(Zero, a) = a
    BY DEF Amount, Plus, Zero
  <2>2. \A y \in DOMAIN f : base[y] = f[y] /\ more[y] = Zero
    BY <1>4
  <2>3. base[x] = Zero /\ more[x] = v
    BY <1>4
  <2> HIDE DEF base, more
  <2> QED BY <1>2, <1>4, <2>1, <2>2, <2>3
<1>10. DOMAIN g = DOMAIN base /\ DOMAIN more = DOMAIN base
  BY <1>4, <1>5
<1> HIDE DEF base, more, only
<1>11. Amounts(g) /\ Total(g) = Plus(Total(base), Total(more))
  BY <1>4, <1>5, <1>9, <1>10, TotalPlus
<1> QED BY <1>6, <1>7, <1>8, <1>11

\* The events of a closed position report what was paid.
LEMMA PaysClosed ==
    ASSUME ChainInv, head \in 1 .. Height, NEW ev, PaysOut(ev, blocks, Mod(blocks, head, ctx))
    PROVE  Plus(Withdrawn(ev), Fees(ev)) = PaidTo(blocks)
<1> DEFINE S == Mod(blocks, head, ctx)
           due == [b \in Counting |-> blocks[b].paid]
<1>1. Fair(ev) /\ ev \in Seq(AnyEvent)
  BY DEF PaysOut, Fair
<1>2. /\ IsFiniteSet(Counting) /\ \A c \in Counting : blocks[c].paid \in Amount
      /\ S \subseteq Counting /\ \A c \in Counting \ S : blocks[c].paid = Zero
  BY CountingIs
<1> HIDE DEF S
<1>3. Amounts(due)
  BY <1>2 DEF Amounts
<1>4. /\ \A kind : OfKind(ev, kind) \subseteq 1 .. Len(ev)
      /\ \A kind : \A i \in OfKind(ev, kind) : ev[i].kind = kind
  BY <1>1, KindIs
<1>5. ASSUME NEW k \in 1 .. Len(ev), ev[k].kind = "collect"
      PROVE  \E i \in OfKind(ev, "collect") : ev[i].tx = ev[k].tx
  BY <1>1, <1>5, FirstOfKind
<1>6. \A d \in withdrawals(ev) :
        ev[d].amt = Zero \/ \E i \in OfKind(ev, "collect") : ev[i].tx = ev[d].tx
  <2> SUFFICES ASSUME NEW d \in withdrawals(ev), ev[d].amt # Zero
               PROVE  \E i \in OfKind(ev, "collect") : ev[i].tx = ev[d].tx
    OBVIOUS
  <2>1. d \in 1 .. Len(ev) /\ ev[d].kind = "decrease"
    BY <1>4 DEF withdrawals
  <2>2. PICK k \in 1 .. Len(ev) : ev[k].kind = "collect" /\ ev[k].tx = ev[d].tx
    BY <2>1 DEF PaysOut
  <2>3. \E i \in OfKind(ev, "collect") : ev[i].tx = ev[k].tx
    BY <1>5, <2>2
  <2> QED BY <2>2, <2>3
<1>7. \A i \in OfKind(ev, "collect") : ev[i].tx \in DOMAIN due /\ ev[i].amt = due[ev[i].tx]
  <2> SUFFICES ASSUME NEW i \in OfKind(ev, "collect")
               PROVE  ev[i].tx \in DOMAIN due /\ ev[i].amt = due[ev[i].tx]
    OBVIOUS
  <2>1. i \in 1 .. Len(ev) /\ ev[i].kind = "collect"
    BY <1>4
  <2>2. ev[i].tx \in S /\ ev[i].amt = blocks[ev[i].tx].paid
    BY <2>1 DEF PaysOut, S
  <2> QED BY <1>2, <2>2
<1>8. \A b \in DOMAIN due : due[b] = Zero \/ \E i \in OfKind(ev, "collect") : ev[i].tx = b
  <2> SUFFICES ASSUME NEW b \in Counting, blocks[b].paid # Zero
               PROVE  \E i \in OfKind(ev, "collect") : ev[i].tx = b
    OBVIOUS
  <2>1. b \in S
    BY <1>2
  <2>2. PICK k \in 1 .. Len(ev) : ev[k].kind = "collect" /\ ev[k].tx = b
    BY <2>1 DEF PaysOut, S
  <2>3. \E i \in OfKind(ev, "collect") : ev[i].tx = ev[k].tx
    BY <1>5, <2>2
  <2> QED BY <2>2, <2>3
<1>9. Total(due) = PaidTo(blocks)
  BY DEF PaidTo, Counting
<1> HIDE DEF due
<1> QED BY <1>1, <1>3, <1>6, <1>7, <1>8, <1>9, ReportedIs DEF Withdrawn, Fees

\* Those of an open one report what it would pay now as well.
LEMMA PaysMarked ==
    ASSUME ChainInv, head \in 1 .. Height, NEW ev, PaysOut(ev, blocks, Mod(blocks, head, ctx)),
           NEW E, Fair(E), NEW cur \in Amount, NEW fees \in Amount, Marked(ev, E, cur, fees)
    PROVE  Plus(Withdrawn(E), Fees(E)) = Plus(PaidTo(blocks), Plus(cur, fees))
<1> DEFINE S == Mod(blocks, head, ctx)
           due == [b \in Counting |-> blocks[b].paid]
           D == Counting \cup {Open}
           all == [b \in D |-> IF b = Open THEN Plus(cur, fees) ELSE blocks[b].paid]
<1>1. Fair(ev) /\ ev \in Seq(AnyEvent) /\ E \in Seq(AnyEvent) /\ Len(ev) \in Nat
  BY DEF PaysOut, Fair
<1>2. /\ IsFiniteSet(Counting) /\ \A c \in Counting : blocks[c].paid \in Amount
      /\ S \subseteq Counting /\ \A c \in Counting \ S : blocks[c].paid = Zero
      /\ Counting \subseteq 1 .. Height
  BY CountingIs
<1>3. Open \notin Counting
  BY <1>2, TipIs DEF Open
<1> HIDE DEF S
<1>4. Amounts(due) /\ DOMAIN due = Counting
  BY <1>2 DEF Amounts
<1>5. Plus(cur, fees) \in Amount
  BY PlusIs
<1>6. Amounts(all) /\ Total(all) = Plus(Total(due), Plus(cur, fees))
  <2>1. /\ DOMAIN all = DOMAIN due \cup {Open} /\ all[Open] = Plus(cur, fees)
        /\ \A b \in DOMAIN due : all[b] = due[b]
    BY <1>3, <1>4
  <2>2. Open \notin DOMAIN due
    BY <1>3, <1>4
  <2> HIDE DEF due, all
  <2> QED BY <1>4, <1>5, <2>1, <2>2, TotalMore
<1> DEFINE n == Len(ev)
<1>7. /\ Len(E) = n + 2 /\ \A i \in 1 .. n : E[i] = ev[i]
      /\ E[n + 1].kind = "decrease" /\ E[n + 1].tx = Open
      /\ E[n + 2].kind = "collect" /\ E[n + 2].tx = Open /\ E[n + 2].amt = Plus(cur, fees)
  BY DEF Marked
<1> HIDE DEF n
<1>8. n \in Nat /\ n = Len(ev)
  BY <1>1 DEF n
<1>9. \A i \in 1 .. Len(E) : i \in 1 .. n \/ i = n + 1 \/ i = n + 2
  BY <1>7, <1>8
<1>10. n + 2 \in 1 .. Len(E) /\ \A i \in 1 .. n : i \in 1 .. Len(E)
  BY <1>7, <1>8
<1>11. /\ \A kind : OfKind(E, kind) \subseteq 1 .. Len(E)
       /\ \A kind : \A i \in OfKind(E, kind) : E[i].kind = kind
  BY KindIs
<1>12. ASSUME NEW k \in 1 .. Len(E), E[k].kind = "collect"
       PROVE  \E i \in OfKind(E, "collect") : E[i].tx = E[k].tx
  BY <1>1, <1>12, FirstOfKind
<1>13. \A d \in withdrawals(E) :
         E[d].amt = Zero \/ \E i \in OfKind(E, "collect") : E[i].tx = E[d].tx
  <2> SUFFICES ASSUME NEW d \in withdrawals(E), E[d].amt # Zero
               PROVE  \E i \in OfKind(E, "collect") : E[i].tx = E[d].tx
    OBVIOUS
  <2>1. d \in 1 .. Len(E) /\ E[d].kind = "decrease"
    BY <1>11 DEF withdrawals
  <2>2. CASE d \in 1 .. n
    <3>1. PICK k \in 1 .. n : ev[k].kind = "collect" /\ ev[k].tx = ev[d].tx
      BY <1>7, <1>8, <2>1, <2>2 DEF PaysOut
    <3>2. k \in 1 .. Len(E) /\ E[k].kind = "collect" /\ E[k].tx = E[d].tx
      BY <1>7, <1>10, <2>2, <3>1
    <3>3. \E i \in OfKind(E, "collect") : E[i].tx = E[k].tx
      BY <1>12, <3>2
    <3> QED BY <3>2, <3>3
  <2>3. CASE d = n + 1
    BY <1>7, <1>10, <1>12, <2>3
  <2>4. d # n + 2
    BY <1>7, <2>1
  <2> QED BY <1>9, <2>1, <2>2, <2>3, <2>4
<1>14. \A i \in OfKind(E, "collect") : E[i].tx \in DOMAIN all /\ E[i].amt = all[E[i].tx]
  <2> SUFFICES ASSUME NEW i \in OfKind(E, "collect")
               PROVE  E[i].tx \in DOMAIN all /\ E[i].amt = all[E[i].tx]
    OBVIOUS
  <2>1. i \in 1 .. Len(E) /\ E[i].kind = "collect"
    BY <1>11
  <2>2. CASE i \in 1 .. n
    <3>1. ev[i].tx \in S /\ ev[i].amt = blocks[ev[i].tx].paid
      BY <1>7, <1>8, <2>1, <2>2 DEF PaysOut, S
    <3> QED BY <1>2, <1>3, <1>7, <2>2, <3>1
  <2>3. CASE i = n + 2
    BY <1>7, <2>3
  <2>4. i # n + 1
    BY <1>7, <2>1
  <2> QED BY <1>9, <2>1, <2>2, <2>3, <2>4
<1>15. \A b \in DOMAIN all : all[b] = Zero \/ \E i \in OfKind(E, "collect") : E[i].tx = b
  <2> SUFFICES ASSUME NEW b \in D, all[b] # Zero
               PROVE  \E i \in OfKind(E, "collect") : E[i].tx = b
    OBVIOUS
  <2>1. CASE b = Open
    BY <1>7, <1>10, <1>12, <2>1
  <2>2. CASE b # Open
    <3>1. b \in Counting /\ blocks[b].paid # Zero
      BY <2>2
    <3>2. b \in S
      BY <1>2, <3>1
    <3>3. PICK k \in 1 .. n : ev[k].kind = "collect" /\ ev[k].tx = b
      BY <1>8, <3>1, <3>2 DEF PaysOut, S
    <3>4. k \in 1 .. Len(E) /\ E[k].kind = "collect" /\ E[k].tx = b
      BY <1>7, <1>10, <3>3
    <3> QED BY <1>12, <3>4
  <2> QED BY <2>1, <2>2
<1>16. Total(due) = PaidTo(blocks)
  BY DEF PaidTo, Counting
<1> HIDE DEF due, all
<1>17. Plus(Withdrawn(E), Fees(E)) = Total(all)
  BY <1>6, <1>13, <1>14, <1>15, ReportedIs DEF Withdrawn, Fees
<1> QED BY <1>6, <1>16, <1>17

-----------------------------------------------------------------------------
(* Growth, modulo the wrap *)

\* What is left of a number that differs from d by a multiple of the modulus.
LEMMA ModuloIs ==
    ASSUME NEW n \in Int, NEW w \in Nat \ {0}
    PROVE  n % w \in 0 .. w - 1 /\ \E q \in Int : n = w * q + (n % w)
<1>1. n \div w \in Int /\ n % w \in 0 .. w - 1 /\ n = w * (n \div w) + (n % w)
  OBVIOUS
<1> QED BY <1>1

LEMMA SameRest ==
    ASSUME NEW w \in Nat \ {0}, NEW d \in 0 .. w - 1, NEW m \in 0 .. w - 1, NEW z \in Int, d - m = w * z
    PROVE  d = m
<1>1. CASE z = 0
  BY <1>1
<1>2. CASE z >= 1
  <2>1. w * z >= w
    <3>1. w * (z - 1) \in Nat
      BY <1>2, TimesNat
    <3>2. w * z = w * (z - 1) + w
      OBVIOUS
    <3> QED BY <3>1, <3>2
  <2> QED BY <2>1
<1>3. CASE z <= -1
  <2>1. w * z <= -w
    <3>1. w * (-z - 1) \in Nat
      BY <1>3, TimesNat
    <3>2. w * z = -(w * (-z - 1)) - w
      OBVIOUS
    <3> QED BY <3>1, <3>2
  <2> QED BY <2>1
<1> QED BY <1>1, <1>2, <1>3

\* The growth between two blocks is read off the accumulator, though it wraps.
LEMMA GrowthBetween ==
    ASSUME NEW a \in Nat, NEW b \in Nat, a <= b, b < Wrap
    PROVE  (((BaseGrowth + b) % Wrap) - ((BaseGrowth + a) % Wrap)) % Wrap = b - a
<1>1. BaseGrowth \in Nat /\ Wrap \in Nat \ {0}
  BY ChainAssumption, WrapPositive
<1> DEFINE u == BaseGrowth + a
           v == BaseGrowth + b
<1>0. u \in Int /\ v \in Int
  BY <1>1
<1> HIDE DEF u, v
<1>2. PICK p \in Int : u = Wrap * p + (u % Wrap)
  BY <1>1, <1>0, ModuloIs
<1>3. PICK q \in Int : v = Wrap * q + (v % Wrap)
  BY <1>1, <1>0, ModuloIs
<1> USE DEF u, v
<1> DEFINE x == (BaseGrowth + a) % Wrap
           y == (BaseGrowth + b) % Wrap
           m == (y - x) % Wrap
<1>4. x \in 0 .. Wrap - 1 /\ y \in 0 .. Wrap - 1
  BY <1>1, ModuloIs
<1>5. y - x \in Int
  BY <1>1, <1>4
<1>6. PICK k \in Int : y - x = Wrap * k + m
  BY <1>1, <1>5, ModuloIs
<1>7. m \in 0 .. Wrap - 1
  BY <1>1, <1>5, ModuloIs
<1>8. BaseGrowth + a = Wrap * p + x /\ BaseGrowth + b = Wrap * q + y
  BY <1>2, <1>3
<1> HIDE DEF x, y, m
<1>9. (b - a) - m = Wrap * (q - p + k)
  <2>1. Wrap * (q - p + k) = Wrap * q - Wrap * p + Wrap * k
    BY <1>1
  <2>2. Wrap * q \in Int /\ Wrap * p \in Int /\ Wrap * k \in Int
    BY <1>1
  <2> QED BY <1>1, <1>4, <1>6, <1>7, <1>8, <2>1, <2>2
<1>10. b - a \in 0 .. Wrap - 1 /\ q - p + k \in Int
  BY <1>1
<1>11. b - a = m
  BY <1>1, <1>7, <1>9, <1>10, SameRest
<1> QED BY <1>11 DEF m, x, y

\* What fee growth makes out between two blocks of a position is what it earned.
LEMMA EarnedIs ==
    ASSUME ChainInv, Accounts(blocks, owed), NEW p \in 1 .. Height, NEW b \in 1 .. Height, p <= b
    PROVE  /\ feesFromGrowth(blocks[p].liq, FeeGrowthInside(b), FeeGrowthInside(p))
                = Grew(blocks, p, blocks[b].growth)
           /\ Grew(blocks, p, blocks[b].growth) \in Amount
           /\ p = b \/ blocks[p].liq = 0 => Grew(blocks, p, blocks[b].growth) = Zero
<1>1. blocks[p] \in Block /\ blocks[b] \in Block
  BY BlockIs
<1>2. Len(blocks) = Height
  BY DEF Height
<1>3. blocks[p].growth \in Nat /\ blocks[b].growth \in Nat /\ blocks[p].liq \in Nat
  BY <1>1 DEF Block
<1>4. blocks[p].growth <= blocks[b].growth /\ blocks[b].growth < Wrap
  <2>1. p < b \/ p = b
    BY TipIs
  <2> QED BY <1>2, <1>3, <2>1 DEF Accounts
<1> DEFINE d == blocks[b].growth - blocks[p].growth
           L == blocks[p].liq
<1>5. (FeeGrowthInside(b) - FeeGrowthInside(p)) % Wrap = d
  BY <1>3, <1>4, GrowthBetween DEF FeeGrowthInside
<1>6. d \in Nat /\ L \in Nat /\ (p = b => d = 0)
  BY <1>3, <1>4
<1>7. Grew(blocks, p, blocks[b].growth) = <<d * L, d * L>>
  BY DEF Grew
<1>8. feesFromGrowth(L, FeeGrowthInside(b), FeeGrowthInside(p)) = <<L * d, L * d>>
  BY <1>5 DEF feesFromGrowth
<1> HIDE DEF d
<1> HIDE DEF L
<1>9. L * d = d * L /\ d * L \in Nat
  BY <1>6, TimesNat
<1>10. L = 0 \/ d = 0 => d * L = 0
  BY <1>6
<1> QED BY <1>6, <1>7, <1>8, <1>9, <1>10 DEF Amount, Zero, L

-----------------------------------------------------------------------------
(* v3 *)

\* A removal is paid in the same transaction.
Collected(bl, S) == \A b \in S : TakenOut(bl[b].delta, bl[b].tick) # Zero => bl[b].paid # Zero

\* The events of the chain pay out what was paid.
LEMMA V3PaysOut ==
    ASSUME ChainInv, NEW S \in SUBSET (1 .. Height), NEW r, EventsOf(blocks, r, S), Collected(blocks, S)
    PROVE  PaysOut(r, blocks, S)
<1>1. Fair(r)
  BY EventsFair
<1>2. \A i \in 1 .. Len(r) : r[i].tx \in S /\ From(blocks[r[i].tx], r[i])
  BY DEF EventsOf
<1>3. \A i \in 1 .. Len(r) : r[i].kind = "collect" => r[i].amt = blocks[r[i].tx].paid
  BY <1>2 DEF From
<1>4. \A b \in S : blocks[b].paid # Zero => \E k \in 1 .. Len(r) : r[k].kind = "collect" /\ r[k].tx = b
  BY DEF EventsOf, Shows
<1>5. ASSUME NEW i \in 1 .. Len(r), r[i].kind = "decrease", r[i].amt # Zero
      PROVE  blocks[r[i].tx].paid # Zero
  <2> DEFINE x == blocks[r[i].tx]
  <2>1. r[i].tx \in S /\ r[i].amt = amountsFromLiquidity(r[i].liq, x.tick)
        /\ \E k \in DOMAIN x.delta : r[i].liq = Magnitude(x.delta[k]) /\ x.delta[k] < 0
    BY <1>2, <1>5 DEF From
  <2>2. x \in Block /\ x.delta \in Seq(Int) /\ x.tick \in Int
    <3>1. x \in Block
      BY <2>1, BlockIs
    <3>2. x.delta \in Seq(Int) /\ x.tick \in MinTick .. MaxTick
      BY <3>1 DEF Block
    <3> QED BY <3>1, <3>2, TicksOrdered
  <2> HIDE DEF x
  <2>3. PICK k \in DOMAIN x.delta : r[i].liq = Magnitude(x.delta[k]) /\ x.delta[k] < 0
    BY <2>1
  <2>4. x.delta[k] \in Int
    BY <2>2
  <2>5. r[i].amt = amountsFromLiquidity(-x.delta[k], x.tick) /\ -x.delta[k] \in Nat
    BY <2>1, <2>3, <2>4 DEF Magnitude
  <2>6. AtMost(r[i].amt, TakenOut(x.delta, x.tick)) /\ r[i].amt \in Amount
    BY <2>2, <2>3, <2>5, TakenOutIs, AmountsAre
  <2>7. TakenOut(x.delta, x.tick) # Zero
    BY <1>5, <2>6 DEF AtMost, Amount, Zero
  <2> QED BY <2>1, <2>7 DEF Collected, x
<1> QED BY <1>1, <1>2, <1>3, <1>4, <1>5 DEF PaysOut

-----------------------------------------------------------------------------
(* v4: a walk that is complete *)

\* The growth is known at an event and at the one before it.
Known(acc, x) == x.fg # NoGrowth /\ acc.last # NoGrowth

\* Nothing is missing of an event: there was nothing to earn, the growth is known, or what
\* was received was read.
Whole1(acc, e, x, got) ==
    acc.liq <= 0 \/ Known(acc, x) \/ (e.delta <= 0 /\ e.block \in DOMAIN got)

LEMMA StepIs ==
    ASSUME NEW acc, NEW e, NEW x, NEW got, Given(acc, e, x, got)
    PROVE  /\ Modified(acc, e, x, got).last = x.fg
           /\ Modified(acc, e, x, got).complete => acc.complete /\ Whole1(acc, e, x, got)
<1>1. acc.liq \in Int /\ e.delta \in Int
  BY DEF Given, Walk, RawEvent
<1> DEFINE read == e.block \in DOMAIN got
           known == x.fg # NoGrowth /\ acc.last # NoGrowth
           complete == acc.complete /\ ~(acc.liq > 0 /\ ~known /\ (e.delta > 0 \/ ~read))
<1>2. Modified(acc, e, x, got).complete = complete /\ Modified(acc, e, x, got).last = x.fg
  BY DEF Modified
<1>3. complete => acc.complete /\ Whole1(acc, e, x, got)
  BY <1>1 DEF Whole1, Known
<1> QED BY <1>2, <1>3

\* The walk carries the growth of the last event, and is complete when every step was.
LEMMA WalkIsWhole ==
    ASSUME NEW f, NEW r, NEW s, NEW got, Walking(f, r, s, got), f[Len(r)].complete
    PROVE  /\ \A j \in 1 .. Len(r) : f[j].last = s[r[j].block].fg
           /\ \A j \in 1 .. Len(r) : Whole1(f[j - 1], r[j], s[r[j].block], got)
<1>1. PICK n \in Nat : n = Len(r) /\ n >= 1
  BY WalkGiven
<1>2. \A j \in 1 .. n : f[j] = Modified(f[j - 1], r[j], s[r[j].block], got)
  BY <1>1 DEF Walking, Walks
<1>3. \A j \in 1 .. n : Given(f[j - 1], r[j], s[r[j].block], got)
  BY <1>1, WalkGiven
<1>4. ASSUME NEW j \in 1 .. n
      PROVE  /\ f[j].last = s[r[j].block].fg
             /\ f[j].complete => f[j - 1].complete /\ Whole1(f[j - 1], r[j], s[r[j].block], got)
  <2>1. f[j] = Modified(f[j - 1], r[j], s[r[j].block], got) /\ Given(f[j - 1], r[j], s[r[j].block], got)
    BY <1>2, <1>3
  <2> QED BY <2>1, StepIs
<1> DEFINE P == {i \in 0 .. n : f[i].complete => \A j \in 1 .. i : Whole1(f[j - 1], r[j], s[r[j].block], got)}
<1>5. 0 \in P
  BY <1>1
<1>6. ASSUME NEW i \in 0 .. n - 1, i \in P PROVE i + 1 \in P
  <2>1. i + 1 \in 1 .. n /\ i + 1 \in 0 .. n /\ (i + 1) - 1 = i
    BY <1>1
  <2>2. f[i + 1].complete => f[i].complete /\ Whole1(f[(i + 1) - 1], r[i + 1], s[r[i + 1].block], got)
    BY <1>4, <2>1
  <2>3. \A j \in 1 .. i + 1 : j \in 1 .. i \/ j = i + 1
    OBVIOUS
  <2>4. f[i].complete => \A j \in 1 .. i : Whole1(f[j - 1], r[j], s[r[j].block], got)
    BY <1>6
  <2>5. f[i + 1].complete => \A j \in 1 .. i + 1 : Whole1(f[j - 1], r[j], s[r[j].block], got)
    BY <2>2, <2>3, <2>4
  <2> QED BY <2>1, <2>5
<1>7. n \in P
  <2> HIDE DEF P
  <2>1. \A i \in 0 .. n : i \in P
    BY <1>5, <1>6, CountUp
  <2> QED BY <1>1, <2>1
<1> QED BY <1>1, <1>4, <1>7

\* Between two events in a row the position did not change, and the first is its mint.
LEMMA RawInARow ==
    ASSUME ChainInv, NEW S \in SUBSET (1 .. Height), RawOf(blocks, raw, S), OneEach(blocks, S), FromMint(S),
           NEW j \in 1 .. Len(raw)
    PROVE  /\ raw[1].block = 1
           /\ j # 1 => /\ j - 1 \in 1 .. Len(raw) /\ raw[j - 1].block < raw[j].block
                       /\ LastChange(blocks, raw[j - 1].block, raw[j].block - 1)
<1>1. raw \in Seq(RawEvent)
  BY DEF RawOf
<1>2. PICK n \in Nat : n = Len(raw) /\ n >= 1 /\ j \in 1 .. n
  BY <1>1
<1>3. \A i \in 1 .. n : /\ raw[i].block \in S /\ raw[i].block \in 1 .. Height /\ raw[i].delta \in Int
                        /\ blocks[raw[i].block].delta = <<raw[i].delta>>
  BY <1>2, OneDelta
<1>4. /\ \A i, k \in 1 .. n : i < k => raw[i].block < raw[k].block
      /\ \A b \in S : \E i \in 1 .. n : raw[i].block = b
  BY <1>2, RawRises
<1>5. Height \in Nat /\ Max(S) \in Int /\ \A b \in S : b <= Max(S)
  <2>1. raw[1].block \in S
    BY <1>2, <1>3
  <2>2. IsFiniteSet(S)
    <3>1. IsFiniteSet(1 .. Height)
      BY TipIs, FS_Interval
    <3> QED BY <3>1, FS_Subset
  <2>3. S \subseteq Int
    OBVIOUS
  <2> QED BY <2>1, <2>2, <2>3, TipIs, Ends
<1>6. \A c \in 1 .. Height : c <= Max(S) /\ blocks[c].delta # <<>> => \E i \in 1 .. n : raw[i].block = c
  <2> SUFFICES ASSUME NEW c \in 1 .. Height, c <= Max(S), blocks[c].delta # <<>>
               PROVE  \E i \in 1 .. n : raw[i].block = c
    OBVIOUS
  <2>1. c \in 1 .. Max(S)
    BY <1>5
  <2> QED BY <1>4, <2>1 DEF FromMint
<1>7. raw[1].block = 1
  <2>1. 1 \in 1 .. Height /\ blocks[1].delta = <<Opening>>
    BY TipIs DEF ChainInv, Mints
  <2>2. 1 \in 1 .. n /\ raw[1].block \in 1 .. Height /\ 1 <= Max(S)
    BY <1>2, <1>3, <1>5
  <2>3. blocks[1].delta # <<>>
    BY <2>1
  <2>4. PICK i \in 1 .. n : raw[i].block = 1
    BY <1>6, <2>1, <2>2, <2>3
  <2>5. 1 < i => raw[1].block < 1
    BY <1>4, <2>2, <2>4
  <2> QED BY <2>2, <2>4, <2>5
<1>8. ASSUME j # 1
      PROVE  /\ j - 1 \in 1 .. n /\ raw[j - 1].block < raw[j].block
             /\ LastChange(blocks, raw[j - 1].block, raw[j].block - 1)
  <2>1. j - 1 \in 1 .. n /\ j \in 1 .. n
    BY <1>2, <1>8
  <2> DEFINE p == raw[j - 1].block
             b == raw[j].block
  <2>2. p < b /\ p \in 1 .. Height /\ b \in 1 .. Height /\ b <= Max(S)
    BY <1>3, <1>4, <1>5, <2>1
  <2>3. blocks[p].delta # <<>>
    <3>1. blocks[p].delta = <<raw[j - 1].delta>>
      BY <1>3, <2>1
    <3> HIDE DEF p
    <3> QED BY <3>1
  <2>4. ASSUME NEW c \in p + 1 .. b - 1, blocks[c].delta # <<>> PROVE FALSE
    <3>1. c \in 1 .. Height /\ c <= Max(S) /\ p < c /\ c < b
      BY <1>5, <2>2
    <3>2. PICK i \in 1 .. n : raw[i].block = c
      BY <1>6, <2>4, <3>1
    <3>3. i < j - 1 => c < p
      BY <1>4, <2>1, <3>2
    <3>4. j < i => b < c
      BY <1>4, <2>1, <3>2
    <3>5. i = j - 1 => c = p
      BY <3>2
    <3>6. i = j => c = b
      BY <3>2
    <3> HIDE DEF p, b
    <3>7. i < j - 1 \/ i = j - 1 \/ i = j \/ j < i
      BY <1>2
    <3> QED BY <2>2, <3>1, <3>3, <3>4, <3>5, <3>6, <3>7
  <2> HIDE DEF p, b
  <2>5. LastChange(blocks, p, b - 1)
    BY <2>3, <2>4 DEF LastChange
  <2> QED BY <2>1, <2>2, <2>5 DEF p, b
<1> QED BY <1>2, <1>7, <1>8

-----------------------------------------------------------------------------
(* The states that payouts are decoded by *)

\* The states tell what the chain did: the growth, or none, and the tick of what takes out.
StatesPaid(bl) ==
    /\ \A b \in Txs : st[b].fg \in {NoGrowth, (BaseGrowth + bl[b].growth) % Wrap}
    /\ \A b \in Txs : bl[b].delta[1] <= 0 => st[b].tick = bl[b].tick

\* What a change of one amount takes out.
LEMMA TakenOne ==
    ASSUME NEW d \in Int, NEW t \in Int, NEW delta, delta = <<d>>
    PROVE  TakenOut(delta, t) = IF d < 0 THEN amountsFromLiquidity(-d, t) ELSE Zero
<1> DEFINE I == {i \in DOMAIN delta : delta[i] < 0}
           out == [i \in I |-> amountsFromLiquidity(-delta[i], t)]
<1>1. DOMAIN delta = {1} /\ delta[1] = d
  OBVIOUS
<1>2. TakenOut(delta, t) = Total(out)
  BY DEF TakenOut
<1>3. CASE d < 0
  <2>1. I = {1}
    BY <1>1, <1>3
  <2>2. DOMAIN out = {1} /\ out[1] = amountsFromLiquidity(-d, t)
    BY <1>1, <2>1
  <2>3. amountsFromLiquidity(-d, t) \in Amount
    BY <1>3, AmountsAre
  <2> HIDE DEF out
  <2>4. Total(out) = out[1]
    BY <2>2, <2>3, TotalOne
  <2> QED BY <1>2, <1>3, <2>2, <2>4
<1>4. CASE ~(d < 0)
  <2>1. I = {}
    BY <1>1, <1>4
  <2>2. DOMAIN out = {}
    BY <2>1
  <2> HIDE DEF out
  <2>3. Total(out) = Zero
    BY <2>2, TotalNone
  <2> QED BY <1>2, <1>4, <2>3
<1> QED BY <1>3, <1>4

\* Every event of a complete walk collects what its block paid, if it paid.
LEMMA PaysAre ==
    ASSUME ReaderInv, Accounts(blocks, owed), pc = "now", version = "v4", PaidRead(blocks), StatesPaid(blocks),
           OneEach(blocks, Mod(blocks, head, ctx)), FromMint(Mod(blocks, head, ctx)),
           NEW f, Walking(f, raw, st, received), f[Len(raw)].complete, NEW j \in 1 .. Len(raw)
    PROVE  LET b == raw[j].block
               new == NewAt(f, raw, st, received, j) IN
           /\ \A i \in 1 .. Len(new) : new[i].tx = b
           /\ \A i \in 1 .. Len(new) : new[i].kind = "collect" => new[i].amt = blocks[b].paid
           /\ blocks[b].paid # Zero => \E i \in 1 .. Len(new) : new[i].kind = "collect"
           /\ (\E i \in 1 .. Len(new) : new[i].kind = "decrease") => \E i \in 1 .. Len(new) : new[i].kind = "collect"
<1> DEFINE S == Mod(blocks, head, ctx)
           b == raw[j].block
           p == raw[j - 1].block
           acc == f[j - 1]
           e == raw[j]
           x == st[b]
           new == NewOf(acc, e, x, received)
           fee == FeeSince(acc, x)
           paid == blocks[b].paid
<1>1. ChainInv /\ S \in SUBSET (1 .. Height) /\ RawOf(blocks, raw, S) /\ Height \in Nat
  BY TipIs DEF ReaderInv, LogsRead, Mod, Height
<1>2. b \in S /\ b \in 1 .. Height /\ e.delta \in Int /\ blocks[b].delta = <<e.delta>> /\ e.block = b
  BY <1>1, OneDelta
<1>3. Given(acc, e, x, received) /\ Len(raw) \in Nat /\ f[0].liq = 0
  BY WalkGiven
<1>4. NewAt(f, raw, st, received, j) = new
  BY DEF NewAt
<1>5. raw[1].block = 1
      /\ (j # 1 => /\ j - 1 \in 1 .. Len(raw) /\ p < b /\ LastChange(blocks, p, b - 1))
  BY <1>1, RawInARow
<1>6. Whole1(acc, e, x, received)
  BY <1>2, WalkIsWhole
<1>7. blocks[b] \in Block /\ Honest(blocks[b], version) /\ blocks[b].tick \in Int
  <2>1. blocks[b] \in Block /\ Honest(blocks[b], version)
    BY <1>1, <1>2, BlockIs
  <2>2. blocks[b].tick \in MinTick .. MaxTick
    BY <2>1 DEF Block
  <2> QED BY <2>1, <2>2, TicksOrdered
<1>8. b \in Txs
  <2>1. DOMAIN raw = 1 .. Len(raw)
    <3>1. raw \in Seq(RawEvent)
      BY <1>1 DEF RawOf
    <3> QED BY <3>1
  <2> QED BY <2>1 DEF Txs
<1> HIDE DEF S
\* What the growth makes out is what was earned, where it is known or nothing was.
<1>9. /\ paid = Plus(TakenOut(blocks[b].delta, blocks[b].tick), fee) \/ (e.delta <= 0 /\ b \in DOMAIN received)
      /\ e.delta > 0 => paid = fee
      /\ fee \in Amount \/ (e.delta <= 0 /\ b \in DOMAIN received)
  <2>1. CASE j = 1
    <3>1. acc.liq = 0 /\ b = 1
      BY <1>3, <1>5, <2>1
    <3>2. fee = Zero
      BY <1>3, <3>1, PartsAre
    <3>3. paid = Zero /\ e.delta > 0 /\ blocks[b].delta = <<Opening>>
      <4>1. blocks[1].delta = <<Opening>> /\ Opening > 0 /\ Opening \in Nat /\ blocks[1].paid = Zero
        BY <1>1, ChainAssumption DEF ChainInv, Mints
      <4> QED BY <1>2, <3>1, <4>1
    <3>4. TakenOut(blocks[b].delta, blocks[b].tick) = Zero
      <4>1. TakenOut(blocks[b].delta, blocks[b].tick) =
              IF e.delta < 0 THEN amountsFromLiquidity(-e.delta, blocks[b].tick) ELSE Zero
        BY <1>2, <1>7, TakenOne
      <4> QED BY <1>2, <3>3, <4>1
    <3> QED BY <3>2, <3>3, <3>4, ZeroIs DEF Plus, Zero
  <2>2. CASE j # 1
    <3>1. j - 1 \in 1 .. Len(raw) /\ p < b /\ LastChange(blocks, p, b - 1)
      BY <1>5, <2>2
    <3>2. p \in 1 .. Height /\ p \in Txs
      <4>1. p \in 1 .. Height
        BY <1>1, <3>1, OneDelta DEF S
      <4>2. raw \in Seq(RawEvent)
        BY <1>1 DEF RawOf
      <4>3. j - 1 \in DOMAIN raw
        BY <3>1, <4>2
      <4> QED BY <4>1, <4>3 DEF Txs
    <3>3. acc.liq = blocks[p].liq /\ acc.last = st[p].fg
      <4>1. \A k \in 1 .. Len(raw) : f[k].liq = blocks[raw[k].block].liq
        BY <1>1, LiqIs DEF S
      <4>2. \A k \in 1 .. Len(raw) : f[k].last = st[raw[k].block].fg
        BY WalkIsWhole
      <4> QED BY <3>1, <4>1, <4>2
    <3> DEFINE grew == Grew(blocks, p, blocks[b].growth)
               out == TakenOut(blocks[b].delta, blocks[b].tick)
    <3>4. paid = Plus(out, grew)
      <4>1. blocks[b].delta # <<>>
        BY <1>2
      <4>2. Len(blocks) = Height
        BY DEF Height
      <4> QED BY <1>2, <3>1, <3>2, <4>1, <4>2 DEF Accounts
    <3>5. /\ feesFromGrowth(blocks[p].liq, FeeGrowthInside(b), FeeGrowthInside(p)) = grew
          /\ grew \in Amount /\ (blocks[p].liq = 0 => grew = Zero)
      BY <1>1, <1>2, <3>1, <3>2, EarnedIs
    <3>6. Known(acc, x) \/ acc.liq = 0 => fee = grew
      <4>1. CASE Known(acc, x)
        <5>1. x.fg = FeeGrowthInside(b) /\ acc.last = FeeGrowthInside(p)
          BY <1>8, <3>2, <3>3, <4>1 DEF StatesPaid, Known, FeeGrowthInside
        <5>2. fee = feesFromGrowth(acc.liq, x.fg, acc.last)
          BY <4>1 DEF FeeSince, Known
        <5> QED BY <3>3, <3>5, <5>1, <5>2
      <4>2. CASE acc.liq = 0
        <5>1. fee = Zero
          BY <1>3, <4>2, PartsAre
        <5> QED BY <3>3, <3>5, <4>2, <5>1
      <4> QED BY <4>1, <4>2
    <3>7. acc.liq <= 0 => acc.liq = 0
      <4>1. blocks[p] \in Block
        BY <1>1, <3>2, BlockIs
      <4>2. blocks[p].liq \in Nat
        BY <4>1 DEF Block
      <4> QED BY <3>3, <4>2
    <3>8. fee = grew \/ (e.delta <= 0 /\ b \in DOMAIN received)
      BY <1>2, <1>6, <3>6, <3>7 DEF Whole1
    <3>9. e.delta > 0 => out = Zero
      <4>1. out = IF e.delta < 0 THEN amountsFromLiquidity(-e.delta, blocks[b].tick) ELSE Zero
        BY <1>2, <1>7, TakenOne
      <4> QED BY <1>2, <4>1
    <3> HIDE DEF grew, out
    <3>10. Plus(Zero, grew) = grew
      BY <3>5 DEF Amount, Plus, Zero
    <3>11. e.delta > 0 => paid = fee
      <4> SUFFICES ASSUME e.delta > 0 PROVE paid = fee
        OBVIOUS
      <4>1. out = Zero
        BY <3>9
      <4>2. fee = grew
        BY <1>2, <3>8
      <4> QED BY <3>4, <3>10, <4>1, <4>2
    <3>12. fee \in Amount \/ (e.delta <= 0 /\ b \in DOMAIN received)
      BY <3>5, <3>8
    <3>13. paid = Plus(out, fee) \/ (e.delta <= 0 /\ b \in DOMAIN received)
      BY <3>4, <3>8
    <3> QED BY <3>11, <3>12, <3>13 DEF out
  <2> QED BY <2>1, <2>2
<1> HIDE DEF acc, e, x, new, fee, paid
<1>10. \A i \in 1 .. Len(new) : new[i].tx = b
  BY <1>2, <1>3, NewIs DEF new
<1>11. \A i \in 1 .. Len(new) : new[i].kind = "decrease" => e.delta < 0
  BY <1>3, NewIs DEF new
<1>12. CASE e.delta > 0
  <2>1. paid = fee /\ fee \in Amount
    BY <1>2, <1>9, <1>12
  <2>2. CASE Positive(fee)
    <3>1. new = <<PutInEvent(e, x), FeeEvent(acc, e, x)>>
      BY <1>12, <2>2, NewCases DEF new, fee
    <3>2. Len(new) = 2 /\ new[1] = PutInEvent(e, x) /\ new[2] = FeeEvent(acc, e, x)
      BY <3>1
    <3>3. new[1].kind = "increase" /\ new[2].kind = "collect" /\ new[2].amt = fee
      BY <3>2 DEF PutInEvent, FeeEvent, Event, fee
    <3>4. \A i \in 1 .. Len(new) : i = 1 \/ i = 2
      BY <3>2
    <3>5. 2 \in 1 .. Len(new)
      BY <3>2
    <3>6. \A i \in 1 .. Len(new) : new[i].kind = "collect" => new[i].amt = paid
      BY <2>1, <3>3, <3>4
    <3> QED BY <1>4, <1>10, <3>3, <3>5, <3>6 DEF paid
  <2>3. CASE ~Positive(fee)
    <3>1. new = <<PutInEvent(e, x)>>
      BY <1>12, <2>3, NewCases DEF new, fee
    <3>2. PutInEvent(e, x).kind = "increase"
      BY DEF PutInEvent, Event
    <3>3. \A i \in 1 .. Len(new) : new[i].kind = "increase"
      BY <3>1, <3>2
    <3>4. paid = Zero
      BY <2>1, <2>3 DEF Positive, Amount, Zero
    <3> QED BY <1>4, <1>10, <3>3, <3>4 DEF paid
  <2> QED BY <2>2, <2>3
<1>13. CASE ~(e.delta > 0)
  <2>1. e.delta <= 0
    BY <1>2, <1>13 DEF e
  <2>2. /\ \E i \in 1 .. Len(new) : new[i].kind = "collect"
        /\ \A i \in 1 .. Len(new) : new[i].kind = "collect" => new[i].amt = Gets(acc, e, x, received)
    BY <1>3, <2>1, NewIs DEF new
  <2>3. Gets(acc, e, x, received) = paid
    <3>1. CASE b \in DOMAIN received
      <4>1. \A i \in DOMAIN blocks[b].delta : blocks[b].delta[i] <= 0
        BY <1>2, <2>1 DEF e
      <4>2. received[b] = blocks[b].paid
        BY <1>7, <3>1, <4>1 DEF Honest, PaidRead
      <4> QED BY <1>2, <3>1, <4>2 DEF Gets, paid, e
    <3>2. CASE b \notin DOMAIN received
      <4>1. paid = Plus(TakenOut(blocks[b].delta, blocks[b].tick), fee)
        BY <1>9, <3>2
      <4>2. TakenOut(blocks[b].delta, blocks[b].tick) =
              IF e.delta < 0 THEN amountsFromLiquidity(-e.delta, blocks[b].tick) ELSE Zero
        BY <1>2, <1>7, TakenOne DEF e
      <4>3. x.tick = blocks[b].tick
        BY <1>2, <1>8, <2>1 DEF StatesPaid, x, e
      <4>4. e.delta < 0 => Takes(e, x, received) = amountsFromLiquidity(-e.delta, blocks[b].tick)
        BY <1>2, <3>2, <4>3 DEF Takes, Moves, Magnitude, e
      <4>5. Gets(acc, e, x, received) = Plus(IF e.delta < 0 THEN Takes(e, x, received) ELSE Zero, fee)
        BY <1>2, <3>2 DEF Gets, fee, e
      <4> QED BY <4>1, <4>2, <4>4, <4>5
    <3> QED BY <3>1, <3>2
  <2> QED BY <1>4, <1>10, <2>2, <2>3 DEF paid
<1> QED BY <1>12, <1>13

\* A complete walk from the mint on pays out what the chain paid.
LEMMA V4PaysOut ==
    ASSUME ReaderInv, Accounts(blocks, owed), pc = "now", version = "v4", PaidRead(blocks), StatesPaid(blocks),
           OneEach(blocks, Mod(blocks, head, ctx)), FromMint(Mod(blocks, head, ctx)),
           NEW f, NEW ev, Decoding(f, ev), f[Len(raw)].complete
    PROVE  PaysOut(ev, blocks, Mod(blocks, head, ctx))
<1> DEFINE S == Mod(blocks, head, ctx)
           New(j) == NewAt(f, raw, st, received, j)
<1>1. ChainInv /\ RawOf(blocks, raw, S) /\ S \in SUBSET (1 .. Height) /\ OneEach(blocks, S)
  BY DEF ReaderInv, LogsRead, Mod, Height
<1>2. Walking(f, raw, st, received) /\ ev = f[Len(raw)].events
  BY DEF Decoding
<1>3. Fair(ev)
  BY DEF Decoding, ReadFromMint
<1>4. PICK b : Entries(b, ev, f, raw, st, received)
  BY <1>2, WalkEntries
<1>5. ASSUME NEW j \in 1 .. Len(raw)
      PROVE  LET c == raw[j].block IN
             /\ \A i \in 1 .. Len(New(j)) : New(j)[i].tx = c
             /\ \A i \in 1 .. Len(New(j)) : New(j)[i].kind = "collect" => New(j)[i].amt = blocks[c].paid
             /\ blocks[c].paid # Zero => \E i \in 1 .. Len(New(j)) : New(j)[i].kind = "collect"
             /\ (\E i \in 1 .. Len(New(j)) : New(j)[i].kind = "decrease")
                   => \E i \in 1 .. Len(New(j)) : New(j)[i].kind = "collect"
  BY <1>2, PaysAre
<1>6. \A j \in 1 .. Len(raw) : raw[j].block \in S
  BY <1>1 DEF RawOf
<1> HIDE DEF S
\* Every entry of a step of the walk is one of the events, and every event one of a step.
<1>7. \A j \in 1 .. Len(raw) : \A y \in 1 .. Len(New(j)) : \E i \in 1 .. Len(ev) : ev[i] = New(j)[y]
  BY <1>4 DEF Entries
<1>8. \A i \in 1 .. Len(ev) : \E j \in 1 .. Len(raw) : \E y \in 1 .. Len(New(j)) : ev[i] = New(j)[y]
  BY <1>4 DEF Entries
<1> HIDE DEF New
<1>9. ASSUME NEW i \in 1 .. Len(ev)
      PROVE  /\ ev[i].tx \in S
             /\ ev[i].kind = "collect" => ev[i].amt = blocks[ev[i].tx].paid
             /\ ev[i].kind = "decrease" => \E k \in 1 .. Len(ev) : ev[k].kind = "collect" /\ ev[k].tx = ev[i].tx
  <2>1. PICK j \in 1 .. Len(raw) : \E y \in 1 .. Len(New(j)) : ev[i] = New(j)[y]
    BY <1>8
  <2>2. PICK y \in 1 .. Len(New(j)) : ev[i] = New(j)[y]
    BY <2>1
  <2>3. ev[i].tx = raw[j].block /\ ev[i].tx \in S
    BY <1>5, <1>6, <2>2
  <2>4. ev[i].kind = "collect" => ev[i].amt = blocks[ev[i].tx].paid
    BY <1>5, <2>2, <2>3
  <2>5. ASSUME ev[i].kind = "decrease"
        PROVE  \E k \in 1 .. Len(ev) : ev[k].kind = "collect" /\ ev[k].tx = ev[i].tx
    <3>1. PICK z \in 1 .. Len(New(j)) : New(j)[z].kind = "collect"
      BY <1>5, <2>2, <2>5
    <3>2. PICK k \in 1 .. Len(ev) : ev[k] = New(j)[z]
      BY <1>7
    <3>3. New(j)[z].tx = raw[j].block
      BY <1>5
    <3> QED BY <2>3, <3>1, <3>2, <3>3
  <2> QED BY <2>3, <2>4, <2>5
<1>10. ASSUME NEW c \in S, blocks[c].paid # Zero
       PROVE  \E k \in 1 .. Len(ev) : ev[k].kind = "collect" /\ ev[k].tx = c
  <2>1. PICK j \in 1 .. Len(raw) : raw[j].block = c
    BY <1>1, RawRises
  <2>2. PICK z \in 1 .. Len(New(j)) : New(j)[z].kind = "collect"
    BY <1>5, <1>10, <2>1
  <2>3. New(j)[z].tx = c
    BY <1>5, <2>1
  <2>4. PICK k \in 1 .. Len(ev) : ev[k] = New(j)[z]
    BY <1>7
  <2> QED BY <2>2, <2>3, <2>4
<1> QED BY <1>3, <1>9, <1>10 DEF PaysOut, S

\* The tick of a removal in a calm pool is the pool's, wherever it was read.
LEMMA RemovalTick ==
    ASSUME ChainInv, version = "v4", head \in 1 .. Height, Txs \subseteq 1 .. head,
           NEW S \in SUBSET (1 .. Height), RawOf(blocks, raw, S), Calm(blocks, S), OneEach(blocks, S),
           NEW native \in BOOLEAN, NEW unread, NEW gone,
           NEW implied, implied = impliedMintTicks(raw, outflowsOf(ownerFlows(native, unread))),
           NEW b \in Txs, b \in S, ~TickSources(b, gone, implied).guessed, blocks[b].delta[1] <= 0
    PROVE  TickSources(b, gone, implied).tick = blocks[b].tick
<1> DEFINE out == outflowsOf(ownerFlows(native, unread))
           source == TickSources(b, gone, implied)
<1>1. b \in 1 .. Height /\ b \in 1 .. head /\ Height \in Nat /\ Txs \subseteq 1 .. Height
  <2>1. Height \in Nat
    BY TipIs
  <2>2. 1 .. head \subseteq 1 .. Height
    BY <2>1
  <2> QED BY <2>1, <2>2
<1>2. blocks[b].after = blocks[b].tick
  BY DEF Calm
<1>3. b \notin DOMAIN implied
  <2> SUFFICES ASSUME b \in DOMAIN implied PROVE FALSE
    OBVIOUS
  <2>1. \A c \in DOMAIN out : out[c] \in Amount
    <3>1. \A c \in DOMAIN ownerFlows(native, unread) : ownerFlows(native, unread)[c] \in Int \X Int
      BY <1>1, FlowsAre
    <3> QED BY <3>1, OutflowsAre
  <2>2. raw \in Seq(RawEvent)
    BY DEF RawOf
  <2>3. Evidenced(raw, out, b, implied[b])
    <3> HIDE DEF out
    <3>1. implied = impliedMintTicks(raw, out)
      BY DEF out
    <3> QED BY <2>1, <2>2, <3>1, ImpliedAre
  <2>4. PICK i \in 1 .. Len(raw) : raw[i].block = b /\ raw[i].delta > 0
    BY <2>3 DEF Evidenced
  <2>5. raw[i].delta \in Int /\ blocks[b].delta = <<raw[i].delta>>
    BY <2>4, OneDelta
  <2> QED BY <2>4, <2>5
<1>4. CASE slot0TickAt(b, gone) # NoTick
  <2>1. slot0TickAt(b, gone) = blocks[b].after
    BY <1>4 DEF slot0TickAt
  <2> QED BY <1>2, <1>4, <2>1 DEF TickSources
<1>5. CASE slot0TickAt(b, gone) = NoTick
  <2>1. swapTickAt(b) # NoTick /\ source.tick = FirstOf(<<swapTickAt(b), poolInitTick>>)
    BY <1>3, <1>5 DEF TickSources
  <2>2. swapTickAt(b) = blocks[b].after
    BY <1>1, <2>1, SwapTickIs DEF swapTickAt, poolSwaps
  <2>3. FirstOf(<<swapTickAt(b), poolInitTick>>) = swapTickAt(b)
    BY <2>1, FirstIsFirst
  <2> QED BY <1>2, <2>1, <2>2, <2>3
<1> QED BY <1>4, <1>5

\* The states of a reading that does not say that it guessed tell what the chain did.
Faithful(bl) ==
    LET M == Mod(bl, head, ctx) IN ticksOk /\ Calm(bl, M) /\ OneEach(bl, M)
StatesTrue(bl) == Faithful(bl) => StatesPaid(bl)

LEMMA StatesFaithful ==
    ASSUME ReaderInv, LogsRead(blocks), version = "v4", NEW native \in BOOLEAN, NEW unread,
           NEW gone, NEW tickGone, StatesOf(ownerFlows(native, unread), gone, tickGone),
           Calm(blocks, Mod(blocks, head, ctx)), OneEach(blocks, Mod(blocks, head, ctx)), ticksOk'
    PROVE  /\ \A b \in Txs : st'[b].fg \in {NoGrowth, (BaseGrowth + blocks[b].growth) % Wrap}
           /\ \A b \in Txs : blocks[b].delta[1] <= 0 => st'[b].tick = blocks[b].tick
<1> DEFINE M == Mod(blocks, head, ctx)
           implied == impliedMintTicks(raw, outflowsOf(ownerFlows(native, unread)))
<1>1. ChainInv /\ head \in 1 .. Height /\ RawOf(blocks, raw, M) /\ M \subseteq 1 .. head
  BY DEF ReaderInv, LogsRead, Height, Mod
<1>2. Txs \subseteq M /\ Txs \subseteq 1 .. head /\ M \in SUBSET (1 .. Height)
  <2>1. M \in SUBSET (1 .. Height)
    BY <1>1, TipIs
  <2> HIDE DEF M
  <2> QED BY <1>1, <2>1, TxsAre
<1>3. \A b \in Txs : LET source == TickSources(b, tickGone, implied)
                     IN  ~source.guessed /\ st'[b].tick = source.tick /\ st'[b].fg = feeGrowthAt(b, gone)
  BY StatesTyped
<1> HIDE DEF M
<1>4. implied = impliedMintTicks(raw, outflowsOf(ownerFlows(native, unread)))
  OBVIOUS
<1> HIDE DEF implied
<1>5. \A b \in Txs : st'[b].fg \in {NoGrowth, (BaseGrowth + blocks[b].growth) % Wrap}
  BY <1>3 DEF feeGrowthAt, FeeGrowthInside
<1>6. ASSUME NEW b \in Txs, blocks[b].delta[1] <= 0 PROVE st'[b].tick = blocks[b].tick
  <2>1. TickSources(b, tickGone, implied).tick = blocks[b].tick
    BY <1>1, <1>2, <1>3, <1>4, <1>6, RemovalTick DEF M
  <2> QED BY <1>3, <2>1
<1> QED BY <1>5, <1>6

-----------------------------------------------------------------------------
(* What was read first *)

\* What was read first of the position is so still, while nothing changes it.
MetaTrue(bl, o) ==
    /\ meta.at \in 1 .. Len(bl)
    /\ meta.liq = bl[meta.at].liq
    /\ (\A b \in meta.at + 1 .. Len(bl) : bl[b].delta = <<>>) => meta.owed = Plus(o.fees, o.principal)

\* A block without a change owes the position what was owed before.
LEMMA OwedKeeps ==
    ASSUME ChainInv, Mine
    PROVE  \E x : blocks' = Append(blocks, x) /\ (x.delta = <<>> => owed' = owed)
<1>1. CASE Change
  <2>1. PICK t \in Ticks, delta \in Changes, grown \in Growths, collects \in BOOLEAN, burnt \in BOOLEAN :
           \E after \in {t} \cup LateTicks : ChangeOf(t, after, delta, grown, collects, burnt)
    BY <1>1 DEF Change
  <2>2. PICK after : ChangeOf(t, after, delta, grown, collects, burnt)
    BY <2>1
  <2>3. PICK g, L, o, p : blocks' = Append(blocks,
             [tick |-> t, after |-> after, delta |-> delta, growth |-> g, liq |-> L,
              owner |-> Tip.next, next |-> o, spent |-> PutIn(delta, t), paid |-> p])
    BY <2>2 DEF ChangeOf
  <2> DEFINE x == [tick |-> t, after |-> after, delta |-> delta, growth |-> g, liq |-> L,
              owner |-> Tip.next, next |-> o, spent |-> PutIn(delta, t), paid |-> p]
  <2>4. x.delta # <<>>
    BY ChainAssumption
  <2>5. blocks' = Append(blocks, x)
    BY <2>3
  <2> HIDE DEF x
  <2> QED BY <2>4, <2>5
<1>2. CASE Pass
  <2>1. owed' = owed /\ \E x : blocks' = Append(blocks, x)
    BY <1>2 DEF Pass
  <2> QED BY <2>1
<1> QED BY <1>1, <1>2 DEF Mine

LEMMA MetaKeeps ==
    ASSUME ChainInv, Mine, meta' = meta, MetaTrue(blocks, owed) PROVE MetaTrue(blocks, owed)'
<1>1. PICK x : blocks' = Append(blocks, x) /\ (x.delta = <<>> => owed' = owed)
  BY OwedKeeps
<1>2. blocks \in Seq(Block)
  BY DEF ChainInv
<1> DEFINE n == Len(blocks)
           more == blocks'
<1>3. n \in Nat /\ Len(more) = n + 1 /\ more[n + 1] = x /\ \A b \in 1 .. n : more[b] = blocks[b]
  BY <1>1, <1>2
<1> HIDE DEF n, more
<1>4. meta.at \in 1 .. n /\ meta.liq = blocks[meta.at].liq
  BY DEF MetaTrue, n
<1>5. meta.at \in 1 .. n + 1 /\ meta.liq = more[meta.at].liq
  BY <1>3, <1>4
<1>6. ASSUME \A b \in meta.at + 1 .. n + 1 : more[b].delta = <<>>
      PROVE  meta.owed = Plus(owed'.fees, owed'.principal)
  <2>1. n + 1 \in meta.at + 1 .. n + 1 /\ \A b \in meta.at + 1 .. n : b \in meta.at + 1 .. n + 1 /\ b \in 1 .. n
    BY <1>3, <1>4
  <2>2. x.delta = <<>>
    BY <1>3, <1>6, <2>1
  <2>3. \A b \in meta.at + 1 .. n : blocks[b].delta = <<>>
    BY <1>3, <1>6, <2>1
  <2>4. meta.owed = Plus(owed.fees, owed.principal)
    BY <2>3 DEF MetaTrue, n
  <2> QED BY <1>1, <2>2, <2>4
<1> QED BY <1>3, <1>5, <1>6 DEF MetaTrue, more

\* Nothing having changed since either was read, the position is as the first read said.
Quiet(bl, now) == \A b \in Min({head, meta.at}) + 1 .. now : bl[b].delta = <<>>

LEMMA QuietIs ==
    ASSUME ChainInv, MetaTrue(blocks, owed), head \in 1 .. Height, Quiet(blocks, Height)
    PROVE  /\ meta.liq = Tip.liq /\ meta.owed = Plus(owed.fees, owed.principal)
           /\ \A b \in 1 .. Height : b > head => blocks[b].delta = <<>>
<1>1. Height \in Nat /\ Height = Len(blocks) /\ Tip = blocks[Height] /\ Height \in 1 .. Height
  BY TipIs DEF ChainInv, Height
<1>2. meta.at \in 1 .. Height /\ meta.liq = blocks[meta.at].liq
  BY <1>1 DEF MetaTrue
<1> DEFINE S == {head, meta.at}
           m == Min(S)
<1>3. m \in S /\ m <= head /\ m <= meta.at
  <2>1. S \subseteq 1 .. Height /\ S # {} /\ head \in S /\ meta.at \in S
    BY <1>2
  <2> HIDE DEF S
  <2>2. S \subseteq Int
    BY <1>1, <2>1
  <2>3. IsFiniteSet(S)
    <3>1. IsFiniteSet(1 .. Height)
      BY <1>1, FS_Interval
    <3> QED BY <2>1, <3>1, FS_Subset
  <2> QED BY <2>1, <2>2, <2>3, Ends
<1>4. m \in 1 .. Height
  BY <1>2, <1>3
<1>5. \A b \in m + 1 .. Height : blocks[b].delta = <<>>
  BY DEF Quiet
<1> HIDE DEF m, S
<1>6. \A b \in 1 .. Height : b > head \/ b > meta.at => b \in m + 1 .. Height
  BY <1>1, <1>2, <1>3, <1>4
<1>7. meta.liq = Tip.liq
  <2>1. \A c \in 1 .. Height : meta.at < c /\ c <= Height => blocks[c].delta = <<>>
    BY <1>1, <1>2, <1>5, <1>6
  <2>2. meta.at <= Height
    BY <1>1, <1>2
  <2> QED BY <1>1, <1>2, <2>1, <2>2, SameLiq
<1>8. meta.owed = Plus(owed.fees, owed.principal)
  <2>1. \A b \in meta.at + 1 .. Height : b \in 1 .. Height /\ b > meta.at
    BY <1>1, <1>2
  <2>2. \A b \in meta.at + 1 .. Height : blocks[b].delta = <<>>
    BY <1>5, <1>6, <2>1
  <2> QED BY <1>1, <2>2 DEF MetaTrue
<1>9. \A b \in 1 .. Height : b > head => blocks[b].delta = <<>>
  BY <1>5, <1>6
<1> QED BY <1>7, <1>8, <1>9

-----------------------------------------------------------------------------
(* The reading, and what it reports as paid out *)

\* What is to be reported as paid out, and still there, of a reading that is not flagged.
Reads(bl) ==
    LET M == Mod(bl, head, ctx) IN
    /\ Calm(bl, M)
    /\ version = "v3" => Collected(bl, M)
    /\ version = "v4" => OneEach(bl, M) /\ FromMint(M)
ReadsAll(bl) == \A b \in 1 .. head : bl[b].delta # <<>> => b \in Mod(bl, head, ctx)
PayoutsTold(bl) ==
    /\ ticksOk /\ feesOk /\ Reads(bl) /\ Quiet(bl, result.now)
    /\ version = "v4" /\ result.open => ReadsAll(bl)
    => Reported = Plus(PaidTo(bl), MarkNow)

PayoutInv ==
    /\ SoundInv
    /\ Accounts(blocks, owed)
    /\ pc \in {"logs", "states", "now"} => MetaTrue(blocks, owed)
    /\ pc = "now" /\ version = "v4" => StatesTrue(blocks)
    /\ pc = "done" => PayoutsTold(blocks)

LEMMA PayoutStarts == ASSUME Init PROVE PayoutInv
<1>1. SoundInv /\ Accounts(blocks, owed)
  BY SoundStarts, AccountsStart DEF Init
<1> QED BY <1>1 DEF Init, PayoutInv

LEMMA PayoutGoesOn ==
    ASSUME PayoutInv, Mine, UNCHANGED readerVars, ~Over PROVE PayoutInv'
<1>1. SoundInv /\ SoundInv' /\ ReaderInv /\ ChainInv /\ Accounts(blocks, owed)
  BY SoundGoesOn DEF PayoutInv, SoundInv, ReaderInv
<1>2. Accounts(blocks, owed)'
  BY <1>1, AccountsKeep
<1>3. /\ version' = version /\ Height \in Nat /\ \A b \in 1 .. Height : blocks'[b] = blocks[b]
  BY <1>1, MineGrows
<1>4. /\ pc' = pc /\ ctx' = ctx /\ head' = head /\ raw' = raw /\ st' = st /\ meta' = meta /\ ticksOk' = ticksOk
  BY DEF readerVars
<1>5. pc \in {"logs", "states", "now"} => MetaTrue(blocks, owed)'
  BY <1>1, <1>4, MetaKeeps DEF PayoutInv
<1>6. ASSUME pc = "now", version = "v4" PROVE StatesTrue(blocks)'
  <2> DEFINE M == Mod(blocks, head, ctx)
  <2>1. LogsRead(blocks) /\ StatesTrue(blocks)
    BY <1>1, <1>6 DEF PayoutInv, ReaderInv
  <2>2. head \in 1 .. Height /\ RawOf(blocks, raw, M)
    BY <1>6, <2>1 DEF LogsRead, Height
  <2>3. Mod(blocks', head, ctx) = M /\ M \subseteq 1 .. Height /\ \A b \in M : blocks'[b] = blocks[b]
    BY <1>3, <2>2, ModStays
  <2>4. Txs' = Txs /\ Txs \subseteq M
    BY <1>4, <2>2, TxsAre DEF Txs
  <2> HIDE DEF M
  <2>5. Faithful(blocks)' => Faithful(blocks)
    <3> SUFFICES ASSUME Faithful(blocks)' PROVE Faithful(blocks)
      OBVIOUS
    <3>1. ticksOk /\ Calm(blocks', M) /\ OneEach(blocks', M)
      BY <1>4, <2>3 DEF Faithful
    <3>2. Calm(blocks, M) /\ OneEach(blocks, M)
      BY <2>3, <3>1 DEF Calm, OneEach
    <3> QED BY <3>1, <3>2 DEF Faithful, M
  <2>6. StatesPaid(blocks) => StatesPaid(blocks)'
    BY <1>4, <2>3, <2>4 DEF StatesPaid
  <2> QED BY <2>1, <2>5, <2>6 DEF StatesTrue
<1>7. pc # "done"
  BY DEF Over
<1> QED BY <1>1, <1>2, <1>3, <1>4, <1>5, <1>6, <1>7 DEF PayoutInv

LEMMA PayoutMeta == ASSUME PayoutInv, ReadMeta PROVE PayoutInv'
<1>1. SoundInv' /\ ChainInv
  BY SoundMeta DEF PayoutInv, SoundInv, ReaderInv
<1>2. /\ blocks' = blocks /\ owed' = owed /\ version' = version /\ pc' \in {"failed", "logs"}
      /\ meta'.liq = Tip.liq /\ meta'.owed = Plus(owed.fees, owed.principal) /\ meta'.at = Height
  BY DEF ReadMeta, chainVars
<1>3. Accounts(blocks, owed)'
  <2>1. Accounts(blocks, owed)
    BY DEF PayoutInv
  <2> QED BY <1>2, <2>1 DEF Accounts
<1>4. MetaTrue(blocks, owed)'
  <2>1. Height \in 1 .. Height /\ Height = Len(blocks) /\ Tip = blocks[Height]
    BY <1>1, TipIs DEF ChainInv, Height
  <2> QED BY <1>2, <2>1 DEF MetaTrue
<1> QED BY <1>1, <1>2, <1>3, <1>4 DEF PayoutInv

\* What reads the logs, or only begins, leaves the chain and the first read alone.
LEMMA PayoutLogs == ASSUME PayoutInv, Begin \/ ReadLogs PROVE PayoutInv'
<1>1. SoundInv'
  BY SoundBegin, SoundLogs DEF PayoutInv
<1>2. /\ blocks' = blocks /\ owed' = owed /\ version' = version /\ meta' = meta /\ pc' # "done"
      /\ pc' \in {"logs", "states", "now"} => pc = "logs"
      /\ pc' = "now" => version = "v3"
  BY DEF Begin, ReadLogs, chainVars
<1>3. Accounts(blocks, owed)'
  <2>1. Accounts(blocks, owed)
    BY DEF PayoutInv
  <2> QED BY <1>2, <2>1 DEF Accounts
<1>4. pc' \in {"logs", "states", "now"} => MetaTrue(blocks, owed)'
  BY <1>2 DEF PayoutInv, MetaTrue
<1> QED BY <1>1, <1>2, <1>3, <1>4 DEF PayoutInv

LEMMA PayoutStates == ASSUME PayoutInv, ReadStates PROVE PayoutInv'
<1>1. SoundInv' /\ ReaderInv
  BY SoundStates DEF PayoutInv, SoundInv
<1>2. /\ blocks' = blocks /\ owed' = owed /\ version' = version /\ ctx' = ctx /\ head' = head /\ raw' = raw
      /\ meta' = meta /\ pc = "states" /\ pc' = "now"
  BY DEF ReadStates, chainVars
<1>3. LogsRead(blocks) /\ version = "v4"
  BY <1>1, <1>2 DEF ReaderInv
<1>4. PICK native \in BOOLEAN, unread \in Unreadable, horizon \in {0} \cup Txs :
         \E tickGone \in {{}, {b \in Txs : b <= horizon}} :
            StatesOf(ownerFlows(native, unread), {b \in Txs : b <= horizon}, tickGone)
  BY DEF ReadStates
<1>5. PICK tickGone : StatesOf(ownerFlows(native, unread), {b \in Txs : b <= horizon}, tickGone)
  BY <1>4
<1>6. Txs' = Txs /\ Mod(blocks', head', ctx') = Mod(blocks, head, ctx)
  BY <1>2 DEF Txs
<1>7. ASSUME Faithful(blocks)' PROVE StatesPaid(blocks)'
  <2>1. ticksOk' /\ Calm(blocks, Mod(blocks, head, ctx)) /\ OneEach(blocks, Mod(blocks, head, ctx))
    BY <1>2, <1>6, <1>7 DEF Faithful
  <2>2. /\ \A b \in Txs : st'[b].fg \in {NoGrowth, (BaseGrowth + blocks[b].growth) % Wrap}
        /\ \A b \in Txs : blocks[b].delta[1] <= 0 => st'[b].tick = blocks[b].tick
    BY <1>1, <1>3, <1>5, <2>1, StatesFaithful
  <2> QED BY <1>2, <1>6, <2>2 DEF StatesPaid
<1>8. StatesTrue(blocks)'
  BY <1>7 DEF StatesTrue
<1>9. Accounts(blocks, owed)'
  <2>1. Accounts(blocks, owed)
    BY DEF PayoutInv
  <2> QED BY <1>2, <2>1 DEF Accounts
<1>10. MetaTrue(blocks, owed)'
  BY <1>2 DEF PayoutInv, MetaTrue
<1> QED BY <1>1, <1>2, <1>8, <1>9, <1>10 DEF PayoutInv

\* A report leaves what it is measured against as it is.
NowThere == Plus(amountsFromLiquidity(Tip.liq, Tip.after),
                 IF version = "v4" THEN Earned(Tip.growth, Tip.liq) ELSE Plus(owed.fees, owed.principal))

LEMMA ReportTells ==
    ASSUME NEW events, NEW feed, NEW known, Report(events, feed, known)
    PROVE  /\ result'.open = IsOpen /\ Reported' = Plus(Withdrawn(events), Fees(events))
           /\ (Reads(blocks)' <=> Reads(blocks)) /\ (ReadsAll(blocks)' <=> ReadsAll(blocks))
           /\ (Quiet(blocks, result.now)' <=> Quiet(blocks, Height))
           /\ MarkNow' = IF IsOpen THEN NowThere ELSE Zero
           /\ PaidTo(blocks)' = PaidTo(blocks) /\ feesOk' = known
<1>1. /\ blocks' = blocks /\ version' = version /\ owed' = owed /\ ctx' = ctx /\ head' = head
      /\ meta' = meta /\ feesOk' = known
  BY DEF Report, chainVars
<1>2. result'.open = IsOpen /\ result'.pnl.fees = Fees(events) /\ result'.pnl.withdrawn = Withdrawn(events)
  BY ReportSays
<1>3. result'.now = Height
  BY DEF Report
<1>4. Reported' = Plus(Withdrawn(events), Fees(events))
  BY <1>2 DEF Reported
<1>5. (Reads(blocks)' <=> Reads(blocks)) /\ (ReadsAll(blocks)' <=> ReadsAll(blocks))
  BY <1>1 DEF Reads, ReadsAll, FromMint
<1>6. Quiet(blocks, result.now)' <=> Quiet(blocks, Height)
  BY <1>1, <1>3 DEF Quiet
<1>7. MarkNow' = IF IsOpen THEN NowThere ELSE Zero
  <2>1. Tip' = Tip
    BY <1>1 DEF Tip, Height
  <2>2. \A g, L : Earned(g, L)' = Earned(g, L)
    BY <1>1 DEF Earned
  <2>3. Earned(Tip.growth, Tip.liq)' = Earned(Tip.growth, Tip.liq)
    BY <1>1, <2>1 DEF Earned
  <2> QED BY <1>1, <1>2, <2>1, <2>3 DEF MarkNow, NowThere
<1>8. PaidTo(blocks)' = PaidTo(blocks)
  BY <1>1 DEF PaidTo
<1> QED BY <1>1, <1>2, <1>4, <1>5, <1>6, <1>7, <1>8

\* What is paid out and what is there add up in the report.
LEMMA ToldPayouts ==
    ASSUME ReaderInv, pc = "now", NEW r, PaysOut(r, blocks, Mod(blocks, head, ctx)), NEW events,
           NEW cur \in Amount, NEW fees \in Amount, ~IsOpen => events = r,
           IsOpen => Fair(events) /\ Marked(r, events, cur, fees)
    PROVE  Plus(Withdrawn(events), Fees(events)) =
             Plus(PaidTo(blocks), IF IsOpen THEN Plus(cur, fees) ELSE Zero)
<1>1. ChainInv /\ head \in 1 .. Height
  BY DEF ReaderInv, LogsRead, Height
<1>2. CASE IsOpen
  BY <1>1, <1>2, PaysMarked
<1>3. CASE ~IsOpen
  <2>1. Plus(Withdrawn(events), Fees(events)) = PaidTo(blocks)
    BY <1>1, <1>3, PaysClosed
  <2>2. PaidTo(blocks) \in Amount
    <3>1. IsFiniteSet(Counting) /\ \A c \in Counting : blocks[c].paid \in Amount
      BY <1>1, CountingIs
    <3> DEFINE all == [b \in Counting |-> blocks[b].paid]
    <3>2. DOMAIN all = Counting /\ \A c \in Counting : all[c] \in Amount
      BY <3>1
    <3>3. PaidTo(blocks) = Total(all)
      BY DEF PaidTo, Counting
    <3> HIDE DEF all
    <3> QED BY <3>1, <3>2, <3>3, TotalNat
  <2>3. PaidTo(blocks) = Plus(PaidTo(blocks), Zero)
    BY <2>2 DEF Amount, Plus, Zero
  <2> QED BY <1>3, <2>1, <2>3
<1> QED BY <1>2, <1>3

LEMMA PayoutFinishV3 == ASSUME PayoutInv, FinishV3 PROVE PayoutInv'
<1> DEFINE M == Mod(blocks, head, ctx)
           cur == amountsFromLiquidity(meta.liq, Tip.after)
           events == IF IsOpen THEN raw \o Synthetic(cur, meta.owed) ELSE raw
<1>1. /\ SoundInv' /\ ReaderInv /\ ChainInv /\ pc = "now" /\ version = "v3" /\ MetaRead
      /\ MetaTrue(blocks, owed) /\ head \in 1 .. Height
  BY SoundFinishV3 DEF PayoutInv, SoundInv, ReaderInv, LogsRead, Height, FinishV3
<1>2. PICK feed : Report(events, feed, TRUE)
  BY DEF FinishV3
<1>3. blocks' = blocks /\ owed' = owed /\ version' = version /\ pc' = "done"
  BY <1>2 DEF Report, chainVars
<1>4. /\ result'.open = IsOpen /\ Reported' = Plus(Withdrawn(events), Fees(events))
      /\ (Reads(blocks)' <=> Reads(blocks)) /\ (Quiet(blocks, result.now)' <=> Quiet(blocks, Height))
      /\ MarkNow' = IF IsOpen THEN NowThere ELSE Zero
      /\ PaidTo(blocks)' = PaidTo(blocks)
  <2> HIDE DEF events
  <2> QED BY <1>2, ReportTells
<1>5. ASSUME Reads(blocks), Quiet(blocks, Height)
      PROVE  Reported' = Plus(PaidTo(blocks), MarkNow')
  <2>1. raw # <<>> /\ M \in SUBSET (1 .. Height) /\ EventsOf(blocks, raw, M) /\ Height \in Nat
    BY <1>1, TipIs DEF ReaderInv, LogsRead, Mod, Height, PayoutInv, SoundInv, InHand
  <2>2. Collected(blocks, M)
    BY <1>1, <1>5 DEF Reads
  <2> HIDE DEF M
  <2>3. PaysOut(raw, blocks, M)
    BY <1>1, <2>1, <2>2, V3PaysOut
  <2>4. cur \in Amount /\ meta.owed \in Amount
    <3>1. Tip.after \in Int
      BY <1>1, TipIs, NoTickIsNone DEF Block, PoolTicks
    <3> QED BY <1>1, <3>1, AmountsAre DEF MetaRead
  <2>5. meta.liq = Tip.liq /\ meta.owed = Plus(owed.fees, owed.principal)
    BY <1>1, <1>5, QuietIs
  <2>6. NowThere = Plus(cur, meta.owed)
    BY <1>1, <2>5 DEF NowThere
  <2> HIDE DEF cur
  <2>7. ASSUME IsOpen PROVE Fair(events) /\ Marked(raw, events, cur, meta.owed)
    <3> DEFINE E == raw \o Synthetic(cur, meta.owed)
    <3>1. Placed(raw, Height) /\ Fair(raw)
      BY <1>1, <2>1, V3Placed
    <3>2. Marked(raw, E, cur, meta.owed) /\ (Fair(raw) => Fair(E))
      BY <2>1, <2>4, <3>1, SyntheticIs
    <3>3. events = E
      BY <2>7
    <3> HIDE DEF E, events
    <3> QED BY <3>1, <3>2, <3>3
  <2>8. ~IsOpen => events = raw
    OBVIOUS
  <2> HIDE DEF events
  <2>9. Plus(Withdrawn(events), Fees(events)) =
          Plus(PaidTo(blocks), IF IsOpen THEN Plus(cur, meta.owed) ELSE Zero)
    BY <1>1, <2>3, <2>4, <2>7, <2>8, ToldPayouts DEF M
  <2> QED BY <1>4, <2>6, <2>9
<1>6. PayoutsTold(blocks)'
  BY <1>4, <1>5 DEF PayoutsTold
<1>7. Accounts(blocks, owed)'
  <2>1. Accounts(blocks, owed)
    BY DEF PayoutInv
  <2> QED BY <1>3, <2>1 DEF Accounts
<1> QED BY <1>1, <1>3, <1>6, <1>7 DEF PayoutInv

\* What the growth says of an open v4 position is what it has earned since its last change.
LEMMA AccruedNow ==
    ASSUME ReaderInv, Accounts(blocks, owed), MetaTrue(blocks, owed), pc = "now", version = "v4",
           StatesPaid(blocks), st \in [Txs -> ReadState], OneEach(blocks, Mod(blocks, head, ctx)),
           ReadsAll(blocks), Quiet(blocks, Height), IsOpen, NEW fees, Accrued(fees)
    PROVE  fees = Earned(Tip.growth, Tip.liq) /\ meta.liq = Tip.liq
<1> DEFINE M == Mod(blocks, head, ctx)
           last == raw[Len(raw)].block
<1>1. /\ ChainInv /\ RawOf(blocks, raw, M) /\ M \in SUBSET (1 .. Height) /\ head \in 1 .. Height
      /\ raw # <<>>
  BY DEF ReaderInv, LogsRead, Mod, Height
<1>2. Height \in Nat /\ Height \in 1 .. Height /\ Height = Len(blocks) /\ Tip = blocks[Height]
  <2>1. Height \in 1 .. MaxBlocks /\ Height \in Nat /\ Tip = blocks[Height]
    BY <1>1, TipIs DEF ChainInv
  <2> QED BY <2>1 DEF Height
<1>3. Len(raw) \in Nat /\ Len(raw) \in 1 .. Len(raw) /\ DOMAIN raw = 1 .. Len(raw)
  <2>1. raw \in Seq(RawEvent)
    BY <1>1 DEF RawOf
  <2> QED BY <1>1, <2>1
<1>4. /\ meta.liq = Tip.liq
      /\ \A b \in 1 .. Height : b > head => blocks[b].delta = <<>>
  BY <1>1, QuietIs
<1>5. ReadsAll(blocks) => \A b \in 1 .. head : blocks[b].delta # <<>> => b \in M
  BY DEF ReadsAll
<1>6. \A b \in M : blocks[b].delta # <<>>
  BY DEF Mod
<1>7. last \in Txs
  BY <1>3 DEF Txs
<1>8. OneEach(blocks, M)
  OBVIOUS
<1> HIDE DEF M
<1>9. last \in M /\ last \in 1 .. Height
  BY <1>1, <1>3 DEF RawOf
<1>10. ASSUME NEW c \in last + 1 .. Height PROVE blocks[c].delta = <<>>
  <2> SUFFICES ASSUME blocks[c].delta # <<>> PROVE FALSE
    OBVIOUS
  <2>1. c \in 1 .. Height /\ last < c
    BY <1>2, <1>9
  <2>2. c \in 1 .. head
    BY <1>1, <1>2, <1>4, <2>1
  <2>3. c \in M
    BY <1>5, <2>2
  <2>4. PICK i \in 1 .. Len(raw) : raw[i].block = c
    BY <1>1, <1>8, <2>3, RawRises
  <2>5. i # Len(raw)
    BY <2>1, <2>4, <1>2, <1>9
  <2>6. i < Len(raw)
    BY <1>3, <2>5
  <2>7. raw[i].block < last
    BY <1>1, <1>3, <1>8, <2>6, RawRises
  <2> QED BY <1>2, <1>9, <2>1, <2>4, <2>7
<1>11. LastChange(blocks, last, Height)
  BY <1>6, <1>9, <1>10 DEF LastChange
<1> HIDE DEF last
<1>12. owed.since = blocks[last].growth
  BY <1>2, <1>9, <1>11 DEF Accounts
<1>13. Tip.liq = blocks[last].liq
  <2>1. \A c \in 1 .. Height : last < c /\ c <= Height => blocks[c].delta = <<>>
    BY <1>2, <1>9, <1>10
  <2>2. last <= Height
    BY <1>2, <1>9
  <2> QED BY <1>1, <1>2, <1>9, <2>1, <2>2, SameLiq
<1>14. WithNow[last].fg # NoGrowth
       /\ fees = feesFromGrowth(meta.liq, FeeGrowthInside(Height), WithNow[last].fg)
  BY DEF Accrued, last
<1>15. WithNow[last].fg = FeeGrowthInside(last)
  <2>1. DOMAIN st = Txs
    OBVIOUS
  <2>2. WithNow[last] = IF last = Height
                        THEN [tick |-> Tip.after, price |-> NoTick, fg |-> FeeGrowthInside(Height)]
                        ELSE st[last]
    BY <1>7, <2>1 DEF WithNow
  <2>3. CASE last = Height
    BY <2>2, <2>3
  <2>4. CASE last # Height
    <3>1. st[last].fg \in {NoGrowth, FeeGrowthInside(last)}
      BY <1>7 DEF StatesPaid, FeeGrowthInside
    <3> QED BY <1>14, <2>2, <2>4, <3>1
  <2> QED BY <2>3, <2>4
<1>16. feesFromGrowth(blocks[last].liq, FeeGrowthInside(Height), FeeGrowthInside(last))
         = Grew(blocks, last, blocks[Height].growth)
  <2>1. last <= Height
    BY <1>2, <1>9
  <2> QED BY <1>1, <1>2, <1>9, <2>1, EarnedIs
<1>17. Grew(blocks, last, blocks[Height].growth) = Earned(Tip.growth, Tip.liq)
  BY <1>2, <1>12, <1>13 DEF Grew, Earned
<1> QED BY <1>4, <1>13, <1>14, <1>15, <1>16, <1>17

LEMMA PayoutFinishV4 == ASSUME PayoutInv, FinishV4 PROVE PayoutInv'
<1> DEFINE M == Mod(blocks, head, ctx)
           cur == amountsFromLiquidity(meta.liq, Tip.after)
<1>1. /\ SoundInv' /\ ReaderInv /\ ChainInv /\ pc = "now" /\ version = "v4" /\ MetaRead
      /\ st \in [Txs -> ReadState] /\ PaidRead(blocks) /\ StatesTrue(blocks)
      /\ MetaTrue(blocks, owed) /\ Accounts(blocks, owed)
  BY SoundFinishV4 DEF PayoutInv, SoundInv, ReaderInv, FinishV4, InHand
<1>2. PICK f, ev, events, accrued, s : V4Report(f, ev, events, accrued, s)
  BY <1>1, V4ReportIs
<1>3. PICK known : Report(events, buildV4PriceFeed(s, events[Len(events)].at), known)
  BY <1>2 DEF V4Report
<1>4. blocks' = blocks /\ owed' = owed /\ version' = version /\ pc' = "done"
  BY <1>3 DEF Report, chainVars
<1>5. /\ result'.open = IsOpen /\ Reported' = Plus(Withdrawn(events), Fees(events))
      /\ (Reads(blocks)' <=> Reads(blocks)) /\ (ReadsAll(blocks)' <=> ReadsAll(blocks))
      /\ (Quiet(blocks, result.now)' <=> Quiet(blocks, Height))
      /\ MarkNow' = IF IsOpen THEN NowThere ELSE Zero
      /\ PaidTo(blocks)' = PaidTo(blocks)
  BY <1>3, ReportTells
<1>6. /\ Decoding(f, ev) /\ Marks(f, ev, events, accrued)
      /\ feesOk' => f[Len(raw)].complete /\ (IsOpen => Accrued(accrued))
      /\ ticksOk' => ticksOk
  BY <1>2 DEF V4Report
<1>7. ASSUME ticksOk', feesOk', Reads(blocks), Quiet(blocks, Height), IsOpen => ReadsAll(blocks)
      PROVE  Reported' = Plus(PaidTo(blocks), MarkNow')
  <2>1. Calm(blocks, M) /\ OneEach(blocks, M) /\ FromMint(M)
    BY <1>1, <1>7 DEF Reads
  <2>2. StatesPaid(blocks)
    BY <1>1, <1>6, <1>7, <2>1 DEF StatesTrue, Faithful
  <2>3. f[Len(raw)].complete
    BY <1>6, <1>7
  <2>4. PaysOut(ev, blocks, M)
    BY <1>1, <1>6, <2>1, <2>2, <2>3, V4PaysOut
  <2>5. Fair(ev)
    BY <2>4 DEF PaysOut
  <2>6. CASE IsOpen
    <3>1. Accrued(accrued) /\ accrued \in Amount /\ Marked(ev, events, cur, accrued) /\ Fair(events)
      BY <1>6, <1>7, <2>5, <2>6 DEF Marks
    <3>2. accrued = Earned(Tip.growth, Tip.liq) /\ meta.liq = Tip.liq
      BY <1>1, <1>7, <2>1, <2>2, <2>6, <3>1, AccruedNow
    <3>3. cur \in Amount
      <4>1. Tip.after \in Int
        BY <1>1, TipIs, NoTickIsNone DEF Block, PoolTicks
      <4> QED BY <1>1, <4>1, AmountsAre DEF MetaRead
    <3>4. NowThere = Plus(cur, accrued)
      BY <1>1, <3>2 DEF NowThere
    <3> HIDE DEF cur
    <3>5. Plus(Withdrawn(events), Fees(events)) = Plus(PaidTo(blocks), IF IsOpen THEN Plus(cur, accrued) ELSE Zero)
      BY <1>1, <2>4, <2>6, <3>1, <3>3, ToldPayouts DEF M
    <3> QED BY <1>5, <2>6, <3>4, <3>5
  <2>7. CASE ~IsOpen
    <3>1. events = ev
      BY <1>6, <2>7 DEF Marks
    <3>2. Zero \in Amount
      BY ZeroIs
    <3>3. Plus(Withdrawn(events), Fees(events)) = Plus(PaidTo(blocks), IF IsOpen THEN Plus(Zero, Zero) ELSE Zero)
      BY <1>1, <2>4, <2>7, <3>1, <3>2, ToldPayouts DEF M
    <3> QED BY <1>5, <2>7, <3>3
  <2> QED BY <2>6, <2>7
<1>8. PayoutsTold(blocks)'
  BY <1>1, <1>4, <1>5, <1>7 DEF PayoutsTold
<1>9. Accounts(blocks, owed)'
  <2>1. Accounts(blocks, owed)
    BY DEF PayoutInv
  <2> QED BY <1>4, <2>1 DEF Accounts
<1> QED BY <1>1, <1>4, <1>8, <1>9 DEF PayoutInv

LEMMA PayoutKeeps == ASSUME PayoutInv, [Next]_vars PROVE PayoutInv'
<1>1. CASE (Over /\ UNCHANGED vars) \/ UNCHANGED vars
  <2>1. SoundInv'
    BY SoundKeeps DEF PayoutInv
  <2>2. /\ blocks' = blocks /\ owed' = owed /\ version' = version /\ pc' = pc /\ ctx' = ctx /\ head' = head
        /\ meta' = meta /\ raw' = raw /\ st' = st /\ ticksOk' = ticksOk /\ feesOk' = feesOk /\ result' = result
    BY <1>1 DEF vars, chainVars, readerVars
  <2>3. Accounts(blocks, owed)' /\ (MetaTrue(blocks, owed)' <=> MetaTrue(blocks, owed))
    BY <2>2 DEF PayoutInv, Accounts, LastChange, Grew, MetaTrue
  <2>4. StatesTrue(blocks)' <=> StatesTrue(blocks)
    BY <2>2 DEF StatesTrue, Faithful, StatesPaid, Txs
  <2>5. /\ (Reads(blocks)' <=> Reads(blocks)) /\ (ReadsAll(blocks)' <=> ReadsAll(blocks))
        /\ (Quiet(blocks, result.now)' <=> Quiet(blocks, result.now))
    BY <2>2 DEF Reads, ReadsAll, FromMint, Quiet
  <2>6. Reported' = Reported /\ PaidTo(blocks)' = PaidTo(blocks)
    BY <2>2 DEF Reported, PaidTo
  <2>7. MarkNow' = MarkNow
    BY <2>2 DEF MarkNow, Earned, Tip, Height
  <2>8. PayoutsTold(blocks)' <=> PayoutsTold(blocks)
    BY <2>2, <2>5, <2>6, <2>7 DEF PayoutsTold
  <2> QED BY <2>1, <2>2, <2>3, <2>4, <2>8 DEF PayoutInv
<1>2. CASE ~Over /\ Mine /\ UNCHANGED readerVars
  BY <1>2, PayoutGoesOn
<1>3. CASE Read
  BY <1>3, PayoutMeta, PayoutLogs, PayoutStates, PayoutFinishV3, PayoutFinishV4 DEF Read
<1> QED BY <1>1, <1>2, <1>3 DEF Next

(* The chain's accounts balance at every block, the first read of the      *)
(* position holds while nothing changes it, and the states of an unflagged *)
(* reading tell what the chain did.                                        *)
THEOREM PayoutsAlways == Spec => []PayoutInv
<1>1. Init => PayoutInv
  BY PayoutStarts
<1>2. PayoutInv /\ [Next]_vars => PayoutInv'
  BY PayoutKeeps
<1> QED BY <1>1, <1>2, PTL DEF Spec

(* Withdrawals and fees together are what was paid out and what is still   *)
(* in the position, to the token, whenever the reading says that nothing   *)
(* is missing: whatever the node had pruned (buildV4Events, growth modulo  *)
(* the wrap), and whatever the pool did while it was read.                 *)
THEOREM PayoutsAreExact == Spec => []PayoutsExact
<1>1. PayoutInv => PayoutsExact
  <2> SUFFICES ASSUME PayoutInv, Done, ticksOk, feesOk, NoLateTrade, Untouched,
                      version = "v3" => CollectedAtOnce,
                      version = "v4" => OneChangeEach /\ MineFromMint /\ (result.open => OnlyMine)
               PROVE  Reported = Plus(PaidOut, MarkNow)
    BY DEF PayoutsExact
  <2> DEFINE M == Mod(blocks, head, ctx)
  <2>1. /\ Changed = M /\ Counted = {c \in 1 .. head : Counts(blocks, head, ctx, c)}
        /\ ChainInv /\ head \in 1 .. Height
    BY ChangedIs DEF PayoutInv, SoundInv, ReaderInv, LogsRead, Height, Done
  <2>2. Calm(blocks, M)
    BY <2>1 DEF Calm, NoLateTrade
  <2>3. version = "v3" => Collected(blocks, M)
    BY <2>1 DEF Collected, CollectedAtOnce
  <2>4. \A b : b \in Counted /\ blocks[b].delta # <<>> => b \in M
    BY <2>1 DEF Mod
  <2>5. version = "v4" => OneEach(blocks, M) /\ FromMint(M)
    <3> HIDE DEF M
    <3> SUFFICES ASSUME version = "v4" PROVE OneEach(blocks, M) /\ FromMint(M)
      OBVIOUS
    <3>1. OneEach(blocks, M)
      BY <2>1 DEF OneEach, OneChangeEach
    <3>2. FromMint(M)
      BY <2>1, <2>4 DEF FromMint, MineFromMint
    <3> QED BY <3>1, <3>2
  <2>6. version = "v4" /\ result.open => ReadsAll(blocks)
    BY <2>4 DEF ReadsAll, OnlyMine
  <2>7. Quiet(blocks, result.now)
    BY DEF Quiet, Untouched
  <2>8. Reads(blocks)
    BY <2>2, <2>3, <2>5 DEF Reads
  <2>9. Reported = Plus(PaidTo(blocks), MarkNow)
    BY <2>6, <2>7, <2>8 DEF PayoutInv, PayoutsTold, Done
  <2> QED BY <2>1, <2>9 DEF PaidOut, PaidTo
<1> QED BY <1>1, PayoutsAlways, PTL

-----------------------------------------------------------------------------
(* What amounts are worth at one price *)

\* The worth of a sum is the sum of what its terms are worth.
LEMMA WorthAdds ==
    ASSUME NEW f, Amounts(f), NEW p \in Int \X Int, NEW g,
           DOMAIN g = DOMAIN f, \A x \in DOMAIN f : g[x] = Worth(f[x], p)
    PROVE  SumFunction(g) = Worth(Total(f), p) /\ SumFunction(g) \in Int
<1> DEFINE S == DOMAIN f
           a == p[1]
           b == p[2]
           u == [x \in S |-> First(f)[x] * a]
           v == [x \in S |-> Second(f)[x] * b]
<1>1. /\ \A x \in S : /\ First(f)[x] = f[x][1] /\ Second(f)[x] = f[x][2]
                      /\ First(f)[x] \in Int /\ Second(f)[x] \in Int
      /\ Total(f)[1] = SumFunctionOnSet(First(f), S) /\ Total(f)[2] = SumFunctionOnSet(Second(f), S)
      /\ IsFiniteSet(S)
  BY Components
<1>2. a \in Int /\ b \in Int
  OBVIOUS
<1>3. \A x \in S : u[x] = First(f)[x] * a /\ v[x] = Second(f)[x] * b
  OBVIOUS
<1>4. \A x \in S : g[x] = First(f)[x] * a + Second(f)[x] * b
  BY <1>1 DEF Worth
<1> HIDE DEF S, a, b, u, v
<1>5. \A m \in Int, n \in Int : m * n \in Int
  OBVIOUS
<1>6. \A x \in S : u[x] \in Int /\ v[x] \in Int /\ g[x] = u[x] + v[x]
  BY <1>1, <1>2, <1>3, <1>4, <1>5
<1>7. SumFunctionOnSet(g, S) = SumFunctionOnSet(u, S) + SumFunctionOnSet(v, S)
  BY <1>1, <1>6, SumPlus
<1>8. SumFunctionOnSet(u, S) = SumFunctionOnSet(First(f), S) * a
  BY <1>1, <1>2, <1>3, SumTimes
<1>9. SumFunctionOnSet(v, S) = SumFunctionOnSet(Second(f), S) * b
  BY <1>1, <1>2, <1>3, SumTimes
<1>10. SumFunctionOnSet(g, S) \in Int
  <2>1. \A x \in S : g[x] \in Int
    BY <1>6
  <2> QED BY <1>1, <2>1, SumInt
<1>11. SumFunction(g) = SumFunctionOnSet(g, S)
  BY DEF SumFunction, S
<1> QED BY <1>1, <1>7, <1>8, <1>9, <1>10, <1>11 DEF Worth, a, b

\* A price has two whole numbers.
LEMMA PointIs ==
    ASSUME NEW t \in PoolTicks, NEW anchor PROVE numerairePricePoint(t, anchor) \in Int \X Int
<1>1. t \in Nat /\ MaxTick \in Nat /\ t <= MaxTick
  BY TicksOrdered DEF PoolTicks
<1>2. 2 ^ MaxTick \in Int /\ 2 ^ t \in Int /\ 2 ^ (MaxTick - t) \in Int
  BY <1>1
<1>3. 2 ^ MaxTick * 2 ^ t \in Int
  <2>1. \A m \in Int, n \in Int : m * n \in Int
    OBVIOUS
  <2> QED BY <1>2, <2>1
<1> QED BY <1>2, <1>3 DEF numerairePricePoint, SCALE

\* Where every flow is priced alike and as much comes out as went in, only fees are gained.
LEMMA FlatUsd ==
    ASSUME NEW events, Fair(events), events # <<>>, NEW t \in PoolTicks, NEW anchor,
           NEW feed, \A i \in 1 .. Len(events) : feed[events[i].at] = t,
           Withdrawn(events) = Deposited(events)
    PROVE  LET pnl == computePnL(events, feed, anchor) IN
           /\ pnl.pricePnlUsd + pnl.ilUsd = 0
           /\ pnl.netPnlUsd = Worth(Fees(events), numerairePricePoint(t, anchor))
<1> DEFINE p == numerairePricePoint(t, anchor)
           price(at) == numerairePricePoint(feed[at], anchor)
           dep == [i \in deposits(events) |-> events[i].amt]
           out == [i \in withdrawals(events) |-> events[i].amt]
           fees == [i \in feeClaims(events) |-> FeeOf(events, i)]
           depUsd == [i \in deposits(events) |-> Worth(events[i].amt, price(events[i].at))]
           outUsd == [i \in withdrawals(events) |-> Worth(events[i].amt, price(events[i].at))]
           feesUsd == [i \in feeClaims(events) |-> Worth(FeeOf(events, i), price(events[i].at))]
           hodl == Worth(Total(dep), price(events[Len(events)].at))
<1>1. p \in Int \X Int
  BY PointIs
<1>2. /\ \A kind : OfKind(events, kind) \subseteq 1 .. Len(events) /\ IsFiniteSet(OfKind(events, kind))
      /\ \A kind : \A i \in OfKind(events, kind) : events[i].amt \in Amount
      /\ Len(events) \in Nat
  BY KindIs
<1>3. \A i \in 1 .. Len(events) : price(events[i].at) = p
  OBVIOUS
<1>4. Len(events) \in 1 .. Len(events)
  <2>1. events \in Seq(AnyEvent)
    BY DEF Fair
  <2> QED BY <2>1
<1>5. /\ feeClaims(events) \subseteq OfKind(events, "collect")
      /\ \A i \in feeClaims(events) : FeeOf(events, i) \in Amount
  <2>1. feeClaims(events) \subseteq OfKind(events, "collect")
    BY DEF feeClaims
  <2>2. \A i \in OfKind(events, "collect") : FeeOf(events, i) \in Amount
    BY TakenIs
  <2> QED BY <2>1, <2>2
<1>6. Amounts(dep) /\ Amounts(out) /\ Amounts(fees)
  <2>1. Amounts(dep)
    BY <1>2 DEF Amounts, deposits
  <2>2. Amounts(out)
    BY <1>2 DEF Amounts, withdrawals
  <2>3. IsFiniteSet(feeClaims(events))
    BY <1>2, <1>5, FS_Subset
  <2>4. Amounts(fees)
    BY <1>5, <2>3 DEF Amounts
  <2> QED BY <2>1, <2>2, <2>4
<1>7. SumFunction(depUsd) = Worth(Total(dep), p) /\ SumFunction(depUsd) \in Int
  <2>1. DOMAIN depUsd = DOMAIN dep /\ \A i \in DOMAIN dep : depUsd[i] = Worth(dep[i], p)
    BY <1>2, <1>3 DEF deposits
  <2> HIDE DEF dep, depUsd, p
  <2> QED BY <1>1, <1>6, <2>1, WorthAdds
<1>8. SumFunction(outUsd) = Worth(Total(out), p) /\ SumFunction(outUsd) \in Int
  <2>1. DOMAIN outUsd = DOMAIN out /\ \A i \in DOMAIN out : outUsd[i] = Worth(out[i], p)
    BY <1>2, <1>3 DEF withdrawals
  <2> HIDE DEF out, outUsd, p
  <2> QED BY <1>1, <1>6, <2>1, WorthAdds
<1>9. SumFunction(feesUsd) = Worth(Total(fees), p) /\ SumFunction(feesUsd) \in Int
  <2>1. DOMAIN feesUsd = DOMAIN fees /\ \A i \in DOMAIN fees : feesUsd[i] = Worth(fees[i], p)
    BY <1>2, <1>3, <1>5
  <2> HIDE DEF fees, feesUsd, p
  <2> QED BY <1>1, <1>6, <2>1, WorthAdds
<1>10. hodl = Worth(Total(dep), p)
  BY <1>3, <1>4
<1>11. Total(out) = Total(dep) /\ Total(fees) = Fees(events)
  BY DEF Withdrawn, Deposited, Fees
<1> DEFINE pnl == computePnL(events, feed, anchor)
<1>12. /\ pnl.pricePnlUsd = hodl - SumFunction(depUsd)
       /\ pnl.ilUsd = SumFunction(outUsd) - hodl
       /\ pnl.netPnlUsd = SumFunction(outUsd) + SumFunction(feesUsd) - SumFunction(depUsd)
  BY DEF computePnL
<1> HIDE DEF p, dep, out, fees, depUsd, outUsd, feesUsd, hodl, pnl
<1>13. pnl.pricePnlUsd + pnl.ilUsd = 0
  <2>1. hodl \in Int
    BY <1>7, <1>10
  <2> QED BY <1>7, <1>8, <1>11, <1>12, <2>1
<1>14. pnl.netPnlUsd = Worth(Fees(events), p)
  BY <1>7, <1>8, <1>9, <1>11, <1>12
<1> QED BY <1>13, <1>14 DEF p, pnl

-----------------------------------------------------------------------------
(* What the events take out *)

\* The events of the blocks S take out what the blocks did.
TakenBy(x) == TakenOut(x.delta, x.tick)
Decreases(x) == \E i \in DOMAIN x.delta : x.delta[i] < 0
TakesOut(ev, bl, S) ==
    /\ ev \in Seq(AnyEvent)
    /\ \A i \in 1 .. Len(ev) : ev[i].kind = "decrease" => ev[i].tx \in S /\ ev[i].amt = TakenBy(bl[ev[i].tx])
    /\ \A b \in S : Decreases(bl[b]) => \E i \in 1 .. Len(ev) : ev[i].kind = "decrease" /\ ev[i].tx = b

\* What a block takes out, which is nothing when no change of it does.
LEMMA TakenByIs ==
    ASSUME ChainInv, NEW b \in 1 .. Height
    PROVE  /\ TakenBy(blocks[b]) \in Amount
           /\ ~Decreases(blocks[b]) => TakenBy(blocks[b]) = Zero
<1> DEFINE delta == blocks[b].delta
           t == blocks[b].tick
           part(i) == amountsFromLiquidity(-delta[i], t)
           f == [i \in {i \in DOMAIN delta : delta[i] < 0} |-> part(i)]
<1>1. delta \in Seq(Int) /\ t \in Int
  <2>1. blocks[b] \in Block
    BY BlockIs
  <2>2. t \in PoolTicks /\ delta \in Seq(Int)
    BY <2>1 DEF Block, PoolTicks
  <2>3. \A x \in PoolTicks : x \in Int
    BY NoTickIsNone
  <2> HIDE DEF t, delta
  <2> QED BY <2>2, <2>3
<1>2. TakenOut(delta, t) \in Amount
  BY <1>1, TakenOutIs
<1>3. TakenOut(delta, t) = Total(f)
  BY DEF TakenOut
<1>4. ~Decreases(blocks[b]) => DOMAIN f = {}
  BY DEF Decreases
<1> HIDE DEF f
<1> QED BY <1>2, <1>3, <1>4, TotalNone DEF TakenBy

\* What such events of the whole chain withdraw, and those of an open position.
AllTaken == Total([b \in 1 .. Height |-> TakenBy(blocks[b])])

LEMMA WithdrawnIs ==
    ASSUME ChainInv, NEW S \in SUBSET (1 .. Height), \A b \in 1 .. Height : blocks[b].delta # <<>> => b \in S,
           NEW ev, TakesOut(ev, blocks, S)
    PROVE  Withdrawn(ev) = AllTaken /\ AllTaken \in Amount
<1> DEFINE due == [b \in 1 .. Height |-> TakenBy(blocks[b])]
<1>1. Height \in Nat
  BY TipIs
<1>2. Amounts(due)
  <2>1. IsFiniteSet(1 .. Height)
    BY <1>1, FS_Interval
  <2> QED BY <2>1, TakenByIs DEF Amounts
<1>3. \A b \in 1 .. Height : ~Decreases(blocks[b]) => TakenBy(blocks[b]) = Zero
  BY TakenByIs
<1>4. \A b \in 1 .. Height : Decreases(blocks[b]) => blocks[b].delta # <<>>
  <2>1. \A x : x = <<>> => DOMAIN x = {}
    OBVIOUS
  <2> QED BY <2>1 DEF Decreases
<1>5. \A b \in DOMAIN due : due[b] = Zero \/ \E i \in 1 .. Len(ev) : ev[i].kind = "decrease" /\ ev[i].tx = b
  BY <1>3, <1>4 DEF TakesOut
<1>6. \A i \in 1 .. Len(ev) : ev[i].kind = "decrease" => ev[i].tx \in DOMAIN due /\ ev[i].amt = due[ev[i].tx]
  BY DEF TakesOut
<1>7. ev \in Seq(AnyEvent) /\ Total(due) = AllTaken
  BY DEF TakesOut, AllTaken
<1>8. Total(due) \in Amount
  BY <1>2, TotalNat DEF Amounts
<1> HIDE DEF due
<1> QED BY <1>2, <1>5, <1>6, <1>7, <1>8, KindTotal DEF Withdrawn, withdrawals

LEMMA WithdrawnMarked ==
    ASSUME ChainInv, NEW S \in SUBSET (1 .. Height), \A b \in 1 .. Height : blocks[b].delta # <<>> => b \in S,
           NEW ev, TakesOut(ev, blocks, S), NEW E \in Seq(AnyEvent), NEW cur \in Amount, NEW fees,
           Marked(ev, E, cur, fees)
    PROVE  Withdrawn(E) = Plus(AllTaken, cur)
<1> DEFINE due == [b \in 1 .. Height |-> TakenBy(blocks[b])]
           D == 1 .. Height \cup {Open}
           all == [b \in D |-> IF b = Open THEN cur ELSE TakenBy(blocks[b])]
           n == Len(ev)
<1>1. Height \in Nat /\ Open \notin 1 .. Height
  BY TipIs DEF Open
<1>2. Amounts(due)
  <2>1. IsFiniteSet(1 .. Height)
    BY <1>1, FS_Interval
  <2> QED BY <2>1, TakenByIs DEF Amounts
<1>3. Amounts(all) /\ Total(all) = Plus(Total(due), cur)
  <2>1. /\ DOMAIN all = DOMAIN due \cup {Open} /\ all[Open] = cur /\ Open \notin DOMAIN due
        /\ \A b \in DOMAIN due : all[b] = due[b]
    BY <1>1
  <2> HIDE DEF due, all
  <2> QED BY <1>2, <2>1, TotalMore
<1>4. /\ Len(E) = n + 2 /\ \A i \in 1 .. n : E[i] = ev[i]
      /\ E[n + 1].kind = "decrease" /\ E[n + 1].tx = Open /\ E[n + 1].amt = cur
      /\ E[n + 2].kind = "collect"
  BY DEF Marked
<1>5. n \in Nat
  BY DEF TakesOut
<1> HIDE DEF n
<1>6. \A i \in 1 .. Len(E) : i \in 1 .. n \/ i = n + 1 \/ i = n + 2
  BY <1>4, <1>5
<1>7. n + 1 \in 1 .. Len(E) /\ \A i \in 1 .. n : i \in 1 .. Len(E)
  BY <1>4, <1>5
<1>8. ASSUME NEW i \in 1 .. Len(E), E[i].kind = "decrease"
      PROVE  E[i].tx \in D /\ E[i].amt = all[E[i].tx]
  <2>1. CASE i \in 1 .. n
    <3>1. ev[i].tx \in S /\ ev[i].amt = TakenBy(blocks[ev[i].tx])
      BY <1>4, <1>8, <2>1 DEF TakesOut, n
    <3>2. ev[i].tx \in 1 .. Height /\ ev[i].tx # Open
      BY <1>1, <3>1
    <3> QED BY <1>4, <2>1, <3>1, <3>2
  <2>2. CASE i = n + 1
    BY <1>4, <2>2
  <2>3. i # n + 2
    BY <1>4, <1>8
  <2> QED BY <1>6, <2>1, <2>2, <2>3
<1>9. ASSUME NEW b \in D, all[b] # Zero PROVE \E i \in 1 .. Len(E) : E[i].kind = "decrease" /\ E[i].tx = b
  <2>1. CASE b = Open
    BY <1>4, <1>7, <2>1
  <2>2. CASE b # Open
    <3>1. b \in 1 .. Height /\ TakenBy(blocks[b]) # Zero
      BY <1>9, <2>2
    <3>2. Decreases(blocks[b])
      BY <3>1, TakenByIs
    <3>3. blocks[b].delta # <<>>
      <4>1. \A x : x = <<>> => DOMAIN x = {}
        OBVIOUS
      <4> QED BY <3>2, <4>1 DEF Decreases
    <3>4. PICK i \in 1 .. n : ev[i].kind = "decrease" /\ ev[i].tx = b
      BY <3>1, <3>2, <3>3 DEF TakesOut, n
    <3> QED BY <1>4, <1>7, <3>4
  <2> QED BY <2>1, <2>2
<1>10. DOMAIN all = D /\ Total(due) = AllTaken
  BY DEF AllTaken
<1> HIDE DEF all, due, D
<1>11. \A i \in 1 .. Len(E) : E[i].kind = "decrease" => E[i].tx \in DOMAIN all /\ E[i].amt = all[E[i].tx]
  BY <1>8, <1>10
<1>12. \A b \in DOMAIN all : all[b] = Zero \/ \E i \in 1 .. Len(E) : E[i].kind = "decrease" /\ E[i].tx = b
  BY <1>9, <1>10
<1> QED BY <1>3, <1>10, <1>11, <1>12, KindTotal DEF Withdrawn, withdrawals

-----------------------------------------------------------------------------
(* What goes in and comes out at one tick *)

\* A sequence of one change.
LEMMA OnlyChange ==
    ASSUME NEW s \in Seq(Int), Len(s) = 1
    PROVE  \E d \in Int : s = <<d>> /\ DOMAIN s = {1} /\ s[1] = d
<1>1. DOMAIN s = 1 .. Len(s) /\ DOMAIN s = {1}
  OBVIOUS
<1>2. s = <<s[1]>> /\ s[1] \in Int
  BY <1>1
<1> QED BY <1>1, <1>2

\* What one change puts in or takes out is what the liquidity changes by.
PutInBy(d, t) == IF d > 0 THEN amountsFromLiquidity(d, t) ELSE Zero
TakenOutBy(d, t) == IF d < 0 THEN amountsFromLiquidity(-d, t) ELSE Zero

LEMMA ChangeBalance ==
    ASSUME NEW L \in Int, NEW d \in Int, NEW t \in Int
    PROVE  Plus(amountsFromLiquidity(L, t), PutInBy(d, t)) = Plus(TakenOutBy(d, t), amountsFromLiquidity(L + d, t))
<1> DEFINE u == TickUpper - Clamp(t)
           v == Clamp(t) - TickLower
           put == PutInBy(d, t)
           out == TakenOutBy(d, t)
<1>1. u \in Int /\ v \in Int
  <2>1. Clamp(t) \in TickLower .. TickUpper /\ TickLower \in Int /\ TickUpper \in Int
    BY ClampIn, TicksOrdered
  <2> QED BY <2>1
<1>2. \A x : amountsFromLiquidity(x, t) = <<x * u, x * v>>
  BY DEF amountsFromLiquidity
<1> HIDE DEF u, v
<1>3. \A k \in Int : (L + d) * k = L * k + d * k /\ (-d) * k = -(d * k) /\ L * k \in Int /\ d * k \in Int
  OBVIOUS
<1>4. Plus(amountsFromLiquidity(L, t), put) = <<L * u + put[1], L * v + put[2]>>
  BY <1>2 DEF Plus
<1>5. Plus(out, amountsFromLiquidity(L + d, t)) = <<out[1] + (L + d) * u, out[2] + (L + d) * v>>
  BY <1>2 DEF Plus
<1> USE DEF PutInBy, TakenOutBy
<1>6. /\ put[1] = IF d > 0 THEN d * u ELSE 0
      /\ put[2] = IF d > 0 THEN d * v ELSE 0
  BY <1>2 DEF Zero
<1>7. /\ out[1] = IF d < 0 THEN (-d) * u ELSE 0
      /\ out[2] = IF d < 0 THEN (-d) * v ELSE 0
  BY <1>2 DEF Zero
<1>8. \A k \in Int : L * k + (IF d > 0 THEN d * k ELSE 0) = (IF d < 0 THEN (-d) * k ELSE 0) + (L + d) * k
  <2> SUFFICES ASSUME NEW k \in Int
               PROVE  L * k + (IF d > 0 THEN d * k ELSE 0) = (IF d < 0 THEN (-d) * k ELSE 0) + (L + d) * k
    OBVIOUS
  <2>1. d = 0 => d * k = 0
    OBVIOUS
  <2> QED BY <1>3, <2>1
<1> QED BY <1>1, <1>4, <1>5, <1>6, <1>7, <1>8

\* What a block puts in and takes out is what its liquidity changes by.
LEMMA BlockBalance ==
    ASSUME ChainInv, Spending(blocks), NEW b \in 1 .. Height, NEW t \in Int, blocks[b].tick = t,
           blocks[b].delta # <<>> => Len(blocks[b].delta) = 1,
           NEW L \in Nat, blocks[b].liq = L + Net(blocks[b].delta)
    PROVE  Plus(amountsFromLiquidity(L, t), blocks[b].spent)
             = Plus(TakenBy(blocks[b]), amountsFromLiquidity(blocks[b].liq, t))
<1> DEFINE x == blocks[b]
           A(n) == amountsFromLiquidity(n, t)
<1>1. x \in Block /\ Honest(x, version) /\ x.spent = PutIn(x.delta, t)
  BY BlockIs DEF Spending, Height
<1>2. x.delta \in Seq(Int) /\ x.liq \in Nat
  BY <1>1 DEF Block
<1> HIDE DEF x
<1>3. TakenBy(x) = TakenOut(x.delta, t) /\ x.liq = L + Net(x.delta)
  BY DEF TakenBy, x
<1>4. \A n \in Int : A(n) \in Int \X Int
  <2> SUFFICES ASSUME NEW n \in Int PROVE A(n) \in Int \X Int
    OBVIOUS
  <2>1. Clamp(t) \in Int /\ TickUpper \in Int /\ TickLower \in Int
    BY ClampIn, TicksOrdered
  <2>2. \A m \in Int, k \in Int : m * k \in Int
    OBVIOUS
  <2>3. TickUpper - Clamp(t) \in Int /\ Clamp(t) - TickLower \in Int
    BY <2>1
  <2> QED BY <2>2, <2>3 DEF amountsFromLiquidity
<1> HIDE DEF A
<1>5. \A p \in Int \X Int : Plus(p, Zero) = p /\ Plus(Zero, p) = p
  BY DEF Plus, Zero
<1>6. ASSUME x.delta = <<>> PROVE Plus(A(L), x.spent) = Plus(TakenBy(x), A(x.liq))
  <2>1. Net(x.delta) = 0
    BY <1>2, <1>6, NetIs
  <2>2. x.spent = Zero
    BY <1>1, <1>6 DEF Honest
  <2>3. x.liq = L
    BY <1>3, <2>1
  <2>4. TakenBy(x) = Zero
    <3>1. ~Decreases(x)
      <4>1. DOMAIN x.delta = {}
        BY <1>6
      <4> QED BY <4>1 DEF Decreases
    <3> QED BY <3>1, TakenByIs DEF x
  <2>5. A(L) \in Int \X Int
    BY <1>4
  <2> QED BY <1>5, <2>2, <2>3, <2>4, <2>5
<1>7. ASSUME x.delta # <<>> PROVE Plus(A(L), x.spent) = Plus(TakenBy(x), A(x.liq))
  <2>1. Len(x.delta) = 1
    BY <1>7 DEF x
  <2>2. PICK d \in Int : x.delta = <<d>> /\ DOMAIN x.delta = {1} /\ x.delta[1] = d
    BY <1>2, <2>1, OnlyChange
  <2>3. x.liq = L + d
    <3>1. Net(x.delta) = d
      BY <1>2, <2>2, NetIs
    <3> QED BY <1>3, <3>1
  <2>4. TakenBy(x) = TakenOutBy(d, t)
    BY <1>3, <2>2, TakenOne DEF TakenOutBy
  <2>5. x.spent = PutInBy(d, t)
    <3>1. CASE d > 0
      <4>1. 1 \in DOMAIN x.delta /\ \A i \in DOMAIN x.delta : x.delta[i] > 0 => i = 1
        BY <2>2
      <4> QED BY <1>1, <1>2, <2>2, <3>1, <4>1, PutInOne DEF PutInBy
    <3>2. CASE ~(d > 0)
      BY <1>1, <2>2, <3>2 DEF Honest, PutInBy
    <3> QED BY <3>1, <3>2
  <2> QED BY <2>3, <2>4, <2>5, ChangeBalance DEF A
<1> QED BY <1>6, <1>7 DEF x, A

\* Of a chain whose pool stands still, what was put in was taken out or is still there.
AllSpent == Total([b \in 1 .. Height |-> blocks[b].spent])

LEMMA PlusSwap ==
    ASSUME NEW p \in Amount, NEW q \in Amount, NEW r \in Amount, NEW x \in Amount, NEW y \in Amount,
           Plus(q, x) = Plus(y, r)
    PROVE  Plus(Plus(p, q), x) = Plus(Plus(p, y), r)
<1>1. /\ p[1] \in Nat /\ q[1] \in Nat /\ r[1] \in Nat /\ x[1] \in Nat /\ y[1] \in Nat
      /\ p[2] \in Nat /\ q[2] \in Nat /\ r[2] \in Nat /\ x[2] \in Nat /\ y[2] \in Nat
  BY DEF Amount
<1>2. q[1] + x[1] = y[1] + r[1] /\ q[2] + x[2] = y[2] + r[2]
  BY DEF Plus
<1>3. (p[1] + q[1]) + x[1] = (p[1] + y[1]) + r[1] /\ (p[2] + q[2]) + x[2] = (p[2] + y[2]) + r[2]
  BY <1>1, <1>2
<1> QED BY <1>3 DEF Plus

LEMMA FlatBalance ==
    ASSUME ChainInv, Spending(blocks), NEW t \in Int, \A b \in 1 .. Height : blocks[b].tick = t,
           \A b \in 1 .. Height : blocks[b].delta # <<>> => Len(blocks[b].delta) = 1
    PROVE  AllSpent = Plus(AllTaken, amountsFromLiquidity(Tip.liq, t))
<1> DEFINE spent(n) == [b \in 1 .. n |-> blocks[b].spent]
           taken(n) == [b \in 1 .. n |-> TakenBy(blocks[b])]
           liq(n) == IF n = 0 THEN 0 ELSE blocks[n].liq
           A(n) == amountsFromLiquidity(liq(n), t)
           P == {n \in 0 .. Height : /\ Amounts(spent(n)) /\ Amounts(taken(n))
                                     /\ Total(spent(n)) = Plus(Total(taken(n)), A(n))}
<1>1. Height \in Nat /\ Height >= 1 /\ Tip = blocks[Height]
  BY TipIs DEF ChainInv
<1>2. \A b \in 1 .. Height : blocks[b].spent \in Amount /\ TakenBy(blocks[b]) \in Amount /\ blocks[b].liq \in Nat
  <2> SUFFICES ASSUME NEW b \in 1 .. Height
               PROVE  blocks[b].spent \in Amount /\ TakenBy(blocks[b]) \in Amount /\ blocks[b].liq \in Nat
    OBVIOUS
  <2>1. blocks[b] \in Block
    BY BlockIs
  <2> QED BY <2>1, TakenByIs DEF Block
<1>3. \A n \in 0 .. Height : liq(n) \in Nat
  BY <1>1, <1>2
<1>4. 0 \in P
  <2>1. DOMAIN spent(0) = {} /\ DOMAIN taken(0) = {}
    OBVIOUS
  <2>2. Amounts(spent(0)) /\ Amounts(taken(0))
    BY <2>1, FS_EmptySet DEF Amounts
  <2>3. Total(spent(0)) = Zero /\ Total(taken(0)) = Zero
    <3> HIDE DEF spent, taken
    <3> QED BY <2>1, TotalNone
  <2>4. A(0) = Zero
    <3>1. Clamp(t) \in Int /\ TickUpper \in Int /\ TickLower \in Int
      BY ClampIn, TicksOrdered
    <3> QED BY <3>1 DEF amountsFromLiquidity, Zero
  <2>5. Plus(Zero, Zero) = Zero
    BY DEF Plus, Zero
  <2> HIDE DEF spent, taken, A
  <2> QED BY <1>1, <2>2, <2>3, <2>4, <2>5
<1>5. ASSUME NEW n \in 0 .. Height - 1, n \in P PROVE n + 1 \in P
  <2> DEFINE b == n + 1
  <2>1. b \in 1 .. Height /\ b \in 0 .. Height /\ n \in 0 .. Height /\ n \in Nat
    BY <1>1
  <2>2. blocks[b].liq = liq(n) + Net(blocks[b].delta)
    <3>1. CASE n = 0
      <4>1. Mints(blocks[1])
        BY DEF ChainInv
      <4>2. <<Opening>> \in Seq(Int) /\ Opening \in Int
        BY ChainAssumption
      <4>3. Net(<<Opening>>) = Opening
        BY <4>2, NetIs
      <4> QED BY <3>1, <4>1, <4>2, <4>3 DEF Mints
    <3>2. CASE n # 0
      <4>1. b # 1 /\ b - 1 = n
        BY <2>1, <3>2
      <4>2. Follows(blocks[b], blocks[n])
        BY <2>1, <4>1, BlockIs
      <4> QED BY <3>2, <4>2 DEF Follows
    <3> QED BY <3>1, <3>2
  <2>3. liq(n) \in Nat /\ liq(b) = blocks[b].liq
    BY <1>3, <2>1
  <2>4. Plus(A(n), blocks[b].spent) = Plus(TakenBy(blocks[b]), A(b))
    <3>1. blocks[b].tick = t /\ (blocks[b].delta # <<>> => Len(blocks[b].delta) = 1)
      BY <2>1
    <3> HIDE DEF liq, b
    <3> QED BY <2>1, <2>2, <2>3, <3>1, BlockBalance
  <2>5. /\ DOMAIN spent(b) = DOMAIN spent(n) \cup {b} /\ b \notin DOMAIN spent(n)
        /\ DOMAIN taken(b) = DOMAIN taken(n) \cup {b} /\ b \notin DOMAIN taken(n)
        /\ spent(b)[b] = blocks[b].spent /\ taken(b)[b] = TakenBy(blocks[b])
        /\ (\A c \in DOMAIN spent(n) : spent(b)[c] = spent(n)[c])
        /\ (\A c \in DOMAIN taken(n) : taken(b)[c] = taken(n)[c])
    BY <2>1
  <2>6. /\ Amounts(spent(n)) /\ Amounts(taken(n)) /\ Total(spent(n)) = Plus(Total(taken(n)), A(n))
    BY <1>5
  <2>7. blocks[b].spent \in Amount /\ TakenBy(blocks[b]) \in Amount
    BY <1>2, <2>1
  <2>8. A(n) \in Amount /\ A(b) \in Amount
    BY <1>3, <2>1, AmountsAre
  <2>9. Total(taken(n)) \in Amount
    BY <2>6, TotalNat DEF Amounts
  <2> HIDE DEF spent, taken, A, b
  <2>10. Amounts(spent(b)) /\ Total(spent(b)) = Plus(Total(spent(n)), blocks[b].spent)
    <3> DEFINE F == spent(n)
               G == spent(b)
    <3>1. /\ Amounts(F) /\ b \notin DOMAIN F /\ blocks[b].spent \in Amount
          /\ DOMAIN G = DOMAIN F \cup {b} /\ G[b] = blocks[b].spent /\ \A c \in DOMAIN F : G[c] = F[c]
      BY <2>5, <2>6, <2>7
    <3> HIDE DEF F, G
    <3>2. Amounts(G) /\ Total(G) = Plus(Total(F), blocks[b].spent)
      BY <3>1, TotalMore
    <3> QED BY <3>2 DEF F, G
  <2>11. Amounts(taken(b)) /\ Total(taken(b)) = Plus(Total(taken(n)), TakenBy(blocks[b]))
    <3> DEFINE F == taken(n)
               G == taken(b)
               v == TakenBy(blocks[b])
    <3>1. /\ Amounts(F) /\ b \notin DOMAIN F /\ v \in Amount
          /\ DOMAIN G = DOMAIN F \cup {b} /\ G[b] = v /\ \A c \in DOMAIN F : G[c] = F[c]
      BY <2>5, <2>6, <2>7
    <3> HIDE DEF F, G, v
    <3>2. Amounts(G) /\ Total(G) = Plus(Total(F), v)
      BY <3>1, TotalMore
    <3> QED BY <3>2 DEF F, G, v
  <2>12. Plus(Plus(Total(taken(n)), A(n)), blocks[b].spent)
           = Plus(Plus(Total(taken(n)), TakenBy(blocks[b])), A(b))
    BY <2>4, <2>7, <2>8, <2>9, PlusSwap
  <2>13. Total(spent(b)) = Plus(Total(taken(b)), A(b))
    BY <2>6, <2>10, <2>11, <2>12
  <2> QED BY <2>1, <2>10, <2>11, <2>13 DEF b
<1> HIDE DEF P
<1>6. Height \in P
  <2>1. \A n \in 0 .. Height : n \in P
    BY <1>1, <1>4, <1>5, CountUp
  <2> QED BY <1>1, <2>1
<1> QED BY <1>1, <1>6 DEF P, AllSpent, AllTaken

\* When the whole chain is read, what was spent is what the chain spent.
LEMMA SpentAll ==
    ASSUME ChainInv, head \in 1 .. Height,
           \A b \in 1 .. Height : blocks[b].delta # <<>> => b \in Mod(blocks, head, ctx)
    PROVE  SpentBy(blocks) = AllSpent
<1> DEFINE C == {c \in 1 .. head : Counts(blocks, head, ctx, c)}
           some == [b \in C |-> blocks[b].spent]
           all == [b \in 1 .. Height |-> blocks[b].spent]
<1>1. Height \in Nat
  BY TipIs
<1>2. C \subseteq 1 .. Height /\ Mod(blocks, head, ctx) \subseteq C
  BY <1>1 DEF Mod
<1>3. \A b \in 1 .. Height : blocks[b].spent \in Amount /\ (blocks[b].delta = <<>> => blocks[b].spent = Zero)
  <2> SUFFICES ASSUME NEW b \in 1 .. Height
               PROVE  blocks[b].spent \in Amount /\ (blocks[b].delta = <<>> => blocks[b].spent = Zero)
    OBVIOUS
  <2>1. blocks[b] \in Block /\ Honest(blocks[b], version)
    BY BlockIs
  <2> QED BY <2>1 DEF Block, Honest
<1>4. Amounts(all)
  <2>1. IsFiniteSet(1 .. Height)
    BY <1>1, FS_Interval
  <2> QED BY <1>3, <2>1 DEF Amounts
<1> HIDE DEF C
<1>5. DOMAIN some \subseteq DOMAIN all /\ (\A b \in DOMAIN some : some[b] = all[b])
  BY <1>2
<1>6. \A b \in DOMAIN all \ DOMAIN some : all[b] = Zero
  BY <1>2, <1>3
<1>7. Total(some) = SpentBy(blocks) /\ Total(all) = AllSpent
  BY DEF SpentBy, AllSpent, C
<1> HIDE DEF some, all
<1> QED BY <1>4, <1>5, <1>6, <1>7, TotalOnly

-----------------------------------------------------------------------------
(* Events that take out what their blocks did *)

\* The events of v3 take out what their blocks did.
LEMMA V3TakesOut ==
    ASSUME ChainInv, NEW S \in SUBSET (1 .. Height), NEW r, EventsOf(blocks, r, S), OneEach(blocks, S)
    PROVE  TakesOut(r, blocks, S)
<1>1. r \in Seq(AnyEvent)
  BY DEF EventsOf
<1>2. ASSUME NEW i \in 1 .. Len(r), r[i].kind = "decrease"
      PROVE  r[i].tx \in S /\ r[i].amt = TakenBy(blocks[r[i].tx])
  <2> DEFINE e == r[i]
             x == blocks[e.tx]
  <2>1. e.tx \in S /\ e.tx \in 1 .. Height /\ From(x, e)
    BY DEF EventsOf
  <2>2. x \in Block /\ Len(x.delta) = 1
    BY <2>1, BlockIs DEF OneEach
  <2> HIDE DEF e, x
  <2>3. e.kind = "decrease"
    BY <1>2 DEF e
  <2>4. x.delta \in Seq(Int) /\ x.tick \in Int
    <3>1. x.tick \in MinTick .. MaxTick /\ x.delta \in Seq(Int)
      BY <2>2 DEF Block
    <3> QED BY <3>1, NoTickIsNone DEF PoolTicks
  <2>5. PICK d \in Int : x.delta = <<d>> /\ DOMAIN x.delta = {1} /\ x.delta[1] = d
    BY <2>2, <2>4, OnlyChange
  <2>6. PICK k \in DOMAIN x.delta : e.liq = Magnitude(x.delta[k]) /\ x.delta[k] < 0
        /\ e.amt = amountsFromLiquidity(e.liq, x.tick)
    BY <2>1, <2>3 DEF From
  <2>7. x.delta[k] = d
    BY <2>5
  <2>8. e.liq = -d /\ d < 0
    BY <2>6, <2>7 DEF Magnitude
  <2>9. TakenBy(x) = amountsFromLiquidity(-d, x.tick)
    BY <2>4, <2>5, <2>8, TakenOne DEF TakenBy
  <2> QED BY <2>1, <2>6, <2>8, <2>9 DEF e, x
<1>3. ASSUME NEW b \in S, Decreases(blocks[b])
      PROVE  \E i \in 1 .. Len(r) : r[i].kind = "decrease" /\ r[i].tx = b
  <2>1. Shows(blocks[b], "decrease")
    BY <1>3 DEF Decreases, Shows
  <2> QED BY <2>1 DEF EventsOf
<1> QED BY <1>1, <1>2, <1>3 DEF TakesOut

\* Those of v4 do, where the states have the pool's ticks.
LEMMA V4TakesOut ==
    ASSUME ReaderInv, pc = "now", version = "v4", PaidRead(blocks), \A b \in Txs : st[b].tick = blocks[b].tick,
           OneEach(blocks, Mod(blocks, head, ctx)), NEW f, NEW ev, Decoding(f, ev)
    PROVE  TakesOut(ev, blocks, Mod(blocks, head, ctx))
<1> DEFINE S == Mod(blocks, head, ctx)
<1>1. ChainInv /\ RawOf(blocks, raw, S) /\ S \in SUBSET (1 .. Height) /\ OneEach(blocks, S)
  BY DEF ReaderInv, LogsRead, Mod, Height
<1>2. Walking(f, raw, st, received) /\ ev = f[Len(raw)].events /\ ev \in Seq(AnyEvent)
  BY DEF Decoding, Placed, Ordered
<1>3. PICK b : Entries(b, ev, f, raw, st, received)
  BY <1>2, WalkEntries
<1> HIDE DEF S
<1>0. \A n \in PoolTicks : n \in Int
  BY NoTickIsNone
<1>4. ASSUME NEW j \in 1 .. Len(raw)
      PROVE  LET new == NewAt(f, raw, st, received, j)
                 c == raw[j].block IN
             /\ c \in S
             /\ \A y \in 1 .. Len(new) : new[y].kind = "decrease" => new[y].tx = c /\ new[y].amt = TakenBy(blocks[c])
             /\ raw[j].delta < 0 => \E y \in 1 .. Len(new) : new[y].kind = "decrease" /\ new[y].tx = c
  <2> DEFINE acc == f[j - 1]
             e == raw[j]
             c == e.block
             x == st[c]
             new == NewOf(acc, e, x, received)
  <2>1. Given(acc, e, x, received)
    BY <1>2, WalkGiven
  <2>2. NewAt(f, raw, st, received, j) = new
    BY DEF NewAt
  <2>3. c \in S /\ c \in 1 .. Height /\ e.delta \in Int /\ blocks[c].delta = <<e.delta>>
    BY <1>1, OneDelta
  <2>4. e.delta < 0 => Takes(e, x, received) = TakenBy(blocks[c])
    <3> SUFFICES ASSUME e.delta < 0 PROVE Takes(e, x, received) = TakenBy(blocks[c])
      OBVIOUS
    <3> DEFINE d == e.delta
               tick == blocks[c].tick
               principal == amountsFromLiquidity(-d, tick)
               paid == blocks[c].paid
    <3>1. c \in Txs
      BY <1>1 DEF RawOf, Txs
    <3>2. x.tick = tick
      BY <3>1
    <3>3. blocks[c] \in Block /\ Honest(blocks[c], version)
      BY <1>1, <2>3, BlockIs
    <3>4. tick \in Int /\ paid \in Amount
      <4>1. tick \in PoolTicks /\ paid \in Amount
        BY <3>3 DEF Block, PoolTicks
      <4> HIDE DEF tick
      <4> QED BY <1>0, <4>1
    <3>5. DOMAIN blocks[c].delta = {1} /\ blocks[c].delta[1] = d
      BY <2>3
    <3>6. AtMost(principal, paid) /\ blocks[c].spent = Zero
      <4>1. 1 \in DOMAIN blocks[c].delta /\ blocks[c].delta[1] < 0
        BY <3>5
      <4>2. \A i \in DOMAIN blocks[c].delta : blocks[c].delta[i] <= 0
        BY <2>3, <3>5
      <4>3. Covers(blocks[c], version) /\ blocks[c].spent = Zero
        BY <3>3, <4>2 DEF Honest
      <4> HIDE DEF c
      <4>4. AtMost(amountsFromLiquidity(-blocks[c].delta[1], tick), paid)
        BY <4>1, <4>3 DEF Covers
      <4> QED BY <3>5, <4>3, <4>4
    <3>7. TakenBy(blocks[c]) = principal
      BY <2>3, <3>4, TakenOne DEF TakenBy
    <3>8. Moves(e, x) = principal
      BY <2>3, <3>2 DEF Moves, Magnitude
    <3>9. principal \in Amount
      <4>1. -d \in Nat
        BY <2>3
      <4> QED BY <3>4, <4>1, AmountsAre
    <3>10. c \in DOMAIN received => received[c] = paid
      BY <3>6 DEF PaidRead
    <3> HIDE DEF principal, paid, tick, d
    <3>11. Least(principal, paid) = principal
      BY <3>4, <3>6, <3>9 DEF Least, AtMost, Amount
    <3> HIDE DEF c, x
    <3>12. c = e.block
      BY DEF c
    <3> QED BY <3>7, <3>8, <3>10, <3>11, <3>12 DEF Takes
  <2> HIDE DEF acc, x, new, c
  <2>5. c = e.block
    BY DEF c
  <2> HIDE DEF e
  <2>6. /\ PutInEvent(e, x).kind = "increase" /\ FeeEvent(acc, e, x).kind = "collect"
        /\ PaidEvent(acc, e, x, received).kind = "collect"
        /\ TakenEvent(e, x, received).kind = "decrease" /\ TakenEvent(e, x, received).tx = c
        /\ TakenEvent(e, x, received).amt = Takes(e, x, received)
    BY <2>5 DEF PutInEvent, FeeEvent, TakenEvent, PaidEvent, Event
  <2>7. CASE e.delta < 0
    <3>1. new = <<TakenEvent(e, x, received), PaidEvent(acc, e, x, received)>>
      <4>1. ~(e.delta > 0)
        BY <2>3, <2>7 DEF e
      <4> QED BY <2>7, <4>1, NewCases DEF new
    <3>2. /\ new[1] = TakenEvent(e, x, received) /\ 1 \in 1 .. Len(new)
          /\ \A y \in 1 .. Len(new) : new[y] = TakenEvent(e, x, received) \/ new[y] = PaidEvent(acc, e, x, received)
      <4> DEFINE p == TakenEvent(e, x, received)
                 q == PaidEvent(acc, e, x, received)
      <4>1. new = <<p, q>>
        BY <3>1
      <4> HIDE DEF p, q
      <4>2. /\ new[1] = p /\ 1 \in 1 .. Len(new)
            /\ \A y \in 1 .. Len(new) : new[y] = p \/ new[y] = q
        BY <4>1
      <4> QED BY <4>2 DEF p, q
    <3>3. "decrease" # "collect"
      OBVIOUS
    <3> QED BY <2>2, <2>3, <2>4, <2>6, <2>7, <3>2, <3>3 DEF e, c
  <2>8. CASE ~(e.delta < 0)
    <3>1. \A y \in 1 .. Len(new) : new[y].kind # "decrease"
      BY <2>1, <2>8, NewIs DEF new
    <3> QED BY <2>2, <2>3, <2>8, <3>1 DEF e, c
  <2> QED BY <2>7, <2>8
<1>5. ASSUME NEW i \in 1 .. Len(ev), ev[i].kind = "decrease"
      PROVE  ev[i].tx \in S /\ ev[i].amt = TakenBy(blocks[ev[i].tx])
  <2>1. PICK j \in 1 .. Len(raw) : \E y \in 1 .. Len(NewAt(f, raw, st, received, j)) :
            ev[i] = NewAt(f, raw, st, received, j)[y]
    BY <1>3 DEF Entries
  <2>2. PICK y \in 1 .. Len(NewAt(f, raw, st, received, j)) : ev[i] = NewAt(f, raw, st, received, j)[y]
    BY <2>1
  <2> QED BY <1>4, <1>5, <2>2
<1>6. ASSUME NEW c \in S, Decreases(blocks[c])
      PROVE  \E i \in 1 .. Len(ev) : ev[i].kind = "decrease" /\ ev[i].tx = c
  <2>1. PICK k \in DOMAIN blocks[c].delta : blocks[c].delta[k] < 0
    BY <1>6 DEF Decreases
  <2>2. PICK j \in 1 .. Len(raw) : raw[j].block = c /\ raw[j].delta = blocks[c].delta[k]
    BY <1>1 DEF RawOf
  <2>3. PICK y \in 1 .. Len(NewAt(f, raw, st, received, j)) :
          NewAt(f, raw, st, received, j)[y].kind = "decrease" /\ NewAt(f, raw, st, received, j)[y].tx = c
    BY <1>4, <2>1, <2>2
  <2>4. PICK i \in 1 .. Len(ev) : ev[i] = NewAt(f, raw, st, received, j)[y]
    BY <1>3 DEF Entries
  <2> QED BY <2>3, <2>4
<1> QED BY <1>2, <1>5, <1>6 DEF TakesOut, S

-----------------------------------------------------------------------------
(* What is known of a market that stands still *)

\* In a market that stands still, strictly inside the range, every block has the same tick.
Still(bl, t) == \A b \in 1 .. Len(bl) : bl[b].tick = t /\ bl[b].after = t

LEMMA InsideIs ==
    ASSUME NEW t \in TickLower + 1 .. TickUpper - 1
    PROVE  /\ t \in Int /\ TickLower < t /\ t < TickUpper /\ t \in PoolTicks /\ t \in TickLower .. TickUpper
           /\ Clamp(t) = t /\ pricingTick(t) = t /\ isPriceableTick(t)
<1>1. /\ TickLower \in Nat /\ TickUpper \in Nat /\ MinTick \in Nat /\ MaxTick \in Nat
      /\ MinTick < TickLower /\ TickUpper < MaxTick - 1
  BY TicksOrdered
<1>2. t \in Int /\ TickLower < t /\ t < TickUpper
  BY <1>1
<1>3. t \in TickLower .. TickUpper /\ t \in MinTick .. MaxTick
  BY <1>1, <1>2
<1>4. Clamp(t) = t
  BY <1>1, <1>2 DEF Clamp
<1>5. isPriceableTick(t)
  BY <1>3, RangePriced
<1> QED BY <1>2, <1>3, <1>4, <1>5 DEF PoolTicks, pricingTick

\* Strictly inside the range, what a mint put in tells the tick.
LEMMA InsideTick ==
    ASSUME NEW t \in TickLower + 1 .. TickUpper - 1, NEW s \in Int, NEW d \in Nat \ {0},
           amountsFromLiquidity(d, s) = amountsFromLiquidity(d, t)
    PROVE  s = t
<1>1. TickLower < t /\ t < TickUpper /\ t \in Int /\ Clamp(t) = t
  BY InsideIs
<1>2. TickLower \in Nat /\ TickUpper \in Nat /\ TickLower < TickUpper
  BY TicksOrdered
<1>3. Clamp(s) \in TickLower .. TickUpper
  BY ClampIn
<1> DEFINE k == Clamp(s) - TickLower
           m == t - TickLower
<1>4. k \in Nat /\ m \in Nat
  BY <1>1, <1>2, <1>3
<1>5. d * k = d * m
  BY <1>1 DEF amountsFromLiquidity
<1>6. k = m
  <2> HIDE DEF k, m
  <2>1. (d * k) \div d = k /\ (d * m) \div d = m
    BY <1>4, TimesBack
  <2> QED BY <1>5, <2>1
<1>7. Clamp(s) = t
  BY <1>1, <1>2, <1>3, <1>6
<1> QED BY <1>1, <1>2, <1>7 DEF Clamp

\* The events of v3 are all priced at it.
LEMMA FlatPoints ==
    ASSUME ChainInv, NEW S \in SUBSET (1 .. Height), NEW r, EventsOf(blocks, r, S),
           NEW t \in TickLower + 1 .. TickUpper - 1, Still(blocks, t),
           NEW i \in 1 .. Len(r), r[i].kind # "collect"
    PROVE  impliedEventPrice(r[i]) = t
<1> DEFINE e == r[i]
           x == blocks[e.tx]
<1>1. e.tx \in S /\ From(x, e) /\ r \in Seq(AnyEvent)
  BY DEF EventsOf
<1>2. e \in AnyEvent
  BY <1>1
<1>3. e.tx \in 1 .. Len(blocks)
  BY <1>1 DEF Height
<1>4. x.tick = t
  BY <1>3 DEF Still
<1>5. t \in Int /\ TickLower < t /\ t < TickUpper
  BY InsideIs
<1> HIDE DEF x, e
<1>6. e.kind # "collect"
  BY DEF e
<1>7. e.liq \in Nat \ {0} /\ e.amt = amountsFromLiquidity(e.liq, t)
  BY <1>1, <1>2, <1>4, <1>6 DEF From, AnyEvent
<1>8. impliedEventPrice(e) = t
  BY <1>5, <1>7, EvidenceIs
<1> QED BY <1>8 DEF e

\* A mint in a block whose growth is not known earned nothing, of a complete walk.
LEMMA LostMintsFresh ==
    ASSUME ReaderInv, Accounts(blocks, owed), pc = "now", version = "v4", PaidRead(blocks), StatesPaid(blocks),
           \A b \in Txs : b \in lost => st[b].fg = NoGrowth,
           OneEach(blocks, Mod(blocks, head, ctx)), FromMint(Mod(blocks, head, ctx)),
           NEW f, Walking(f, raw, st, received), f[Len(raw)].complete
    PROVE  Fresh(blocks, Mod(blocks, head, ctx) \cap lost)
<1> DEFINE M == Mod(blocks, head, ctx)
<1>1. ChainInv /\ RawOf(blocks, raw, M) /\ M \in SUBSET (1 .. Height) /\ OneEach(blocks, M)
  BY DEF ReaderInv, LogsRead, Mod, Height
<1> HIDE DEF M
<1> SUFFICES ASSUME NEW b \in M, b \in lost, Increases(blocks[b]) PROVE blocks[b].paid = Zero
  BY DEF Fresh, M
<1>2. PICK k \in DOMAIN blocks[b].delta : blocks[b].delta[k] > 0
  BY DEF Increases
<1>3. PICK j \in 1 .. Len(raw) : raw[j].block = b /\ raw[j].delta = blocks[b].delta[k]
  BY <1>1 DEF RawOf
<1> DEFINE acc == f[j - 1]
           e == raw[j]
           x == st[b]
           new == NewOf(acc, e, x, received)
<1>4. b \in Txs
  <2>1. j \in DOMAIN raw
    BY <1>1 DEF RawOf
  <2> QED BY <1>3, <2>1 DEF Txs
<1>5. x.fg = NoGrowth
  BY <1>4
<1>6. FeeSince(acc, x) = Zero
  BY <1>5 DEF FeeSince
<1>7. ~Positive(FeeSince(acc, x))
  BY <1>6 DEF Positive, Zero
<1>8. e.delta > 0
  BY <1>2, <1>3
<1>9. NewAt(f, raw, st, received, j) = new
  BY <1>3 DEF NewAt
<1>10. blocks[b].paid # Zero => \E i \in 1 .. Len(new) : new[i].kind = "collect"
  BY <1>3, <1>9, PaysAre
<1> HIDE DEF acc, e, x
<1>11. new = <<PutInEvent(e, x)>>
  BY <1>7, <1>8, NewCases
<1>12. PutInEvent(e, x).kind = "increase"
  BY DEF PutInEvent, Event
<1>13. \A i \in 1 .. Len(new) : new[i].kind = "increase"
  <2> DEFINE p == PutInEvent(e, x)
  <2>1. new = <<p>> /\ p.kind = "increase"
    BY <1>11, <1>12
  <2> HIDE DEF p, new
  <2> QED BY <2>1
<1> HIDE DEF new
<1> QED BY <1>10, <1>13

\* The states an unflagged reading has of it all show its tick.
LEMMA FlatTicks ==
    ASSUME ReaderInv, Spending(blocks), pc = "now", version = "v4", StatesPaid(blocks), st \in [Txs -> ReadState],
           \A b \in Txs : GivesBack(blocks[b], st[b].tick), OneEach(blocks, Mod(blocks, head, ctx)),
           NEW t \in TickLower + 1 .. TickUpper - 1, Still(blocks, t), NEW b \in Txs
    PROVE  st[b].tick = t /\ blocks[b].tick = t
<1> DEFINE M == Mod(blocks, head, ctx)
<1>1. ChainInv /\ RawOf(blocks, raw, M) /\ M \in SUBSET (1 .. Height) /\ OneEach(blocks, M)
  BY DEF ReaderInv, LogsRead, Mod, Height
<1> HIDE DEF M
<1>2. b \in M /\ b \in 1 .. Height /\ b \in 1 .. Len(blocks)
  <2>1. Txs \subseteq M
    BY <1>1, TxsAre
  <2> QED BY <1>1, <2>1 DEF Height
<1>3. blocks[b].tick = t
  BY <1>2 DEF Still
<1>4. blocks[b].delta \in Seq(Int) /\ Len(blocks[b].delta) = 1
  BY <1>1, <1>2, DeltaIs DEF OneEach
<1>5. PICK d \in Int : blocks[b].delta = <<d>> /\ DOMAIN blocks[b].delta = {1} /\ blocks[b].delta[1] = d
  BY <1>4, OnlyChange
<1>6. t \in Int
  BY InsideIs
<1>7. CASE d <= 0
  BY <1>3, <1>5, <1>7 DEF StatesPaid
<1>8. CASE d > 0
  <2>1. amountsFromLiquidity(d, st[b].tick) = blocks[b].spent
    BY <1>5, <1>8 DEF GivesBack
  <2>2. blocks[b].spent = PutIn(blocks[b].delta, t)
    BY <1>2, <1>3 DEF Spending
  <2>3. PutIn(blocks[b].delta, t) = amountsFromLiquidity(d, t)
    <3> DEFINE delta == blocks[b].delta
    <3>1. delta \in Seq(Int) /\ 1 \in DOMAIN delta /\ delta[1] > 0 /\ \A i \in DOMAIN delta : delta[i] > 0 => i = 1
      BY <1>4, <1>5, <1>8
    <3>2. delta[1] = d
      BY <1>5
    <3> HIDE DEF delta
    <3>3. PutIn(delta, t) = amountsFromLiquidity(delta[1], t)
      BY <1>6, <3>1, PutInOne
    <3> QED BY <3>2, <3>3 DEF delta
  <2>4. st[b].tick \in Int
    <3>1. st[b] \in ReadState
      OBVIOUS
    <3>2. st[b].tick \in PoolTicks
      BY <3>1 DEF ReadState
    <3>3. \A n \in PoolTicks : n \in Int
      BY NoTickIsNone
    <3> QED BY <3>2, <3>3
  <2>5. d \in Nat \ {0}
    BY <1>8
  <2>6. st[b].tick = t
    BY <2>1, <2>2, <2>3, <2>4, <2>5, InsideTick
  <2> QED BY <1>3, <2>6
<1> QED BY <1>3, <1>5, <1>7, <1>8

-----------------------------------------------------------------------------
(* What is reported of it *)

\* What has been paid out and what is there comes to what was put in, but for the fees.
NoGain(t) ==
    /\ result.pnl.pricePnlUsd + result.pnl.ilUsd = 0
    /\ result.pnl.netPnlUsd = Worth(result.pnl.fees, numerairePricePoint(t, meta.pair = "anchor0"))

LEMMA AllChanged ==
    ASSUME ChainInv, MetaTrue(blocks, owed), head \in 1 .. Height, Quiet(blocks, Height), ReadsAll(blocks)
    PROVE  \A b \in 1 .. Height : blocks[b].delta # <<>> => b \in Mod(blocks, head, ctx)
<1>1. \A b \in 1 .. Height : b > head => blocks[b].delta = <<>>
  BY QuietIs
<1>2. Height \in Nat
  BY TipIs
<1> SUFFICES ASSUME NEW b \in 1 .. Height, blocks[b].delta # <<>> PROVE b \in Mod(blocks, head, ctx)
  OBVIOUS
<1>3. b \in 1 .. head
  BY <1>1, <1>2
<1> QED BY <1>3 DEF ReadsAll

LEMMA FlatReport ==
    ASSUME ChainInv, Spending(blocks), MetaTrue(blocks, owed), MetaRead, head \in 1 .. Height,
           Quiet(blocks, Height), ReadsAll(blocks), OneEach(blocks, Mod(blocks, head, ctx)),
           own.held \/ meta.liq = 0, NEW t \in TickLower + 1 .. TickUpper - 1, Still(blocks, t),
           NEW r, PutsIn(r, blocks, Mod(blocks, head, ctx)), TakesOut(r, blocks, Mod(blocks, head, ctx)),
           NEW events, Fair(events), events # <<>>, NEW fees, ~IsOpen => events = r,
           IsOpen => Marked(r, events, amountsFromLiquidity(meta.liq, Tip.after), fees),
           NEW feed, \A i \in 1 .. Len(events) : feed[events[i].at] = t,
           NEW known, Report(events, feed, known)
    PROVE  NoGain(t)'
<1> DEFINE M == Mod(blocks, head, ctx)
           cur == amountsFromLiquidity(Tip.liq, t)
<1>1. \A b \in 1 .. Height : blocks[b].delta # <<>> => b \in M
  BY AllChanged
<1>2. meta.liq = Tip.liq /\ Tip.liq \in Nat
  BY QuietIs DEF MetaRead
<1>3. t \in Int /\ t \in PoolTicks
  BY InsideIs
<1>4. (\A b \in 1 .. Height : blocks[b].tick = t) /\ Tip.after = t
  <2>1. Height \in 1 .. Height /\ Tip = blocks[Height] /\ Height = Len(blocks)
    BY TipIs DEF ChainInv, Height
  <2> QED BY <2>1 DEF Still
<1>5. M \in SUBSET (1 .. Height)
  <2>1. Height \in Nat
    BY TipIs
  <2> QED BY <2>1 DEF Mod
<1>6. events \in Seq(AnyEvent)
  BY DEF Fair
<1>7. AllSpent = Plus(AllTaken, cur)
  <2>1. \A b \in 1 .. Height : blocks[b].delta # <<>> => Len(blocks[b].delta) = 1
    BY <1>1 DEF OneEach
  <2> QED BY <1>3, <1>4, <2>1, FlatBalance
<1>8. Deposited(events) = AllSpent
  <2>1. PutsIn(events, blocks, M)
    <3>1. CASE IsOpen
      <4> DEFINE v == amountsFromLiquidity(meta.liq, Tip.after)
      <4>1. Marked(r, events, v, fees)
        BY <3>1
      <4> HIDE DEF v, M
      <4>2. PutsIn(r, blocks, M)
        BY DEF M
      <4> QED BY <1>6, <4>1, <4>2, MarkedPutsIn
    <3>2. CASE ~IsOpen
      BY <3>2
    <3> QED BY <3>1, <3>2
  <2>2. Deposited(events) = SpentBy(blocks)
    BY <2>1, DepositedIs
  <2>3. SpentBy(blocks) = AllSpent
    BY <1>1, SpentAll
  <2> QED BY <2>2, <2>3
<1>9. cur \in Amount
  BY <1>2, <1>3, AmountsAre
<1>10. Withdrawn(events) = Plus(AllTaken, cur)
  <2>1. TakesOut(r, blocks, M)
    OBVIOUS
  <2>2. CASE IsOpen
    <3>1. Marked(r, events, cur, fees)
      BY <1>2, <1>4, <2>2
    <3> HIDE DEF M, cur
    <3> QED BY <1>1, <1>5, <1>6, <1>9, <2>1, <3>1, WithdrawnMarked
  <2>3. CASE ~IsOpen
    <3>1. meta.liq = 0
      BY <2>3 DEF IsOpen, MetaRead
    <3>2. cur = Zero
      <4>1. TickUpper - Clamp(t) \in Int /\ Clamp(t) - TickLower \in Int
        BY <1>3, InsideIs, TicksOrdered
      <4> QED BY <1>2, <3>1, <4>1 DEF amountsFromLiquidity, Zero
    <3> HIDE DEF M, cur
    <3>3. Withdrawn(r) = AllTaken /\ AllTaken \in Amount
      BY <1>1, <1>5, <2>1, WithdrawnIs
    <3>4. Plus(AllTaken, Zero) = AllTaken
      BY <3>3 DEF Plus, Zero, Amount
    <3> QED BY <2>3, <3>2, <3>3, <3>4
  <2> QED BY <2>2, <2>3
<1>11. Withdrawn(events) = Deposited(events)
  BY <1>7, <1>8, <1>10
<1> DEFINE anchor == meta.pair = "anchor0"
           pnl == computePnL(events, feed, anchor)
<1> HIDE DEF cur, M, anchor
<1>12. /\ pnl.pricePnlUsd + pnl.ilUsd = 0
       /\ pnl.netPnlUsd = Worth(Fees(events), numerairePricePoint(t, anchor))
  BY <1>3, <1>11, FlatUsd
<1> HIDE DEF pnl
<1>13. result'.pnl = pnl /\ meta' = meta
  BY DEF Report, pnl, anchor
<1>14. result'.pnl.fees = Fees(events)
  BY ReportSays
<1>15. NoGain(t)' <=>
         /\ result'.pnl.pricePnlUsd + result'.pnl.ilUsd = 0
         /\ result'.pnl.netPnlUsd = Worth(result'.pnl.fees, numerairePricePoint(t, anchor))
  BY <1>13 DEF NoGain, anchor
<1> QED BY <1>12, <1>13, <1>14, <1>15

\* What is to be said of such a market, of a reading that is not flagged.
FlatTold(bl) ==
    \A t \in TickLower + 1 .. TickUpper - 1 :
       /\ ticksOk /\ feesOk /\ OneEach(bl, Mod(bl, head, ctx)) /\ ReadsAll(bl) /\ Quiet(bl, result.now)
       /\ own.held \/ meta.liq = 0
       /\ Still(bl, t)
       => NoGain(t)

\* A pruned block has no growth.
Forgets == ticksOk => \A b \in Txs : b \in lost => st[b].fg = NoGrowth

FlatInv ==
    /\ DepositInv
    /\ PayoutInv
    /\ pc = "now" /\ version = "v4" => Forgets
    /\ pc = "done" => FlatTold(blocks)

\* A report leaves the premises as they are.
LEMMA ReportFlat ==
    ASSUME NEW events, NEW feed, NEW known, Report(events, feed, known), NEW t
    PROVE  /\ blocks' = blocks /\ own' = own /\ meta' = meta /\ pc' = "done" /\ feesOk' = known
           /\ (OneEach(blocks, Mod(blocks, head, ctx))' <=> OneEach(blocks, Mod(blocks, head, ctx)))
           /\ (ReadsAll(blocks)' <=> ReadsAll(blocks))
           /\ (Quiet(blocks, result.now)' <=> Quiet(blocks, Height))
           /\ (Still(blocks, t)' <=> Still(blocks, t))
<1>1. /\ blocks' = blocks /\ ctx' = ctx /\ head' = head /\ meta' = meta /\ own' = own /\ pc' = "done"
      /\ feesOk' = known
  BY DEF Report, chainVars
<1>2. (ReadsAll(blocks)' <=> ReadsAll(blocks)) /\ (Quiet(blocks, result.now)' <=> Quiet(blocks, Height))
  BY ReportTells
<1>3. Mod(blocks, head, ctx)' = Mod(blocks, head, ctx)
  BY <1>1
<1>4. OneEach(blocks, Mod(blocks, head, ctx))' <=> OneEach(blocks, Mod(blocks, head, ctx))
  BY <1>1, <1>3 DEF OneEach
<1>5. Still(blocks, t)' <=> Still(blocks, t)
  BY <1>1 DEF Still
<1> QED BY <1>1, <1>2, <1>4, <1>5

-----------------------------------------------------------------------------
(* The reading, in such a market *)

LEMMA FlatStarts == ASSUME Init PROVE FlatInv
<1>1. DepositInv /\ PayoutInv
  BY DepositStarts, PayoutStarts
<1> QED BY <1>1 DEF Init, FlatInv

LEMMA FlatGoesOn ==
    ASSUME FlatInv, Mine, UNCHANGED readerVars, ~Over PROVE FlatInv'
<1>1. DepositInv' /\ PayoutInv'
  BY DepositGoesOn, PayoutGoesOn DEF FlatInv
<1>2. ChainInv
  BY DEF FlatInv, PayoutInv, SoundInv, ReaderInv
<1>3. version' = version
  BY <1>2, MineGrows
<1>4. pc' = pc /\ raw' = raw /\ st' = st /\ ticksOk' = ticksOk /\ lost' = lost
  BY DEF readerVars
<1>5. Forgets' <=> Forgets
  BY <1>4 DEF Forgets, Txs
<1>6. pc # "done"
  BY DEF Over
<1> QED BY <1>1, <1>3, <1>4, <1>5, <1>6 DEF FlatInv

LEMMA FlatStates == ASSUME FlatInv, ReadStates PROVE FlatInv'
<1>1. DepositInv' /\ PayoutInv' /\ ReaderInv
  BY DepositStates, PayoutStates DEF FlatInv, PayoutInv, SoundInv
<1>2. raw' = raw /\ pc = "states" /\ pc' = "now"
  BY DEF ReadStates
<1>3. LogsRead(blocks) /\ version = "v4"
  BY <1>1, <1>2 DEF ReaderInv
<1>4. PICK native \in BOOLEAN, unread \in Unreadable, horizon \in {0} \cup Txs :
         \E tickGone \in {{}, {b \in Txs : b <= horizon}} :
            StatesOf(ownerFlows(native, unread), {b \in Txs : b <= horizon}, tickGone)
  BY DEF ReadStates
<1> DEFINE gone == {b \in Txs : b <= horizon}
<1>5. PICK tickGone : StatesOf(ownerFlows(native, unread), gone, tickGone)
  BY <1>4
<1> HIDE DEF gone
<1>6. lost' = gone
  BY <1>5 DEF StatesOf
<1>7. ticksOk' => \A b \in Txs : st'[b].fg = feeGrowthAt(b, gone)
  BY <1>1, <1>3, <1>5, StatesTyped
<1>8. Txs' = Txs
  BY <1>2 DEF Txs
<1>9. Forgets'
  BY <1>6, <1>7, <1>8 DEF Forgets, feeGrowthAt
<1> QED BY <1>1, <1>2, <1>9 DEF FlatInv

LEMMA FlatFinishV3 == ASSUME FlatInv, FinishV3 PROVE FlatInv'
<1> DEFINE M == Mod(blocks, head, ctx)
           cur == amountsFromLiquidity(meta.liq, Tip.after)
           events == IF IsOpen THEN raw \o Synthetic(cur, meta.owed) ELSE raw
           live == IsOpen \/ closedExitPrice(events) = NoTick
           mark == IF live THEN pricingTick(Tip.after) ELSE closedExitPrice(events)
           markAt == events[Len(events)].at
           feed == buildImpliedPriceFeed(events, mark, markAt)
<1>1. /\ DepositInv' /\ PayoutInv' /\ ReaderInv /\ ChainInv /\ pc = "now" /\ version = "v3" /\ MetaRead
      /\ MetaTrue(blocks, owed) /\ head \in 1 .. Height /\ Spending(blocks)
  BY DepositFinishV3, PayoutFinishV3 DEF FlatInv, DepositInv, PayoutInv, SoundInv, ReaderInv, LogsRead, Height, FinishV3
<1>2. Report(events, feed, TRUE)
  BY DEF FinishV3
<1>3. raw # <<>> /\ M \in SUBSET (1 .. Height) /\ EventsOf(blocks, raw, M) /\ Height \in Nat
  BY <1>1, TipIs DEF ReaderInv, LogsRead, Mod, Height, PayoutInv, SoundInv, InHand, FlatInv
<1>4. Placed(raw, Height) /\ Fair(raw)
  BY <1>1, <1>3, V3Placed
<1>5. cur \in Amount /\ meta.owed \in Amount
  <2>1. Tip.after \in Int
    BY <1>1, TipIs, NoTickIsNone DEF Block, PoolTicks
  <2> QED BY <1>1, <2>1, AmountsAre DEF MetaRead
<1>6. own' = own /\ meta' = meta /\ pc' = "done"
  BY <1>2 DEF Report
<1>7. ASSUME NEW t \in TickLower + 1 .. TickUpper - 1, OneEach(blocks, M), ReadsAll(blocks),
             Quiet(blocks, Height), own.held \/ meta.liq = 0, Still(blocks, t)
      PROVE  NoGain(t)'
  <2>1. PutsIn(raw, blocks, M)
    <3>1. OneIncrease(blocks, M)
      <4> HIDE DEF M
      <4> QED BY <1>7 DEF OneEach, OneIncrease
    <3> QED BY <1>1, <1>3, <3>1, V3PutsIn
  <2>2. TakesOut(raw, blocks, M)
    BY <1>1, <1>3, <1>7, V3TakesOut
  <2>3. \A i \in 1 .. Len(raw) : raw[i].kind # "collect" => impliedEventPrice(raw[i]) = t
    BY <1>1, <1>3, <1>7, FlatPoints
  <2>4. /\ Ordered(events) /\ Fair(events) /\ (IsOpen => Marked(raw, events, cur, meta.owed))
        /\ \A i \in 1 .. Len(events) : events[i].tx # Open /\ events[i].kind # "collect" =>
              impliedEventPrice(events[i]) = t
    <3> HIDE DEF cur
    <3>1. CASE IsOpen
      <4> DEFINE E == raw \o Synthetic(cur, meta.owed)
      <4>1. Ordered(E) /\ Marked(raw, E, cur, meta.owed) /\ Fair(E)
        BY <1>3, <1>4, <1>5, SyntheticIs
      <4> HIDE DEF E
      <4>2. PICK n \in Nat : n = Len(raw)
        BY <1>4 DEF Placed, Ordered
      <4>3. /\ Len(E) = n + 2 /\ E[n + 1].tx = Open /\ E[n + 2].tx = Open
            /\ \A i \in 1 .. n : E[i] = raw[i]
        BY <4>1, <4>2 DEF Marked
      <4>4. \A i \in 1 .. n + 2 : i \in 1 .. n \/ i = n + 1 \/ i = n + 2
        BY <4>2
      <4>5. \A i \in 1 .. Len(E) : E[i].tx # Open /\ E[i].kind # "collect" => impliedEventPrice(E[i]) = t
        BY <2>3, <4>2, <4>3, <4>4
      <4> QED BY <3>1, <4>1, <4>5 DEF E
    <3>2. CASE ~IsOpen
      BY <1>4, <2>3, <3>2 DEF Placed
    <3> QED BY <3>1, <3>2
  <2>5. mark = t
    <3>1. CASE live
      <4>1. Tip.after = t
        <5>1. Height \in 1 .. Height /\ Tip = blocks[Height] /\ Height = Len(blocks)
          BY <1>1, TipIs DEF ChainInv, Height
        <5> QED BY <1>7, <5>1 DEF Still
      <4>2. pricingTick(t) = t
        BY <1>7, InsideIs
      <4> QED BY <3>1, <4>1, <4>2
    <3>2. CASE ~live
      <4>1. events = raw /\ closedExitPrice(events) # NoTick /\ mark = closedExitPrice(events)
        BY <3>2
      <4> DEFINE T == {t}
      <4>2. closedExitPrice(raw) \in T \cup {NoTick}
        <5>1. raw \in Seq(AnyEvent)
          BY <1>4 DEF Placed, Ordered
        <5>2. \A i \in 1 .. Len(raw) : raw[i].kind # "collect" => impliedEventPrice(raw[i]) \in T \cup {NoTick}
          BY <2>3
        <5> HIDE DEF T
        <5> QED BY <5>1, <5>2, ExitIs
      <4> QED BY <4>1, <4>2
    <3> QED BY <3>1, <3>2
  <2> HIDE DEF mark, events
  <2>6. \A i \in 1 .. Len(events) : feed[events[i].at] = t
    <3> SUFFICES ASSUME NEW i \in 1 .. Len(events) PROVE feed[events[i].at] = t
      OBVIOUS
    <3> DEFINE T == {t}
    <3>1. \A k \in 1 .. Len(events) : events[k].tx # Open /\ events[k].kind # "collect" =>
              impliedEventPrice(events[k]) \in T \cup {NoTick}
      BY <2>4
    <3>2. mark \in T
      BY <2>5
    <3> HIDE DEF T
    <3>3. buildImpliedPriceFeed(events, mark, events[Len(events)].at)[events[i].at] \in T
      BY <2>4, <3>1, <3>2, FeedIn
    <3> QED BY <3>3 DEF T
  <2>7. events # <<>> /\ (~IsOpen => events = raw)
    BY <2>4 DEF Ordered, events
  <2> HIDE DEF feed
  <2>8. PutsIn(raw, blocks, Mod(blocks, head, ctx)) /\ TakesOut(raw, blocks, Mod(blocks, head, ctx))
        /\ OneEach(blocks, Mod(blocks, head, ctx))
    BY <1>7, <2>1, <2>2
  <2>9. IsOpen => Marked(raw, events, amountsFromLiquidity(meta.liq, Tip.after), meta.owed)
    BY <2>4
  <2> HIDE DEF M, cur
  <2> QED BY <1>1, <1>2, <1>7, <2>4, <2>6, <2>7, <2>8, <2>9, FlatReport
<1> HIDE DEF events, feed
<1>8. FlatTold(blocks)'
  <2> SUFFICES ASSUME NEW t \in TickLower + 1 .. TickUpper - 1,
                      OneEach(blocks, Mod(blocks, head, ctx))', ReadsAll(blocks)', Quiet(blocks, result.now)',
                      (own.held \/ meta.liq = 0)', Still(blocks, t)'
               PROVE  NoGain(t)'
    BY DEF FlatTold
  <2>1. OneEach(blocks, M) /\ ReadsAll(blocks) /\ Quiet(blocks, Height) /\ Still(blocks, t)
    BY <1>2, ReportFlat
  <2> QED BY <1>6, <1>7, <2>1
<1> QED BY <1>1, <1>6, <1>8 DEF FlatInv

\* What v4 knows of the blocks, of a market that stands still, is its tick, in the pool and as a price.
LEMMA FlatStatesAre ==
    ASSUME ReaderInv, pc = "now", version = "v4", st \in [Txs -> ReadState],
           NEW t \in TickLower + 1 .. TickUpper - 1, Still(blocks, t), \A b \in Txs : st[b].tick = t
    PROVE  \A b \in DOMAIN WithNow : WithNow[b].tick = t /\ PriceOf(WithNow[b]) = t
<1>1. Tip.after = t
  <2>1. Height \in 1 .. Height /\ Tip = blocks[Height] /\ Height = Len(blocks)
    BY TipIs DEF ReaderInv, ChainInv, Height
  <2> QED BY <2>1 DEF Still
<1>2. ASSUME NEW b \in Txs PROVE st[b].tick = t /\ PriceOf(st[b]) = t
  <2>1. st[b] \in ReadState
    OBVIOUS
  <2>2. st[b].price = NoTick
    BY <2>1 DEF ReadState
  <2> QED BY <2>2 DEF PriceOf
<1>3. CASE IsOpen
  <2> DEFINE x == [tick |-> Tip.after, price |-> NoTick, fg |-> FeeGrowthInside(Height)]
  <2>1. WithNow = [b \in DOMAIN st \cup {Height} |-> IF b = Height THEN x ELSE st[b]]
    BY <1>3 DEF WithNow
  <2>2. x.tick = t /\ PriceOf(x) = t
    BY <1>1 DEF PriceOf
  <2> HIDE DEF x
  <2>3. DOMAIN st = Txs
    OBVIOUS
  <2> QED BY <1>2, <2>1, <2>2, <2>3
<1>4. CASE ~IsOpen
  BY <1>2, <1>4 DEF WithNow
<1> QED BY <1>3, <1>4

LEMMA FlatFinishV4 == ASSUME FlatInv, FinishV4 PROVE FlatInv'
<1> DEFINE M == Mod(blocks, head, ctx)
<1>1. /\ DepositInv' /\ PayoutInv' /\ ReaderInv /\ ChainInv /\ pc = "now" /\ version = "v4" /\ MetaRead
      /\ st \in [Txs -> ReadState] /\ PaidRead(blocks) /\ StatesTrue(blocks) /\ MintsRead(blocks) /\ Forgets
      /\ MetaTrue(blocks, owed) /\ Accounts(blocks, owed) /\ Spending(blocks)
      /\ head \in 1 .. Height /\ raw # <<>> /\ RawOf(blocks, raw, M)
  <2>1. pc = "now" /\ version = "v4"
    BY DEF FinishV4
  <2>2. DepositInv' /\ PayoutInv' /\ SoundInv
    BY DepositFinishV4, PayoutFinishV4 DEF FlatInv, PayoutInv
  <2>3. ReaderInv /\ ChainInv /\ MetaRead /\ st \in [Txs -> ReadState] /\ PaidRead(blocks)
    BY <2>1, <2>2 DEF SoundInv, InHand, ReaderInv
  <2>4. StatesTrue(blocks) /\ MetaTrue(blocks, owed) /\ Accounts(blocks, owed)
    BY <2>1 DEF FlatInv, PayoutInv
  <2>5. MintsRead(blocks) /\ Spending(blocks) /\ Forgets
    BY <2>1 DEF FlatInv, DepositInv
  <2>6. head \in 1 .. Height /\ raw # <<>> /\ RawOf(blocks, raw, M)
    BY <2>1, <2>3 DEF ReaderInv, LogsRead, Height
  <2> QED BY <2>1, <2>2, <2>3, <2>4, <2>5, <2>6
<1>2. PICK f, ev, events, accrued, s : V4Report(f, ev, events, accrued, s)
  BY <1>1, V4ReportIs
<1> DEFINE feed == buildV4PriceFeed(s, events[Len(events)].at)
<1>3. PICK known : Report(events, feed, known)
  BY <1>2 DEF V4Report
<1>4. own' = own /\ meta' = meta /\ pc' = "done"
  BY <1>3 DEF Report
<1>5. /\ Decoding(f, ev) /\ Marks(f, ev, events, accrued)
      /\ (feesOk' => f[Len(raw)].complete) /\ (ticksOk' => ticksOk)
      /\ (\A b \in DOMAIN WithNow : isPriceableTick(WithNow[b].tick)) => s = WithNow
  BY <1>2 DEF V4Report
<1>6. ASSUME NEW t \in TickLower + 1 .. TickUpper - 1, ticksOk', feesOk', OneEach(blocks, M), ReadsAll(blocks),
             Quiet(blocks, Height), own.held \/ meta.liq = 0, Still(blocks, t)
      PROVE  NoGain(t)'
  <2>1. M \in SUBSET (1 .. Height) /\ Height \in Nat /\ raw \in Seq(RawEvent) /\ Txs \subseteq M
    <3>1. Height \in Nat
      BY <1>1, TipIs
    <3>2. M \in SUBSET (1 .. Height)
      BY <1>1, <3>1 DEF Mod
    <3> HIDE DEF M
    <3>3. raw \in Seq(RawEvent)
      BY <1>1 DEF RawOf
    <3>4. Txs \subseteq M
      BY <1>1, TxsAre
    <3> QED BY <3>1, <3>2, <3>3, <3>4
  <2>2. Txs # {}
    <3>1. 1 \in DOMAIN raw
      BY <1>1, <2>1
    <3> QED BY <3>1 DEF Txs
  <2>3. Calm(blocks, M)
    <3>1. M \subseteq 1 .. Len(blocks)
      BY <2>1 DEF Height
    <3> HIDE DEF M
    <3> QED BY <1>6, <3>1 DEF Calm, Still
  <2>4. FromMint(M)
    <3>1. Max(M) \in M
      <4>1. M # {}
        BY <2>1, <2>2
      <4> HIDE DEF M
      <4> QED BY <2>1, <4>1, SomeOf
    <3>2. Max(M) \in 1 .. head
      BY <3>1 DEF Mod
    <3> DEFINE top == Max(M)
    <3> HIDE DEF top
    <3>3. \A b \in 1 .. top : blocks[b].delta # <<>> => b \in M
      <4>1. top \in 1 .. head
        BY <3>2 DEF top
      <4>2. \A b \in 1 .. top : b \in 1 .. head
        BY <1>1, <2>1, <4>1
      <4> QED BY <1>6, <4>2 DEF ReadsAll
    <3> QED BY <3>3 DEF FromMint, top
  <2>5. StatesPaid(blocks)
    BY <1>1, <1>5, <1>6, <2>3 DEF StatesTrue, Faithful
  <2>6. ticksOk /\ f[Len(raw)].complete
    BY <1>5, <1>6
  <2>7. Walking(f, raw, st, received)
    BY <1>5 DEF Decoding
  <2>8. Fresh(blocks, M \cap lost)
    <3>1. \A b \in Txs : b \in lost => st[b].fg = NoGrowth
      BY <1>1, <2>6 DEF Forgets
    <3> QED BY <1>1, <1>6, <2>4, <2>5, <2>6, <2>7, <3>1, LostMintsFresh
  <2>9. OneIncrease(blocks, M)
    <3> HIDE DEF M
    <3> QED BY <1>6 DEF OneEach, OneIncrease
  <2>10. \A b \in Txs : GivesBack(blocks[b], st[b].tick)
    BY <1>1, <2>3, <2>6, <2>8, <2>9 DEF MintsRead, Clear
  <2>11. \A b \in Txs : st[b].tick = t /\ blocks[b].tick = t
    BY <1>1, <1>6, <2>5, <2>10, FlatTicks
  <2>12. \A b \in DOMAIN WithNow : WithNow[b].tick = t /\ PriceOf(WithNow[b]) = t
    BY <1>1, <1>6, <2>11, FlatStatesAre
  <2>13. s = WithNow
    <3>1. isPriceableTick(t)
      BY <1>6, InsideIs
    <3> QED BY <1>5, <2>12, <3>1
  <2>14. PutsIn(ev, blocks, M)
    BY <1>1, <1>5, <2>10, V4PutsIn
  <2>15. TakesOut(ev, blocks, M)
    <3>1. \A b \in Txs : st[b].tick = blocks[b].tick
      BY <2>11
    <3> QED BY <1>1, <1>5, <1>6, <3>1, V4TakesOut
  <2>16. Ordered(events) /\ Fair(events)
    <3>1. ReadFromMint(blocks)
      BY <1>6, <2>4 DEF ReadFromMint
    <3> QED BY <1>5, <3>1 DEF Decoding, Marks
  <2>17. /\ events # <<>> /\ (~IsOpen => events = ev)
         /\ IsOpen => Marked(ev, events, amountsFromLiquidity(meta.liq, Tip.after), accrued)
    BY <1>5, <2>16 DEF Ordered, Marks
  <2>18. \A i \in 1 .. Len(events) : feed[events[i].at] = t
    <3> DEFINE upTo == events[Len(events)].at
    <3> SUFFICES ASSUME NEW i \in 1 .. Len(events) PROVE feed[events[i].at] = t
      OBVIOUS
    <3>1. events \in Seq(AnyEvent) /\ \A k, j \in 1 .. Len(events) : k < j => events[k].at <= events[j].at
      BY <2>16 DEF Ordered
    <3>2. PICK n \in Nat : n = Len(events) /\ n \in 1 .. n /\ i \in 1 .. n
      BY <3>1
    <3>3. events[i] \in AnyEvent /\ events[n] \in AnyEvent
      BY <3>1, <3>2
    <3>4. events[i].at \in Nat /\ events[n].at \in Nat
      BY <3>3 DEF AnyEvent
    <3>5. i = n \/ i < n
      BY <3>2
    <3>6. events[i].at <= events[n].at
      BY <3>1, <3>2, <3>4, <3>5
    <3> DEFINE at == events[i].at
    <3>7. upTo \in Nat /\ at \in 0 .. upTo
      BY <3>2, <3>4, <3>6
    <3> HIDE DEF upTo, at
    <3>8. IsFiniteSet(DOMAIN s) /\ DOMAIN s \subseteq Nat /\ DOMAIN s # {}
      <4>1. PICK D : DOMAIN s = D /\ Txs \subseteq D /\ D \subseteq 1 .. Height /\ IsFiniteSet(D)
        BY <1>2 DEF V4Report
      <4>2. D \subseteq Nat
        BY <2>1, <4>1
      <4> QED BY <2>2, <4>1, <4>2
    <3>9. PICK b \in DOMAIN s : buildV4PriceFeed(s, upTo)[at] = PriceOf(s[b])
      BY <3>7, <3>8, FeedV4
    <3>10. PriceOf(s[b]) = t
      BY <2>12, <2>13
    <3> QED BY <3>9, <3>10 DEF upTo, at
  <2> HIDE DEF feed
  <2>19. PutsIn(ev, blocks, Mod(blocks, head, ctx)) /\ TakesOut(ev, blocks, Mod(blocks, head, ctx))
         /\ OneEach(blocks, Mod(blocks, head, ctx))
    BY <1>6, <2>14, <2>15
  <2> HIDE DEF M
  <2> QED BY <1>1, <1>3, <1>6, <2>16, <2>17, <2>18, <2>19, FlatReport
<1> HIDE DEF feed
<1>7. FlatTold(blocks)'
  <2> SUFFICES ASSUME NEW t \in TickLower + 1 .. TickUpper - 1, ticksOk', feesOk',
                      OneEach(blocks, Mod(blocks, head, ctx))', ReadsAll(blocks)', Quiet(blocks, result.now)',
                      (own.held \/ meta.liq = 0)', Still(blocks, t)'
               PROVE  NoGain(t)'
    BY DEF FlatTold
  <2>1. OneEach(blocks, M) /\ ReadsAll(blocks) /\ Quiet(blocks, Height) /\ Still(blocks, t)
    BY <1>3, ReportFlat
  <2> QED BY <1>4, <1>6, <2>1
<1> QED BY <1>1, <1>4, <1>7 DEF FlatInv

LEMMA FlatKeeps == ASSUME FlatInv, [Next]_vars PROVE FlatInv'
<1>1. CASE (Over /\ UNCHANGED vars) \/ UNCHANGED vars
  <2>1. DepositInv' /\ PayoutInv'
    BY DepositKeeps, PayoutKeeps DEF FlatInv
  <2>2. /\ blocks' = blocks /\ version' = version /\ pc' = pc /\ ctx' = ctx /\ head' = head /\ own' = own
        /\ meta' = meta /\ raw' = raw /\ st' = st /\ lost' = lost /\ ticksOk' = ticksOk /\ feesOk' = feesOk
        /\ result' = result
    BY <1>1 DEF vars, chainVars, readerVars
  <2>3. Forgets' <=> Forgets
    BY <2>2 DEF Forgets, Txs
  <2>4. (ReadsAll(blocks)' <=> ReadsAll(blocks)) /\ (Quiet(blocks, result.now)' <=> Quiet(blocks, result.now))
        /\ (OneEach(blocks, Mod(blocks, head, ctx))' <=> OneEach(blocks, Mod(blocks, head, ctx)))
    BY <2>2 DEF ReadsAll, Quiet, OneEach
  <2>5. ASSUME NEW t PROVE (Still(blocks, t)' <=> Still(blocks, t)) /\ (NoGain(t)' <=> NoGain(t))
    BY <2>2 DEF Still, NoGain
  <2>6. FlatTold(blocks)' <=> FlatTold(blocks)
    BY <2>2, <2>4, <2>5 DEF FlatTold
  <2> QED BY <2>1, <2>2, <2>3, <2>6 DEF FlatInv
<1>2. CASE ~Over /\ Mine /\ UNCHANGED readerVars
  BY <1>2, FlatGoesOn
<1>3. CASE Begin \/ ReadMeta \/ ReadLogs
  <2>1. DepositInv' /\ PayoutInv'
    BY DepositKeeps, PayoutKeeps DEF FlatInv
  <2>2. pc' # "done" /\ (pc' = "now" => version' = "v3")
    BY <1>3 DEF Begin, ReadMeta, ReadLogs, chainVars
  <2> QED BY <2>1, <2>2 DEF FlatInv
<1>4. CASE ReadStates \/ FinishV3 \/ FinishV4
  BY <1>4, FlatStates, FlatFinishV3, FlatFinishV4
<1> QED BY <1>1, <1>2, <1>3, <1>4 DEF Next, Read

(* Where a market stood still, every flow of the position was priced alike *)
(* and the states of its blocks all tell its tick, those of a node that has*)
(* forgotten the blocks too, as long as the reading does not say that it   *)
(* guessed or that a fee is missing.                                       *)
THEOREM FlatAlways == Spec => []FlatInv
<1>1. Init => FlatInv
  BY FlatStarts
<1>2. FlatInv /\ [Next]_vars => FlatInv'
  BY FlatKeeps
<1> QED BY <1>1, <1>2, PTL DEF Spec

(* In a market that stands still strictly inside the range, the principal  *)
(* of the whole position is neither gained nor lost, in the anchor and to  *)
(* the unit: price effect and impermanent loss cancel, and what is left of *)
(* the net is the worth of the fees (computePnL, buildImpliedPriceFeed,    *)
(* buildV4PriceFeed).                                                      *)
THEOREM FlatMarketsGainNothing == Spec => []FlatMarketNoGain
<1>1. FlatInv => FlatMarketNoGain
  <2> SUFFICES ASSUME FlatInv, Done, OneChangeEach, OnlyMine, Untouched, ticksOk, feesOk, own.held \/ meta.liq = 0,
                      NEW t \in TickLower + 1 .. TickUpper - 1,
                      \A b \in 1 .. Height : blocks[b].tick = t /\ blocks[b].after = t
               PROVE  /\ result.pnl.pricePnlUsd + result.pnl.ilUsd = 0
                      /\ result.pnl.netPnlUsd
                           = Worth(result.pnl.fees, numerairePricePoint(blocks[1].tick, meta.pair = "anchor0"))
    BY DEF FlatMarketNoGain
  <2> DEFINE M == Mod(blocks, head, ctx)
  <2>1. SoundInv
    BY DEF FlatInv, PayoutInv
  <2>2. Changed = M /\ Counted = {c \in 1 .. head : Counts(blocks, head, ctx, c)}
    BY <2>1, ChangedIs
  <2>3. OneEach(blocks, M)
    <3> HIDE DEF M
    <3> QED BY <2>2 DEF OneEach, OneChangeEach
  <2>4. ReadsAll(blocks)
    <3>1. \A b : b \in Counted /\ blocks[b].delta # <<>> => b \in M
      BY <2>2 DEF Mod
    <3> QED BY <3>1 DEF ReadsAll, OnlyMine
  <2>5. Quiet(blocks, result.now)
    BY DEF Quiet, Untouched
  <2>6. Still(blocks, t)
    BY DEF Still, Height
  <2>7. blocks[1].tick = t
    <3>1. 1 \in 1 .. Height
      BY <2>1, TipIs DEF SoundInv, ReaderInv, ChainInv
    <3> QED BY <3>1
  <2>8. FlatTold(blocks)
    BY DEF FlatInv, Done
  <2> HIDE DEF M
  <2>9. NoGain(t)
    BY <2>3, <2>4, <2>5, <2>6, <2>8 DEF FlatTold, M
  <2> QED BY <2>7, <2>9 DEF NoGain
<1> QED BY <1>1, FlatAlways, PTL

=============================================================================
