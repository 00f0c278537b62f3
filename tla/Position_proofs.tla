-------------------------- MODULE Position_proofs --------------------------
(***************************************************************************)
(* Theorems about PositionReader, and the lemmas on the operators of the   *)
(* readers and the core that Report_proofs rests on too.                   *)
(*                                                                         *)
(* ChainInv is what the chain guarantees: what is paid covers what is taken*)
(* out, a transaction that adds nothing costs nothing, tokens pass from    *)
(* holder to holder.  ReaderInv says what has been read of it: the events  *)
(* are those of the counted blocks, in order (RawOf), and where no state   *)
(* was lost a block's state is the chain's (StatesRead).  Between the two  *)
(* lie the operators of the decoders: WindowsAre (ownershipOf), FlowsAre   *)
(* (fetchOwnerFlowsByTx), NothingRefuted (reconcileRemovalTicks) and       *)
(* WalkSteps (buildV4Events), each the fold of one step over a sequence.   *)
(*                                                                         *)
(* Events are fair when a removal takes no more than its transaction       *)
(* collects (Fair): then every fee is an amount (ClaimsAre), and           *)
(* withdrawals and fees together are what was collected (CollectedIs).     *)
(* The events of v3 are fair because the chain pays for what it takes out  *)
(* (EventsFair); those that v4 decodes from raw changes are when the       *)
(* liquidity the walk carries is the chain's (LiqIs, MintDecoded).  The    *)
(* prices of v3 come from the amounts of an event, so from inside the AMM's*)
(* limits (EvidenceIs, FeedPriced).                                        *)
(***************************************************************************)
EXTENDS PositionReader, Library_proofs

-----------------------------------------------------------------------------
(* Picked *)

Picks(h, s, I) ==
    h = [n \in 0 .. Len(s) |->
          IF n = 0 THEN <<>> ELSE IF n \in I THEN Append(h[n - 1], s[n]) ELSE h[n - 1]]

LEMMA PickedIs == ASSUME NEW s, NEW I PROVE Picked(s, I) = (CHOOSE h : Picks(h, s, I))[Len(s)]
BY DEF Picked, Picks

\* Picked takes the entries at I, each once and in order: k says where each comes from.
Order(k, p, s, I) ==
    /\ k \in [1 .. Len(p) -> DOMAIN s]
    /\ \A i \in 1 .. Len(p) : p[i] = s[k[i]] /\ k[i] \in I
    /\ \A i, j \in 1 .. Len(p) : i < j => k[i] < k[j]
    /\ \A x \in DOMAIN s : x \in I => \E i \in 1 .. Len(p) : k[i] = x

LEMMA PickedInOrder ==
    ASSUME NEW T, NEW s \in Seq(T), NEW I
    PROVE  Picked(s, I) \in Seq(T) /\ \E k : Order(k, Picked(s, I), s, I)
<1>1. PICK n \in Nat : n = Len(s) /\ DOMAIN s = 1 .. n /\ \A i \in 1 .. n : s[i] \in T
  OBVIOUS
<1>2. PICK h \in [0 .. n -> Seq(T)] : Picks(h, s, I)
  <2> DEFINE G == [x \in (1 .. n) \X Seq(T) |-> IF x[1] \in I THEN Append(x[2], s[x[1]]) ELSE x[2]]
  <2>1. \A i \in 1 .. n : \A x \in Seq(T) : G[<<i, x>>] = IF i \in I THEN Append(x, s[i]) ELSE x
    OBVIOUS
  <2>2. \A i \in 1 .. n : \A x \in Seq(T) : G[<<i, x>>] \in Seq(T)
    <3> HIDE DEF G
    <3> SUFFICES ASSUME NEW i \in 1 .. n, NEW x \in Seq(T) PROVE G[<<i, x>>] \in Seq(T)
      OBVIOUS
    <3>1. s[i] \in T
      BY <1>1
    <3>2. Append(x, s[i]) \in Seq(T)
      BY <3>1
    <3> QED BY <2>1, <3>2
  <2>3. <<>> \in Seq(T)
    OBVIOUS
  <2> HIDE DEF G
  <2>4. PICK h \in [0 .. n -> Seq(T)] :
          h = [i \in 0 .. n |-> IF i = 0 THEN <<>> ELSE G[<<i, h[i - 1]>>]]
    <3> HIDE DEF G
    <3> DEFINE A == Seq(T)
           e == <<>>
    <3>1. /\ n \in Nat /\ e \in A
          /\ \A i \in 1 .. n : \A x \in A : G[<<i, x>>] \in A
      BY <1>1, <2>2, <2>3
    <3> HIDE DEF A, e
    <3>2. \E h \in [0 .. n -> A] : Recursion(h, n, e, G)
      BY <3>1, RecursionExists
    <3> QED BY <3>2 DEF A, e, Recursion
  <2>5. \A i \in 0 .. n : i # 0 => i \in 1 .. n /\ h[i - 1] \in Seq(T)
    BY <1>1
  <2>6. \A i \in 0 .. n :
          h[i] = IF i = 0 THEN <<>> ELSE IF i \in I THEN Append(h[i - 1], s[i]) ELSE h[i - 1]
    BY <2>1, <2>4, <2>5
  <2>7. Picks(h, s, I)
    BY <1>1, <2>4, <2>6 DEF Picks
  <2> QED BY <2>7
<1>3. PICK f : Picks(f, s, I) /\ Picked(s, I) = f[n]
  BY <1>1, <1>2, PickedIs
<1> DEFINE Prefix(i) == f[i] \in Seq(T) /\ \E k : Order(k, f[i], SubSeq(s, 1, i), I)
           P == {i \in 0 .. n : Prefix(i)}
<1>4. f[0] = <<>> /\ \A i \in 0 .. n - 1 : f[i + 1] = IF i + 1 \in I THEN Append(f[i], s[i + 1]) ELSE f[i]
  <2>1. \A i \in 0 .. n : f[i] = IF i = 0 THEN <<>> ELSE IF i \in I THEN Append(f[i - 1], s[i]) ELSE f[i - 1]
    BY <1>1, <1>3 DEF Picks
  <2>2. 0 \in 0 .. n /\ \A i \in 0 .. n - 1 : i + 1 \in 0 .. n /\ i + 1 # 0 /\ (i + 1) - 1 = i
    BY <1>1
  <2> QED BY <2>1, <2>2
<1>5. 0 \in P
  <2>1. SubSeq(s, 1, 0) = <<>>
    OBVIOUS
  <2>2. Order(<<>>, <<>>, <<>>, I)
    BY DEF Order
  <2>3. f[0] \in Seq(T) /\ Order(<<>>, f[0], SubSeq(s, 1, 0), I)
    <3>1. <<>> \in Seq(T)
      OBVIOUS
    <3>2. f[0] = <<>>
      BY <1>4
    <3> QED BY <2>1, <2>2, <3>1, <3>2
  <2>4. Prefix(0)
    BY <2>3
  <2> HIDE DEF Prefix
  <2> QED BY <1>1, <2>4
<1>6. ASSUME NEW i \in 0 .. n - 1, i \in P PROVE i + 1 \in P
  <2>1. i \in Nat /\ i + 1 \in 1 .. n /\ i + 1 \in 0 .. n /\ s[i + 1] \in T
    BY <1>1
  <2> DEFINE before == SubSeq(s, 1, i)
             upTo == SubSeq(s, 1, i + 1)
  <2>2. PICK k : f[i] \in Seq(T) /\ Order(k, f[i], before, I)
    BY <1>6
  <2>3. /\ DOMAIN before = 1 .. i /\ DOMAIN upTo = 1 .. i + 1
        /\ \A x \in 1 .. i : before[x] = s[x] /\ upTo[x] = s[x]
        /\ upTo[i + 1] = s[i + 1]
    BY <1>1
  <2> HIDE DEF before, upTo
  <2>4. CASE i + 1 \in I
    <3> DEFINE m == Len(f[i])
               j == [x \in 1 .. m + 1 |-> IF x = m + 1 THEN i + 1 ELSE k[x]]
    <3>1. f[i + 1] = Append(f[i], s[i + 1]) /\ m \in Nat
      <4>1. m \in Nat
        BY <2>2
      <4> HIDE DEF m
      <4> QED BY <1>4, <2>4, <4>1
    <3>2. /\ f[i + 1] \in Seq(T) /\ Len(f[i + 1]) = m + 1
          /\ \A x \in 1 .. m : f[i + 1][x] = f[i][x]
          /\ f[i + 1][m + 1] = s[i + 1]
      BY <2>1, <2>2, <3>1
    <3>3. /\ \A x \in 1 .. m : k[x] \in 1 .. i /\ j[x] = k[x]
          /\ j[m + 1] = i + 1
      <4>1. \A x \in 1 .. m : k[x] \in 1 .. i
        BY <2>2, <2>3 DEF Order
      <4>2. m + 1 \in 1 .. m + 1 /\ \A x \in 1 .. m : x \in 1 .. m + 1 /\ x # m + 1
        BY <3>1
      <4> HIDE DEF m
      <4> QED BY <4>1, <4>2
    <3>4. j \in [1 .. m + 1 -> 1 .. i + 1]
      <4>1. \A x \in 1 .. m + 1 : j[x] \in 1 .. i + 1
        <5> SUFFICES ASSUME NEW x \in 1 .. m + 1 PROVE j[x] \in 1 .. i + 1
          OBVIOUS
        <5>1. CASE x = m + 1
          <6>1. i + 1 \in 1 .. i + 1
            BY <2>1
          <6> QED BY <3>3, <5>1, <6>1
        <5>2. CASE x # m + 1
          <6>1. x \in 1 .. m
            BY <3>1, <5>2, SMTT(30)
          <6>2. j[x] = k[x] /\ k[x] \in 1 .. i
            BY <3>3, <6>1
          <6> QED BY <2>1, <6>2
        <5> QED BY <5>1, <5>2
      <4> QED BY <4>1
    <3> HIDE DEF j, m
    <3>5. \A x \in 1 .. m + 1 : f[i + 1][x] = upTo[j[x]] /\ j[x] \in I
      <4> SUFFICES ASSUME NEW x \in 1 .. m + 1 PROVE f[i + 1][x] = upTo[j[x]] /\ j[x] \in I
        OBVIOUS
      <4>1. CASE x = m + 1
        BY <2>3, <2>4, <3>2, <3>3, <4>1
      <4>2. CASE x # m + 1
        <5>1. x \in 1 .. m
          BY <3>1, <4>2
        <5>2. f[i][x] = before[k[x]] /\ k[x] \in I
          BY <2>2, <5>1 DEF Order, m
        <5> QED BY <2>3, <3>2, <3>3, <5>1, <5>2
      <4> QED BY <4>1, <4>2
    <3>6. \A x, y \in 1 .. m + 1 : x < y => j[x] < j[y]
      <4> SUFFICES ASSUME NEW x \in 1 .. m + 1, NEW y \in 1 .. m + 1, x < y PROVE j[x] < j[y]
        OBVIOUS
      <4>1. x \in 1 .. m
        BY <3>1
      <4>2. CASE y = m + 1
        <5>1. j[x] \in 1 .. i /\ j[y] = i + 1
          BY <3>3, <4>1, <4>2
        <5> QED BY <2>1, <5>1
      <4>3. CASE y # m + 1
        <5>1. y \in 1 .. m
          BY <3>1, <4>3
        <5>2. k[x] < k[y]
          BY <2>2, <4>1, <5>1 DEF Order, m
        <5> QED BY <3>3, <4>1, <5>1, <5>2
      <4> QED BY <4>2, <4>3
    <3>7. \A x \in 1 .. i + 1 : x \in I => \E y \in 1 .. m + 1 : j[y] = x
      <4> SUFFICES ASSUME NEW x \in 1 .. i + 1, x \in I PROVE \E y \in 1 .. m + 1 : j[y] = x
        OBVIOUS
      <4>1. CASE x = i + 1
        <5>1. m + 1 \in 1 .. m + 1
          BY <3>1
        <5> QED BY <3>3, <4>1, <5>1
      <4>2. CASE x # i + 1
        <5>1. x \in 1 .. i
          BY <2>1, <4>2
        <5>2. PICK y \in 1 .. m : k[y] = x
          BY <2>2, <2>3, <5>1 DEF Order, m
        <5>3. y \in 1 .. m + 1
          BY <3>1
        <5> QED BY <3>3, <5>2, <5>3
      <4> QED BY <4>1, <4>2
    <3>8. Order(j, f[i + 1], upTo, I)
      BY <2>3, <3>2, <3>4, <3>5, <3>6, <3>7 DEF Order
    <3> QED BY <2>1, <3>2, <3>8 DEF upTo
  <2>5. CASE i + 1 \notin I
    <3>1. f[i + 1] = f[i]
      BY <1>4, <2>5
    <3>2. Order(k, f[i], upTo, I)
      <4>1. k \in [1 .. Len(f[i]) -> 1 .. i] /\ (1 .. i) \subseteq (1 .. i + 1)
        BY <2>1, <2>2, <2>3 DEF Order
      <4>2. k \in [1 .. Len(f[i]) -> 1 .. i + 1]
        BY <4>1
      <4>3. \A x \in 1 .. i + 1 : x \in I => x \in 1 .. i
        <5> SUFFICES ASSUME NEW x \in 1 .. i + 1, x \in I PROVE x \in 1 .. i
          OBVIOUS
        <5>1. x # i + 1
          BY <2>5
        <5> QED BY <2>1, <5>1
      <4> QED BY <2>2, <2>3, <4>1, <4>2, <4>3 DEF Order
    <3> QED BY <2>1, <2>2, <3>1, <3>2 DEF upTo
  <2> QED BY <2>4, <2>5
<1>7. n \in P
  <2> HIDE DEF P
  <2>1. \A i \in 0 .. n : i \in P
    BY <1>1, <1>5, <1>6, CountUp
  <2> QED BY <1>1, <2>1
<1>8. SubSeq(s, 1, n) = s
  BY <1>1
<1> QED BY <1>3, <1>7, <1>8

-----------------------------------------------------------------------------
(* Amounts *)

Amount == Nat \X Nat
AtMost(a, b) == a[1] <= b[1] /\ a[2] <= b[2]

LEMMA ClampIn == ASSUME NEW t \in Int PROVE Clamp(t) \in TickLower .. TickUpper
BY TicksOrdered DEF Clamp

LEMMA TimesNat == ASSUME NEW a \in Nat, NEW b \in Nat PROVE a * b \in Nat
OBVIOUS

LEMMA AmountsAre ==
    ASSUME NEW L \in Nat, NEW t \in Int PROVE amountsFromLiquidity(L, t) \in Amount
<1>1. Clamp(t) \in TickLower .. TickUpper /\ TickLower \in Nat /\ TickUpper \in Nat
  BY ClampIn, TicksOrdered
<1>3. TickUpper - Clamp(t) \in Nat /\ Clamp(t) - TickLower \in Nat
  BY <1>1
<1>2. L * (TickUpper - Clamp(t)) \in Nat /\ L * (Clamp(t) - TickLower) \in Nat
  BY <1>3, TimesNat
<1> QED BY <1>2 DEF amountsFromLiquidity, Amount

LEMMA PlusIs ==
    ASSUME NEW a \in Amount, NEW b \in Amount
    PROVE  Plus(a, b) \in Amount /\ AtMost(a, Plus(a, b)) /\ AtMost(b, Plus(a, b))
BY DEF Plus, Amount, AtMost

LEMMA ZeroIs == Zero \in Amount /\ \A a \in Amount : AtMost(Zero, a)
BY DEF Zero, Amount, AtMost

LEMMA AtMostTrans ==
    ASSUME NEW a \in Amount, NEW b \in Amount, NEW c \in Amount, AtMost(a, b), AtMost(b, c)
    PROVE  AtMost(a, c)
BY DEF AtMost, Amount

First(f) == [x \in DOMAIN f |-> f[x][1]]
Second(f) == [x \in DOMAIN f |-> f[x][2]]

LEMMA TotalIs ==
    ASSUME NEW f
    PROVE  Total(f) = <<SumFunctionOnSet(First(f), DOMAIN f), SumFunctionOnSet(Second(f), DOMAIN f)>>
BY DEF Total, SumFunction, First, Second

\* A member of a sum of naturals is no more than the sum.
LEMMA SumMember ==
    ASSUME NEW S, IsFiniteSet(S), NEW f, \A x \in S : f[x] \in Nat, NEW y \in S
    PROVE  f[y] <= SumFunctionOnSet(f, S)
<1>1. IsFiniteSet(S \ {y}) /\ S = (S \ {y}) \cup {y} /\ y \notin S \ {y}
      /\ \A x \in (S \ {y}) \cup {y} : f[x] \in Int
  BY FS_Subset
<1>2. SumFunctionOnSet(f, (S \ {y}) \cup {y}) = f[y] + SumFunctionOnSet(f, S \ {y})
  BY <1>1, SumInsert
<1>3. SumFunctionOnSet(f, S \ {y}) \in Nat
  BY <1>1, SumNat
<1>4. SumFunctionOnSet(f, S) = f[y] + SumFunctionOnSet(f, S \ {y}) /\ f[y] \in Nat
  BY <1>1, <1>2
<1> QED BY <1>3, <1>4

LEMMA TotalNat ==
    ASSUME NEW f, IsFiniteSet(DOMAIN f), \A x \in DOMAIN f : f[x] \in Amount
    PROVE  Total(f) \in Amount /\ \A x \in DOMAIN f : AtMost(f[x], Total(f))
<1>1. \A x \in DOMAIN f : First(f)[x] = f[x][1] /\ Second(f)[x] = f[x][2]
                          /\ First(f)[x] \in Nat /\ Second(f)[x] \in Nat
  BY DEF First, Second, Amount
<1> DEFINE S == DOMAIN f
<1>2. SumFunctionOnSet(First(f), S) \in Nat /\ SumFunctionOnSet(Second(f), S) \in Nat
  <2>1. IsFiniteSet(S) /\ \A x \in S : First(f)[x] \in Nat /\ Second(f)[x] \in Nat
    BY <1>1
  <2> HIDE DEF S
  <2> QED BY <2>1, SumNat
<1>3. ASSUME NEW x \in S
      PROVE  First(f)[x] <= SumFunctionOnSet(First(f), S) /\ Second(f)[x] <= SumFunctionOnSet(Second(f), S)
  <2>1. IsFiniteSet(S) /\ \A y \in S : First(f)[y] \in Nat /\ Second(f)[y] \in Nat
    BY <1>1
  <2> HIDE DEF S
  <2> QED BY <2>1, SumMember
<1> QED BY <1>1, <1>2, <1>3, TotalIs DEF AtMost, Amount

LEMMA TotalNone == ASSUME NEW f, DOMAIN f = {} PROVE Total(f) = Zero
BY TotalIs, SumEmpty DEF Zero

LEMMA DeltaFinite == ASSUME NEW delta \in Seq(Int), NEW S \in SUBSET DOMAIN delta PROVE IsFiniteSet(S)
<1>1. DOMAIN delta = 1 .. Len(delta) /\ Len(delta) \in Nat
  OBVIOUS
<1>2. IsFiniteSet(1 .. Len(delta))
  BY <1>1, FS_Interval
<1> QED BY <1>1, <1>2, FS_Subset

LEMMA PutInIs ==
    ASSUME NEW delta \in Seq(Int), NEW t \in Int
    PROVE  /\ PutIn(delta, t) \in Amount
           /\ (\A i \in DOMAIN delta : delta[i] <= 0) => PutIn(delta, t) = Zero
<1> DEFINE S == {i \in DOMAIN delta : delta[i] > 0}
           f == [i \in S |-> amountsFromLiquidity(delta[i], t)]
<1>1. IsFiniteSet(S) /\ DOMAIN f = S
  BY DeltaFinite
<1>2. \A i \in S : f[i] \in Amount
  <2> SUFFICES ASSUME NEW i \in S PROVE amountsFromLiquidity(delta[i], t) \in Amount
    OBVIOUS
  <2>1. delta[i] \in Nat
    OBVIOUS
  <2> QED BY <2>1, AmountsAre
<1>3. PutIn(delta, t) = Total(f)
  BY DEF PutIn
<1>4. (\A i \in DOMAIN delta : delta[i] <= 0) => S = {}
  OBVIOUS
<1> HIDE DEF f, S
<1> QED BY <1>1, <1>2, <1>3, <1>4, TotalNat, TotalNone

LEMMA TakenOutIs ==
    ASSUME NEW delta \in Seq(Int), NEW t \in Int
    PROVE  /\ TakenOut(delta, t) \in Amount
           /\ \A i \in DOMAIN delta : delta[i] < 0 =>
                AtMost(amountsFromLiquidity(-delta[i], t), TakenOut(delta, t))
<1> DEFINE S == {i \in DOMAIN delta : delta[i] < 0}
           f == [i \in S |-> amountsFromLiquidity(-delta[i], t)]
<1>1. IsFiniteSet(S) /\ DOMAIN f = S
  BY DeltaFinite
<1>2. \A i \in S : f[i] \in Amount
  <2> SUFFICES ASSUME NEW i \in S PROVE amountsFromLiquidity(-delta[i], t) \in Amount
    OBVIOUS
  <2>1. -delta[i] \in Nat
    OBVIOUS
  <2> QED BY <2>1, AmountsAre
<1>3. TakenOut(delta, t) = Total(f)
  BY DEF TakenOut
<1>4. \A i \in DOMAIN delta : delta[i] < 0 => i \in S /\ f[i] = amountsFromLiquidity(-delta[i], t)
  OBVIOUS
<1> HIDE DEF f, S
<1>5. Total(f) \in Amount /\ \A i \in S : AtMost(f[i], Total(f))
  BY <1>1, <1>2, TotalNat
<1> QED BY <1>3, <1>4, <1>5

-----------------------------------------------------------------------------
(* The chain *)

Block ==
    [tick : MinTick .. MaxTick, after : MinTick .. MaxTick, delta : Seq(Int), growth : Nat,
     liq : Nat, owner : {Me, Other}, next : {Me, Other, Nobody}, spent : Amount, paid : Amount]

\* What holds of block x, given the one before it.
Follows(x, before) ==
    x.owner = before.next /\ x.liq = before.liq + Net(x.delta)

Mints(x) == x.next = x.owner /\ x.delta = <<Opening>> /\ x.liq = Opening /\ x.paid = Zero

\* What is paid covers whatever was taken out, when anything is paid; in v4 it always is.
Covers(x, v) ==
    v = "v4" \/ x.paid # Zero =>
        \A i \in DOMAIN x.delta : x.delta[i] < 0 =>
            AtMost(amountsFromLiquidity(-x.delta[i], x.tick), x.paid)

Honest(x, v) ==
    /\ x.delta = <<>> => x.paid = Zero /\ x.spent = Zero
    /\ x.delta # <<>> => x.next \in {x.owner, Nobody}
    /\ (\A i \in DOMAIN x.delta : x.delta[i] <= 0) => x.spent = Zero
    /\ Covers(x, v)

Owed == [fees : Amount, principal : Amount, since : Nat]

ChainInv ==
    /\ version \in {"v3", "v4"}
    /\ blocks \in Seq(Block) /\ Height \in 1 .. MaxBlocks
    /\ owed \in Owed /\ owed.since <= Tip.growth
    /\ \A b \in 1 .. Height : Honest(blocks[b], version)
    /\ Mints(blocks[1])
    /\ \A b \in 2 .. Height : Follows(blocks[b], blocks[b - 1])

LEMMA ChainStarts == ASSUME ChainInit PROVE ChainInv
<1>1. PICK who \in {Me, Other}, t \in Ticks :
          blocks = <<[tick |-> t, after |-> t, delta |-> <<Opening>>, growth |-> 0,
                      liq |-> Opening, owner |-> who, next |-> who,
                      spent |-> amountsFromLiquidity(Opening, t), paid |-> Zero]>>
  BY DEF ChainInit
<1> DEFINE x == [tick |-> t, after |-> t, delta |-> <<Opening>>, growth |-> 0,
                 liq |-> Opening, owner |-> who, next |-> who,
                 spent |-> amountsFromLiquidity(Opening, t), paid |-> Zero]
<1>2. t \in MinTick .. MaxTick /\ t \in Int /\ Opening \in Nat /\ Opening > 0
  <2>1. t \in MinTick .. MaxTick /\ MinTick \in Int /\ MaxTick \in Int
    BY ChainAssumption, TicksOrdered
  <2> QED BY <2>1, ChainAssumption
<1>3. x \in Block
  <2>1. amountsFromLiquidity(Opening, t) \in Amount /\ Zero \in Amount /\ <<Opening>> \in Seq(Int)
    BY <1>2, AmountsAre, ZeroIs
  <2> QED BY <1>2, <2>1 DEF Block
<1>4. Honest(x, version)
  <2>1. x.delta = <<Opening>> /\ x.next = x.owner
    OBVIOUS
  <2>2. DOMAIN x.delta = {1} /\ x.delta[1] = Opening /\ x.delta # <<>>
    BY <2>1
  <2> HIDE DEF x
  <2> QED BY <1>2, <2>1, <2>2 DEF Honest, Covers
<1>5. blocks = <<x>> /\ Mints(x)
  BY <1>1 DEF Mints
<1> HIDE DEF x
<1>6. Height = 1 /\ blocks[1] = x /\ blocks \in Seq(Block) /\ Tip = x
  BY <1>3, <1>5 DEF Height, Tip
<1>7. version \in {"v3", "v4"} /\ owed \in Owed /\ owed.since <= Tip.growth
  <2>1. owed = [fees |-> Zero, principal |-> Zero, since |-> 0] /\ version \in {"v3", "v4"}
    BY DEF ChainInit
  <2>2. Tip.growth \in Nat
    BY <1>3, <1>6 DEF Block
  <2> QED BY <2>1, <2>2, ZeroIs DEF Owed
<1>8. 1 \in 1 .. MaxBlocks
  BY ChainAssumption
<1> QED BY <1>4, <1>5, <1>6, <1>7, <1>8 DEF ChainInv

\* A block put after the others keeps them what they were.
LEMMA ChainGrows ==
    ASSUME ChainInv, NEW x \in Block, blocks' = Append(blocks, x), version' = version,
           Height < MaxBlocks, Honest(x, version), Follows(x, Tip),
           owed' \in Owed, owed'.since <= x.growth
    PROVE  ChainInv'
<1>1. blocks \in Seq(Block) /\ Height \in 1 .. MaxBlocks /\ Height = Len(blocks) /\ Height \in Nat
  BY DEF ChainInv, Height
<1>2. /\ blocks' \in Seq(Block) /\ Height' = Height + 1 /\ blocks'[Height + 1] = x
      /\ \A b \in 1 .. Height : blocks'[b] = blocks[b]
  BY <1>1 DEF Height
<1>3. Tip' = x
  BY <1>2 DEF Tip
<1>4. Height + 1 \in 1 .. MaxBlocks
  BY <1>1, ChainAssumption
<1>5. ASSUME NEW b \in 1 .. Height + 1 PROVE Honest(blocks'[b], version)
  <2>1. b \in 1 .. Height \/ b = Height + 1
    BY <1>1
  <2> QED BY <1>2, <2>1 DEF ChainInv
<1>6. Mints(blocks'[1])
  <2>1. 1 \in 1 .. Height
    BY <1>1
  <2> QED BY <1>2, <2>1 DEF ChainInv
<1>7. ASSUME NEW b \in 2 .. Height + 1 PROVE Follows(blocks'[b], blocks'[b - 1])
  <2>1. CASE b = Height + 1
    <3>1. b - 1 = Height /\ Height \in 1 .. Height /\ blocks[Height] = Tip
      BY <1>1, <2>1 DEF Tip
    <3> QED BY <1>2, <2>1, <3>1
  <2>2. CASE b # Height + 1
    <3>1. b \in 2 .. Height /\ b \in 1 .. Height /\ b - 1 \in 1 .. Height
      BY <1>1, <2>2
    <3> QED BY <1>2, <3>1 DEF ChainInv
  <2> QED BY <2>1, <2>2
<1>8. version' \in {"v3", "v4"}
  BY DEF ChainInv
<1>9. Mints(blocks[1])' <=> Mints(blocks'[1])
  BY DEF Mints
<1>10. \A b \in 1 .. Height' : Honest(blocks'[b], version')
  BY <1>2, <1>5
<1>11. \A b \in 2 .. Height' : Follows(blocks'[b], blocks'[b - 1])
  BY <1>2, <1>7
<1> QED BY <1>2, <1>3, <1>4, <1>6, <1>8, <1>9, <1>10, <1>11 DEF ChainInv, Honest, Covers, Follows, Mints

LEMMA NetIs ==
    ASSUME NEW delta \in Seq(Int)
    PROVE  /\ Net(delta) \in Int
           /\ delta = <<>> => Net(delta) = 0
           /\ \A d : delta = <<d>> => Net(delta) = d
<1>1. IsFiniteSet(DOMAIN delta) /\ \A i \in DOMAIN delta : delta[i] \in Int
  BY DeltaFinite
<1>2. Net(delta) = SumFunctionOnSet(delta, DOMAIN delta)
  BY DEF Net, SumFunction
<1>3. delta = <<>> => DOMAIN delta = {}
  OBVIOUS
<1>4. ASSUME NEW d, delta = <<d>> PROVE SumFunctionOnSet(delta, DOMAIN delta) = d
  <2>1. DOMAIN delta = {} \cup {1} /\ 1 \notin {} /\ delta[1] = d /\ d \in Int
    BY <1>4
  <2>2. IsFiniteSet({}) /\ \A x \in {} \cup {1} : delta[x] \in Int
    BY <2>1, FS_EmptySet
  <2>3. SumFunctionOnSet(delta, {} \cup {1}) = delta[1] + SumFunctionOnSet(delta, {})
    BY <2>1, <2>2, SumInsert
  <2> QED BY <2>1, <2>3, SumEmpty
<1> QED BY <1>1, <1>2, <1>3, <1>4, SumInt, SumEmpty

LEMMA TipIs == ASSUME ChainInv PROVE Tip \in Block /\ Tip = blocks[Height] /\ Height \in Nat
BY DEF ChainInv, Tip, Height

LEMMA PassKeeps == ASSUME ChainInv, Height < MaxBlocks, Pass PROVE ChainInv'
<1>1. PICK t \in Ticks \cup LateTicks, grown \in Growths, next \in {Me, Other} :
        /\ Tip.next # Nobody
        /\ blocks' = Append(blocks,
             [tick |-> t, after |-> t, delta |-> <<>>, growth |-> Tip.growth + grown,
              liq |-> Tip.liq, owner |-> Tip.next, next |-> next, spent |-> Zero, paid |-> Zero])
  BY DEF Pass
<1> DEFINE x == [tick |-> t, after |-> t, delta |-> <<>>, growth |-> Tip.growth + grown,
                 liq |-> Tip.liq, owner |-> Tip.next, next |-> next, spent |-> Zero, paid |-> Zero]
<1>2. version' = version /\ owed' = owed
  BY DEF Pass
<1>3. /\ t \in MinTick .. MaxTick /\ grown \in Nat /\ <<>> \in Seq(Int)
      /\ Tip.next \in {Me, Other, Nobody} /\ Tip.liq \in Nat /\ Tip.growth \in Nat
  BY TipIs, ChainAssumption DEF Block
<1>4. x \in Block
  <2>1. Tip.growth + grown \in Nat /\ Tip.next \in {Me, Other}
    BY <1>1, <1>3
  <2> QED BY <1>3, <2>1, ZeroIs DEF Block
<1>5. Honest(x, version) /\ Follows(x, Tip)
  <2>1. DOMAIN <<>> = {} /\ Net(<<>>) = 0
    <3>1. DOMAIN <<>> = {}
      OBVIOUS
    <3> DEFINE none == <<>>
    <3>2. none \in Seq(Int) /\ none = <<>>
      OBVIOUS
    <3> HIDE DEF none
    <3>3. Net(none) = 0
      BY <3>2, NetIs
    <3> QED BY <3>1, <3>2, <3>3
  <2>2. Tip.liq + 0 = Tip.liq
    BY <1>3
  <2> QED BY <2>1, <2>2 DEF Honest, Covers, Follows
<1>6. owed' \in Owed /\ owed'.since <= x.growth
  <2>1. owed \in Owed /\ owed.since \in Nat /\ owed.since <= Tip.growth
    BY DEF ChainInv, Owed
  <2> QED BY <1>2, <1>3, <2>1
<1>7. blocks' = Append(blocks, x)
  BY <1>1
<1> HIDE DEF x
<1> QED BY <1>2, <1>4, <1>5, <1>6, <1>7, ChainGrows

LEMMA ChangeKeeps == ASSUME ChainInv, Height < MaxBlocks, Change PROVE ChainInv'
<1>0. PICK t \in Ticks, delta \in Changes, grown \in Growths, collects \in BOOLEAN, burnt \in BOOLEAN :
        \E after \in {t} \cup LateTicks : ChangeOf(t, after, delta, grown, collects, burnt)
  BY DEF Change
<1>1. PICK after \in {t} \cup LateTicks : ChangeOf(t, after, delta, grown, collects, burnt)
  BY <1>0
<1> DEFINE g == Tip.growth + grown
           L == Tip.liq + Net(delta)
           fees == Plus(owed.fees, Earned(g, Tip.liq))
           principal == Plus(owed.principal, TakenOut(delta, t))
           paid == IF collects THEN Plus(principal, fees) ELSE Zero
           next == IF burnt THEN Nobody ELSE Tip.next
           x == [tick |-> t, after |-> after, delta |-> delta, growth |-> g, liq |-> L,
                 owner |-> Tip.next, next |-> next, spent |-> PutIn(delta, t), paid |-> paid]
<1>2. version' = version
  BY <1>1 DEF ChangeOf
<1>3. /\ t \in MinTick .. MaxTick /\ after \in MinTick .. MaxTick /\ t \in Int
      /\ delta \in Seq(Int) /\ delta # <<>> /\ grown \in Nat
  <2>1. MinTick \in Int /\ MaxTick \in Int
    BY TicksOrdered
  <2>2. t \in MinTick .. MaxTick /\ after \in MinTick .. MaxTick
    BY ChainAssumption
  <2>3. delta \in Seq(Int) /\ delta # <<>> /\ grown \in Nat
    BY ChainAssumption
  <2> QED BY <2>1, <2>2, <2>3
<1>4. /\ Tip.next \in {Me, Other} /\ Tip.liq \in Nat /\ Tip.growth \in Nat
      /\ owed \in Owed /\ owed.since \in Nat /\ owed.since <= Tip.growth
      /\ owed.fees \in Amount /\ owed.principal \in Amount
  BY <1>1, TipIs DEF Block, ChainInv, Owed, ChangeOf
<1>5. g \in Nat /\ L \in Nat /\ Tip.growth <= g
  <2>1. Net(delta) \in Int
    BY <1>3, NetIs
  <2>2. Tip.liq + Net(delta) >= 0
    <3>1. SubSeq(delta, 1, Len(delta)) = delta /\ Len(delta) \in DOMAIN delta
      BY <1>3
    <3> QED BY <1>1, <3>1 DEF ChangeOf
  <2> QED BY <1>3, <1>4, <2>1, <2>2, SMTT(30)
<1>6. Earned(g, Tip.liq) \in Amount
  <2>1. (g - owed.since) \in Nat
    BY <1>4, <1>5
  <2>2. (g - owed.since) * Tip.liq \in Nat
    BY <1>4, <2>1, TimesNat
  <2> QED BY <2>2 DEF Earned, Amount
<1>7. TakenOut(delta, t) \in Amount /\ PutIn(delta, t) \in Amount
  BY <1>3, TakenOutIs, PutInIs
<1> HIDE DEF g, L
<1>8. fees \in Amount /\ principal \in Amount /\ AtMost(TakenOut(delta, t), principal)
  BY <1>4, <1>6, <1>7, PlusIs
<1> HIDE DEF fees, principal
<1>9. paid \in Amount /\ (collects => AtMost(TakenOut(delta, t), paid))
  <2>1. Plus(principal, fees) \in Amount /\ AtMost(principal, Plus(principal, fees))
    BY <1>8, PlusIs
  <2>2. AtMost(TakenOut(delta, t), Plus(principal, fees))
    BY <1>7, <1>8, <2>1, AtMostTrans
  <2> QED BY <2>1, <2>2, ZeroIs
<1>10. paid # Zero => collects
  OBVIOUS
<1>11. version = "v4" => collects
  BY <1>1 DEF ChangeOf
<1>12. next \in {Me, Other, Nobody} /\ next \in {Tip.next, Nobody}
  BY <1>4
<1>13. owed' \in Owed /\ owed'.since = g
  <2>1. owed' = IF collects THEN [fees |-> Zero, principal |-> Zero, since |-> g]
                ELSE [fees |-> fees, principal |-> principal, since |-> g]
    BY <1>1 DEF ChangeOf, fees, principal, g
  <2> QED BY <1>5, <1>8, <2>1, ZeroIs DEF Owed
<1>14. blocks' = Append(blocks, x)
  BY <1>1 DEF ChangeOf, fees, principal, g, L
<1> HIDE DEF paid, next
<1>15. x \in Block
  BY <1>3, <1>4, <1>5, <1>7, <1>9, <1>12 DEF Block
<1>16. Honest(x, version)
  <2>1. (\A i \in DOMAIN delta : delta[i] <= 0) => PutIn(delta, t) = Zero
    BY <1>3, PutInIs
  <2>2. ASSUME collects, NEW i \in DOMAIN delta, delta[i] < 0
        PROVE  AtMost(amountsFromLiquidity(-delta[i], t), paid)
    <3>1. AtMost(amountsFromLiquidity(-delta[i], t), TakenOut(delta, t))
      BY <1>3, <2>2, TakenOutIs
    <3>2. amountsFromLiquidity(-delta[i], t) \in Amount
      <4>1. -delta[i] \in Nat
        BY <1>3, <2>2
      <4> QED BY <1>3, <4>1, AmountsAre
    <3> QED BY <1>7, <1>9, <2>2, <3>1, <3>2, AtMostTrans
  <2> QED BY <1>3, <1>10, <1>11, <1>12, <2>1, <2>2 DEF Honest, Covers
<1>17. Follows(x, Tip)
  BY DEF Follows, L
<1>18. owed'.since <= x.growth
  BY <1>5, <1>13
<1> HIDE DEF x
<1> QED BY <1>2, <1>13, <1>14, <1>15, <1>16, <1>17, <1>18, ChainGrows

LEMMA MineKeeps == ASSUME ChainInv, Mine PROVE ChainInv'
BY PassKeeps, ChangeKeeps DEF Mine

LEMMA ChainStays == ASSUME ChainInv, UNCHANGED chainVars PROVE ChainInv'
BY DEF ChainInv, chainVars, Height, Tip, Honest, Covers, Follows, Mints

-----------------------------------------------------------------------------
(* Whose the blocks are *)

Transfer == [block : Nat, to : {Me, Other, Nobody}, from : {Me, Other, Nobody}]
Ownerships ==
    [windows : Seq([from : Nat, to : Nat \cup {HeldOn}]), open : BOOLEAN, soldAt : Nat \cup {Nobody}]

NeverHeld == [windows |-> <<>>, open |-> FALSE, soldAt |-> Nobody]

LEMMA StepIn ==
    ASSUME NEW o \in Ownerships, NEW t \in Transfer PROVE Step(Me, o, t) \in Ownerships
<1> DEFINE Windows == [from : Nat, to : Nat \cup {HeldOn}]
           n == Len(o.windows)
           arrived == Append(o.windows, [from |-> t.block, to |-> HeldOn])
           left == [o.windows EXCEPT ![n].to = t.block]
<1>1. o.windows \in Seq(Windows) /\ n \in Nat /\ t.block \in Nat
  BY DEF Ownerships, Transfer
<1>2. arrived \in Seq(Windows)
  BY <1>1
<1>3. left \in Seq(Windows)
  <2>1. \A i \in 1 .. n : left[i] \in Windows
    <3> SUFFICES ASSUME NEW i \in 1 .. n PROVE left[i] \in Windows
      OBVIOUS
    <3>1. o.windows[i] \in Windows
      <4> HIDE DEF Windows, left, arrived
      <4> QED BY <1>1
    <3>2. left[i] = IF i = n THEN [o.windows[i] EXCEPT !.to = t.block] ELSE o.windows[i]
      BY <1>1
    <3> QED BY <1>1, <3>1, <3>2
  <2>2. DOMAIN left = 1 .. n
    BY <1>1
  <2>3. left = [i \in 1 .. n |-> left[i]]
    BY <2>2
  <2> HIDE DEF left
  <2>4. [i \in 1 .. n |-> left[i]] \in Seq(Windows)
    BY <1>1, <2>1
  <2> QED BY <2>3, <2>4
<1> HIDE DEF arrived, left
<1>4. Step(Me, o, t) \in
        {o, [windows |-> arrived, open |-> TRUE, soldAt |-> Nobody],
         [windows |-> left, open |-> FALSE, soldAt |-> IF t.to = Nobody THEN Nobody ELSE t.block]}
  BY DEF Step, arrived, left
<1>5. /\ [windows |-> arrived, open |-> TRUE, soldAt |-> Nobody] \in Ownerships
      /\ [windows |-> left, open |-> FALSE, soldAt |-> IF t.to = Nobody THEN Nobody ELSE t.block]
           \in Ownerships
  BY <1>1, <1>2, <1>3 DEF Ownerships
<1> QED BY <1>4, <1>5

Owns(f, T) == /\ f[0] = NeverHeld
              /\ \A i \in 1 .. Len(T) : f[i] = Step(Me, f[i - 1], T[i])

\* ownershipOf is the transfers' steps, one after the other.
LEMMA OwnershipSteps ==
    ASSUME NEW T \in Seq(Transfer)
    PROVE  \E f \in [0 .. Len(T) -> Ownerships] : Owns(f, T) /\ ownershipOf(T, Me) = f[Len(T)]
<1> DEFINE Fold(f) == f = [i \in 0 .. Len(T) |->
                             IF i = 0 THEN NeverHeld ELSE Step(Me, f[i - 1], T[i])]
<1>1. PICK n \in Nat : n = Len(T) /\ \A i \in 1 .. n : T[i] \in Transfer
  OBVIOUS
<1>2. NeverHeld \in Ownerships
  BY DEF NeverHeld, Ownerships
<1>3. PICK h \in [0 .. n -> Ownerships] : Fold(h)
  <2> DEFINE G == [x \in (1 .. n) \X Ownerships |-> Step(Me, x[2], T[x[1]])]
  <2>1. \A i \in 1 .. n : \A x \in Ownerships : G[<<i, x>>] = Step(Me, x, T[i])
    OBVIOUS
  <2>2. \A i \in 1 .. n : \A x \in Ownerships : G[<<i, x>>] \in Ownerships
    <3> HIDE DEF G
    <3> QED BY <1>1, <2>1, StepIn
  <2> HIDE DEF G
  <2>3. PICK h \in [0 .. n -> Ownerships] : Recursion(h, n, NeverHeld, G)
    BY <1>2, <2>2, RecursionExists
  <2>4. \A i \in 0 .. n : i # 0 => i \in 1 .. n /\ h[i - 1] \in Ownerships
    BY <1>1
  <2>5. h = [i \in 0 .. n |-> IF i = 0 THEN NeverHeld ELSE G[<<i, h[i - 1]>>]]
    BY <2>3 DEF Recursion
  <2>6. \A i \in 0 .. n : h[i] = IF i = 0 THEN NeverHeld ELSE Step(Me, h[i - 1], T[i])
    BY <2>1, <2>4, <2>5
  <2>7. h = [i \in 0 .. n |-> IF i = 0 THEN NeverHeld ELSE Step(Me, h[i - 1], T[i])]
    BY <2>6
  <2> QED BY <1>1, <2>7
<1>4. PICK f : Fold(f) /\ ownershipOf(T, Me) = f[n]
  <2>1. ownershipOf(T, Me) = (CHOOSE f : Fold(f))[n]
    BY <1>1 DEF ownershipOf, NeverHeld
  <2> HIDE DEF Fold
  <2> QED BY <1>3, <2>1
<1>5. \A g : Fold(g) => g[0] = NeverHeld /\ \A i \in 1 .. n : g[i] = Step(Me, g[i - 1], T[i])
  BY <1>1
<1> HIDE DEF Fold
<1>6. \A i \in 0 .. n : f[i] = h[i]
  <2> DEFINE P == {i \in 0 .. n : f[i] = h[i]}
  <2>1. 0 \in P
    BY <1>1, <1>3, <1>4, <1>5
  <2>2. ASSUME NEW i \in 0 .. n - 1, i \in P PROVE i + 1 \in P
    <3>1. i + 1 \in 1 .. n /\ (i + 1) - 1 = i /\ i + 1 \in 0 .. n
      BY <1>1
    <3> QED BY <1>3, <1>4, <1>5, <2>2, <3>1
  <2> HIDE DEF P
  <2>3. \A i \in 0 .. n : i \in P
    BY <1>1, <2>1, <2>2, CountUp
  <2> QED BY <2>3 DEF P
<1>7. Owns(h, T) /\ ownershipOf(T, Me) = h[n]
  <2>1. n \in 0 .. n
    BY <1>1
  <2> QED BY <1>1, <1>3, <1>4, <1>5, <1>6, <2>1 DEF Owns
<1> QED BY <1>1, <1>7

\* Transfers follow one another: who gives the token away is who got it last.
Custody(T) ==
    /\ T \in Seq(Transfer)
    /\ 1 \in DOMAIN T => T[1].from = Nobody
    /\ \A i \in 2 .. Len(T) : T[i].from = T[i - 1].to /\ T[i].from # T[i].to

\* The windows of the first i transfers: number k is that of arrival a[k].
Window(T, j, i) == [from |-> T[j].block, to |-> IF j < i THEN T[j + 1].block ELSE HeldOn]

Arrivals(a, o, T, i) ==
    /\ a \in [1 .. Len(o.windows) -> 1 .. i]
    /\ \A k \in 1 .. Len(o.windows) : T[a[k]].to = Me /\ o.windows[k] = Window(T, a[k], i)
    /\ \A j \in 1 .. i : T[j].to = Me => \E k \in 1 .. Len(o.windows) : a[k] = j
    /\ \A k \in 1 .. Len(o.windows) : k # Len(o.windows) => a[k] < i
    /\ o.open <=> i > 0 /\ T[i].to = Me
    /\ o.open => Len(o.windows) > 0 /\ a[Len(o.windows)] = i

LEMMA ArrivalsStep ==
    ASSUME NEW T, Custody(T), NEW i \in 0 .. Len(T) - 1, NEW o \in Ownerships,
           NEW a, Arrivals(a, o, T, i)
    PROVE  \E c : Arrivals(c, Step(Me, o, T[i + 1]), T, i + 1)
<1> DEFINE n == Len(o.windows)
           t == T[i + 1]
           p == Step(Me, o, t)
<1>1. /\ i \in Nat /\ i + 1 \in 1 .. Len(T) /\ n \in Nat /\ DOMAIN o.windows = 1 .. n
      /\ o.open \in BOOLEAN
      /\ \A j \in 1 .. i + 1 : j \in 1 .. i \/ j = i + 1
      /\ \A j \in 1 .. i : j \in 1 .. i + 1 /\ j # i + 1
      /\ \A j \in 1 .. Len(T) : T[j] \in Transfer
  <2>1. T \in Seq(Transfer) /\ o.windows \in Seq([from : Nat, to : Nat \cup {HeldOn}])
    BY DEF Custody, Ownerships
  <2>2. i \in Nat /\ i + 1 \in 1 .. Len(T) /\ \A j \in 1 .. Len(T) : T[j] \in Transfer
    BY <2>1
  <2>3. n \in Nat /\ DOMAIN o.windows = 1 .. n
    BY <2>1
  <2>4. o.open \in BOOLEAN
    BY DEF Ownerships
  <2> HIDE DEF n
  <2> QED BY <2>2, <2>3, <2>4
<1>2. i > 0 => t.from = T[i].to /\ t.from # t.to
  <2>1. i > 0 => i + 1 \in 2 .. Len(T) /\ (i + 1) - 1 = i
    BY <1>1
  <2> QED BY <2>1 DEF Custody
<1>3. i = 0 => t.from = Nobody
  <2>1. i = 0 => 1 \in DOMAIN T /\ i + 1 = 1
    BY <1>1 DEF Custody
  <2> QED BY <2>1 DEF Custody
<1>4. /\ a \in [1 .. n -> 1 .. i]
      /\ \A k \in 1 .. n : T[a[k]].to = Me /\ o.windows[k] = Window(T, a[k], i)
      /\ \A j \in 1 .. i : T[j].to = Me => \E k \in 1 .. n : a[k] = j
      /\ \A k \in 1 .. n : k # n => a[k] < i
      /\ o.open <=> i > 0 /\ T[i].to = Me
      /\ o.open => n > 0 /\ a[n] = i
  BY DEF Arrivals
<1>5. ASSUME NEW j \in 1 .. i, j < i PROVE Window(T, j, i + 1) = Window(T, j, i)
  <2>1. j < i + 1
    BY <1>1, <1>5
  <2> QED BY <1>5, <2>1 DEF Window
<1> HIDE DEF n
<1>6. CASE ~o.open /\ t.to = Me
  <2> DEFINE c == [k \in 1 .. n + 1 |-> IF k = n + 1 THEN i + 1 ELSE a[k]]
             w == [from |-> t.block, to |-> HeldOn]
  <2>1. /\ p.windows = Append(o.windows, w) /\ p.open = TRUE
    BY <1>6 DEF Step
  <2>2. /\ Len(p.windows) = n + 1 /\ p.windows[n + 1] = w
        /\ \A k \in 1 .. n : p.windows[k] = o.windows[k]
    <3>1. o.windows \in Seq([from : Nat, to : Nat \cup {HeldOn}])
      BY DEF Ownerships
    <3> HIDE DEF w, p
    <3> QED BY <2>1, <3>1 DEF n
  <2>3. w = Window(T, i + 1, i + 1)
    BY <1>1 DEF Window
  <2>4. \A k \in 1 .. n : a[k] \in 1 .. i /\ a[k] < i
    <3> SUFFICES ASSUME NEW k \in 1 .. n PROVE a[k] \in 1 .. i /\ a[k] < i
      OBVIOUS
    <3>1. a[k] \in 1 .. i /\ T[a[k]].to = Me
      BY <1>4
    <3>2. a[k] # i
      BY <1>1, <1>4, <1>6, <3>1
    <3> QED BY <1>1, <3>1, <3>2
  <2>5. /\ \A k \in 1 .. n : k \in 1 .. n + 1 /\ k # n + 1 /\ c[k] = a[k]
        /\ c[n + 1] = i + 1 /\ n + 1 \in 1 .. n + 1
        /\ \A k \in 1 .. n + 1 : k = n + 1 \/ k \in 1 .. n
    BY <1>1
  <2>6. c \in [1 .. n + 1 -> 1 .. i + 1]
    <3>1. \A k \in 1 .. n + 1 : c[k] \in 1 .. i + 1
      <4> HIDE DEF c
      <4>1. \A k \in 1 .. n : c[k] \in 1 .. i + 1
        BY <1>1, <2>4, <2>5
      <4>2. c[n + 1] \in 1 .. i + 1
        BY <1>1, <2>5
      <4> QED BY <2>5, <4>1, <4>2
    <3> QED BY <3>1
  <2> HIDE DEF c, w, p
  <2>7. \A k \in 1 .. n + 1 : T[c[k]].to = Me /\ p.windows[k] = Window(T, c[k], i + 1)
    <3>1. ASSUME NEW k \in 1 .. n PROVE T[c[k]].to = Me /\ p.windows[k] = Window(T, c[k], i + 1)
      <4>1. c[k] = a[k] /\ a[k] \in 1 .. i /\ a[k] < i
        BY <2>4, <2>5
      <4>2. Window(T, a[k], i + 1) = Window(T, a[k], i)
        BY <1>5, <4>1
      <4>3. T[a[k]].to = Me /\ o.windows[k] = Window(T, a[k], i) /\ p.windows[k] = o.windows[k]
        BY <1>4, <2>2
      <4> QED BY <4>1, <4>2, <4>3
    <3>2. T[c[n + 1]].to = Me /\ p.windows[n + 1] = Window(T, c[n + 1], i + 1)
      BY <1>6, <2>2, <2>3, <2>5
    <3> QED BY <2>5, <3>1, <3>2
  <2>8. \A j \in 1 .. i + 1 : T[j].to = Me => \E k \in 1 .. n + 1 : c[k] = j
    <3>1. \A j \in 1 .. i : T[j].to = Me => \E k \in 1 .. n + 1 : c[k] = j
      BY <1>4, <2>5
    <3>2. \E k \in 1 .. n + 1 : c[k] = i + 1
      BY <2>5
    <3> QED BY <1>1, <3>1, <3>2
  <2>9. \A k \in 1 .. n + 1 : k # n + 1 => c[k] < i + 1
    BY <1>1, <2>4, <2>5
  <2>10. i + 1 > 0 /\ n + 1 > 0
    BY <1>1
  <2>11. Arrivals(c, p, T, i + 1)
    BY <1>6, <2>1, <2>2, <2>5, <2>6, <2>7, <2>8, <2>9, <2>10 DEF Arrivals
  <2> QED BY <2>11 DEF p
<1>7. CASE o.open
  <2>1. i > 0 /\ T[i].to = Me /\ n > 0 /\ a[n] = i /\ t.from = Me /\ t.to # Me /\ n \in 1 .. n
        /\ i \in 1 .. i
    BY <1>1, <1>2, <1>4, <1>7
  <2>2. p.windows = [o.windows EXCEPT ![n].to = t.block] /\ p.open = FALSE
    BY <1>7, <2>1 DEF Step, n
  <2>3. /\ DOMAIN p.windows = 1 .. n /\ p.windows[n] = [o.windows[n] EXCEPT !.to = t.block]
        /\ \A k \in 1 .. n : k # n => p.windows[k] = o.windows[k]
    BY <1>1, <2>1, <2>2
  <2>4. Len(p.windows) = n
    <3>1. p \in Ownerships
      BY <1>1, StepIn
    <3>2. p.windows \in Seq([from : Nat, to : Nat \cup {HeldOn}])
      BY <3>1 DEF Ownerships
    <3> HIDE DEF p
    <3> QED BY <1>1, <2>3, <3>2
  <2>5. p.windows[n] = Window(T, i, i + 1)
    <3>1. o.windows[n] = [from |-> T[i].block, to |-> IF i < i THEN T[i + 1].block ELSE HeldOn]
      BY <1>4, <2>1 DEF Window
    <3>2. i < i + 1
      BY <1>1
    <3> QED BY <2>3, <3>1, <3>2 DEF Window
  <2> HIDE DEF p, t
  <2>6. \A k \in 1 .. n : T[a[k]].to = Me /\ p.windows[k] = Window(T, a[k], i + 1)
    <3> SUFFICES ASSUME NEW k \in 1 .. n
                 PROVE  T[a[k]].to = Me /\ p.windows[k] = Window(T, a[k], i + 1)
      OBVIOUS
    <3>1. CASE k = n
      BY <1>4, <2>1, <2>5, <3>1
    <3>2. CASE k # n
      <4>1. a[k] \in 1 .. i /\ a[k] < i
        BY <1>4, <3>2
      <4> QED BY <1>4, <1>5, <2>3, <3>2, <4>1
    <3> QED BY <3>1, <3>2
  <2>7. a \in [1 .. n -> 1 .. i + 1] /\ \A k \in 1 .. n : a[k] < i + 1
    <3>1. \A k \in 1 .. n : a[k] \in 1 .. i + 1 /\ a[k] < i + 1
      <4> SUFFICES ASSUME NEW k \in 1 .. n PROVE a[k] \in 1 .. i + 1 /\ a[k] < i + 1
        OBVIOUS
      <4>1. a[k] \in 1 .. i
        BY <1>4
      <4> QED BY <1>1, <4>1
    <3> QED BY <1>4, <3>1
  <2>8. \A j \in 1 .. i + 1 : T[j].to = Me => \E k \in 1 .. n : a[k] = j
    <3>1. T[i + 1].to # Me
      BY <2>1 DEF t
    <3> QED BY <1>1, <1>4, <3>1
  <2>9. Arrivals(a, p, T, i + 1)
    <3>1. T[i + 1].to # Me
      BY <2>1 DEF t
    <3> QED BY <2>2, <2>4, <2>6, <2>7, <2>8, <3>1 DEF Arrivals
  <2> QED BY <2>9 DEF p, t
<1>8. CASE ~o.open /\ t.to # Me
  <2>1. t.from # Me \/ ~o.open
    BY <1>8
  <2>2. p = o
    BY <1>8 DEF Step
  <2>3. \A k \in 1 .. n : a[k] \in 1 .. i /\ a[k] < i
    <3> SUFFICES ASSUME NEW k \in 1 .. n PROVE a[k] \in 1 .. i /\ a[k] < i
      OBVIOUS
    <3>1. a[k] \in 1 .. i /\ T[a[k]].to = Me
      BY <1>4
    <3>2. a[k] # i
      BY <1>1, <1>4, <1>8, <3>1
    <3> QED BY <1>1, <3>1, <3>2
  <2>4. \A k \in 1 .. n : o.windows[k] = Window(T, a[k], i + 1) /\ a[k] \in 1 .. i + 1 /\ a[k] < i + 1
    BY <1>1, <1>4, <1>5, <2>3
  <2>5. a \in [1 .. n -> 1 .. i + 1]
    BY <1>4, <2>4
  <2>6. Arrivals(a, o, T, i + 1)
    <3>1. T[i + 1].to # Me /\ Len(o.windows) = n
      BY <1>8 DEF n
    <3> HIDE DEF p, t
    <3>2. \A j \in 1 .. i + 1 : T[j].to = Me => \E k \in 1 .. n : a[k] = j
      BY <1>1, <1>4, <3>1
    <3> QED BY <1>4, <1>8, <2>4, <2>5, <3>1, <3>2 DEF Arrivals
  <2> QED BY <2>2, <2>6
<1> QED BY <1>1, <1>6, <1>7, <1>8

\* Block b is in a window: after an arrival, and up to the next transfer.
Within(T, b) ==
    \E j \in 1 .. Len(T) : T[j].to = Me /\ T[j].block <= b /\ (j < Len(T) => b <= T[j + 1].block)

LEMMA WindowsAre ==
    ASSUME NEW T, Custody(T)
    PROVE  LET o == ownershipOf(T, Me) IN
           /\ o.windows = <<>> <=> \A j \in 1 .. Len(T) : T[j].to # Me
           /\ o.open \in BOOLEAN /\ (o.open <=> Len(T) > 0 /\ T[Len(T)].to = Me)
           /\ \A b : heldAt(o, b) <=> Within(T, b)
<1> DEFINE o == ownershipOf(T, Me)
<1>1. PICK n \in Nat : n = Len(T) /\ T \in Seq(Transfer) /\ \A j \in 1 .. n : T[j] \in Transfer
  BY DEF Custody
<1>2. PICK f \in [0 .. n -> Ownerships] : Owns(f, T) /\ o = f[n]
  BY <1>1, OwnershipSteps
<1> DEFINE P == {i \in 0 .. n : \E a : Arrivals(a, f[i], T, i)}
<1>3. 0 \in P
  <2>1. f[0] = NeverHeld /\ Len(<<>>) = 0
    BY <1>2 DEF Owns
  <2>2. Arrivals(<<>>, NeverHeld, T, 0)
    BY DEF Arrivals, NeverHeld
  <2> QED BY <1>1, <2>1, <2>2
<1>4. ASSUME NEW i \in 0 .. n - 1, i \in P PROVE i + 1 \in P
  <2>1. i \in 0 .. n /\ i + 1 \in 1 .. n /\ i + 1 \in 0 .. n /\ (i + 1) - 1 = i
    BY <1>1
  <2>2. f[i + 1] = Step(Me, f[i], T[i + 1]) /\ f[i] \in Ownerships
    BY <1>1, <1>2, <2>1 DEF Owns
  <2>3. PICK a : Arrivals(a, f[i], T, i)
    BY <1>4
  <2>4. \E c : Arrivals(c, Step(Me, f[i], T[i + 1]), T, i + 1)
    BY <1>1, <2>2, <2>3, ArrivalsStep
  <2> QED BY <2>1, <2>2, <2>4
<1>5. n \in P
  <2> HIDE DEF P
  <2>1. \A i \in 0 .. n : i \in P
    BY <1>1, <1>3, <1>4, CountUp
  <2> QED BY <1>1, <2>1
<1>6. PICK a : Arrivals(a, o, T, n)
  BY <1>2, <1>5
<1>7. o \in Ownerships
  BY <1>1, <1>2
<1> DEFINE m == Len(o.windows)
<1> HIDE DEF o, P
<1>8. m \in Nat /\ DOMAIN o.windows = 1 .. m /\ (o.windows = <<>> <=> m = 0)
  BY <1>7 DEF Ownerships
<1>9. /\ \A k \in 1 .. m : a[k] \in 1 .. n /\ T[a[k]].to = Me /\ o.windows[k] = Window(T, a[k], n)
      /\ \A j \in 1 .. n : T[j].to = Me => \E k \in 1 .. m : a[k] = j
      /\ o.open <=> n > 0 /\ T[n].to = Me
  BY <1>6 DEF Arrivals
<1> HIDE DEF m
<1>10. o.windows = <<>> <=> \A j \in 1 .. n : T[j].to # Me
  <2>1. m = 0 => \A j \in 1 .. n : T[j].to # Me
    BY <1>9
  <2>2. m # 0 => 1 \in 1 .. m
    BY <1>8
  <2> QED BY <1>8, <1>9, <2>1, <2>2
<1>11. ASSUME NEW j \in 1 .. n, NEW b
       PROVE  (LET w == Window(T, j, n) IN w.from <= b /\ (w.to = HeldOn \/ b <= w.to))
              <=> T[j].block <= b /\ (j < n => b <= T[j + 1].block)
  <2>1. j < n => T[j + 1].block \in Nat
    <3>1. j < n => j + 1 \in 1 .. n
      BY <1>1
    <3> QED BY <1>1, <3>1 DEF Transfer
  <2> QED BY <2>1, HeldOnIsNoBlock DEF Window
<1>12. ASSUME NEW b PROVE heldAt(o, b) <=> Within(T, b)
  <2>1. ASSUME heldAt(o, b) PROVE Within(T, b)
    <3>1. PICK k \in 1 .. m : LET w == o.windows[k] IN w.from <= b /\ (w.to = HeldOn \/ b <= w.to)
      BY <1>8, <2>1 DEF heldAt
    <3>2. a[k] \in 1 .. n /\ T[a[k]].to = Me /\ o.windows[k] = Window(T, a[k], n)
      BY <1>9
    <3> DEFINE j == a[k]
    <3>3. j \in 1 .. n /\ T[j].to = Me /\ o.windows[k] = Window(T, j, n)
      BY <3>2
    <3> HIDE DEF j
    <3> QED BY <1>1, <1>11, <3>1, <3>3 DEF Within
  <2>2. ASSUME Within(T, b) PROVE heldAt(o, b)
    <3>1. PICK j \in 1 .. n : T[j].to = Me /\ T[j].block <= b /\ (j < n => b <= T[j + 1].block)
      BY <1>1, <2>2 DEF Within
    <3>2. PICK k \in 1 .. m : a[k] = j
      BY <1>9, <3>1
    <3>3. o.windows[k] = Window(T, j, n)
      BY <1>9, <3>2
    <3>4. LET w == o.windows[k] IN w.from <= b /\ (w.to = HeldOn \/ b <= w.to)
      BY <1>11, <3>1, <3>3
    <3> QED BY <1>8, <3>4 DEF heldAt
  <2>3. heldAt(o, b) \in BOOLEAN /\ Within(T, b) \in BOOLEAN
    BY DEF heldAt, Within
  <2> QED BY <2>1, <2>2
<1>13. o.open \in BOOLEAN
  BY <1>7 DEF Ownerships
<1> QED BY <1>1, <1>9, <1>10, <1>12, <1>13 DEF o

LEMMA BlockIs ==
    ASSUME ChainInv, NEW b \in 1 .. Height
    PROVE  blocks[b] \in Block /\ Honest(blocks[b], version) /\ (b # 1 => Follows(blocks[b], blocks[b - 1]))
<1>1. b # 1 => b \in 2 .. Height
  BY TipIs
<1> QED BY <1>1 DEF ChainInv, Height

\* Between two transfers the token stays where it is.
LEMMA SameOwner ==
    ASSUME ChainInv, NEW p \in 1 .. Height, NEW b \in 1 .. Height, p < b,
           \A c \in 1 .. Height : p < c /\ c < b => blocks[c].next = blocks[c].owner
    PROVE  blocks[b].owner = blocks[p].next
<1>1. PICK n \in Nat : b = p + 1 + n
  <2>1. b - p - 1 \in Nat /\ b = p + 1 + (b - p - 1)
    BY TipIs
  <2> QED BY <2>1
<1>2. Height \in Nat /\ p \in Nat /\ p >= 1
  BY TipIs
<1> DEFINE P == {k \in 0 .. n : blocks[p + 1 + k].owner = blocks[p].next}
<1>3. \A k \in 0 .. n : p + 1 + k \in 2 .. Height /\ p + 1 + k \in 1 .. Height /\ p < p + 1 + k
  BY <1>1, <1>2
<1>4. 0 \in P
  <2>1. p + 1 + 0 \in 2 .. Height /\ p + 1 + 0 = p + 1 /\ (p + 1) - 1 = p
    BY <1>1, <1>2, <1>3
  <2>2. Follows(blocks[p + 1], blocks[p])
    BY <2>1 DEF ChainInv
  <2> QED BY <2>1, <2>2 DEF Follows
<1>5. ASSUME NEW k \in 0 .. n - 1, k \in P PROVE k + 1 \in P
  <2>1. /\ k \in 0 .. n /\ k + 1 \in 0 .. n /\ (p + 1 + (k + 1)) - 1 = p + 1 + k
        /\ p + 1 + k < b
    BY <1>1, <1>2
  <2>2. Follows(blocks[p + 1 + (k + 1)], blocks[p + 1 + k])
    <3>1. p + 1 + (k + 1) \in 2 .. Height
      BY <1>3, <2>1
    <3> QED BY <2>1, <3>1 DEF ChainInv
  <2>3. blocks[p + 1 + k].next = blocks[p + 1 + k].owner
    BY <1>3, <2>1
  <2> QED BY <1>5, <2>1, <2>2, <2>3 DEF Follows
<1>6. n \in P
  <2> HIDE DEF P
  <2>1. \A k \in 0 .. n : k \in P
    BY <1>4, <1>5, CountUp
  <2> QED BY <2>1
<1> QED BY <1>1, <1>6

\* The transfers up to block h: one for the mint, and one for each time the token moved.
Sent(T, h) ==
    /\ T \in Seq(Transfer) /\ Len(T) >= 1 /\ T[1].block = 1 /\ T[1].from = Nobody
    /\ \A i \in 1 .. Len(T) : T[i].block \in 1 .. h /\ T[i].to = blocks[T[i].block].next
    /\ \A i \in 2 .. Len(T) : T[i].from = blocks[T[i].block].owner /\ T[i].from # T[i].to
    /\ \A i, j \in 1 .. Len(T) : i < j => T[i].block < T[j].block
    /\ \A b \in 1 .. h : b = 1 \/ blocks[b].next # blocks[b].owner =>
         \E i \in 1 .. Len(T) : T[i].block = b

LEMMA TransfersAre ==
    ASSUME ChainInv, NEW h \in 1 .. Height PROVE Sent(TransfersTo(h), h)
<1> DEFINE M == {b \in 1 .. h : b = 1 \/ blocks[b].next # blocks[b].owner}
           s == [b \in 1 .. h |-> b]
           moved == Picked(s, M)
           Sends(b) == [block |-> b, to |-> blocks[b].next,
                        from |-> IF b = 1 THEN Nobody ELSE blocks[b].owner]
           T == [i \in DOMAIN moved |-> Sends(moved[i])]
<1>0. TransfersTo(h) = T
  BY DEF TransfersTo
<1>1. h \in Nat /\ h >= 1 /\ h <= Height /\ Height \in Nat
  BY TipIs
<1>2. s \in Seq(1 .. h) /\ DOMAIN s = 1 .. h /\ \A b \in 1 .. h : s[b] = b
  BY <1>1
<1> HIDE DEF s
<1>3. PICK k : moved \in Seq(1 .. h) /\ Order(k, moved, s, M)
  BY <1>2, PickedInOrder
<1> HIDE DEF moved
<1>4. PICK n \in Nat : n = Len(moved) /\ DOMAIN moved = 1 .. n
  BY <1>3
<1>5. \A i \in 1 .. n : moved[i] = k[i] /\ moved[i] \in M /\ moved[i] \in 1 .. h
  BY <1>2, <1>3, <1>4 DEF Order
<1>6. \A i, j \in 1 .. n : i < j => moved[i] < moved[j]
  BY <1>3, <1>4, <1>5 DEF Order
<1>7. \A b \in M : \E i \in 1 .. n : moved[i] = b
  BY <1>2, <1>3, <1>4, <1>5, ZenonT(30) DEF Order
<1>8. \A b \in 1 .. h : Sends(b) \in Transfer /\ Sends(b).block = b /\ Sends(b).to = blocks[b].next
                        /\ (b # 1 => Sends(b).from = blocks[b].owner)
                        /\ (b = 1 => Sends(b).from = Nobody)
  <2> SUFFICES ASSUME NEW b \in 1 .. h
               PROVE  Sends(b) \in Transfer /\ Sends(b).block = b /\ Sends(b).to = blocks[b].next
                        /\ (b # 1 => Sends(b).from = blocks[b].owner)
                        /\ (b = 1 => Sends(b).from = Nobody)
    OBVIOUS
  <2>1. b \in 1 .. Height /\ b \in Nat
    BY <1>1
  <2>2. blocks[b] \in Block
    BY <2>1, BlockIs
  <2>3. blocks[b].next \in {Me, Other, Nobody} /\ blocks[b].owner \in {Me, Other, Nobody}
    BY <2>2 DEF Block
  <2> QED BY <2>1, <2>3 DEF Transfer
<1> HIDE DEF Sends
<1>9. T \in Seq(Transfer) /\ Len(T) = n /\ \A i \in 1 .. n : T[i] = Sends(moved[i])
  <2>1. \A i \in 1 .. n : Sends(moved[i]) \in Transfer
    BY <1>5, <1>8
  <2>2. T = [i \in 1 .. n |-> Sends(moved[i])]
    BY <1>4
  <2> HIDE DEF T
  <2> QED BY <2>1, <2>2
<1>10. 1 \in M /\ M \subseteq 1 .. h
  BY <1>1
<1>11. n >= 1 /\ moved[1] = 1
  <2>1. PICK i \in 1 .. n : moved[i] = 1
    BY <1>7, <1>10
  <2>2. n >= 1 /\ 1 \in 1 .. n
    BY <1>4, <2>1
  <2>3. i = 1
    <3> SUFFICES ASSUME 1 < i PROVE FALSE
      BY <2>1, <2>2
    <3>1. moved[1] < moved[i] /\ moved[1] \in 1 .. h
      BY <1>5, <1>6, <2>2
    <3> QED BY <2>1, <3>1
  <2> QED BY <2>1, <2>2, <2>3
<1> HIDE DEF T
<1>12. \A i \in 1 .. n : T[i].block = moved[i] /\ T[i].block \in 1 .. h /\ T[i].to = blocks[T[i].block].next
  BY <1>5, <1>8, <1>9
<1>13. ASSUME NEW i \in 2 .. n
       PROVE  T[i].from = blocks[T[i].block].owner /\ T[i].from # T[i].to
  <2>1. i \in 1 .. n /\ 1 \in 1 .. n /\ 1 < i
    BY <1>11
  <2>2. moved[i] # 1 /\ moved[i] \in M /\ moved[i] \in 1 .. h
    BY <1>5, <1>6, <1>11, <2>1
  <2>3. T[i] = Sends(moved[i]) /\ T[i].block = moved[i]
    BY <1>9, <1>12, <2>1
  <2>4. blocks[moved[i]].next # blocks[moved[i]].owner
    BY <2>2
  <2> QED BY <1>8, <2>2, <2>3, <2>4
<1>14. T[1].block = 1 /\ T[1].from = Nobody
  <2>1. 1 \in 1 .. n /\ 1 \in 1 .. h
    BY <1>1, <1>11
  <2> QED BY <1>8, <1>9, <1>11, <2>1
<1>15. \A b \in 1 .. h : b = 1 \/ blocks[b].next # blocks[b].owner => \E i \in 1 .. n : T[i].block = b
  BY <1>7, <1>12
<1>16. \A i, j \in 1 .. n : i < j => T[i].block < T[j].block
  BY <1>6, <1>12
<1> QED BY <1>0, <1>9, <1>11, <1>12, <1>13, <1>14, <1>15, <1>16 DEF Sent

\* Nothing moved the token between two transfers that follow each other, nor after the last.
LEMMA SentNext ==
    ASSUME ChainInv, NEW h \in 1 .. Height, NEW T, Sent(T, h), NEW j \in 1 .. Len(T), NEW c \in 1 .. h,
           T[j].block < c, j < Len(T) => c < T[j + 1].block
    PROVE  blocks[c].next = blocks[c].owner
<1> SUFFICES ASSUME blocks[c].next # blocks[c].owner PROVE FALSE
  OBVIOUS
<1>1. PICK i \in 1 .. Len(T) : T[i].block = c
  BY DEF Sent
<1>2. Len(T) \in Nat /\ \A x, y \in 1 .. Len(T) : x < y => T[x].block < T[y].block
  BY DEF Sent
<1>3. \A x \in 1 .. Len(T) : T[x].block \in Int
  <2> SUFFICES ASSUME NEW x \in 1 .. Len(T) PROVE T[x].block \in Int
    OBVIOUS
  <2>1. T[x].block \in 1 .. h
    BY DEF Sent
  <2> QED BY <2>1
<1>4. CASE i <= j
  <2>1. T[i].block = T[j].block \/ T[i].block < T[j].block
    BY <1>2, <1>4
  <2> QED BY <1>1, <1>3, <2>1
<1>5. CASE ~(i <= j)
  <2>1. j < Len(T) /\ j + 1 \in 1 .. Len(T) /\ (j + 1 = i \/ j + 1 < i)
    BY <1>2, <1>5
  <2>2. T[j + 1].block = T[i].block \/ T[j + 1].block < T[i].block
    BY <1>2, <2>1
  <2> QED BY <1>1, <1>3, <2>1, <2>2
<1> QED BY <1>4, <1>5

LEMMA SentCustody ==
    ASSUME ChainInv, NEW h \in 1 .. Height, NEW T, Sent(T, h) PROVE Custody(T)
<1>1. T \in Seq(Transfer) /\ T[1].from = Nobody /\ Len(T) \in Nat /\ Height \in Nat
  BY TipIs DEF Sent
<1>2. ASSUME NEW i \in 2 .. Len(T) PROVE T[i].from = T[i - 1].to /\ T[i].from # T[i].to
  <2>1. i - 1 \in 1 .. Len(T) /\ i \in 1 .. Len(T) /\ i - 1 < i /\ (i - 1) + 1 = i
    BY <1>1
  <2> DEFINE p == T[i - 1].block
             b == T[i].block
  <2>2. p \in 1 .. h /\ b \in 1 .. h /\ p < b /\ p \in 1 .. Height /\ b \in 1 .. Height
    <3>1. p \in 1 .. h /\ b \in 1 .. h /\ p < b
      BY <2>1 DEF Sent
    <3> HIDE DEF p, b
    <3> QED BY <1>1, <3>1
  <2>3. ASSUME NEW c \in 1 .. Height, p < c, c < b PROVE blocks[c].next = blocks[c].owner
    <3>1. c \in 1 .. h
      <4> HIDE DEF p, b
      <4> QED BY <2>2, <2>3
    <3> QED BY <2>1, <2>3, <3>1, SentNext
  <2>4. T[i].from = blocks[b].owner /\ T[i].from # T[i].to /\ T[i - 1].to = blocks[p].next
    BY <2>1 DEF Sent
  <2> HIDE DEF p, b
  <2>5. blocks[b].owner = blocks[p].next
    BY <2>2, <2>3, SameOwner
  <2> QED BY <2>4, <2>5
<1> QED BY <1>1, <1>2 DEF Custody

\* In a block that changes the position, the wallet is within a window just when it is the
\* owner.
LEMMA WithinIsOwned ==
    ASSUME ChainInv, NEW h \in 1 .. Height, NEW T, Sent(T, h), NEW b \in 1 .. h, blocks[b].delta # <<>>
    PROVE  Within(T, b) <=> blocks[b].owner = Me
<1>1. /\ Height \in Nat /\ h \in Nat /\ b \in 1 .. Height /\ b \in Nat
      /\ Len(T) \in Nat /\ Len(T) >= 1
      /\ \A x, y \in 1 .. Len(T) : x < y => T[x].block < T[y].block
      /\ \A x \in 1 .. Len(T) : T[x].block \in 1 .. h /\ T[x].to = blocks[T[x].block].next
  BY TipIs DEF Sent
<1>2. blocks[b].next \in {blocks[b].owner, Nobody}
  BY <1>1, BlockIs DEF Honest
<1>3. \A x \in 1 .. Len(T) : T[x].block \in 1 .. Height /\ T[x].block \in Int
  <2> SUFFICES ASSUME NEW x \in 1 .. Len(T) PROVE T[x].block \in 1 .. Height /\ T[x].block \in Int
    OBVIOUS
  <2>1. T[x].block \in 1 .. h
    BY <1>1
  <2> QED BY <1>1, <2>1
<1>4. ASSUME NEW j \in 1 .. Len(T), T[j].block < b, j < Len(T) => b <= T[j + 1].block
      PROVE  blocks[b].owner = T[j].to
  <2> DEFINE p == T[j].block
  <2>1. p \in 1 .. Height /\ p < b /\ T[j].to = blocks[p].next
    BY <1>1, <1>3, <1>4
  <2>2. ASSUME NEW c \in 1 .. Height, p < c, c < b PROVE blocks[c].next = blocks[c].owner
    <3>1. c \in 1 .. h
      BY <1>1, <2>2
    <3>2. j < Len(T) => c < T[j + 1].block
      <4> SUFFICES ASSUME j < Len(T) PROVE c < T[j + 1].block
        OBVIOUS
      <4>1. j + 1 \in 1 .. Len(T) /\ T[j + 1].block \in Int /\ b <= T[j + 1].block
        BY <1>1, <1>3, <1>4
      <4> QED BY <1>1, <2>2, <4>1
    <3> QED BY <2>2, <3>1, <3>2, SentNext
  <2> HIDE DEF p
  <2>3. blocks[b].owner = blocks[p].next
    BY <1>1, <2>1, <2>2, SameOwner
  <2> QED BY <2>1, <2>3
<1>5. ASSUME Within(T, b) PROVE blocks[b].owner = Me
  <2>1. PICK j \in 1 .. Len(T) :
               T[j].to = Me /\ T[j].block <= b /\ (j < Len(T) => b <= T[j + 1].block)
    BY <1>5 DEF Within
  <2>2. CASE T[j].block = b
    <3>1. blocks[b].next = Me
      BY <1>1, <2>1, <2>2
    <3> QED BY <1>2, <3>1, ChainAssumption
  <2>3. CASE T[j].block # b
    <3>1. T[j].block < b
      BY <1>1, <1>3, <2>1, <2>3
    <3> QED BY <1>4, <2>1, <3>1
  <2> QED BY <2>2, <2>3
<1>6. ASSUME blocks[b].owner = Me PROVE Within(T, b)
  <2>1. CASE b = 1
    <3>1. T[1].block = 1 /\ 1 \in 1 .. Len(T) /\ T[1].to = blocks[1].next
      BY <1>1 DEF Sent
    <3>2. T[1].to = Me
      BY <1>6, <2>1, <3>1 DEF ChainInv, Mints
    <3>3. 1 < Len(T) => b <= T[1 + 1].block
      <4> SUFFICES ASSUME 1 < Len(T) PROVE 1 <= T[1 + 1].block
        BY <2>1
      <4>1. 1 + 1 \in 1 .. Len(T) /\ 1 < 1 + 1
        BY <1>1
      <4>2. T[1].block < T[1 + 1].block /\ T[1 + 1].block \in Int
        BY <1>1, <1>3, <3>1, <4>1
      <4> QED BY <3>1, <4>2
    <3>4. T[1].block <= b
      BY <2>1, <3>1
    <3> QED BY <3>1, <3>2, <3>3, <3>4 DEF Within
  <2>2. CASE b # 1
    <3> DEFINE J == {j \in 1 .. Len(T) : T[j].block < b}
    <3>1. IsFiniteSet(J) /\ J \subseteq Int /\ J # {}
      <4>1. 1 \in J
        BY <1>1, <2>2 DEF Sent
      <4>2. IsFiniteSet(1 .. Len(T))
        BY <1>1, FS_Interval
      <4> QED BY <1>1, <4>1, <4>2, FS_Subset
    <3>2. PICK j \in J : \A x \in J : x <= j
      <4> HIDE DEF J
      <4> QED BY <3>1, Ends
    <3>3. j \in 1 .. Len(T) /\ T[j].block < b
      BY <3>2
    <3>4. j < Len(T) => b <= T[j + 1].block
      <4> SUFFICES ASSUME j < Len(T) PROVE b <= T[j + 1].block
        OBVIOUS
      <4>1. j + 1 \in 1 .. Len(T) /\ ~(j + 1 <= j)
        BY <1>1, <3>3
      <4>2. ~(T[j + 1].block < b) /\ T[j + 1].block \in Int
        BY <1>3, <3>2, <4>1
      <4> QED BY <1>1, <4>2
    <3>5. T[j].to = Me
      BY <1>4, <1>6, <3>3, <3>4
    <3>6. T[j].block <= b
      BY <1>1, <1>3, <3>3
    <3> QED BY <3>3, <3>4, <3>5, <3>6 DEF Within
  <2> QED BY <2>1, <2>2
<1>7. Within(T, b) \in BOOLEAN
  BY DEF Within
<1> QED BY <1>5, <1>6, <1>7

\* The blocks counted when the logs are read up to h, by a wallet or not.
EverGot(bl, h) == \E b \in 1 .. h : bl[b].next = Me /\ (b = 1 \/ bl[b].owner # Me)
Counts(bl, h, c, b) == b \in 1 .. h /\ (c /\ EverGot(bl, h) => bl[b].owner = Me)

\* What restrictToOwner keeps of a block that changes the position is what counts.
Keeps(h, b) ==
    LET o == ownershipOf(TransfersTo(h), Me) IN o.windows = <<>> \/ heldAt(o, b)

LEMMA EverIs ==
    ASSUME ChainInv, NEW h \in 1 .. Height, NEW T, Sent(T, h)
    PROVE  (\E i \in 1 .. Len(T) : T[i].to = Me) <=> EverGot(blocks, h)
<1>1. ASSUME NEW i \in 1 .. Len(T), T[i].to = Me PROVE EverGot(blocks, h)
  <2>1. T[i].block \in 1 .. h /\ blocks[T[i].block].next = Me
    BY <1>1 DEF Sent
  <2>2. T[i].block = 1 \/ blocks[T[i].block].owner # Me
    <3>1. CASE i = 1
      BY <3>1 DEF Sent
    <3>2. CASE i # 1
      <4>1. i \in 2 .. Len(T)
        BY <3>2
      <4> QED BY <1>1, <4>1 DEF Sent
    <3> QED BY <3>1, <3>2
  <2> QED BY <2>1, <2>2 DEF EverGot
<1>2. ASSUME EverGot(blocks, h) PROVE \E i \in 1 .. Len(T) : T[i].to = Me
  <2>1. PICK b \in 1 .. h : blocks[b].next = Me /\ (b = 1 \/ blocks[b].owner # Me)
    BY <1>2 DEF EverGot
  <2>2. PICK i \in 1 .. Len(T) : T[i].block = b
    BY <2>1 DEF Sent
  <2>3. T[i].to = blocks[b].next
    BY <2>2 DEF Sent
  <2> QED BY <2>1, <2>2, <2>3
<1> QED BY <1>1, <1>2 DEF EverGot

LEMMA KeepsIs ==
    ASSUME ChainInv, NEW h \in 1 .. Height, NEW b \in 1 .. h, blocks[b].delta # <<>>
    PROVE  Keeps(h, b) <=> Counts(blocks, h, TRUE, b)
<1> DEFINE T == TransfersTo(h)
           o == ownershipOf(T, Me)
<1>1. Sent(T, h)
  BY TransfersAre
<1> HIDE DEF T
<1>2. Custody(T)
  BY <1>1, SentCustody
<1>3. (o.windows = <<>> <=> \A j \in 1 .. Len(T) : T[j].to # Me) /\ (heldAt(o, b) <=> Within(T, b))
  BY <1>2, WindowsAre
<1>4. (Within(T, b) <=> blocks[b].owner = Me) /\ ((\E i \in 1 .. Len(T) : T[i].to = Me) <=> EverGot(blocks, h))
  BY <1>1, WithinIsOwned, EverIs
<1>5. Keeps(h, b) <=> o.windows = <<>> \/ heldAt(o, b)
  BY DEF Keeps, T
<1> QED BY <1>3, <1>4, <1>5 DEF Counts

LEMMA CountedIs ==
    ASSUME ChainInv, head \in 1 .. Height PROVE \A b : b \in Counted <=> Counts(blocks, head, ctx, b)
<1> DEFINE T == TransfersTo(head)
<1>1. Sent(T, head)
  BY TransfersAre
<1>2. EverMine <=> \E i \in DOMAIN T : T[i].to = Me
  BY DEF EverMine
<1> HIDE DEF T
<1>3. DOMAIN T = 1 .. Len(T)
  BY <1>1 DEF Sent
<1>4. EverMine <=> EverGot(blocks, head)
  BY <1>1, <1>2, <1>3, EverIs
<1> QED BY <1>4 DEF Counted, Counts

-----------------------------------------------------------------------------
(* The raw events of v4 *)

RawEvent == [block : Nat, delta : Int]

\* Events r are the changes of the blocks S, those of a block together and in order.
RawOf(bl, r, S) ==
    /\ r \in Seq(RawEvent)
    /\ \A i \in 1 .. Len(r) :
         /\ r[i].block \in S
         /\ \E j \in DOMAIN bl[r[i].block].delta : r[i].delta = bl[r[i].block].delta[j]
    /\ \A b \in S : \A j \in DOMAIN bl[b].delta :
         \E i \in 1 .. Len(r) : r[i].block = b /\ r[i].delta = bl[b].delta[j]
    /\ \A i, j \in 1 .. Len(r) : i < j =>
         \/ r[i].block < r[j].block
         \/ r[i].block = r[j].block /\ Len(bl[r[i].block].delta) > 1

Changes1(h) == {b \in 1 .. h : blocks[b].delta # <<>>}

LEMMA DeltaIs ==
    ASSUME ChainInv, NEW b \in 1 .. Height
    PROVE  /\ blocks[b].delta \in Seq(Int) /\ DOMAIN blocks[b].delta = 1 .. Len(blocks[b].delta)
           /\ Len(blocks[b].delta) \in Nat
<1>1. blocks[b].delta \in Seq(Int)
  BY BlockIs DEF Block
<1> DEFINE d == blocks[b].delta
<1> HIDE DEF d
<1>2. d \in Seq(Int) => DOMAIN d = 1 .. Len(d) /\ Len(d) \in Nat
  OBVIOUS
<1> QED BY <1>1, <1>2 DEF d

LEMMA ModifiesAre ==
    ASSUME ChainInv, NEW h \in 1 .. Height PROVE RawOf(blocks, ModifiesTo(h), Changes1(h))
<1> DEFINE Of(b) == [i \in DOMAIN blocks[b].delta |-> [block |-> b, delta |-> blocks[b].delta[i]]]
           s == [b \in 1 .. h |-> Of(b)]
           r == FlattenSeq(s)
<1>0. ModifiesTo(h) = r
  BY DEF ModifiesTo
<1>1. h \in Nat /\ h >= 1 /\ h <= Height /\ Height \in Nat
  BY TipIs
<1>2. ASSUME NEW b \in 1 .. h
      PROVE  /\ Of(b) \in Seq(RawEvent) /\ Len(Of(b)) = Len(blocks[b].delta)
             /\ DOMAIN blocks[b].delta = 1 .. Len(blocks[b].delta) /\ Len(blocks[b].delta) \in Nat
             /\ \A i \in DOMAIN blocks[b].delta : Of(b)[i] = [block |-> b, delta |-> blocks[b].delta[i]]
  <2> DEFINE d == blocks[b].delta
             n == Len(d)
  <2>1. d \in Seq(Int) /\ DOMAIN d = 1 .. n /\ n \in Nat /\ b \in Nat
    BY <1>1, DeltaIs
  <2>2. Of(b) = [i \in 1 .. n |-> [block |-> b, delta |-> d[i]]]
    BY <2>1
  <2> HIDE DEF n, d
  <2>3. \A i \in 1 .. n : [block |-> b, delta |-> d[i]] \in RawEvent
    BY <2>1 DEF RawEvent
  <2>4. [i \in 1 .. n |-> [block |-> b, delta |-> d[i]]] \in Seq(RawEvent)
    BY <2>1, <2>3
  <2> HIDE DEF Of
  <2>5. Of(b) \in Seq(RawEvent) /\ Len(Of(b)) = n /\ \A i \in 1 .. n : Of(b)[i] = [block |-> b, delta |-> d[i]]
    BY <2>1, <2>2, <2>4
  <2> QED BY <2>1, <2>5 DEF n, d
<1> HIDE DEF Of
<1>3. s \in Seq(Seq(RawEvent)) /\ s # <<>> /\ Len(s) = h /\ \A b \in 1 .. h : s[b] = Of(b)
  BY <1>1, <1>2
<1> HIDE DEF s
<1>4. PICK k, c : r \in Seq(RawEvent) /\ Layout(k, c, r, s)
  BY <1>3, FlattenInOrder
<1> HIDE DEF r
<1>5. ASSUME NEW i \in 1 .. Len(r)
      PROVE  /\ k[i] \in 1 .. h /\ c[i] \in DOMAIN blocks[k[i]].delta
             /\ r[i].block = k[i] /\ r[i].delta = blocks[k[i]].delta[c[i]]
             /\ k[i] \in Changes1(h)
  <2>1. k[i] \in 1 .. h /\ c[i] \in 1 .. Len(s[k[i]]) /\ r[i] = s[k[i]][c[i]]
    BY <1>3, <1>4 DEF Layout
  <2>2. s[k[i]] = Of(k[i])
    BY <1>3, <2>1
  <2> DEFINE b == k[i]
             x == c[i]
  <2>3. b \in 1 .. h /\ x \in 1 .. Len(Of(b)) /\ r[i] = Of(b)[x]
    BY <2>1, <2>2
  <2> HIDE DEF b, x
  <2>4. x \in DOMAIN blocks[b].delta /\ r[i] = [block |-> b, delta |-> blocks[b].delta[x]]
    BY <1>2, <2>3
  <2>6. r[i].block = b /\ r[i].delta = blocks[b].delta[x]
    BY <2>4
  <2>5. blocks[b].delta # <<>>
    BY <2>4
  <2> QED BY <2>3, <2>4, <2>5, <2>6 DEF b, x, Changes1
<1>6. ASSUME NEW b \in Changes1(h), NEW j \in DOMAIN blocks[b].delta
      PROVE  \E i \in 1 .. Len(r) : r[i].block = b /\ r[i].delta = blocks[b].delta[j]
  <2>1. b \in 1 .. h
    BY DEF Changes1
  <2>2. j \in 1 .. Len(s[b]) /\ b \in 1 .. Len(s)
    BY <1>2, <1>3, <2>1
  <2>3. PICK i \in 1 .. Len(r) : k[i] = b /\ c[i] = j
    BY <1>4, <2>2 DEF Layout
  <2> QED BY <1>5, <2>3
<1>7. ASSUME NEW i \in 1 .. Len(r), NEW j \in 1 .. Len(r), i < j
      PROVE  \/ r[i].block < r[j].block
             \/ r[i].block = r[j].block /\ Len(blocks[r[i].block].delta) > 1
  <2>1. k[i] < k[j] \/ (k[i] = k[j] /\ c[i] < c[j])
    BY <1>4, <1>7 DEF Layout
  <2>2. r[i].block = k[i] /\ r[j].block = k[j]
    BY <1>5
  <2>3. ASSUME k[i] = k[j], c[i] < c[j] PROVE Len(blocks[k[i]].delta) > 1
    <3> DEFINE n == Len(blocks[k[i]].delta)
    <3>1. n \in Nat /\ c[i] \in 1 .. n /\ c[j] \in 1 .. n
      BY <1>2, <1>5, <2>3
    <3> HIDE DEF n
    <3>2. n > 1
      BY <2>3, <3>1
    <3> QED BY <3>2 DEF n
  <2> QED BY <2>1, <2>2, <2>3
<1>8. \A i \in 1 .. Len(r) : /\ r[i].block \in Changes1(h)
                             /\ \E j \in DOMAIN blocks[r[i].block].delta :
                                  r[i].delta = blocks[r[i].block].delta[j]
  <2> SUFFICES ASSUME NEW i \in 1 .. Len(r)
               PROVE  /\ r[i].block \in Changes1(h)
                      /\ \E j \in DOMAIN blocks[r[i].block].delta :
                           r[i].delta = blocks[r[i].block].delta[j]
    OBVIOUS
  <2>1. r[i].block = k[i] /\ r[i].delta = blocks[k[i]].delta[c[i]]
    BY <1>5
  <2> QED BY <1>5, <2>1
<1> QED BY <1>0, <1>4, <1>6, <1>7, <1>8 DEF RawOf

\* The events of some of the blocks.
LEMMA RawPicked ==
    ASSUME NEW r, NEW S, NEW bl, RawOf(bl, r, S), NEW I,
           NEW R, R \subseteq S, \A i \in 1 .. Len(r) : i \in I <=> r[i].block \in R
    PROVE  RawOf(bl, Picked(r, I), R)
<1> DEFINE p == Picked(r, I)
<1>1. r \in Seq(RawEvent) /\ DOMAIN r = 1 .. Len(r) /\ Len(r) \in Nat
  BY DEF RawOf
<1>2. PICK k : p \in Seq(RawEvent) /\ Order(k, p, r, I)
  BY <1>1, PickedInOrder
<1> HIDE DEF p
<1>3. /\ \A i \in 1 .. Len(p) : k[i] \in 1 .. Len(r) /\ p[i] = r[k[i]] /\ k[i] \in I
      /\ \A i, j \in 1 .. Len(p) : i < j => k[i] < k[j]
      /\ \A x \in 1 .. Len(r) : x \in I => \E i \in 1 .. Len(p) : k[i] = x
  BY <1>1, <1>2 DEF Order
<1>4. ASSUME NEW i \in 1 .. Len(p)
      PROVE  /\ p[i].block \in R
             /\ \E j \in DOMAIN bl[p[i].block].delta : p[i].delta = bl[p[i].block].delta[j]
  <2>1. k[i] \in 1 .. Len(r) /\ p[i] = r[k[i]] /\ p[i].block \in R
    BY <1>3
  <2>2. \E j \in DOMAIN bl[r[k[i]].block].delta : r[k[i]].delta = bl[r[k[i]].block].delta[j]
    BY <2>1 DEF RawOf
  <2> QED BY <2>1, <2>2
<1>5. ASSUME NEW b \in R, NEW j \in DOMAIN bl[b].delta
      PROVE  \E i \in 1 .. Len(p) : p[i].block = b /\ p[i].delta = bl[b].delta[j]
  <2>1. PICK x \in 1 .. Len(r) : r[x].block = b /\ r[x].delta = bl[b].delta[j]
    BY DEF RawOf
  <2>2. PICK i \in 1 .. Len(p) : k[i] = x
    BY <1>3, <2>1
  <2> QED BY <1>3, <2>1, <2>2
<1>6. ASSUME NEW i \in 1 .. Len(p), NEW j \in 1 .. Len(p), i < j
      PROVE  \/ p[i].block < p[j].block
             \/ p[i].block = p[j].block /\ Len(bl[p[i].block].delta) > 1
  <2>1. k[i] \in 1 .. Len(r) /\ k[j] \in 1 .. Len(r) /\ k[i] < k[j] /\ p[i] = r[k[i]] /\ p[j] = r[k[j]]
    BY <1>3, <1>6
  <2>2. \/ r[k[i]].block < r[k[j]].block
        \/ r[k[i]].block = r[k[j]].block /\ Len(bl[r[k[i]].block].delta) > 1
    BY <2>1 DEF RawOf
  <2> QED BY <2>1, <2>2
<1> QED BY <1>2, <1>4, <1>5, <1>6 DEF RawOf, p

\* They stay the events of those blocks when the chain grows.
LEMMA RawStays ==
    ASSUME NEW r, NEW S, NEW bl, RawOf(bl, r, S), NEW more, \A b \in S : more[b] = bl[b]
    PROVE  RawOf(more, r, S)
BY DEF RawOf

\* The blocks whose changes are read.
Mod(bl, h, c) == {b \in 1 .. h : bl[b].delta # <<>> /\ Counts(bl, h, c, b)}

LEMMA KeptAre ==
    ASSUME ChainInv, NEW h \in 1 .. Height
    PROVE  LET o == ownershipOf(TransfersTo(h), Me) IN
           /\ o.windows = <<>> => Mod(blocks, h, TRUE) = Changes1(h)
           /\ o.windows # <<>> => \A b \in Changes1(h) : heldAt(o, b) <=> b \in Mod(blocks, h, TRUE)
<1> DEFINE o == ownershipOf(TransfersTo(h), Me)
<1>1. \A b \in Changes1(h) : (o.windows = <<>> \/ heldAt(o, b)) <=> Counts(blocks, h, TRUE, b)
  <2> SUFFICES ASSUME NEW b \in Changes1(h)
               PROVE  (o.windows = <<>> \/ heldAt(o, b)) <=> Counts(blocks, h, TRUE, b)
    OBVIOUS
  <2>1. Keeps(h, b) <=> Counts(blocks, h, TRUE, b)
    BY KeepsIs DEF Changes1
  <2> QED BY <2>1 DEF Keeps
<1>2. \A b : b \in Mod(blocks, h, TRUE) <=> b \in Changes1(h) /\ Counts(blocks, h, TRUE, b)
  BY DEF Mod, Changes1
<1>3. Mod(blocks, h, TRUE) \subseteq Changes1(h)
  BY <1>2
<1> HIDE DEF o
<1> QED BY <1>1, <1>2, <1>3 DEF o

LEMMA ScopedV4 ==
    ASSUME ChainInv, NEW h \in 1 .. Height, version = "v4"
    PROVE  /\ RawOf(blocks, ModifiesTo(h), Mod(blocks, h, FALSE))
           /\ RawOf(blocks, Scoped(ModifiesTo(h), TransfersTo(h)).events, Mod(blocks, h, TRUE))
<1> DEFINE T == TransfersTo(h)
           o == ownershipOf(T, Me)
           r == ModifiesTo(h)
           I == {i \in DOMAIN r : heldAt(o, AtOf(r[i]))}
<1>1. RawOf(blocks, r, Changes1(h))
  BY ModifiesAre
<1>2. Mod(blocks, h, FALSE) = Changes1(h)
  BY DEF Mod, Changes1, Counts
<1>3. /\ o.windows = <<>> => Mod(blocks, h, TRUE) = Changes1(h)
      /\ o.windows # <<>> => \A b \in Changes1(h) : heldAt(o, b) <=> b \in Mod(blocks, h, TRUE)
  BY KeptAre
<1>4. Scoped(r, T).events = IF o.windows = <<>> THEN r ELSE Picked(r, I)
  BY DEF Scoped
<1> HIDE DEF T, o, r
<1>5. CASE o.windows # <<>>
  <2>1. Mod(blocks, h, TRUE) \subseteq Changes1(h)
    BY DEF Mod, Changes1
  <2>2. \A i \in 1 .. Len(r) : i \in I <=> r[i].block \in Mod(blocks, h, TRUE)
    <3> SUFFICES ASSUME NEW i \in 1 .. Len(r)
                 PROVE  i \in I <=> r[i].block \in Mod(blocks, h, TRUE)
      OBVIOUS
    <3>1. i \in DOMAIN r /\ r[i].block \in Changes1(h)
      BY <1>1 DEF RawOf
    <3>2. AtOf(r[i]) = r[i].block
      BY DEF AtOf
    <3> QED BY <1>3, <1>5, <3>1, <3>2
  <2> HIDE DEF I
  <2>3. RawOf(blocks, Picked(r, I), Mod(blocks, h, TRUE))
    BY <1>1, <2>1, <2>2, RawPicked
  <2> QED BY <1>1, <1>2, <1>4, <1>5, <2>3 DEF r, T
<1>6. CASE o.windows = <<>>
  BY <1>1, <1>2, <1>3, <1>4, <1>6 DEF r, T
<1> QED BY <1>5, <1>6

-----------------------------------------------------------------------------
(* Ticks and their reconciliation *)

PoolTicks == MinTick .. MaxTick
GrowthRead == 0 .. Wrap - 1 \cup {NoGrowth}
BlockState == [tick : PoolTicks, price : PoolTicks \cup {NoTick}, fg : GrowthRead]

LEMMA NoTickIsNone ==
    /\ NoTick \notin PoolTicks /\ NoTick \in Int /\ PoolTicks \subseteq Nat
    /\ TickLower .. TickUpper \subseteq PoolTicks
BY TicksOrdered DEF NoTick, PoolTicks

LEMMA TickFromIs ==
    ASSUME NEW amt \in Amount, NEW L \in Int
    PROVE  tickFromAmounts(amt, L) \in TickLower .. TickUpper \cup {NoTick}
<1>1. L > 0 => TickLower + amt[2] \div L \in Int
  BY TicksOrdered DEF Amount
<1>2. L > 0 => Clamp(TickLower + amt[2] \div L) \in TickLower .. TickUpper
  <2> DEFINE t == TickLower + amt[2] \div L
  <2>1. L > 0 => t \in Int
    BY <1>1
  <2> HIDE DEF t
  <2>2. L > 0 => Clamp(t) \in TickLower .. TickUpper
    BY <2>1, ClampIn
  <2> QED BY <2>2 DEF t
<1>3. TickLower \in TickLower .. TickUpper /\ TickUpper \in TickLower .. TickUpper
  BY TicksOrdered
<1> DEFINE c == Clamp(TickLower + amt[2] \div L)
<1>4. tickFromAmounts(amt, L) \in {NoTick, TickLower, TickUpper} \/ (L > 0 /\ tickFromAmounts(amt, L) = c)
  <2> HIDE DEF c
  <2>1. CASE L <= 0 \/ amt = Zero
    <3>1. ~(L > 0 /\ amt[1] > 0)
      BY <2>1 DEF Zero
    <3>2. tickFromAmounts(amt, L) = NoTick
      BY <2>1, <3>1 DEF tickFromAmounts
    <3> QED BY <3>2
  <2>2. CASE L > 0 /\ amt # Zero
    <3>1. ~(L <= 0)
      BY <2>2
    <3>2. tickFromAmounts(amt, L) = CASE L > 0 /\ amt[1] > 0 /\ amt[2] > 0 -> c
                                    [] L > 0 /\ amt[1] > 0 /\ amt[2] = 0 -> TickLower
                                    [] OTHER -> TickUpper
      BY <2>2, <3>1 DEF tickFromAmounts, c, Amount
    <3> QED BY <2>2, <3>2
  <2> QED BY <2>1, <2>2
<1> QED BY <1>2, <1>3, <1>4

-----------------------------------------------------------------------------
(* What the owner moved *)

\* Of what a trace shows, one call that succeeded moves value: what was paid and given back.
LEMMA TraceSum ==
    ASSUME NEW n \in Int, NEW value \in Int, NEW calls,
           calls = <<[type |-> "call", ok |-> TRUE, net |-> n],
                     [type |-> "delegatecall", ok |-> TRUE, net |-> n],
                     [type |-> "call", ok |-> FALSE, net |-> 1]>>
    PROVE  nativeFlowForOwner(value, calls) = n - value
<1> DEFINE f == [i \in DOMAIN calls |-> IF MovesValue(calls[i]) THEN calls[i].net ELSE 0]
           S == {2, 3}
<1>1. DOMAIN calls = {1, 2, 3} /\ MovesValue(calls[1]) /\ calls[1].net = n
      /\ ~MovesValue(calls[2]) /\ ~MovesValue(calls[3])
  <2>1. DOMAIN calls = 1 .. 3
    OBVIOUS
  <2>2. DOMAIN calls = {1, 2, 3}
    BY <2>1
  <2>3. /\ calls[1] = [type |-> "call", ok |-> TRUE, net |-> n]
        /\ calls[2] = [type |-> "delegatecall", ok |-> TRUE, net |-> n]
        /\ calls[3] = [type |-> "call", ok |-> FALSE, net |-> 1]
    OBVIOUS
  <2> QED BY <2>2, <2>3 DEF MovesValue
<1>2. f[1] = n /\ f[2] = 0 /\ f[3] = 0 /\ DOMAIN f = {1, 2, 3}
  BY <1>1
<1>3. nativeFlowForOwner(value, calls) = SumFunctionOnSet(f, {1, 2, 3}) - value
  BY <1>2 DEF nativeFlowForOwner, SumFunction
<1> HIDE DEF f
<1>4. IsFiniteSet(S) /\ S \cup {1} = {1, 2, 3} /\ 1 \notin S
  <2>1. S = 2 .. 3
    OBVIOUS
  <2>2. IsFiniteSet(2 .. 3)
    <3>1. 2 \in Int /\ 3 \in Int
      OBVIOUS
    <3> QED BY <3>1, FS_Interval
  <2> QED BY <2>1, <2>2
<1>5. (\A x \in S : f[x] = 0) /\ (\A x \in S \cup {1} : f[x] \in Int)
  BY <1>2
<1> HIDE DEF S
<1>6. SumFunctionOnSet(f, S \cup {1}) = f[1] + SumFunctionOnSet(f, S)
  BY <1>4, <1>5, SumInsert
<1>7. SumFunctionOnSet(f, S) = 0
  BY <1>4, <1>5, SumZero
<1> QED BY <1>2, <1>3, <1>4, <1>6, <1>7

TraceOf(b, value) == nativeFlowForOwner(value, CallsOf(b, IF value = 0 THEN 0 ELSE Refund))

LEMMA TraceIs ==
    ASSUME ChainInv, NEW b \in 1 .. Height, NEW value \in Nat
    PROVE  TraceOf(b, value) = blocks[b].paid[1] + (IF value = 0 THEN 0 ELSE Refund) - value
<1>1. blocks[b].paid[1] \in Nat
  BY BlockIs DEF Block, Amount
<1> DEFINE refund == IF value = 0 THEN 0 ELSE Refund
           n == blocks[b].paid[1] + refund
           calls == CallsOf(b, refund)
<1>2. n \in Int /\ refund \in Nat
  BY <1>1, ReaderAssumption
<1>3. calls = <<[type |-> "call", ok |-> TRUE, net |-> n],
                [type |-> "delegatecall", ok |-> TRUE, net |-> n],
                [type |-> "call", ok |-> FALSE, net |-> 1]>>
  BY DEF CallsOf
<1>4. TraceOf(b, value) = nativeFlowForOwner(value, calls)
  BY DEF TraceOf
<1> HIDE DEF n, calls
<1>5. nativeFlowForOwner(value, calls) = n - value
  BY <1>2, <1>3, TraceSum
<1> QED BY <1>1, <1>2, <1>4, <1>5 DEF n

\* What is known of a flow is what was paid less what was spent; of a native leg that cannot
\* be read it is what was sent along.
FlowOf(x, flow) ==
    /\ flow[2] = x.paid[2] - x.spent[2]
    /\ \/ flow[1] = x.paid[1] - x.spent[1]
       \/ flow[1] = -(x.spent[1] + Refund) /\ x.spent[1] > 0

\* In a transaction that spends nothing, whatever is known of a flow is what was paid.
LEMMA FlowsAre ==
    ASSUME ChainInv, NEW native \in BOOLEAN, NEW unread, Txs \subseteq 1 .. Height
    PROVE  LET flows == ownerFlows(native, unread) IN
           /\ DOMAIN flows \subseteq Txs
           /\ \A b \in DOMAIN flows : flows[b] \in Int \X Int
           /\ \A b \in DOMAIN flows : blocks[b].spent = Zero => flows[b] = blocks[b].paid
           /\ \A b \in DOMAIN flows : FlowOf(blocks[b], flows[b])
<1> DEFINE Value(b) == IF blocks[b].spent[1] = 0 THEN 0 ELSE blocks[b].spent[1] + Refund
           Known(b) == ~native \/ b \notin unread \/ Value(b) > 0
           Leg(b) == CASE ~native -> blocks[b].paid[1] - blocks[b].spent[1]
                       [] native /\ b \notin unread -> TraceOf(b, Value(b))
                       [] OTHER -> -Value(b)
           Flow(b) == <<Leg(b), blocks[b].paid[2] - blocks[b].spent[2]>>
           D == {b \in {b \in Txs : blocks[b].owner = own.owner} : Known(b) /\ Flow(b) # Zero}
           flows == ownerFlows(native, unread)
<1>1. flows = [b \in D |-> Flow(b)]
  BY DEF ownerFlows, TraceOf
<1>2. \A b \in D : b \in Txs /\ Known(b)
  OBVIOUS
<1>3. ASSUME NEW b \in Txs
      PROVE  /\ Flow(b) \in Int \X Int
             /\ blocks[b].spent = Zero /\ Known(b) => Flow(b) = blocks[b].paid
             /\ Known(b) => FlowOf(blocks[b], Flow(b))
  <2>1. b \in 1 .. Height /\ blocks[b].paid \in Amount /\ blocks[b].spent \in Amount
    BY BlockIs DEF Block
  <2> DEFINE p1 == blocks[b].paid[1]
             p2 == blocks[b].paid[2]
             s1 == blocks[b].spent[1]
             s2 == blocks[b].spent[2]
             v == Value(b)
  <2>2. p1 \in Nat /\ p2 \in Nat /\ s1 \in Nat /\ s2 \in Nat /\ blocks[b].paid = <<p1, p2>>
        /\ (blocks[b].spent = Zero => s1 = 0 /\ s2 = 0)
    BY <2>1 DEF Amount, Zero
  <2>3. v \in Nat /\ (s1 = 0 => v = 0) /\ (s1 # 0 => v = s1 + Refund)
    BY <2>2, ReaderAssumption
  <2>4. TraceOf(b, v) = p1 + (IF v = 0 THEN 0 ELSE Refund) - v
    <3> HIDE DEF v
    <3> QED BY <2>1, <2>3, TraceIs
  <2>5. Leg(b) = CASE ~native -> p1 - s1 [] native /\ b \notin unread -> TraceOf(b, v) [] OTHER -> -v
    OBVIOUS
  <2>6. Flow(b) = <<Leg(b), p2 - s2>> /\ (Known(b) <=> ~native \/ b \notin unread \/ v > 0)
    OBVIOUS
  <2> HIDE DEF p1, p2, s1, s2, v, Leg, Flow, Known
  <2>7. Leg(b) \in Int
    BY <2>2, <2>3, <2>4, <2>5, ReaderAssumption
  <2>8. ASSUME blocks[b].spent = Zero, Known(b) PROVE Leg(b) = p1
    BY <2>2, <2>3, <2>4, <2>5, <2>6, <2>8
  <2>9. ASSUME Known(b) PROVE Leg(b) = p1 - s1 \/ (Leg(b) = -(s1 + Refund) /\ s1 > 0)
    <3>1. CASE ~native
      BY <2>5, <3>1
    <3>2. CASE native /\ b \notin unread
      BY <2>2, <2>3, <2>4, <2>5, <3>2, ReaderAssumption
    <3>3. CASE native /\ b \in unread
      <4>1. v > 0 /\ Leg(b) = -v
        BY <2>5, <2>6, <2>9, <3>3
      <4> QED BY <2>2, <2>3, <4>1
    <3> QED BY <3>1, <3>2, <3>3
  <2>10. ASSUME Known(b) PROVE FlowOf(blocks[b], Flow(b))
    BY <2>6, <2>9, <2>10 DEF FlowOf, p1, p2, s1, s2
  <2> QED BY <2>2, <2>6, <2>7, <2>8, <2>10
<1> HIDE DEF D, Flow, Known, flows
<1> QED BY <1>1, <1>2, <1>3 DEF flows, D

LEMMA InflowsAre ==
    ASSUME NEW flows, \A b \in DOMAIN flows : flows[b] \in Int \X Int
    PROVE  /\ DOMAIN inflowsOf(flows) \subseteq DOMAIN flows
           /\ \A b \in DOMAIN inflowsOf(flows) :
                inflowsOf(flows)[b] = flows[b] /\ inflowsOf(flows)[b] \in Amount
BY DEF inflowsOf, Amount

LEMMA OutflowsAre ==
    ASSUME NEW flows, \A b \in DOMAIN flows : flows[b] \in Int \X Int
    PROVE  /\ DOMAIN outflowsOf(flows) \subseteq DOMAIN flows
           /\ \A b \in DOMAIN outflowsOf(flows) :
                outflowsOf(flows)[b] = Minus(Zero, flows[b]) /\ outflowsOf(flows)[b] \in Amount
<1> DEFINE back == [tx \in DOMAIN flows |-> Minus(Zero, flows[tx])]
<1>1. outflowsOf(flows) = inflowsOf(back)
  BY DEF outflowsOf
<1>2. \A b \in DOMAIN back : back[b] \in Int \X Int
  <2> SUFFICES ASSUME NEW b \in DOMAIN flows PROVE Minus(Zero, flows[b]) \in Int \X Int
    OBVIOUS
  <2>1. flows[b][1] \in Int /\ flows[b][2] \in Int
    OBVIOUS
  <2> QED BY <2>1 DEF Minus, Zero
<1>3. DOMAIN back = DOMAIN flows /\ \A b \in DOMAIN flows : back[b] = Minus(Zero, flows[b])
  OBVIOUS
<1> HIDE DEF back
<1> QED BY <1>1, <1>2, <1>3, InflowsAre

-----------------------------------------------------------------------------
(* Reconciliation *)

\* A reading that no payout refutes is left as it is.
LEMMA NothingRefuted ==
    ASSUME NEW r, Len(r) \in Nat, NEW read, NEW got,
           \A i \in 1 .. Len(r) : ~Refuted(r, read, got, i)
    PROVE  reconcileRemovalTicks(r, read, got) = [st |-> read, fixed |-> 0]
<1> DEFINE base == [st |-> read, fixed |-> 0]
           n == Len(r)
           Fold(f) == f = [i \in 0 .. n |-> IF i = 0 THEN base ELSE Reconciled(f[i - 1], r, got, i)]
           h == [i \in 0 .. n |-> base]
<1>1. base.st = read /\ n \in Nat
  OBVIOUS
<1>2. \A i \in 1 .. n : Reconciled(base, r, got, i) = base
  <2> HIDE DEF base
  <2> QED BY <1>1 DEF Reconciled
<1>3. reconcileRemovalTicks(r, read, got) = (CHOOSE f : Fold(f))[n]
  BY DEF reconcileRemovalTicks
<1> HIDE DEF base, n
<1>4. Fold(h)
  <2>1. \A i \in 0 .. n : i # 0 => i \in 1 .. n /\ i - 1 \in 0 .. n
    BY <1>1
  <2>2. \A i \in 0 .. n : base = IF i = 0 THEN base ELSE Reconciled(h[i - 1], r, got, i)
    BY <1>2, <2>1
  <2> QED BY <2>2
<1>5. PICK f : Fold(f) /\ reconcileRemovalTicks(r, read, got) = f[n]
  <2> HIDE DEF Fold, h
  <2> QED BY <1>3, <1>4
<1>6. f[0] = base /\ \A i \in 1 .. n : f[i] = Reconciled(f[i - 1], r, got, i)
  BY <1>1, <1>5
<1> DEFINE P == {i \in 0 .. n : f[i] = base}
<1>7. 0 \in P
  BY <1>1, <1>6
<1>8. ASSUME NEW i \in 0 .. n - 1, i \in P PROVE i + 1 \in P
  <2>1. i + 1 \in 1 .. n /\ (i + 1) - 1 = i /\ i + 1 \in 0 .. n
    BY <1>1
  <2> QED BY <1>2, <1>6, <1>8, <2>1
<1>9. \A i \in 0 .. n : i \in P
  <2> HIDE DEF P, Fold
  <2> QED BY <1>1, <1>7, <1>8, CountUp
<1>10. n \in 0 .. n
  BY <1>1
<1> QED BY <1>5, <1>9, <1>10 DEF base

OneEach(bl, S) == \A b \in S : Len(bl[b].delta) = 1
Calm(bl, S) == \A b \in S : bl[b].after = bl[b].tick

\* What was paid covers a removal at the tick the block left, if no trade came after it.
LEMMA PaidForIt ==
    ASSUME ChainInv, version = "v4", NEW b \in 1 .. Height, NEW d \in Int,
           blocks[b].delta = <<d>>, blocks[b].after = blocks[b].tick, d < 0
    PROVE  LET principal == amountsFromLiquidity(-d, blocks[b].after) IN
           /\ ~exceeds(principal[1], blocks[b].paid[1])
           /\ ~exceeds(principal[2], blocks[b].paid[2])
<1> DEFINE t == blocks[b].tick
           paid == blocks[b].paid
           principal == amountsFromLiquidity(-d, t)
<1>1. t \in Int /\ paid \in Amount /\ Covers(blocks[b], version)
  BY BlockIs, TicksOrdered DEF Block, Honest
<1>2. 1 \in DOMAIN blocks[b].delta /\ blocks[b].delta[1] = d
  OBVIOUS
<1>3. AtMost(principal, paid)
  BY <1>1, <1>2 DEF Covers
<1>4. principal \in Amount
  <2>1. -d \in Nat
    OBVIOUS
  <2> HIDE DEF t
  <2> QED BY <1>1, <2>1, AmountsAre
<1> HIDE DEF t, paid, principal
<1>5. ~exceeds(principal[1], paid[1]) /\ ~exceeds(principal[2], paid[2])
  <2>1. principal[1] \in Nat /\ principal[2] \in Nat /\ paid[1] \in Nat /\ paid[2] \in Nat
    BY <1>1, <1>4 DEF Amount
  <2> QED BY <1>3, <2>1 DEF AtMost, exceeds
<1> QED BY <1>5 DEF t, paid, principal

LEMMA OneDelta ==
    ASSUME ChainInv, NEW S \in SUBSET (1 .. Height), RawOf(blocks, raw, S), OneEach(blocks, S),
           NEW i \in 1 .. Len(raw)
    PROVE  /\ raw[i].block \in S /\ raw[i].block \in 1 .. Height /\ raw[i].delta \in Int
           /\ blocks[raw[i].block].delta = <<raw[i].delta>>
<1> DEFINE b == raw[i].block
           d == blocks[b].delta
<1>1. b \in S /\ b \in 1 .. Height /\ \E j \in DOMAIN d : raw[i].delta = d[j]
  BY DEF RawOf
<1>2. d \in Seq(Int) /\ DOMAIN d = 1 .. Len(d)
  <2> HIDE DEF b
  <2> QED BY <1>1, DeltaIs
<1>3. Len(d) = 1
  BY <1>1 DEF OneEach
<1> HIDE DEF d
<1>4. PICK j \in DOMAIN d : raw[i].delta = d[j]
  BY <1>1
<1>5. j = 1 /\ d = <<d[1]>> /\ d[1] \in Int
  BY <1>2, <1>3
<1> QED BY <1>1, <1>4, <1>5 DEF d

TxsOf(r) == {r[i].block : i \in 1 .. Len(r)}

LEMMA TxsAre ==
    ASSUME NEW bl, NEW S, RawOf(bl, raw, S)
    PROVE  Txs = TxsOf(raw) /\ Txs \subseteq S
BY DEF RawOf, Txs, TxsOf

LEMMA CleanTicksStand ==
    ASSUME ChainInv, version = "v4", NEW S \in SUBSET (1 .. Height), RawOf(blocks, raw, S),
           OneEach(blocks, S), Calm(blocks, S), NEW native \in BOOLEAN, NEW unread,
           NEW read, \A b \in Txs : read[b].tick = blocks[b].after
    PROVE  reconcileRemovalTicks(raw, read, inflowsOf(ownerFlows(native, unread)))
             = [st |-> read, fixed |-> 0]
<1> DEFINE flows == ownerFlows(native, unread)
           got == inflowsOf(flows)
<1>1. Txs = TxsOf(raw) /\ Txs \subseteq S
  BY TxsAre
<1>2. /\ DOMAIN flows \subseteq Txs
      /\ \A b \in DOMAIN flows : flows[b] \in Int \X Int
      /\ \A b \in DOMAIN flows : blocks[b].spent = Zero => flows[b] = blocks[b].paid
  BY <1>1, FlowsAre
<1> HIDE DEF flows
<1>3. /\ DOMAIN got \subseteq DOMAIN flows
      /\ \A b \in DOMAIN got : got[b] = flows[b] /\ got[b] \in Amount
  BY <1>2, InflowsAre
<1> HIDE DEF got
<1>4. ASSUME NEW i \in 1 .. Len(raw) PROVE ~Refuted(raw, read, got, i)
  <2> DEFINE b == raw[i].block
             d == raw[i].delta
  <2> SUFFICES ASSUME d < 0, b \in DOMAIN got PROVE ~Refuted(raw, read, got, i)
    BY DEF Refuted
  <2>1. b \in S /\ b \in 1 .. Height /\ d \in Int /\ blocks[b].delta = <<d>> /\ b \in Txs
    BY <1>1, OneDelta DEF TxsOf
  <2>2. blocks[b].after = blocks[b].tick /\ read[b].tick = blocks[b].after
    BY <2>1 DEF Calm
  <2>3. blocks[b].spent = Zero
    <3>1. Honest(blocks[b], version)
      BY <2>1 DEF ChainInv
    <3>2. \A j \in DOMAIN blocks[b].delta : blocks[b].delta[j] <= 0
      BY <2>1
    <3> QED BY <3>1, <3>2 DEF Honest
  <2>4. got[b] = blocks[b].paid
    BY <1>2, <1>3, <2>3
  <2>5. LET principal == amountsFromLiquidity(-d, blocks[b].after) IN
        /\ ~exceeds(principal[1], blocks[b].paid[1])
        /\ ~exceeds(principal[2], blocks[b].paid[2])
    <3> HIDE DEF b, d
    <3> QED BY <2>1, <2>2, PaidForIt
  <2> QED BY <2>2, <2>4, <2>5 DEF Refuted
<1>5. Len(raw) \in Nat
  BY DEF RawOf
<1> QED BY <1>4, <1>5, NothingRefuted DEF got, flows

-----------------------------------------------------------------------------
(* The events of v4 *)

Flow2 == Int \X Int
AnyEvent == [kind : {"increase", "decrease", "collect"}, tx : Nat, at : Nat, amt : Flow2, liq : Nat]
Walk == [events : Seq(AnyEvent), complete : BOOLEAN, liq : Int, last : GrowthRead]

LEMMA FeesIn ==
    ASSUME NEW L \in Int, NEW now \in 0 .. Wrap - 1, NEW last \in 0 .. Wrap - 1
    PROVE  /\ feesFromGrowth(L, now, last) \in Flow2
           /\ L >= 0 => feesFromGrowth(L, now, last) \in Amount
<1> DEFINE g == (now - last) % Wrap
<1>1. g \in Nat
  BY WrapPositive
<1>2. feesFromGrowth(L, now, last) = <<L * g, L * g>>
  BY DEF feesFromGrowth
<1> HIDE DEF g
<1>3. L * g \in Int
  BY <1>1
<1>4. L >= 0 => L * g \in Nat
  BY <1>1, TimesNat
<1> QED BY <1>2, <1>3, <1>4 DEF Flow2, Amount

LEMMA ModifiedIn ==
    ASSUME NEW acc \in Walk, NEW e \in RawEvent, NEW x, x.tick \in PoolTicks, x.fg \in GrowthRead,
           NEW got, e.block \in DOMAIN got => got[e.block] \in Amount
    PROVE  Modified(acc, e, x, got) \in Walk
<1> DEFINE read == e.block \in DOMAIN got
           known == x.fg # NoGrowth /\ acc.last # NoGrowth
           fee == IF known THEN feesFromGrowth(acc.liq, x.fg, acc.last) ELSE Zero
           L == Magnitude(e.delta)
           principal == amountsFromLiquidity(L, x.tick)
           paid == IF read THEN Least(principal, got[e.block]) ELSE principal
           gets == IF read THEN got[e.block] ELSE Plus(IF e.delta < 0 THEN paid ELSE Zero, fee)
           collect == <<Event("collect", e, gets, 0)>>
           new == IF e.delta > 0
                    THEN <<Event("increase", e, principal, L)>> \o
                         IF Positive(fee) THEN <<Event("collect", e, fee, 0)>> ELSE <<>>
                  ELSE IF e.delta < 0 THEN <<Event("decrease", e, paid, L)>> \o collect
                  ELSE collect
<1>1. Modified(acc, e, x, got) =
        [events |-> acc.events \o new,
         complete |-> acc.complete /\ ~(acc.liq > 0 /\ ~known /\ (e.delta > 0 \/ ~read)),
         liq |-> acc.liq + e.delta, last |-> x.fg]
  BY DEF Modified
<1>2. e.block \in Nat /\ e.delta \in Int /\ acc.liq \in Int /\ acc.last \in GrowthRead
      /\ acc.complete \in BOOLEAN /\ acc.events \in Seq(AnyEvent)
  BY DEF RawEvent, Walk
<1>3. L \in Nat
  BY <1>2 DEF Magnitude
<1>4. principal \in Amount
  <2>1. x.tick \in Int
    <3> DEFINE t == x.tick
    <3>1. t \in PoolTicks /\ PoolTicks \subseteq Nat
      BY NoTickIsNone
    <3> HIDE DEF t
    <3>2. t \in Int
      BY <3>1
    <3> QED BY <3>2 DEF t
  <2> HIDE DEF L
  <2> QED BY <1>3, <2>1, AmountsAre
<1>5. fee \in Flow2
  <2>1. known => x.fg \in 0 .. Wrap - 1 /\ acc.last \in 0 .. Wrap - 1
    BY <1>2 DEF GrowthRead
  <2>2. Zero \in Flow2
    BY DEF Zero, Flow2
  <2> QED BY <1>2, <2>1, <2>2, FeesIn
<1>6. \A kind \in {"increase", "decrease", "collect"}, amt \in Flow2, liq \in Nat :
         <<Event(kind, e, amt, liq)>> \in Seq(AnyEvent)
  <2> SUFFICES ASSUME NEW kind \in {"increase", "decrease", "collect"}, NEW amt \in Flow2, NEW liq \in Nat
               PROVE  Event(kind, e, amt, liq) \in AnyEvent
    OBVIOUS
  <2> QED BY <1>2 DEF Event, AnyEvent
<1>7. Amount \subseteq Flow2
  BY DEF Amount, Flow2
<1> HIDE DEF known, fee, L, principal
<1>8. paid \in Amount
  BY <1>4 DEF Least, Amount
<1> HIDE DEF paid
<1>9. gets \in Flow2
  <2>1. \A a, b \in Flow2 : Plus(a, b) \in Flow2
    BY DEF Plus, Flow2
  <2>2. Zero \in Flow2
    BY DEF Zero, Flow2
  <2> QED BY <1>5, <1>7, <1>8, <2>1, <2>2
<1> HIDE DEF gets
<1>10. collect \in Seq(AnyEvent)
  BY <1>6, <1>9
<1>11. \A a, b \in Seq(AnyEvent) : a \o b \in Seq(AnyEvent)
  OBVIOUS
<1>12. <<Event("increase", e, principal, L)>> \in Seq(AnyEvent)
       /\ <<Event("decrease", e, paid, L)>> \in Seq(AnyEvent)
       /\ <<Event("collect", e, fee, 0)>> \in Seq(AnyEvent)
       /\ <<>> \in Seq(AnyEvent)
  BY <1>3, <1>4, <1>5, <1>6, <1>7, <1>8
<1> HIDE DEF collect
<1>13. new \in Seq(AnyEvent)
  BY <1>10, <1>11, <1>12
<1> HIDE DEF new
<1>14. acc.events \o new \in Seq(AnyEvent) /\ acc.liq + e.delta \in Int
  BY <1>2, <1>11, <1>13
<1> QED BY <1>1, <1>2, <1>14 DEF Walk

\* What the walk over the events is given.
Readings(r, s, got) ==
    /\ r \in Seq(RawEvent) /\ r # <<>>
    /\ \A i \in 1 .. Len(r) : s[r[i].block].tick \in PoolTicks /\ s[r[i].block].fg \in GrowthRead
    /\ \A b \in DOMAIN got : got[b] \in Amount

Walks(f, r, s, got) ==
    /\ f[0] = [events |-> <<>>, complete |-> TRUE, liq |-> 0, last |-> s[r[1].block].fg]
    /\ \A i \in 1 .. Len(r) : f[i] = Modified(f[i - 1], r[i], s[r[i].block], got)

LEMMA WalkSteps ==
    ASSUME NEW r, NEW s, NEW got, Readings(r, s, got)
    PROVE  \E f \in [0 .. Len(r) -> Walk] : Walks(f, r, s, got) /\ buildV4Events(r, s, got) = f[Len(r)]
<1> DEFINE start == [events |-> <<>>, complete |-> TRUE, liq |-> 0, last |-> s[r[1].block].fg]
           M(x, i) == Modified(x, r[i], s[r[i].block], got)
           Fold(f) == f = [i \in 0 .. Len(r) |-> IF i = 0 THEN start ELSE M(f[i - 1], i)]
<1>1. PICK n \in Nat : n = Len(r) /\ n >= 1 /\ \A i \in 1 .. n : r[i] \in RawEvent
  <2>1. r \in Seq(RawEvent) /\ r # <<>>
    BY DEF Readings
  <2>2. Len(r) \in Nat /\ Len(r) >= 1 /\ \A i \in 1 .. Len(r) : r[i] \in RawEvent
    BY <2>1
  <2> QED BY <2>2
<1>2. start \in Walk
  <2>1. s[r[1].block].fg \in GrowthRead
    BY <1>1 DEF Readings
  <2>2. <<>> \in Seq(AnyEvent)
    OBVIOUS
  <2> QED BY <2>1, <2>2 DEF Walk
<1>3. \A i \in 1 .. n : \A x \in Walk : M(x, i) \in Walk
  <2> SUFFICES ASSUME NEW i \in 1 .. n, NEW x \in Walk PROVE Modified(x, r[i], s[r[i].block], got) \in Walk
    OBVIOUS
  <2> DEFINE e == r[i]
             y == s[e.block]
  <2>1. e \in RawEvent /\ y.tick \in PoolTicks /\ y.fg \in GrowthRead
        /\ (e.block \in DOMAIN got => got[e.block] \in Amount)
    BY <1>1 DEF Readings
  <2> HIDE DEF e, y
  <2>2. Modified(x, e, y, got) \in Walk
    BY <2>1, ModifiedIn
  <2> QED BY <2>2 DEF e, y
<1> HIDE DEF start, M
<1>4. PICK h \in [0 .. n -> Walk] : Fold(h)
  <2> DEFINE G == [x \in (1 .. n) \X Walk |-> M(x[2], x[1])]
  <2>1. \A i \in 1 .. n : \A x \in Walk : G[<<i, x>>] = M(x, i)
    OBVIOUS
  <2>2. \A i \in 1 .. n : \A x \in Walk : G[<<i, x>>] \in Walk
    <3> HIDE DEF G
    <3> QED BY <1>3, <2>1
  <2> HIDE DEF G
  <2>3. PICK h \in [0 .. n -> Walk] : Recursion(h, n, start, G)
    BY <1>2, <2>2, RecursionExists
  <2>4. \A i \in 0 .. n : i # 0 => i \in 1 .. n /\ h[i - 1] \in Walk
    BY <1>1
  <2>5. h = [i \in 0 .. n |-> IF i = 0 THEN start ELSE G[<<i, h[i - 1]>>]]
    BY <2>3 DEF Recursion
  <2>6. \A i \in 0 .. n : h[i] = IF i = 0 THEN start ELSE M(h[i - 1], i)
    BY <2>1, <2>4, <2>5
  <2>7. h = [i \in 0 .. n |-> IF i = 0 THEN start ELSE M(h[i - 1], i)]
    BY <2>6
  <2> QED BY <1>1, <2>7
<1>5. PICK f : Fold(f) /\ buildV4Events(r, s, got) = f[n]
  <2>1. buildV4Events(r, s, got) = (CHOOSE f : Fold(f))[n]
    BY <1>1 DEF buildV4Events, start, M
  <2> HIDE DEF Fold
  <2> QED BY <1>4, <2>1
<1>6. \A g : Fold(g) => g[0] = start /\ \A i \in 1 .. n : g[i] = M(g[i - 1], i)
  BY <1>1
<1> HIDE DEF Fold
<1>7. \A i \in 0 .. n : f[i] = h[i]
  <2> DEFINE P == {i \in 0 .. n : f[i] = h[i]}
  <2>1. 0 \in P
    BY <1>1, <1>4, <1>5, <1>6
  <2>2. ASSUME NEW i \in 0 .. n - 1, i \in P PROVE i + 1 \in P
    <3>1. i + 1 \in 1 .. n /\ (i + 1) - 1 = i /\ i + 1 \in 0 .. n
      BY <1>1
    <3> QED BY <1>4, <1>5, <1>6, <2>2, <3>1
  <2> HIDE DEF P
  <2>3. \A i \in 0 .. n : i \in P
    BY <1>1, <2>1, <2>2, CountUp
  <2> QED BY <2>3 DEF P
<1>8. h[0] = start /\ \A i \in 1 .. n : h[i] = M(h[i - 1], i)
  BY <1>4, <1>6
<1>9. Walks(h, r, s, got) /\ buildV4Events(r, s, got) = h[n]
  <2>1. n \in 0 .. n
    BY <1>1
  <2> QED BY <1>1, <1>5, <1>7, <1>8, <2>1 DEF Walks, start, M
<1> QED BY <1>1, <1>9

LEMMA ModifiedComplete ==
    ASSUME NEW acc, acc.complete, acc.last # NoGrowth, NEW e, NEW x, x.fg # NoGrowth, NEW got
    PROVE  Modified(acc, e, x, got).complete /\ Modified(acc, e, x, got).last = x.fg
<1> DEFINE read == e.block \in DOMAIN got
           known == x.fg # NoGrowth /\ acc.last # NoGrowth
           complete == acc.complete /\ ~(acc.liq > 0 /\ ~known /\ (e.delta > 0 \/ ~read))
<1>1. Modified(acc, e, x, got).complete = complete /\ Modified(acc, e, x, got).last = x.fg
  BY DEF Modified
<1> QED BY <1>1

\* Where no state was lost, no fee is missing.
LEMMA WalkComplete ==
    ASSUME NEW r, NEW s, NEW got, Readings(r, s, got),
           \A i \in 1 .. Len(r) : s[r[i].block].fg # NoGrowth
    PROVE  buildV4Events(r, s, got).complete
<1>1. PICK f \in [0 .. Len(r) -> Walk] : Walks(f, r, s, got) /\ buildV4Events(r, s, got) = f[Len(r)]
  BY WalkSteps
<1>2. PICK n \in Nat : n = Len(r) /\ n >= 1
  <2>1. r \in Seq(RawEvent) /\ r # <<>>
    BY DEF Readings
  <2>2. Len(r) \in Nat /\ Len(r) >= 1
    BY <2>1
  <2> QED BY <2>2
<1> DEFINE P == {i \in 0 .. n : f[i].complete /\ f[i].last # NoGrowth}
<1>3. 0 \in P
  <2>1. f[0] = [events |-> <<>>, complete |-> TRUE, liq |-> 0, last |-> s[r[1].block].fg]
    BY <1>1 DEF Walks
  <2> QED BY <1>2, <2>1
<1>4. ASSUME NEW i \in 0 .. n - 1, i \in P PROVE i + 1 \in P
  <2>1. i + 1 \in 1 .. n /\ (i + 1) - 1 = i /\ i + 1 \in 0 .. n
    BY <1>2
  <2>2. f[i + 1] = Modified(f[i], r[i + 1], s[r[i + 1].block], got) /\ s[r[i + 1].block].fg # NoGrowth
    BY <1>1, <1>2, <2>1 DEF Walks
  <2>3. f[i].complete /\ f[i].last # NoGrowth
    BY <1>4
  <2>4. f[i + 1].complete /\ f[i + 1].last = s[r[i + 1].block].fg
    <3> DEFINE acc == f[i]
               e == r[i + 1]
               x == s[e.block]
    <3>1. acc.complete /\ acc.last # NoGrowth /\ x.fg # NoGrowth
      BY <2>2, <2>3
    <3> HIDE DEF acc, e, x
    <3>2. Modified(acc, e, x, got).complete /\ Modified(acc, e, x, got).last = x.fg
      BY <3>1, ModifiedComplete
    <3> QED BY <2>2, <3>2 DEF acc, e, x
  <2> QED BY <2>1, <2>2, <2>4
<1>5. \A i \in 0 .. n : i \in P
  <2> HIDE DEF P
  <2> QED BY <1>2, <1>3, <1>4, CountUp
<1> QED BY <1>1, <1>2, <1>5

-----------------------------------------------------------------------------
(* Sums of amounts *)

\* A function to amounts, and its two components.
Amounts(f) == IsFiniteSet(DOMAIN f) /\ \A x \in DOMAIN f : f[x] \in Amount

LEMMA Components ==
    ASSUME NEW f, Amounts(f)
    PROVE  /\ \A x \in DOMAIN f : /\ First(f)[x] = f[x][1] /\ Second(f)[x] = f[x][2]
                                  /\ f[x][1] \in Nat /\ f[x][2] \in Nat
           /\ Total(f)[1] = SumFunctionOnSet(First(f), DOMAIN f)
           /\ Total(f)[2] = SumFunctionOnSet(Second(f), DOMAIN f)
           /\ Total(f) \in Amount /\ IsFiniteSet(DOMAIN f)
<1>1. \A x \in DOMAIN f : f[x][1] \in Nat /\ f[x][2] \in Nat
  BY DEF Amounts, Amount
<1>2. Total(f) \in Amount
  BY TotalNat DEF Amounts
<1> QED BY <1>1, <1>2, TotalIs DEF First, Second, Amounts

LEMMA SameAmount ==
    ASSUME NEW a \in Amount, NEW b \in Amount, a[1] = b[1], a[2] = b[2] PROVE a = b
BY DEF Amount

LEMMA TotalOne ==
    ASSUME NEW f, NEW d, DOMAIN f = {d}, f[d] \in Amount PROVE Total(f) = f[d]
<1>1. Amounts(f)
  BY FS_Singleton DEF Amounts
<1>2. IsFiniteSet({}) /\ d \notin {} /\ {} \cup {d} = {d}
  BY FS_EmptySet
<1>3. \A g : g[d] \in Int => SumFunctionOnSet(g, {d}) = g[d]
  <2> SUFFICES ASSUME NEW g, g[d] \in Int PROVE SumFunctionOnSet(g, {d}) = g[d]
    OBVIOUS
  <2>1. SumFunctionOnSet(g, {} \cup {d}) = g[d] + SumFunctionOnSet(g, {})
    BY <1>2, SumInsert
  <2>2. SumFunctionOnSet(g, {}) = 0
    BY SumEmpty
  <2> QED BY <1>2, <2>1, <2>2
<1>4. /\ First(f)[d] = f[d][1] /\ Second(f)[d] = f[d][2] /\ f[d][1] \in Int /\ f[d][2] \in Int
      /\ Total(f)[1] = SumFunctionOnSet(First(f), {d}) /\ Total(f)[2] = SumFunctionOnSet(Second(f), {d})
      /\ Total(f) \in Amount
  BY <1>1, Components
<1> QED BY <1>3, <1>4, SameAmount

LEMMA TotalSame ==
    ASSUME NEW f, NEW g, Amounts(f), DOMAIN g = DOMAIN f, \A x \in DOMAIN f : g[x] = f[x]
    PROVE  Total(g) = Total(f)
<1>1. Amounts(g)
  BY DEF Amounts
<1>2. /\ \A x \in DOMAIN f : First(g)[x] = First(f)[x] /\ Second(g)[x] = Second(f)[x]
      /\ \A x \in DOMAIN f : First(g)[x] \in Int /\ Second(g)[x] \in Int
  BY <1>1, Components
<1>3. /\ SumFunctionOnSet(First(g), DOMAIN f) = SumFunctionOnSet(First(f), DOMAIN f)
      /\ SumFunctionOnSet(Second(g), DOMAIN f) = SumFunctionOnSet(Second(f), DOMAIN f)
  BY <1>2, SumSame DEF Amounts
<1> QED BY <1>1, <1>3, Components, SameAmount

LEMMA TotalPlus ==
    ASSUME NEW f, NEW g, NEW h, Amounts(f), Amounts(g), DOMAIN g = DOMAIN f, DOMAIN h = DOMAIN f,
           \A x \in DOMAIN f : h[x] = Plus(f[x], g[x])
    PROVE  Amounts(h) /\ Total(h) = Plus(Total(f), Total(g))
<1>1. \A x \in DOMAIN f : h[x] \in Amount /\ h[x][1] = f[x][1] + g[x][1] /\ h[x][2] = f[x][2] + g[x][2]
  BY PlusIs DEF Plus, Amounts
<1>2. Amounts(h)
  BY <1>1 DEF Amounts
<1>3. \A x \in DOMAIN f : /\ First(f)[x] \in Int /\ First(g)[x] \in Int /\ First(h)[x] = First(f)[x] + First(g)[x]
                          /\ Second(f)[x] \in Int /\ Second(g)[x] \in Int /\ Second(h)[x] = Second(f)[x] + Second(g)[x]
  BY <1>1, <1>2, Components
<1>4. /\ SumFunctionOnSet(First(h), DOMAIN f) = SumFunctionOnSet(First(f), DOMAIN f) + SumFunctionOnSet(First(g), DOMAIN f)
      /\ SumFunctionOnSet(Second(h), DOMAIN f) = SumFunctionOnSet(Second(f), DOMAIN f) + SumFunctionOnSet(Second(g), DOMAIN f)
  BY <1>3, SumPlus DEF Amounts
<1>5. /\ Total(h)[1] = Total(f)[1] + Total(g)[1] /\ Total(h)[2] = Total(f)[2] + Total(g)[2]
      /\ Total(h) \in Amount /\ Total(f) \in Amount /\ Total(g) \in Amount
  BY <1>2, <1>4, Components
<1>6. Plus(Total(f), Total(g)) \in Amount
  BY <1>5, PlusIs
<1> QED BY <1>2, <1>5, <1>6, SameAmount DEF Plus

\* What is left out is nothing.
LEMMA TotalOnly ==
    ASSUME NEW f, NEW g, Amounts(f), DOMAIN g \subseteq DOMAIN f,
           \A x \in DOMAIN g : g[x] = f[x], \A x \in DOMAIN f \ DOMAIN g : f[x] = Zero
    PROVE  Amounts(g) /\ Total(g) = Total(f)
<1>1. Amounts(g)
  BY FS_Subset DEF Amounts
<1>2. /\ \A x \in DOMAIN f : First(f)[x] \in Int /\ Second(f)[x] \in Int
      /\ \A x \in DOMAIN g : First(g)[x] = First(f)[x] /\ Second(g)[x] = Second(f)[x]
      /\ \A x \in DOMAIN f \ DOMAIN g : First(f)[x] = 0 /\ Second(f)[x] = 0
  BY <1>1, Components DEF Zero
<1>3. /\ SumFunctionOnSet(First(g), DOMAIN g) = SumFunctionOnSet(First(f), DOMAIN f)
      /\ SumFunctionOnSet(Second(g), DOMAIN g) = SumFunctionOnSet(Second(f), DOMAIN f)
  BY <1>2, SumOnly DEF Amounts
<1> QED BY <1>1, <1>3, Components, SameAmount

\* The same amounts under other names.
LEMMA TotalImage ==
    ASSUME NEW f, Amounts(f), NEW m, NEW g, DOMAIN g = {m[x] : x \in DOMAIN f},
           \A x, y \in DOMAIN f : m[x] = m[y] => x = y,
           \A x \in DOMAIN f : g[m[x]] = f[x]
    PROVE  Amounts(g) /\ Total(g) = Total(f)
<1>1. Amounts(g)
  <2>1. IsFiniteSet(DOMAIN g)
    BY ImageFinite DEF Amounts
  <2> QED BY <2>1 DEF Amounts
<1>2. /\ \A x \in DOMAIN f : m[x] \in DOMAIN g
      /\ \A x \in DOMAIN f : First(g)[m[x]] \in Int /\ First(f)[x] = First(g)[m[x]]
      /\ \A x \in DOMAIN f : Second(g)[m[x]] \in Int /\ Second(f)[x] = Second(g)[m[x]]
  BY <1>1, Components
<1>3. /\ SumFunctionOnSet(First(g), DOMAIN g) = SumFunctionOnSet(First(f), DOMAIN f)
      /\ SumFunctionOnSet(Second(g), DOMAIN g) = SumFunctionOnSet(Second(f), DOMAIN f)
  BY <1>2, SumImage DEF Amounts
<1> QED BY <1>1, <1>3, Components, SameAmount

-----------------------------------------------------------------------------
(* What is reported of a sequence of events *)

\* What a transaction collects covers each withdrawal of it.
Fair(events) ==
    /\ events \in Seq(AnyEvent)
    /\ \A i \in 1 .. Len(events) : events[i].amt \in Amount
    /\ \A i, j \in 1 .. Len(events) :
         events[i].kind = "decrease" /\ events[j].kind = "collect" /\ events[i].tx = events[j].tx
           => AtMost(events[i].amt, events[j].amt)

LEMMA KindIs ==
    ASSUME NEW events, Fair(events), NEW kind
    PROVE  /\ OfKind(events, kind) \subseteq 1 .. Len(events) /\ IsFiniteSet(OfKind(events, kind))
           /\ Len(events) \in Nat /\ DOMAIN events = 1 .. Len(events)
           /\ \A i \in OfKind(events, kind) : events[i].kind = kind /\ events[i].amt \in Amount
           /\ \A i, j \in OfKind(events, kind) : events[i].tx = events[j].tx => i = j
<1>1. events \in Seq(AnyEvent)
  BY DEF Fair
<1>2. PICK n \in Nat : n = Len(events) /\ DOMAIN events = 1 .. n
  BY <1>1
<1>3. OfKind(events, kind) \subseteq 1 .. n
  BY <1>2 DEF OfKind
<1>4. IsFiniteSet(OfKind(events, kind))
  <2>1. IsFiniteSet(1 .. n)
    BY FS_Interval
  <2> QED BY <1>3, <2>1, FS_Subset
<1>5. \A i \in OfKind(events, kind) : events[i].kind = kind /\ events[i].amt \in Amount
  BY <1>2, <1>3 DEF OfKind, Fair
<1>6. ASSUME NEW i \in OfKind(events, kind), NEW j \in OfKind(events, kind), events[i].tx = events[j].tx
      PROVE  i = j
  <2>1. i \in 1 .. n /\ j \in 1 .. n /\ events[i].kind = events[j].kind
    BY <1>3, <1>5
  <2>2. IsFirst(events, i) /\ IsFirst(events, j)
    BY DEF OfKind
  <2>3. ~(i < j)
    <3>1. i < j => i \in 1 .. j - 1
      BY <2>1
    <3> QED BY <1>6, <2>1, <2>2, <3>1 DEF IsFirst
  <2>4. ~(j < i)
    <3>1. j < i => j \in 1 .. i - 1
      BY <2>1
    <3> QED BY <1>6, <2>1, <2>2, <3>1 DEF IsFirst
  <2> QED BY <2>1, <2>3, <2>4
<1> QED BY <1>2, <1>3, <1>4, <1>5, <1>6

\* The principal taken out in the transaction of event i.
Along(events, i) == {j \in withdrawals(events) : events[j].tx = events[i].tx}
TakenWith(events, i) == Total([j \in Along(events, i) |-> events[j].amt])

LEMMA TakenIs ==
    ASSUME NEW events, Fair(events), NEW i \in OfKind(events, "collect")
    PROVE  /\ TakenWith(events, i) \in Amount /\ FeeOf(events, i) \in Amount
           /\ events[i].amt = Plus(FeeOf(events, i), TakenWith(events, i))
           /\ Along(events, i) = {} => TakenWith(events, i) = Zero
           /\ \A d \in Along(events, i) : TakenWith(events, i) = events[d].amt
<1> DEFINE S == Along(events, i)
           f == [j \in S |-> events[j].amt]
           w == TakenWith(events, i)
<1>1. /\ \A a, b \in S : a = b
      /\ \A a \in S : events[a].amt \in Amount /\ AtMost(events[a].amt, events[i].amt)
      /\ events[i].amt \in Amount
  <2>1. /\ i \in 1 .. Len(events) /\ events[i].kind = "collect" /\ events[i].amt \in Amount
        /\ withdrawals(events) \subseteq 1 .. Len(events)
        /\ \A a \in withdrawals(events) : events[a].kind = "decrease" /\ events[a].amt \in Amount
        /\ \A a, b \in withdrawals(events) : events[a].tx = events[b].tx => a = b
    BY KindIs DEF withdrawals
  <2>2. \A a \in S : a \in withdrawals(events) /\ events[a].tx = events[i].tx
    BY DEF Along
  <2> HIDE DEF S
  <2> QED BY <2>1, <2>2 DEF Fair
<1>2. w = Total(f)
  BY DEF TakenWith
<1>3. S = {} => w = Zero
  BY <1>2, TotalNone
<1>4. \A d \in S : w = events[d].amt
  <2> SUFFICES ASSUME NEW d \in S PROVE Total(f) = events[d].amt
    BY <1>2
  <2>1. DOMAIN f = {d} /\ f[d] = events[d].amt
    BY <1>1
  <2> HIDE DEF f
  <2> QED BY <1>1, <2>1, TotalOne
<1>5. w \in Amount /\ AtMost(w, events[i].amt)
  BY <1>1, <1>3, <1>4, ZeroIs
<1>6. FeeOf(events, i) = Minus(events[i].amt, w)
  BY DEF FeeOf, TakenWith, Along
<1> HIDE DEF w, S
<1>7. FeeOf(events, i) \in Amount /\ events[i].amt = Plus(FeeOf(events, i), w)
  <2> DEFINE a == events[i].amt
  <2>1. a \in Amount /\ w \in Amount /\ AtMost(w, a) /\ FeeOf(events, i) = Minus(a, w)
    BY <1>1, <1>5, <1>6
  <2> HIDE DEF a
  <2>2. Minus(a, w) \in Amount /\ a = Plus(Minus(a, w), w)
    BY <2>1 DEF Minus, Plus, AtMost, Amount
  <2> QED BY <2>1, <2>2 DEF a
<1> QED BY <1>3, <1>4, <1>5, <1>7 DEF w, S

\* Fees are amounts, and claiming none is not a claim.
LEMMA ClaimsAre ==
    ASSUME NEW events, Fair(events)
    PROVE  LET C == OfKind(events, "collect")
               fees == [i \in C |-> FeeOf(events, i)]
           IN  /\ Amounts(fees)
               /\ Total([i \in feeClaims(events) |-> FeeOf(events, i)]) = Total(fees)
               /\ Total(fees) \in Amount
<1> DEFINE C == OfKind(events, "collect")
           fees == [i \in C |-> FeeOf(events, i)]
           claims == [i \in feeClaims(events) |-> FeeOf(events, i)]
<1>1. IsFiniteSet(C) /\ \A i \in C : FeeOf(events, i) \in Amount
  BY KindIs, TakenIs
<1>2. Amounts(fees)
  BY <1>1 DEF Amounts
<1>3. feeClaims(events) \subseteq C /\ \A i \in C \ feeClaims(events) : FeeOf(events, i) = Zero
  <2>1. \A a \in Amount : ~Positive(a) => a = Zero
    BY DEF Positive, Amount, Zero
  <2> QED BY <1>1, <2>1 DEF feeClaims
<1>4. /\ DOMAIN claims \subseteq DOMAIN fees
      /\ \A i \in DOMAIN claims : claims[i] = fees[i]
      /\ \A i \in DOMAIN fees \ DOMAIN claims : fees[i] = Zero
  BY <1>3
<1> HIDE DEF fees, claims, C
<1>5. Total(claims) = Total(fees)
  BY <1>2, <1>4, TotalOnly
<1>6. Total(fees) \in Amount
  BY <1>2, Components
<1> QED BY <1>2, <1>5, <1>6 DEF fees, claims, C

\* Withdrawals and fees together are what was collected, if each withdrawal is collected.
LEMMA CollectedIs ==
    ASSUME NEW events, Fair(events),
           \A d \in withdrawals(events) :
              events[d].amt = Zero \/ \E i \in OfKind(events, "collect") : events[i].tx = events[d].tx
    PROVE  LET collected == [i \in OfKind(events, "collect") |-> events[i].amt] IN
           /\ Amounts(collected)
           /\ Plus(Total([i \in withdrawals(events) |-> events[i].amt]),
                   Total([i \in feeClaims(events) |-> FeeOf(events, i)])) = Total(collected)
<1> DEFINE C == OfKind(events, "collect")
           D == withdrawals(events)
           collected == [i \in C |-> events[i].amt]
           fees == [i \in C |-> FeeOf(events, i)]
           taken == [i \in C |-> TakenWith(events, i)]
           withdrawn == [i \in D |-> events[i].amt]
           Both == {i \in C : Along(events, i) # {}}
           with == [i \in Both |-> TakenWith(events, i)]
           partner == [i \in Both |-> CHOOSE d \in Along(events, i) : TRUE]
           paired == [d \in {partner[i] : i \in Both} |-> events[d].amt]
<1>1. /\ IsFiniteSet(C) /\ IsFiniteSet(D)
      /\ \A i \in C : events[i].amt \in Amount
      /\ \A i \in D : events[i].amt \in Amount
      /\ \A a, b \in C : events[a].tx = events[b].tx => a = b
      /\ \A a, b \in D : events[a].tx = events[b].tx => a = b
  BY KindIs DEF withdrawals
<1>2. \A i \in C : /\ TakenWith(events, i) \in Amount /\ FeeOf(events, i) \in Amount
                   /\ events[i].amt = Plus(FeeOf(events, i), TakenWith(events, i))
                   /\ (Along(events, i) = {} => TakenWith(events, i) = Zero)
                   /\ \A d \in Along(events, i) : TakenWith(events, i) = events[d].amt
  BY TakenIs
<1>3. Amounts(collected) /\ Amounts(fees) /\ Amounts(taken) /\ Amounts(withdrawn)
  BY <1>1, <1>2 DEF Amounts
<1>4. Total(collected) = Plus(Total(fees), Total(taken))
  <2>1. DOMAIN taken = DOMAIN fees /\ DOMAIN collected = DOMAIN fees
        /\ \A x \in DOMAIN fees : collected[x] = Plus(fees[x], taken[x])
    BY <1>2
  <2> HIDE DEF collected, fees, taken
  <2> QED BY <1>3, <2>1, TotalPlus
<1>5. Amounts(with) /\ Total(with) = Total(taken)
  <2>1. /\ DOMAIN with \subseteq DOMAIN taken /\ \A x \in DOMAIN with : with[x] = taken[x]
        /\ \A x \in DOMAIN taken \ DOMAIN with : taken[x] = Zero
    BY <1>2
  <2> HIDE DEF with, taken
  <2> QED BY <1>3, <2>1, TotalOnly
<1>6. \A i \in Both : /\ partner[i] \in D /\ events[partner[i]].tx = events[i].tx
                      /\ events[partner[i]].amt = TakenWith(events, i) /\ i \in C
  <2> SUFFICES ASSUME NEW i \in Both
               PROVE  /\ partner[i] \in D /\ events[partner[i]].tx = events[i].tx
                      /\ events[partner[i]].amt = TakenWith(events, i) /\ i \in C
    OBVIOUS
  <2>1. partner[i] \in Along(events, i) /\ i \in C
    OBVIOUS
  <2> HIDE DEF partner, Both
  <2>2. partner[i] \in D /\ events[partner[i]].tx = events[i].tx
    BY <2>1 DEF Along
  <2> QED BY <1>2, <2>1, <2>2
<1>7. \A i, j \in Both : partner[i] = partner[j] => i = j
  <2> HIDE DEF partner
  <2> QED BY <1>1, <1>6
<1>8. Amounts(paired) /\ Total(paired) = Total(with)
  <2>1. /\ DOMAIN with = Both /\ DOMAIN paired = {partner[i] : i \in DOMAIN with}
        /\ \A x, y \in DOMAIN with : partner[x] = partner[y] => x = y
    BY <1>7
  <2>2. \A x \in DOMAIN with : paired[partner[x]] = with[x]
    <3> HIDE DEF partner
    <3> QED BY <1>6
  <2> HIDE DEF partner, with, paired
  <2> QED BY <1>5, <2>1, <2>2, TotalImage
<1>9. Total(paired) = Total(withdrawn)
  <2>1. DOMAIN paired \subseteq DOMAIN withdrawn /\ \A x \in DOMAIN paired : paired[x] = withdrawn[x]
    <3> HIDE DEF partner
    <3> QED BY <1>6
  <2>2. ASSUME NEW d \in DOMAIN withdrawn \ DOMAIN paired PROVE withdrawn[d] = Zero
    <3>1. d \in D /\ \A i \in Both : partner[i] # d
      BY <2>2
    <3> HIDE DEF partner
    <3>2. \A i \in C : events[i].tx # events[d].tx
      <4> SUFFICES ASSUME NEW i \in C, events[i].tx = events[d].tx PROVE FALSE
        OBVIOUS
      <4>1. d \in Along(events, i)
        BY <3>1 DEF Along
      <4>2. i \in Both
        BY <4>1
      <4> QED BY <1>1, <1>6, <3>1, <4>2
    <3> QED BY <3>1, <3>2
  <2> HIDE DEF paired, withdrawn
  <2> QED BY <1>3, <2>1, <2>2, TotalOnly
<1>10. Total([i \in feeClaims(events) |-> FeeOf(events, i)]) = Total(fees)
  BY ClaimsAre
<1>11. Total(collected) = Plus(Total(withdrawn), Total(fees))
  <2>1. Total(fees) \in Amount /\ Total(taken) \in Amount /\ Total(taken) = Total(withdrawn)
    BY <1>3, <1>5, <1>8, <1>9, Components
  <2>2. \A a, b \in Amount : Plus(a, b) = Plus(b, a)
    BY DEF Plus, Amount
  <2> QED BY <1>4, <2>1, <2>2
<1> QED BY <1>3, <1>10, <1>11

\* If what a transaction collects is its due, and all that is due is collected, then what
\* is reported is the sum of what is due.
LEMMA ReportedIs ==
    ASSUME NEW events, Fair(events), NEW due, Amounts(due),
           \A d \in withdrawals(events) :
              events[d].amt = Zero \/ \E i \in OfKind(events, "collect") : events[i].tx = events[d].tx,
           \A i \in OfKind(events, "collect") :
              events[i].tx \in DOMAIN due /\ events[i].amt = due[events[i].tx],
           \A b \in DOMAIN due : due[b] = Zero \/ \E i \in OfKind(events, "collect") : events[i].tx = b
    PROVE  Plus(Total([i \in withdrawals(events) |-> events[i].amt]),
                Total([i \in feeClaims(events) |-> FeeOf(events, i)])) = Total(due)
<1> DEFINE C == OfKind(events, "collect")
           collected == [i \in C |-> events[i].amt]
           tx == [i \in C |-> events[i].tx]
           part == [b \in {tx[i] : i \in C} |-> due[b]]
<1>0. Amounts(collected)
  BY CollectedIs
<1>1. Plus(Total([i \in withdrawals(events) |-> events[i].amt]),
           Total([i \in feeClaims(events) |-> FeeOf(events, i)])) = Total(collected)
  BY CollectedIs
<1>2. \A i, j \in C : tx[i] = tx[j] => i = j
  BY KindIs
<1>3. Amounts(part) /\ Total(part) = Total(collected)
  <2>1. /\ DOMAIN collected = C /\ DOMAIN part = {tx[i] : i \in DOMAIN collected}
        /\ \A x, y \in DOMAIN collected : tx[x] = tx[y] => x = y
        /\ \A x \in DOMAIN collected : part[tx[x]] = collected[x]
    BY <1>2
  <2> HIDE DEF collected, part, tx, C
  <2> QED BY <1>0, <2>1, TotalImage
<1>4. Total(part) = Total(due)
  <2>1. /\ DOMAIN part \subseteq DOMAIN due /\ \A x \in DOMAIN part : part[x] = due[x]
        /\ \A x \in DOMAIN due \ DOMAIN part : due[x] = Zero
    OBVIOUS
  <2> HIDE DEF part
  <2> QED BY <2>1, TotalOnly
<1> HIDE DEF collected, part
<1> QED BY <1>1, <1>3, <1>4

-----------------------------------------------------------------------------
(* The events of v3 *)

\* Event e is one of block x: what was collected, or a change of liquidity at its tick.
From(x, e) ==
    /\ e.at = e.tx
    /\ \/ e.kind = "collect" /\ x.paid # Zero /\ e.amt = x.paid
       \/ /\ e.kind \in {"increase", "decrease"} /\ e.liq > 0
          /\ e.amt = amountsFromLiquidity(e.liq, x.tick)
          /\ \E i \in DOMAIN x.delta :
                /\ e.liq = Magnitude(x.delta[i])
                /\ e.kind = "decrease" => x.delta[i] < 0
                /\ e.kind = "increase" => x.delta[i] > 0

\* The kinds of events a block has.
Shows(x, kind) ==
    \/ kind = "increase" /\ \E i \in DOMAIN x.delta : x.delta[i] > 0
    \/ kind = "decrease" /\ \E i \in DOMAIN x.delta : x.delta[i] < 0
    \/ kind = "collect" /\ x.paid # Zero

\* Events r are those of the blocks S, in order.
EventsOf(bl, r, S) ==
    /\ r \in Seq(AnyEvent)
    /\ \A i \in 1 .. Len(r) : r[i].tx \in S /\ From(bl[r[i].tx], r[i])
    /\ \A b \in S : \A kind : Shows(bl[b], kind) => \E i \in 1 .. Len(r) : r[i].tx = b /\ r[i].kind = kind
    /\ \A i, j \in 1 .. Len(r) : i < j => r[i].at <= r[j].at

Event3(kind, b, amt, liq) == [kind |-> kind, tx |-> b, at |-> b, amt |-> amt, liq |-> liq]
ChangesOf(x) == Picked(x.delta, {i \in DOMAIN x.delta : x.delta[i] # 0})
ChangeEvent(x, b, d) ==
    Event3(IF d > 0 THEN "increase" ELSE "decrease", b, amountsFromLiquidity(Magnitude(d), x.tick), Magnitude(d))
CollectsOf(x, b) == IF x.paid = Zero THEN <<>> ELSE <<Event3("collect", b, x.paid, 0)>>
V3Of(x, b) ==
    LET changes == ChangesOf(x) IN [i \in DOMAIN changes |-> ChangeEvent(x, b, changes[i])] \o CollectsOf(x, b)

LEMMA ChangeEventIs ==
    ASSUME NEW x \in Block, NEW b \in Nat, NEW i \in DOMAIN x.delta, x.delta[i] # 0
    PROVE  LET e == ChangeEvent(x, b, x.delta[i]) IN
           /\ e \in AnyEvent /\ e.tx = b /\ From(x, e)
           /\ e.kind = IF x.delta[i] > 0 THEN "increase" ELSE "decrease"
<1> DEFINE d == x.delta[i]
           L == Magnitude(d)
           kind == IF d > 0 THEN "increase" ELSE "decrease"
           amt == amountsFromLiquidity(L, x.tick)
           e == Event3(kind, b, amt, L)
<1>1. d \in Int /\ d # 0
  <2>1. x.delta \in Seq(Int)
    BY DEF Block
  <2> QED BY <2>1
<1>2. /\ L \in Nat /\ L > 0 /\ kind \in {"increase", "decrease"}
      /\ (kind = "decrease" => d < 0) /\ (kind = "increase" => d > 0)
  <2> HIDE DEF d
  <2> QED BY <1>1 DEF Magnitude
<1>3. amt \in Amount
  <2>1. x.tick \in Int
    BY TicksOrdered DEF Block
  <2> HIDE DEF L
  <2> QED BY <1>2, <2>1, AmountsAre
<1>4. ChangeEvent(x, b, x.delta[i]) = e
  BY DEF ChangeEvent
<1>5. \E k \in DOMAIN x.delta : /\ L = Magnitude(x.delta[k])
                                /\ kind = "decrease" => x.delta[k] < 0
                                /\ kind = "increase" => x.delta[k] > 0
  BY <1>2
<1>6. amt = amountsFromLiquidity(L, x.tick)
  OBVIOUS
<1> HIDE DEF d, L, kind, amt
<1>7. e = [kind |-> kind, tx |-> b, at |-> b, amt |-> amt, liq |-> L]
  BY DEF Event3
<1> HIDE DEF e
<1>8. e \in AnyEvent
  <2>1. amt \in Flow2
    BY <1>3 DEF Amount, Flow2
  <2> QED BY <1>2, <1>7, <2>1 DEF AnyEvent
<1>9. e.kind = kind /\ e.tx = b /\ e.at = b /\ e.amt = amt /\ e.liq = L
  BY <1>7
<1>10. From(x, e)
  BY <1>2, <1>5, <1>6, <1>9 DEF From
<1>11. kind = IF x.delta[i] > 0 THEN "increase" ELSE "decrease"
  BY DEF kind, d
<1> QED BY <1>4, <1>8, <1>9, <1>10, <1>11

LEMMA CollectsAre ==
    ASSUME NEW x \in Block, NEW b \in Nat
    PROVE  /\ CollectsOf(x, b) \in Seq(AnyEvent)
           /\ \A i \in 1 .. Len(CollectsOf(x, b)) :
                 CollectsOf(x, b)[i].tx = b /\ From(x, CollectsOf(x, b)[i])
           /\ x.paid # Zero => Len(CollectsOf(x, b)) = 1 /\ CollectsOf(x, b)[1].kind = "collect"
                               /\ CollectsOf(x, b)[1].tx = b
<1> DEFINE e == Event3("collect", b, x.paid, 0)
<1>1. x.paid \in Flow2
  BY DEF Block, Amount, Flow2
<1>2. e = [kind |-> "collect", tx |-> b, at |-> b, amt |-> x.paid, liq |-> 0]
  BY DEF Event3
<1> HIDE DEF e
<1>3. e \in AnyEvent /\ e.tx = b /\ e.at = b /\ e.kind = "collect" /\ e.amt = x.paid
  BY <1>1, <1>2 DEF AnyEvent
<1>4. CASE x.paid = Zero
  <2>1. CollectsOf(x, b) = <<>>
    BY <1>4 DEF CollectsOf
  <2> QED BY <1>4, <2>1
<1>5. CASE x.paid # Zero
  <2>1. CollectsOf(x, b) = <<e>>
    BY <1>5 DEF CollectsOf, e
  <2>2. <<e>> \in Seq(AnyEvent) /\ Len(<<e>>) = 1 /\ <<e>>[1] = e
    BY <1>3
  <2>3. From(x, e)
    BY <1>3, <1>5 DEF From
  <2> QED BY <1>3, <2>1, <2>2, <2>3
<1> QED BY <1>4, <1>5

LEMMA V3OfIs ==
    ASSUME NEW x \in Block, NEW b \in Nat
    PROVE  /\ V3Of(x, b) \in Seq(AnyEvent)
           /\ \A i \in 1 .. Len(V3Of(x, b)) : V3Of(x, b)[i].tx = b /\ From(x, V3Of(x, b)[i])
           /\ \A kind : Shows(x, kind) => \E i \in 1 .. Len(V3Of(x, b)) :
                                  V3Of(x, b)[i].tx = b /\ V3Of(x, b)[i].kind = kind
           /\ x.delta = <<>> /\ x.paid = Zero => V3Of(x, b) = <<>>
<1> DEFINE changes == ChangesOf(x)
           I == {i \in DOMAIN x.delta : x.delta[i] # 0}
           p == [i \in DOMAIN changes |-> ChangeEvent(x, b, changes[i])]
           t == CollectsOf(x, b)
<1>1. x.delta \in Seq(Int)
  BY DEF Block
<1>2. PICK k : changes \in Seq(Int) /\ Order(k, changes, x.delta, I)
  BY <1>1, PickedInOrder DEF ChangesOf
<1>3. PICK n \in Nat : n = Len(changes) /\ DOMAIN changes = 1 .. n
  BY <1>2
<1>4. \A i \in 1 .. n : k[i] \in DOMAIN x.delta /\ changes[i] = x.delta[k[i]] /\ x.delta[k[i]] # 0
  BY <1>2, <1>3 DEF Order
<1>5. x.delta = <<>> => n = 0
  <2>1. x.delta = <<>> => DOMAIN x.delta = {}
    OBVIOUS
  <2>2. n # 0 => 1 \in 1 .. n
    BY <1>3
  <2> QED BY <1>4, <2>1, <2>2
<1> HIDE DEF changes, I
<1>6. \A i \in 1 .. n : /\ ChangeEvent(x, b, changes[i]) \in AnyEvent
                        /\ ChangeEvent(x, b, changes[i]).tx = b
                        /\ From(x, ChangeEvent(x, b, changes[i]))
  BY <1>4, ChangeEventIs
<1>7. p \in Seq(AnyEvent) /\ Len(p) = n /\ \A i \in 1 .. n : p[i] = ChangeEvent(x, b, changes[i])
  <2>1. p = [i \in 1 .. n |-> ChangeEvent(x, b, changes[i])]
    BY <1>3
  <2> QED BY <1>3, <1>6, <2>1
<1>8. /\ t \in Seq(AnyEvent) /\ \A i \in 1 .. Len(t) : t[i].tx = b /\ From(x, t[i])
  BY CollectsAre
<1>9. x.paid # Zero => Len(t) = 1 /\ t[1].kind = "collect" /\ t[1].tx = b
  BY CollectsAre
<1>10. x.paid = Zero => t = <<>>
  BY DEF CollectsOf
<1>11. V3Of(x, b) = p \o t
  BY DEF V3Of, changes
<1> HIDE DEF p, t
<1>12. PICK m \in Nat : m = Len(t)
  BY <1>8
<1>13. /\ p \o t \in Seq(AnyEvent) /\ Len(p \o t) = n + m
       /\ \A i \in 1 .. n : (p \o t)[i] = p[i]
       /\ \A i \in 1 .. m : (p \o t)[n + i] = t[i]
  BY <1>7, <1>8, <1>12
<1>14. ASSUME NEW i \in 1 .. n + m PROVE (p \o t)[i].tx = b /\ From(x, (p \o t)[i])
  <2>1. CASE i \in 1 .. n
    BY <1>6, <1>7, <1>13, <2>1
  <2>2. CASE i \notin 1 .. n
    <3>1. i - n \in 1 .. m /\ n + (i - n) = i
      BY <2>2
    <3>2. (p \o t)[n + (i - n)] = t[i - n]
      BY <1>13, <3>1
    <3> QED BY <1>8, <1>12, <3>1, <3>2
  <2> QED BY <2>1, <2>2
<1>15. ASSUME NEW kind, Shows(x, kind)
       PROVE  \E i \in 1 .. n + m : (p \o t)[i].tx = b /\ (p \o t)[i].kind = kind
  <2>1. CASE kind = "collect" /\ x.paid # Zero
    <3>1. m = 1 /\ t[1].kind = "collect" /\ t[1].tx = b
      BY <1>9, <1>12, <2>1
    <3>2. n + 1 \in 1 .. n + m /\ (p \o t)[n + 1] = t[1]
      BY <1>13, <3>1
    <3> QED BY <2>1, <3>1, <3>2
  <2>2. ASSUME NEW j \in DOMAIN x.delta,
               (kind = "increase" /\ x.delta[j] > 0) \/ (kind = "decrease" /\ x.delta[j] < 0)
        PROVE  \E i \in 1 .. n + m : (p \o t)[i].tx = b /\ (p \o t)[i].kind = kind
    <3>1. x.delta[j] \in Int
      BY <1>1
    <3>2. x.delta[j] # 0 /\ kind = IF x.delta[j] > 0 THEN "increase" ELSE "decrease"
      BY <2>2, <3>1
    <3>3. j \in I
      BY <3>2 DEF I
    <3>4. PICK i \in 1 .. n : k[i] = j
      BY <1>2, <1>3, <3>3 DEF Order
    <3>5. p[i] = ChangeEvent(x, b, x.delta[j])
      BY <1>4, <1>7, <3>4
    <3>6. p[i].tx = b /\ p[i].kind = kind
      BY <3>2, <3>5, ChangeEventIs
    <3>7. i \in 1 .. n + m /\ (p \o t)[i] = p[i]
      BY <1>13
    <3> QED BY <3>6, <3>7
  <2>3. \/ kind = "collect" /\ x.paid # Zero
        \/ \E j \in DOMAIN x.delta :
              (kind = "increase" /\ x.delta[j] > 0) \/ (kind = "decrease" /\ x.delta[j] < 0)
    BY <1>15 DEF Shows
  <2> HIDE DEF changes, p, t
  <2> QED BY <2>1, <2>2, <2>3, Zenon
<1>16. x.delta = <<>> /\ x.paid = Zero => p \o t = <<>>
  <2> SUFFICES ASSUME x.delta = <<>>, x.paid = Zero PROVE p \o t = <<>>
    OBVIOUS
  <2>1. n = 0 /\ m = 0
    BY <1>5, <1>10, <1>12
  <2> QED BY <1>13, <2>1
<1> QED BY <1>11, <1>13, <1>14, <1>15, <1>16

LEMMA V3EventsAre ==
    ASSUME ChainInv, NEW h \in 1 .. Height PROVE EventsOf(blocks, V3EventsTo(h), Changes1(h))
<1> DEFINE s == [b \in 1 .. h |-> V3Of(blocks[b], b)]
           r == FlattenSeq(s)
<1>0. V3EventsTo(h) = r
  BY DEF V3EventsTo, V3Of, ChangesOf, ChangeEvent, CollectsOf, Event3
<1>1. h \in Nat /\ h >= 1 /\ h <= Height /\ Height \in Nat
  BY TipIs
<1>2. ASSUME NEW b \in 1 .. h
      PROVE  /\ s[b] = V3Of(blocks[b], b) /\ s[b] \in Seq(AnyEvent)
             /\ \A i \in 1 .. Len(s[b]) : s[b][i].tx = b /\ From(blocks[b], s[b][i])
             /\ \A kind : Shows(blocks[b], kind) =>
                   \E i \in 1 .. Len(s[b]) : s[b][i].tx = b /\ s[b][i].kind = kind
             /\ blocks[b].delta = <<>> => s[b] = <<>>
  <2>1. blocks[b] \in Block /\ Honest(blocks[b], version) /\ b \in Nat
    BY <1>1, BlockIs
  <2>2. blocks[b].delta = <<>> => blocks[b].paid = Zero
    BY <2>1 DEF Honest
  <2>3. s[b] = V3Of(blocks[b], b)
    OBVIOUS
  <2> HIDE DEF s
  <2> QED BY <2>1, <2>2, <2>3, V3OfIs
<1>3. s \in Seq(Seq(AnyEvent)) /\ s # <<>> /\ Len(s) = h
  <2>1. \A b \in 1 .. h : V3Of(blocks[b], b) \in Seq(AnyEvent)
    BY <1>2
  <2> QED BY <1>1, <2>1
<1> HIDE DEF s
<1>4. PICK k, c : r \in Seq(AnyEvent) /\ Layout(k, c, r, s)
  BY <1>3, FlattenInOrder
<1> HIDE DEF r
<1>5. ASSUME NEW i \in 1 .. Len(r)
      PROVE  /\ k[i] \in 1 .. h /\ r[i].tx = k[i] /\ From(blocks[k[i]], r[i]) /\ k[i] \in Changes1(h)
             /\ r[i].at = k[i]
  <2>1. k[i] \in 1 .. h /\ c[i] \in 1 .. Len(s[k[i]]) /\ r[i] = s[k[i]][c[i]]
    BY <1>3, <1>4 DEF Layout
  <2>2. r[i].tx = k[i] /\ From(blocks[k[i]], r[i])
    BY <1>2, <2>1
  <2>3. s[k[i]] # <<>>
    <3>1. Len(<<>>) = 0
      OBVIOUS
    <3> QED BY <2>1, <3>1
  <2>4. k[i] \in Changes1(h)
    BY <1>2, <2>1, <2>3 DEF Changes1
  <2> QED BY <2>1, <2>2, <2>4 DEF From
<1>6. ASSUME NEW b \in Changes1(h), NEW kind, Shows(blocks[b], kind)
      PROVE  \E i \in 1 .. Len(r) : r[i].tx = b /\ r[i].kind = kind
  <2>1. b \in 1 .. h
    BY DEF Changes1
  <2>2. PICK y \in 1 .. Len(s[b]) : s[b][y].tx = b /\ s[b][y].kind = kind
    BY <1>2, <1>6, <2>1
  <2>3. PICK i \in 1 .. Len(r) : k[i] = b /\ c[i] = y
    BY <1>3, <1>4, <2>1 DEF Layout
  <2>4. r[i] = s[b][y]
    BY <1>4, <2>3 DEF Layout
  <2> QED BY <2>2, <2>4
<1>7. ASSUME NEW i \in 1 .. Len(r), NEW j \in 1 .. Len(r), i < j PROVE r[i].at <= r[j].at
  <2>1. k[i] < k[j] \/ k[i] = k[j]
    BY <1>4, <1>7 DEF Layout
  <2>2. r[i].at = k[i] /\ r[j].at = k[j] /\ k[i] \in Int /\ k[j] \in Int
    BY <1>5
  <2> QED BY <2>1, <2>2
<1>8. \A i \in 1 .. Len(r) : r[i].tx \in Changes1(h) /\ From(blocks[r[i].tx], r[i])
  BY <1>5
<1> QED BY <1>0, <1>4, <1>6, <1>7, <1>8 DEF EventsOf

LEMMA EventsPicked ==
    ASSUME NEW r, NEW S, NEW bl, EventsOf(bl, r, S), NEW I,
           NEW R, R \subseteq S, \A i \in 1 .. Len(r) : i \in I <=> r[i].tx \in R
    PROVE  EventsOf(bl, Picked(r, I), R)
<1> DEFINE p == Picked(r, I)
<1>1. r \in Seq(AnyEvent)
  BY DEF EventsOf
<1>2. PICK k : p \in Seq(AnyEvent) /\ Order(k, p, r, I)
  BY <1>1, PickedInOrder
<1> HIDE DEF p
<1>3. DOMAIN r = 1 .. Len(r) /\ Len(r) \in Nat
  BY <1>1
<1>4. ASSUME NEW i \in 1 .. Len(p)
      PROVE  k[i] \in 1 .. Len(r) /\ p[i] = r[k[i]] /\ r[k[i]].tx \in R
  BY <1>2, <1>3 DEF Order
<1>5. \A i \in 1 .. Len(p) : p[i].tx \in R /\ From(bl[p[i].tx], p[i])
  BY <1>4 DEF EventsOf
<1>6. ASSUME NEW b \in R, NEW kind, Shows(bl[b], kind)
      PROVE  \E i \in 1 .. Len(p) : p[i].tx = b /\ p[i].kind = kind
  <2>1. PICK j \in 1 .. Len(r) : r[j].tx = b /\ r[j].kind = kind
    BY <1>6 DEF EventsOf
  <2>2. PICK i \in 1 .. Len(p) : k[i] = j
    BY <1>2, <1>3, <2>1 DEF Order
  <2> QED BY <1>4, <2>1, <2>2
<1>7. ASSUME NEW i \in 1 .. Len(p), NEW j \in 1 .. Len(p), i < j PROVE p[i].at <= p[j].at
  <2>1. k[i] < k[j]
    BY <1>2, <1>7 DEF Order
  <2> QED BY <1>4, <2>1 DEF EventsOf
<1> QED BY <1>2, <1>5, <1>6, <1>7 DEF EventsOf, p

LEMMA ScopedV3 ==
    ASSUME ChainInv, NEW h \in 1 .. Height, version = "v3"
    PROVE  /\ EventsOf(blocks, V3EventsTo(h), Mod(blocks, h, FALSE))
           /\ EventsOf(blocks, Scoped(V3EventsTo(h), TransfersTo(h)).events, Mod(blocks, h, TRUE))
<1> DEFINE T == TransfersTo(h)
           o == ownershipOf(T, Me)
           r == V3EventsTo(h)
           I == {i \in DOMAIN r : heldAt(o, AtOf(r[i]))}
<1>1. EventsOf(blocks, r, Changes1(h))
  BY V3EventsAre
<1>2. Mod(blocks, h, FALSE) = Changes1(h)
  BY DEF Mod, Changes1, Counts
<1>3. /\ o.windows = <<>> => Mod(blocks, h, TRUE) = Changes1(h)
      /\ o.windows # <<>> => \A b \in Changes1(h) : heldAt(o, b) <=> b \in Mod(blocks, h, TRUE)
  BY KeptAre
<1>4. Scoped(r, T).events = IF o.windows = <<>> THEN r ELSE Picked(r, I)
  BY DEF Scoped
<1> HIDE DEF T, o, r
<1>5. CASE o.windows # <<>>
  <2>1. Mod(blocks, h, TRUE) \subseteq Changes1(h)
    BY DEF Mod, Changes1
  <2>2. \A i \in 1 .. Len(r) : i \in I <=> r[i].tx \in Mod(blocks, h, TRUE)
    <3> SUFFICES ASSUME NEW i \in 1 .. Len(r)
                 PROVE  i \in I <=> r[i].tx \in Mod(blocks, h, TRUE)
      OBVIOUS
    <3>1. i \in DOMAIN r /\ r[i].tx \in Changes1(h) /\ From(blocks[r[i].tx], r[i])
      BY <1>1 DEF EventsOf
    <3>2. AtOf(r[i]) = r[i].tx
      BY <3>1 DEF AtOf, From
    <3> QED BY <1>3, <1>5, <3>1, <3>2
  <2> HIDE DEF I
  <2>3. EventsOf(blocks, Picked(r, I), Mod(blocks, h, TRUE))
    BY <1>1, <2>1, <2>2, EventsPicked
  <2> QED BY <1>1, <1>2, <1>4, <1>5, <2>3 DEF r, T
<1>6. CASE o.windows = <<>>
  BY <1>1, <1>2, <1>3, <1>4, <1>6 DEF r, T
<1> QED BY <1>5, <1>6

\* What is collected in a block covers what it withdraws.
LEMMA EventsFair ==
    ASSUME ChainInv, NEW r, NEW S \in SUBSET (1 .. Height), EventsOf(blocks, r, S) PROVE Fair(r)
<1>1. r \in Seq(AnyEvent)
  BY DEF EventsOf
<1>2. \A i \in 1 .. Len(r) : r[i].tx \in 1 .. Height /\ From(blocks[r[i].tx], r[i])
  BY DEF EventsOf
<1>3. ASSUME NEW i \in 1 .. Len(r) PROVE r[i].amt \in Amount
  <2> DEFINE x == blocks[r[i].tx]
  <2>1. x \in Block /\ From(x, r[i]) /\ r[i] \in AnyEvent
    BY <1>1, <1>2, BlockIs
  <2> HIDE DEF x
  <2>2. x.paid \in Amount /\ x.tick \in Int /\ r[i].liq \in Nat
    BY <2>1, TicksOrdered DEF Block, AnyEvent
  <2>3. amountsFromLiquidity(r[i].liq, x.tick) \in Amount
    BY <2>2, AmountsAre
  <2> QED BY <2>1, <2>2, <2>3 DEF From
<1>4. ASSUME NEW i \in 1 .. Len(r), NEW j \in 1 .. Len(r),
             r[i].kind = "decrease", r[j].kind = "collect", r[i].tx = r[j].tx
      PROVE  AtMost(r[i].amt, r[j].amt)
  <2> DEFINE x == blocks[r[i].tx]
  <2>1. x \in Block /\ From(x, r[i]) /\ From(x, r[j]) /\ Covers(x, version)
    BY <1>2, <1>4, BlockIs DEF Honest
  <2> HIDE DEF x
  <2>2. x.paid # Zero /\ r[j].amt = x.paid
    BY <1>4, <2>1 DEF From
  <2>3. PICK k \in DOMAIN x.delta : r[i].liq = Magnitude(x.delta[k]) /\ x.delta[k] < 0
                                    /\ r[i].amt = amountsFromLiquidity(r[i].liq, x.tick)
    BY <1>4, <2>1 DEF From
  <2>4. r[i].amt = amountsFromLiquidity(-x.delta[k], x.tick)
    BY <2>3 DEF Magnitude
  <2> QED BY <2>1, <2>2, <2>3, <2>4 DEF Covers
<1> QED BY <1>1, <1>3, <1>4 DEF Fair

LEMMA JoinIs ==
    ASSUME NEW T, NEW p \in Seq(T), NEW t \in Seq(T)
    PROVE  /\ p \o t \in Seq(T) /\ Len(p \o t) = Len(p) + Len(t)
           /\ \A i \in 1 .. Len(p) : (p \o t)[i] = p[i]
           /\ \A i \in 1 .. Len(t) : (p \o t)[Len(p) + i] = t[i]
OBVIOUS

LEMMA TwoMore ==
    ASSUME NEW T, NEW p \in Seq(T), NEW a \in T, NEW b \in T
    PROVE  /\ p \o <<a, b>> \in Seq(T) /\ Len(p \o <<a, b>>) = Len(p) + 2
           /\ \A i \in 1 .. Len(p) : (p \o <<a, b>>)[i] = p[i]
           /\ (p \o <<a, b>>)[Len(p) + 1] = a /\ (p \o <<a, b>>)[Len(p) + 2] = b
<1>1. PICK t : t = <<a, b>>
  OBVIOUS
<1>2. t \in Seq(T) /\ Len(t) = 2 /\ t[1] = a /\ t[2] = b /\ 1 \in 1 .. 2 /\ 2 \in 1 .. 2
  BY <1>1
<1>3. t \in Seq(T)
  BY <1>2
<1>4. /\ p \o t \in Seq(T) /\ Len(p \o t) = Len(p) + Len(t)
      /\ \A i \in 1 .. Len(p) : (p \o t)[i] = p[i]
  BY <1>3, JoinIs
<1>6. \A i \in 1 .. Len(t) : (p \o t)[Len(p) + i] = t[i]
  BY <1>3, JoinIs
<1>5. (p \o t)[Len(p) + 1] = a /\ (p \o t)[Len(p) + 2] = b
  BY <1>2, <1>6
<1> QED BY <1>1, <1>2, <1>4, <1>5

-----------------------------------------------------------------------------
(* Events to report *)

\* Events of blocks up to h, in order.
Ordered(E) ==
    /\ E \in Seq(AnyEvent) /\ E # <<>>
    /\ \A i, j \in 1 .. Len(E) : i < j => E[i].at <= E[j].at
Placed(r, h) == Ordered(r) /\ \A i \in 1 .. Len(r) : r[i].tx = r[i].at /\ r[i].at \in 1 .. h

\* The events of an open position end in the two synthetic ones.
Marked(r, E, cur, fees) ==
    /\ Len(E) = Len(r) + 2
    /\ \A i \in 1 .. Len(r) : E[i] = r[i]
    /\ E[Len(r) + 1] = [kind |-> "decrease", tx |-> Open, at |-> Height, amt |-> cur, liq |-> 0]
    /\ E[Len(r) + 2] = [kind |-> "collect", tx |-> Open, at |-> Height, amt |-> Plus(cur, fees), liq |-> 0]

LEMMA SyntheticIs ==
    ASSUME Height \in Nat, NEW r, Placed(r, Height), NEW cur \in Amount, NEW fees \in Amount
    PROVE  LET E == r \o Synthetic(cur, fees) IN
           Ordered(E) /\ Marked(r, E, cur, fees) /\ (Fair(r) => Fair(E))
<1> DEFINE n == Len(r)
           t == Synthetic(cur, fees)
           E == r \o t
           a == [kind |-> "decrease", tx |-> Open, at |-> Height, amt |-> cur, liq |-> 0]
           b == [kind |-> "collect", tx |-> Open, at |-> Height, amt |-> Plus(cur, fees), liq |-> 0]
<1>1. r \in Seq(AnyEvent) /\ n \in Nat
  <2>1. r \in Seq(AnyEvent)
    BY DEF Placed, Ordered
  <2> QED BY <2>1
<1>2. Plus(cur, fees) \in Amount /\ AtMost(cur, Plus(cur, fees)) /\ Amount \subseteq Flow2
  BY PlusIs DEF Amount, Flow2
<1>3. t = <<a, b>>
  BY DEF Synthetic
<1>4. a \in AnyEvent /\ b \in AnyEvent
  BY <1>2 DEF AnyEvent, Open
<1>5. /\ a.kind = "decrease" /\ a.tx = 0 /\ a.at = Height /\ a.amt = cur
      /\ b.kind = "collect" /\ b.tx = 0 /\ b.at = Height /\ b.amt = Plus(cur, fees)
  BY DEF Open
<1> HIDE DEF a, b, t, n
<1>6. /\ E \in Seq(AnyEvent) /\ Len(E) = n + 2 /\ E[n + 1] = a /\ E[n + 2] = b
      /\ \A i \in 1 .. n : E[i] = r[i]
  <2>1. E = r \o <<a, b>>
    BY <1>3
  <2> HIDE DEF E
  <2> QED BY <1>1, <1>4, <2>1, TwoMore DEF n
<1> HIDE DEF E
<1>7. \A i \in 1 .. n + 2 : i \in 1 .. n \/ i = n + 1 \/ i = n + 2
  BY <1>1
<1>8. \A i \in 1 .. n : E[i].tx \in 1 .. Height /\ E[i].at \in 1 .. Height
  BY <1>6 DEF Placed, n
<1>9. ASSUME Fair(r) PROVE \A i \in 1 .. n + 2 : E[i].amt \in Amount
  <2>1. \A i \in 1 .. n : E[i].amt \in Amount
    BY <1>6, <1>9 DEF Fair, n
  <2> QED BY <1>2, <1>5, <1>6, <1>7, <2>1
<1>10. ASSUME Fair(r), NEW i \in 1 .. n + 2, NEW j \in 1 .. n + 2,
              E[i].kind = "decrease", E[j].kind = "collect", E[i].tx = E[j].tx
       PROVE  AtMost(E[i].amt, E[j].amt)
  <2>1. CASE i \in 1 .. n /\ j \in 1 .. n
    BY <1>6, <1>10, <2>1 DEF Fair, n
  <2>2. CASE i = n + 1 /\ j = n + 2
    BY <1>2, <1>5, <1>6, <2>2
  <2>3. CASE (i \in 1 .. n /\ j \notin 1 .. n) \/ (i \notin 1 .. n /\ j \in 1 .. n)
    <3>1. (E[i].tx \in 1 .. Height /\ E[j].tx = 0) \/ (E[i].tx = 0 /\ E[j].tx \in 1 .. Height)
      BY <1>5, <1>6, <1>7, <1>8, <2>3
    <3> QED BY <1>10, <3>1
  <2>4. CASE i = n + 2 \/ (i \notin 1 .. n /\ j = n + 1)
    BY <1>5, <1>6, <1>10, <2>4
  <2> QED BY <1>7, <2>1, <2>2, <2>3, <2>4
<1>11. ASSUME NEW i \in 1 .. n + 2, NEW j \in 1 .. n + 2, i < j PROVE E[i].at <= E[j].at
  <2>1. CASE i \in 1 .. n /\ j \in 1 .. n
    BY <1>6, <1>11, <2>1 DEF Placed, Ordered, n
  <2>2. CASE j \notin 1 .. n
    <3>1. E[j].at = Height
      BY <1>5, <1>6, <1>7, <2>2
    <3>2. E[i].at \in 1 .. Height \/ E[i].at = Height
      BY <1>5, <1>6, <1>7, <1>8
    <3> QED BY <3>1, <3>2
  <2> QED BY <1>1, <1>11, <2>1, <2>2
<1>12. Fair(r) => Fair(E)
  BY <1>6, <1>9, <1>10 DEF Fair
<1>14. Ordered(E)
  <2>1. E # <<>>
    <3>1. Len(<<>>) = 0
      OBVIOUS
    <3> QED BY <1>1, <1>6, <3>1
  <2> QED BY <1>6, <1>11, <2>1 DEF Ordered
<1>13. Marked(r, E, cur, fees)
  BY <1>6 DEF Marked, n, a, b
<1> QED BY <1>12, <1>13, <1>14 DEF E, t

-----------------------------------------------------------------------------
(* Prices of v3 *)

LEMMA RangePriced ==
    ASSUME NEW t \in TickLower .. TickUpper PROVE isPriceableTick(t)
BY TicksOrdered DEF isPriceableTick

LEMMA PricingIs == ASSUME NEW t \in PoolTicks PROVE isPriceableTick(pricingTick(t))
<1>1. t \in Int
  BY TicksOrdered DEF PoolTicks
<1>2. isPriceableTick(Clamp(t))
  BY <1>1, ClampIn, RangePriced
<1> QED BY <1>2 DEF pricingTick

LEMMA TimesBack == ASSUME NEW L \in Nat \ {0}, NEW k \in Nat PROVE (L * k) \div L = k
OBVIOUS

\* What a change of liquidity evidences is a price in the range, or none.
LEMMA EvidenceIs ==
    ASSUME NEW e, NEW L \in Nat \ {0}, NEW t \in Int, e.liq = L, e.amt = amountsFromLiquidity(L, t)
    PROVE  /\ impliedEventPrice(e) \in TickLower .. TickUpper \cup {NoTick}
           /\ TickLower < t /\ t < TickUpper => impliedEventPrice(e) = t
<1>1. Clamp(t) \in TickLower .. TickUpper /\ TickLower \in Nat /\ TickUpper \in Nat /\ TickLower < TickUpper
  BY ClampIn, TicksOrdered
<1> DEFINE k == Clamp(t) - TickLower
           a == L * (TickUpper - Clamp(t))
           b == L * k
<1>2. k \in Nat /\ e.amt = <<a, b>>
  BY <1>1 DEF amountsFromLiquidity
<1>3. e.amt \in Amount
  BY AmountsAre
<1>4. impliedInRangePrice(e) = Clamp(t)
  <2> HIDE DEF k, a
  <2>1. e.amt[2] = L * k
    BY <1>2
  <2>2. (L * k) \div L = k
    BY <1>2, TimesBack
  <2>3. impliedInRangePrice(e) = TickLower + k
    BY <2>1, <2>2 DEF impliedInRangePrice
  <2> QED BY <1>1, <2>3 DEF k
<1>5. impliedEventPrice(e) \in {NoTick, impliedInRangePrice(e), TickLower, TickUpper}
  <2> HIDE DEF a, b
  <2>1. CASE e.amt = Zero
    <3>1. ~(e.amt[1] > 0) /\ ~(e.amt[2] > 0)
      BY <2>1 DEF Zero
    <3> QED BY <2>1, <3>1 DEF impliedEventPrice
  <2>2. CASE e.amt # Zero
    <3>1. ~(e.liq <= 0)
      OBVIOUS
    <3> QED BY <1>3, <2>2, <3>1 DEF impliedEventPrice, Amount
  <2> QED BY <2>1, <2>2
<1>6. ASSUME TickLower < t, t < TickUpper PROVE impliedEventPrice(e) = t
  <2>1. Clamp(t) = t
    BY <1>1, <1>6 DEF Clamp
  <2>2. \A m \in Nat \ {0} : L * m > 0
    OBVIOUS
  <2>3. TickUpper - Clamp(t) \in Nat \ {0} /\ k \in Nat \ {0}
    BY <1>1, <1>6, <2>1
  <2>4. a > 0 /\ b > 0
    BY <2>2, <2>3
  <2>5. e.amt[1] = a /\ e.amt[2] = b
    BY <1>2
  <2> HIDE DEF a, b
  <2>6. e.amt[1] > 0 /\ e.amt[2] > 0 /\ e.liq > 0
    BY <2>4, <2>5
  <2>7. e.amt # Zero /\ ~(e.liq <= 0)
    BY <2>6 DEF Zero
  <2>8. ~(e.amt[2] = 0) /\ ~(e.amt[1] = 0)
    BY <2>6
  <2>9. impliedEventPrice(e) = impliedInRangePrice(e)
    BY <2>6, <2>7, <2>8 DEF impliedEventPrice
  <2> QED BY <1>4, <2>1, <2>9
<1> QED BY <1>1, <1>4, <1>5, <1>6

\* If the mark is a price and so is whatever an event evidences, each event has one.
LEMMA FeedIn ==
    ASSUME NEW E, Ordered(E), NEW T,
           \A i \in 1 .. Len(E) : E[i].tx # Open /\ E[i].kind # "collect" =>
              impliedEventPrice(E[i]) \in T \cup {NoTick},
           NEW mark \in T, NEW i \in 1 .. Len(E)
    PROVE  buildImpliedPriceFeed(E, mark, E[Len(E)].at)[E[i].at] \in T
<1> DEFINE markAt == E[Len(E)].at
           points == {k \in DOMAIN E : /\ E[k].tx # Open /\ E[k].kind # "collect"
                                       /\ impliedEventPrice(E[k]) # NoTick}
           upTo(at) == {k \in points : E[k].at <= at}
           Snap(at) == CASE points = {} \/ at = markAt -> mark
                         [] points # {} /\ at < markAt /\ upTo(at) # {} -> impliedEventPrice(E[Max(upTo(at))])
                         [] OTHER -> impliedEventPrice(E[Min(points)])
           at == E[i].at
<1>0. E \in Seq(AnyEvent) /\ E # <<>> /\ \A j, k \in 1 .. Len(E) : j < k => E[j].at <= E[k].at
  BY DEF Ordered
<1>1. PICK n \in Nat : n = Len(E) /\ n \in 1 .. n /\ DOMAIN E = 1 .. n /\ i \in 1 .. n
  BY <1>0
<1>2. at \in Nat /\ markAt \in Nat /\ at <= markAt
  <2>1. \A k \in 1 .. n : E[k].at \in Nat
    <3>1. \A k \in 1 .. n : E[k] \in AnyEvent
      BY <1>0, <1>1
    <3> QED BY <3>1 DEF AnyEvent
  <2>2. i = n \/ i < n
    BY <1>1
  <2>3. i < n => E[i].at <= E[n].at
    BY <1>0, <1>1
  <2> QED BY <1>1, <2>1, <2>2, <2>3
<1>3. buildImpliedPriceFeed(E, mark, markAt)[at] = Snap(at)
  <2> DEFINE feed == [x \in 0 .. markAt |-> Snap(x)]
  <2>1. buildImpliedPriceFeed(E, mark, markAt) = feed
    BY DEF buildImpliedPriceFeed
  <2> HIDE DEF Snap, at, markAt
  <2>2. feed[at] = Snap(at)
    BY <1>2
  <2> QED BY <2>1, <2>2 DEF at, markAt
<1>4. points \subseteq 1 .. n /\ \A k \in points : impliedEventPrice(E[k]) \in T
  BY <1>1
<1>5. upTo(at) \subseteq points
  OBVIOUS
<1>6. /\ points = {} \/ at = markAt => Snap(at) = mark
      /\ points # {} /\ at < markAt /\ upTo(at) # {} => Snap(at) = impliedEventPrice(E[Max(upTo(at))])
      /\ points # {} /\ at # markAt /\ upTo(at) = {} => Snap(at) = impliedEventPrice(E[Min(points)])
  <2>1. at < markAt => at # markAt
    BY <1>2
  <2> HIDE DEF points, upTo, at, markAt
  <2> QED BY <2>1
<1> HIDE DEF points, upTo, at, markAt, Snap
<1>7. \A S \in SUBSET points : S # {} => Min(S) \in S /\ Max(S) \in S
  <2> SUFFICES ASSUME NEW S \in SUBSET points, S # {} PROVE Min(S) \in S /\ Max(S) \in S
    OBVIOUS
  <2>1. S \subseteq 1 .. n
    BY <1>4
  <2>2. IsFiniteSet(1 .. n)
    BY <1>1, FS_Interval
  <2>3. IsFiniteSet(S)
    BY <2>1, <2>2, FS_Subset
  <2>4. S \subseteq Int
    BY <1>1, <2>1
  <2> QED BY <2>3, <2>4, Ends
<1>8. Snap(at) \in T
  <2>1. points = {} \/ at = markAt \/ (at < markAt /\ upTo(at) # {}) \/ (at # markAt /\ upTo(at) = {})
    BY <1>2
  <2>2. points # {} => Min(points) \in points
    BY <1>7
  <2>3. upTo(at) # {} => Max(upTo(at)) \in points
    BY <1>5, <1>7
  <2>4. CASE points = {} \/ at = markAt
    BY <1>6, <2>4
  <2>5. CASE points # {} /\ at < markAt /\ upTo(at) # {}
    BY <1>4, <1>6, <2>3, <2>5
  <2>6. CASE points # {} /\ at # markAt /\ upTo(at) = {}
    BY <1>4, <1>6, <2>2, <2>6
  <2> QED BY <2>1, <2>4, <2>5, <2>6
<1> QED BY <1>3, <1>8 DEF at, markAt

\* Nothing is priced at the AMM's limits, as long as the mark is not.
LEMMA FeedPriced ==
    ASSUME NEW E, Ordered(E),
           \A i \in 1 .. Len(E) : E[i].tx # Open /\ E[i].kind # "collect" =>
              impliedEventPrice(E[i]) \in TickLower .. TickUpper \cup {NoTick},
           NEW mark, isPriceableTick(mark), NEW i \in 1 .. Len(E)
    PROVE  isPriceableTick(buildImpliedPriceFeed(E, mark, E[Len(E)].at)[E[i].at])
<1> DEFINE T == TickLower .. TickUpper \cup {mark}
<1>1. mark \in T /\ \A x \in T : isPriceableTick(x)
  BY RangePriced
<1>2. \A k \in 1 .. Len(E) : E[k].tx # Open /\ E[k].kind # "collect" => impliedEventPrice(E[k]) \in T \cup {NoTick}
  OBVIOUS
<1> HIDE DEF T
<1> QED BY <1>1, <1>2, FeedIn

-----------------------------------------------------------------------------
(* The walk over the raw events of v4, event by event *)

FeeSince(acc, x) ==
    IF x.fg # NoGrowth /\ acc.last # NoGrowth THEN feesFromGrowth(acc.liq, x.fg, acc.last) ELSE Zero
Moves(e, x) == amountsFromLiquidity(Magnitude(e.delta), x.tick)
Takes(e, x, got) == IF e.block \in DOMAIN got THEN Least(Moves(e, x), got[e.block]) ELSE Moves(e, x)
Gets(acc, e, x, got) ==
    IF e.block \in DOMAIN got THEN got[e.block]
    ELSE Plus(IF e.delta < 0 THEN Takes(e, x, got) ELSE Zero, FeeSince(acc, x))

PutInEvent(e, x) == Event("increase", e, Moves(e, x), Magnitude(e.delta))
FeeEvent(acc, e, x) == Event("collect", e, FeeSince(acc, x), 0)
TakenEvent(e, x, got) == Event("decrease", e, Takes(e, x, got), Magnitude(e.delta))
PaidEvent(acc, e, x, got) == Event("collect", e, Gets(acc, e, x, got), 0)

\* What Modified adds to the events.
NewOf(acc, e, x, got) ==
    IF e.delta > 0
      THEN <<PutInEvent(e, x)>> \o IF Positive(FeeSince(acc, x)) THEN <<FeeEvent(acc, e, x)>> ELSE <<>>
    ELSE IF e.delta < 0 THEN <<TakenEvent(e, x, got)>> \o <<PaidEvent(acc, e, x, got)>>
    ELSE <<PaidEvent(acc, e, x, got)>>

LEMMA ModifiedParts ==
    ASSUME NEW acc, NEW e, NEW x, NEW got
    PROVE  /\ Modified(acc, e, x, got).events = acc.events \o NewOf(acc, e, x, got)
           /\ Modified(acc, e, x, got).liq = acc.liq + e.delta
<1> DEFINE m == Modified(acc, e, x, got)
           complete == acc.complete /\ ~(acc.liq > 0 /\ ~(x.fg # NoGrowth /\ acc.last # NoGrowth)
                                          /\ (e.delta > 0 \/ ~(e.block \in DOMAIN got)))
<1>1. m = [events |-> acc.events \o NewOf(acc, e, x, got), complete |-> complete,
           liq |-> acc.liq + e.delta, last |-> x.fg]
  BY DEF Modified, NewOf, PutInEvent, FeeEvent, TakenEvent, PaidEvent, Gets, Takes, Moves, FeeSince
<1> HIDE DEF m, complete
<1> QED BY <1>1 DEF m

LEMMA NewCases ==
    ASSUME NEW acc, NEW e, NEW x, NEW got
    PROVE  LET new == NewOf(acc, e, x, got) IN
           /\ e.delta > 0 /\ Positive(FeeSince(acc, x)) => new = <<PutInEvent(e, x), FeeEvent(acc, e, x)>>
           /\ e.delta > 0 /\ ~Positive(FeeSince(acc, x)) => new = <<PutInEvent(e, x)>>
           /\ e.delta < 0 /\ ~(e.delta > 0) => new = <<TakenEvent(e, x, got), PaidEvent(acc, e, x, got)>>
           /\ ~(e.delta < 0) /\ ~(e.delta > 0) => new = <<PaidEvent(acc, e, x, got)>>
<1>1. ASSUME NEW a, NEW b PROVE <<a>> \o <<b>> = <<a, b>> /\ <<a>> \o <<>> = <<a>>
  <2>1. PICK p, q, r : p = <<a>> /\ q = <<b>> /\ r = <<>>
    OBVIOUS
  <2>2. /\ p \in Seq({a, b}) /\ q \in Seq({a, b}) /\ r \in Seq({a, b})
        /\ Len(p) = 1 /\ Len(q) = 1 /\ Len(r) = 0 /\ p[1] = a /\ q[1] = b
    BY <2>1
  <2>3. p \o q \in Seq({a, b}) /\ Len(p \o q) = 2 /\ (p \o q)[1] = a /\ (p \o q)[2] = b
    <3>1. p \in Seq({a, b}) /\ q \in Seq({a, b})
      BY <2>2
    <3>2. /\ p \o q \in Seq({a, b}) /\ Len(p \o q) = Len(p) + Len(q)
          /\ \A i \in 1 .. Len(p) : (p \o q)[i] = p[i]
          /\ \A i \in 1 .. Len(q) : (p \o q)[Len(p) + i] = q[i]
      BY <3>1, JoinIs
    <3>3. 1 \in 1 .. Len(p) /\ 1 \in 1 .. Len(q) /\ Len(p) + 1 = 2
      BY <2>2
    <3>4. (p \o q)[1] = p[1] /\ (p \o q)[Len(p) + 1] = q[1]
      BY <3>2, <3>3
    <3> QED BY <2>2, <3>2, <3>3, <3>4
  <2>4. p \o r \in Seq({a, b}) /\ Len(p \o r) = 1 /\ (p \o r)[1] = a
    BY <2>2
  <2>5. \A s \in Seq({a, b}) : /\ Len(s) = 2 => s = <<s[1], s[2]>>
                               /\ Len(s) = 1 => s = <<s[1]>>
    OBVIOUS
  <2> QED BY <2>1, <2>3, <2>4, <2>5
<1> QED BY <1>1 DEF NewOf

\* What an event of the walk is made from.
Given(acc, e, x, got) ==
    /\ acc \in Walk /\ e \in RawEvent
    /\ x.tick \in PoolTicks /\ x.fg \in GrowthRead
    /\ e.block \in DOMAIN got => got[e.block] \in Amount

LEMMA PartsAre ==
    ASSUME NEW acc, NEW e, NEW x, NEW got, Given(acc, e, x, got)
    PROVE  /\ Magnitude(e.delta) \in Nat /\ e.delta \in Int /\ e.block \in Nat
           /\ Moves(e, x) \in Amount /\ Takes(e, x, got) \in Amount
           /\ e.block \in DOMAIN got => AtMost(Takes(e, x, got), got[e.block])
           /\ FeeSince(acc, x) \in Flow2 /\ Gets(acc, e, x, got) \in Flow2
           /\ acc.liq >= 0 => FeeSince(acc, x) \in Amount
           /\ acc.liq = 0 => FeeSince(acc, x) = Zero
           /\ acc.liq >= 0 \/ e.block \in DOMAIN got =>
                Gets(acc, e, x, got) \in Amount
                /\ (e.delta < 0 => AtMost(Takes(e, x, got), Gets(acc, e, x, got)))
<1>1. e.block \in Nat /\ e.delta \in Int /\ acc.liq \in Int /\ acc.last \in GrowthRead
  BY DEF Given, RawEvent, Walk
<1>2. Magnitude(e.delta) \in Nat
  BY <1>1 DEF Magnitude
<1>3. Moves(e, x) \in Amount
  <2>1. PICK t : t = x.tick
    OBVIOUS
  <2>2. t \in Int
    <3>1. t \in PoolTicks /\ PoolTicks \subseteq Nat
      BY <2>1, NoTickIsNone DEF Given
    <3> QED BY <3>1
  <2> QED BY <1>2, <2>1, <2>2, AmountsAre DEF Moves
<1>4. e.block \in DOMAIN got => got[e.block] \in Amount
  BY DEF Given
<1>5. /\ Takes(e, x, got) \in Amount
      /\ e.block \in DOMAIN got => AtMost(Takes(e, x, got), got[e.block])
  <2>1. \A a, b \in Amount : Least(a, b) \in Amount /\ AtMost(Least(a, b), b)
    BY DEF Least, Amount, AtMost
  <2> QED BY <1>3, <1>4, <2>1 DEF Takes
<1>6. Zero \in Amount /\ Amount \subseteq Flow2
  BY DEF Zero, Amount, Flow2
<1>7. /\ FeeSince(acc, x) \in Flow2
      /\ acc.liq >= 0 => FeeSince(acc, x) \in Amount
      /\ acc.liq = 0 => FeeSince(acc, x) = Zero
  <2>1. CASE x.fg # NoGrowth /\ acc.last # NoGrowth
    <3>1. x.fg \in 0 .. Wrap - 1 /\ acc.last \in 0 .. Wrap - 1
      BY <1>1, <2>1 DEF Given, GrowthRead
    <3>2. FeeSince(acc, x) = feesFromGrowth(acc.liq, x.fg, acc.last)
      BY <2>1 DEF FeeSince
    <3>3. acc.liq = 0 => feesFromGrowth(acc.liq, x.fg, acc.last) = Zero
      <4>1. (x.fg - acc.last) % Wrap \in Int
        BY <3>1, WrapPositive
      <4>2. \A n \in Int : 0 * n = 0
        OBVIOUS
      <4> QED BY <4>1, <4>2 DEF feesFromGrowth, Zero
    <3> QED BY <1>1, <3>1, <3>2, <3>3, FeesIn
  <2>2. CASE ~(x.fg # NoGrowth /\ acc.last # NoGrowth)
    <3>1. FeeSince(acc, x) = Zero
      BY <2>2 DEF FeeSince
    <3> QED BY <1>6, <3>1
  <2> QED BY <2>1, <2>2
<1>8. Gets(acc, e, x, got) \in Flow2
  <2>1. \A a, b \in Flow2 : Plus(a, b) \in Flow2
    BY DEF Plus, Flow2
  <2> QED BY <1>4, <1>5, <1>6, <1>7, <2>1 DEF Gets
<1>9. ASSUME acc.liq >= 0 \/ e.block \in DOMAIN got
      PROVE  Gets(acc, e, x, got) \in Amount
             /\ (e.delta < 0 => AtMost(Takes(e, x, got), Gets(acc, e, x, got)))
  <2>1. CASE e.block \in DOMAIN got
    BY <1>4, <1>5, <2>1 DEF Gets
  <2>2. CASE e.block \notin DOMAIN got
    <3> DEFINE principal == IF e.delta < 0 THEN Takes(e, x, got) ELSE Zero
    <3>1. principal \in Amount /\ FeeSince(acc, x) \in Amount
      BY <1>5, <1>6, <1>7, <1>9, <2>2
    <3>2. Gets(acc, e, x, got) = Plus(principal, FeeSince(acc, x))
      BY <2>2 DEF Gets
    <3>3. Plus(principal, FeeSince(acc, x)) \in Amount /\ AtMost(principal, Plus(principal, FeeSince(acc, x)))
      <4> HIDE DEF principal
      <4> QED BY <3>1, PlusIs
    <3> QED BY <3>2, <3>3
  <2> QED BY <2>1, <2>2
<1> QED BY <1>1, <1>2, <1>3, <1>5, <1>7, <1>8, <1>9

LEMMA NewIs ==
    ASSUME NEW acc, NEW e, NEW x, NEW got, Given(acc, e, x, got)
    PROVE  LET new == NewOf(acc, e, x, got) IN
           /\ new \in Seq(AnyEvent) /\ Len(new) >= 1
           /\ \A i \in 1 .. Len(new) : new[i].tx = e.block /\ new[i].at = e.block
           /\ acc.liq >= 0 \/ (e.delta <= 0 /\ e.block \in DOMAIN got) =>
                /\ \A i \in 1 .. Len(new) : new[i].amt \in Amount
                /\ \A i, k \in 1 .. Len(new) :
                      new[i].kind = "decrease" /\ new[k].kind = "collect" => AtMost(new[i].amt, new[k].amt)
           /\ e.delta <= 0 =>
                /\ \E i \in 1 .. Len(new) : new[i].kind = "collect"
                /\ \A i \in 1 .. Len(new) : new[i].kind = "collect" => new[i].amt = Gets(acc, e, x, got)
           /\ e.delta > 0 /\ acc.liq = 0 => \A i \in 1 .. Len(new) : new[i].kind # "collect"
           /\ \A i \in 1 .. Len(new) : new[i].kind = "decrease" => e.delta < 0
<1> DEFINE new == NewOf(acc, e, x, got)
           P == PutInEvent(e, x)
           F == FeeEvent(acc, e, x)
           D == TakenEvent(e, x, got)
           C == PaidEvent(acc, e, x, got)
           fee == FeeSince(acc, x)
           takes == Takes(e, x, got)
           gets == Gets(acc, e, x, got)
           moves == Moves(e, x)
           L == Magnitude(e.delta)
           sound == acc.liq >= 0 \/ (e.delta <= 0 /\ e.block \in DOMAIN got)
<1>1. /\ L \in Nat /\ e.delta \in Int /\ e.block \in Nat /\ acc.liq \in Int
      /\ moves \in Amount /\ takes \in Amount /\ fee \in Flow2 /\ gets \in Flow2
      /\ acc.liq >= 0 => fee \in Amount
      /\ acc.liq = 0 => fee = Zero
      /\ sound => gets \in Amount /\ (e.delta < 0 => AtMost(takes, gets))
  BY PartsAre DEF Given, Walk
<1>2. Amount \subseteq Flow2
  BY DEF Amount, Flow2
<1>3. /\ e.delta > 0 /\ Positive(fee) => new = <<P, F>>
      /\ e.delta > 0 /\ ~Positive(fee) => new = <<P>>
      /\ e.delta < 0 /\ ~(e.delta > 0) => new = <<D, C>>
      /\ ~(e.delta < 0) /\ ~(e.delta > 0) => new = <<C>>
  BY NewCases
<1>4. /\ P = [kind |-> "increase", tx |-> e.block, at |-> e.block, amt |-> moves, liq |-> L]
      /\ F = [kind |-> "collect", tx |-> e.block, at |-> e.block, amt |-> fee, liq |-> 0]
      /\ D = [kind |-> "decrease", tx |-> e.block, at |-> e.block, amt |-> takes, liq |-> L]
      /\ C = [kind |-> "collect", tx |-> e.block, at |-> e.block, amt |-> gets, liq |-> 0]
  BY DEF PutInEvent, FeeEvent, TakenEvent, PaidEvent, Event
<1> HIDE DEF new, P, F, D, C, fee, takes, gets, moves, L
<1>5. P \in AnyEvent /\ F \in AnyEvent /\ D \in AnyEvent /\ C \in AnyEvent
  BY <1>1, <1>2, <1>4 DEF AnyEvent
<1>6. /\ P.kind = "increase" /\ P.tx = e.block /\ P.at = e.block /\ P.amt = moves
      /\ F.kind = "collect" /\ F.tx = e.block /\ F.at = e.block /\ F.amt = fee
      /\ D.kind = "decrease" /\ D.tx = e.block /\ D.at = e.block /\ D.amt = takes
      /\ C.kind = "collect" /\ C.tx = e.block /\ C.at = e.block /\ C.amt = gets
  BY <1>4
<1>7. \A a, b \in AnyEvent :
         /\ <<a, b>> \in Seq(AnyEvent) /\ Len(<<a, b>>) = 2 /\ <<a, b>>[1] = a /\ <<a, b>>[2] = b
         /\ <<a>> \in Seq(AnyEvent) /\ Len(<<a>>) = 1 /\ <<a>>[1] = a
  OBVIOUS
<1>8. Zero = <<0, 0>> /\ ~Positive(Zero)
  BY DEF Zero, Positive
<1>9. CASE e.delta > 0 /\ Positive(fee)
  <2>1. new \in Seq(AnyEvent) /\ Len(new) = 2 /\ new[1] = P /\ new[2] = F
    <3> HIDE DEF sound
    <3>1. new = <<P, F>>
      BY <1>3, <1>9
    <3> QED BY <1>5, <1>7, <3>1
  <2>2. acc.liq # 0 /\ (sound => acc.liq >= 0) /\ ~(e.delta <= 0)
    BY <1>1, <1>8, <1>9
  <2>3. 1 .. 2 = {1, 2}
    OBVIOUS
  <2> HIDE DEF sound
  <2> QED BY <1>1, <1>6, <2>1, <2>2, <2>3 DEF new, sound, gets
<1>10. CASE e.delta > 0 /\ ~Positive(fee)
  <2>1. new \in Seq(AnyEvent) /\ Len(new) = 1 /\ new[1] = P
    BY <1>3, <1>5, <1>7, <1>10
  <2>2. ~(e.delta <= 0)
    BY <1>1, <1>10
  <2>3. 1 .. 1 = {1}
    OBVIOUS
  <2> QED BY <1>1, <1>6, <2>1, <2>2, <2>3 DEF new, gets
<1>11. CASE e.delta < 0
  <2>1. ~(e.delta > 0)
    BY <1>1, <1>11
  <2>2. new \in Seq(AnyEvent) /\ Len(new) = 2 /\ new[1] = D /\ new[2] = C
    BY <1>3, <1>5, <1>7, <1>11, <2>1
  <2>3. 1 .. 2 = {1, 2}
    OBVIOUS
  <2> QED BY <1>1, <1>6, <1>11, <2>1, <2>2, <2>3 DEF new, gets
<1>12. CASE ~(e.delta < 0) /\ ~(e.delta > 0)
  <2>1. new \in Seq(AnyEvent) /\ Len(new) = 1 /\ new[1] = C
    BY <1>3, <1>5, <1>7, <1>12
  <2>2. 1 .. 1 = {1}
    OBVIOUS
  <2> QED BY <1>1, <1>6, <1>12, <2>1, <2>2 DEF new, gets
<1> QED BY <1>1, <1>9, <1>10, <1>11, <1>12

NewAt(f, r, s, got, j) == NewOf(f[j - 1], r[j], s[r[j].block], got)
News(f, m, r, s, got) == [j \in 1 .. m |-> NewAt(f, r, s, got, j)]

\* A walk, step by step.
Walking(f, r, s, got) == Readings(r, s, got) /\ f \in [0 .. Len(r) -> Walk] /\ Walks(f, r, s, got)

LEMMA WalkGrows ==
    ASSUME NEW f, NEW r, NEW s, NEW got, Walking(f, r, s, got), NEW j \in 1 .. Len(r)
    PROVE  /\ f[j].events = f[j - 1].events \o NewAt(f, r, s, got, j)
           /\ f[j].liq = f[j - 1].liq + r[j].delta
<1> DEFINE acc == f[j - 1]
           e == r[j]
           x == s[e.block]
<1>1. f[j] = Modified(acc, e, x, got)
  BY DEF Walking, Walks
<1>2. Modified(acc, e, x, got).events = acc.events \o NewOf(acc, e, x, got)
      /\ Modified(acc, e, x, got).liq = acc.liq + e.delta
  <2> HIDE DEF acc, e, x
  <2> QED BY ModifiedParts
<1> QED BY <1>1, <1>2 DEF NewAt

LEMMA WalkGiven ==
    ASSUME NEW f, NEW r, NEW s, NEW got, Walking(f, r, s, got)
    PROVE  /\ Len(r) \in Nat /\ Len(r) >= 1 /\ r \in Seq(RawEvent)
           /\ \A j \in 0 .. Len(r) : f[j] \in Walk
           /\ \A j \in 1 .. Len(r) : Given(f[j - 1], r[j], s[r[j].block], got)
           /\ f[0].events = <<>> /\ f[0].liq = 0
<1>1. r \in Seq(RawEvent) /\ r # <<>> /\ f \in [0 .. Len(r) -> Walk]
  BY DEF Walking, Readings
<1>2. PICK n \in Nat : n = Len(r) /\ n >= 1 /\ \A j \in 1 .. n : r[j] \in RawEvent
  <2>1. Len(r) \in Nat /\ Len(r) >= 1 /\ \A i \in 1 .. Len(r) : r[i] \in RawEvent
    BY <1>1
  <2> QED BY <2>1
<1>3. \A j \in 0 .. n : f[j] \in Walk
  BY <1>1, <1>2
<1>4. ASSUME NEW j \in 1 .. n PROVE Given(f[j - 1], r[j], s[r[j].block], got)
  <2>1. j - 1 \in 0 .. n
    BY <1>2
  <2>2. f[j - 1] \in Walk /\ r[j] \in RawEvent
    BY <1>2, <1>3, <2>1
  <2>3. /\ s[r[j].block].tick \in PoolTicks /\ s[r[j].block].fg \in GrowthRead
        /\ \A b \in DOMAIN got : got[b] \in Amount
    BY <1>2 DEF Walking, Readings
  <2> QED BY <2>2, <2>3 DEF Given
<1>5. f[0].events = <<>> /\ f[0].liq = 0
  <2>1. f[0] = [events |-> <<>>, complete |-> TRUE, liq |-> 0, last |-> s[r[1].block].fg]
    BY DEF Walking, Walks
  <2> QED BY <2>1
<1> QED BY <1>1, <1>2, <1>3, <1>4, <1>5

LEMMA WalkLayout ==
    ASSUME NEW f, NEW r, NEW s, NEW got, Walking(f, r, s, got)
    PROVE  /\ f[Len(r)].events \in Seq(AnyEvent)
           /\ \E b, c : Layout(b, c, f[Len(r)].events, News(f, Len(r), r, s, got))
<1>1. PICK n \in Nat : n = Len(r) /\ n >= 1
  BY WalkGiven
<1>0. f[0].events = <<>>
  BY WalkGiven
<1>11. ASSUME NEW j \in 1 .. Len(r)
       PROVE  f[j].events = f[j - 1].events \o NewAt(f, r, s, got, j)
  BY WalkGrows
<1> DEFINE ev(j) == f[j].events
           new(j) == NewAt(f, r, s, got, j)
           N(m) == News(f, m, r, s, got)
<1>2. /\ \A j \in 0 .. n : ev(j) \in Seq(AnyEvent)
      /\ \A j \in 1 .. n : new(j) \in Seq(AnyEvent) /\ ev(j) = ev(j - 1) \o new(j)
      /\ ev(0) = <<>>
  <2>1. \A j \in 0 .. n : f[j] \in Walk
    BY <1>1, WalkGiven
  <2>2. \A j \in 0 .. n : ev(j) \in Seq(AnyEvent)
    BY <2>1 DEF Walk
  <2>3. ASSUME NEW j \in 1 .. n PROVE new(j) \in Seq(AnyEvent)
    <3>1. Given(f[j - 1], r[j], s[r[j].block], got)
      BY <1>1, WalkGiven
    <3> QED BY <3>1, NewIs DEF NewAt
  <2>4. ev(0) = <<>> /\ \A j \in 1 .. n : ev(j) = ev(j - 1) \o new(j)
    BY <1>0, <1>1, <1>11
  <2> QED BY <2>2, <2>3, <2>4
<1>3. \A m \in 0 .. n : N(m) = [j \in 1 .. m |-> new(j)]
  BY DEF News
<1> HIDE DEF ev, new, N
<1>4. \A m \in 0 .. n : N(m) \in Seq(Seq(AnyEvent)) /\ Len(N(m)) = m
  <2> SUFFICES ASSUME NEW m \in 0 .. n PROVE N(m) \in Seq(Seq(AnyEvent)) /\ Len(N(m)) = m
    OBVIOUS
  <2>1. m \in Nat /\ \A j \in 1 .. m : new(j) \in Seq(AnyEvent)
    BY <1>1, <1>2
  <2> QED BY <1>3, <2>1
<1>5. ASSUME NEW m \in 0 .. n - 1 PROVE N(m + 1) = Append(N(m), new(m + 1))
  <2>1. m \in Nat /\ m \in 0 .. n /\ m + 1 \in 0 .. n
    BY <1>1
  <2>2. N(m) = [j \in 1 .. m |-> new(j)] /\ N(m + 1) = [j \in 1 .. m + 1 |-> new(j)]
    BY <1>3, <2>1
  <2>3. N(m) \in Seq(Seq(AnyEvent)) /\ Len(N(m)) = m /\ new(m + 1) \in Seq(AnyEvent)
        /\ N(m + 1) \in Seq(Seq(AnyEvent)) /\ Len(N(m + 1)) = m + 1
    BY <1>2, <1>4, <2>1
  <2>4. /\ Append(N(m), new(m + 1)) \in Seq(Seq(AnyEvent))
        /\ Len(Append(N(m), new(m + 1))) = m + 1
        /\ \A j \in 1 .. m : Append(N(m), new(m + 1))[j] = N(m)[j]
        /\ Append(N(m), new(m + 1))[m + 1] = new(m + 1)
    BY <2>3
  <2>5. \A j \in 1 .. m + 1 : Append(N(m), new(m + 1))[j] = N(m + 1)[j]
    <3> SUFFICES ASSUME NEW j \in 1 .. m + 1 PROVE Append(N(m), new(m + 1))[j] = N(m + 1)[j]
      OBVIOUS
    <3>1. N(m + 1)[j] = new(j)
      BY <2>2
    <3>2. CASE j = m + 1
      BY <2>4, <3>1, <3>2
    <3>3. CASE j # m + 1
      <4>1. j \in 1 .. m
        BY <2>1, <3>3
      <4> QED BY <2>2, <2>4, <3>1, <4>1
    <3> QED BY <3>2, <3>3
  <2> DEFINE one == Append(N(m), new(m + 1))
             two == N(m + 1)
  <2>6. /\ one \in Seq(Seq(AnyEvent)) /\ two \in Seq(Seq(AnyEvent)) /\ Len(one) = Len(two)
        /\ \A j \in 1 .. Len(one) : one[j] = two[j]
    BY <2>3, <2>4, <2>5
  <2> HIDE DEF one, two
  <2>7. one = two
    BY <2>6, SeqEqual
  <2> QED BY <2>7 DEF one, two
<1> DEFINE P == {m \in 0 .. n : \E b, c : Layout(b, c, ev(m), N(m))}
<1>6. 0 \in P
  <2>1. N(0) \in Seq(Seq(AnyEvent)) /\ Len(N(0)) = 0 /\ 0 \in 0 .. n
    BY <1>1, <1>4
  <2>2. Len(ev(0)) = 0
    BY <1>2
  <2>3. Layout(<<>>, <<>>, ev(0), N(0))
    BY <2>1, <2>2 DEF Layout
  <2> QED BY <2>1, <2>3
<1>7. ASSUME NEW m \in 0 .. n - 1, m \in P PROVE m + 1 \in P
  <2>1. PICK b, c : Layout(b, c, ev(m), N(m))
    BY <1>7
  <2>2. m \in 0 .. n /\ m + 1 \in 1 .. n /\ m + 1 \in 0 .. n /\ (m + 1) - 1 = m
    BY <1>1
  <2>3. N(m) \in Seq(Seq(AnyEvent)) /\ new(m + 1) \in Seq(AnyEvent) /\ ev(m) \in Seq(AnyEvent)
    BY <1>2, <1>4, <2>2
  <2>4. \E e, d : Layout(e, d, ev(m) \o new(m + 1), Append(N(m), new(m + 1)))
    BY <2>1, <2>3, LayoutMore
  <2>5. ev(m + 1) = ev(m) \o new(m + 1)
    BY <1>2, <2>2
  <2> QED BY <1>5, <2>2, <2>4, <2>5
<1>8. n \in P
  <2> HIDE DEF P
  <2>1. \A m \in 0 .. n : m \in P
    BY <1>1, <1>6, <1>7, CountUp
  <2> QED BY <1>1, <2>1
<1>9. \E b, c : Layout(b, c, ev(n), N(n))
  BY <1>8
<1>10. ev(n) \in Seq(AnyEvent)
  BY <1>1, <1>2
<1> QED BY <1>1, <1>9, <1>10 DEF ev, N

\* Entry i of the events comes from raw event b[i].
Entries(b, ev, f, r, s, got) ==
    /\ \A i \in 1 .. Len(ev) :
         /\ b[i] \in 1 .. Len(r)
         /\ \E y \in 1 .. Len(NewAt(f, r, s, got, b[i])) : ev[i] = NewAt(f, r, s, got, b[i])[y]
    /\ \A i, j \in 1 .. Len(ev) : i < j => b[i] <= b[j]
    /\ \A j \in 1 .. Len(r) : \A y \in 1 .. Len(NewAt(f, r, s, got, j)) :
          \E i \in 1 .. Len(ev) : b[i] = j /\ ev[i] = NewAt(f, r, s, got, j)[y]

LEMMA WalkEntries ==
    ASSUME NEW f, NEW r, NEW s, NEW got, Walking(f, r, s, got)
    PROVE  \E b : Entries(b, f[Len(r)].events, f, r, s, got)
<1> DEFINE ev == f[Len(r)].events
           N == News(f, Len(r), r, s, got)
<1>1. PICK b, c : ev \in Seq(AnyEvent) /\ Layout(b, c, ev, N)
  BY WalkLayout
<1>2. PICK n \in Nat : n = Len(r)
  BY WalkGiven
<1>3. N = [j \in 1 .. n |-> NewAt(f, r, s, got, j)]
  BY <1>2 DEF News
<1>4. Len(N) = n /\ \A j \in 1 .. n : N[j] = NewAt(f, r, s, got, j)
  BY <1>2, <1>3
<1> HIDE DEF ev, N
<1>5. ASSUME NEW i \in 1 .. Len(ev)
      PROVE  /\ b[i] \in 1 .. n
             /\ \E y \in 1 .. Len(NewAt(f, r, s, got, b[i])) : ev[i] = NewAt(f, r, s, got, b[i])[y]
  <2>1. b[i] \in 1 .. Len(N) /\ c[i] \in 1 .. Len(N[b[i]]) /\ ev[i] = N[b[i]][c[i]]
    BY <1>1 DEF Layout
  <2>2. N[b[i]] = NewAt(f, r, s, got, b[i])
    BY <1>4, <2>1
  <2> QED BY <1>4, <2>1, <2>2
<1>6. ASSUME NEW i \in 1 .. Len(ev), NEW j \in 1 .. Len(ev), i < j PROVE b[i] <= b[j]
  <2>1. b[i] \in 1 .. n /\ b[j] \in 1 .. n
    BY <1>5
  <2>2. b[i] < b[j] \/ b[i] = b[j]
    BY <1>1, <1>6 DEF Layout
  <2> QED BY <2>1, <2>2
<1>7. ASSUME NEW j \in 1 .. n, NEW y \in 1 .. Len(NewAt(f, r, s, got, j))
      PROVE  \E i \in 1 .. Len(ev) : b[i] = j /\ ev[i] = NewAt(f, r, s, got, j)[y]
  <2>1. PICK i \in 1 .. Len(ev) : b[i] = j /\ c[i] = y
    BY <1>1, <1>4 DEF Layout
  <2>2. ev[i] = N[b[i]][c[i]]
    BY <1>1 DEF Layout
  <2> QED BY <1>4, <2>1, <2>2
<1>8. Entries(b, ev, f, r, s, got)
  BY <1>2, <1>5, <1>6, <1>7 DEF Entries
<1> QED BY <1>8 DEF ev

LEMMA WalkPlaced ==
    ASSUME NEW f, NEW r, NEW s, NEW got, Walking(f, r, s, got),
           \A i, j \in 1 .. Len(r) : i < j => r[i].block <= r[j].block
    PROVE  LET ev == f[Len(r)].events IN
           /\ ev \in Seq(AnyEvent) /\ ev # <<>>
           /\ \A i \in 1 .. Len(ev) : ev[i].tx = ev[i].at /\ ev[i].at \in TxsOf(r)
           /\ \A i, j \in 1 .. Len(ev) : i < j => ev[i].at <= ev[j].at
<1> DEFINE ev == f[Len(r)].events
<1>1. PICK b : Entries(b, ev, f, r, s, got)
  BY WalkEntries
<1>2. ev \in Seq(AnyEvent)
  BY WalkLayout
<1>3. PICK n \in Nat : n = Len(r) /\ n >= 1 /\ r \in Seq(RawEvent)
  BY WalkGiven
<1>4. ASSUME NEW j \in 1 .. n
      PROVE  /\ Len(NewAt(f, r, s, got, j)) >= 1
             /\ \A y \in 1 .. Len(NewAt(f, r, s, got, j)) :
                   /\ NewAt(f, r, s, got, j)[y].tx = r[j].block
                   /\ NewAt(f, r, s, got, j)[y].at = r[j].block
             /\ r[j].block \in Int
             /\ NewAt(f, r, s, got, j) \in Seq(AnyEvent)
  <2>1. Given(f[j - 1], r[j], s[r[j].block], got)
    BY <1>3, WalkGiven
  <2>2. r[j] \in RawEvent
    BY <1>3
  <2>3. r[j].block \in Int
    BY <2>2 DEF RawEvent
  <2> QED BY <2>1, <2>3, NewIs DEF NewAt
<1> HIDE DEF ev
<1>5. ASSUME NEW i \in 1 .. Len(ev)
      PROVE  b[i] \in 1 .. n /\ ev[i].tx = r[b[i]].block /\ ev[i].at = r[b[i]].block
  <2>1. b[i] \in 1 .. n
    BY <1>1, <1>3 DEF Entries
  <2>2. PICK y \in 1 .. Len(NewAt(f, r, s, got, b[i])) : ev[i] = NewAt(f, r, s, got, b[i])[y]
    BY <1>1 DEF Entries
  <2> QED BY <1>4, <2>1, <2>2
<1>6. ev # <<>>
  <2>1. 1 \in 1 .. n
    BY <1>3
  <2>2. PICK z \in Nat : z = Len(NewAt(f, r, s, got, 1)) /\ z >= 1
    BY <1>4, <2>1
  <2>3. 1 \in 1 .. z
    BY <2>2
  <2>4. \E i \in 1 .. Len(ev) : b[i] = 1
    BY <1>1, <1>3, <2>1, <2>2, <2>3 DEF Entries
  <2> QED BY <2>4
<1>7. ASSUME NEW i \in 1 .. Len(ev), NEW j \in 1 .. Len(ev), i < j PROVE ev[i].at <= ev[j].at
  <2>1. b[i] <= b[j] /\ b[i] \in 1 .. n /\ b[j] \in 1 .. n
    BY <1>1, <1>5, <1>7 DEF Entries
  <2>2. b[i] = b[j] \/ b[i] < b[j]
    BY <2>1
  <2>3. b[i] < b[j] => r[b[i]].block <= r[b[j]].block
    BY <1>3, <2>1
  <2>4. r[b[i]].block \in Int /\ r[b[j]].block \in Int
    BY <1>4, <2>1
  <2>5. r[b[i]].block <= r[b[j]].block
    BY <2>2, <2>3, <2>4
  <2> QED BY <1>5, <2>5
<1>8. \A i \in 1 .. Len(ev) : ev[i].tx = ev[i].at /\ ev[i].at \in TxsOf(r)
  BY <1>3, <1>5 DEF TxsOf
<1> QED BY <1>2, <1>6, <1>7, <1>8 DEF ev

\* Each raw event can be decoded: what its owner received is known, or what the position
\* had before it is.
Decoded(f, r, got) ==
    \A j \in 1 .. Len(r) : f[j - 1].liq >= 0 \/ (r[j].delta <= 0 /\ r[j].block \in DOMAIN got)

LEMMA WalkFair ==
    ASSUME NEW f, NEW r, NEW s, NEW got, Walking(f, r, s, got), Decoded(f, r, got),
           \A i, j \in 1 .. Len(r) : i < j => r[i].block < r[j].block
    PROVE  Fair(f[Len(r)].events)
<1> DEFINE ev == f[Len(r)].events
<1>1. PICK b : Entries(b, ev, f, r, s, got)
  BY WalkEntries
<1>2. ev \in Seq(AnyEvent)
  BY WalkLayout
<1>3. PICK n \in Nat : n = Len(r) /\ n >= 1 /\ r \in Seq(RawEvent)
  BY WalkGiven
<1>4. ASSUME NEW j \in 1 .. n
      PROVE  LET new == NewAt(f, r, s, got, j) IN
             /\ \A y \in 1 .. Len(new) : new[y].amt \in Amount /\ new[y].tx = r[j].block
             /\ \A y, z \in 1 .. Len(new) :
                   new[y].kind = "decrease" /\ new[z].kind = "collect" => AtMost(new[y].amt, new[z].amt)
             /\ r[j].block \in Int
  <2>1. Given(f[j - 1], r[j], s[r[j].block], got)
    BY <1>3, WalkGiven
  <2>2. r[j] \in RawEvent
    BY <1>3
  <2>3. r[j].block \in Int
    BY <2>2 DEF RawEvent
  <2>4. f[j - 1].liq >= 0 \/ (r[j].delta <= 0 /\ r[j].block \in DOMAIN got)
    BY <1>3 DEF Decoded
  <2> QED BY <2>1, <2>3, <2>4, NewIs DEF NewAt
<1> HIDE DEF ev
<1>5. ASSUME NEW i \in 1 .. Len(ev)
      PROVE  b[i] \in 1 .. n /\ ev[i].tx = r[b[i]].block /\ ev[i].amt \in Amount
  <2>1. b[i] \in 1 .. n
    BY <1>1, <1>3 DEF Entries
  <2>2. PICK y \in 1 .. Len(NewAt(f, r, s, got, b[i])) : ev[i] = NewAt(f, r, s, got, b[i])[y]
    BY <1>1 DEF Entries
  <2> QED BY <1>4, <2>1, <2>2
<1>6. ASSUME NEW i \in 1 .. Len(ev), NEW j \in 1 .. Len(ev),
             ev[i].kind = "decrease", ev[j].kind = "collect", ev[i].tx = ev[j].tx
      PROVE  AtMost(ev[i].amt, ev[j].amt)
  <2>1. b[i] \in 1 .. n /\ b[j] \in 1 .. n /\ r[b[i]].block = r[b[j]].block
    BY <1>5, <1>6
  <2>2. r[b[i]].block \in Int /\ r[b[j]].block \in Int
    BY <1>4, <2>1
  <2>3. /\ b[i] < b[j] => r[b[i]].block < r[b[j]].block
        /\ b[j] < b[i] => r[b[j]].block < r[b[i]].block
    BY <1>3, <2>1
  <2>4. b[i] = b[j]
    BY <2>1, <2>2, <2>3
  <2>5. PICK y \in 1 .. Len(NewAt(f, r, s, got, b[i])) : ev[i] = NewAt(f, r, s, got, b[i])[y]
    BY <1>1 DEF Entries
  <2>6. PICK z \in 1 .. Len(NewAt(f, r, s, got, b[j])) : ev[j] = NewAt(f, r, s, got, b[j])[z]
    BY <1>1 DEF Entries
  <2>7. z \in 1 .. Len(NewAt(f, r, s, got, b[i])) /\ ev[j] = NewAt(f, r, s, got, b[i])[z]
    BY <2>4, <2>6, Zenon
  <2> QED BY <1>4, <1>6, <2>1, <2>5, <2>7
<1> QED BY <1>2, <1>5, <1>6 DEF Fair, ev

-----------------------------------------------------------------------------
(* The liquidity along the walk *)

\* Blocks without a change leave the liquidity as it was.
LEMMA SameLiq ==
    ASSUME ChainInv, NEW p \in 1 .. Height, NEW b \in 1 .. Height, p <= b,
           \A c \in 1 .. Height : p < c /\ c <= b => blocks[c].delta = <<>>
    PROVE  blocks[b].liq = blocks[p].liq
<1>1. PICK n \in Nat : b = p + n
  <2>1. b - p \in Nat /\ b = p + (b - p)
    BY TipIs
  <2> QED BY <2>1
<1>2. Height \in Nat /\ p \in Nat /\ p >= 1
  BY TipIs
<1> DEFINE P == {k \in 0 .. n : blocks[p + k].liq = blocks[p].liq}
<1>4. 0 \in P
  BY <1>1, <1>2
<1>5. ASSUME NEW k \in 0 .. n - 1, k \in P PROVE k + 1 \in P
  <2>1. k + 1 \in 0 .. n /\ p + (k + 1) \in 2 .. Height /\ p + (k + 1) \in 1 .. Height
        /\ (p + (k + 1)) - 1 = p + k /\ p < p + (k + 1) /\ p + (k + 1) <= b
    BY <1>1, <1>2
  <2> DEFINE c == p + (k + 1)
  <2>2. Follows(blocks[c], blocks[c - 1]) /\ blocks[c].delta = <<>> /\ blocks[c - 1] \in Block
    <3>1. c - 1 \in 1 .. Height
      BY <1>1, <1>2, <2>1
    <3> QED BY <2>1, <3>1, BlockIs DEF ChainInv
  <2>3. blocks[c].liq = blocks[c - 1].liq + Net(<<>>) /\ blocks[c - 1].liq \in Nat
    BY <2>2 DEF Follows, Block
  <2>4. Net(<<>>) = 0
    <3>1. <<>> \in Seq(Int)
      OBVIOUS
    <3> QED BY <3>1, NetIs
  <2>5. blocks[c].liq = blocks[c - 1].liq
    BY <2>3, <2>4
  <2>6. c - 1 = p + k
    BY <2>1
  <2> QED BY <1>5, <2>1, <2>5, <2>6
<1>6. n \in P
  <2> HIDE DEF P
  <2>1. \A k \in 0 .. n : k \in P
    BY <1>4, <1>5, CountUp
  <2> QED BY <2>1
<1> QED BY <1>1, <1>6

\* The blocks S are all that changed the position up to the last of them.
FromMint(S) == \A b \in 1 .. Max(S) : blocks[b].delta # <<>> => b \in S

LEMMA RawRises ==
    ASSUME ChainInv, NEW S \in SUBSET (1 .. Height), RawOf(blocks, raw, S), OneEach(blocks, S)
    PROVE  /\ \A i, j \in 1 .. Len(raw) : i < j => raw[i].block < raw[j].block
           /\ \A b \in S : \E i \in 1 .. Len(raw) : raw[i].block = b
<1>1. \A i, j \in 1 .. Len(raw) : i < j => raw[i].block < raw[j].block
  <2> SUFFICES ASSUME NEW i \in 1 .. Len(raw), NEW j \in 1 .. Len(raw), i < j
               PROVE  raw[i].block < raw[j].block
    OBVIOUS
  <2>1. Len(blocks[raw[i].block].delta) = 1
    BY DEF RawOf, OneEach
  <2>2. \/ raw[i].block < raw[j].block
        \/ raw[i].block = raw[j].block /\ Len(blocks[raw[i].block].delta) > 1
    BY DEF RawOf
  <2> QED BY <2>1, <2>2
<1>2. ASSUME NEW b \in S PROVE \E i \in 1 .. Len(raw) : raw[i].block = b
  <2>1. Len(blocks[b].delta) = 1 /\ b \in 1 .. Height
    BY DEF OneEach
  <2>2. 1 \in DOMAIN blocks[b].delta
    BY <2>1, DeltaIs
  <2> QED BY <2>2 DEF RawOf
<1> QED BY <1>1, <1>2

LEMMA LiqIs ==
    ASSUME ChainInv, NEW S \in SUBSET (1 .. Height), RawOf(blocks, raw, S), OneEach(blocks, S),
           FromMint(S), NEW f, NEW s, NEW got, Walking(f, raw, s, got)
    PROVE  \A j \in 1 .. Len(raw) : f[j].liq = blocks[raw[j].block].liq
<1>1. PICK n \in Nat : n = Len(raw) /\ n >= 1
  BY WalkGiven
<1>2. \A j \in 1 .. n : /\ raw[j].block \in S /\ raw[j].block \in 1 .. Height /\ raw[j].delta \in Int
                        /\ blocks[raw[j].block].delta = <<raw[j].delta>>
  BY <1>1, OneDelta
<1>3. /\ \A i, j \in 1 .. n : i < j => raw[i].block < raw[j].block
      /\ \A b \in S : \E i \in 1 .. n : raw[i].block = b
  BY <1>1, RawRises
<1>4. \A j \in 1 .. n : f[j].liq = f[j - 1].liq + raw[j].delta
  BY <1>1, WalkGrows
<1>5. f[0].liq = 0
  BY WalkGiven
<1>6. \A b \in S : b <= Max(S)
  <2>1. IsFiniteSet(S)
    <3>1. IsFiniteSet(1 .. Height)
      BY TipIs, FS_Interval
    <3> QED BY <3>1, FS_Subset
  <2>2. S \subseteq Int
    OBVIOUS
  <2> QED BY <2>1, <2>2, Ends
<1>7. Height \in Nat /\ Max(S) \in Int
  <2>1. raw[1].block \in S
    BY <1>1, <1>2
  <2>2. IsFiniteSet(S)
    <3>1. IsFiniteSet(1 .. Height)
      BY TipIs, FS_Interval
    <3> QED BY <3>1, FS_Subset
  <2>3. S \subseteq Int
    OBVIOUS
  <2> QED BY <2>1, <2>2, <2>3, TipIs, Ends
<1>8. \A c \in 1 .. Height : c <= Max(S) /\ blocks[c].delta # <<>> => \E i \in 1 .. n : raw[i].block = c
  <2> SUFFICES ASSUME NEW c \in 1 .. Height, c <= Max(S), blocks[c].delta # <<>>
               PROVE  \E i \in 1 .. n : raw[i].block = c
    OBVIOUS
  <2>1. c \in 1 .. Max(S)
    BY <1>7
  <2> QED BY <1>3, <2>1 DEF FromMint
<1>9. f[1].liq = blocks[raw[1].block].liq
  <2>1. 1 \in 1 .. Height /\ blocks[1].delta = <<Opening>> /\ blocks[1].liq = Opening
    BY TipIs DEF ChainInv, Mints
  <2>2. 1 \in 1 .. n /\ raw[1].block \in S /\ raw[1].block \in 1 .. Height /\ raw[1].block <= Max(S)
    BY <1>1, <1>2, <1>6
  <2>3. 1 <= Max(S)
    BY <1>7, <2>2
  <2>4. PICK i \in 1 .. n : raw[i].block = 1
    BY <1>8, <2>1, <2>3
  <2>5. i = 1
    <3>1. 1 < i => raw[1].block < 1
      BY <1>3, <2>2, <2>4
    <3> QED BY <2>2, <3>1
  <2>6. blocks[1].delta = <<raw[1].delta>>
    BY <1>2, <2>2, <2>4, <2>5
  <2>7. raw[1].delta = Opening
    BY <2>1, <2>6
  <2>8. f[1].liq = f[0].liq + raw[1].delta
    BY <1>4, <2>2
  <2> QED BY <1>2, <1>5, <2>1, <2>2, <2>4, <2>5, <2>7, <2>8
<1>10. ASSUME NEW j \in 1 .. n - 1, f[j].liq = blocks[raw[j].block].liq
       PROVE  f[j + 1].liq = blocks[raw[j + 1].block].liq
  <2>1. j \in 1 .. n /\ j + 1 \in 1 .. n /\ (j + 1) - 1 = j
    BY <1>1
  <2> DEFINE p == raw[j].block
             b == raw[j + 1].block
             d == raw[j + 1].delta
  <2>2. /\ p \in 1 .. Height /\ b \in 1 .. Height /\ p < b /\ b <= Max(S) /\ d \in Int
        /\ blocks[b].delta = <<d>> /\ f[j + 1].liq = f[j].liq + d /\ f[j].liq = blocks[p].liq
    BY <1>2, <1>3, <1>4, <1>6, <1>10, <2>1
  <2>3. ASSUME NEW c \in 1 .. Height, p < c, c <= b - 1 PROVE blocks[c].delta = <<>>
    <3> SUFFICES ASSUME blocks[c].delta # <<>> PROVE FALSE
      OBVIOUS
    <3>1. c <= Max(S) /\ c < b
      BY <1>7, <2>2, <2>3
    <3>2. PICK i \in 1 .. n : raw[i].block = c
      BY <1>8, <3>1
    <3>3. ~(i <= j)
      <4>1. i < j => raw[i].block < p
        BY <1>3, <2>1
      <4>2. i = j => raw[i].block = p
        OBVIOUS
      <4> QED BY <2>2, <2>3, <3>2, <4>1, <4>2
    <3>4. ~(i >= j + 1)
      <4>1. j + 1 < i => b < raw[i].block
        BY <1>3, <2>1
      <4>2. i = j + 1 => raw[i].block = b
        OBVIOUS
      <4> QED BY <2>2, <3>1, <3>2, <4>1, <4>2
    <3> QED BY <2>1, <3>3, <3>4
  <2> HIDE DEF p, b, d
  <2>4. b - 1 \in 1 .. Height /\ p <= b - 1 /\ b \in 2 .. Height
    BY <1>7, <2>2
  <2>5. blocks[b - 1].liq = blocks[p].liq
    BY <2>2, <2>3, <2>4, SameLiq
  <2>6. blocks[b].liq = blocks[b - 1].liq + Net(<<d>>)
    BY <2>2, <2>4 DEF ChainInv, Follows
  <2>7. Net(<<d>>) = d
    <3>1. <<d>> \in Seq(Int)
      BY <2>2
    <3> QED BY <3>1, NetIs
  <2>8. f[j + 1].liq = blocks[b].liq
    BY <2>2, <2>5, <2>6, <2>7
  <2> QED BY <2>8 DEF b
<1> DEFINE P == {k \in 0 .. n - 1 : f[k + 1].liq = blocks[raw[k + 1].block].liq}
<1>11. 0 \in P
  BY <1>1, <1>9
<1>12. ASSUME NEW k \in 0 .. (n - 1) - 1, k \in P PROVE k + 1 \in P
  <2>1. k + 1 \in 1 .. n - 1 /\ k + 1 \in 0 .. n - 1
    BY <1>1
  <2>2. f[k + 1].liq = blocks[raw[k + 1].block].liq
    BY <1>12
  <2>3. f[(k + 1) + 1].liq = blocks[raw[(k + 1) + 1].block].liq
    BY <1>10, <2>1, <2>2
  <2> QED BY <2>1, <2>3
<1>13. \A k \in 0 .. n - 1 : k \in P
  <2> HIDE DEF P
  <2>1. n - 1 \in Nat
    BY <1>1
  <2> QED BY <1>11, <1>12, <2>1, CountUp
<1>14. ASSUME NEW j \in 1 .. n PROVE f[j].liq = blocks[raw[j].block].liq
  <2>1. j - 1 \in 0 .. n - 1 /\ (j - 1) + 1 = j
    BY <1>1
  <2>2. j - 1 \in P
    BY <1>13, <2>1
  <2>3. f[(j - 1) + 1].liq = blocks[raw[(j - 1) + 1].block].liq
    BY <2>2
  <2> QED BY <2>1, <2>3
<1> QED BY <1>1, <1>14

\* Read from its mint on, the position never had less than nothing.
LEMMA MintDecoded ==
    ASSUME ChainInv, NEW S \in SUBSET (1 .. Height), RawOf(blocks, raw, S), OneEach(blocks, S),
           FromMint(S), NEW f, NEW s, NEW got, Walking(f, raw, s, got)
    PROVE  Decoded(f, raw, got)
<1>1. \A j \in 1 .. Len(raw) : f[j].liq = blocks[raw[j].block].liq
  BY LiqIs
<1>2. f[0].liq = 0 /\ Len(raw) \in Nat
  BY WalkGiven
<1>3. ASSUME NEW j \in 1 .. Len(raw) PROVE f[j - 1].liq >= 0
  <2>1. CASE j = 1
    BY <1>2, <2>1
  <2>2. CASE j # 1
    <3>1. j - 1 \in 1 .. Len(raw)
      BY <1>2, <2>2
    <3>2. raw[j - 1].block \in 1 .. Height
      BY <3>1, OneDelta
    <3>3. blocks[raw[j - 1].block].liq \in Nat
      BY <3>2, BlockIs DEF Block
    <3> QED BY <1>1, <3>1, <3>3
  <2> QED BY <2>1, <2>2
<1> QED BY <1>3 DEF Decoded

-----------------------------------------------------------------------------
(* The reader's invariant *)

\* What was read of the logs stays what the chain says up to the head.
LogsRead(bl) ==
    /\ head \in 1 .. Len(bl) /\ raw # <<>>
    /\ version = "v4" => RawOf(bl, raw, Mod(bl, head, ctx))

\* A reading that lost no state of a calm pool, which each block changed once.
Whole(bl) ==
    lost = {} /\ OneEach(bl, Mod(bl, head, ctx)) /\ Calm(bl, Mod(bl, head, ctx))

StateOf(x) == [tick |-> x.after, price |-> NoTick, fg |-> (BaseGrowth + x.growth) % Wrap]

StatesRead(bl) ==
    /\ \A b \in DOMAIN received : received[b] \in Amount
    /\ Whole(bl) => ticksOk /\ DOMAIN st = Txs /\ \A b \in Txs : st[b] = StateOf(bl[b])

AllPriced == \A b \in 1 .. Height : isPriceableTick(blocks[b].tick) /\ isPriceableTick(blocks[b].after)

ReaderInv ==
    /\ ChainInv
    /\ pc \in {"idle", "meta", "logs", "states", "now", "done", "failed"} /\ ctx \in BOOLEAN
    /\ pc \in {"meta", "logs"} /\ ctx => head \in 1 .. Height
    /\ pc \in {"states", "now", "done"} => LogsRead(blocks)
    /\ pc = "states" => version = "v4"
    /\ pc = "now" /\ version = "v4" => StatesRead(blocks)
    /\ pc = "done" /\ Whole(blocks) /\ AllPriced => ticksOk /\ feesOk

LEMMA MineGrows ==
    ASSUME ChainInv, Mine
    PROVE  /\ version' = version /\ Height \in Nat /\ Height' = Height + 1
           /\ \A b \in 1 .. Height : blocks'[b] = blocks[b]
<1>1. blocks \in Seq(Block) /\ Height = Len(blocks)
  BY DEF ChainInv, Height
<1>2. version' = version /\ \E x : blocks' = Append(blocks, x)
  <2>1. CASE Change
    <3>1. PICK t \in Ticks, delta \in Changes, grown \in Growths, collects \in BOOLEAN, burnt \in BOOLEAN :
             \E after \in {t} \cup LateTicks : ChangeOf(t, after, delta, grown, collects, burnt)
      BY <2>1 DEF Change
    <3>2. PICK after : ChangeOf(t, after, delta, grown, collects, burnt)
      BY <3>1
    <3> QED BY <3>2 DEF ChangeOf
  <2>2. CASE Pass
    BY <2>2 DEF Pass
  <2> QED BY <2>1, <2>2 DEF Mine
<1>3. PICK x : blocks' = Append(blocks, x)
  BY <1>2
<1>4. Len(blocks) \in Nat /\ Len(blocks') = Len(blocks) + 1 /\ \A b \in 1 .. Len(blocks) : blocks'[b] = blocks[b]
  <2>1. \A s \in Seq(Block) : Len(s) \in Nat /\ Len(Append(s, x)) = Len(s) + 1
                              /\ \A b \in 1 .. Len(s) : Append(s, x)[b] = s[b]
    OBVIOUS
  <2> QED BY <1>1, <1>3, <2>1
<1> QED BY <1>1, <1>2, <1>4 DEF Height

\* What blocks up to the head say does not change with what comes after them.
LEMMA ModStays ==
    ASSUME NEW n \in Nat, NEW bl, NEW more, \A b \in 1 .. n : more[b] = bl[b],
           NEW h \in 1 .. n, NEW c
    PROVE  /\ Mod(more, h, c) = Mod(bl, h, c) /\ Mod(bl, h, c) \subseteq 1 .. n
           /\ \A b \in Mod(bl, h, c) : more[b] = bl[b]
<1>1. \A b \in 1 .. h : more[b] = bl[b] /\ b \in 1 .. n
  OBVIOUS
<1>2. EverGot(more, h) <=> EverGot(bl, h)
  BY <1>1 DEF EverGot
<1>3. \A b \in 1 .. h : Counts(more, h, c, b) <=> Counts(bl, h, c, b)
  BY <1>1, <1>2 DEF Counts
<1> QED BY <1>1, <1>3 DEF Mod

LEMMA ReaderStarts == ASSUME Init PROVE ReaderInv
<1>1. ChainInv
  BY ChainStarts DEF Init
<1> QED BY <1>1 DEF Init, ReaderInv

LEMMA ChainGoesOn ==
    ASSUME ReaderInv, Mine, UNCHANGED readerVars, ~Over PROVE ReaderInv'
<1>1. ChainInv /\ ChainInv'
  BY MineKeeps DEF ReaderInv
<1>2. /\ version' = version /\ Height \in Nat /\ Height' = Height + 1
      /\ \A b \in 1 .. Height : blocks'[b] = blocks[b]
  BY <1>1, MineGrows
<1>3. /\ pc' = pc /\ ctx' = ctx /\ head' = head /\ raw' = raw /\ st' = st /\ received' = received
      /\ lost' = lost /\ ticksOk' = ticksOk /\ feesOk' = feesOk
  BY DEF readerVars
<1>4. Len(blocks) = Height /\ Len(blocks') = Height'
  BY DEF Height
<1> DEFINE S == Mod(blocks, head, ctx)
<1>5. ASSUME pc \in {"states", "now", "done"}
      PROVE  /\ LogsRead(blocks') /\ LogsRead(blocks)
             /\ S \subseteq 1 .. Height /\ Mod(blocks', head, ctx) = S
             /\ \A b \in S : blocks'[b] = blocks[b]
  <2>1. LogsRead(blocks)
    BY <1>5 DEF ReaderInv
  <2>2. head \in 1 .. Height /\ head \in 1 .. Height + 1
    BY <1>2, <1>4, <2>1 DEF LogsRead
  <2>3. Mod(blocks', head, ctx) = S /\ S \subseteq 1 .. Height /\ \A b \in S : blocks'[b] = blocks[b]
    BY <1>2, <2>2, ModStays
  <2> HIDE DEF S
  <2>4. version = "v4" => RawOf(blocks', raw, S)
    <3>1. version = "v4" => RawOf(blocks, raw, S)
      BY <2>1 DEF LogsRead, S
    <3> QED BY <2>3, <3>1, RawStays
  <2> QED BY <1>2, <1>4, <2>1, <2>2, <2>3, <2>4 DEF LogsRead
<1>6. ASSUME pc = "now", version = "v4" PROVE StatesRead(blocks')
  <2>1. StatesRead(blocks) /\ LogsRead(blocks)
    BY <1>6 DEF ReaderInv
  <2>2. /\ S \subseteq 1 .. Height /\ Mod(blocks', head, ctx) = S /\ RawOf(blocks, raw, S)
        /\ \A b \in S : blocks'[b] = blocks[b]
    BY <1>5, <1>6 DEF LogsRead
  <2> HIDE DEF S
  <2>3. Txs \subseteq S
    BY <2>2, TxsAre
  <2>4. \A b \in Txs : StateOf(blocks'[b]) = StateOf(blocks[b])
    BY <2>2, <2>3
  <2>5. OneEach(blocks', S) <=> OneEach(blocks, S)
    BY <2>2 DEF OneEach
  <2>6. Calm(blocks', S) <=> Calm(blocks, S)
    BY <2>2 DEF Calm
  <2>7. Whole(blocks') <=> Whole(blocks)
    BY <2>2, <2>5, <2>6 DEF Whole, S
  <2> QED BY <2>1, <2>4, <2>7 DEF StatesRead
<1>7. LogsRead(blocks)' <=> LogsRead(blocks')
  BY <1>2, <1>3 DEF LogsRead
<1>8. StatesRead(blocks)' <=> StatesRead(blocks')
  <2>1. Txs' = Txs
    BY <1>3 DEF Txs
  <2>2. Whole(blocks)' <=> Whole(blocks')
    BY <1>3 DEF Whole
  <2> QED BY <1>3, <2>1, <2>2 DEF StatesRead
<1>9. pc \in {"meta", "logs"} /\ ctx => head \in 1 .. Height + 1
  BY <1>2 DEF ReaderInv
<1>10. pc # "done"
  BY DEF Over
<1>11. pc \in {"idle", "meta", "logs", "states", "now", "done", "failed"} /\ ctx \in BOOLEAN
       /\ (pc = "states" => version = "v4")
  BY DEF ReaderInv
<1> QED BY <1>1, <1>2, <1>3, <1>5, <1>6, <1>7, <1>8, <1>9, <1>10, <1>11 DEF ReaderInv

LEMMA BeginKeeps == ASSUME ReaderInv, Begin PROVE ReaderInv'
<1>1. ChainInv'
  BY ChainStays DEF Begin, ReaderInv
<1>2. Height \in 1 .. Height /\ Height' = Height
  <2>1. Height \in Nat /\ Height >= 1
    BY DEF ReaderInv, ChainInv
  <2>2. Height' = Height
    BY DEF Begin, chainVars, Height
  <2> QED BY <2>1, <2>2
<1> QED BY <1>1, <1>2 DEF Begin, ReaderInv

LEMMA ReadMetaKeeps == ASSUME ReaderInv, ReadMeta PROVE ReaderInv'
<1>1. ChainInv'
  BY ChainStays DEF ReadMeta, ReaderInv
<1>2. Height' = Height
  BY DEF ReadMeta, chainVars, Height
<1>3. pc = "meta" /\ pc' \in {"failed", "logs"} /\ ctx' = ctx /\ head' = head
  BY DEF ReadMeta
<1> QED BY <1>1, <1>2, <1>3 DEF ReaderInv

LEMMA ReadLogsKeeps == ASSUME ReaderInv, ReadLogs PROVE ReaderInv'
<1>1. ChainInv /\ ChainInv'
  BY ChainStays DEF ReadLogs, ReaderInv
<1>2. blocks' = blocks /\ version' = version /\ ctx' = ctx /\ pc = "logs" /\ ctx \in BOOLEAN
  BY DEF ReadLogs, chainVars, ReaderInv
<1> DEFINE upTo == IF ctx THEN head ELSE Height
           events == IF version = "v3" THEN V3EventsTo(upTo) ELSE ModifiesTo(upTo)
           transfers == TransfersTo(upTo)
           scoped == IF ctx THEN Scoped(events, transfers) ELSE [events |-> events, held |-> TRUE]
<1>3. /\ head' = upTo /\ raw' = scoped.events
      /\ pc' = IF scoped.events = <<>> THEN "failed" ELSE IF version = "v3" THEN "now" ELSE "states"
  BY DEF ReadLogs
<1>4. upTo \in 1 .. Height /\ Height = Len(blocks)
  <2>1. Height \in 1 .. Height
    BY <1>1, TipIs DEF ChainInv
  <2>2. ctx => head \in 1 .. Height
    BY <1>2 DEF ReaderInv
  <2> QED BY <2>1, <2>2 DEF Height
<1>5. version = "v4" => RawOf(blocks, scoped.events, Mod(blocks, upTo, ctx))
  <2> SUFFICES ASSUME version = "v4" PROVE RawOf(blocks, scoped.events, Mod(blocks, upTo, ctx))
    OBVIOUS
  <2> DEFINE m == upTo
  <2>1. m \in 1 .. Height
    BY <1>4
  <2>2. scoped.events = IF ctx THEN Scoped(ModifiesTo(m), TransfersTo(m)).events ELSE ModifiesTo(m)
    OBVIOUS
  <2> HIDE DEF m, scoped
  <2>3. /\ RawOf(blocks, ModifiesTo(m), Mod(blocks, m, FALSE))
        /\ RawOf(blocks, Scoped(ModifiesTo(m), TransfersTo(m)).events, Mod(blocks, m, TRUE))
    BY <1>1, <2>1, ScopedV4
  <2>4. CASE ctx = TRUE
    BY <2>2, <2>3, <2>4 DEF m
  <2>5. CASE ctx = FALSE
    BY <2>2, <2>3, <2>5 DEF m
  <2> QED BY <1>2, <2>4, <2>5
<1> HIDE DEF upTo, scoped
<1>6. pc' # "failed" => LogsRead(blocks)'
  BY <1>2, <1>3, <1>4, <1>5 DEF LogsRead
<1>7. pc' \in {"failed", "now", "states"} /\ (pc' = "states" => version # "v3") /\ (pc' = "now" => version = "v3")
  BY <1>3
<1>8. version \in {"v3", "v4"}
  BY <1>1 DEF ChainInv
<1> QED BY <1>1, <1>2, <1>6, <1>7, <1>8 DEF ReaderInv

LEMMA StatesOfWhole ==
    ASSUME ReaderInv, LogsRead(blocks), version = "v4", NEW native \in BOOLEAN, NEW unread,
           NEW gone, NEW tickGone \in {{}, gone}, StatesOf(ownerFlows(native, unread), gone, tickGone)
    PROVE  /\ \A b \in DOMAIN received' : received'[b] \in Amount
           /\ lost' = gone
           /\ gone = {} /\ OneEach(blocks, Mod(blocks, head, ctx)) /\ Calm(blocks, Mod(blocks, head, ctx))
                => ticksOk' /\ st' = [b \in Txs |-> StateOf(blocks[b])]
<1> DEFINE flows == ownerFlows(native, unread)
           implied == impliedMintTicks(raw, outflowsOf(flows))
           source == [b \in Txs |-> TickSources(b, tickGone, implied)]
           read == [b \in Txs |->
                     [tick |-> source[b].tick, price |-> NoTick, fg |-> feeGrowthAt(b, gone)]]
           reconciled == reconcileRemovalTicks(raw, read, inflowsOf(flows))
           S == Mod(blocks, head, ctx)
<1>1. /\ received' = inflowsOf(flows) /\ lost' = gone /\ st' = reconciled.st
      /\ ticksOk' = ((\A b \in Txs : ~source[b].guessed) /\ reconciled.fixed = 0)
  BY DEF StatesOf
<1> HIDE DEF implied
<1>2. ChainInv /\ S \subseteq 1 .. Height /\ RawOf(blocks, raw, S)
  <2>1. head \in 1 .. Height /\ Height \in Nat /\ ChainInv
    BY TipIs DEF LogsRead, Height, ReaderInv
  <2>2. S \subseteq 1 .. head
    BY DEF Mod
  <2> QED BY <2>1, <2>2 DEF LogsRead
<1> HIDE DEF S
<1>3. Txs = TxsOf(raw) /\ Txs \subseteq S
  BY <1>2, TxsAre
<1>4. /\ DOMAIN flows \subseteq Txs /\ \A b \in DOMAIN flows : flows[b] \in Int \X Int
  BY <1>2, <1>3, FlowsAre
<1>5. \A b \in DOMAIN received' : received'[b] \in Amount
  <2> HIDE DEF flows
  <2> QED BY <1>1, <1>4, InflowsAre
<1>6. ASSUME gone = {}, OneEach(blocks, S), Calm(blocks, S)
      PROVE  ticksOk' /\ st' = [b \in Txs |-> StateOf(blocks[b])]
  <2>1. ASSUME NEW b \in Txs
        PROVE  /\ source[b] = [tick |-> blocks[b].after, guessed |-> FALSE]
               /\ read[b] = StateOf(blocks[b])
    <3>1. blocks[b].after \in PoolTicks
      <4>1. blocks[b] \in Block
        BY <1>2, <1>3, BlockIs
      <4> QED BY <4>1 DEF Block, PoolTicks
    <3>2. blocks[b].after # NoTick
      BY <3>1, NoTickIsNone
    <3>3. slot0TickAt(b, tickGone) = blocks[b].after
      BY <1>6 DEF slot0TickAt
    <3>4. source[b] = [tick |-> blocks[b].after, guessed |-> FALSE]
      BY <3>2, <3>3 DEF TickSources
    <3>5. feeGrowthAt(b, gone) = (BaseGrowth + blocks[b].growth) % Wrap
      BY <1>6 DEF feeGrowthAt, FeeGrowthInside
    <3>6. read[b] = [tick |-> source[b].tick, price |-> NoTick, fg |-> feeGrowthAt(b, gone)]
      OBVIOUS
    <3> HIDE DEF source, read
    <3> QED BY <3>4, <3>5, <3>6 DEF StateOf
  <2>2. read = [b \in Txs |-> StateOf(blocks[b])]
    BY <2>1
  <2>3. \A b \in Txs : read[b].tick = blocks[b].after /\ ~source[b].guessed
    <3> HIDE DEF read, source
    <3> TAKE b \in Txs
    <3>1. StateOf(blocks[b]).tick = blocks[b].after /\ read[b] = StateOf(blocks[b])
      BY <2>1 DEF StateOf
    <3>2. \A x, t : x = [tick |-> t, guessed |-> FALSE] => ~x.guessed
      OBVIOUS
    <3>3. ~source[b].guessed
      BY <2>1, <3>2
    <3> QED BY <3>1, <3>3
  <2> HIDE DEF read, source
  <2>4. reconciled = [st |-> read, fixed |-> 0]
    BY <1>2, <1>6, <2>3, CleanTicksStand
  <2> HIDE DEF reconciled
  <2> QED BY <1>1, <2>2, <2>3, <2>4
<1> QED BY <1>1, <1>5, <1>6 DEF S

LEMMA ReadStatesKeeps == ASSUME ReaderInv, ReadStates PROVE ReaderInv'
<1>1. ChainInv /\ ChainInv'
  BY ChainStays DEF ReadStates, ReaderInv
<1>2. /\ blocks' = blocks /\ version' = version /\ ctx' = ctx /\ head' = head /\ raw' = raw
      /\ pc = "states" /\ pc' = "now" /\ ctx \in BOOLEAN
  BY DEF ReadStates, chainVars, ReaderInv
<1>3. LogsRead(blocks) /\ version = "v4"
  BY <1>2 DEF ReaderInv
<1>4. LogsRead(blocks)'
  BY <1>2, <1>3 DEF LogsRead
<1>5. PICK native \in BOOLEAN, unread \in Unreadable, horizon \in {0} \cup Txs :
         \E tickGone \in {{}, {b \in Txs : b <= horizon}} :
            StatesOf(ownerFlows(native, unread), {b \in Txs : b <= horizon}, tickGone)
  BY DEF ReadStates
<1> DEFINE gone == {b \in Txs : b <= horizon}
<1>6. PICK tickGone \in {{}, gone} : StatesOf(ownerFlows(native, unread), gone, tickGone)
  BY <1>5
<1> HIDE DEF gone
<1>7. /\ \A b \in DOMAIN received' : received'[b] \in Amount
      /\ lost' = gone
      /\ gone = {} /\ OneEach(blocks, Mod(blocks, head, ctx)) /\ Calm(blocks, Mod(blocks, head, ctx))
           => ticksOk' /\ st' = [b \in Txs |-> StateOf(blocks[b])]
  BY <1>3, <1>6, StatesOfWhole
<1>8. Txs' = Txs
  BY <1>2 DEF Txs
<1>9. StatesRead(blocks)'
  <2>1. Whole(blocks)' => gone = {} /\ OneEach(blocks, Mod(blocks, head, ctx))
                          /\ Calm(blocks, Mod(blocks, head, ctx))
    BY <1>2, <1>7 DEF Whole
  <2> QED BY <1>2, <1>7, <1>8, <2>1 DEF StatesRead
<1> QED BY <1>1, <1>2, <1>3, <1>4, <1>9 DEF ReaderInv

LEMMA ReportIs ==
    ASSUME ReaderInv, pc = "now", NEW events, NEW feed, NEW known, Report(events, feed, known)
    PROVE  /\ ChainInv' /\ LogsRead(blocks)' /\ pc' = "done" /\ ctx' \in BOOLEAN
           /\ Height' = Height /\ feesOk' = known
           /\ (Whole(blocks)' <=> Whole(blocks)) /\ (AllPriced' <=> AllPriced)
<1>1. /\ blocks' = blocks /\ version' = version /\ owed' = owed /\ ctx' = ctx /\ head' = head
      /\ raw' = raw /\ lost' = lost /\ pc' = "done" /\ feesOk' = known
  BY DEF Report, chainVars
<1>2. ChainInv'
  BY <1>1, ChainStays DEF chainVars, ReaderInv
<1>3. LogsRead(blocks) /\ ctx \in BOOLEAN
  BY DEF ReaderInv
<1>4. LogsRead(blocks)'
  BY <1>1, <1>3 DEF LogsRead
<1>5. Height' = Height
  BY <1>1 DEF Height
<1>6. (Whole(blocks)' <=> Whole(blocks)) /\ (AllPriced' <=> AllPriced)
  BY <1>1, <1>5 DEF Whole, AllPriced
<1> QED BY <1>1, <1>2, <1>3, <1>4, <1>5, <1>6

LEMMA TipPriced ==
    ASSUME ChainInv, AllPriced PROVE isPriceableTick(Tip.after)
<1>1. Height \in 1 .. Height /\ Tip = blocks[Height]
  BY TipIs DEF ChainInv
<1> QED BY <1>1 DEF AllPriced

LEMMA FinishV3Keeps == ASSUME ReaderInv, FinishV3 PROVE ReaderInv'
<1>1. pc = "now" /\ \E events, feed : Report(events, feed, TRUE)
  BY DEF FinishV3
<1>2. PICK events, feed : Report(events, feed, TRUE)
  BY <1>1
<1>3. /\ ChainInv' /\ LogsRead(blocks)' /\ pc' = "done" /\ ctx' \in BOOLEAN /\ Height' = Height
      /\ feesOk' = TRUE /\ (AllPriced' <=> AllPriced)
  BY <1>1, <1>2, ReportIs
<1>4. AllPriced => ticksOk'
  <2>1. AllPriced => isPriceableTick(Tip.after)
    BY TipPriced DEF ReaderInv
  <2>2. isPriceableTick(Tip.after) => ticksOk'
    BY DEF FinishV3
  <2> QED BY <2>1, <2>2
<1> QED BY <1>3, <1>4 DEF ReaderInv

LEMMA GrowthIs ==
    ASSUME ChainInv, NEW b \in 1 .. Height
    PROVE  /\ (BaseGrowth + blocks[b].growth) % Wrap \in 0 .. Wrap - 1
           /\ (BaseGrowth + blocks[b].growth) % Wrap # NoGrowth
           /\ FeeGrowthInside(b) = (BaseGrowth + blocks[b].growth) % Wrap
           /\ blocks[b].after \in PoolTicks
<1>1. blocks[b].growth \in Nat /\ blocks[b].after \in PoolTicks
  BY BlockIs DEF Block, PoolTicks
<1> DEFINE g == BaseGrowth + blocks[b].growth
<1>2. g \in Nat
  BY <1>1, ChainAssumption
<1>3. FeeGrowthInside(b) = g % Wrap
  BY DEF FeeGrowthInside
<1> HIDE DEF g
<1>4. g % Wrap \in 0 .. Wrap - 1
  BY <1>2, WrapPositive
<1> QED BY <1>1, <1>3, <1>4, NoGrowthIsNone DEF g

LEMMA FinishV4Keeps == ASSUME ReaderInv, FinishV4 PROVE ReaderInv'
<1> DEFINE last == raw[Len(raw)].block
           built == buildV4Events(raw, st, received)
           withNow == IF ~IsOpen THEN st
                      ELSE [b \in DOMAIN st \cup {Height} |->
                             IF b = Height
                             THEN [tick |-> Tip.after, price |-> NoTick, fg |-> FeeGrowthInside(Height)]
                             ELSE st[b]]
           known == withNow[last].fg # NoGrowth
           pinned == \E b \in DOMAIN withNow : ~isPriceableTick(withNow[b].tick)
           Priced(swaps) == IF pinned THEN resolvePriceTicks(withNow, swaps)
                            ELSE [st |-> withNow, fixed |-> 0]
<1>1. pc = "now" /\ version = "v4"
  BY DEF FinishV4
<1>2. \E swaps : /\ ticksOk' = (ticksOk /\ Priced(swaps).fixed = 0)
                 /\ \E events, feed : Report(events, feed, built.complete /\ (IsOpen => known))
  BY DEF FinishV4
<1>3. ChainInv /\ LogsRead(blocks) /\ StatesRead(blocks)
  BY <1>1 DEF ReaderInv
<1> HIDE DEF built, known, pinned
<1>4. PICK swaps, events, feed :
        /\ ticksOk' = (ticksOk /\ Priced(swaps).fixed = 0)
        /\ Report(events, feed, built.complete /\ (IsOpen => known))
  BY <1>2
<1>5. /\ ChainInv' /\ LogsRead(blocks)' /\ pc' = "done" /\ ctx' \in BOOLEAN /\ Height' = Height
      /\ feesOk' = (built.complete /\ (IsOpen => known))
      /\ (Whole(blocks)' <=> Whole(blocks)) /\ (AllPriced' <=> AllPriced)
  BY <1>1, <1>4, ReportIs
<1>6. ASSUME Whole(blocks), AllPriced PROVE ticksOk' /\ feesOk'
  <2> DEFINE S == Mod(blocks, head, ctx)
  <2>1. ticksOk /\ DOMAIN st = Txs /\ (\A b \in Txs : st[b] = StateOf(blocks[b]))
    BY <1>3, <1>6 DEF StatesRead
  <2>2. RawOf(blocks, raw, S) /\ S \subseteq 1 .. Height /\ raw # <<>>
    <3>1. head \in 1 .. Height /\ Height \in Nat
      BY <1>3, TipIs DEF LogsRead, Height
    <3>2. S \subseteq 1 .. head
      BY DEF Mod
    <3> QED BY <1>1, <1>3, <3>1, <3>2 DEF LogsRead
  <2> HIDE DEF S
  <2>3. Txs \subseteq 1 .. Height /\ Txs = TxsOf(raw)
    BY <2>2, TxsAre
  <2>4. raw \in Seq(RawEvent) /\ Len(raw) \in 1 .. Len(raw)
    <3>1. raw \in Seq(RawEvent)
      BY <2>2 DEF RawOf
    <3> QED BY <2>2, <3>1
  <2>5. ASSUME NEW b \in Txs
        PROVE  /\ st[b].tick \in PoolTicks /\ st[b].fg \in GrowthRead /\ st[b].fg # NoGrowth
               /\ isPriceableTick(st[b].tick)
    <3>1. b \in 1 .. Height
      BY <2>3
    <3>2. st[b].tick = blocks[b].after /\ st[b].fg = (BaseGrowth + blocks[b].growth) % Wrap
      BY <2>1 DEF StateOf
    <3>3. isPriceableTick(blocks[b].after)
      BY <1>6, <3>1 DEF AllPriced
    <3> QED BY <1>3, <3>1, <3>2, <3>3, GrowthIs DEF GrowthRead
  <2>6. \A i \in 1 .. Len(raw) : raw[i].block \in Txs
    BY <2>3 DEF TxsOf
  <2>7. built.complete
    <3>1. Readings(raw, st, received)
      BY <1>3, <2>2, <2>4, <2>5, <2>6 DEF Readings, StatesRead
    <3>2. \A i \in 1 .. Len(raw) : st[raw[i].block].fg # NoGrowth
      BY <2>5, <2>6
    <3> QED BY <3>1, <3>2, WalkComplete DEF built
  <2>8. last \in Txs
    BY <2>4, <2>6
  <2>9. Height \in 1 .. Height
    BY <1>3, TipIs DEF ChainInv
  <2>10. FeeGrowthInside(Height) # NoGrowth
    BY <1>3, <2>9, GrowthIs
  <2>11. IsOpen => known
    <3> SUFFICES ASSUME IsOpen PROVE withNow[last].fg # NoGrowth
      BY DEF known
    <3>1. last \in DOMAIN st
      BY <2>1, <2>8
    <3>2. last = Height => withNow[last].fg = FeeGrowthInside(Height)
      BY <3>1
    <3>3. last # Height => withNow[last] = st[last]
      BY <3>1
    <3> QED BY <2>5, <2>8, <2>10, <3>2, <3>3
  <2>12. ~pinned
    <3> SUFFICES ASSUME NEW b \in DOMAIN withNow PROVE isPriceableTick(withNow[b].tick)
      BY DEF pinned
    <3>1. isPriceableTick(Tip.after)
      BY <1>3, <1>6, TipPriced
    <3>2. CASE IsOpen /\ b = Height
      <4>1. withNow[b].tick = Tip.after
        BY <3>2
      <4> QED BY <3>1, <4>1
    <3>3. CASE ~(IsOpen /\ b = Height)
      <4>1. b \in DOMAIN st /\ withNow[b] = st[b]
        BY <3>3
      <4> QED BY <2>1, <2>5, <4>1
    <3> QED BY <3>2, <3>3
  <2>13. Priced(swaps).fixed = 0
    BY <2>12
  <2> QED BY <1>4, <1>5, <2>1, <2>7, <2>11, <2>13
<1> QED BY <1>5, <1>6 DEF ReaderInv

LEMMA ReaderKeeps == ASSUME ReaderInv, [Next]_vars PROVE ReaderInv'
<1>1. CASE (Over /\ UNCHANGED vars) \/ UNCHANGED vars
  <2>1. UNCHANGED vars
    BY <1>1
  <2>2. ChainInv'
    BY <2>1, ChainStays DEF vars, ReaderInv
  <2>3. /\ blocks' = blocks /\ version' = version /\ pc' = pc /\ ctx' = ctx /\ head' = head
        /\ raw' = raw /\ st' = st /\ received' = received /\ lost' = lost /\ ticksOk' = ticksOk
        /\ feesOk' = feesOk
    BY <2>1 DEF vars, chainVars, readerVars
  <2>4. Height' = Height /\ (AllPriced' <=> AllPriced) /\ (Whole(blocks)' <=> Whole(blocks))
        /\ (LogsRead(blocks)' <=> LogsRead(blocks)) /\ (StatesRead(blocks)' <=> StatesRead(blocks))
    BY <2>3 DEF Height, AllPriced, Whole, LogsRead, StatesRead, Txs
  <2> QED BY <2>2, <2>3, <2>4 DEF ReaderInv
<1>2. CASE ~Over /\ Mine /\ UNCHANGED readerVars
  BY <1>2, ChainGoesOn
<1>3. CASE Read
  BY <1>3, BeginKeeps, ReadMetaKeeps, ReadLogsKeeps, ReadStatesKeeps, FinishV3Keeps, FinishV4Keeps
  DEF Read
<1> QED BY <1>1, <1>2, <1>3 DEF Next

(* Whatever is mined between its reads (each an await of                   *)
(* computePositionPnL or computePositionPnLV4), a reading has the events   *)
(* of the blocks it counted, all of them and in order, and the state of    *)
(* each block as the chain has it unless the node has lost it.             *)
THEOREM ReaderAlways == Spec => []ReaderInv
<1>1. Init => ReaderInv
  BY ReaderStarts
<1>2. ReaderInv /\ [Next]_vars => ReaderInv'
  BY ReaderKeeps
<1> QED BY <1>1, <1>2, PTL DEF Spec

(* A reading that lost no state of the events it counts, of a pool that    *)
(* always had a price, is reported as complete: neither the reconciliation *)
(* with what the owner was paid nor the fees from growth raise a flag of   *)
(* their own (tickComplete and feesComplete of chain-v4.ts).               *)
THEOREM AlarmsAreReal == Spec => []NoFalseAlarm
<1>1. ReaderInv => NoFalseAlarm
  <2> SUFFICES ASSUME ReaderInv, Done, lost = {}, OneChangeEach, NoLateTrade, AllPriced
               PROVE  ticksOk /\ feesOk
    BY DEF NoFalseAlarm, AllPriced
  <2>1. pc = "done" /\ ChainInv /\ head \in 1 .. Height
    BY DEF Done, ReaderInv, LogsRead, Height
  <2>2. \A b : b \in Counted <=> Counts(blocks, head, ctx, b)
    BY <2>1, CountedIs
  <2>3. \A b \in Mod(blocks, head, ctx) : b \in Changed
    BY <2>2 DEF Mod, Changed
  <2>4. Whole(blocks)
    BY <2>3 DEF Whole, OneEach, Calm, OneChangeEach, NoLateTrade
  <2> QED BY <2>1, <2>4 DEF ReaderInv
<1> QED BY <1>1, ReaderAlways, PTL

=============================================================================
