------------------------------ MODULE V4Decode ------------------------------
(***************************************************************************)
(* web/src/lib/v4-decode.ts and the flow helpers of chain-v4.ts: how the   *)
(* raw ModifyLiquidity events of a v4 position, which carry neither a tick *)
(* nor an amount, become the events of PnlCore.                            *)
(*                                                                         *)
(* A raw event is [block, delta].  A block's state is [tick, price, fg],   *)
(* where fg is the fee growth inside the range, NoGrowth when that state   *)
(* is pruned; the growth of the two tokens is one number here.  Flows are  *)
(* functions from transactions, named by their blocks, to amounts.         *)
(***************************************************************************)
EXTENDS PnlCore

CONSTANTS
    Wrap,       \* fee growth is counted modulo this, 2^256
    NoGrowth    \* the growth of a pruned block

ASSUME WrapPositive == Wrap \in Nat \ {0}
ASSUME NoGrowthIsNone == NoGrowth \notin 0 .. Wrap - 1

Magnitude(n) == IF n < 0 THEN -n ELSE n

\* The values that are not "nothing", the first of them: the code's ??.
FirstOf(ticks) == ticks[Min({i \in DOMAIN ticks : ticks[i] # NoTick})]

-----------------------------------------------------------------------------
(* What the owner moved in a transaction *)

\* Mutant of MovesValue: the inherited value of a delegatecall counts.
MovesAnyValue(c) == c.ok

MovesValue(c) == c.ok /\ c.type = "call"

\* The transaction's own value and every successful frame that moves some.
nativeFlowForOwner(value, calls) ==
    SumFunction([i \in DOMAIN calls |-> IF MovesValue(calls[i]) THEN calls[i].net ELSE 0]) - value

\* Flows where the owner only received, and where it only spent.
inflowsOf(flows) ==
    LET txs == {tx \in DOMAIN flows :
                  flows[tx][1] >= 0 /\ flows[tx][2] >= 0 /\ Positive(flows[tx])}
    IN  [tx \in txs |-> flows[tx]]

outflowsOf(flows) == inflowsOf([tx \in DOMAIN flows |-> Minus(Zero, flows[tx])])

-----------------------------------------------------------------------------
(* Ticks *)

\* The tick that reproduces the amounts a position of this liquidity moved.
tickFromAmounts(amt, L) ==
    CASE L <= 0 \/ amt = Zero -> NoTick
      [] L > 0 /\ amt[1] > 0 /\ amt[2] > 0 -> Clamp(TickLower + amt[2] \div L)
      [] L > 0 /\ amt[1] > 0 /\ amt[2] = 0 -> TickLower
      [] OTHER -> TickUpper

\* Within one percent.
nearlyEqual(a, b) ==
    LET larger == IF a > b THEN a ELSE b
    IN  Magnitude(a - b) * 100 <= larger

\* The tick at each mint, from what was spent, where it gives the same amounts back.
impliedMintTicks(raw, spent) ==
    LET Tick(i) == tickFromAmounts(spent[raw[i].block], raw[i].delta)
        RoundTrips(i) ==
            LET geo == amountsFromLiquidity(raw[i].delta, Tick(i))
                gt == spent[raw[i].block]
            IN  Tick(i) # NoTick /\ nearlyEqual(geo[1], gt[1]) /\ nearlyEqual(geo[2], gt[2])
        mints == {i \in DOMAIN raw :
                    raw[i].delta > 0 /\ raw[i].block \in DOMAIN spent /\ RoundTrips(i)}
    IN  [b \in {raw[i].block : i \in mints} |->
            Tick(Max({i \in mints : raw[i].block = b}))]

\* The last of the swaps [at, tick] at or before a block.
tickAtBlockOrNull(swaps, block) ==
    LET upTo == {i \in DOMAIN swaps : swaps[i].at <= block}
    IN  IF upTo = {} THEN NoTick ELSE swaps[Max(upTo)].tick

\* A removal whose tick makes out more principal than was paid is refuted.
exceeds(a, b) == a * 100 > b * 101

Refuted(raw, st, received, i) ==
    /\ raw[i].delta < 0
    /\ raw[i].block \in DOMAIN received
    /\ LET principal == amountsFromLiquidity(-raw[i].delta, st[raw[i].block].tick)
           gt == received[raw[i].block]
       IN  exceeds(principal[1], gt[1]) \/ exceeds(principal[2], gt[2])

Reconciled(acc, raw, received, i) ==
    LET t == tickFromAmounts(received[raw[i].block], -raw[i].delta) IN
    IF Refuted(raw, acc.st, received, i) /\ t # NoTick
    THEN [st |-> [acc.st EXCEPT ![raw[i].block].tick = t], fixed |-> acc.fixed + 1]
    ELSE acc

\* reconcileRemovalTicks: the removals in order, each against the state the ones before
\* left; [st, fixed].
reconcileRemovalTicks(raw, st, received) ==
    LET after[i \in 0 .. Len(raw)] ==
          IF i = 0 THEN [st |-> st, fixed |-> 0] ELSE Reconciled(after[i - 1], raw, received, i)
    IN  after[Len(raw)]

\* Mutant of resolvePriceTicks: the sentinel stays the price.
resolvePriceTicksNever(st, swaps) ==
    [st |-> st, fixed |-> Cardinality({b \in DOMAIN st : ~isPriceableTick(st[b].tick)})]

\* A block at the AMM's limit is priced by the last real trade, by the last real price of
\* the position's own blocks, or by the bound of its range.
resolvePriceTicks(st, swaps) ==
    LET traded == Picked(swaps, {i \in DOMAIN swaps : isPriceableTick(swaps[i].tick)})
        pinned == {b \in DOMAIN st : ~isPriceableTick(st[b].tick)}
        LastGood(b) == LET good == {g \in DOMAIN st \ pinned : g < b}
                       IN  IF good = {} THEN NoTick ELSE st[Max(good)].tick
    IN  [st |-> [b \in DOMAIN st |->
                  IF b \in pinned
                  THEN [st[b] EXCEPT !.price = FirstOf(<<tickAtBlockOrNull(traded, b),
                                                         LastGood(b), Clamp(st[b].tick)>>)]
                  ELSE st[b]],
         fixed |-> Cardinality(pinned)]

\* buildV4PriceFeed: the price of the last block at or before a time.
buildV4PriceFeed(st, upTo) ==
    [at \in 0 .. upTo |->
        LET before == {b \in DOMAIN st : b <= at}
            b == IF before = {} THEN Min(DOMAIN st) ELSE Max(before)
        IN  IF st[b].price # NoTick THEN st[b].price ELSE st[b].tick]

-----------------------------------------------------------------------------
(* Events *)

\* The growth since the last checkpoint, whatever the accumulator did meanwhile.
feesFromGrowth(L, now, last) ==
    LET grown == (now - last) % Wrap IN <<L * grown, L * grown>>

Event(kind, r, amt, liq) == [kind |-> kind, tx |-> r.block, at |-> r.block, amt |-> amt, liq |-> liq]

\* One raw event.  What the owner received is preferred to what growth says, except for a
\* mint, which receives nothing; without either the fees are not complete.
Modified(acc, r, st, received) ==
    LET read == r.block \in DOMAIN received
        known == st.fg # NoGrowth /\ acc.last # NoGrowth
        fee == IF known THEN feesFromGrowth(acc.liq, st.fg, acc.last) ELSE Zero
        L == Magnitude(r.delta)
        principal == amountsFromLiquidity(L, st.tick)
        paid == IF read THEN Least(principal, received[r.block]) ELSE principal
        got == IF read THEN received[r.block] ELSE Plus(IF r.delta < 0 THEN paid ELSE Zero, fee)
        collect == <<Event("collect", r, got, 0)>>
        new == IF r.delta > 0
                 THEN <<Event("increase", r, principal, L)>> \o
                      IF Positive(fee) THEN <<Event("collect", r, fee, 0)>> ELSE <<>>
               ELSE IF r.delta < 0 THEN <<Event("decrease", r, paid, L)>> \o collect
               ELSE collect
    IN  [events |-> acc.events \o new,
         complete |-> acc.complete /\ ~(acc.liq > 0 /\ ~known /\ (r.delta > 0 \/ ~read)),
         liq |-> acc.liq + r.delta,
         last |-> st.fg]

\* buildV4Events: [events, complete].
buildV4Events(raw, st, received) ==
    LET after[i \in 0 .. Len(raw)] ==
          IF i = 0
          THEN [events |-> <<>>, complete |-> TRUE, liq |-> 0, last |-> st[raw[1].block].fg]
          ELSE Modified(after[i - 1], raw[i], st[raw[i].block], received)
    IN  after[Len(raw)]

=============================================================================
