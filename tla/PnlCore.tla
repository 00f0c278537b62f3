------------------------------- MODULE PnlCore -------------------------------
(***************************************************************************)
(* The pure core of web/src/lib/uniswap-v3-pnl.ts, shared by the v3 and    *)
(* the v4 reader: what liquidity is worth at a tick, what a position's     *)
(* events say was deposited, withdrawn and earned, and at which price each *)
(* of them is valued.                                                      *)
(*                                                                         *)
(* An amount is a pair <<token0, token1>>.  Between the bounds of a range  *)
(* the amounts are linear in the tick here; what the code relies on is     *)
(* kept: all token0 below, all token1 above, and token1 says where between.*)
(* A price is named by its tick.  Blocks stand for their timestamps, and a *)
(* transaction is named by its block, of which it is the only one.         *)
(***************************************************************************)
EXTENDS Integers, Sequences, SequencesExt, FiniteSetsExt

CONSTANTS
    MinTick, MaxTick,       \* the AMM's limits, MIN_TICK and MAX_TICK
    TickLower, TickUpper    \* the position's range

ASSUME TicksOrdered ==
    /\ MinTick \in Nat /\ TickLower \in Nat /\ TickUpper \in Nat /\ MaxTick \in Nat
    /\ MinTick < TickLower /\ TickLower < TickUpper /\ TickUpper < MaxTick - 1

\* The transaction of a synthetic event, "0xopen", and the tick that is none.
Open == 0
NoTick == MaxTick + 1

Zero == <<0, 0>>
Plus(a, b) == <<a[1] + b[1], a[2] + b[2]>>
Minus(a, b) == <<a[1] - b[1], a[2] - b[2]>>
Least(a, b) == <<IF a[1] < b[1] THEN a[1] ELSE b[1], IF a[2] < b[2] THEN a[2] ELSE b[2]>>
Positive(a) == a[1] > 0 \/ a[2] > 0
Total(amounts) ==
    <<SumFunction([x \in DOMAIN amounts |-> amounts[x][1]]),
      SumFunction([x \in DOMAIN amounts |-> amounts[x][2]])>>

\* The entries of a sequence at the indices I, in order.
Picked(s, I) ==
    LET upTo[n \in 0 .. Len(s)] ==
          IF n = 0 THEN <<>> ELSE IF n \in I THEN Append(upTo[n - 1], s[n]) ELSE upTo[n - 1]
    IN  upTo[Len(s)]

-----------------------------------------------------------------------------
(* Ticks *)

Clamp(t) == IF t < TickLower THEN TickLower ELSE IF t > TickUpper THEN TickUpper ELSE t

amountsFromLiquidity(L, t) == <<L * (TickUpper - Clamp(t)), L * (Clamp(t) - TickLower)>>

\* The sentinel of a drained pool reads back as MIN_TICK or as MAX_TICK - 1.
isPriceableTick(t) == MinTick < t /\ t < MaxTick - 1

pricingTick(t) == IF isPriceableTick(t) THEN t ELSE Clamp(t)

-----------------------------------------------------------------------------
(* Events: [kind, tx, at, amt, liq] *)

\* resolveActions groups by transaction and takes the first event of each kind it finds.
IsFirst(events, i) ==
    \A j \in 1 .. i - 1 : events[j].tx # events[i].tx \/ events[j].kind # events[i].kind

OfKind(events, kind) == {i \in DOMAIN events : events[i].kind = kind /\ IsFirst(events, i)}

deposits(events) == OfKind(events, "increase")
withdrawals(events) == OfKind(events, "decrease")

\* Collected less the principal taken out in the same transaction.
FeeOf(events, i) ==
    Minus(events[i].amt,
          Total([j \in {j \in withdrawals(events) : events[j].tx = events[i].tx} |-> events[j].amt]))

feeClaims(events) == {i \in OfKind(events, "collect") : Positive(FeeOf(events, i))}

LastOf(S) == IF S = {} THEN 0 ELSE Max(S)

\* The burns that took liquidity out, and the last of them; 0 when there is none.
Burns(events) == {i \in DOMAIN events : events[i].kind = "decrease" /\ events[i].liq > 0}
LastBurn(events) == LastOf(Burns(events))

\* The transaction shown as the exit: synthetic events and fee claims are not one.
exitTxHash(events) ==
    LET burn == LastOf({i \in Burns(events) : events[i].tx # Open})
    IN  IF burn = 0 THEN Open ELSE events[burn].tx

-----------------------------------------------------------------------------
(* Prices *)

\* Mutant of impliedInRangePrice: the lower bound is left out.
impliedInRangePriceFromZero(e) == e.amt[2] \div e.liq

\* √P = √pa + amount1 / L.
impliedInRangePrice(e) == TickLower + e.amt[2] \div e.liq

\* The price one event evidences: exact when both tokens moved, else the bound it is beyond.
impliedEventPrice(e) ==
    CASE e.liq <= 0 \/ e.amt = Zero -> NoTick
      [] e.liq > 0 /\ e.amt[1] > 0 /\ e.amt[2] > 0 -> impliedInRangePrice(e)
      [] e.liq > 0 /\ e.amt[1] > 0 /\ e.amt[2] = 0 -> TickLower
      [] e.liq > 0 /\ e.amt[1] = 0 /\ e.amt[2] > 0 -> TickUpper
      [] OTHER -> NoTick

closedExitPrice(events) ==
    IF LastBurn(events) = 0 THEN NoTick ELSE impliedEventPrice(events[LastBurn(events)])

\* Every liquidity event of the chain is a point of the feed, and the mark, which comes
\* last and from markAt on wins.  Between them the last point counts, before them the first.
buildImpliedPriceFeed(events, mark, markAt) ==
    LET points == {i \in DOMAIN events : /\ events[i].tx # Open /\ events[i].kind # "collect"
                                        /\ impliedEventPrice(events[i]) # NoTick}
        upTo(at) == {i \in points : events[i].at <= at}
        Snap(at) == CASE points = {} \/ at = markAt -> mark
                      [] points # {} /\ at < markAt /\ upTo(at) # {} ->
                           impliedEventPrice(events[Max(upTo(at))])
                      [] OTHER -> impliedEventPrice(events[Min(points)])
    IN  [at \in 0 .. markAt |-> Snap(at)]

\* The value of the two tokens at a price, 2^tick, in units of the anchor over SCALE, which
\* keeps the inverse of a price, SCALE over 2^tick, whole.
SCALE == 2 ^ MaxTick
numerairePricePoint(tick, anchorIsToken0) ==
    IF anchorIsToken0 THEN <<SCALE, 2 ^ (MaxTick - tick)>> ELSE <<SCALE * 2 ^ tick, SCALE>>

Worth(a, p) == a[1] * p[1] + a[2] * p[2]

\* computePnL: the totals in tokens, and in the anchor, each flow at the price of its time.
computePnL(events, feed, anchorIsToken0) ==
    LET price(at) == numerairePricePoint(feed[at], anchorIsToken0)
        Amt(i) == events[i].amt
        Fee(i) == FeeOf(events, i)
        dep == Total([i \in deposits(events) |-> Amt(i)])
        depositedUsd == SumFunction([i \in deposits(events) |-> Worth(Amt(i), price(events[i].at))])
        withdrawnUsd == SumFunction([i \in withdrawals(events) |-> Worth(Amt(i), price(events[i].at))])
        feesUsd == SumFunction([i \in feeClaims(events) |-> Worth(Fee(i), price(events[i].at))])
        hodlUsd == Worth(dep, price(events[Len(events)].at))
    IN  [deposited |-> dep,
         withdrawn |-> Total([i \in withdrawals(events) |-> Amt(i)]),
         fees      |-> Total([i \in feeClaims(events) |-> Fee(i)]),
         pricePnlUsd |-> hodlUsd - depositedUsd,
         ilUsd     |-> withdrawnUsd - hodlUsd,
         feesUsd   |-> feesUsd,
         netPnlUsd |-> withdrawnUsd + feesUsd - depositedUsd]

=============================================================================
