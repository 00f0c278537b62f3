-------------------------------- MODULE Ledger --------------------------------
(***************************************************************************)
(* What the page makes of a portfolio: numeraire.ts (values of positions   *)
(* quoted in ether and in dollars, in the unit the reader chose),          *)
(* provisional.ts (which totals to mark), calendar.ts (closed positions by *)
(* day and by month) and the SummaryBar and PnlCalendar of App.tsx.        *)
(*                                                                         *)
(* A position is [tokenId, kind, gasKind, open, closedAt, fees, price, il, *)
(* gas, feesComplete, tickComplete, pool], its amounts whole numbers that  *)
(* the rates divide, its closing a day.  A month is its number: year * 12 + *)
(* month; the local calendar is DaysPerMonth long.                         *)
(***************************************************************************)
EXTENDS Integers, FiniteSetsExt, Functions

CONSTANT DaysPerMonth

ASSUME LedgerAssumption == DaysPerMonth \in Nat \ {0}

Units == {"eth", "usd"}
Terms == {"net", "fees", "price", "il", "gas"}

\* An amount the rate divides when it is to be converted by it.
Divided(value, kind, rate) == value \in Int /\ (kind = "usd" /\ rate > 0 => value % rate = 0)

toUsd(value, kind, rate) == IF kind = "usd" THEN value ELSE value * rate

\* Mutant of displayValue: a value is in ether already when the view is.
displayValueAsItIs(value, kind, rate, unit) ==
    IF unit = "usd" THEN toUsd(value, kind, rate) ELSE value

\* In the unit of the view; without a rate a dollar has no price in ether.
displayValue(value, kind, rate, unit) ==
    CASE unit = "usd" -> toUsd(value, kind, rate)
      [] unit = "eth" /\ rate > 0 -> toUsd(value, kind, rate) \div rate
      [] OTHER -> IF kind = "eth" THEN value ELSE 0

netAfterGas(net, kind, gas, gasKind, rate, unit) ==
    displayValue(net, kind, rate, unit) - displayValue(gas, gasKind, rate, unit)

posNet(p, rate, unit) ==
    netAfterGas(p.fees + p.price + p.il, p.kind, p.gas, p.gasKind, rate, unit)

\* A position whose every amount is as good in either unit.
Convertible(p, rate) ==
    /\ p.kind \in Units /\ p.gasKind \in Units
    /\ \A value \in {p.fees, p.price, p.il} : Divided(value, p.kind, rate)
    /\ Divided(p.gas, p.gasKind, rate)

\* One position as the bar and the calendar add it up.
Item(p, rate, unit) ==
    [tokenId |-> p.tokenId, closedAt |-> p.closedAt,
     net |-> posNet(p, rate, unit),
     fees |-> displayValue(p.fees, p.kind, rate, unit),
     price |-> displayValue(p.price, p.kind, rate, unit),
     il |-> displayValue(p.il, p.kind, rate, unit),
     gas |-> displayValue(p.gas, p.gasKind, rate, unit)]

Items(ps, rate, unit) == {Item(p, rate, unit) : p \in ps}

Added(items) == [t \in Terms |-> SumFunction([i \in items |-> i[t]])]

\* The degraded positions, and whether a total of them is to be marked.
provisionalTotals(ps) ==
    [fees |-> {p.tokenId : p \in {q \in ps : ~q.feesComplete}},
     price |-> {p.tokenId : p \in {q \in ps : ~q.tickComplete}},
     any |-> \E p \in ps : ~p.feesComplete \/ ~p.tickComplete]

SummaryBar(ps, rate, unit) == Added(Items(ps, rate, unit))

\* The portfolio's own totals: a sum for each numeraire, gas on its own.
totalsByNumeraire(ps) ==
    [kind \in Units |->
        SumFunction([p \in {q \in ps : q.kind = kind} |-> p.fees + p.price + p.il])]

Closed(ps) == {p \in ps : ~p.open}
Month(day) == day \div DaysPerMonth

\* Mutant of bucketByDay: a later item of a day takes the place of the first.
bucketByDayLast(items) ==
    [day \in {i.closedAt : i \in items} |->
        Added({CHOOSE i \in items : i.closedAt = day})]

bucketByDay(items) ==
    [day \in {i.closedAt : i \in items} |->
        Added({i \in items : i.closedAt = day})]

\* First and last month with a close; NoMonth stands for null.
NoMonth == -1
monthRange(items) ==
    LET months == {Month(i.closedAt) : i \in items} IN
    IF items = {} THEN [min |-> NoMonth, max |-> NoMonth]
    ELSE [min |-> Min(months), max |-> Max(months)]

\* "Realized this month", and whether it is marked.
monthNet(items, ym) ==
    LET buckets == bucketByDay(items) IN
    SumFunction([day \in {d \in DOMAIN buckets : Month(d) = ym} |-> buckets[day].net])

monthProvisional(ps, ym) ==
    provisionalTotals({p \in Closed(ps) : Month(p.closedAt) = ym}).any
=============================================================================
