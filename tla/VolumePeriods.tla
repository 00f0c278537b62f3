----------------------------- MODULE VolumePeriods -----------------------------
(***************************************************************************)
(* The arithmetic of web/src/lib/volume.ts and SwapVolume.tsx between a    *)
(* provider's daily candles and the points of the chart: UTC days and      *)
(* weeks, sums per period, the axis without gaps, the empty ends cut off.  *)
(*                                                                         *)
(* A candle is [ts, value], its ts the number of days since 1970-01-01, a  *)
(* Thursday.  A period is named by its first day, as its key does.         *)
(***************************************************************************)
EXTENDS Integers, FiniteSetsExt, Functions

CONSTANTS
    Candles,        \* what the provider has for each series
    MAX_POINTS      \* the most points of a chart, by granularity

Granularity == {"day", "week"}

ASSUME VolumePeriodsAssumption ==
    /\ \A s \in DOMAIN Candles :
          IsFiniteSet(Candles[s]) /\ \A c \in Candles[s] : c.ts \in Nat /\ c.value \in Int
    /\ MAX_POINTS \in [Granularity -> Nat \ {0}]

Step(g) == IF g = "week" THEN 7 ELSE 1

\* The Monday that starts the UTC week of a day.
weekKeyUTC(ts) == ts - ((ts + 3) % 7)
periodKey(ts, g) == IF g = "week" THEN weekKeyUTC(ts) ELSE ts

\* Mutant of periodSpan: the last period is left out.
periodSpanShort(first, last, g) ==
    {periodKey(t, g) : t \in {u \in first .. last - 1 : (u - first) % Step(g) = 0}}

\* Every period from the first to the last.
periodSpan(first, last, g) ==
    {periodKey(t, g) : t \in {u \in first .. last : (u - first) % Step(g) = 0}}

Total(candles) == SumFunction([c \in candles |-> c.value])
Counted(candles) == {c \in candles : c.value >= 0}

\* A series by period; a candle with a negative value is dropped.
bucketBy(candles, g) ==
    [k \in {periodKey(c.ts, g) : c \in Counted(candles)} |->
        Total({c \in Counted(candles) : periodKey(c.ts, g) = k})]

Value(buckets, k) == IF k \in DOMAIN buckets THEN buckets[k] ELSE 0

\* The points of some series over the span of them all: a total for a period.
Points(series, g) ==
    LET per == [s \in series |-> bucketBy(Candles[s], g)]
        keys == UNION {DOMAIN per[s] : s \in series}
    IN  IF keys = {} THEN << >>
        ELSE [k \in periodSpan(Min(keys), Max(keys), g) |->
                 SumFunction([s \in series |-> Value(per[s], k)])]

\* The periods without the empty ones at the ends.
Trimmed(points) ==
    LET full == {k \in DOMAIN points : points[k] > 0} IN
    IF full = {} THEN {} ELSE {k \in DOMAIN points : Min(full) <= k /\ k <= Max(full)}

\* What chart and table show of them: the last n.
Shown(points, n) ==
    {k \in Trimmed(points) : Cardinality({j \in Trimmed(points) : j > k}) < n}
=============================================================================
