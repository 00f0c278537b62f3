--------------------------------- MODULE Page ---------------------------------
(***************************************************************************)
(* The page: the form and the runs it starts (App.tsx), the chart of       *)
(* SwapVolume.tsx and the responses it shares through the daily cache of   *)
(* volume.ts, and the calendar of a result.                                *)
(*                                                                         *)
(* Every await is a step of its own, so runs, rescans, effects, responses  *)
(* and clicks interleave.  A step that sets state ends with the render it  *)
(* causes: an effect one of whose dependencies changed is cleaned up (its  *)
(* `live` goes FALSE) and started again.  What a run resolves to is        *)
(* WalletScan's subject: here it is one of the portfolios its query may    *)
(* give, or an error.  The ETH price is a figure the reader may change at  *)
(* any time, and what is shown is judged at every price.                   *)
(***************************************************************************)
EXTENDS Ledger, VolumePeriods, SequencesExt

CONSTANTS
    Queries,        \* what is typed in the form
    PortfoliosOf,   \* the sets of positions each query may give
    Runs,           \* bound: the runs of the page's life, 1 .. n
    Rates,          \* ETH prices
    ThisMonth,      \* the month a calendar without a close opens on
    MaxClicks,      \* bound: what the user does
    MaxFaults       \* bound: failures of the provider

Url == (DOMAIN Candles \ {"v3", "v4"}) \cup {"llama"}
None == 0
Nothing == [run |-> None, positions |-> {}]

ASSUME PageAssumption ==
    /\ Queries # {} /\ IsFiniteSet(Runs) /\ None \notin Runs 
    /\ IsFiniteSet(DOMAIN Candles) /\ {"v3", "v4"} \subseteq DOMAIN Candles
    /\ Rates \subseteq Nat
    /\ \A q \in Queries : \A ps \in PortfoliosOf[q] :
          /\ IsFiniteSet(ps) /\ \A p, o \in ps : p.tokenId = o.tokenId => p = o
          /\ \A p \in ps : /\ p.pool \in Url \ {"llama"} /\ p.closedAt \in Nat
                           /\ \A rate \in Rates : Convertible(p, rate)
    /\ MaxClicks \in Nat /\ MaxFaults \in Nat /\ ThisMonth \in Nat

VARIABLES
    status, data, poolRefs,     \* App's state; poolRefs is {} for null and for []
    runs,                       \* stage, query and positions of each run
    panel,                      \* SwapVolume's state
    effects,                    \* its fetches that have not settled
    inFlight, loads,            \* the memo of responses, and the loads it names
    store,                      \* the responses on disk
    asked, failed, resets,      \* requests and failures by url; caches thrown away
    calendar,                   \* PnlCalendar: the month it shows, the run it opened on
    clicks

app == <<status, data, poolRefs, runs>>
volume == <<panel, effects, inFlight, loads, asked>>
vars == <<app, volume, store, failed, resets, calendar, clicks>>

NoCalendar == [ym |-> NoMonth, run |-> None]
NoVolume == [of |-> {}, gran |-> "none", covered |-> {}]

Scope(p, refs) == IF p.pinned # "" THEN p.pinned ELSE IF refs # {} THEN "pools" ELSE "chain"

Init ==
    /\ status = "idle" /\ data = Nothing /\ poolRefs = {}
    /\ runs = [r \in Runs |-> [stage |-> "unused", query |-> CHOOSE q \in Queries : TRUE, found |-> {}]]
    /\ panel = [pinned |-> "", gran |-> "week", attempt |-> 0, chain |-> "none",
                poolVol |-> NoVolume, busy |-> TRUE, error |-> FALSE]
    /\ loads = <<[url |-> "llama", state |-> "reading"]>>
    /\ inFlight = [u \in Url |-> IF u = "llama" THEN 1 ELSE None]
    /\ effects = {[kind |-> "chain", gran |-> "week", of |-> {}, loads |-> {1}, live |-> TRUE]}
    /\ store = {} /\ asked = [u \in Url |-> 0] /\ failed = [u \in Url |-> 0] /\ resets = 0
    /\ calendar = NoCalendar /\ clicks = 0

TypeOK ==
    /\ status \in {"idle", "loading", "done", "error"}
    /\ data.run \in Runs \cup {None} /\ poolRefs \subseteq Url \ {"llama"}
    /\ status = "done" => data.run # None
    /\ \A r \in Runs : runs[r].stage \in
            {"unused", "resetting", "cleared", "analyzing", "listing", "over"}
    /\ panel.chain \in Granularity \cup {"none"} /\ panel.gran \in Granularity
    /\ \A e \in effects : e.loads # {} /\ e.loads \subseteq DOMAIN loads
    /\ \A u \in Url : inFlight[u] # None => loads[inFlight[u]].url = u
    /\ store \subseteq Url

-----------------------------------------------------------------------------
(* What a render does: effects and calendar *)

\* Mutant of Missing: the memo is not looked at.
MissingAll(urls, memo) == urls

\* Of the urls that effects want, those the memo has no promise for.
Missing(urls, memo) == {u \in urls : memo[u] = None}

\* getJsonCached for some urls: the loads to begin, in the order they begin.
Begun(urls, memo) == SetToSeq(Missing(urls, memo))

\* The load of a url after some have begun: its new one, or what the memo has.
LoadAt(u, begun, memo) ==
    IF \E i \in DOMAIN begun : begun[i] = u
    THEN Len(loads) + CHOOSE i \in DOMAIN begun : begun[i] = u
    ELSE memo[u]

Begin(urls, memo) ==
    LET begun == Begun(urls, memo) IN
    /\ loads' = loads \o [i \in DOMAIN begun |-> [url |-> begun[i], state |-> "reading"]]
    /\ inFlight' = [u \in Url |-> LoadAt(u, begun, memo)]

Displayed(st, d) == st = "done" /\ d.positions # {}
CloseRange(ps) == monthRange(Items(Closed(ps), 1, "usd"))

\* Mutant of CalendarAfter: the month outlives the result it was opened on.
CalendarAfterKept(st, d) ==
    IF calendar.ym # NoMonth THEN [calendar EXCEPT !.run = d.run]
    ELSE [ym |-> IF d.run = None THEN NoMonth ELSE CloseRange(d.positions).max, run |-> d.run]

\* The calendar opens on the latest month of the result it is mounted with
\* and keeps its month while the results of other runs are put in its place.
CalendarAfter(st, d) ==
    LET last == CloseRange(d.positions).max IN
    CASE ~Displayed(st, d) -> NoCalendar
      [] Displayed(st, d) /\ calendar # NoCalendar -> calendar
      [] OTHER -> [ym |-> IF last = NoMonth THEN ThisMonth ELSE last, run |-> d.run]

\* The state of the page becomes what is given; the panel's two effects run
\* again when their dependencies changed.  The second does nothing without pools.
Render(st, d, refs, p, memo) ==
    LET Deps(q, rs) == <<rs, Scope(q, rs), q.gran, q.attempt>>
        chainAgain == p.gran # panel.gran
        poolsAgain == Deps(p, refs) # Deps(panel, poolRefs)
        poolsOn == poolsAgain /\ Scope(p, refs) = "pools" /\ refs # {}
        wants == (IF chainAgain THEN {"llama"} ELSE {}) \cup (IF poolsOn THEN refs ELSE {})
        again == (IF chainAgain THEN {"chain"} ELSE {}) \cup (IF poolsAgain THEN {"pools"} ELSE {})
    IN  /\ status' = st /\ data' = d /\ poolRefs' = refs
        /\ panel' = [p EXCEPT !.busy = @ \/ chainAgain \/ poolsOn, !.error = @ /\ ~poolsOn]
        /\ Begin(wants, memo)
        /\ effects' = {[e EXCEPT !.live = @ /\ e.kind \notin again] : e \in effects}
             \cup {[kind |-> "chain", gran |-> p.gran, of |-> {}, loads |-> {inFlight'["llama"]},
                    live |-> TRUE] : x \in {y \in {1} : chainAgain}}
             \cup {[kind |-> "pools", gran |-> p.gran, of |-> refs,
                    loads |-> {inFlight'[u] : u \in refs}, live |-> TRUE] : x \in {y \in {1} : poolsOn}}
        /\ calendar' = CalendarAfter(st, d)

-----------------------------------------------------------------------------
(* App.tsx: runs *)

Click == clicks < MaxClicks /\ clicks' = clicks + 1

\* run(): everything of the run before is taken off the page.
Start(r, q, memo) ==
    /\ runs' = [runs EXCEPT ![r] = [@ EXCEPT !.stage = "analyzing", !.query = q]]
    /\ Render("loading", Nothing, {}, panel, memo)

Unused(r) == runs[r].stage = "unused" /\ \A s \in Runs : s < r => runs[s].stage # "unused"

\* The form, or the error's retry.
Submit(r, q) ==
    /\ Click /\ status # "loading" /\ Unused(r)
    /\ Start(r, q, inFlight)
    /\ UNCHANGED <<store, asked, failed, resets>>

\* "Rescan from chain" begins by emptying the store; the form stays as it is.
Rescan(r, q) ==
    /\ Click /\ status \notin {"idle", "loading"} /\ Unused(r)
    /\ runs' = [runs EXCEPT ![r] = [@ EXCEPT !.stage = "resetting", !.query = q]]
    /\ UNCHANGED <<status, data, poolRefs, volume, store, failed, resets, calendar>>

StoreEmptied(r) ==
    /\ runs[r].stage = "resetting"
    /\ runs' = [runs EXCEPT ![r].stage = "cleared"]
    /\ store' = {} /\ resets' = resets + 1
    /\ UNCHANGED <<status, data, poolRefs, volume, failed, calendar, clicks>>

\* clearVolumeMemo() and run(), whatever the form is doing by now.
Rerun(r) ==
    /\ runs[r].stage = "cleared"
    /\ Start(r, runs[r].query, [u \in Url |-> None])
    /\ UNCHANGED <<store, asked, failed, resets, clicks>>

Analyzed(r) ==
    /\ runs[r].stage = "analyzing"
    /\ \E ps \in PortfoliosOf[runs[r].query] :
            /\ runs' = [runs EXCEPT ![r].stage = "listing", ![r].found = ps]
            /\ Render("done", [run |-> r, positions |-> ps], poolRefs, panel, inFlight)
    /\ UNCHANGED <<store, asked, failed, resets, clicks>>

\* Mutant of AnalyzeFailed: the catch says what went wrong and no more.
AnalyzeFailedUnsaid(r) ==
    /\ runs[r].stage = "analyzing"
    /\ runs' = [runs EXCEPT ![r].stage = "over"]
    /\ UNCHANGED <<status, data, poolRefs, volume, store, failed, resets, calendar, clicks>>

\* "error" stands for "chain-not-configured" too, which only words it differently.
AnalyzeFailed(r) ==
    /\ runs[r].stage = "analyzing"
    /\ runs' = [runs EXCEPT ![r].stage = "over"]
    /\ Render("error", data, poolRefs, panel, inFlight)
    /\ UNCHANGED <<store, asked, failed, resets, clicks>>

\* poolRefsFor has answered, whichever run is on the page by now: the pools of
\* its positions, but for those the factory would not name.
Listed(r) ==
    /\ runs[r].stage = "listing"
    /\ runs' = [runs EXCEPT ![r].stage = "over", ![r].found = {}]
    /\ \E refs \in SUBSET {p.pool : p \in runs[r].found} :
            Render(status, data, refs, panel, inFlight)
    /\ UNCHANGED <<store, asked, failed, resets, clicks>>

-----------------------------------------------------------------------------
(* App.tsx: the calendar's buttons *)

go(delta) ==
    LET range == CloseRange(data.positions)
        n == calendar.ym + delta
    IN  /\ calendar # NoCalendar /\ range.max # NoMonth
        /\ range.min <= n /\ n <= range.max
        /\ calendar' = [calendar EXCEPT !.ym = n]
        /\ UNCHANGED <<app, volume, store, failed, resets, clicks>>

-----------------------------------------------------------------------------
(* SwapVolume.tsx *)

PanelClick(p) ==
    /\ Click /\ p # panel
    /\ Render(status, data, poolRefs, p, inFlight)
    /\ UNCHANGED <<runs, store, asked, failed, resets>>

SetGran(g) == PanelClick([panel EXCEPT !.gran = g])

SetPinned(scope) ==
    /\ scope = "pools" => poolRefs # {}
    /\ PanelClick([panel EXCEPT !.pinned = scope])

\* "load the rest", under a chart of pools with some missing.
retry ==
    /\ ~panel.busy /\ Scope(panel, poolRefs) = "pools"
    /\ panel.poolVol.of # panel.poolVol.covered
    /\ PanelClick([panel EXCEPT !.attempt = @ + 1])

Settled(e) == \A l \in e.loads : loads[l].state \in {"ok", "failed"}

\* Mutant of Heard: an answer is shown though its effect was cleaned up.
HeardAlways(e) == TRUE

Heard(e) == e.live

\* A fetch of the panel settles.  The fetch of pools gives what it could read;
\* the fetch for the chain has one response, and fails with it.
Settle(e) ==
    LET ok == {l \in e.loads : loads[l].state = "ok"} IN
    /\ Settled(e)
    /\ effects' = effects \ {e}
    /\ panel' =
         CASE ~Heard(e) -> panel
           [] Heard(e) /\ e.kind = "pools" ->
                [panel EXCEPT !.busy = FALSE, !.poolVol =
                    [of |-> e.of, gran |-> e.gran, covered |-> {loads[l].url : l \in ok}]]
           [] Heard(e) /\ e.kind = "chain" /\ ok # {} ->
                [panel EXCEPT !.busy = FALSE, !.chain = e.gran]
           [] OTHER -> [panel EXCEPT !.busy = FALSE, !.error = TRUE]
    /\ UNCHANGED <<app, inFlight, loads, store, asked, failed, resets, calendar, clicks>>

-----------------------------------------------------------------------------
(* volume.ts: getJsonCached *)

LoadIs(l, st) == loads' = [loads EXCEPT ![l].state = st]

\* The store has it of today, or the provider is asked.
ReadStore(l) ==
    LET u == loads[l].url IN
    /\ loads[l].state = "reading"
    /\ IF u \in store
       THEN LoadIs(l, "ok") /\ UNCHANGED asked
       ELSE LoadIs(l, "asking") /\ asked' = [asked EXCEPT ![u] = @ + 1]
    /\ UNCHANGED <<app, panel, effects, inFlight, store, failed, resets, calendar, clicks>>

Respond(l) ==
    /\ loads[l].state = "asking" /\ LoadIs(l, "ok")
    /\ store' = store \cup {loads[l].url}
    /\ UNCHANGED <<app, panel, effects, inFlight, asked, failed, resets, calendar, clicks>>

\* Whatever promise the memo has for the url goes.
Forgotten(u) == [inFlight EXCEPT ![u] = None]

Fail(l) ==
    LET u == loads[l].url IN
    /\ loads[l].state = "asking" /\ LoadIs(l, "failed")
    /\ SumFunction(failed) < MaxFaults
    /\ failed' = [failed EXCEPT ![u] = @ + 1]
    /\ inFlight' = Forgotten(u)
    /\ UNCHANGED <<app, panel, effects, store, asked, resets, calendar, clicks>>

Idle ==
    /\ \A r \in Runs : runs[r].stage \in {"unused", "over"}
    /\ effects = {}
    /\ \A l \in DOMAIN loads : loads[l].state \in {"ok", "failed"}
    /\ UNCHANGED vars

Next ==
    \/ \E r \in Runs, q \in Queries : Submit(r, q) \/ Rescan(r, q)
    \/ \E r \in Runs : StoreEmptied(r) \/ Rerun(r) \/ Analyzed(r) \/ AnalyzeFailed(r) \/ Listed(r)
    \/ \E delta \in {-1, 1} : go(delta)
    \/ \E g \in Granularity : SetGran(g)
    \/ \E scope \in {"pools", "chain"} : SetPinned(scope)
    \/ retry
    \/ \E e \in effects : Settle(e)
    \/ \E l \in DOMAIN loads : ReadStore(l) \/ Respond(l) \/ Fail(l)
    \/ Idle

Spec == Init /\ [][Next]_vars

\* A run's reads come to an end: each is tried a few times, and given up.
FairSpec == Spec /\ \A r \in Runs : WF_vars(Analyzed(r) \/ AnalyzeFailed(r))

-----------------------------------------------------------------------------

\* A settled chart is of what is selected: of the page's pools at the chosen
\* granularity, or of the chain at that granularity unless its provider failed.
\* (SwapVolume.tsx:103, 125: an effect that was cleaned up says nothing.)  The page has
\* to have pools: with the scope pinned to them and none there, because a run has just
\* begun or its wallet has none, the effect returns early (SwapVolume.tsx:108) and the
\* chart of the pools before them stays, at its granularity, as "your pools".
SettledIsCurrent ==
    LET live == {e \in effects : e.live} IN
    IF Scope(panel, poolRefs) = "pools"
    THEN poolRefs # {} /\ (\A e \in live : e.kind # "pools")
            => panel.poolVol.of = poolRefs /\ panel.poolVol.gran = panel.gran
    ELSE failed["llama"] = 0 /\ (\A e \in live : e.kind # "chain") => panel.chain = panel.gran

\* However often the chart is asked for, a response is fetched once a day,
\* once more for each failure and each rescan: what "load the rest" promises
\* (SwapVolume.tsx:286).
OneRequestADay == \A u \in Url : asked[u] <= 1 + failed[u] + resets

\* A chart that is asked for after a failure can still be had: the memo never
\* answers with a load that failed (volume.ts:356).
NoFailureKept == \A u \in Url : inFlight[u] # None => loads[inFlight[u]].state # "failed"

\* A bar accounts for its headline in either unit, its views agree, and it says
\* what the portfolio's totals say.
BarAdds(ps, rate) ==
    LET bar == [unit \in Units |-> SummaryBar(ps, rate, unit)]
        totals == totalsByNumeraire(ps)
    IN  /\ \A u \in Units : bar[u].net = bar[u].fees + bar[u].price + bar[u].il - bar[u].gas
        /\ rate > 0 => \A t \in Terms : bar["eth"][t] * rate = bar["usd"][t]
        /\ bar["usd"].net + bar["usd"].gas = totals["usd"] + totals["eth"] * rate

\* Months add up to the bar of what is closed, and are marked as it is.
MonthsAdd(ps, rate) ==
    LET items == Items(Closed(ps), rate, "usd")
        months == monthRange(items).min .. monthRange(items).max
    IN  /\ SumFunction([ym \in months |-> monthNet(items, ym)])
             = SummaryBar(Closed(ps), rate, "usd").net
        /\ provisionalTotals(Closed(ps)).any <=> \E ym \in months : monthProvisional(ps, ym)

Portfolios == (UNION {PortfoliosOf[q] : q \in Queries}) \cup {{}}
Adding == {ps \in Portfolios : \A rate \in Rates : BarAdds(ps, rate)}
Matching == {ps \in Portfolios : Closed(ps) = {} \/ \A rate \in Rates : MonthsAdd(ps, rate)}

\* The bar of the result on the page adds up, whatever the ETH price
\* (App.tsx:430).
BarAddsUp == data.positions \in Adding

\* The months of its calendar add up to what the bar makes of the positions
\* that are closed, and are marked exactly as those are (App.tsx:321).
MonthsMatchBar == data.positions \in Matching

\* The calendar shows a month from which every close of its result can be
\* reached, as long as no other run has put its result in that one's place.
MonthInRange ==
    LET range == CloseRange(data.positions) IN
    calendar # NoCalendar /\ calendar.run = data.run /\ range.max # NoMonth
        => range.min <= calendar.ym /\ calendar.ym <= range.max

\* What the page holds between two events is whole: its responses can be had, its
\* calendar can be walked.
PageSound == TypeOK /\ NoFailureKept /\ MonthInRange

\* The candles of a series that lie fewer than n periods before the latest volume of
\* any series charted with it.
Recent(s, series, g, n) ==
    {c \in Counted(Candles[s]) :
        \A o \in series : \A d \in Counted(Candles[o]) :
            d.value > 0 => periodKey(d.ts, g) - periodKey(c.ts, g) < n * Step(g)}

\* Whether the last n points of some series hold all the volume of the last n periods.
Whole(series, g, n) ==
    LET points == Points(series, g) IN
    SumFunction([k \in Shown(points, n) |-> points[k]])
        = SumFunction([s \in series |-> Total(Recent(s, series, g, n))])

Charts == [series : SUBSET DOMAIN Candles, gran : Granularity, cut : Granularity]
WholeCharts ==
    {<<c.series, c.gran, c.cut>> : c \in {d \in Charts : Whole(d.series, d.gran, MAX_POINTS[d.cut])}}

\* The chart on the page, with its table, holds the volume that was read of every pool
\* for the last MAX_POINTS[gran] days or weeks, up to the latest with any: no period in
\* between is missing from the axis, none of the last ones is cut off with the empty end,
\* and the cut reaches no less far back than that (volume.ts:102, SwapVolume.tsx:158-164).
\* What is older is on the page nowhere, whatever SwapVolume.tsx:33 says of the table.
RecentVolumeShown ==
    LET pools == Scope(panel, poolRefs) = "pools"
        series == IF pools THEN panel.poolVol.covered ELSE {"v3", "v4"}
        gran == IF pools THEN panel.poolVol.gran ELSE panel.chain
    IN  gran # "none" => <<series, gran, panel.gran>> \in WholeCharts

\* An effect that was cleaned up leaves nothing behind: with no fetch of the
\* panel under way the chart is not shown as if one were.
IdleIsNotBusy == (\A e \in effects : ~e.live) => ~panel.busy

\* A run that was started always leaves the page with a result or an error.
LoadingEnds == status = "loading" ~> status # "loading"
=============================================================================
