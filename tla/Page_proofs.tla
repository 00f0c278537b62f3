------------------------------ MODULE Page_proofs ------------------------------
(***************************************************************************)
(* Proofs about Page: what it holds between two events is whole, a settled *)
(* chart is of what is selected, a response is asked for once a day, and   *)
(* the figures add up: the headline and its parts, the days of a month,    *)
(* the bars of the chart.  The facts about sums are those of Library_proofs.  *)
(***************************************************************************)
EXTENDS Page, Library_proofs, SequenceTheorems

Pools == Url \ {"llama"}
LoadStates == {"reading", "asking", "ok", "failed"}
Stages == {"unused", "resetting", "cleared", "analyzing", "listing", "over"}

Panel == [pinned : {"", "pools", "chain"}, gran : Granularity, attempt : Nat,
          chain : Granularity \cup {"none"},
          poolVol : [of : SUBSET Pools, gran : Granularity \cup {"none"}, covered : SUBSET Pools],
          busy : BOOLEAN, error : BOOLEAN]

\* What the app holds has its type.
AppTyped ==
    /\ status \in {"idle", "loading", "done", "error"}
    /\ data.run \in Runs \cup {None} /\ data.positions \in Portfolios
    /\ status = "done" => data.run # None
    /\ poolRefs \subseteq Pools
    /\ runs \in [Runs -> [stage : Stages, query : Queries, found : Portfolios]]
    /\ panel \in Panel
    /\ store \subseteq Url

\* What the memo and the panel's fetches have of the loads.
MemoOf(memo) ==
    \A u \in Url : memo[u] # None =>
        memo[u] \in DOMAIN loads /\ loads[memo[u]].url = u /\ loads[memo[u]].state # "failed"

LoadsTyped ==
    /\ loads \in Seq([url : Url, state : LoadStates])
    /\ inFlight \in [Url -> Nat] /\ MemoOf(inFlight)
    /\ effects \subseteq [kind : {"chain", "pools"}, gran : Granularity, of : SUBSET Pools,
                          loads : SUBSET Nat, live : BOOLEAN]
    /\ \A e \in effects :
          /\ e.loads # {} /\ e.loads \subseteq DOMAIN loads
          /\ e.kind = "chain" => \A l \in e.loads : loads[l].url = "llama"
          /\ e.kind = "pools" => \A l \in e.loads : loads[l].url \in Pools
    /\ failed \in [Url -> Nat]
    /\ \A l \in DOMAIN loads : loads[l].state = "failed" => failed[loads[l].url] > 0

\* The fetches that are heard are for what is selected; what is selected is shown, or
\* fetched, or could not be.
Live(kind) == {e \in effects : e.live /\ e.kind = kind}

Charted ==
    /\ \A e \in Live("chain") : e.gran = panel.gran
    /\ \A e \in Live("pools") : e.gran = panel.gran /\ e.of = poolRefs
    /\ Live("chain") # {} \/ failed["llama"] > 0 \/ panel.chain = panel.gran
    /\ Scope(panel, poolRefs) = "pools" /\ poolRefs # {} =>
          \/ Live("pools") # {}
          \/ panel.poolVol.of = poolRefs /\ panel.poolVol.gran = panel.gran

\* The results on the page, and under its calendar, are of runs that had them.
Reported == {"listing", "over"}

Dated ==
    /\ MonthInRange
    /\ calendar \in [ym : Int, run : Runs \cup {None}]
    /\ \A r \in {data.run, calendar.run} \ {None} : runs[r].stage \in Reported

\* A response has no more loads than it may be asked for, the next one included if there
\* may be one, and those to come when the runs that emptied the store go on.
LoadsOf(u) == {l \in DOMAIN loads : loads[l].url = u}
AskedOf(u) == {l \in LoadsOf(u) : loads[l].state # "reading"}
Cleared == {r \in Runs : runs[r].stage = "cleared"}
Room(memo, u) == IF memo[u] = None THEN 1 ELSE 0

Spent ==
    /\ asked \in [Url -> Nat] /\ resets \in Nat
    /\ \A u \in Url :
          /\ asked[u] <= Cardinality(AskedOf(u))
          /\ Cardinality(LoadsOf(u)) + Room(inFlight, u) + Cardinality(Cleared)
                <= 1 + failed[u] + resets

IInv == AppTyped /\ LoadsTyped /\ Charted /\ Dated /\ Spent

-----------------------------------------------------------------------------
(* Sequences *)

\* A finite set as a sequence has each of its members once.
LEMMA Sequenced ==
    ASSUME NEW S, IsFiniteSet(S)
    PROVE  /\ SetToSeq(S) \in Seq(S)
           /\ \A i, j \in DOMAIN SetToSeq(S) : SetToSeq(S)[i] = SetToSeq(S)[j] => i = j
           /\ \A x \in S : \E i \in DOMAIN SetToSeq(S) : SetToSeq(S)[i] = x
<1> DEFINE n == Cardinality(S)
           f == SetToSeq(S)
<1>1. n \in Nat /\ ExistsBijection(1 .. n, S)
  BY FS_CardinalityType
<1>2. \E g \in [1 .. n -> S] : IsInjective(g)
  BY <1>1 DEF ExistsBijection, Bijection, Injection, IsInjective
<1>3. f \in [1 .. n -> S] /\ IsInjective(f)
  BY <1>2 DEF SetToSeq
<1> HIDE DEF f
<1>4. f \in Injection(1 .. n, S)
  BY <1>3 DEF Injection, IsInjective
<1>5. Cardinality(1 .. n) = n
  BY <1>1, FS_Interval
<1>6. f \in Surjection(1 .. n, S)
  BY <1>4, <1>5, FS_Injection
<1>7. /\ f \in Seq(S)
      /\ \A i, j \in DOMAIN f : f[i] = f[j] => i = j
      /\ \A x \in S : \E i \in DOMAIN f : f[i] = x
  BY <1>1, <1>3, <1>6 DEF IsInjective, Surjection
<1> QED BY <1>7 DEF f

-----------------------------------------------------------------------------
(* The loads that a render begins *)

LEMMA UrlsFinite == IsFiniteSet(Url) /\ "llama" \in Url
<1>1. IsFiniteSet(DOMAIN Candles \ {"v3", "v4"})
  BY PageAssumption, FS_Subset
<1> QED BY <1>1, FS_Singleton, FS_Union DEF Url

\* The loads begun for some urls are one for each that the memo has none of.
LEMMA BegunLoads ==
    ASSUME NEW urls, urls \subseteq Url, NEW memo
    PROVE  LET begun == Begun(urls, memo) IN
           /\ begun \in Seq(Url)
           /\ \A i, j \in DOMAIN begun : begun[i] = begun[j] => i = j
           /\ \A i \in DOMAIN begun : begun[i] \in urls /\ memo[begun[i]] = None
           /\ \A u \in urls : memo[u] = None => \E i \in DOMAIN begun : begun[i] = u
<1> DEFINE S == Missing(urls, memo)
           begun == SetToSeq(S)
<1>1. IsFiniteSet(S) /\ S \subseteq Url /\ S \subseteq urls
  BY UrlsFinite, FS_Subset DEF Missing
<1>2. \A u \in Url : u \in S <=> u \in urls /\ memo[u] = None
  BY DEF Missing
<1> HIDE DEF S
<1>3. /\ begun \in Seq(S)
      /\ \A i, j \in DOMAIN begun : begun[i] = begun[j] => i = j
      /\ \A x \in S : \E i \in DOMAIN begun : begun[i] = x
  BY <1>1, Sequenced
<1> HIDE DEF begun
<1>4. \A i \in DOMAIN begun : begun[i] \in S
  BY <1>3
<1>5. begun \in Seq(Url)
  BY <1>1, <1>3
<1>6. begun = Begun(urls, memo)
  BY DEF Begun, S, begun
<1> QED BY <1>1, <1>2, <1>3, <1>4, <1>5, <1>6

\* What that is to the rest: loads go on where they were, each url asked for has one, and
\* one that got a new one had none in the memo.
LEMMA LoadsBegin ==
    ASSUME LoadsTyped, NEW urls, urls \subseteq Url, NEW memo \in [Url -> Nat], MemoOf(memo),
           Begin(urls, memo)
    PROVE  /\ loads' \in Seq([url : Url, state : LoadStates])
           /\ DOMAIN loads \subseteq DOMAIN loads'
           /\ \A l \in DOMAIN loads : loads'[l] = loads[l]
           /\ \A l \in DOMAIN loads' \ DOMAIN loads :
                 /\ loads'[l].state = "reading" /\ memo[loads'[l].url] = None
                 /\ inFlight'[loads'[l].url] = l
           /\ inFlight' \in [Url -> Nat] /\ MemoOf(inFlight)'
           /\ \A u \in Url : memo[u] # None => inFlight'[u] = memo[u]
           /\ \A u \in urls : inFlight'[u] \in DOMAIN loads'
<1> DEFINE begun == Begun(urls, memo)
           new == [i \in DOMAIN begun |-> [url |-> begun[i], state |-> "reading"]]
           Entry == [url : Url, state : LoadStates]
           n == Len(loads)
           m == Len(begun)
<1>1. /\ begun \in Seq(Url)
      /\ \A i, j \in DOMAIN begun : begun[i] = begun[j] => i = j
      /\ \A i \in DOMAIN begun : begun[i] \in urls /\ memo[begun[i]] = None
      /\ \A u \in urls : memo[u] = None => \E i \in DOMAIN begun : begun[i] = u
  BY BegunLoads
<1>2. loads \in Seq(Entry) /\ n \in Nat /\ DOMAIN loads = 1 .. n
  BY DEF LoadsTyped
<1>3. /\ loads' = loads \o new
      /\ inFlight' = [u \in Url |-> LoadAt(u, begun, memo)]
  BY DEF Begin
<1> HIDE DEF begun
<1>4. m \in Nat /\ DOMAIN begun = 1 .. m /\ \A i \in 1 .. m : begun[i] \in Url
  BY <1>1
<1>5. new \in Seq(Entry) /\ Len(new) = m
  <2>1. new \in [1 .. m -> Entry]
    BY <1>4 DEF LoadStates
  <2> HIDE DEF new, Entry
  <2> QED BY <2>1, <1>4
<1>6. \A i \in 1 .. m : new[i].url = begun[i] /\ new[i].state = "reading"
  BY <1>4
<1> HIDE DEF new, Entry, m, n
<1>7. /\ loads' \in Seq(Entry) /\ Len(loads') = n + m
      /\ \A l \in 1 .. n + m : loads'[l] = IF l <= n THEN loads[l] ELSE new[l - n]
  <2>1. /\ loads \o new \in Seq(Entry) /\ Len(loads \o new) = Len(loads) + Len(new)
        /\ \A l \in 1 .. Len(loads) + Len(new) :
              (loads \o new)[l] = IF l <= Len(loads) THEN loads[l] ELSE new[l - Len(loads)]
    BY <1>2, <1>5, ConcatProperties, Zenon
  <2> QED BY <1>3, <1>5, <2>1 DEF n
<1>8. DOMAIN loads' = 1 .. n + m /\ DOMAIN loads \subseteq DOMAIN loads'
  BY <1>2, <1>4, <1>7
<1>9. \A l \in DOMAIN loads : loads'[l] = loads[l]
  BY <1>2, <1>4, <1>7
<1>10. \A i \in 1 .. m : n + i \in 1 .. n + m /\ loads'[n + i] = new[i]
  BY <1>2, <1>4, <1>7
\* The load of a url that has begun.
<1>11. ASSUME NEW i \in 1 .. m PROVE inFlight'[begun[i]] = n + i
  <2> DEFINE k == CHOOSE j \in DOMAIN begun : begun[j] = begun[i]
  <2>1. k \in DOMAIN begun /\ begun[k] = begun[i]
    BY <1>4
  <2>2. k = i
    BY <2>1, <1>1, <1>4
  <2>3. LoadAt(begun[i], begun, memo) = n + k
    BY <1>4 DEF LoadAt, n
  <2> QED BY <2>2, <2>3, <1>3, <1>4
<1>12. ASSUME NEW u \in Url, \A i \in 1 .. m : begun[i] # u PROVE inFlight'[u] = memo[u]
  BY <1>3, <1>4, <1>12 DEF LoadAt
<1>13. \A l \in DOMAIN loads' \ DOMAIN loads :
          /\ loads'[l].state = "reading" /\ memo[loads'[l].url] = None
          /\ inFlight'[loads'[l].url] = l
  <2> SUFFICES ASSUME NEW l \in DOMAIN loads' \ DOMAIN loads
               PROVE  /\ loads'[l].state = "reading" /\ memo[loads'[l].url] = None
                      /\ inFlight'[loads'[l].url] = l
    OBVIOUS
  <2>1. PICK i \in 1 .. m : l = n + i
    <3>1. l \in n + 1 .. n + m
      BY <1>2, <1>8
    <3>2. l - n \in 1 .. m /\ l = n + (l - n)
      BY <3>1, <1>2, <1>4
    <3> QED BY <3>2
  <2> QED BY <2>1, <1>1, <1>4, <1>6, <1>10, <1>11
<1>14. ASSUME NEW u \in Url
       PROVE  /\ inFlight'[u] \in Nat
              /\ inFlight'[u] # None =>
                    /\ inFlight'[u] \in DOMAIN loads' /\ loads'[inFlight'[u]].url = u
                    /\ loads'[inFlight'[u]].state # "failed"
              /\ memo[u] # None => inFlight'[u] = memo[u]
              /\ u \in urls => inFlight'[u] \in DOMAIN loads'
  <2>1. CASE \E i \in 1 .. m : begun[i] = u
    <3>1. PICK i \in 1 .. m : begun[i] = u
      BY <2>1
    <3>2. inFlight'[u] = n + i /\ memo[u] = None
      BY <3>1, <1>1, <1>4, <1>11
    <3>3. n + i \in Nat /\ n + i \in DOMAIN loads'
      BY <1>2, <1>4, <1>8, <1>10
    <3> QED BY <3>1, <3>2, <3>3, <1>6, <1>10
  <2>2. CASE ~ \E i \in 1 .. m : begun[i] = u
    <3>1. inFlight'[u] = memo[u] /\ memo[u] \in Nat
      BY <2>2, <1>12
    <3>2. memo[u] # None =>
             memo[u] \in DOMAIN loads /\ loads[memo[u]].url = u /\ loads[memo[u]].state # "failed"
      BY DEF MemoOf
    <3>3. u \in urls => memo[u] # None
      BY <2>2, <1>1, <1>4
    <3> QED BY <3>1, <3>2, <3>3, <1>8, <1>9
  <2> QED BY <2>1, <2>2
<1>15. inFlight' \in [Url -> Nat] /\ MemoOf(inFlight)'
  BY <1>3, <1>14 DEF MemoOf
<1> QED BY <1>7, <1>8, <1>9, <1>13, <1>14, <1>15 DEF Entry

-----------------------------------------------------------------------------
(* A render *)

\* What a render is given: a panel that differs in what the user chose, and a memo.
Given(p, refs, memo) ==
    /\ p \in Panel /\ p.chain = panel.chain /\ p.poolVol = panel.poolVol
    /\ refs \subseteq Pools
    /\ memo \in [Url -> Nat] /\ MemoOf(memo)

chainAgain(p) == p.gran # panel.gran
Deps(q, rs) == <<rs, Scope(q, rs), q.gran, q.attempt>>
poolsAgain(p, refs) == Deps(p, refs) # Deps(panel, poolRefs)
poolsOn(p, refs) == poolsAgain(p, refs) /\ Scope(p, refs) = "pools" /\ refs # {}
Wants(p, refs) ==
    (IF chainAgain(p) THEN {"llama"} ELSE {}) \cup (IF poolsOn(p, refs) THEN refs ELSE {})

ChainFetch(p) == [kind |-> "chain", gran |-> p.gran, of |-> {}, loads |-> {inFlight'["llama"]},
                  live |-> TRUE]
PoolsFetch(p, refs) == [kind |-> "pools", gran |-> p.gran, of |-> refs,
                        loads |-> {inFlight'[u] : u \in refs}, live |-> TRUE]

\* The fetches there are after a render, one by one.
LEMMA RenderEffects ==
    ASSUME LoadsTyped, NEW st, NEW d, NEW refs, NEW p, NEW memo, Given(p, refs, memo),
           Render(st, d, refs, p, memo)
    PROVE  /\ status' = st /\ data' = d /\ poolRefs' = refs /\ calendar' = CalendarAfter(st, d)
           /\ panel' \in Panel /\ panel'.chain = p.chain /\ panel'.gran = p.gran
           /\ panel'.poolVol = p.poolVol /\ panel'.pinned = p.pinned
           /\ Begin(Wants(p, refs), memo) /\ Wants(p, refs) \subseteq Url
           /\ \A e \in effects' :
                 \/ \E f \in effects : /\ e.kind = f.kind /\ e.gran = f.gran /\ e.of = f.of
                                       /\ e.loads = f.loads /\ e.live \in BOOLEAN
                                       /\ e.live => f.live
                                       /\ e.live /\ f.kind = "chain" => ~chainAgain(p)
                                       /\ e.live /\ f.kind = "pools" => ~poolsAgain(p, refs)
                                       /\ e = [kind |-> f.kind, gran |-> f.gran, of |-> f.of,
                                               loads |-> f.loads, live |-> e.live]
                 \/ chainAgain(p) /\ e = ChainFetch(p)
                 \/ poolsOn(p, refs) /\ e = PoolsFetch(p, refs)
           /\ \A f \in effects :
                 f.live /\ (f.kind = "chain" => ~chainAgain(p)) /\ (f.kind = "pools" => ~poolsAgain(p, refs))
                   => f \in effects'
           /\ chainAgain(p) => ChainFetch(p) \in effects'
           /\ poolsOn(p, refs) => PoolsFetch(p, refs) \in effects'
<1> DEFINE again == (IF chainAgain(p) THEN {"chain"} ELSE {}) \cup
                    (IF poolsAgain(p, refs) THEN {"pools"} ELSE {})
           Kept(f) == [f EXCEPT !.live = @ /\ f.kind \notin again]
           old == {Kept(f) : f \in effects}
           one == {ChainFetch(p) : x \in {y \in {1} : chainAgain(p)}}
           two == {PoolsFetch(p, refs) : x \in {y \in {1} : poolsOn(p, refs)}}
<1>1. /\ status' = st /\ data' = d /\ poolRefs' = refs /\ calendar' = CalendarAfter(st, d)
      /\ Begin(Wants(p, refs), memo)
  BY DEF Render, Wants, chainAgain, poolsAgain, poolsOn, Deps
<1>2. panel' = [p EXCEPT !.busy = @ \/ chainAgain(p) \/ poolsOn(p, refs),
                        !.error = @ /\ ~poolsOn(p, refs)]
  BY DEF Render, chainAgain, poolsAgain, poolsOn, Deps
<1>3. effects' = old \cup one \cup two
  BY DEF Render, chainAgain, poolsAgain, poolsOn, Deps, ChainFetch, PoolsFetch
<1>4. /\ panel' \in Panel /\ panel'.chain = p.chain /\ panel'.gran = p.gran
      /\ panel'.poolVol = p.poolVol /\ panel'.pinned = p.pinned
  BY <1>2 DEF Given, Panel
<1>5. Wants(p, refs) \subseteq Url
  BY UrlsFinite DEF Given, Wants, Pools
<1>6. ASSUME NEW f \in effects
      PROVE  /\ Kept(f).kind = f.kind /\ Kept(f).gran = f.gran /\ Kept(f).of = f.of
             /\ Kept(f).loads = f.loads /\ Kept(f).live = (f.live /\ f.kind \notin again)
             /\ Kept(f).live \in BOOLEAN
             /\ Kept(f) = [kind |-> f.kind, gran |-> f.gran, of |-> f.of, loads |-> f.loads,
                           live |-> Kept(f).live]
             /\ f = [kind |-> f.kind, gran |-> f.gran, of |-> f.of, loads |-> f.loads,
                     live |-> f.live]
  BY DEF LoadsTyped
<1> HIDE DEF Kept
<1>7. \A f \in effects : f.live /\ f.kind \notin again => Kept(f) = f
  BY <1>6
<1>8. /\ "chain" \in again <=> chainAgain(p)
      /\ "pools" \in again <=> poolsAgain(p, refs)
  OBVIOUS
<1>8a. \A f \in effects : f.kind \in {"chain", "pools"}
  BY DEF LoadsTyped
<1> HIDE DEF again
<1>9. \A e \in one : chainAgain(p) /\ e = ChainFetch(p)
  OBVIOUS
<1>10. \A e \in two : poolsOn(p, refs) /\ e = PoolsFetch(p, refs)
  OBVIOUS
<1>11. (chainAgain(p) => ChainFetch(p) \in one) /\ (poolsOn(p, refs) => PoolsFetch(p, refs) \in two)
  OBVIOUS
<1> HIDE DEF one, two
<1>12. ASSUME NEW e \in old
       PROVE  \E f \in effects : /\ e.kind = f.kind /\ e.gran = f.gran /\ e.of = f.of
                                 /\ e.loads = f.loads /\ e.live \in BOOLEAN
                                 /\ e.live => f.live
                                 /\ e.live /\ f.kind = "chain" => ~chainAgain(p)
                                 /\ e.live /\ f.kind = "pools" => ~poolsAgain(p, refs)
                                 /\ e = [kind |-> f.kind, gran |-> f.gran, of |-> f.of,
                                         loads |-> f.loads, live |-> e.live]
  <2>1. PICK f \in effects : e = Kept(f)
    OBVIOUS
  <2>2. /\ e.kind = f.kind /\ e.gran = f.gran /\ e.of = f.of /\ e.loads = f.loads
        /\ e.live = (f.live /\ f.kind \notin again) /\ e.live \in BOOLEAN
        /\ e = [kind |-> f.kind, gran |-> f.gran, of |-> f.of, loads |-> f.loads, live |-> e.live]
    BY <2>1, <1>6
  <2>3. /\ e.live => f.live
        /\ e.live /\ f.kind = "chain" => ~chainAgain(p)
        /\ e.live /\ f.kind = "pools" => ~poolsAgain(p, refs)
    BY <2>2, <1>8
  <2> QED BY <2>2, <2>3
<1>13. ASSUME NEW f \in effects, f.live, f.kind = "chain" => ~chainAgain(p),
              f.kind = "pools" => ~poolsAgain(p, refs)
       PROVE  f \in old
  <2>1. f.kind \notin again
    BY <1>8, <1>8a, <1>13
  <2> QED BY <2>1, <1>7, <1>13
<1> HIDE DEF old
<1> QED BY <1>1, <1>3, <1>4, <1>5, <1>9, <1>10, <1>11, <1>12, <1>13

LEMMA RenderLoads ==
    ASSUME LoadsTyped, NEW st, NEW d, NEW refs, NEW p, NEW memo, Given(p, refs, memo),
           Render(st, d, refs, p, memo), UNCHANGED failed
    PROVE  LoadsTyped'
<1>1. /\ Begin(Wants(p, refs), memo) /\ Wants(p, refs) \subseteq Url
      /\ \A e \in effects' :
            \/ \E f \in effects : /\ e.kind = f.kind /\ e.loads = f.loads /\ e.live \in BOOLEAN
                                  /\ e = [kind |-> f.kind, gran |-> f.gran, of |-> f.of,
                                          loads |-> f.loads, live |-> e.live]
            \/ chainAgain(p) /\ e = ChainFetch(p)
            \/ poolsOn(p, refs) /\ e = PoolsFetch(p, refs)
  BY RenderEffects
<1>2. /\ loads' \in Seq([url : Url, state : LoadStates])
      /\ DOMAIN loads \subseteq DOMAIN loads'
      /\ \A l \in DOMAIN loads : loads'[l] = loads[l]
      /\ \A l \in DOMAIN loads' \ DOMAIN loads : loads'[l].state = "reading"
      /\ inFlight' \in [Url -> Nat] /\ MemoOf(inFlight)'
      /\ \A u \in Wants(p, refs) : inFlight'[u] \in DOMAIN loads'
  BY <1>1, LoadsBegin DEF Given
<1>3. DOMAIN loads' \subseteq Nat \ {None}
  BY <1>2 DEF None
<1> DEFINE Right(e) == /\ e \in [kind : {"chain", "pools"}, gran : Granularity, of : SUBSET Pools,
                                 loads : SUBSET Nat, live : BOOLEAN]
                       /\ e.loads # {} /\ e.loads \subseteq DOMAIN loads'
                       /\ e.kind = "chain" => \A l \in e.loads : loads'[l].url = "llama"
                       /\ e.kind = "pools" => \A l \in e.loads : loads'[l].url \in Pools
<1>4. ASSUME NEW e \in effects' PROVE Right(e)
  <2>1. ASSUME NEW f \in effects, e.kind = f.kind, e.loads = f.loads, e.live \in BOOLEAN,
               e = [kind |-> f.kind, gran |-> f.gran, of |-> f.of,
                    loads |-> f.loads, live |-> e.live]
        PROVE  Right(e)
    <3>1. /\ f.kind \in {"chain", "pools"} /\ f.gran \in Granularity /\ f.of \in SUBSET Pools
          /\ f.loads \in SUBSET Nat
          /\ f.loads # {} /\ f.loads \subseteq DOMAIN loads
          /\ f.kind = "chain" => \A l \in f.loads : loads[l].url = "llama"
          /\ f.kind = "pools" => \A l \in f.loads : loads[l].url \in Pools
      BY DEF LoadsTyped
    <3> QED BY <2>1, <3>1, <1>2
  <2>2. CASE chainAgain(p) /\ e = ChainFetch(p)
    <3>1. "llama" \in Wants(p, refs) /\ "llama" \in Url
      BY <2>2, UrlsFinite DEF Wants
    <3>2. inFlight'["llama"] \in DOMAIN loads' /\ loads'[inFlight'["llama"]].url = "llama"
      BY <1>2, <1>3, <3>1 DEF MemoOf
    <3>3. p.gran \in Granularity
      BY DEF Given, Panel
    <3> QED BY <2>2, <3>2, <3>3, <1>3 DEF ChainFetch
  <2>3. CASE poolsOn(p, refs) /\ e = PoolsFetch(p, refs)
    <3>1. refs \subseteq Wants(p, refs) /\ refs # {}
      BY <2>3 DEF Wants, poolsOn
    <3>2. p.gran \in Granularity /\ refs \subseteq Pools /\ Pools \subseteq Url
      BY DEF Given, Panel, Pools
    <3>3. \A u \in refs : inFlight'[u] \in DOMAIN loads' /\ loads'[inFlight'[u]].url = u
      BY <1>2, <1>3, <3>1, <3>2 DEF MemoOf
    <3> QED BY <2>3, <3>1, <3>3, <3>2, <1>3 DEF PoolsFetch
  <2> QED BY <1>1, <2>1, <2>2, <2>3
<1>5. failed' \in [Url -> Nat] /\ \A l \in DOMAIN loads' : loads'[l].state = "failed" => failed'[loads'[l].url] > 0
  BY <1>2 DEF LoadsTyped
<1> QED BY <1>2, <1>4, <1>5 DEF LoadsTyped

\* The panel's effects follow what is selected: the one fetch of each that is heard is the
\* one its dependencies last started.
LEMMA RenderChart ==
    ASSUME LoadsTyped, Charted, NEW st, NEW d, NEW refs, NEW p, NEW memo, Given(p, refs, memo),
           Render(st, d, refs, p, memo), UNCHANGED failed
    PROVE  Charted'
<1>1. /\ poolRefs' = refs
      /\ panel'.chain = panel.chain /\ panel'.gran = p.gran
      /\ panel'.poolVol = panel.poolVol /\ panel'.pinned = p.pinned
      /\ \A e \in effects' :
            \/ \E f \in effects : /\ e.kind = f.kind /\ e.gran = f.gran /\ e.of = f.of
                                  /\ e.live => f.live
                                  /\ e.live /\ f.kind = "chain" => ~chainAgain(p)
                                  /\ e.live /\ f.kind = "pools" => ~poolsAgain(p, refs)
            \/ chainAgain(p) /\ e = ChainFetch(p)
            \/ poolsOn(p, refs) /\ e = PoolsFetch(p, refs)
      /\ \A f \in effects :
            f.live /\ (f.kind = "chain" => ~chainAgain(p)) /\ (f.kind = "pools" => ~poolsAgain(p, refs))
              => f \in effects'
      /\ chainAgain(p) => ChainFetch(p) \in effects'
      /\ poolsOn(p, refs) => PoolsFetch(p, refs) \in effects'
  BY RenderEffects DEF Given
<1>2. /\ ChainFetch(p).kind = "chain" /\ ChainFetch(p).gran = p.gran /\ ChainFetch(p).live
      /\ PoolsFetch(p, refs).kind = "pools" /\ PoolsFetch(p, refs).gran = p.gran
      /\ PoolsFetch(p, refs).live /\ PoolsFetch(p, refs).of = refs
  BY DEF ChainFetch, PoolsFetch
<1>3. ~chainAgain(p) => p.gran = panel.gran
  BY DEF chainAgain
<1>4. ~poolsAgain(p, refs) =>
         refs = poolRefs /\ p.gran = panel.gran /\ Scope(p, refs) = Scope(panel, poolRefs)
  BY DEF poolsAgain, Deps
<1>5. Scope(panel', refs) = Scope(p, refs)
  BY <1>1 DEF Scope
<1>6. \A e \in Live("chain")' : e.gran = panel'.gran
  <2> SUFFICES ASSUME NEW e \in effects', e.live, e.kind = "chain" PROVE e.gran = p.gran
    BY <1>1 DEF Live
  <2>1. CASE e = ChainFetch(p) \/ e = PoolsFetch(p, refs)
    BY <2>1, <1>2
  <2>2. ASSUME NEW f \in effects, e.kind = f.kind, e.gran = f.gran, e.live => f.live,
               e.live /\ f.kind = "chain" => ~chainAgain(p)
        PROVE  e.gran = p.gran
    BY <2>2, <1>3 DEF Charted, Live
  <2> QED BY <1>1, <2>1, <2>2
<1>7. \A e \in Live("pools")' : e.gran = panel'.gran /\ e.of = refs
  <2> SUFFICES ASSUME NEW e \in effects', e.live, e.kind = "pools" PROVE e.gran = p.gran /\ e.of = refs
    BY <1>1 DEF Live
  <2>1. CASE e = ChainFetch(p) \/ e = PoolsFetch(p, refs)
    BY <2>1, <1>2
  <2>2. ASSUME NEW f \in effects, e.kind = f.kind, e.gran = f.gran, e.of = f.of, e.live => f.live,
               e.live /\ f.kind = "pools" => ~poolsAgain(p, refs)
        PROVE  e.gran = p.gran /\ e.of = refs
    BY <2>2, <1>4 DEF Charted, Live
  <2> QED BY <1>1, <2>1, <2>2
<1>8. Live("chain")' # {} \/ failed'["llama"] > 0 \/ panel'.chain = panel'.gran
  <2>1. CASE chainAgain(p)
    BY <2>1, <1>1, <1>2 DEF Live
  <2>2. CASE ~chainAgain(p)
    <3>1. \A f \in Live("chain") : f \in Live("chain")'
      BY <2>2, <1>1 DEF Live
    <3> QED BY <2>2, <3>1, <1>1, <1>3 DEF Charted
  <2> QED BY <2>1, <2>2
<1>9. Scope(panel', refs) = "pools" /\ refs # {} =>
         \/ Live("pools")' # {}
         \/ panel'.poolVol.of = refs /\ panel'.poolVol.gran = panel'.gran
  <2> SUFFICES ASSUME Scope(p, refs) = "pools", refs # {}
               PROVE  \/ Live("pools")' # {}
                      \/ panel'.poolVol.of = refs /\ panel'.poolVol.gran = panel'.gran
    BY <1>5
  <2>1. CASE poolsAgain(p, refs)
    <3>1. poolsOn(p, refs)
      BY <2>1 DEF poolsOn
    <3> QED BY <3>1, <1>1, <1>2 DEF Live
  <2>2. CASE ~poolsAgain(p, refs)
    <3>1. \A f \in Live("pools") : f \in Live("pools")'
      BY <2>2, <1>1 DEF Live
    <3> QED BY <2>2, <3>1, <1>1, <1>4 DEF Charted
  <2> QED BY <2>1, <2>2
<1> QED BY <1>1, <1>6, <1>7, <1>8, <1>9 DEF Charted

LEMMA LoadsFinite ==
    ASSUME LoadsTyped, NEW u
    PROVE  IsFiniteSet(LoadsOf(u)) /\ Cardinality(LoadsOf(u)) \in Nat
<1>1. DOMAIN loads = 1 .. Len(loads) /\ Len(loads) \in Nat
  BY LenProperties DEF LoadsTyped
<1>2. IsFiniteSet(DOMAIN loads)
  BY <1>1, FS_Interval
<1> QED BY <1>2, FS_Subset, FS_CardinalityType DEF LoadsOf

\* A render begins no more loads of a url than the memo leaves room for.
LEMMA RenderSpends ==
    ASSUME LoadsTyped, NEW st, NEW d, NEW refs, NEW p, NEW memo, Given(p, refs, memo),
           Render(st, d, refs, p, memo), NEW u \in Url
    PROVE  /\ AskedOf(u)' = AskedOf(u)
           /\ Cardinality(LoadsOf(u))' + Room(inFlight, u)' <= Cardinality(LoadsOf(u)) + Room(memo, u)
           /\ Cardinality(LoadsOf(u)) \in Nat /\ Cardinality(LoadsOf(u))' \in Nat
<1>1. Begin(Wants(p, refs), memo) /\ Wants(p, refs) \subseteq Url
  BY RenderEffects
<1>2. /\ loads' \in Seq([url : Url, state : LoadStates])
      /\ DOMAIN loads \subseteq DOMAIN loads'
      /\ \A l \in DOMAIN loads : loads'[l] = loads[l]
      /\ \A l \in DOMAIN loads' \ DOMAIN loads :
            /\ loads'[l].state = "reading" /\ memo[loads'[l].url] = None
            /\ inFlight'[loads'[l].url] = l
      /\ memo[u] # None => inFlight'[u] = memo[u]
  BY <1>1, LoadsBegin DEF Given
<1>3. None \notin DOMAIN loads'
  BY <1>2 DEF None
<1>4. AskedOf(u)' = AskedOf(u)
  BY <1>2 DEF AskedOf, LoadsOf
<1>5. IsFiniteSet(LoadsOf(u)) /\ Cardinality(LoadsOf(u)) \in Nat
  BY LoadsFinite
<1>6. LoadsOf(u) \subseteq LoadsOf(u)' /\ LoadsOf(u)' \subseteq LoadsOf(u) \cup {inFlight'[u]}
  BY <1>2 DEF LoadsOf
<1>7. CASE memo[u] # None \/ inFlight'[u] = None
  <2>1. \A l \in LoadsOf(u)' : l \in LoadsOf(u)
    BY <1>2, <1>3, <1>7 DEF LoadsOf
  <2>2. LoadsOf(u)' = LoadsOf(u)
    BY <2>1, <1>6
  <2>3. Room(inFlight, u)' = Room(memo, u)
    BY <1>2, <1>7 DEF Room
  <2>4. Room(memo, u) \in Int
    BY DEF Room
  <2> QED BY <2>2, <2>3, <2>4, <1>4, <1>5
<1>8. CASE memo[u] = None /\ inFlight'[u] # None
  <2>1. Room(inFlight, u)' = 0 /\ Room(memo, u) = 1
    BY <1>8 DEF Room
  <2>2. /\ IsFiniteSet(LoadsOf(u) \cup {inFlight'[u]})
        /\ Cardinality(LoadsOf(u) \cup {inFlight'[u]}) <= Cardinality(LoadsOf(u)) + 1
        /\ Cardinality(LoadsOf(u) \cup {inFlight'[u]}) \in Nat
    <3> DEFINE S == LoadsOf(u)
               x == inFlight'[u]
    <3>1. IsFiniteSet(S) /\ Cardinality(S) \in Nat
      BY <1>5
    <3> HIDE DEF S, x
    <3>2. /\ IsFiniteSet(S \cup {x})
          /\ Cardinality(S \cup {x}) = IF x \in S THEN Cardinality(S) ELSE Cardinality(S) + 1
      BY <3>1, FS_AddElement
    <3>3. IsFiniteSet(S \cup {x}) /\ Cardinality(S \cup {x}) <= Cardinality(S) + 1
          /\ Cardinality(S \cup {x}) \in Nat
      BY <3>1, <3>2
    <3> QED BY <3>3 DEF S, x
  <2>3. /\ IsFiniteSet(LoadsOf(u)')
        /\ Cardinality(LoadsOf(u)') <= Cardinality(LoadsOf(u) \cup {inFlight'[u]})
        /\ Cardinality(LoadsOf(u)') \in Nat
    BY <2>2, <1>6, FS_Subset, FS_CardinalityType
  <2> QED BY <2>1, <2>2, <2>3, <1>4, <1>5
<1> QED BY <1>7, <1>8

-----------------------------------------------------------------------------
(* The calendar of a result *)

LEMMA NoPositions == {} \in Portfolios
<1> DEFINE A == UNION {PortfoliosOf[q] : q \in Queries}
<1>1. Portfolios = A \cup {{}}
  BY DEF Portfolios
<1> HIDE DEF A
<1> QED BY <1>1

LEMMA NoMonthInt == NoMonth \in Int
BY DEF NoMonth

LEMMA PortfolioPositions ==
    ASSUME NEW ps \in Portfolios
    PROVE  IsFiniteSet(ps) /\ \A p \in ps : p.pool \in Pools /\ p.closedAt \in Nat
<1>1. CASE ps = {}
  BY <1>1, FS_EmptySet
<1>2. CASE ps # {}
  <2>1. PICK q \in Queries : ps \in PortfoliosOf[q]
    BY <1>2 DEF Portfolios
  <2> QED BY <2>1, PageAssumption DEF Pools
<1> QED BY <1>1, <1>2

\* The months of a result are from its first to its last.
LEMMA RangeEnds ==
    ASSUME NEW ps \in Portfolios
    PROVE  /\ CloseRange(ps).max \in Int
           /\ CloseRange(ps).max # NoMonth => CloseRange(ps).min <= CloseRange(ps).max
<1> DEFINE closed == Closed(ps)
           items == Items(closed, 1, "usd")
           months == {Month(i.closedAt) : i \in items}
           f == [p \in closed |-> Month(p.closedAt)]
<1>1. IsFiniteSet(closed) /\ \A p \in closed : p.closedAt \in Nat
  BY PortfolioPositions, FS_Subset DEF Closed
<1> HIDE DEF closed
<1>2. \A p \in closed : Item(p, 1, "usd").closedAt = p.closedAt
  BY DEF Item
<1>3. months = {Month(p.closedAt) : p \in closed}
  BY <1>2 DEF Items
<1>4. \A day \in Nat : Month(day) \in Nat
  BY LedgerAssumption DEF Month
<1>5. months \subseteq Nat
  BY <1>1, <1>3, <1>4
<1> HIDE DEF months
<1>6. IsFiniteSet(months)
  <2>1. f \in Surjection(closed, months)
    BY <1>3 DEF Surjection
  <2> HIDE DEF f
  <2> QED BY <2>1, <1>1, FS_Surjection
<1>7. CASE items = {}
  <2>1. CloseRange(ps) = [min |-> NoMonth, max |-> NoMonth]
    BY <1>7 DEF CloseRange, monthRange, closed
  <2>2. CloseRange(ps).max = NoMonth
    BY <2>1
  <2>3. CloseRange(ps).max \in Int
    BY <2>2, NoMonthInt
  <2> QED BY <2>2, <2>3, Zenon
<1>8. CASE items # {}
  <2>1. months # {}
    BY <1>8 DEF months
  <2>2. Min(months) \in months /\ Max(months) \in months /\ Min(months) <= Max(months)
    <3>1. months \subseteq Int
      BY <1>5
    <3>2. /\ Min(months) \in months /\ Max(months) \in months
          /\ \A x \in months : Min(months) <= x /\ x <= Max(months)
      BY <1>6, <2>1, <3>1, Ends
    <3> QED BY <3>2
  <2>3. CloseRange(ps) = [min |-> Min(months), max |-> Max(months)]
    BY <1>8 DEF CloseRange, monthRange, closed, months
  <2>4. CloseRange(ps).min = Min(months) /\ CloseRange(ps).max = Max(months)
    BY <2>3
  <2>5. Max(months) \in Nat
    BY <1>5, <2>2, Zenon
  <2> QED BY <2>2, <2>4, <2>5
<1> QED BY <1>7, <1>8

\* A calendar that stays is of the result it was opened on, or of another run's.
LEMMA CalendarStep ==
    ASSUME AppTyped, Dated, NEW st, NEW d, d.run \in Runs \cup {None}, d.positions \in Portfolios,
           st = "done" => d.run # None,
           d = data \/ calendar.run # d.run \/ ~Displayed(st, d),
           data' = d, calendar' = CalendarAfter(st, d)
    PROVE  /\ MonthInRange' /\ calendar' \in [ym : Int, run : Runs \cup {None}]
           /\ calendar'.run \in {None, calendar.run, d.run}
<1> DEFINE range == CloseRange(d.positions)
<1>1. range.max \in Int /\ (range.max # NoMonth => range.min <= range.max) /\ NoMonth \in Int
  BY RangeEnds, NoMonthInt
<1>2. MonthInRange' <=> (calendar' # NoCalendar /\ calendar'.run = d.run /\ range.max # NoMonth
                          => range.min <= calendar'.ym /\ calendar'.ym <= range.max)
  BY DEF MonthInRange
<1>3. CASE ~Displayed(st, d)
  <2>1. calendar' = NoCalendar /\ NoCalendar.run = None
    BY <1>3 DEF CalendarAfter, NoCalendar
  <2> QED BY <2>1, <1>1, <1>2 DEF NoCalendar
<1>4. CASE Displayed(st, d) /\ calendar # NoCalendar
  <2>1. calendar' = calendar
    BY <1>4 DEF CalendarAfter
  <2>2. d = data => MonthInRange'
    BY <2>1, <1>2 DEF Dated, MonthInRange
  <2>3. calendar.run # d.run => MonthInRange'
    BY <2>1, <1>2
  <2> QED BY <2>1, <2>2, <2>3, <1>4 DEF Dated
<1>5. CASE Displayed(st, d) /\ calendar = NoCalendar
  <2>1. calendar' = [ym |-> IF range.max = NoMonth THEN ThisMonth ELSE range.max, run |-> d.run]
    BY <1>5 DEF CalendarAfter
  <2> HIDE DEF range
  <2>2. calendar'.run = d.run /\ (range.max # NoMonth => calendar'.ym = range.max)
    BY <2>1
  <2>3. calendar' \in [ym : Int, run : Runs \cup {None}]
    BY <2>1, <1>1, PageAssumption
  <2> QED BY <2>2, <2>3, <1>1, <1>2
<1> QED BY <1>3, <1>4, <1>5

-----------------------------------------------------------------------------
(* The invariant begins *)

LEMMA InitIInv == Init => IInv
<1> SUFFICES ASSUME Init PROVE IInv
  OBVIOUS
<1>1. "llama" \in Url /\ IsFiniteSet(Url)
  BY UrlsFinite
<1>2. /\ loads = <<[url |-> "llama", state |-> "reading"]>>
      /\ inFlight = [u \in Url |-> IF u = "llama" THEN 1 ELSE None]
      /\ effects = {[kind |-> "chain", gran |-> "week", of |-> {}, loads |-> {1}, live |-> TRUE]}
      /\ failed = [u \in Url |-> 0] /\ asked = [u \in Url |-> 0] /\ resets = 0
  BY DEF Init
<1>3. loads \in Seq([url : Url, state : LoadStates]) /\ DOMAIN loads = {1}
  BY <1>1, <1>2 DEF LoadStates
<1>4. AppTyped
  <2>1. runs \in [Runs -> [stage : Stages, query : Queries, found : Portfolios]]
    <3> DEFINE q0 == CHOOSE q \in Queries : TRUE
    <3>1. q0 \in Queries
      BY PageAssumption
    <3>2. runs = [r \in Runs |-> [stage |-> "unused", query |-> q0, found |-> {}]]
      BY DEF Init
    <3>3. {} \in Portfolios
      BY NoPositions
    <3> HIDE DEF q0
    <3> QED BY <3>1, <3>2, <3>3 DEF Stages
  <2>2. panel \in Panel
    BY DEF Init, Panel, Granularity, NoVolume
  <2>3. {} \in Portfolios
    BY NoPositions
  <2>4. status = "idle" /\ data.run = None /\ data.positions = {} /\ poolRefs = {} /\ store = {}
    BY DEF Init, Nothing
  <2> QED BY <2>1, <2>2, <2>3, <2>4 DEF AppTyped
<1>5. LoadsTyped
  <2>1. MemoOf(inFlight) /\ inFlight \in [Url -> Nat]
    BY <1>2, <1>3 DEF MemoOf, None
  <2> QED BY <1>1, <1>2, <1>3, <2>1 DEF LoadsTyped, Granularity
<1>6. Charted
  <2>1. poolRefs = {} /\ panel.gran = "week"
    BY DEF Init
  <2> DEFINE e0 == [kind |-> "chain", gran |-> "week", of |-> {}, loads |-> {1}, live |-> TRUE]
  <2>2. e0.kind = "chain" /\ e0.gran = "week" /\ e0.live
    OBVIOUS
  <2>3. effects = {e0}
    BY <1>2
  <2> HIDE DEF e0
  <2>4. Live("chain") = {e0} /\ Live("pools") = {}
    BY <2>2, <2>3 DEF Live
  <2> QED BY <2>1, <2>2, <2>4 DEF Charted
<1>7. Dated
  <2>1. calendar = NoCalendar /\ data.run = None
    BY DEF Init, Nothing
  <2> QED BY <2>1 DEF Dated, MonthInRange, NoCalendar, NoMonth
<1>8. Spent
  <2>1. Cleared = {} /\ Cardinality(Cleared) = 0
    BY PageAssumption, FS_EmptySet DEF Init, Cleared
  <2>2. ASSUME NEW u \in Url
        PROVE  /\ asked[u] <= Cardinality(AskedOf(u))
               /\ Cardinality(LoadsOf(u)) + Room(inFlight, u) + Cardinality(Cleared)
                     <= 1 + failed[u] + resets
    <3>1. AskedOf(u) = {} /\ LoadsOf(u) = IF u = "llama" THEN {1} ELSE {}
      BY <1>2, <1>3 DEF AskedOf, LoadsOf
    <3>2. /\ Cardinality(AskedOf(u)) = 0
          /\ Cardinality(LoadsOf(u)) = IF u = "llama" THEN 1 ELSE 0
      BY <3>1, FS_EmptySet, FS_Singleton
    <3>3. Room(inFlight, u) = IF u = "llama" THEN 0 ELSE 1
      BY <1>2 DEF Room, None
    <3> QED BY <1>2, <2>1, <3>2, <3>3
  <2> QED BY <1>2, <2>2 DEF Spent
<1> QED BY <1>4, <1>5, <1>6, <1>7, <1>8 DEF IInv

-----------------------------------------------------------------------------
(* Steps that end with a render *)

LEMMA ClearedFinite == IsFiniteSet(Cleared) /\ Cardinality(Cleared) \in Nat
BY PageAssumption, FS_Subset, FS_CardinalityType DEF Cleared

\* A render and what it is given keep the invariant, if the runs have left room for it.
LEMMA RenderStep ==
    ASSUME IInv, NEW st \in {"idle", "loading", "done", "error"}, NEW d, NEW refs, NEW p, NEW memo,
           Given(p, refs, memo), Render(st, d, refs, p, memo),
           d.run \in Runs \cup {None}, d.positions \in Portfolios,
           st = "done" => d.run # None,
           d = data \/ calendar.run # d.run \/ ~Displayed(st, d),
           runs' \in [Runs -> [stage : Stages, query : Queries, found : Portfolios]],
           \A r \in {d.run, calendar.run} \ {None} : runs'[r].stage \in Reported,
           \A u \in Url : Room(memo, u) + Cardinality(Cleared)' <= Room(inFlight, u) + Cardinality(Cleared),
           UNCHANGED <<store, asked, failed, resets>>
    PROVE  IInv'
<1>1. /\ status' = st /\ data' = d /\ poolRefs' = refs /\ calendar' = CalendarAfter(st, d)
      /\ panel' \in Panel
  BY RenderEffects DEF IInv
<1>2. AppTyped'
  BY <1>1 DEF IInv, AppTyped, Given
<1>3. LoadsTyped'
  BY RenderLoads DEF IInv
<1>4. Charted'
  BY RenderChart DEF IInv
<1>5. Dated'
  <2>1. /\ MonthInRange' /\ calendar' \in [ym : Int, run : Runs \cup {None}]
        /\ calendar'.run \in {None, calendar.run, d.run}
    BY <1>1, CalendarStep DEF IInv
  <2> QED BY <1>1, <2>1 DEF Dated
<1>6. Spent'
  <2>1. IsFiniteSet(Cleared') /\ Cardinality(Cleared)' \in Nat
    BY PageAssumption, FS_Subset, FS_CardinalityType DEF Cleared
  <2>2. Cardinality(Cleared) \in Nat
    BY ClearedFinite
  <2>3. ASSUME NEW u \in Url
        PROVE  /\ asked'[u] <= Cardinality(AskedOf(u))'
               /\ Cardinality(LoadsOf(u))' + Room(inFlight, u)' + Cardinality(Cleared)'
                     <= 1 + failed'[u] + resets'
    <3>1. /\ AskedOf(u)' = AskedOf(u)
          /\ Cardinality(LoadsOf(u))' + Room(inFlight, u)' <= Cardinality(LoadsOf(u)) + Room(memo, u)
          /\ Cardinality(LoadsOf(u)) \in Nat /\ Cardinality(LoadsOf(u))' \in Nat
      BY RenderSpends DEF IInv
    <3>2. /\ asked[u] <= Cardinality(AskedOf(u)) /\ failed[u] \in Nat /\ resets \in Nat
          /\ Cardinality(LoadsOf(u)) + Room(inFlight, u) + Cardinality(Cleared)
                <= 1 + failed[u] + resets
      BY DEF IInv, Spent, LoadsTyped
    <3>3. Room(memo, u) + Cardinality(Cleared)' <= Room(inFlight, u) + Cardinality(Cleared)
      OBVIOUS
    <3>4. Room(memo, u) \in Nat /\ Room(inFlight, u) \in Nat /\ Room(inFlight, u)' \in Nat
      BY DEF Room
    <3> DEFINE a == Cardinality(LoadsOf(u))' + Room(inFlight, u)'
               b == Cardinality(LoadsOf(u))
    <3>5. a + Cardinality(Cleared)' <= b + Room(memo, u) + Cardinality(Cleared)'
      BY <3>1, <3>4, <2>1
    <3> QED BY <3>1, <3>2, <3>3, <3>4, <3>5, <2>1, <2>2
  <2> QED BY <2>3 DEF IInv, Spent
<1> QED BY <1>2, <1>3, <1>4, <1>5, <1>6 DEF IInv

LEMMA PanelGiven ==
    ASSUME IInv, NEW refs, refs \subseteq Pools PROVE Given(panel, refs, inFlight)
BY DEF IInv, AppTyped, LoadsTyped, Given

\* Steps in which the runs and the memo stay what they were for the requests.
LEMMA SameCleared ==
    ASSUME IInv, NEW r \in Runs, NEW run, runs' = [runs EXCEPT ![r] = run],
           runs[r].stage # "cleared", run.stage # "cleared"
    PROVE  \A u \in Url : Room(inFlight, u) + Cardinality(Cleared)'
                            <= Room(inFlight, u) + Cardinality(Cleared)
<1>1. Cleared' = Cleared
  BY DEF IInv, AppTyped, Cleared
<1>2. Cardinality(Cleared) \in Nat /\ \A u \in Url : Room(inFlight, u) \in Nat
  BY ClearedFinite DEF Room
<1> QED BY <1>1, <1>2

\* A run as it goes on.
LEMMA RunGoesOn ==
    ASSUME IInv, NEW r \in Runs, NEW new \in [stage : Stages, query : Queries, found : Portfolios],
           runs' = [runs EXCEPT ![r] = new]
    PROVE  /\ runs' \in [Runs -> [stage : Stages, query : Queries, found : Portfolios]]
           /\ runs'[r] = new
           /\ \A s \in Runs : s # r => runs'[s] = runs[s]
BY DEF IInv, AppTyped

\* What is on the page is of a run that is past its reading.
LEMMA ReportedStay ==
    ASSUME IInv, NEW r \in Runs, runs[r].stage \notin Reported \/ runs'[r].stage \in Reported,
           \A s \in Runs : s # r => runs'[s] = runs[s]
    PROVE  /\ \A s \in {data.run, calendar.run} \ {None} : runs'[s].stage \in Reported
           /\ runs[r].stage \notin Reported => data.run # r /\ calendar.run # r
<1>1. \A s \in {data.run, calendar.run} \ {None} : s \in Runs /\ runs[s].stage \in Reported
  BY DEF IInv, AppTyped, Dated
<1>2. None \notin Runs
  BY PageAssumption
<1> QED BY <1>1, <1>2

LEMMA StartStep ==
    ASSUME IInv, NEW r \in Runs, NEW q \in Queries, NEW memo \in [Url -> Nat], MemoOf(memo),
           Start(r, q, memo), runs[r].stage \in {"unused", "cleared"},
           \A u \in Url : Room(memo, u) + Cardinality(Cleared \ {r}) <= Room(inFlight, u) + Cardinality(Cleared),
           UNCHANGED <<store, asked, failed, resets>>
    PROVE  IInv'
<1> DEFINE new == [runs[r] EXCEPT !.stage = "analyzing", !.query = q]
<1>1. new \in [stage : Stages, query : Queries, found : Portfolios] /\ new.stage = "analyzing"
  BY DEF IInv, AppTyped, Stages
<1>2. runs' = [runs EXCEPT ![r] = new] /\ Render("loading", Nothing, {}, panel, memo)
  BY DEF Start
<1> HIDE DEF new
<1>3. /\ runs' \in [Runs -> [stage : Stages, query : Queries, found : Portfolios]]
      /\ runs'[r] = new /\ new.stage = "analyzing"
      /\ \A s \in Runs : s # r => runs'[s] = runs[s]
  BY <1>1, <1>2, RunGoesOn
<1>4. \A s \in {data.run, calendar.run} \ {None} : runs'[s].stage \in Reported
  BY <1>3, ReportedStay DEF Reported
<1>5. Given(panel, {}, memo)
  BY PanelGiven DEF Given
<1>6. Nothing.run = None /\ Nothing.positions \in Portfolios /\ ~Displayed("loading", Nothing)
  BY NoPositions DEF Nothing, Displayed
<1>7. Cleared' = Cleared \ {r}
  BY <1>3 DEF Cleared
<1> QED BY <1>2, <1>3, <1>4, <1>5, <1>6, <1>7, RenderStep

LEMMA SubmitStep == ASSUME IInv, NEW r \in Runs, NEW q \in Queries, Submit(r, q) PROVE IInv'
<1>1. /\ Start(r, q, inFlight) /\ runs[r].stage = "unused"
      /\ UNCHANGED <<store, asked, failed, resets>>
  BY DEF Submit, Unused
<1>2. inFlight \in [Url -> Nat] /\ MemoOf(inFlight)
  BY DEF IInv, LoadsTyped
<1>3. Cleared \ {r} = Cleared
  BY <1>1 DEF Cleared
<1>4. Cardinality(Cleared) \in Nat /\ \A u \in Url : Room(inFlight, u) \in Nat
  BY ClearedFinite DEF Room
<1>5. \A u \in Url : Room(inFlight, u) + Cardinality(Cleared \ {r}) <= Room(inFlight, u) + Cardinality(Cleared)
  BY <1>3, <1>4
<1> QED BY <1>1, <1>2, <1>5, StartStep

\* A run that goes on after the store was emptied may ask for everything once more.
LEMMA RerunStep == ASSUME IInv, NEW r \in Runs, Rerun(r) PROVE IInv'
<1> DEFINE memo == [u \in Url |-> None]
<1>1. /\ Start(r, runs[r].query, memo) /\ runs[r].stage = "cleared"
      /\ UNCHANGED <<store, asked, failed, resets>>
  BY DEF Rerun
<1>2. memo \in [Url -> Nat] /\ MemoOf(memo) /\ \A u \in Url : Room(memo, u) = 1
  BY DEF MemoOf, None, Room
<1> HIDE DEF memo
<1>3. Cardinality(Cleared \ {r}) = Cardinality(Cleared) - 1
  BY <1>1, ClearedFinite, FS_RemoveElement DEF Cleared
<1>4. Cardinality(Cleared) \in Nat /\ \A u \in Url : Room(inFlight, u) \in Nat
  BY ClearedFinite DEF Room
<1>5. \A u \in Url : Room(memo, u) + Cardinality(Cleared \ {r}) <= Room(inFlight, u) + Cardinality(Cleared)
  BY <1>2, <1>3, <1>4
<1>6. runs[r].query \in Queries
  BY DEF IInv, AppTyped
<1> QED BY <1>1, <1>2, <1>5, <1>6, StartStep

LEMMA AnalyzedStep == ASSUME IInv, NEW r \in Runs, Analyzed(r) PROVE IInv'
<1>1. PICK ps \in PortfoliosOf[runs[r].query] :
         /\ runs' = [runs EXCEPT ![r].stage = "listing", ![r].found = ps]
         /\ Render("done", [run |-> r, positions |-> ps], poolRefs, panel, inFlight)
  BY DEF Analyzed
<1>2. runs[r].stage = "analyzing" /\ UNCHANGED <<store, asked, failed, resets>>
  BY DEF Analyzed
<1>3. runs[r] \in [stage : Stages, query : Queries, found : Portfolios] /\ poolRefs \subseteq Pools
  BY DEF IInv, AppTyped
<1>4. ps \in Portfolios
  BY <1>1, <1>3 DEF Portfolios
<1> DEFINE new == [runs[r] EXCEPT !.stage = "listing", !.found = ps]
           d == [run |-> r, positions |-> ps]
<1>5a. new \in [stage : Stages, query : Queries, found : Portfolios] /\ new.stage = "listing"
  BY <1>3, <1>4 DEF Stages
<1>5. runs' = [runs EXCEPT ![r] = new]
  BY <1>1, <1>3 DEF IInv, AppTyped
<1> HIDE DEF new
<1>6. /\ runs' \in [Runs -> [stage : Stages, query : Queries, found : Portfolios]]
      /\ runs'[r] = new /\ new.stage = "listing"
      /\ \A s \in Runs : s # r => runs'[s] = runs[s]
  BY <1>5a, <1>5, RunGoesOn
<1>7. /\ \A s \in {data.run, calendar.run} \ {None} : runs'[s].stage \in Reported
      /\ calendar.run # r
  BY <1>2, <1>6, ReportedStay DEF Reported
<1>8. d.run = r /\ d.positions = ps /\ d.run # None
  BY PageAssumption
<1>9. \A s \in {d.run, calendar.run} \ {None} : runs'[s].stage \in Reported
  BY <1>6, <1>7, <1>8 DEF Reported
<1>10. Given(panel, poolRefs, inFlight)
  BY <1>3, PanelGiven
<1>11. \A u \in Url : Room(inFlight, u) + Cardinality(Cleared)' <= Room(inFlight, u) + Cardinality(Cleared)
  BY <1>2, <1>5a, <1>5, SameCleared
<1> HIDE DEF d
<1> QED BY <1>1, <1>2, <1>4, <1>6, <1>7, <1>8, <1>9, <1>10, <1>11, RenderStep DEF d

LEMMA AnalyzeFailedStep == ASSUME IInv, NEW r \in Runs, AnalyzeFailed(r) PROVE IInv'
<1>1. /\ runs' = [runs EXCEPT ![r].stage = "over"] /\ runs[r].stage = "analyzing"
      /\ Render("error", data, poolRefs, panel, inFlight)
      /\ UNCHANGED <<store, asked, failed, resets>>
  BY DEF AnalyzeFailed
<1>2. /\ runs[r] \in [stage : Stages, query : Queries, found : Portfolios] /\ poolRefs \subseteq Pools
      /\ data.run \in Runs \cup {None} /\ data.positions \in Portfolios
  BY DEF IInv, AppTyped
<1> DEFINE new == [runs[r] EXCEPT !.stage = "over"]
<1>3a. new \in [stage : Stages, query : Queries, found : Portfolios] /\ new.stage = "over"
  BY <1>1, <1>2 DEF IInv, AppTyped, Stages
<1>3. runs' = [runs EXCEPT ![r] = new]
  BY <1>1, <1>2 DEF IInv, AppTyped
<1> HIDE DEF new
<1>4. /\ runs' \in [Runs -> [stage : Stages, query : Queries, found : Portfolios]]
      /\ runs'[r] = new /\ new.stage = "over"
      /\ \A s \in Runs : s # r => runs'[s] = runs[s]
  BY <1>3a, <1>3, RunGoesOn
<1>5. \A s \in {data.run, calendar.run} \ {None} : runs'[s].stage \in Reported
  BY <1>1, <1>4, ReportedStay DEF Reported
<1>6. Given(panel, poolRefs, inFlight)
  BY <1>2, PanelGiven
<1>7. \A u \in Url : Room(inFlight, u) + Cardinality(Cleared)' <= Room(inFlight, u) + Cardinality(Cleared)
  BY <1>1, <1>3a, <1>3, SameCleared
<1> QED BY <1>1, <1>2, <1>4, <1>5, <1>6, <1>7, RenderStep

LEMMA ListedStep == ASSUME IInv, NEW r \in Runs, Listed(r) PROVE IInv'
<1>1. PICK refs \in SUBSET {p.pool : p \in runs[r].found} : Render(status, data, refs, panel, inFlight)
  BY DEF Listed
<1>2. /\ runs' = [runs EXCEPT ![r].stage = "over", ![r].found = {}] /\ runs[r].stage = "listing"
      /\ UNCHANGED <<store, asked, failed, resets>>
  BY DEF Listed
<1>3. /\ runs[r] \in [stage : Stages, query : Queries, found : Portfolios]
      /\ data.run \in Runs \cup {None} /\ data.positions \in Portfolios
      /\ status \in {"idle", "loading", "done", "error"} /\ (status = "done" => data.run # None)
  BY DEF IInv, AppTyped
<1>4. refs \subseteq Pools
  BY <1>3, PortfolioPositions
<1> DEFINE new == [runs[r] EXCEPT !.stage = "over", !.found = {}]
<1>5a. new \in [stage : Stages, query : Queries, found : Portfolios] /\ new.stage = "over"
  BY <1>2, <1>3, NoPositions DEF IInv, AppTyped, Stages
<1>5. runs' = [runs EXCEPT ![r] = new]
  BY <1>2, <1>3 DEF IInv, AppTyped
<1> HIDE DEF new
<1>6. /\ runs' \in [Runs -> [stage : Stages, query : Queries, found : Portfolios]]
      /\ runs'[r] = new /\ new.stage = "over"
      /\ \A s \in Runs : s # r => runs'[s] = runs[s]
  BY <1>5a, <1>5, RunGoesOn
<1>7. \A s \in {data.run, calendar.run} \ {None} : runs'[s].stage \in Reported
  BY <1>6, ReportedStay DEF Reported
<1>8. Given(panel, refs, inFlight)
  BY <1>4, PanelGiven
<1>9. \A u \in Url : Room(inFlight, u) + Cardinality(Cleared)' <= Room(inFlight, u) + Cardinality(Cleared)
  BY <1>2, <1>5a, <1>5, SameCleared
<1> QED BY <1>1, <1>2, <1>3, <1>6, <1>7, <1>8, <1>9, RenderStep

\* Whatever the user chooses of the chart.
LEMMA PanelClickStep ==
    ASSUME IInv, NEW p \in Panel, p.chain = panel.chain, p.poolVol = panel.poolVol, PanelClick(p)
    PROVE  IInv'
<1>1. /\ Render(status, data, poolRefs, p, inFlight)
      /\ UNCHANGED <<runs, store, asked, failed, resets>>
  BY DEF PanelClick
<1>2. /\ data.run \in Runs \cup {None} /\ data.positions \in Portfolios
      /\ status \in {"idle", "loading", "done", "error"} /\ (status = "done" => data.run # None)
      /\ runs' \in [Runs -> [stage : Stages, query : Queries, found : Portfolios]]
      /\ poolRefs \subseteq Pools
  BY <1>1 DEF IInv, AppTyped
<1>3. \A s \in {data.run, calendar.run} \ {None} : runs'[s].stage \in Reported
  BY <1>1 DEF IInv, Dated
<1>4. Given(p, poolRefs, inFlight)
  BY <1>2, PanelGiven DEF Given
<1>5. \A u \in Url : Room(inFlight, u) + Cardinality(Cleared)' <= Room(inFlight, u) + Cardinality(Cleared)
  <2>1. Cleared' = Cleared
    BY <1>1 DEF Cleared
  <2> QED BY <2>1, ClearedFinite DEF Room
<1> QED BY <1>1, <1>2, <1>3, <1>4, <1>5, RenderStep

LEMMA PanelStep ==
    ASSUME IInv, \/ \E g \in Granularity : SetGran(g)
                 \/ \E scope \in {"pools", "chain"} : SetPinned(scope)
                 \/ retry
    PROVE  IInv'
<1>1. panel \in Panel
  BY DEF IInv, AppTyped
<1>2. ASSUME NEW g \in Granularity, SetGran(g) PROVE IInv'
  <2> DEFINE p == [panel EXCEPT !.gran = g]
  <2>1. p \in Panel /\ p.chain = panel.chain /\ p.poolVol = panel.poolVol
    BY <1>1 DEF Panel
  <2>2. PanelClick(p)
    BY <1>2 DEF SetGran
  <2> HIDE DEF p
  <2> QED BY <2>1, <2>2, PanelClickStep
<1>3. ASSUME NEW scope \in {"pools", "chain"}, SetPinned(scope) PROVE IInv'
  <2> DEFINE p == [panel EXCEPT !.pinned = scope]
  <2>1. p \in Panel /\ p.chain = panel.chain /\ p.poolVol = panel.poolVol
    BY <1>1 DEF Panel
  <2>2. PanelClick(p)
    BY <1>3 DEF SetPinned
  <2> HIDE DEF p
  <2> QED BY <2>1, <2>2, PanelClickStep
<1>4. ASSUME retry PROVE IInv'
  <2> DEFINE p == [panel EXCEPT !.attempt = @ + 1]
  <2>0. panel.attempt + 1 \in Nat
    <3>1. panel.attempt \in Nat
      BY <1>1 DEF Panel
    <3> QED BY <3>1
  <2>1. p \in Panel /\ p.chain = panel.chain /\ p.poolVol = panel.poolVol
    BY <1>1, <2>0 DEF Panel
  <2>2. PanelClick(p)
    BY <1>4 DEF retry
  <2> HIDE DEF p
  <2> QED BY <2>1, <2>2, PanelClickStep
<1> QED BY <1>2, <1>3, <1>4

-----------------------------------------------------------------------------
(* Steps without a render *)

LEMMA RescanStep == ASSUME IInv, NEW r \in Runs, NEW q \in Queries, Rescan(r, q) PROVE IInv'
<1>1. /\ runs' = [runs EXCEPT ![r] = [@ EXCEPT !.stage = "resetting", !.query = q]]
      /\ runs[r].stage = "unused"
      /\ UNCHANGED <<status, data, poolRefs, volume, store, failed, resets, calendar>>
  BY DEF Rescan, Unused
<1>2. runs[r] \in [stage : Stages, query : Queries, found : Portfolios]
  BY DEF IInv, AppTyped
<1> DEFINE new == [runs[r] EXCEPT !.stage = "resetting", !.query = q]
<1>3a. new \in [stage : Stages, query : Queries, found : Portfolios] /\ new.stage = "resetting"
  BY <1>1, <1>2 DEF IInv, AppTyped, Stages
<1>3. runs' = [runs EXCEPT ![r] = new]
  BY <1>1, <1>2 DEF IInv, AppTyped
<1> HIDE DEF new
<1>4. /\ runs' \in [Runs -> [stage : Stages, query : Queries, found : Portfolios]]
      /\ runs'[r] = new /\ new.stage = "resetting"
      /\ \A s \in Runs : s # r => runs'[s] = runs[s]
  BY <1>3a, <1>3, RunGoesOn
<1>5. \A s \in {data.run, calendar.run} \ {None} : runs'[s].stage \in Reported
  BY <1>1, <1>4, ReportedStay DEF Reported
<1>6. Cleared' = Cleared
  BY <1>1, <1>4 DEF Cleared
<1>7. UNCHANGED <<status, data, poolRefs, panel, effects, inFlight, loads, asked, store, failed, resets, calendar>>
  BY <1>1 DEF volume
<1>8. AppTyped'
  BY <1>4, <1>7 DEF IInv, AppTyped
<1>9. LoadsTyped' /\ Charted'
  BY <1>7 DEF IInv, LoadsTyped, MemoOf, Charted, Live, Scope
<1>10. Dated'
  BY <1>5, <1>7 DEF IInv, Dated, MonthInRange
<1>11. Spent'
  BY <1>6, <1>7 DEF IInv, Spent, AskedOf, LoadsOf, Room
<1> QED BY <1>8, <1>9, <1>10, <1>11 DEF IInv

LEMMA StoreEmptiedStep == ASSUME IInv, NEW r \in Runs, StoreEmptied(r) PROVE IInv'
<1>1. /\ runs' = [runs EXCEPT ![r].stage = "cleared"] /\ runs[r].stage = "resetting"
      /\ store' = {} /\ resets' = resets + 1
      /\ UNCHANGED <<status, data, poolRefs, volume, failed, calendar, clicks>>
  BY DEF StoreEmptied
<1>2. runs[r] \in [stage : Stages, query : Queries, found : Portfolios]
  BY DEF IInv, AppTyped
<1> DEFINE new == [runs[r] EXCEPT !.stage = "cleared"]
<1>3a. new \in [stage : Stages, query : Queries, found : Portfolios] /\ new.stage = "cleared"
  BY <1>1, <1>2 DEF IInv, AppTyped, Stages
<1>3. runs' = [runs EXCEPT ![r] = new]
  BY <1>1, <1>2 DEF IInv, AppTyped
<1> HIDE DEF new
<1>4. /\ runs' \in [Runs -> [stage : Stages, query : Queries, found : Portfolios]]
      /\ runs'[r] = new /\ new.stage = "cleared"
      /\ \A s \in Runs : s # r => runs'[s] = runs[s]
  BY <1>3a, <1>3, RunGoesOn
<1>5. \A s \in {data.run, calendar.run} \ {None} : runs'[s].stage \in Reported
  BY <1>1, <1>4, ReportedStay DEF Reported
<1>6. Cardinality(Cleared)' = Cardinality(Cleared) + 1
  <2>1. Cleared' = Cleared \cup {r} /\ r \notin Cleared
    BY <1>1, <1>4 DEF Cleared
  <2>2. Cardinality(Cleared \cup {r}) = Cardinality(Cleared) + 1
    BY <2>1, ClearedFinite, FS_AddElement
  <2> QED BY <2>1, <2>2
<1>7. UNCHANGED <<status, data, poolRefs, panel, effects, inFlight, loads, asked, failed, calendar>>
  BY <1>1 DEF volume
<1>8. AppTyped'
  BY <1>1, <1>4, <1>7 DEF IInv, AppTyped
<1>9. LoadsTyped' /\ Charted'
  BY <1>7 DEF IInv, LoadsTyped, MemoOf, Charted, Live, Scope
<1>10. Dated'
  BY <1>5, <1>7 DEF IInv, Dated, MonthInRange
<1>11. Spent'
  <2>1. ASSUME NEW u \in Url
        PROVE  /\ asked'[u] <= Cardinality(AskedOf(u))'
               /\ Cardinality(LoadsOf(u))' + Room(inFlight, u)' + Cardinality(Cleared)'
                     <= 1 + failed'[u] + resets'
    <3>1. /\ AskedOf(u)' = AskedOf(u) /\ LoadsOf(u)' = LoadsOf(u)
          /\ Room(inFlight, u)' = Room(inFlight, u)
      BY <1>7 DEF AskedOf, LoadsOf, Room
    <3>2. /\ asked[u] <= Cardinality(AskedOf(u)) /\ failed[u] \in Nat /\ resets \in Nat
          /\ Cardinality(LoadsOf(u)) + Room(inFlight, u) + Cardinality(Cleared)
                <= 1 + failed[u] + resets
      BY DEF IInv, Spent, LoadsTyped
    <3>3. Cardinality(LoadsOf(u)) \in Nat /\ Cardinality(Cleared) \in Nat /\ Room(inFlight, u) \in Nat
      BY LoadsFinite, ClearedFinite DEF IInv, Room
    <3> QED BY <3>1, <3>2, <3>3, <1>1, <1>6, <1>7
  <2> QED BY <2>1, <1>1, <1>7 DEF IInv, Spent
<1> QED BY <1>8, <1>9, <1>10, <1>11 DEF IInv

LEMMA GoStep == ASSUME IInv, NEW delta \in {-1, 1}, go(delta) PROVE IInv'
<1> DEFINE range == CloseRange(data.positions)
           n == calendar.ym + delta
<1>1. /\ range.min <= n /\ n <= range.max
      /\ calendar' = [calendar EXCEPT !.ym = n]
      /\ UNCHANGED <<status, data, poolRefs, runs, panel, effects, inFlight, loads, asked, store,
                     failed, resets>>
  BY DEF go, app, volume
<1>2. /\ calendar \in [ym : Int, run : Runs \cup {None}] /\ n \in Int
      /\ calendar'.ym = n /\ calendar'.run = calendar.run
      /\ calendar' \in [ym : Int, run : Runs \cup {None}]
  <2>1. calendar \in [ym : Int, run : Runs \cup {None}]
    BY DEF IInv, Dated
  <2>2. n \in Int
    BY <2>1
  <2> QED BY <1>1, <2>1, <2>2
<1>3. MonthInRange'
  BY <1>1, <1>2 DEF MonthInRange
<1>4. AppTyped' /\ LoadsTyped' /\ Charted'
  BY <1>1 DEF IInv, AppTyped, LoadsTyped, MemoOf, Charted, Live, Scope
<1>5. Dated'
  BY <1>1, <1>2, <1>3 DEF IInv, Dated
<1>6. Spent'
  BY <1>1 DEF IInv, Spent, AskedOf, LoadsOf, Room, Cleared
<1> QED BY <1>4, <1>5, <1>6 DEF IInv

LEMMA LoadEntry ==
    ASSUME LoadsTyped, NEW l \in DOMAIN loads
    PROVE  /\ loads[l] \in [url : Url, state : LoadStates]
           /\ loads[l].url \in Url /\ loads[l].state \in LoadStates
<1> DEFINE Entry == [url : Url, state : LoadStates]
<1>1. loads \in Seq(Entry)
  BY DEF LoadsTyped
<1> HIDE DEF Entry
<1>2. DOMAIN loads = 1 .. Len(loads) /\ loads \in [1 .. Len(loads) -> Entry]
  BY <1>1, LenProperties
<1>3. loads[l] \in Entry
  BY <1>2
<1>4. loads[l].url \in Url /\ loads[l].state \in LoadStates
  BY <1>3 DEF Entry
<1> QED BY <1>3, <1>4 DEF Entry

\* A fetch that is heard says what is selected, or that the provider failed.
LEMMA SettleStep == ASSUME IInv, NEW e \in effects, Settle(e) PROVE IInv'
<1> DEFINE ok == {l \in e.loads : loads[l].state = "ok"}
<1>1. /\ Settled(e) /\ effects' = effects \ {e}
      /\ UNCHANGED <<status, data, poolRefs, runs, inFlight, loads, store, asked, failed, resets, calendar>>
  BY DEF Settle, app
<1>2. panel' = CASE ~e.live -> panel
                 [] e.live /\ e.kind = "pools" ->
                      [panel EXCEPT !.busy = FALSE, !.poolVol =
                          [of |-> e.of, gran |-> e.gran, covered |-> {loads[l].url : l \in ok}]]
                 [] e.live /\ e.kind = "chain" /\ ok # {} ->
                      [panel EXCEPT !.busy = FALSE, !.chain = e.gran]
                 [] OTHER -> [panel EXCEPT !.busy = FALSE, !.error = TRUE]
  BY DEF Settle, Heard
<1>3. /\ panel \in Panel /\ loads \in Seq([url : Url, state : LoadStates])
      /\ e.kind \in {"chain", "pools"} /\ e.gran \in Granularity /\ e.of \in SUBSET Pools
      /\ e.live \in BOOLEAN /\ e.loads # {} /\ e.loads \subseteq DOMAIN loads
      /\ e.kind = "chain" => \A l \in e.loads : loads[l].url = "llama"
      /\ e.kind = "pools" => \A l \in e.loads : loads[l].url \in Pools
      /\ \A l \in DOMAIN loads : loads[l].state = "failed" => failed[loads[l].url] > 0
  BY DEF IInv, AppTyped, LoadsTyped
<1>4. /\ \A f \in effects : f.live /\ f.kind = "chain" => f.gran = panel.gran
      /\ \A f \in effects : f.live /\ f.kind = "pools" => f.gran = panel.gran /\ f.of = poolRefs
      /\ Live("chain") # {} \/ failed["llama"] > 0 \/ panel.chain = panel.gran
      /\ Scope(panel, poolRefs) = "pools" /\ poolRefs # {} =>
            \/ Live("pools") # {}
            \/ panel.poolVol.of = poolRefs /\ panel.poolVol.gran = panel.gran
  BY DEF IInv, Charted, Live
<1>5. e.kind = "pools" => {loads[l].url : l \in ok} \in SUBSET Pools
  <2>1. \A l \in DOMAIN loads : loads[l].url \in Url
    BY LoadEntry DEF IInv
  <2> QED BY <1>3, <2>1
<1> DEFINE Fine(p) == /\ p \in Panel /\ p.gran = panel.gran /\ p.pinned = panel.pinned
                      /\ p.chain = panel.chain \/ p.chain = panel.gran
                      /\ \/ p.poolVol = panel.poolVol
                         \/ p.poolVol.of = poolRefs /\ p.poolVol.gran = panel.gran
                      /\ e.live /\ e.kind = "pools" => p.poolVol.of = poolRefs /\ p.poolVol.gran = panel.gran
                      /\ e.live /\ e.kind = "chain" => p.chain = panel.gran \/ failed["llama"] > 0
<1>6. Fine(panel')
  <2>1. CASE ~e.live
    <3>1. panel' = panel
      BY <1>2, <2>1
    <3> QED BY <3>1, <2>1, <1>3
  <2>2. CASE e.live /\ e.kind = "pools"
    <3> DEFINE vol == [of |-> e.of, gran |-> e.gran, covered |-> {loads[l].url : l \in ok}]
    <3>1. panel' = [panel EXCEPT !.busy = FALSE, !.poolVol = vol]
      BY <1>2, <2>2
    <3>2. /\ vol \in [of : SUBSET Pools, gran : Granularity \cup {"none"}, covered : SUBSET Pools]
          /\ vol.of = poolRefs /\ vol.gran = panel.gran
      BY <1>3, <1>4, <1>5, <2>2
    <3> HIDE DEF vol
    <3>3. /\ panel' \in Panel /\ panel'.gran = panel.gran /\ panel'.pinned = panel.pinned
          /\ panel'.chain = panel.chain /\ panel'.poolVol = vol
      BY <1>3, <3>1, <3>2 DEF Panel
    <3> QED BY <3>2, <3>3, <2>2
  <2>3. CASE e.live /\ e.kind = "chain" /\ ok # {}
    <3>1. panel' = [panel EXCEPT !.busy = FALSE, !.chain = e.gran]
      BY <1>2, <2>3
    <3>2. e.gran = panel.gran
      BY <1>4, <2>3
    <3>3. /\ panel' \in Panel /\ panel'.gran = panel.gran /\ panel'.pinned = panel.pinned
          /\ panel'.chain = panel.gran /\ panel'.poolVol = panel.poolVol
      BY <1>3, <3>1, <3>2 DEF Panel
    <3> QED BY <3>3, <2>3
  <2>4. CASE e.live /\ e.kind = "chain" /\ ok = {}
    <3>1. panel' = [panel EXCEPT !.busy = FALSE, !.error = TRUE]
      BY <1>2, <2>4
    <3>2. PICK l \in e.loads : TRUE
      BY <1>3
    <3>3. loads[l].state = "failed" /\ loads[l].url = "llama" /\ l \in DOMAIN loads
      BY <1>1, <1>3, <2>4, <3>2 DEF Settled
    <3>4. failed["llama"] > 0
      BY <1>3, <3>3
    <3>5. /\ panel' \in Panel /\ panel'.gran = panel.gran /\ panel'.pinned = panel.pinned
          /\ panel'.chain = panel.chain /\ panel'.poolVol = panel.poolVol
      BY <1>3, <3>1 DEF Panel
    <3> QED BY <3>4, <3>5, <2>4
  <2> QED BY <1>3, <2>1, <2>2, <2>3, <2>4
<1> HIDE DEF ok
<1>7. Charted'
  <2>1. Scope(panel', poolRefs) = Scope(panel, poolRefs)
    BY <1>6 DEF Scope
  <2>2. \A kind : Live(kind)' = Live(kind) \ {e}
    BY <1>1 DEF Live
  <2>3. \A f \in Live("chain")' : f.gran = panel'.gran
    BY <1>4, <1>6, <2>2 DEF Live
  <2>4. \A f \in Live("pools")' : f.gran = panel'.gran /\ f.of = poolRefs
    BY <1>4, <1>6, <2>2 DEF Live
  <2>5. Live("chain")' # {} \/ failed["llama"] > 0 \/ panel'.chain = panel'.gran
    <3>1. CASE e.live /\ e.kind = "chain"
      BY <3>1, <1>6
    <3>2. CASE ~(e.live /\ e.kind = "chain")
      <4>1. Live("chain")' = Live("chain")
        BY <2>2, <3>2 DEF Live
      <4> QED BY <4>1, <1>4, <1>6
    <3> QED BY <3>1, <3>2
  <2>6. Scope(panel', poolRefs) = "pools" /\ poolRefs # {} =>
            \/ Live("pools")' # {}
            \/ panel'.poolVol.of = poolRefs /\ panel'.poolVol.gran = panel'.gran
    <3>1. CASE e.live /\ e.kind = "pools"
      BY <3>1, <1>6
    <3>2. CASE ~(e.live /\ e.kind = "pools")
      <4>1. Live("pools")' = Live("pools")
        BY <2>2, <3>2 DEF Live
      <4> QED BY <4>1, <2>1, <1>4, <1>6
    <3> QED BY <3>1, <3>2
  <2> QED BY <1>1, <2>3, <2>4, <2>5, <2>6 DEF Charted
<1>8. AppTyped'
  BY <1>1, <1>6 DEF IInv, AppTyped
<1>9. LoadsTyped'
  BY <1>1 DEF IInv, LoadsTyped, MemoOf
<1>10. Dated'
  BY <1>1 DEF IInv, Dated, MonthInRange
<1>11. Spent'
  BY <1>1 DEF IInv, Spent, AskedOf, LoadsOf, Room, Cleared
<1> QED BY <1>7, <1>8, <1>9, <1>10, <1>11 DEF IInv

\* A load as it goes on.
LEMMA LoadGoesOn ==
    ASSUME LoadsTyped, NEW l \in DOMAIN loads, NEW st \in LoadStates, LoadIs(l, st)
    PROVE  /\ loads' \in Seq([url : Url, state : LoadStates]) /\ DOMAIN loads' = DOMAIN loads
           /\ loads'[l].url = loads[l].url /\ loads'[l].state = st /\ loads[l].url \in Url
           /\ \A k \in DOMAIN loads : k # l => loads'[k] = loads[k]
           /\ \A k \in DOMAIN loads : loads'[k].url = loads[k].url
           /\ \A u : LoadsOf(u)' = LoadsOf(u)
<1>1. loads \in Seq([url : Url, state : LoadStates]) /\ loads[l] \in [url : Url, state : LoadStates]
  BY LoadEntry DEF LoadsTyped
<1> DEFINE new == [loads[l] EXCEPT !.state = st]
<1>2. new \in [url : Url, state : LoadStates] /\ new.url = loads[l].url /\ new.state = st
  BY <1>1
<1>3. loads' = [loads EXCEPT ![l] = new]
  BY DEF LoadIs
<1> HIDE DEF new
<1>4. /\ loads' \in Seq([url : Url, state : LoadStates]) /\ DOMAIN loads' = DOMAIN loads
      /\ loads'[l] = new /\ \A k \in DOMAIN loads : k # l => loads'[k] = loads[k]
  BY <1>1, <1>2, <1>3
<1>5. \A k \in DOMAIN loads : loads'[k].url = loads[k].url
  BY <1>2, <1>4
<1>6. \A u : LoadsOf(u)' = LoadsOf(u)
  BY <1>4, <1>5 DEF LoadsOf
<1> QED BY <1>1, <1>2, <1>4, <1>5, <1>6

LEMMA AskedFinite ==
    ASSUME LoadsTyped, NEW u PROVE IsFiniteSet(AskedOf(u)) /\ Cardinality(AskedOf(u)) \in Nat
BY LoadsFinite, FS_Subset, FS_CardinalityType DEF AskedOf

\* What the others keep when a load goes on.
LEMMA LoadStep ==
    ASSUME IInv, NEW l \in DOMAIN loads, NEW st \in LoadStates, LoadIs(l, st),
           inFlight' \in [Url -> Nat],
           \A u \in Url : inFlight'[u] # None =>
               inFlight'[u] = inFlight[u] /\ (st = "failed" => inFlight'[u] # l),
           failed' \in [Url -> Nat], \A u \in Url : failed[u] <= failed'[u],
           st = "failed" => failed'[loads[l].url] > 0,
           store' \subseteq Url,
           UNCHANGED <<status, data, poolRefs, runs, panel, effects, calendar>>
    PROVE  AppTyped' /\ LoadsTyped' /\ Charted' /\ Dated'
<1>1. /\ loads' \in Seq([url : Url, state : LoadStates]) /\ DOMAIN loads' = DOMAIN loads
      /\ loads'[l].url = loads[l].url /\ loads'[l].state = st /\ loads[l].url \in Url
      /\ \A k \in DOMAIN loads : k # l => loads'[k] = loads[k]
      /\ \A k \in DOMAIN loads : loads'[k].url = loads[k].url
  BY LoadGoesOn DEF IInv
<1>2. AppTyped'
  BY DEF IInv, AppTyped
<1>3. MemoOf(inFlight)'
  <2> SUFFICES ASSUME NEW u \in Url, inFlight'[u] # None
               PROVE  /\ inFlight'[u] \in DOMAIN loads' /\ loads'[inFlight'[u]].url = u
                      /\ loads'[inFlight'[u]].state # "failed"
    BY DEF MemoOf
  <2>1. /\ inFlight'[u] = inFlight[u] /\ inFlight[u] \in DOMAIN loads
        /\ loads[inFlight[u]].url = u /\ loads[inFlight[u]].state # "failed"
    BY DEF IInv, LoadsTyped, MemoOf
  <2> QED BY <2>1, <1>1
<1>4. failed' \in [Url -> Nat] /\ \A k \in DOMAIN loads' : loads'[k].state = "failed" => failed'[loads'[k].url] > 0
  <2> SUFFICES ASSUME NEW k \in DOMAIN loads, loads'[k].state = "failed" PROVE failed'[loads[k].url] > 0
    BY <1>1
  <2>1. CASE k = l
    BY <2>1, <1>1
  <2>2. CASE k # l
    <3>1. failed[loads[k].url] > 0 /\ loads[k].url \in Url
      <4>1. loads[k].state = "failed"
        BY <2>2, <1>1
      <4>2. failed[loads[k].url] > 0
        BY <4>1 DEF IInv, LoadsTyped
      <4> QED BY <4>2, LoadEntry DEF IInv
    <3>2. failed \in [Url -> Nat]
      BY DEF IInv, LoadsTyped
    <3>3. failed[loads[k].url] <= failed'[loads[k].url]
      BY <3>1
    <3>4. failed[loads[k].url] \in Nat /\ failed'[loads[k].url] \in Nat
      BY <3>1, <3>2
    <3> QED BY <3>1, <3>3, <3>4
  <2> QED BY <2>1, <2>2
<1>5. LoadsTyped'
  BY <1>1, <1>3, <1>4 DEF IInv, LoadsTyped
<1>6. Charted'
  <2>1. failed["llama"] > 0 => failed'["llama"] > 0
    <3>1. "llama" \in Url /\ failed \in [Url -> Nat]
      BY UrlsFinite DEF IInv, LoadsTyped
    <3>2. failed["llama"] <= failed'["llama"] /\ failed["llama"] \in Nat /\ failed'["llama"] \in Nat
      BY <3>1
    <3> QED BY <3>2
  <2> QED BY <2>1 DEF IInv, Charted, Live, Scope
<1>7. Dated'
  BY DEF IInv, Dated, MonthInRange
<1> QED BY <1>2, <1>5, <1>6, <1>7

LEMMA ReadStoreStep == ASSUME IInv, NEW l \in DOMAIN loads, ReadStore(l) PROVE IInv'
<1> DEFINE v == loads[l].url
<1>1. /\ loads[l].state = "reading"
      /\ \/ LoadIs(l, "ok") /\ UNCHANGED asked
         \/ LoadIs(l, "asking") /\ asked' = [asked EXCEPT ![v] = @ + 1]
      /\ UNCHANGED <<status, data, poolRefs, runs, panel, effects, inFlight, store, failed, resets, calendar>>
  BY DEF ReadStore, app
<1>2. PICK st \in {"ok", "asking"} : LoadIs(l, st) /\ (st = "ok" => UNCHANGED asked) /\ (st = "asking" => asked' = [asked EXCEPT ![v] = @ + 1])
  BY <1>1
<1>3. st \in LoadStates /\ st # "failed"
  BY DEF LoadStates
<1>4. AppTyped' /\ LoadsTyped' /\ Charted' /\ Dated'
  <2>1. failed \in [Url -> Nat] /\ inFlight \in [Url -> Nat] /\ store \subseteq Url
    BY DEF IInv, LoadsTyped, AppTyped
  <2>2. \A u \in Url : failed[u] <= failed[u]
    BY <2>1
  <2> QED BY <1>1, <1>2, <1>3, <2>1, <2>2, LoadStep
<1>5. /\ DOMAIN loads' = DOMAIN loads
      /\ loads'[l].url = v /\ loads'[l].state = st /\ v \in Url
      /\ \A k \in DOMAIN loads : k # l => loads'[k] = loads[k]
      /\ \A u : LoadsOf(u)' = LoadsOf(u)
  BY <1>2, <1>3, LoadGoesOn DEF IInv
<1>6. /\ asked \in [Url -> Nat] /\ resets \in Nat
      /\ \A u \in Url : /\ asked[u] <= Cardinality(AskedOf(u))
                        /\ Cardinality(LoadsOf(u)) + Room(inFlight, u) + Cardinality(Cleared)
                              <= 1 + failed[u] + resets
  BY DEF IInv, Spent
<1>7. asked' \in [Url -> Nat]
  <2>1. asked[v] + 1 \in Nat
    BY <1>5, <1>6
  <2> QED BY <1>2, <1>6, <2>1
<1>8. ASSUME NEW u \in Url PROVE asked'[u] <= Cardinality(AskedOf(u))'
  <2>1. IsFiniteSet(AskedOf(u)) /\ Cardinality(AskedOf(u)) \in Nat /\ asked[u] \in Nat
    BY <1>6, AskedFinite DEF IInv
  <2>2. CASE u # v
    <3>1. AskedOf(u)' = AskedOf(u)
      BY <1>5, <2>2 DEF AskedOf, LoadsOf
    <3>2. asked'[u] = asked[u]
      BY <1>2, <1>6, <2>2
    <3> QED BY <3>1, <3>2, <1>6
  <2>3. CASE u = v
    <3>1. AskedOf(u)' = AskedOf(u) \cup {l} /\ l \notin AskedOf(u)
      BY <1>1, <1>3, <1>5, <2>3 DEF AskedOf, LoadsOf
    <3>2. Cardinality(AskedOf(u) \cup {l}) = Cardinality(AskedOf(u)) + 1
      BY <2>1, <3>1, FS_AddElement
    <3>3. asked'[u] <= asked[u] + 1
      BY <1>2, <1>6, <2>1, <2>3
    <3>4. asked'[u] \in Nat /\ asked[u] <= Cardinality(AskedOf(u))
      BY <1>6, <1>7
    <3> QED BY <2>1, <3>1, <3>2, <3>3, <3>4
  <2> QED BY <2>2, <2>3
<1>9. Spent'
  BY <1>1, <1>5, <1>6, <1>7, <1>8 DEF Spent, Room, Cleared
<1> QED BY <1>4, <1>9 DEF IInv

LEMMA RespondStep == ASSUME IInv, NEW l \in DOMAIN loads, Respond(l) PROVE IInv'
<1>1. /\ loads[l].state = "asking" /\ LoadIs(l, "ok") /\ store' = store \cup {loads[l].url}
      /\ UNCHANGED <<status, data, poolRefs, runs, panel, effects, inFlight, asked, failed, resets, calendar>>
  BY DEF Respond, app
<1>2. "ok" \in LoadStates /\ loads[l].url \in Url
  BY LoadEntry DEF IInv, LoadStates
<1>3. AppTyped' /\ LoadsTyped' /\ Charted' /\ Dated'
  <2>1. failed \in [Url -> Nat] /\ inFlight \in [Url -> Nat] /\ store' \subseteq Url
    BY <1>1, <1>2 DEF IInv, LoadsTyped, AppTyped
  <2>2. \A u \in Url : failed[u] <= failed[u]
    BY <2>1
  <2> QED BY <1>1, <1>2, <2>1, <2>2, LoadStep
<1>4. /\ DOMAIN loads' = DOMAIN loads /\ loads'[l].state = "ok" /\ loads'[l].url = loads[l].url
      /\ \A k \in DOMAIN loads : k # l => loads'[k] = loads[k]
      /\ \A u : LoadsOf(u)' = LoadsOf(u)
  BY <1>1, <1>2, LoadGoesOn DEF IInv
<1>5. \A u : AskedOf(u)' = AskedOf(u)
  <2> SUFFICES ASSUME NEW u PROVE AskedOf(u)' = AskedOf(u)
    OBVIOUS
  <2>1. \A k \in DOMAIN loads : loads'[k].state # "reading" <=> loads[k].state # "reading"
    BY <1>1, <1>4
  <2> QED BY <2>1, <1>4 DEF AskedOf, LoadsOf
<1>6. Spent'
  BY <1>1, <1>4, <1>5 DEF IInv, Spent, Room, Cleared
<1> QED BY <1>3, <1>6 DEF IInv

\* A load that failed leaves its url free to be asked for, and one more failure.
LEMMA FailStep == ASSUME IInv, NEW l \in DOMAIN loads, Fail(l) PROVE IInv'
<1> DEFINE v == loads[l].url
<1>1. /\ loads[l].state = "asking" /\ LoadIs(l, "failed")
      /\ failed' = [failed EXCEPT ![v] = @ + 1] /\ inFlight' = [inFlight EXCEPT ![v] = None]
      /\ UNCHANGED <<status, data, poolRefs, runs, panel, effects, store, asked, resets, calendar>>
  BY DEF Fail, Forgotten, app
<1>2. /\ "failed" \in LoadStates /\ v \in Url /\ failed \in [Url -> Nat] /\ inFlight \in [Url -> Nat]
      /\ store \subseteq Url /\ MemoOf(inFlight)
  BY LoadEntry DEF IInv, LoadStates, LoadsTyped, AppTyped
<1> HIDE DEF v
<1>3. /\ failed' \in [Url -> Nat] /\ failed'[v] = failed[v] + 1 /\ failed'[v] > 0
      /\ \A u \in Url : u # v => failed'[u] = failed[u]
  BY <1>1, <1>2
<1>4. \A u \in Url : failed[u] <= failed'[u]
  BY <1>2, <1>3
<1>5. /\ inFlight' \in [Url -> Nat] /\ inFlight'[v] = None
      /\ \A u \in Url : u # v => inFlight'[u] = inFlight[u]
  BY <1>1, <1>2 DEF None
<1>6. \A u \in Url : inFlight'[u] # None => inFlight'[u] = inFlight[u] /\ inFlight'[u] # l
  <2> SUFFICES ASSUME NEW u \in Url, inFlight'[u] # None
               PROVE  inFlight'[u] = inFlight[u] /\ inFlight'[u] # l
    OBVIOUS
  <2>1. u # v /\ inFlight'[u] = inFlight[u]
    BY <1>5
  <2>2. loads[inFlight[u]].url = u
    BY <2>1, <1>2 DEF MemoOf
  <2> QED BY <2>1, <2>2 DEF v
<1>7. AppTyped' /\ LoadsTyped' /\ Charted' /\ Dated'
  <2>1. failed'[loads[l].url] > 0
    BY <1>3 DEF v
  <2> QED BY <1>1, <1>2, <1>3, <1>4, <1>5, <1>6, <2>1, LoadStep
<1>8. /\ DOMAIN loads' = DOMAIN loads /\ loads'[l].state = "failed" /\ loads'[l].url = loads[l].url
      /\ \A k \in DOMAIN loads : k # l => loads'[k] = loads[k]
      /\ \A u : LoadsOf(u)' = LoadsOf(u)
  BY <1>1, <1>2, LoadGoesOn DEF IInv
<1>9. \A u : AskedOf(u)' = AskedOf(u)
  <2> SUFFICES ASSUME NEW u PROVE AskedOf(u)' = AskedOf(u)
    OBVIOUS
  <2>1. \A k \in DOMAIN loads : loads'[k].state # "reading" <=> loads[k].state # "reading"
    BY <1>1, <1>8
  <2> QED BY <2>1, <1>8 DEF AskedOf, LoadsOf
<1>10. ASSUME NEW u \in Url
       PROVE  Cardinality(LoadsOf(u)) + Room(inFlight', u) + Cardinality(Cleared)
                  <= 1 + failed'[u] + resets
  <2>1. /\ Cardinality(LoadsOf(u)) + Room(inFlight, u) + Cardinality(Cleared) <= 1 + failed[u] + resets
        /\ resets \in Nat
    BY DEF IInv, Spent
  <2>2. Cardinality(LoadsOf(u)) \in Nat /\ Cardinality(Cleared) \in Nat
    BY LoadsFinite, ClearedFinite, FS_CardinalityType DEF IInv
  <2>3. Room(inFlight, u) \in {0, 1} /\ Room(inFlight', u) \in {0, 1}
    BY DEF Room
  <2>4. failed[u] \in Nat /\ failed'[u] \in Nat
    BY <1>2, <1>3
  <2>5. CASE u = v
    BY <2>1, <2>2, <2>3, <2>4, <2>5, <1>3
  <2>6. CASE u # v
    <3>1. Room(inFlight', u) = Room(inFlight, u) /\ failed'[u] = failed[u]
      BY <2>6, <1>3, <1>5 DEF Room
    <3> QED BY <3>1, <2>1
  <2> QED BY <2>5, <2>6
<1>11. Spent'
  <2>1. Cleared' = Cleared
    BY <1>1 DEF Cleared
  <2>2. \A u \in Url : Room(inFlight, u)' = Room(inFlight', u)
    BY DEF Room
  <2> QED BY <1>1, <1>8, <1>9, <1>10, <2>1, <2>2 DEF IInv, Spent
<1> QED BY <1>7, <1>11 DEF IInv

LEMMA StutterStep == ASSUME IInv, UNCHANGED vars PROVE IInv'
<1>1. UNCHANGED <<status, data, poolRefs, runs, panel, effects, inFlight, loads, asked, store, failed,
                  resets, calendar>>
  BY DEF vars, app, volume
<1>2. AppTyped'
  BY <1>1 DEF IInv, AppTyped
<1>3. LoadsTyped'
  BY <1>1 DEF IInv, LoadsTyped, MemoOf
<1>4. Charted'
  BY <1>1 DEF IInv, Charted, Live
<1>5. Dated'
  BY <1>1 DEF IInv, Dated, MonthInRange
<1>6. Spent'
  BY <1>1 DEF IInv, Spent, AskedOf, LoadsOf, Room, Cleared
<1> QED BY <1>2, <1>3, <1>4, <1>5, <1>6 DEF IInv

LEMMA IInvStep == IInv /\ [Next]_vars => IInv'
<1> SUFFICES ASSUME IInv, [Next]_vars PROVE IInv'
  OBVIOUS
<1>1. CASE \E r \in Runs, q \in Queries : Submit(r, q) \/ Rescan(r, q)
  BY <1>1, SubmitStep, RescanStep
<1>2. CASE \E r \in Runs : StoreEmptied(r) \/ Rerun(r) \/ Analyzed(r) \/ AnalyzeFailed(r) \/ Listed(r)
  BY <1>2, StoreEmptiedStep, RerunStep, AnalyzedStep, AnalyzeFailedStep, ListedStep
<1>3. CASE \E delta \in {-1, 1} : go(delta)
  BY <1>3, GoStep
<1>4. CASE (\E g \in Granularity : SetGran(g)) \/ (\E scope \in {"pools", "chain"} : SetPinned(scope)) \/ retry
  BY <1>4, PanelStep
<1>5. CASE \E e \in effects : Settle(e)
  BY <1>5, SettleStep
<1>6. CASE \E l \in DOMAIN loads : ReadStore(l) \/ Respond(l) \/ Fail(l)
  BY <1>6, ReadStoreStep, RespondStep, FailStep
<1>7. CASE Idle \/ UNCHANGED vars
  BY <1>7, StutterStep DEF Idle
<1> QED BY <1>1, <1>2, <1>3, <1>4, <1>5, <1>6, <1>7 DEF Next

-----------------------------------------------------------------------------
(* The theorems *)

\* What the page holds of its runs, of the chart's fetches, of the responses they share and
\* of the calendar fits together at every moment (App.tsx, SwapVolume.tsx, volume.ts).
THEOREM PageInv == Spec => []IInv
BY InitIInv, IInvStep, PTL DEF Spec

\* The responses of the memo can be had, and the month on the calendar is one from which
\* every close of its result can be reached (volume.ts:356, App.tsx:364).
THEOREM PageHolds == Spec => []PageSound
<1>1. IInv => PageSound
  <2> SUFFICES ASSUME IInv PROVE PageSound
    OBVIOUS
  <2>1. TypeOK
    <3>1. /\ status \in {"idle", "loading", "done", "error"}
          /\ data.run \in Runs \cup {None} /\ poolRefs \subseteq Url \ {"llama"}
          /\ status = "done" => data.run # None
          /\ store \subseteq Url
      BY DEF IInv, AppTyped, Pools
    <3>2. \A r \in Runs : runs[r].stage \in
              {"unused", "resetting", "cleared", "analyzing", "listing", "over"}
      BY DEF IInv, AppTyped, Stages
    <3>3. panel.chain \in Granularity \cup {"none"} /\ panel.gran \in Granularity
      BY DEF IInv, AppTyped, Panel
    <3>4. /\ \A e \in effects : e.loads # {} /\ e.loads \subseteq DOMAIN loads
          /\ \A u \in Url : inFlight[u] # None => loads[inFlight[u]].url = u
      BY DEF IInv, LoadsTyped, MemoOf
    <3> QED BY <3>1, <3>2, <3>3, <3>4 DEF TypeOK
  <2>2. NoFailureKept
    BY DEF IInv, LoadsTyped, MemoOf, NoFailureKept
  <2>3. MonthInRange
    BY DEF IInv, Dated
  <2> QED BY <2>1, <2>2, <2>3 DEF PageSound
<1> QED BY <1>1, PageInv, PTL

\* A settled chart is of what is selected, in whatever order runs, clicks, rescans and
\* answers come (SwapVolume.tsx:103, 125), provided the page has pools when they are what is
\* selected: with none, the chart of the pools before stays (SwapVolume.tsx:108).
THEOREM ChartIsCurrent == Spec => []SettledIsCurrent
<1>1. IInv => SettledIsCurrent
  <2> SUFFICES ASSUME IInv PROVE SettledIsCurrent
    OBVIOUS
  <2> DEFINE live == {e \in effects : e.live}
  <2>1. /\ Live("chain") # {} \/ failed["llama"] > 0 \/ panel.chain = panel.gran
        /\ Scope(panel, poolRefs) = "pools" /\ poolRefs # {} =>
              \/ Live("pools") # {}
              \/ panel.poolVol.of = poolRefs /\ panel.poolVol.gran = panel.gran
    BY DEF IInv, Charted
  <2>2. \A kind : (\A e \in live : e.kind # kind) => Live(kind) = {}
    BY DEF Live
  <2>3. failed["llama"] \in Nat
    BY UrlsFinite DEF IInv, LoadsTyped
  <2> HIDE DEF live
  <2>4. Scope(panel, poolRefs) = "pools" /\ poolRefs # {} /\ (\A e \in live : e.kind # "pools")
            => panel.poolVol.of = poolRefs /\ panel.poolVol.gran = panel.gran
    BY <2>1, <2>2
  <2>5. failed["llama"] = 0 /\ (\A e \in live : e.kind # "chain") => panel.chain = panel.gran
    BY <2>1, <2>2, <2>3
  <2> QED BY <2>4, <2>5 DEF SettledIsCurrent, live
<1> QED BY <1>1, PageInv, PTL

\* A response is asked for once a day, once more for each of its failures and each rescan,
\* whatever number of charts, tabs and runs want it (SwapVolume.tsx:290, volume.ts:342).
THEOREM AskedOnceADay == Spec => []OneRequestADay
<1>1. IInv => OneRequestADay
  <2> SUFFICES ASSUME IInv, NEW u \in Url PROVE asked[u] <= 1 + failed[u] + resets
    BY DEF OneRequestADay
  <2>1. /\ asked[u] \in Nat /\ resets \in Nat /\ asked[u] <= Cardinality(AskedOf(u))
        /\ Cardinality(LoadsOf(u)) + Room(inFlight, u) + Cardinality(Cleared) <= 1 + failed[u] + resets
    BY DEF IInv, Spent
  <2>2. IsFiniteSet(LoadsOf(u)) /\ AskedOf(u) \subseteq LoadsOf(u)
    BY LoadsFinite DEF IInv, AskedOf
  <2>3. /\ Cardinality(AskedOf(u)) <= Cardinality(LoadsOf(u))
        /\ Cardinality(LoadsOf(u)) \in Nat /\ Cardinality(AskedOf(u)) \in Nat
    BY <2>2, FS_Subset, FS_CardinalityType
  <2>4. Cardinality(Cleared) \in Nat /\ Room(inFlight, u) \in Nat /\ failed[u] \in Nat
    BY ClearedFinite DEF IInv, LoadsTyped, Room
  <2> QED BY <2>1, <2>3, <2>4
<1> QED BY <1>1, PageInv, PTL

-----------------------------------------------------------------------------
(* Money *)

LEMMA Quotients ==
    ASSUME NEW r \in Nat \ {0}
    PROVE  /\ \A a \in Int : a \div r \in Int /\ (a % r = 0 => (a \div r) * r = a)
           /\ \A a \in Int : (a * r) \div r = a
<1>1. \A a \in Int : a \div r \in Int /\ a % r \in 0 .. r - 1 /\ a = r * (a \div r) + (a % r)
  BY Z3
<1>2. ASSUME NEW a \in Int PROVE (a * r) \div r = a
  <2>1. a * r \in Int
    BY Z3
  <2> DEFINE q == (a * r) \div r
  <2>2. q \in Int /\ a * r = r * q + ((a * r) % r) /\ (a * r) % r \in 0 .. r - 1
    BY <1>1, <2>1
  <2> HIDE DEF q
  <2>3. r * (a - q) \in 0 .. r - 1
    BY <2>2
  <2>4. a - q = 0
    BY <2>2, <2>3
  <2> QED BY <2>2, <2>4 DEF q
<1> QED BY <1>1, <1>2

\* What an amount is worth in either unit.
LEMMA Worth ==
    ASSUME NEW rate \in Nat, NEW kind \in Units, NEW a, Divided(a, kind, rate)
    PROVE  /\ a \in Int
           /\ displayValue(a, kind, rate, "usd") = IF kind = "usd" THEN a ELSE a * rate
           /\ displayValue(a, kind, rate, "eth")
                = IF kind = "eth" THEN a ELSE IF rate > 0 THEN a \div rate ELSE 0
           /\ \A unit \in Units : displayValue(a, kind, rate, unit) \in Int
           /\ rate > 0 => displayValue(a, kind, rate, "eth") * rate = displayValue(a, kind, rate, "usd")
<1>2. a \in Int
  BY DEF Divided
<1>3. displayValue(a, kind, rate, "usd") = IF kind = "usd" THEN a ELSE a * rate
  BY DEF displayValue, toUsd
<1>4. displayValue(a, kind, rate, "eth")
         = IF kind = "eth" THEN a ELSE IF rate > 0 THEN a \div rate ELSE 0
  <2>1. CASE rate > 0
    <3>1. (a * rate) \div rate = a
      BY <1>2, <2>1, Quotients
    <3> QED BY <2>1, <3>1 DEF displayValue, toUsd, Units
  <2>2. CASE ~(rate > 0)
    BY <2>2 DEF displayValue
  <2> QED BY <2>1, <2>2
<1>5. a * rate \in Int /\ (rate > 0 => a \div rate \in Int)
  BY <1>2, Quotients
<1>6. \A unit \in Units : displayValue(a, kind, rate, unit) \in Int
  BY <1>2, <1>3, <1>4, <1>5 DEF Units
<1>7. rate > 0 => displayValue(a, kind, rate, "eth") * rate = displayValue(a, kind, rate, "usd")
  <2> SUFFICES ASSUME rate > 0
               PROVE displayValue(a, kind, rate, "eth") * rate = displayValue(a, kind, rate, "usd")
    OBVIOUS
  <2>1. CASE kind = "eth"
    BY <2>1, <1>3, <1>4
  <2>2. CASE kind = "usd"
    <3>1. a % rate = 0
      BY <2>2 DEF Divided
    <3>2. (a \div rate) * rate = a
      BY <1>2, <3>1, Quotients
    <3> QED BY <2>2, <3>2, <1>3, <1>4
  <2> QED BY <2>1, <2>2 DEF Units
<1> QED BY <1>2, <1>3, <1>4, <1>6, <1>7

\* The worth of a sum is the sum of the worths.
LEMMA WorthAdds ==
    ASSUME NEW rate \in Nat, NEW kind \in Units, NEW unit \in Units,
           NEW a, NEW b, Divided(a, kind, rate), Divided(b, kind, rate)
    PROVE  /\ Divided(a + b, kind, rate)
           /\ displayValue(a + b, kind, rate, unit)
                = displayValue(a, kind, rate, unit) + displayValue(b, kind, rate, unit)
<1>1. a \in Int /\ b \in Int /\ a + b \in Int
  BY DEF Divided
<1>2. rate > 0 /\ kind = "usd" =>
        (a + b) % rate = 0 /\ (a + b) \div rate = (a \div rate) + (b \div rate)
  <2> SUFFICES ASSUME rate > 0, kind = "usd"
               PROVE  (a + b) % rate = 0 /\ (a + b) \div rate = (a \div rate) + (b \div rate)
    OBVIOUS
  <2> DEFINE q == (a \div rate) + (b \div rate)
  <2>1. /\ a \div rate \in Int /\ (a \div rate) * rate = a
        /\ b \div rate \in Int /\ (b \div rate) * rate = b
    BY <1>1, Quotients DEF Divided
  <2>2. q \in Int /\ q * rate = a + b
    <3>1. \A x, y \in Int : (x + y) * rate = x * rate + y * rate
      OBVIOUS
    <3> QED BY <2>1, <3>1
  <2> HIDE DEF q
  <2>3. (q * rate) \div rate = q
    BY <2>2, Quotients
  <2>4. (a + b) \div rate = q
    BY <2>2, <2>3
  <2>5. ((a + b) \div rate) * rate = a + b
    BY <2>2, <2>4
  <2>6. (a + b) % rate = 0
    <3>1. a + b = rate * ((a + b) \div rate) + ((a + b) % rate) /\ (a + b) % rate \in Int
      BY <1>1, Z3
    <3>2. rate * ((a + b) \div rate) = a + b
      BY <2>2, <2>4
    <3> QED BY <1>1, <3>1, <3>2
  <2> QED BY <2>4, <2>6 DEF q
<1>3. Divided(a + b, kind, rate)
  BY <1>1, <1>2 DEF Divided
<1>4. \A c \in {a, b, a + b} :
        /\ displayValue(c, kind, rate, "usd") = IF kind = "usd" THEN c ELSE c * rate
        /\ displayValue(c, kind, rate, "eth")
             = IF kind = "eth" THEN c ELSE IF rate > 0 THEN c \div rate ELSE 0
  BY <1>3, Worth
<1>5. (a + b) * rate = a * rate + b * rate
  BY <1>1
<1>6. CASE unit = "usd"
  BY <1>1, <1>3, <1>4, <1>5, <1>6
<1>7. CASE unit = "eth"
  <2>1. CASE kind = "eth"
    BY <1>3, <1>4, <1>7, <2>1
  <2>2. CASE kind = "usd" /\ rate > 0
    BY <1>2, <1>3, <1>4, <1>7, <2>2
  <2>3. CASE kind = "usd" /\ ~(rate > 0)
    BY <1>3, <1>4, <1>7, <2>3
  <2> QED BY <2>1, <2>2, <2>3 DEF Units
<1> QED BY <1>6, <1>7 DEF Units

Earned(p) == p.fees + p.price + p.il

\* One position: its terms account for its net, and are worth the same in either unit.
LEMMA ItemAdds ==
    ASSUME NEW rate \in Nat, NEW p, Convertible(p, rate)
    PROVE  /\ \A unit \in Units :
                /\ \A t \in Terms : Item(p, rate, unit)[t] \in Int
                /\ Item(p, rate, unit).net
                     = Item(p, rate, unit).fees + Item(p, rate, unit).price + Item(p, rate, unit).il
                         - Item(p, rate, unit).gas
           /\ rate > 0 => \A t \in Terms : Item(p, rate, "eth")[t] * rate = Item(p, rate, "usd")[t]
           /\ Earned(p) \in Int
           /\ Item(p, rate, "usd").net + Item(p, rate, "usd").gas = toUsd(Earned(p), p.kind, rate)
<1> DEFINE V(a, unit) == displayValue(a, p.kind, rate, unit)
           G(unit) == displayValue(p.gas, p.gasKind, rate, unit)
<1>1. p.kind \in Units /\ p.gasKind \in Units
  BY DEF Convertible
<1>2. /\ Divided(p.fees, p.kind, rate) /\ Divided(p.price, p.kind, rate)
      /\ Divided(p.il, p.kind, rate) /\ Divided(p.gas, p.gasKind, rate)
  BY DEF Convertible
<1>3. /\ Divided(p.fees + p.price, p.kind, rate)
      /\ \A unit \in Units : V(p.fees + p.price, unit) = V(p.fees, unit) + V(p.price, unit)
  BY <1>1, <1>2, WorthAdds
<1>4. /\ Divided(Earned(p), p.kind, rate)
      /\ \A unit \in Units : V(Earned(p), unit) = V(p.fees + p.price, unit) + V(p.il, unit)
  BY <1>1, <1>2, <1>3, WorthAdds DEF Earned
<1>5. \A unit \in Units : /\ Item(p, rate, unit).fees = V(p.fees, unit)
                          /\ Item(p, rate, unit).price = V(p.price, unit)
                          /\ Item(p, rate, unit).il = V(p.il, unit)
                          /\ Item(p, rate, unit).gas = G(unit)
                          /\ Item(p, rate, unit).net = V(Earned(p), unit) - G(unit)
  BY DEF Item, posNet, netAfterGas, Earned
<1>6. \A a \in {p.fees, p.price, p.il, Earned(p)} :
        /\ a \in Int
        /\ \A unit \in Units : V(a, unit) \in Int
        /\ rate > 0 => V(a, "eth") * rate = V(a, "usd")
  BY <1>1, <1>2, <1>4, Worth
<1>7. /\ \A unit \in Units : G(unit) \in Int
      /\ rate > 0 => G("eth") * rate = G("usd")
  BY <1>1, <1>2, Worth
<1>8. V(Earned(p), "usd") = toUsd(Earned(p), p.kind, rate)
  BY DEF displayValue
<1>9. "usd" \in Units /\ "eth" \in Units
  BY DEF Units
<1> HIDE DEF V, G
<1>10. ASSUME NEW unit \in Units
       PROVE  Item(p, rate, unit).net
                = Item(p, rate, unit).fees + Item(p, rate, unit).price + Item(p, rate, unit).il
                    - Item(p, rate, unit).gas
  BY <1>3, <1>4, <1>5, <1>6, <1>7
<1>11. ASSUME NEW unit \in Units, NEW t \in Terms PROVE Item(p, rate, unit)[t] \in Int
  BY <1>5, <1>6, <1>7 DEF Terms
<1>12. ASSUME rate > 0, NEW t \in Terms PROVE Item(p, rate, "eth")[t] * rate = Item(p, rate, "usd")[t]
  <2>1. CASE t \in {"fees", "price", "il", "gas"}
    BY <1>5, <1>6, <1>7, <1>9, <1>12, <2>1
  <2>2. CASE t = "net"
    <3>1. \A x, y \in Int : (x - y) * rate = x * rate - y * rate
      OBVIOUS
    <3> QED BY <1>5, <1>6, <1>7, <1>9, <1>12, <2>2, <3>1
  <2> QED BY <2>1, <2>2 DEF Terms
<1>13. Item(p, rate, "usd").net + Item(p, rate, "usd").gas = toUsd(Earned(p), p.kind, rate)
  <2>1. /\ Item(p, rate, "usd").net = V(Earned(p), "usd") - G("usd")
        /\ Item(p, rate, "usd").gas = G("usd") /\ V(Earned(p), "usd") \in Int /\ G("usd") \in Int
    BY <1>5, <1>6, <1>7, <1>9
  <2> QED BY <2>1, <1>8
<1> QED BY <1>6, <1>10, <1>11, <1>12, <1>13

\* Portfolios whose bar is to be added up.
Tellable(ps, rate) ==
    /\ IsFiniteSet(ps) /\ rate \in Nat
    /\ \A p, o \in ps : p.tokenId = o.tokenId => p = o
    /\ \A p \in ps : Convertible(p, rate)

\* A bar adds up what its positions say: no two of them are one item.
LEMMA BarSum ==
    ASSUME NEW ps, NEW rate, Tellable(ps, rate), NEW unit \in Units, NEW t \in Terms
    PROVE  SummaryBar(ps, rate, unit)[t]
              = SumFunctionOnSet([p \in ps |-> Item(p, rate, unit)[t]], ps)
<1> DEFINE m == [p \in ps |-> Item(p, rate, unit)]
           f == [p \in ps |-> Item(p, rate, unit)[t]]
           items == Items(ps, rate, unit)
           g == [i \in items |-> i[t]]
<1>1. SummaryBar(ps, rate, unit)[t] = SumFunctionOnSet(g, items)
  BY DEF SummaryBar, Added, SumFunction
<1>2. items = {m[p] : p \in ps}
  BY DEF Items
<1>3. \A p, o \in ps : m[p] = m[o] => p = o
  <2>1. \A p \in ps : m[p].tokenId = p.tokenId
    BY DEF Item
  <2> HIDE DEF m
  <2> QED BY <2>1 DEF Tellable
<1>4. \A p \in ps : g[m[p]] \in Int /\ f[p] = g[m[p]]
  <2>1. \A p \in ps : Item(p, rate, unit)[t] \in Int
    BY ItemAdds DEF Tellable
  <2>2. \A p \in ps : m[p] = Item(p, rate, unit) /\ m[p] \in items
    BY <1>2
  <2> HIDE DEF m, items
  <2> QED BY <2>1, <2>2
<1>5. IsFiniteSet(ps)
  BY DEF Tellable
<1> HIDE DEF m, f, g, items
<1>6. SumFunctionOnSet(g, {m[p] : p \in ps}) = SumFunctionOnSet(f, ps)
  BY <1>3, <1>4, <1>5, SumImage
<1> QED BY <1>1, <1>2, <1>6 DEF f

LEMMA BarsAdd ==
    ASSUME NEW ps, NEW rate, Tellable(ps, rate)
    PROVE  BarAdds(ps, rate)
<1> DEFINE W(unit, t) == [p \in ps |-> Item(p, rate, unit)[t]]
           bar == [unit \in Units |-> SummaryBar(ps, rate, unit)]
           B(unit, t) == bar[unit][t]
           Fees(unit) == [p \in ps |-> Item(p, rate, unit).fees + Item(p, rate, unit).price]
           Sum3(unit) == [p \in ps |-> Item(p, rate, unit).fees + Item(p, rate, unit).price
                                          + Item(p, rate, unit).il]
           InUsd(p) == toUsd(Earned(p), p.kind, rate)
           AllInUsd == [p \in ps |-> InUsd(p)]
           Of(kind) == {p \in ps : p.kind = kind}
<1>1. IsFiniteSet(ps) /\ rate \in Nat /\ \A p \in ps : Convertible(p, rate)
  BY DEF Tellable
<1>2. {"net", "fees", "price", "il", "gas"} \subseteq Terms /\ {"eth", "usd"} \subseteq Units
  BY DEF Terms, Units
<1>3. \A unit \in Units : \A t \in Terms : B(unit, t) = SumFunctionOnSet(W(unit, t), ps)
  BY BarSum
<1>4. \A unit \in Units : \A t \in Terms : \A p \in ps : W(unit, t)[p] \in Int
  BY <1>1, ItemAdds
<1>5. \A unit \in Units : \A t \in Terms : B(unit, t) \in Int
  <2> SUFFICES ASSUME NEW unit \in Units, NEW t \in Terms PROVE B(unit, t) \in Int
    OBVIOUS
  <2>1. \A p \in ps : W(unit, t)[p] \in Int
    BY <1>4
  <2>2. B(unit, t) = SumFunctionOnSet(W(unit, t), ps)
    BY <1>3
  <2> HIDE DEF W, B, bar
  <2> QED BY <1>1, <2>1, <2>2, SumInt
\* The terms of a position account for its net.
<1>6. ASSUME NEW unit \in Units
      PROVE  B(unit, "net") = B(unit, "fees") + B(unit, "price") + B(unit, "il") - B(unit, "gas")
  <2>1. \A p \in ps :
          /\ Fees(unit)[p] = W(unit, "fees")[p] + W(unit, "price")[p]
          /\ Sum3(unit)[p] = Fees(unit)[p] + W(unit, "il")[p]
          /\ Sum3(unit)[p] = W(unit, "net")[p] + W(unit, "gas")[p]
    <3> SUFFICES ASSUME NEW p \in ps
                 PROVE  /\ Item(p, rate, unit).fees + Item(p, rate, unit).price
                              = Item(p, rate, unit)["fees"] + Item(p, rate, unit)["price"]
                        /\ Item(p, rate, unit).fees + Item(p, rate, unit).price + Item(p, rate, unit).il
                              = Item(p, rate, unit).net + Item(p, rate, unit).gas
      OBVIOUS
    <3> DEFINE i == Item(p, rate, unit)
    <3>1. i.net = i.fees + i.price + i.il - i.gas
      BY <1>1, ItemAdds
    <3>2. i.net \in Int /\ i.fees \in Int /\ i.price \in Int /\ i.il \in Int /\ i.gas \in Int
      BY <1>1, <1>2, ItemAdds
    <3> HIDE DEF i
    <3>3. i.fees + i.price + i.il = i.net + i.gas
      BY <3>1, <3>2
    <3> QED BY <3>3 DEF i
  <2>2. \A p \in ps : Fees(unit)[p] \in Int
    BY <1>2, <1>4, <2>1
  <2> HIDE DEF W, Fees, Sum3
  <2>3. SumFunctionOnSet(Fees(unit), ps)
           = SumFunctionOnSet(W(unit, "fees"), ps) + SumFunctionOnSet(W(unit, "price"), ps)
    BY <1>1, <1>2, <1>4, <2>1, SumPlus
  <2>4. SumFunctionOnSet(Sum3(unit), ps)
           = SumFunctionOnSet(Fees(unit), ps) + SumFunctionOnSet(W(unit, "il"), ps)
    BY <1>1, <1>2, <1>4, <2>1, <2>2, SumPlus
  <2>5. SumFunctionOnSet(Sum3(unit), ps)
           = SumFunctionOnSet(W(unit, "net"), ps) + SumFunctionOnSet(W(unit, "gas"), ps)
    BY <1>1, <1>2, <1>4, <2>1, SumPlus
  <2>6. /\ B(unit, "net") = SumFunctionOnSet(W(unit, "net"), ps) /\ B(unit, "net") \in Int
        /\ B(unit, "gas") = SumFunctionOnSet(W(unit, "gas"), ps) /\ B(unit, "gas") \in Int
        /\ B(unit, "fees") = SumFunctionOnSet(W(unit, "fees"), ps) /\ B(unit, "fees") \in Int
        /\ B(unit, "price") = SumFunctionOnSet(W(unit, "price"), ps) /\ B(unit, "price") \in Int
        /\ B(unit, "il") = SumFunctionOnSet(W(unit, "il"), ps) /\ B(unit, "il") \in Int
    BY <1>2, <1>3, <1>5
  <2> HIDE DEF B, bar
  <2> QED BY <2>3, <2>4, <2>5, <2>6
\* A position is worth the same in either unit.
<1>7. ASSUME rate > 0, NEW t \in Terms PROVE B("eth", t) * rate = B("usd", t)
  <2>1. \A p \in ps : W("eth", t)[p] \in Int /\ W("usd", t)[p] = W("eth", t)[p] * rate
    BY <1>1, <1>2, <1>7, ItemAdds
  <2>2. B("eth", t) = SumFunctionOnSet(W("eth", t), ps) /\ B("usd", t) = SumFunctionOnSet(W("usd", t), ps)
    BY <1>2, <1>3
  <2> HIDE DEF W, B, bar
  <2>3. SumFunctionOnSet(W("usd", t), ps) = SumFunctionOnSet(W("eth", t), ps) * rate
    BY <1>1, <2>1, SumTimes
  <2> QED BY <2>2, <2>3
\* What the positions of either kind have earned is all that was earned.
<1>8. B("usd", "net") + B("usd", "gas") = totalsByNumeraire(ps)["usd"] + totalsByNumeraire(ps)["eth"] * rate
  <2> DEFINE E(kind) == [p \in Of(kind) |-> Earned(p)]
  <2>1. \A p \in ps : Earned(p) \in Int /\ InUsd(p) = W("usd", "net")[p] + W("usd", "gas")[p]
    BY <1>1, ItemAdds
  <2>2. \A kind \in Units : totalsByNumeraire(ps)[kind] = SumFunctionOnSet(E(kind), Of(kind))
    BY DEF totalsByNumeraire, SumFunction, Earned
  <2>3. Of("usd") \cup Of("eth") = ps /\ Of("usd") \cap Of("eth") = {}
    BY <1>1 DEF Convertible, Units
  <2>4. IsFiniteSet(Of("usd")) /\ IsFiniteSet(Of("eth"))
    BY <1>1, FS_Subset
  <2>5. \A p \in Of("usd") : E("usd")[p] \in Int /\ E("usd")[p] = AllInUsd[p]
    BY <2>1 DEF toUsd
  <2>6. \A p \in Of("eth") : E("eth")[p] \in Int /\ AllInUsd[p] = E("eth")[p] * rate
    BY <2>1 DEF toUsd
  <2>7. \A p \in ps : AllInUsd[p] \in Int /\ AllInUsd[p] = W("usd", "net")[p] + W("usd", "gas")[p]
    BY <1>2, <1>4, <2>1
  <2> HIDE DEF W, E, Of, AllInUsd, B, bar
  <2>8. SumFunctionOnSet(E("usd"), Of("usd")) = SumFunctionOnSet(AllInUsd, Of("usd"))
    BY <2>4, <2>5, SumSame
  <2>9. SumFunctionOnSet(AllInUsd, Of("eth")) = SumFunctionOnSet(E("eth"), Of("eth")) * rate
    BY <1>1, <2>4, <2>6, SumTimes
  <2>10. SumFunctionOnSet(AllInUsd, ps)
            = SumFunctionOnSet(AllInUsd, Of("usd")) + SumFunctionOnSet(AllInUsd, Of("eth"))
    BY <2>3, <2>4, <2>7, SumUnion
  <2>11. SumFunctionOnSet(AllInUsd, ps)
            = SumFunctionOnSet(W("usd", "net"), ps) + SumFunctionOnSet(W("usd", "gas"), ps)
    BY <1>1, <1>2, <1>4, <2>7, SumPlus
  <2>12. /\ B("usd", "net") = SumFunctionOnSet(W("usd", "net"), ps)
         /\ B("usd", "gas") = SumFunctionOnSet(W("usd", "gas"), ps)
    BY <1>2, <1>3
  <2>13. /\ totalsByNumeraire(ps)["usd"] = SumFunctionOnSet(E("usd"), Of("usd"))
         /\ totalsByNumeraire(ps)["eth"] = SumFunctionOnSet(E("eth"), Of("eth"))
    BY <1>2, <2>2
  <2> QED BY <2>8, <2>9, <2>10, <2>11, <2>12, <2>13
<1> QED BY <1>6, <1>7, <1>8, Zenon DEF BarAdds

-----------------------------------------------------------------------------
(* Months *)

\* A month's figure adds up the items that were closed in it.
LEMMA MonthSum ==
    ASSUME NEW items, IsFiniteSet(items), \A i \in items : i.net \in Int, NEW ym
    PROVE  monthNet(items, ym)
              = SumFunctionOnSet([i \in items |-> i.net], {i \in items : Month(i.closedAt) = ym})
<1> DEFINE buckets == bucketByDay(items)
           net == [i \in items |-> i.net]
           key == [i \in items |-> i.closedAt]
           In == {i \in items : Month(i.closedAt) = ym}
           days == {d \in DOMAIN buckets : Month(d) = ym}
           g == [d \in days |-> buckets[d].net]
           On(d) == {i \in items : i.closedAt = d}
<1>1. monthNet(items, ym) = SumFunctionOnSet(g, days)
  BY DEF monthNet, SumFunction
<1>2. DOMAIN buckets = {key[i] : i \in items}
  BY DEF bucketByDay
<1>3. IsFiniteSet(days) /\ IsFiniteSet(In)
  <2>1. IsFiniteSet({key[i] : i \in items})
    <3> HIDE DEF key
    <3> QED BY ImageFinite
  <2> QED BY <1>2, <2>1, FS_Subset
<1>4. \A i \in In : net[i] \in Int /\ key[i] \in days
  BY <1>2
<1>5. ASSUME NEW d \in days
      PROVE  g[d] = SumFunctionOnSet(net, Group(In, key, d))
  <2> DEFINE h == [i \in On(d) |-> i["net"]]
  <2>1. buckets[d] = Added(On(d))
    BY DEF bucketByDay
  <2>2. Added(On(d))["net"] = SumFunctionOnSet(h, On(d))
    BY DEF Added, SumFunction, Terms
  <2>3. Group(In, key, d) = On(d)
    BY DEF Group
  <2>4. IsFiniteSet(On(d)) /\ \A i \in On(d) : h[i] \in Int /\ h[i] = net[i]
    BY FS_Subset
  <2> HIDE DEF h, On, net, buckets, In, key
  <2>5. SumFunctionOnSet(h, On(d)) = SumFunctionOnSet(net, On(d))
    BY <2>4, SumSame
  <2> QED BY <2>1, <2>2, <2>3, <2>5
<1> HIDE DEF g, days, In, net, key
<1>6. Grouped(g, days, net, In, key)
  BY <1>4, <1>5 DEF Grouped
<1>7. SumFunctionOnSet(g, days) = SumFunctionOnSet(net, In)
  BY <1>3, <1>6, SumGroup
<1> QED BY <1>1, <1>7 DEF net, In

LEMMA MonthsAddUp ==
    ASSUME NEW ps, NEW rate, Tellable(ps, rate), \A p \in ps : p.closedAt \in Nat, Closed(ps) # {}
    PROVE  MonthsAdd(ps, rate)
<1> DEFINE cs == Closed(ps)
           items == Items(cs, rate, "usd")
           month == [i \in items |-> Month(i.closedAt)]
           net == [i \in items |-> i.net]
           months == monthRange(items).min .. monthRange(items).max
           g == [ym \in months |-> monthNet(items, ym)]
           item == [p \in cs |-> Item(p, rate, "usd")]
<1>1. IsFiniteSet(cs) /\ cs # {} /\ \A p \in cs : p.closedAt \in Nat /\ Convertible(p, rate)
  BY FS_Subset DEF Closed, Tellable
<1>2. rate \in Nat /\ "usd" \in Units /\ "net" \in Terms
  BY DEF Tellable, Units, Terms
<1>3. \A p \in cs : item[p].closedAt = p.closedAt /\ item[p].net \in Int
  <2>1. \A p \in cs : Item(p, rate, "usd")["net"] \in Int
    BY <1>1, <1>2, ItemAdds
  <2> QED BY <2>1 DEF Item
<1>4. items = {item[p] : p \in cs}
  BY DEF Items
<1>5. IsFiniteSet(items) /\ items # {}
  <2>1. IsFiniteSet({item[p] : p \in cs})
    <3> HIDE DEF item
    <3> QED BY <1>1, ImageFinite
  <2> QED BY <1>1, <1>4, <2>1
<1>6. \A i \in items : i.closedAt \in Nat /\ i.net \in Int
  BY <1>1, <1>3, <1>4
<1>7. \A day \in Nat : Month(day) \in Nat
  BY LedgerAssumption DEF Month
<1>8. /\ months = Min({month[i] : i \in items}) .. Max({month[i] : i \in items})
      /\ \A i \in items : month[i] \in months
      /\ IsFiniteSet(months)
  <2> DEFINE all == {month[i] : i \in items}
  <2>1. all \subseteq Int /\ all # {}
    BY <1>5, <1>6, <1>7
  <2>2. IsFiniteSet(all)
    <3> HIDE DEF month, items
    <3> QED BY <1>5, ImageFinite
  <2>3. all = {Month(i.closedAt) : i \in items}
    OBVIOUS
  <2>4. monthRange(items).min = Min(all) /\ monthRange(items).max = Max(all)
    BY <1>5, <2>3 DEF monthRange
  <2>5. \A i \in items : month[i] \in all
    OBVIOUS
  <2> HIDE DEF all
  <2>6. /\ Min(all) \in all /\ Max(all) \in all
        /\ \A x \in all : Min(all) <= x /\ x <= Max(all)
    BY <2>1, <2>2, Ends
  <2> DEFINE a == Min(all)
             b == Max(all)
  <2>7. a \in Int /\ b \in Int
    <3> HIDE DEF items, month
    <3>1. \A x \in all : x \in Int
      BY <2>1
    <3>2. a \in all /\ b \in all
      BY <2>6
    <3> QED BY <3>1, <3>2
  <2>8. IsFiniteSet(a .. b)
    BY <2>7, FS_Interval
  <2>9. \A i \in items : month[i] \in a .. b
    <3> HIDE DEF items, month
    <3>1. \A x \in all : x \in a .. b
      BY <2>1, <2>6, <2>7
    <3> QED BY <2>5, <3>1
  <2> HIDE DEF items, month
  <2> QED BY <2>4, <2>8, <2>9 DEF all
<1>9. SumFunctionOnSet(g, months) = SumFunctionOnSet(net, items)
  <2>1. \A i \in items : net[i] \in Int /\ month[i] \in months
    BY <1>6, <1>8
  <2>2. ASSUME NEW ym \in months PROVE g[ym] = SumFunctionOnSet(net, Group(items, month, ym))
    <3>1. Group(items, month, ym) = {i \in items : Month(i.closedAt) = ym}
      BY DEF Group
    <3>2. monthNet(items, ym) = SumFunctionOnSet(net, {i \in items : Month(i.closedAt) = ym})
      <4> HIDE DEF items
      <4> QED BY <1>5, <1>6, MonthSum
    <3> HIDE DEF items, month, net
    <3> QED BY <3>1, <3>2
  <2> HIDE DEF g, months, net, items, month
  <2>3. Grouped(g, months, net, items, month)
    BY <2>1, <2>2 DEF Grouped
  <2> QED BY <1>5, <1>8, <2>3, SumGroup
<1>10. SummaryBar(cs, rate, "usd").net = SumFunctionOnSet(net, items)
  BY <1>2 DEF SummaryBar, Added, SumFunction
<1>11. SumFunction(g) = SummaryBar(cs, rate, "usd").net
  BY <1>9, <1>10 DEF SumFunction
<1>12. provisionalTotals(cs).any <=> \E ym \in months : monthProvisional(ps, ym)
  <2>1. \A p \in cs : Month(p.closedAt) \in months
    <3>1. \A p \in cs : item[p] \in items /\ month[item[p]] = Month(p.closedAt)
      BY <1>3, <1>4
    <3> QED BY <3>1, <1>8
  <2> HIDE DEF months, items, month, item
  <2> QED BY <2>1 DEF provisionalTotals, monthProvisional
<1> QED BY <1>11, <1>12, Zenon DEF MonthsAdd

-----------------------------------------------------------------------------
(* The chart *)

LEMMA PeriodKeys ==
    ASSUME NEW g \in Granularity
    PROVE  /\ \A t \in Int : periodKey(t, g) \in Int
           /\ \A t \in Int : periodKey(periodKey(t, g), g) = periodKey(t, g)
           /\ \A t, u \in Int : (periodKey(t, g) - periodKey(u, g)) % Step(g) = 0
<1>1. CASE g = "week"
  <2>1. \A t \in Int : periodKey(t, g) = t - ((t + 3) % 7)
    BY <1>1 DEF periodKey, weekKeyUTC
  <2>2. \A t \in Int : periodKey(t, g) \in Int /\ (periodKey(t, g) + 3) % 7 = 0
    BY <2>1
  <2>3. \A t \in Int : (t + 3) % 7 = 0 => periodKey(t, g) = t
    BY <2>1
  <2>4. \A t, u \in Int : (t + 3) % 7 = 0 /\ (u + 3) % 7 = 0 => (t - u) % 7 = 0
    OBVIOUS
  <2> QED BY <1>1, <2>2, <2>3, <2>4 DEF Step
<1>2. CASE g = "day"
  BY <1>2 DEF periodKey, Step
<1> QED BY <1>1, <1>2 DEF Granularity

\* A sum of numbers is positive when one of them is.
LEMMA SumPositive ==
    ASSUME NEW S, IsFiniteSet(S), NEW f, \A x \in S : f[x] \in Nat
    PROVE  SumFunctionOnSet(f, S) > 0 <=> \E x \in S : f[x] > 0
<1>1. CASE \E x \in S : f[x] > 0
  <2>1. PICK x \in S : f[x] > 0
    BY <1>1
  <2>2. SumFunctionOnSet(f, S) = f[x] + SumFunctionOnSet(f, S \ {x})
    BY <2>1, SumRemove
  <2>3. SumFunctionOnSet(f, S \ {x}) \in Nat
    BY FS_Subset, SumNat
  <2> QED BY <2>1, <2>2, <2>3
<1>2. CASE ~ \E x \in S : f[x] > 0
  <2>1. \A x \in S : f[x] = 0
    BY <1>2
  <2> QED BY <1>2, <2>1, SumZero
<1> QED BY <1>1, <1>2

LEMMA CountedCandles ==
    ASSUME NEW s \in DOMAIN Candles
    PROVE  /\ IsFiniteSet(Counted(Candles[s]))
           /\ \A c \in Counted(Candles[s]) : c.ts \in Int /\ c.value \in Nat
<1>1. IsFiniteSet(Candles[s]) /\ \A c \in Candles[s] : c.ts \in Nat /\ c.value \in Int
  BY VolumePeriodsAssumption
<1>2. Counted(Candles[s]) \subseteq Candles[s] /\ \A c \in Counted(Candles[s]) : c.value >= 0
  BY DEF Counted
<1> QED BY <1>1, <1>2, FS_Subset

\* Candles without volume do not count.
LEMMA TotalOnly ==
    ASSUME NEW C, IsFiniteSet(C), \A c \in C : c.value \in Nat,
           NEW P \in SUBSET C, \A c \in C \ P : c.value = 0
    PROVE  Total(P) = Total(C)
<1> DEFINE f == [c \in C |-> c.value]
           h == [c \in P |-> c.value]
<1>1. Total(C) = SumFunctionOnSet(f, C) /\ Total(P) = SumFunctionOnSet(h, P)
  BY DEF Total, SumFunction
<1>2. /\ \A c \in C : f[c] \in Int
      /\ \A c \in P : h[c] = f[c]
      /\ \A c \in C \ P : f[c] = 0
  OBVIOUS
<1> HIDE DEF f, h
<1> QED BY <1>1, <1>2, SumOnly

\* A series by period has, for some of the periods, all of the series that counts in them.
LEMMA BucketSum ==
    ASSUME NEW s \in DOMAIN Candles, NEW g \in Granularity, NEW K
    PROVE  LET buckets == bucketBy(Candles[s], g)
               counted == Counted(Candles[s])
           IN
           /\ IsFiniteSet(DOMAIN buckets)
           /\ DOMAIN buckets = {periodKey(c.ts, g) : c \in counted}
           /\ \A k \in DOMAIN buckets :
                 /\ \E t \in Int : k = periodKey(t, g)
                 /\ buckets[k] \in Nat
                 /\ buckets[k] > 0 <=> \E c \in counted : periodKey(c.ts, g) = k /\ c.value > 0
           /\ SumFunctionOnSet(buckets, DOMAIN buckets \cap K)
                = Total({c \in counted : periodKey(c.ts, g) \in K})
<1> DEFINE counted == Counted(Candles[s])
           buckets == bucketBy(Candles[s], g)
           key == [c \in counted |-> periodKey(c.ts, g)]
           value == [c \in counted |-> c.value]
           all == {key[c] : c \in counted}
           cs == {c \in counted : key[c] \in K}
           keys == all \cap K
           In(k) == {c \in counted : periodKey(c.ts, g) = k}
<1>1. IsFiniteSet(counted) /\ \A c \in counted : c.ts \in Int /\ c.value \in Nat
  BY CountedCandles
<1>2. DOMAIN buckets = all
  BY DEF bucketBy
<1>3. IsFiniteSet(all) /\ IsFiniteSet(keys) /\ IsFiniteSet(cs)
  <2> HIDE DEF key, counted
  <2>1. IsFiniteSet(all)
    BY <1>1, ImageFinite
  <2> QED BY <1>1, <2>1, FS_Subset
<1>4. ASSUME NEW k \in all
      PROVE  /\ buckets[k] = SumFunctionOnSet(value, In(k)) /\ buckets[k] \in Nat
             /\ buckets[k] > 0 <=> \E c \in counted : periodKey(c.ts, g) = k /\ c.value > 0
  <2> DEFINE v == [c \in In(k) |-> c.value]
  <2>1. buckets[k] = SumFunctionOnSet(v, In(k))
    BY DEF bucketBy, Total, SumFunction
  <2>2. IsFiniteSet(In(k)) /\ \A c \in In(k) : v[c] \in Nat /\ v[c] = value[c] /\ v[c] = c.value
    BY <1>1, FS_Subset
  <2>3. (\E c \in In(k) : v[c] > 0) <=> \E c \in counted : periodKey(c.ts, g) = k /\ c.value > 0
    BY <2>2
  <2> HIDE DEF v, In, counted, value, key, all, buckets
  <2>4. SumFunctionOnSet(v, In(k)) = SumFunctionOnSet(value, In(k)) /\ SumFunctionOnSet(v, In(k)) \in Nat
    BY <2>2, SumSame, SumNat
  <2>5. SumFunctionOnSet(v, In(k)) > 0 <=> \E c \in In(k) : v[c] > 0
    BY <2>2, SumPositive
  <2> QED BY <2>1, <2>3, <2>4, <2>5
<1>5. \A k \in all : \E t \in Int : k = periodKey(t, g)
  BY <1>1
<1>6. \A c \in cs : value[c] \in Int /\ key[c] \in keys
  BY <1>1
<1>7. \A k \in keys : Group(cs, key, k) = In(k)
  BY DEF Group
<1>8. Total({c \in counted : periodKey(c.ts, g) \in K}) = SumFunctionOnSet(value, cs)
  <2> DEFINE v == [c \in cs |-> c.value]
  <2>1. {c \in counted : periodKey(c.ts, g) \in K} = cs
    OBVIOUS
  <2>2. Total(cs) = SumFunctionOnSet(v, cs)
    BY DEF Total, SumFunction
  <2>3. \A c \in cs : v[c] \in Int /\ v[c] = value[c]
    BY <1>1
  <2> HIDE DEF v, cs, value, counted
  <2> QED BY <1>3, <2>1, <2>2, <2>3, SumSame
<1>9. all = {periodKey(c.ts, g) : c \in counted}
  OBVIOUS
<1> HIDE DEF counted, key, value, cs, buckets, In
<1>10. Grouped(buckets, keys, value, cs, key)
  BY <1>4, <1>6, <1>7 DEF Grouped
<1>11. SumFunctionOnSet(buckets, keys) = SumFunctionOnSet(value, cs)
  <2> HIDE DEF keys
  <2> QED BY <1>3, <1>10, SumGroup
<1>12. /\ IsFiniteSet(DOMAIN buckets)
       /\ DOMAIN buckets = {periodKey(c.ts, g) : c \in counted}
       /\ \A k \in DOMAIN buckets :
             /\ \E t \in Int : k = periodKey(t, g)
             /\ buckets[k] \in Nat
             /\ buckets[k] > 0 <=> \E c \in counted : periodKey(c.ts, g) = k /\ c.value > 0
       /\ SumFunctionOnSet(buckets, DOMAIN buckets \cap K)
            = Total({c \in counted : periodKey(c.ts, g) \in K})
  <2> HIDE DEF all
  <2> QED BY <1>2, <1>3, <1>4, <1>5, <1>8, <1>9, <1>11 DEF keys
<1> QED BY <1>12 DEF buckets, counted

\* The axis has every period from the first to the last of some, and no other.
LEMMA SpanOf ==
    ASSUME NEW g \in Granularity, NEW keys, IsFiniteSet(keys), keys # {},
           \A k \in keys : \E t \in Int : k = periodKey(t, g)
    PROVE  LET span == periodSpan(Min(keys), Max(keys), g) IN
           /\ IsFiniteSet(span) /\ span \subseteq Int /\ keys \subseteq span
           /\ Min(keys) \in Int
           /\ span = {u \in Min(keys) .. Max(keys) : (u - Min(keys)) % Step(g) = 0}
<1> DEFINE first == Min(keys)
           last == Max(keys)
           days == {u \in first .. last : (u - first) % Step(g) = 0}
           m == [t \in days |-> periodKey(t, g)]
           span == periodSpan(first, last, g)
<1>1. \A k \in keys : k \in Int /\ periodKey(k, g) = k
  BY PeriodKeys
<1>2. /\ first \in keys /\ last \in keys
      /\ \A k \in keys : first <= k /\ k <= last
  <2>1. keys \subseteq Int
    BY <1>1
  <2> QED BY <2>1, Ends
<1>3. \A k \in keys : (k - first) % Step(g) = 0
  BY <1>2, PeriodKeys
<1> HIDE DEF first, last
<1>4. first \in Int /\ last \in Int /\ periodKey(first, g) = first
  BY <1>1, <1>2
<1>5. span = {m[t] : t \in days}
  BY DEF periodSpan
<1>6. IsFiniteSet(days)
  <2>1. IsFiniteSet(first .. last)
    BY <1>4, FS_Interval
  <2> QED BY <2>1, FS_Subset
<1>7. \A t \in days : m[t] = t
  <2> SUFFICES ASSUME NEW t \in days PROVE periodKey(t, g) = t
    OBVIOUS
  <2>1. t \in Int /\ (t - first) % Step(g) = 0
    BY <1>4
  <2>2. CASE g = "week"
    <3>1. (first + 3) % 7 = 0
      BY <1>4, <2>2 DEF periodKey, weekKeyUTC
    <3>2. (t + 3) % 7 = 0
      BY <1>4, <2>1, <2>2, <3>1 DEF Step
    <3> QED BY <2>1, <2>2, <3>2 DEF periodKey, weekKeyUTC
  <2>3. CASE g = "day"
    BY <2>3 DEF periodKey
  <2> QED BY <2>2, <2>3 DEF Granularity
<1>8. span = days
  <2> HIDE DEF m, days, span
  <2> QED BY <1>5, <1>7
<1>9. keys \subseteq days
  BY <1>1, <1>2, <1>3, <1>4
<1>10. days \subseteq Int
  BY <1>4
<1> QED BY <1>4, <1>6, <1>8, <1>9, <1>10 DEF span, first, last

Axis(first, a, b, g) == {k \in Int : a <= k /\ k <= b /\ (k - first) % Step(g) = 0}

\* On an axis without gaps, what has fewer than n points after it is less than n periods
\* from the last.
LEMMA LastPoints ==
    ASSUME NEW g \in Granularity, NEW first \in Int, NEW a \in Int, NEW b \in Int, NEW n \in Nat \ {0},
           b \in Axis(first, a, b, g), NEW k \in Axis(first, a, b, g)
    PROVE  Cardinality({j \in Axis(first, a, b, g) : j > k}) < n <=> b - k < n * Step(g)
<1> USE DEF Axis
<1> DEFINE axis == Axis(first, a, b, g)
           later == {j \in axis : j > k}
<1>1. ASSUME NEW d \in {1, 7}, Step(g) = d
      PROVE  Cardinality(later) < n <=> b - k < n * d
  <2> DEFINE m == (b - k) \div d
             at == [i \in 1 .. m |-> k + d * i]
  <2>1. k \in Int /\ a <= k /\ k <= b /\ (k - first) % d = 0 /\ (b - first) % d = 0
    BY <1>1
  <2>2. m \in Nat /\ b - k = d * m
    BY <2>1
  <2>3. at \in [1 .. m -> later]
    <3> SUFFICES ASSUME NEW i \in 1 .. m PROVE k + d * i \in later
      OBVIOUS
    <3>1. i >= 1 /\ i <= m /\ i \in Int
      BY <2>2
    <3>2. (k + d * i - first) % d = 0
      BY <2>1, <3>1
    <3>3. k + d * i \in Int /\ k + d * i <= b /\ k < k + d * i
      BY <2>1, <2>2, <3>1
    <3> QED BY <1>1, <2>1, <3>2, <3>3
  <2>4. \A i, j \in 1 .. m : at[i] = at[j] => i = j
    BY <2>1, <2>2
  <2>5. ASSUME NEW j \in later PROVE \E i \in 1 .. m : at[i] = j
    <3> DEFINE i == (j - k) \div d
    <3>1. j \in Int /\ k < j /\ j <= b /\ (j - first) % d = 0
      BY <1>1
    <3>2. i \in Int /\ j - k = d * i
      BY <2>1, <3>1
    <3>3. i >= 1 /\ i <= m
      BY <2>1, <2>2, <3>1, <3>2
    <3>4. i \in 1 .. m /\ at[i] = j
      BY <2>1, <2>2, <3>1, <3>2, <3>3
    <3> HIDE DEF at, i, m
    <3> QED BY <3>4
  <2>6. ExistsBijection(1 .. m, later)
    <3> HIDE DEF at, later, m
    <3>1. at \in Injection(1 .. m, later) /\ at \in Surjection(1 .. m, later)
      BY <2>3, <2>4, <2>5 DEF Injection, Surjection, IsInjective
    <3> QED BY <3>1 DEF ExistsBijection, Bijection
  <2>7. Cardinality(later) = m
    <3> HIDE DEF later, m
    <3>1. IsFiniteSet(1 .. m) /\ Cardinality(1 .. m) = m
      BY <2>2, FS_Interval
    <3> QED BY <2>6, <3>1, FS_Bijection
  <2> HIDE DEF m
  <2> QED BY <2>1, <2>2, <2>7
<1>2. Step(g) \in {1, 7}
  BY DEF Step
<1> QED BY <1>1, <1>2

\* What is shown of the points of some series, and the volume in it.
LEMMA ChartsWhole ==
    ASSUME NEW series \in SUBSET DOMAIN Candles, NEW g \in Granularity, NEW n \in Nat \ {0}
    PROVE  Whole(series, g, n)
<1> DEFINE per == [s \in series |-> bucketBy(Candles[s], g)]
           keys == UNION {DOMAIN per[s] : s \in series}
           first == Min(keys)
           span == periodSpan(first, Max(keys), g)
           points == Points(series, g)
           table == [s \in series |-> [k \in span |-> Value(per[s], k)]]
           rows == [s \in series |-> Total(Recent(s, series, g, n))]
           full == {k \in DOMAIN points : points[k] > 0}
           shown == Shown(points, n)
           kept == [k \in shown |-> points[k]]
           Traded(k) == \E s \in series : \E c \in Counted(Candles[s]) : periodKey(c.ts, g) = k /\ c.value > 0
<1>1. IsFiniteSet(series)
  BY PageAssumption, FS_Subset
<1>2. ASSUME NEW s \in series
      PROVE  /\ IsFiniteSet(DOMAIN per[s])
             /\ DOMAIN per[s] = {periodKey(c.ts, g) : c \in Counted(Candles[s])}
             /\ \A k \in DOMAIN per[s] :
                   /\ \E t \in Int : k = periodKey(t, g)
                   /\ per[s][k] \in Nat
                   /\ per[s][k] > 0 <=> \E c \in Counted(Candles[s]) : periodKey(c.ts, g) = k /\ c.value > 0
             /\ \A K : SumFunctionOnSet(per[s], DOMAIN per[s] \cap K)
                         = Total({c \in Counted(Candles[s]) : periodKey(c.ts, g) \in K})
  BY BucketSum
<1>3. points = IF keys = {} THEN << >>
               ELSE [k \in span |-> SumFunction([s \in series |-> Value(per[s], k)])]
  BY DEF Points
<1>4. \A s \in series : rows[s] = Total(Recent(s, series, g, n))
  OBVIOUS
<1> SUFFICES SumFunctionOnSet(kept, shown) = SumFunctionOnSet(rows, series)
  BY DEF Whole, SumFunction
<1> HIDE DEF per, rows
<1>5. CASE keys = {}
  <2>1. shown = {}
    BY <1>3, <1>5 DEF Trimmed, Shown
  <2>2. ASSUME NEW s \in series PROVE Counted(Candles[s]) = {}
    <3>1. DOMAIN per[s] = {}
      BY <1>5
    <3> QED BY <1>2, <3>1
  <2>3. \A s \in series : Recent(s, series, g, n) = {}
    BY <2>2 DEF Recent
  <2>4. Total({}) = 0
    BY SumEmpty DEF Total, SumFunction
  <2>5. SumFunctionOnSet(kept, shown) = 0
    BY <2>1, SumEmpty
  <2> QED BY <1>1, <1>4, <2>3, <2>4, <2>5, SumZero
<1>6. CASE keys # {}
  <2>1. IsFiniteSet(keys)
    <3> DEFINE d == [s \in series |-> DOMAIN per[s]]
    <3>1. IsFiniteSet({d[s] : s \in series})
      <4> HIDE DEF d
      <4> QED BY <1>1, ImageFinite
    <3>2. keys = UNION {d[s] : s \in series} /\ \A D \in {d[s] : s \in series} : IsFiniteSet(D)
      BY <1>2
    <3> HIDE DEF d, keys
    <3> QED BY <3>1, <3>2, FS_UNION
  <2>2. \A k \in keys : \E t \in Int : k = periodKey(t, g)
    BY <1>2
  <2>3. \A s \in series : DOMAIN per[s] \subseteq keys
    OBVIOUS
  <2> HIDE DEF keys
  <2>4. /\ IsFiniteSet(span) /\ span \subseteq Int /\ keys \subseteq span
        /\ first \in Int /\ span = {u \in first .. Max(keys) : (u - first) % Step(g) = 0}
    BY <1>6, <2>1, <2>2, SpanOf
  <2> HIDE DEF span, first
  <2>5. ASSUME NEW s \in series, NEW k \in span
        PROVE  table[s][k] = Value(per[s], k) /\ table[s][k] \in Nat
    BY <1>2 DEF Value
  <2>6. DOMAIN points = span /\ \A k \in span : points[k] = SumFunctionOnSet(Column(table, series, k), series)
    <3>1. \A k \in span : points[k] = SumFunction([s \in series |-> Value(per[s], k)])
      BY <1>3, <1>6
    <3>2. ASSUME NEW k \in span PROVE [s \in series |-> Value(per[s], k)] = Column(table, series, k)
      BY <2>5 DEF Column
    <3>3. ASSUME NEW k \in span PROVE DOMAIN Column(table, series, k) = series
      BY DEF Column
    <3>4. DOMAIN points = span
      BY <1>3, <1>6
    <3> HIDE DEF points, table
    <3> QED BY <3>1, <3>2, <3>3, <3>4 DEF SumFunction
  <2>7. ASSUME NEW k \in span PROVE points[k] \in Nat /\ (points[k] > 0 <=> Traded(k))
    <3>1. \A s \in series : /\ Column(table, series, k)[s] \in Nat
                            /\ Column(table, series, k)[s] = Value(per[s], k)
      BY <2>5 DEF Column
    <3>2. \A s \in series : Value(per[s], k) > 0 <=>
             \E c \in Counted(Candles[s]) : periodKey(c.ts, g) = k /\ c.value > 0
      BY <1>2 DEF Value
    <3> HIDE DEF table, points
    <3>3. points[k] \in Nat /\ (points[k] > 0 <=> \E s \in series : Column(table, series, k)[s] > 0)
      BY <1>1, <2>6, <3>1, SumNat, SumPositive
    <3> QED BY <3>1, <3>2, <3>3
  <2> HIDE DEF points
  <2>8. shown \subseteq span /\ IsFiniteSet(shown)
    BY <2>4, <2>6, FS_Subset DEF Shown, Trimmed
  <2>9. ASSUME NEW s \in series, NEW c \in Counted(Candles[s]), c.value > 0
        PROVE  periodKey(c.ts, g) \in shown <=> c \in Recent(s, series, g, n)
    <3> DEFINE k == periodKey(c.ts, g)
               b == Max(full)
               a == Min(full)
               axis == Trimmed(points)
    <3>1. \A o \in series : \A d \in Counted(Candles[o]) : periodKey(d.ts, g) \in keys
      BY <1>2, <2>3
    <3>2. \A o \in series : \A d \in Counted(Candles[o]) : d.value > 0 => periodKey(d.ts, g) \in full
      BY <2>4, <2>6, <2>7, <3>1
    <3>3. \A f \in full : Traded(f)
      BY <2>6, <2>7
    <3>4. full \subseteq span /\ IsFiniteSet(full) /\ full \subseteq Int /\ k \in full
      <4>1. full \subseteq span
        BY <2>6
      <4>2. k \in full
        BY <3>2, <2>9
      <4> HIDE DEF full
      <4> QED BY <2>4, <4>1, <4>2, FS_Subset
    <3> HIDE DEF full
    <3>5. a \in full /\ b \in full /\ \A f \in full : a <= f /\ f <= b
      BY <3>4, Ends
    <3>6. a \in Int /\ b \in Int /\ a <= k /\ k <= b
      BY <3>4, <3>5
    <3>7. axis = {u \in span : a <= u /\ u <= b}
      BY <2>6, <3>4 DEF Trimmed, full
    <3> HIDE DEF a, b
    <3>8. /\ axis = {u \in Int : a <= u /\ u <= b /\ (u - first) % Step(g) = 0}
          /\ b \in axis /\ k \in axis
      <4>1. first <= a /\ b <= Max(keys) /\ Max(keys) \in Int
        <5>1. keys \subseteq Int
          BY <2>4
        <5>2. Max(keys) \in Int
          BY <1>6, <2>1, <5>1, Ends
        <5>3. \A u \in span : first <= u /\ u <= Max(keys)
          BY <2>4
        <5> QED BY <3>4, <3>5, <5>2, <5>3
      <4> HIDE DEF k, axis
      <4> QED BY <2>4, <3>4, <3>5, <3>6, <3>7, <4>1
    <3>9. k \in shown <=> b - k < n * Step(g)
      <4>1. k \in shown <=> Cardinality({j \in axis : j > k}) < n
        BY <3>8 DEF Shown
      <4> HIDE DEF k, axis
      <4>2. Cardinality({j \in axis : j > k}) < n <=> b - k < n * Step(g)
        <5>1. axis = Axis(first, a, b, g)
          BY <3>8 DEF Axis
        <5>2. first \in Int /\ a \in Int /\ b \in Int /\ b \in axis /\ k \in axis
          BY <2>4, <3>6, <3>8
        <5> QED BY <5>1, <5>2, LastPoints
      <4> QED BY <4>1, <4>2
    <3>10. c \in Recent(s, series, g, n) <=> \A f \in full : f - k < n * Step(g)
      <4>1. c \in Recent(s, series, g, n) <=>
              \A o \in series : \A d \in Counted(Candles[o]) :
                  d.value > 0 => periodKey(d.ts, g) - k < n * Step(g)
        BY DEF Recent
      <4> HIDE DEF k
      <4> QED BY <3>2, <3>3, <4>1
    <3>11. (\A f \in full : f - k < n * Step(g)) <=> b - k < n * Step(g)
      <4>1. n * Step(g) \in Int
        BY DEF Step
      <4> HIDE DEF k
      <4> QED BY <3>4, <3>5, <3>6, <4>1
    <3> QED BY <3>9, <3>10, <3>11
  <2>10. ASSUME NEW s \in series PROVE rows[s] = SumFunctionOnSet(table[s], shown)
    <3> DEFINE counted == Counted(Candles[s])
               in == {c \in counted : periodKey(c.ts, g) \in shown}
               recent == Recent(s, series, g, n)
               both == {c \in in : c.value > 0}
    <3>1. IsFiniteSet(counted) /\ \A c \in counted : c.value \in Nat
      BY CountedCandles
    <3>2. recent \subseteq counted /\ in \subseteq counted
      BY DEF Recent
    <3>3. both = {c \in recent : c.value > 0}
      BY <2>9, <3>2
    <3>4. Total(both) = Total(in) /\ Total(both) = Total(recent)
      <4>1. /\ \A c \in in \ both : c.value = 0
            /\ \A c \in recent \ both : c.value = 0
            /\ both \in SUBSET in /\ both \in SUBSET recent
            /\ IsFiniteSet(in) /\ IsFiniteSet(recent)
            /\ \A c \in in : c.value \in Nat
            /\ \A c \in recent : c.value \in Nat
        BY <3>1, <3>2, <3>3, FS_Subset
      <4> HIDE DEF both, in, recent
      <4> QED BY <4>1, TotalOnly
    <3>5. SumFunctionOnSet(per[s], DOMAIN per[s] \cap shown) = Total(in)
      BY <1>2
    <3>6. SumFunctionOnSet(per[s], DOMAIN per[s] \cap shown) = SumFunctionOnSet(table[s], shown)
      <4>1. \A k \in DOMAIN per[s] \cap shown : per[s][k] = table[s][k]
        BY <2>8 DEF Value
      <4>2. \A k \in shown \ (DOMAIN per[s] \cap shown) : table[s][k] = 0
        BY <2>8 DEF Value
      <4>3. \A k \in shown : table[s][k] \in Int
        BY <2>5, <2>8
      <4> HIDE DEF table, shown
      <4> QED BY <2>8, <4>1, <4>2, <4>3, SumOnly
    <3> HIDE DEF in, recent, table
    <3> QED BY <1>4, <3>4, <3>5, <3>6 DEF recent
  <2>11. Table(table, rows, series, points, shown)
    <3> HIDE DEF table, shown
    <3> QED BY <2>5, <2>6, <2>8, <2>10 DEF Table
  <2>12. SumFunctionOnSet(points, shown) = SumFunctionOnSet(rows, series)
    <3> HIDE DEF table, shown
    <3> QED BY <1>1, <2>8, <2>11, SumSwap
  <2>13. \A k \in shown : points[k] \in Int /\ kept[k] = points[k]
    BY <2>7, <2>8
  <2> HIDE DEF kept, shown
  <2>14. SumFunctionOnSet(kept, shown) = SumFunctionOnSet(points, shown)
    BY <2>8, <2>13, SumSame
  <2> QED BY <2>12, <2>14
<1> QED BY <1>5, <1>6

-----------------------------------------------------------------------------
(* The figures on the page *)

LEMMA PortfoliosTellable ==
    ASSUME NEW ps \in Portfolios, NEW rate \in Rates
    PROVE  Tellable(ps, rate) /\ \A p \in ps : p.closedAt \in Nat
<1>1. rate \in Nat /\ IsFiniteSet(ps)
  BY PageAssumption, PortfolioPositions
<1>2. CASE ps = {}
  BY <1>1, <1>2 DEF Tellable
<1>3. CASE ps # {}
  <2>1. PICK q \in Queries : ps \in PortfoliosOf[q]
    BY <1>3 DEF Portfolios
  <2>2. /\ \A p, o \in ps : p.tokenId = o.tokenId => p = o
        /\ \A p \in ps : p.closedAt \in Nat /\ Convertible(p, rate)
    BY <2>1, PageAssumption
  <2> QED BY <1>1, <2>2 DEF Tellable
<1> QED BY <1>2, <1>3

LEMMA IInvFigures == IInv => BarAddsUp /\ MonthsMatchBar /\ RecentVolumeShown
<1> SUFFICES ASSUME IInv PROVE BarAddsUp /\ MonthsMatchBar /\ RecentVolumeShown
  OBVIOUS
<1>1. BarAddsUp /\ MonthsMatchBar
  <2>1. data.positions \in Portfolios
    BY DEF IInv, AppTyped
  <2>2. \A rate \in Rates : BarAdds(data.positions, rate)
    BY <2>1, PortfoliosTellable, BarsAdd
  <2>3. Closed(data.positions) = {} \/ \A rate \in Rates : MonthsAdd(data.positions, rate)
    BY <2>1, PortfoliosTellable, MonthsAddUp
  <2> QED BY <2>1, <2>2, <2>3 DEF BarAddsUp, Adding, MonthsMatchBar, Matching
<1>2. RecentVolumeShown
  <2> DEFINE pools == Scope(panel, poolRefs) = "pools"
             series == IF pools THEN panel.poolVol.covered ELSE {"v3", "v4"}
             gran == IF pools THEN panel.poolVol.gran ELSE panel.chain
  <2>1. /\ panel.gran \in Granularity /\ panel.poolVol.covered \in SUBSET Pools
        /\ gran \in Granularity \cup {"none"}
    BY DEF IInv, AppTyped, Panel
  <2>2. Pools \subseteq DOMAIN Candles /\ {"v3", "v4"} \subseteq DOMAIN Candles
    BY PageAssumption DEF Pools, Url
  <2>3. series \in SUBSET DOMAIN Candles
    BY <2>1, <2>2
  <2>4. ASSUME gran # "none" PROVE <<series, gran, panel.gran>> \in WholeCharts
    <3> HIDE DEF series, gran
    <3> DEFINE c == [series |-> series, gran |-> gran, cut |-> panel.gran]
    <3>1. MAX_POINTS[panel.gran] \in Nat \ {0}
      BY <2>1, VolumePeriodsAssumption
    <3>2. Whole(series, gran, MAX_POINTS[panel.gran])
      BY <2>1, <2>3, <2>4, <3>1, ChartsWhole
    <3>3. c \in Charts /\ Whole(c.series, c.gran, MAX_POINTS[c.cut])
      BY <2>1, <2>3, <2>4, <3>2 DEF Charts
    <3>4. <<c.series, c.gran, c.cut>> = <<series, gran, panel.gran>>
      OBVIOUS
    <3> HIDE DEF c
    <3> QED BY <3>3, <3>4 DEF WholeCharts
  <2> QED BY <2>4 DEF RecentVolumeShown
<1> QED BY <1>1, <1>2

\* Whatever portfolio a run gives and whatever the ETH price, the bar over it accounts for
\* its headline, says the same in ether as in dollars, and what the portfolio's own totals
\* say (App.tsx:430).
THEOREM BarsAlwaysAddUp == Spec => []BarAddsUp
<1>1. IInv => BarAddsUp
  BY IInvFigures
<1> QED BY <1>1, PageInv, PTL

\* The months of a calendar add up to the bar of the closed positions and are marked as
\* it is, however the closes fall on days and months (App.tsx:321).
THEOREM MonthsAlwaysMatch == Spec => []MonthsMatchBar
<1>1. IInv => MonthsMatchBar
  BY IInvFigures
<1> QED BY <1>1, PageInv, PTL

\* Chart and table hold all the volume their series have in the last MAX_POINTS days or
\* weeks up to the latest volume, whatever the candles (volume.ts:102, SwapVolume.tsx:164).
THEOREM RecentIsShown == Spec => []RecentVolumeShown
<1>1. IInv => RecentVolumeShown
  BY IInvFigures
<1> QED BY <1>1, PageInv, PTL
=============================================================================
