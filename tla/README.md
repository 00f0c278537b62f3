# A TLA+ model of uniswap-pnl

uniswap-pnl reconstructs the profit and loss of Uniswap v3 and v4 positions from chain
logs, in the browser. It gets them with hundreds of requests through rate-limited public
endpoints that prune old state, through three caches with different rules about what may be
kept, in several tabs over one IndexedDB, from a chain that takes back its last blocks; and
it must then say what a position earned although part of what it needed could not be read.
This directory models the whole of that path, checks it with TLC and proves the central
claims with TLAPS.

Paths below are relative to the repository's `src/`; `lib/` is `web/src/lib/`.

## 1. Inventory

| Component | State it keeps | Operations | What is hard | What makes it correct |
|---|---|---|---|---|
| RPC throttle, `lib/chain.ts:262-343`, `lib/rate-limit.ts` | `inflight`, `waiting`, the gate's `resumeAt`, `permitted`, `streak` | `throttle`, `acquireSlot`, `releaseSlot`, `note`, `noteSuccess`, `wait` | a shared semaphore whose size changes while requests wait; a pause that is extended while others sleep | slots neither leak nor double, no waiter is forgotten, nobody is admitted past the permit, nobody is sent twice within a pause, every call ends |
| Log range cache, `lib/chain-cache.ts:178-203`, `lib/log-cache.ts` | one record `{from, to, logs}` per key | `cachedLogRange`, `writeRange` | read, await, write; several tabs; lagging heads; reorganisations | a record holds exactly the chain's logs for what it claims; an answer too |
| Batched range cache, `lib/chain-cache.ts:222-278` | a record per id | `cachedLogsById` | the same, over ids that reach different blocks | the same, per id |
| Point cache, `lib/chain-cache.ts:103-167, 291-295`, `lib/promise-cache.ts` | the head seen, the page's memo of promises, points on disk | `cachedPoint`, `cachedByKey`, `noteHead`, `isFinal`, `resetCaches` | finality judged after an await; failures evict; a rescan races loads under way | what is on disk is final; failures do not stick; what was settled before a rescan is forgotten |
| Request budget, `lib/token-bucket.ts` | rate, run of clean answers, tokens and the moment they are accurate | `take`, `slow`, `ok` | reservations ahead of the clock while the rate changes | any window of requests is within budget, and a refusal empties it |
| Pool volume batch, `lib/volume.ts:467-596` | the queue, both workers, the lists answered so far | `fetchPoolsVolume`, `runPass`, `getJson` | two workers cut off and putting back at the same time; resumes | each pool in one place, honest result, an end |
| Wallet and transaction analysis, `lib/chain.ts:162-176, 519-963`, `lib/pool.ts` | results, skipped positions, the subject of the scan | `analyze`, `analyzeWallet`, `analyzeTx`, `mapPool`, `retry` | partial failure, three at a time; overlapping calls | every position once, in results or skipped; no stale subject; every call ends |
| Reading one position, `lib/chain.ts` (`computePositionPnL`), `lib/chain-v4.ts` (`computePositionPnLV4`), `lib/v4-decode.ts` | the reading under way, `tickComplete`, `feesComplete` | metadata, lifecycle, ownership, states, flows, the report | the chain goes on between the reads; old state is pruned; traces may be missing | what is reported was put in, paid out or is there; what could not be measured is flagged |
| PnL core, `lib/uniswap-v3-pnl.ts` | none | `resolveActions`, `computePnL`, the price feeds | several events in one transaction; pools at the AMM's limits | fees are what was collected less what was withdrawn |
| Ownership, `lib/ownership.ts` | none | `ownershipOf`, `heldAt` | transfers within one block, to oneself and back | windows cover exactly what was held |
| Log splitting and floor, `lib/rpc-logs.ts`, `lib/chain.ts:606-640` | the pieces of a query, the floor found once | `getLogsChunked`, `getLogsFromGenesis`, `findLogFloor`, `resolveGenesisFloor` | bisection on complaints; pruning moves on | the pieces cover the range once; only what is gone is missing |
| Proxy, `web/netlify/`, `web/server.mjs` | none | one request over a list of upstreams | what spills and in which order, twice implemented | private upstreams only for listed wallets; what the page takes for pruned no upstream would have answered |
| Lanes, `lib/rpc-lane.ts`, `lib/chain.ts:369-387` | the subject of the scan | `taggedRequest`, the lane of a request | read at sending time | a request carries its own scan's tag |
| Daily response cache, `lib/volume.ts:300-358` | bodies of the day, a memo | `getJsonCached`, `clearVolumeMemo` | failures and rescans racing loads | one request a day; no failure is kept |
| Volume periods, `lib/volume.ts`, `SwapVolume.tsx` | none | buckets, axis, trimming, the cut to the last points | weeks and days of one series; which end is cut | the volume of the last periods is shown whole |
| Money and calendar, `lib/numeraire.ts`, `lib/provisional.ts`, `lib/calendar.ts` | none | conversion, totals, months | two units, a rate that changes | headline, parts, days and months add up |
| Page, `App.tsx`, `SwapVolume.tsx` | result, pools, panel, effects, calendar | `run`, rescan, effects, clicks | answers of an old run or a cleaned-up effect arriving late | what is shown is of what is selected; loading ends |
| Store, `lib/idb.ts` | two object stores | `get`, `getMany`, `put`, `putMany`, `clear` | unavailable, dropped writes | degrades to a miss |
| Token metadata, chain table and formatting, command line | see section 5 | | | |

How they interact: a run of the page calls `analyze`, which enumerates positions through the
two log caches and reads each of them; a miss of a cache goes through the chain client,
whose transports are wrapped by the throttle and whose requests go to the proxy, which picks
an upstream. All three caches share the page's promise memo and the tabs' IndexedDB;
`resetCaches` clears both at any moment. The volume panel stands apart: it has its own
provider, budget and daily cache (in the same store). The explorer reader of the v4 layer
uses a second budget of the same kind.

The hazards this exposes the code to are listed in `PROJECT.json`, each at its line and
with the properties that would catch it.

## 2. Modules

| Module | Models | Uses |
|---|---|---|
| `RpcThrottle` | throttle and gate | |
| `LogChain` | the chain: content of a block per query, mining, reorganisation up to `Depth` | external environment of the two log caches |
| `LogRanges` | `planRangeFetch`, `nextPersistTo`, `mergeLogs`, `upTo` | pure operators of both log caches |
| `RangeCache`, `BatchCache` | `cachedLogRange` on one key, `cachedLogsById` | `LogChain`, `LogRanges` |
| `PointCache` | `cachedPoint` and the promise memo on one key | its own one-block chain |
| `TokenBucket` | `tokenBucket` | |
| `Batch` | what a batch of reads promises its caller | abstract specification |
| `VolumeBatch` | `fetchPoolsVolume` | implements `Batch` |
| `WalletScan` | `analyze`, `analyzeWallet`, `analyzeTx`, `mapPool`, `retry` | what `RpcThrottle` promises, as fairness |
| `PnlCore` | the pure core of `uniswap-v3-pnl.ts` | |
| `V4Decode` | `v4-decode.ts`: raw v4 events to the core's | `PnlCore` |
| `Ownership` | `ownership.ts` | |
| `PositionChain` | the chain as one position sees it | external environment; `V4Decode`, `Ownership` |
| `PositionReader` | `computePositionPnL`, `computePositionPnLV4` | `PositionChain` |
| `Proxy` | the edge functions and `server.mjs`: one request as a function of its upstreams' answers | |
| `LogSplit` | `getLogsChunked`, the floor, their callers, reads of pinned state | `Proxy` |
| `Ledger` | `numeraire.ts`, `provisional.ts`, `calendar.ts` and the sums of `App.tsx` | |
| `VolumePeriods` | days, weeks, the axis, its trimming and its cut | |
| `Page` | runs, rescans, effects, daily cache, calendar | `Ledger`, `VolumePeriods` |
| `Rpc_proofs` | theorems about `RpcThrottle` and `LogSplit`: how requests are paced, how a query becomes requests | both |
| `Volume_proofs` | theorems about `TokenBucket` and `VolumeBatch`: what a batch costs, and the batch | both |
| `Scan_proofs` | theorems about `PointCache` and `WalletScan`: what a scan keeps, and the scan | both |
| `Logs_proofs` | theorems about `BatchCache` and `RangeCache`, after lemmas about the chain of both | both |
| `Page_proofs` | theorems about `Page` | it |
| `Position_proofs` | theorems about `PositionReader`: what the chain guarantees and a reading knows; lemmas on `PnlCore` and `V4Decode` | it, `Library_proofs` |
| `Report_proofs` | theorems about `PositionReader`: what is reported | `Position_proofs` |
| `Library_proofs` | lemmas about sums over finite sets, sequences and recursion on numbers | library |
| `MC*` | sets and records the `.cfg` files cannot write; symmetry | |

A stretch of JavaScript between two awaits is one action, since nothing else runs in it; an
`await` ends an action and whatever it waits for is another one. Definitions have the names
of the functions they model, and each is mapped to its lines in `PROJECT.json`. Operators
whose comment starts with "Mutant of" are not part of the specification: each is a plausible
mistake, kept to show that the properties notice it.

### RpcThrottle

`pc[r]` is where a call is in `throttle`'s loop: at the `gate`, `asleep` there, `passed`,
`queued` for a slot, `granted` one (its continuation not run yet), `sent`, `done`.
`inflight`, `waiting`, `permitted`, `streak` are the code's variables, `attempt` the loop
counter. Time is relative: `pause` is `resumeAt - now()` and `nap` what is left of a sleep;
`Tick` lowers both, so no bound on the clock is needed. The catch, the `finally` and the
success branch are the whole of `AnswerLimited`, `AnswerError` and `AnswerOk`: the pause is
noted before the slot is released, and `noteSuccess` widens after it, as in the code.
`owed` is a history variable, and so is `heard`: the requests sent since the last pause was over.
A request that is past the gate when a pause begins does go out during it, for `throttle` queues
for a slot behind the gate (`chain.ts:323-324`) and does not look again. What is left of the quiet
window is `OncePerPause`: none that was heard since the last pause goes out a second time before
this one is over, however often the refusals of others extend it.

### LogChain, LogRanges, RangeCache, BatchCache

`chain[q][b]` is what block `b` holds for query `q`: no log or one of a few. `Reorg` replaces
blocks at less than `Depth` behind the tip. The caches use the same `Depth` as `REORG_DEPTH`,
which is the claim of `chain-cache.ts:50-61`. A scan is `reading` the store, `fetching`,
`fetched`, `answered`; any scan may be of another tab, may fail, or may vanish (`Leave`).
A record read may turn out missing (`idb.ts` catches failures), and a write may be dropped.
A node answers a range with what the chain holds at one moment; `HeadLag` is how far the
node that gave the head may lag behind the one that gives the logs.

In `BatchCache` the records that cannot be reused are dropped when they are read, ids are
grouped by the block their record reaches, each bucket is one fetch and may be answered in
any order, and all records are written in one transaction (`putMany`).

### PointCache

One key, several calls of it. `memo` is the entry of the page's map: the call whose promise
it holds. `follows[c]` is the call whose promise `c` was handed. The content of the block may
change until it is `Depth` deep; `noteHead` may be told any head. The read of the disk
returns the point of the moment it was issued, because IndexedDB runs transactions in the
order they were created; for the same reason a `clear` issued by `resetCaches` is seen by
every later read. `born`, `resets`, `sentTip`, `storedIn`, `origin` are history: the last two say how
many rescans there had been when the point on disk was written, and when what a load resolves to
was settled. `RescanForgets` is what a rescan does: nothing that memo or disk had settled on before
it reaches a call made after it. It does not stop a load that is under way, which may write
afterwards what a node told it before; a call after the rescan takes that (section 3).

`StoredIsFinal` needs `Depth + Transit <= REORG_DEPTH` (`DepthSuffices`): finality is judged by
the head known
when the answer arrives, so blocks mined while it was on its way count against the margin.
The run takes equality, and one less breaks it. With 512 blocks of margin the code has it
in practice, but it is an assumption nothing enforces.

### TokenBucket

Tokens are `ONE` units each and the rate is units per tick, so fractional tokens are
integers. `slots` is the sequence of moments reserved. They are the moments `take` resolves
at the earliest: timers fire late, so the properties are about reservations.

### VolumeBatch

`pc[w]`: `looking` in the cache, `pacing` at the bucket, `asking`, `returned`. An answer and
the shift of the next pool are one action, as nothing is awaited between them. `Sweep` is
`runPass`: its workers shift their first pools at once. Pools are distinct and the batch is
alone on the page: joining a load of another batch is not modelled. A worker that was at the
bucket when the other was cut off still asks once more, as in the code (`volume.ts:495`).
`Promised` maps this to `Batch`: a pool's heading is the list it is in, and the stop that may
still be resumed is hidden (`blocked` counts once `phase` is `over`).

### WalletScan

`stage[c]` is where a call of `analyze` is: at one of its serial reads, in the three
prefetches, in the pool of positions, or over. A read (`read[c][p]`, `job[c][w]`) stands for
the requests it is made of: it waits at the throttle, is sent, and is answered or fails;
how it waits is `RpcThrottle`'s business, of which only `EveryCallSettles` is used, as
fairness. `subject` is `walletLaneSubject`, held as the call that set it, and `Send` is the
moment `taggedRequest` reads it. A failed prefetch rejects the `Promise.all` and ends the
call while the other two go on (`OrphanEnds`). `hand[c][w]` is the position a worker of
`mapPool` is on, `tries[c][w]` the loop counter of `retry`, which sleeps after its last
attempt too. `Close` is the end of a call with its `finally`; the `try` of `analyzeTx` begins
after the receipt, so what fails before leaves the subject alone. `met` is history.

### PnlCore, V4Decode, Ownership

An amount is a pair of integers. A range of ticks is a few integers wide; between its bounds
the amounts are linear in the tick (a unit of liquidity is one token0 or one token1 a tick),
where the code takes fixed-point square roots. What the code relies on is kept: all token0
below the range, all token1 above it, and token1 tells where between. So the inverse that
`reconcileRemovalTicks` and `impliedMintTicks` compute, the order of the tick sources and the
limits at which a tick is no price are there, rounding is not. Fee growth is counted modulo
`Wrap`, as the contract does with 2^256, and a run wraps it. A transaction is named by its
block.

### PositionChain, PositionReader

`PositionChain` is the chain one position sees: in each block the pool may move, earn fees,
change the position (`Changes`: a mint, increases, partial and full removals, a poke, two
removals in one transaction), collect at once or later (v3), give the token away, and trade
again. `paid` and `spent` are what the owner really got and put in: the ground truth the
report is held against. Nothing of it is in the repository; it is external.

`PositionReader` has one action per stretch of reads (`Begin`, `ReadMeta`, `ReadLogs`,
`ReadStates`, `FinishV3`, `FinishV4`) and blocks are mined between any two. In `ReadStates`
the node has pruned the state of any prefix of the blocks (a tick of one may have been cached
in time), and the explorer gives the native flows of some transactions or none. The action
stands for the whole chain of sources: `StateView`, what the mint evidences, the last trade,
the pool's first tick, then the reconciliation of each removal with what was paid.

The properties hold under premises, each named in the module and each a case in which the
code gives way:

- `CollectedAtOnce` (v3): principal left in the position by a removal and collected by a later
  transaction is counted twice (`uniswap-v3-pnl.ts:8-11` knows of it).
- `OneIncreaseEach`, `OneChangeEach`: `resolveActions` and `computePnL` find one event of a
  kind per transaction; the second of one transaction is dropped, and in v4 its payout with it
  when it is measured by growth.
- `NoLateTrade`: the state of a block is read at its end, after trades that followed the
  position's transaction.
- `FreshMints` (v4): the tick of a pruned block is taken from what its mint spent, and a
  transaction that also collects fees spent the difference. What gives the deposit back
  within one percent is believed (`nearlyEqual`), so the tick, and the deposit with it, may
  be off by that much; and when the native leg is known by the sum sent along only, a change
  and a fee of just the right size pass as another tick's amounts.
- `Untouched`: the logs go to the head the scan saw and the liquidity is the latest, so a
  change between the two is in one of them only.
- `MineFromMint` (v4): the walk over the events starts at liquidity 0 and knows the wallet's own
  events only, so a bought position's first fees are none or negative, without a flag, and so
  are those after a change that another holder made.
- `OnlyMine` (v4, open): the mark counts fees from the wallet's last event on, so what another
  holder was paid since counts as unclaimed when the position comes back. It takes four blocks.

An open v3 position's fees since the last poke are not in `tokensOwed`, which is all the
code reads (`chain.ts:799`); `MarkNow` therefore counts in v3 what is booked only, and
`feesComplete` does not say that more was earned.

### Proxy, LogSplit

A request's upstreams each answer with a class of status and body (`ok`, too wide in two
wordings, pruned in three, rate-limited in two ways, broken, dead by status, dead in the body of a
200); `Outcomes` is what the page may then receive, with the order of `lane-order.ts`, the gate of
`wallet-lane-gate.ts` and the reasons of `spill.ts` for the edge, and with those of
`server.mjs` where it decides differently. The two differ: `server.mjs:97` does not know
the wording with a hash, so `HonestlyPruned` is stated for the edge. A complaint
"response size exceeded" also matches the proxy's rate-limit pattern and spills. Two wordings
spill nowhere and are relayed as they are: a dead backend in the body of a 200 (`noRoute`;
`rpc-logs.ts:62-76` retries it) and "history unavailable" (`goneHistory`; `rpc-logs.ts:154` takes it
for pruned). So a later upstream is not always asked, and `HonestlyPruned` says what does hold: a
read is priced as one of pruned state only if no endpoint of its order would have answered.

`LogSplit` puts the halves of a query in the sequence `pieces` where the whole stood; they
are asked in any order, since `getLogsChunked` runs them at once. `Narrowed` before
`MayBeTransient`, a rate limit before width, is the order of the checks. `Probe` is a step of
`findLogFloor`, and the public node prunes on (`Prune`) at any time. Three callers: the mint of
a transaction (`getLogsFromGenesis`), ownership logs from the remembered floor, a read of
pinned state. `OnlyTheGoneIsMissing` allows what was kept when the floor was found to be
pruned since; what the floor's owners do not do, and what the code does not promise, is to
say that something is missing.

### Ledger, VolumePeriods, Page

Amounts, rates and days are small integers; dates are day numbers and months have `DaysPerMonth` days.
An amount is one the rates divide (`Convertible`), so that converting it loses nothing: the code has
floating point, and rounding is left out as elsewhere. The token ids of a portfolio are distinct. `Page`
has the state of `App` (`status`, `data`, `poolRefs`), of the panel and of the calendar, the effects
that have not settled, and the memo and store of the daily cache. `Render` ends each action that sets
state: effects whose dependencies changed are cleaned up (`live` FALSE) and started again, and the
calendar keeps or takes its month. What `analyze` resolves to is a choice among portfolios, or an error.
`MonthInRange` has the premise that the calendar was opened on the result it shows: when an overlapping
run replaces a result without the page leaving "done", the calendar stays on the month of the one
before. The pools of an earlier run may overwrite those of a later one (`App.tsx:63`); the chart is
judged against the pools the page has. `SettledIsCurrent` judges it only while there are some: with the
scope pinned to the pools and none there, the effect returns early (`SwapVolume.tsx:108`) and the chart
of the pools before stays. `VolumePeriods` ends where the panel's table and chart begin, at the last
`MAX_POINTS` of the trimmed axis. `Render` begins the loads of all pools of a fetch at once, where
`fetchPoolsVolume` walks them with two workers (that is `VolumeBatch`); which loads share a response,
and how many are made, does not depend on it. The ETH rate is no variable: what is shown is judged at every
rate, so a late live rate cannot make a sum wrong, whoever wins.

## 3. Runs

Every property of a passing run has a mutant in `PROJECT.json` that the run's own
configuration refutes.

| Run | Question | Bounds |
|---|---|---|
| `RpcThrottle_all` | slots, queue, permit, gate, retries; every call ends | 4 requests over 3 slots, 2 attempts: one waits, a halving leaves 1, recovery widens by one; stated waits 0, within and over the cap |
| `RangeCache_tabs` | record and answer exact | 2 scans interleaved, 4 blocks, depth 2, one start block, heads that lag by 3 |
| `RangeCache_starts` | the same with two start blocks: **violated** | 2 scans, 5 blocks |
| `BatchCache_ids` | records and answers exact, per id | 1 batch at a time, 2 ids, 4 blocks, depth 2, two start blocks, heads that lag by 3 |
| `PointCache_safety` | finality, failures, rescans | 3 calls, 2 facts, 2 rescans, depth 2 and transit 1 of 3 |
| `TokenBucket_safety` | budget, order, backoff | 5 requests in 6 ticks, 3 rates between floor and ceiling, bursts of 2 |
| `VolumeBatch_all` | no pool lost or doubled, honest result, an end; implements `Batch` | 5 pools, 2 workers, 3 tries, 2 resumes |
| `WalletScan_all` | one outcome per position, subject, tags, every call ends | 1 scan of 0 to 3 positions, 2 workers, 2 attempts; 2 look-ups; 2 calls open at once |
| `Position_all` | what was put in, paid out and earned is what is reported, or it is flagged | v3 and v4; 3 blocks, ticks 0 to 7 with a range of 2 to 4, five kinds of change, growth modulo 4, any prefix of state pruned, traces there or not |
| `LogSplit_all` | pieces, floor, lanes, spilling; a search ends | 5 blocks with logs in three, one log per answer, 2 attempts, pruning up to block 3; five deployments: edge for a listed wallet and for a stranger, server, two of Arc |
| `Page_all` | chart, daily cache, sums, calendar; loading ends | 2 queries, 2 runs, 3 clicks, 1 failure of the provider, rates 0, 3 and 4; charts of up to 20 days or 3 weeks, so that series are cut |
| `Page_busy` | idle panel is not busy: **violated** | the same with 2 clicks |

The bounds suffice for the interesting cases because each property is violated by two or
three actors at most: two scans and a third write, two workers and a queue with more than
either holds, a waiter and a permit that can both shrink and grow; a mint, a change and a
removal of one position with the node pruned between any two; a range that is cut twice;
two effects of the panel and a run that replaces another. Ticks reach both limits at which a
tick is no price, both sides of the range and its inside. The theorems remove the bounds for
ten components; batches that interleave over several ids, too many states to run, are
covered by the proof about `BatchCache`.

Several invariants join named parts that the same run needs: `Accounting` is `SlotAccounting`
and `QueueIsTheQueued`; `CacheSound` is `TypeOK` and `RecordComplete`; `MemoSound` is `TypeOK` and
`NeverPoisoned`; `PoolsAccounted` is `EachPoolOnce` and `ResultAccountsForAll`;
`PositionsAccounted` is `TypeOK`, `EachPositionOnce` and `ResultComplete`; `ReportSound` is `TypeOK`,
`FeesNotNegative` and `PricedForReal`; `QuerySound` is `TypeOK`, `EveryBlockOnce` and `LogsExact`;
`PageSound` is `TypeOK`, `NoFailureKept` and `MonthInRange`.

Deadlock is checked in every run; the models of things that end stutter at their end.

### Fairness

`RpcThrottle`: time passes, a due continuation runs, and a request sent is answered somehow
(the transport times out by itself). Nothing is assumed about which answer, so a refusal
each time is allowed. Weak fairness is enough, although the queue is shared: a queued waiter
is moved by another's release, which is fair by itself.
`VolumeBatch`: each worker goes on (timers fire, `AbortSignal.timeout` ends a request) and
the loop of the batch runs. A provider that never relents is allowed.
`WalletScan`: each call that has begun goes on (its requests get slots and some answer, its
timers fire); beginning one is the user's choice, and so is which answer comes.
`LogSplit`: some request of the search is answered, in whatever way, and its caller goes on.
`Page`: a run that was started ends, with a result or an error, which is `CallsEnd` of
`WalletScan`; nothing is assumed of the provider or the user.
`RangeCache_starts` runs with fair scans too, though what it refutes is a safety property.

### What the violated runs show

- `RecordComplete` in `RangeCache_starts`: `cachedLogRange` hands the reach of the stored
  record to `writeRange` also when the record starts elsewhere and is not used
  (`chain-cache.ts:192`). If that reach is ahead of the new request by more than
  `REORG_DEPTH`, the new record claims blocks nobody read, for good. It takes a key shared
  by two start blocks (`v4:modify:<pool>:<tokenId>`, whose start is the first transfer to
  the wallet that is scanned) and a scan whose head is old. `cachedLogsById` clears such a
  record first and its theorem holds.
- `IdleIsNotBusy` in `Page_busy`: the cleanup of the pools' effect makes its fetch skip
  `setBusy(false)` (`SwapVolume.tsx:125`), and the effect that replaces it returns early when
  the reader turned to all of Uniswap or a new run took the pools away. The panel stays
  dimmed and its retry disabled though no request is left, until the granularity is changed, the
  reader returns to "Your pools", or the pools of a new run arrive. That it should not is implied
  by the comment at `SwapVolume.tsx:226`, which calls the dimming that of a reload.

### Behaviour worth knowing that no run states

- a v4 position that was given away and came back is read from the wallet's own events
  (`restrictToOwner`), and `chain-v4.ts:747` counts "unclaimed fees since last checkpoint" from
  the last of these: what the holder in between was paid is reported again, with both flags
  set. `PayoutsExact` without its premise `OnlyMine` is refuted on four blocks (`MaxBlocks` 4,
  `Ticks` {3}, no late ticks, pokes only): mint, give away, poke by the other, give back.
- `throttle` passes the gate, then waits for a slot, then sends without looking at the gate
  again: requests queued when a 429 comes are sent in the pause, as the slots come free
  (`rate-limit.ts:16-18` speaks of a quiet window). `OncePerPause` is what is kept of it.
- a load that a rescan finds under way is not told of it: it may write to disk, after the clear, what
  a node told it before, and a call after the rescan reads that. "Reads the chain from scratch"
  (`chain-cache.ts:280-281`) is more than `resetCaches` does; `RescanForgets` states what it does.
- a dead backend that answers 200 with `dial tcp ... no route to host` (`rpc-logs.ts:62-76`), or a node
  that says "history unavailable" (`rpc-logs.ts:154`), ends the request at that upstream:
  `spill.ts:106-115` finds no reason and `rpc.ts:198-203` relays it, although a later upstream could
  answer. The first is retried by the page; the second moves the floor of a log search that an
  archive could have answered.
- with the scope pinned to the pools, a new run or a wallet without pools leaves the pools of the wallet
  before charted as "your pools" (`SwapVolume.tsx:108`, `190-195`).
- chart and table are both cut to `MAX_POINTS` (`SwapVolume.tsx:164`, `243`): what is older than 60 days or
  14 weeks is nowhere on the page, although the comment at line 33 says that it stays reachable in
  the table.
- `analyze` clears the one subject when it begins and when it ends, so what is left of a call
  that another one overlapped goes out untagged, or as the other's (`chain.ts:1050`); a rescan
  awaits `resetCaches` with the form enabled (`App.tsx:130`), so two calls can overlap.
- `cachedByKey` deletes by key: a load that fails after a rescan evicts its successor's promise
  (`promise-cache.ts:8-10`), so a third caller loads again.
- the memo serves an answer that was not final for the life of the page, not of the scan
  (`chain-cache.ts:116-118`).
- `writeRange` may shrink a record, for overlapping scans compute what to write from what they
  read (`log-cache.ts:60`). Only speed is lost.
- `resolveGenesisFloor` keeps its floor for the life of the page while the node prunes on, and
  ownership logs do not say that they are truncated.
- when an early upstream limits its rate and a later one has pruned the block, the message is
  that every upstream refused it (`read-failure.ts:42-44`).
- the effect of the chain's chart sets `busy` to FALSE while the pools' fetch is under way, and
  the pools' effect clears the error of the chain's.

## 4. Proofs

The theorems hold for every value of the constants that satisfies the named assumptions of
the module; the runs check the same formulas on small instances.

- `Rpc_proofs`, `RpcThrottle`: the safety properties of `RpcThrottle_all`, for any finite set of
  requests. The invariant adds to type correctness that the slots counted are held, that the
  queue is exactly the queued, that a sleeper's nap outlasts what it is owed, and that what
  a request is owed is covered by the pause. For `OncePerPause` it adds where the
  requests heard since the last pause can be: at the endpoint, done, or at the gate for a pause that
  is not over, never in the queue for a slot (`HeardWait`). Assumptions: finitely many requests, positive
  limits, waits in ticks.
- `Rpc_proofs`, `LogSplit`: the four invariants of `LogSplit_all`, for any chain, logs, cap on an
  answer, tolerance, course of pruning and set of deployments. The pieces of a query are a
  sequence, and the one change to it puts two where one was. That pieces adjoin and that an
  answered piece has the logs of its blocks would do for the run's formulas only with an
  induction along the sequence, so `IInv` says three things that each survive a cut: pieces
  adjoin, they are in order, and every block from the start to the tip is in one of them. For
  the floor it says that the lower bound of a search in progress is pruned (`lo < kept`), so
  whatever `findLogFloor` settles on lies within the tolerance of a block that is gone; a
  request comes back as pruned only if it names such a block (`GoneIsPruned`), which goes
  through every list of upstreams the proxy may have. `StrangersStayPublic` and
  `HonestlyPruned` hold of each single read, so they are proved of the proxy's operators: what a
  list of upstreams is made of, that the first final answer is what is relayed, and that on the
  edge whatever the page takes for pruned spills, so that it comes from the last upstream and no
  one before it had an answer (`EdgeSpills`).
- `Logs_proofs`, `LogChain`: settled blocks never change, and `Matching` over a settled range is the
  same before and after every chain step. Both caches rest on it.
- `Logs_proofs`, `BatchCache`: records complete and answers exact, for any number of ids, scans,
  blocks, any start blocks, head lag and depth. Invariant: besides the store's soundness, a
  record a scan has read is sound (whatever happened to the store since), a request's end
  was a block of the chain then, and what a bucket fetched agrees with the chain in its
  settled part. A record is only ever extended from a fetch that starts where a sound record
  ends.
- `Logs_proofs`, `RangeCache`: the same for one key, under the premise `OneStart` (all requests of the
  key start at one block), without which `RangeCache_starts` shows it false. The premise is
  stated in each theorem, not assumed by the module.
- `Scan_proofs`, `PointCache`: the store is final, the memo holds no failure, a rescan forgets. An
  answer under way is at most `Transit` blocks old; so when the head says that a block is
  `REORG_DEPTH` deep it was `Depth` deep when the answer was given, and what is that deep stays.
  Assumption: `Depth + Transit <= REORG_DEPTH` (`DepthSuffices`), as in section 2. For the rescan the
  invariant dates what is kept: the promise in the memo and the point on disk are of this side of the
  last rescan, no load resolves to what was settled before it began, and whoever a caller follows
  began on its side of the rescans (`Dated`).
- `Volume_proofs`, `TokenBucket`: budget, order and backoff, for any rates, burst and number of
  requests. The invariant relates every reserved moment to what the bucket holds: the
  tokens in it, plus one for each request since moment `i`, are covered by the burst and the
  refill since `i`. It is needed because the property alone says nothing about the next
  request.
- `Volume_proofs`, `VolumeBatch`: each pool is in the queue, in one hand or in one list, for any number
  of pools, workers, tries and resumes; and the batch implements `Batch`. All steps are four moves of
  pools (the last one filed, one filed and the next taken, one put back, the first ones dealt to the
  workers), so the invariant is proved for the moves once; a stop that is not resumed leaves a pool
  exactly when something is left, which is what the abstract result says.
- `Scan_proofs`, `WalletScan`: the accounting of positions, and the subject. Positions below the cursor
  are each in one hand or among the outcomes, and a stage says what is left of its reads. For
  the subject, a step keeps it still, goes on with its own, begins or ends a call: it is never
  that of a call that is over, and a call that met no other sends as itself.
- `Page_proofs`: the six invariants of `Page_all`, for any runs, portfolios, pools, clicks, failures,
  candles and rates. For `PageSound`, `SettledIsCurrent` and `OneRequestADay`, `IInv` has a part for
  each. `LoadsTyped`: what the memo names is a load of that url that has not failed, and what an effect
  waits for exists. `Charted`: a fetch that is heard is for what is selected, and what is selected is
  shown, being fetched, or could not be had; the second half is what makes a settled chart current.
  `Dated`: the month is in range, and the results on the page and under the calendar are of runs that
  had one, so a run that reports now is another than theirs, and its result finds no calendar of its
  own; of a calendar kept from another run nothing is claimed (`MonthInRange`). `Spent` counts: the loads of a url, the next one if the memo has no promise for it, and the
  rescans that have emptied the store but not the memo yet, are no more than one, its failures and its
  resets. A `Render` is treated once (`RenderStep`), whichever of the eight actions ends with it; that
  the page's months have a first and a last is a fact about finite sets of integers (`Ends`).
- `Page_proofs`, the figures: `BarAddsUp`, `MonthsMatchBar` and `RecentVolumeShown` equate sums over
  different sets. `Library_proofs` has what that takes. A sum is the library's recursive function,
  which takes the members of a set in an order it chooses; by induction over finite sets
  (a smallest counterexample) removing any member removes its value (`SumRemove`), and the
  rest follows: sums of sums, of multiples, over unions, over the members of a partition
  (`SumGroup`), over an injective image (`SumImage`), of the rows and of the columns of a table
  (`SumSwap`). The headline equals its parts because the worth of a sum is the sum of the worths
  when the rate divides the terms (`WorthAdds`), and positions keep apart as items by their token
  ids. Days add up to their month, and months to the headline, by `SumGroup`. In the chart,
  `SumGroup` takes candles to buckets and `SumSwap` series to bars; every bucket has its bar
  since keys of weeks are Mondays and the axis goes by sevens from one of them (`PeriodKeys`,
  `SpanOf`), the bars that are trimmed are empty, and since the axis has no gaps the last n of its
  points are those less than n periods before the end (`LastPoints`), so the cut takes exactly the
  volume that is older (`ChartsWhole`).

- `Position_proofs`: `NoFalseAlarm`, for any range of ticks, any growth and any course of events.
  `ChainInv` is what the chain guarantees whatever is mined: custody passes from holder to
  holder, and what a transaction pays out covers what it takes out of the range. `ReaderInv` is
  what a reading knows between two of its awaits: its events are those of the blocks it
  counted, all of them and in order (`RawOf`), and the state of each block is the chain's
  unless the node had lost it (`StatesRead`). Between the two lie the code's folds, each a
  lemma: the windows of `ownershipOf` are the custody the chain had (`WindowsAre`), the flows of
  `fetchOwnerFlowsByTx` are what was paid when the wallet spent nothing in that transaction
  (`FlowsAre`), a payout that is at least the principal refutes no removal (`NothingRefuted`), and
  the walk of `buildV4Events` keeps a liquidity that is never negative with fees from a
  difference of growth modulo `Wrap` (`WalkSteps`). `Library_proofs` has what the folds need: a
  function defined by recursion on the numbers exists and has its equations, and an induction
  along a sequence is one over the numbers up to its length, with a set for its predicate
  (`CountUp`), since an operator cannot be one. Assumptions: `TicksOrdered`, `WrapPositive`,
  `NoGrowthIsNone`, `HeldOnIsNoBlock` (the marks for "no growth" and "held on" are no values),
  `ChainAssumption`, `ReaderAssumption` (amounts are not negative).
- `Report_proofs`, under the same assumptions: `ReportSound`, `PaidIsReported`, `DepositsExact`,
  `PayoutsExact` and `FlatMarketNoGain`. The lemmas on the core's operators are in `Position_proofs`.
  Events are fair (`Fair`) when a removal takes no more than what its transaction collects; then every
  fee of `computePnL` is an amount (`ClaimsAre`), and withdrawals and fees together are what was
  collected (`CollectedIs`). The chain's v3 events are fair because it pays for what it takes out
  (`EventsFair`), and the two synthetic events of an open position keep them so (`SyntheticIs`). Those
  that `buildV4Events` makes of raw changes are fair as long as the liquidity the walk carries is the
  chain's: read from the mint on, with one change to a block, it is (`LiqIs`, `MintDecoded`), and then
  fees from growth are amounts; or what was paid has been read, and a removal is capped by it
  (`TakesAre`). That is why `FeesNotNegative` has the premise it has, and why a position that only takes
  out reports exactly what it was paid with no premise about ticks (`V4Pays`): the tick decides only how
  much of a payment is principal. Prices: an event's amounts evidence a price inside the range
  (`EvidenceIs`, by `TimesBack`), a pool at the AMM's limit is priced by a trade, a neighbour or a bound
  (`ResolveIs`), and a feed has no other points (`FeedPriced`, `FeedV4`). `SoundInv` adds to `ReaderInv`
  that the logs in hand are the chain's decoded events and the states are at ticks the AMM has, which
  `Mine` cannot change. Deposits: a block spends what its one increase takes at its tick (`Spending`,
  `PutInOne`). In v3 the event says so itself (`V3PutsIn`); in v4 the tick may come from elsewhere, and
  every source that is not flagged gives the same amounts back. The block's own state is its tick, no
  trade coming after; of the last trade at or before a block, that it left the pool where that block
  leaves it is an induction over the blocks between (`SwapTickIs`). The tick that a mint's own payment
  evidences is the subtle one: `impliedMintTicks` accepts one percent, but token1 is read to the unit,
  so the tick is the mint's whenever both tokens moved, and when one moved the bound it yields gives the
  same amounts, even with change sent along in the native coin (`TickOfMint`, `SpentIs`). What the owner
  is paid in the same transaction would shift it: `FreshMints`. `DepositInv` carries to the report that
  every mint's state gives its deposit back; a reconciled removal or a pool at its limit raises the flag
  that `DepositsExact` excludes.

  Payouts: `PayoutInv` adds three things to `SoundInv`. `Accounts` is the chain's: growth never
  falls, and a v4 change pays what it takes out and the growth since the change before it, so what
  the owner has coming is known from one block. `MetaTrue` says that the liquidity and the debt that
  are read first were the chain's at that block and still are if no change came after, which makes
  the mark of an open position exact under `Untouched`. `StatesTrue`, needed while a v4 reading goes
  on, says that a state's growth is the chain's modulo `Wrap` or missing, and that its tick is the
  chain's wherever liquidity came out: it is the block's own state or what the last trade left, and a
  tick from anywhere else, or moved by the reconciliation, is flagged. A walk from the mint then
  takes each payment from what was received, or from two growths; their difference modulo `Wrap` is
  the real one because what a position earns in its life stays below `Wrap` (a guard of
  `PositionChain`; 2^256 in the contract: `GrowthBetween`). In v3 what a transaction collects says it
  by itself, by `CollectedAtOnce`.

  A flat market: `FlatInv` joins `DepositInv` and `PayoutInv`, since the theorem needs deposits and payouts
  exact at once, and adds `Forgets` (a pruned block gives no growth, so what it does not give cannot be
  mistaken for a fee). What blocks put in is what they took out and what is left, by induction over the
  blocks (`FlatBalance`). Every price the report uses is that of the one tick (`FlatPoints`), whether read
  from a state, an event's amounts or a trade, so the worths add up in the anchor (`FlatUsd`).

Every safety invariant that a passing run checks is now stated by a theorem. Only model-checked: all
liveness (`EveryCallSettles`, `BatchEnds`, `CallsEnd`, `SearchEnds`, `LoadingEnds`), since the prover
does not do `ENABLED` and fairness. Where a proof needs an induction over numbers it takes a least
counterexample, which the library's well-foundedness of `<` gives without an operator parameter. Proof
modules and what they extend contain no `RECURSIVE` operator.

## 5. Not modelled

- Token metadata memo: the promise memo of `PointCache` over a key that is never persisted.
- Chain table, formatting, messages to the user: constants and presentation.
- The command line: sequential, around an earlier copy of the PnL core
  (`src/uniswap-v3-pnl.ts`), with no state of its own.
- `idb.ts`: opening, upgrading and the stand-ins for a missing IndexedDB; the caches see a
  transaction as atomic, a read that may miss, a write that may be dropped.
- `chain-v4.ts:101-207`, the explorer's trace reader: only its outcome, traces or none. Its
  budget is `TokenBucket`.
- `poolRefsFor`'s requests (the pools it may name are a choice in `Page`), `fetchEthUsd`, the
  `usable` filter of `cachedPoint`, the text matching that tells one error from another (a
  choice between outcomes), body limits and headers of the proxy.
- UTC midnight between the request and the write of the daily cache (`volume.ts:342`): the one
  hazard of `PROJECT.json` without a property, since `Page` lives within a day.
- Rounding of fixed-point prices, and the dollar value of an anchor over time.
- Etherscan's page cap on `getLogs`: the index is a node that answers or does not.

## 6. Plan

Done, in this order: throttle, caches, budget, batch, analysis with their theorems; then log
splitting with the proxy; the readers of a position with the core, ownership and v4; the
page with its ledger; the abstract batch and its refinement; proofs for `RangeCache`,
`PointCache`, `VolumeBatch`, `WalletScan`, `LogSplit` and `Page`, the sums of its figures included;
for `PositionReader`, the six invariants of `Position_all`.

Left, most important first:

1. An abstract source of logs (an answer is the chain's settled logs) that `BatchCache` and, for
   one start block, `RangeCache` implement.
2. `Position_all` with larger instances: two positions of one pool, four blocks, a second kind
   of pair.
3. The day of the daily cache across midnight, and joining a batch under way in `VolumeBatch`.
