--------------------------- MODULE PositionReader ---------------------------
(***************************************************************************)
(* `computePositionPnL` of web/src/lib/chain.ts and `computePositionPnLV4` *)
(* of web/src/lib/chain-v4.ts: one position's profit and loss, put together*)
(* from reads of a chain that goes on meanwhile (PositionChain) and of a   *)
(* node that forgets old state.  A stretch of reads nothing else depends on*)
(* is one action.                                                          *)
(*                                                                         *)
(* A read that fails for a moment ends the attempt where it stands, which  *)
(* no step stands for (`retry` makes another, WalletScan); a read of pruned*)
(* state answers null.                                                     *)
(***************************************************************************)
EXTENDS PositionChain, FiniteSets

CONSTANTS
    InitTick,   \* where the pool was initialised
    Refund,     \* what a mint sends along in excess and gets back
    Unreadable, \* sets of transactions whose trace the explorer may not give
    Pairs       \* "anchor0", "anchor1" or "unsupported": what pickNumeraire finds

ASSUME ReaderAssumption == Refund \in Nat /\ InitTick \in MinTick .. MaxTick

VARIABLES
    pc,
    ctx,        \* whether it is a wallet that is read, or one transaction's position
    head,       \* the block the logs are read up to
    meta,       \* [pair, liq, owed], as read first, at block `at`
    raw,        \* the position's events: LiquidityEvents in v3, raw ones in v4
    own,        \* [held, owner]: heldNow, and whose flows count
    st,         \* v4: stateByBlock
    received,   \* v4: actualReceived
    lost,       \* v4: the blocks whose state the node no longer has
    ticksOk, feesOk,    \* tickComplete, feesComplete
    result

readerVars == <<pc, ctx, head, meta, raw, own, st, received, lost, ticksOk, feesOk, result>>
vars == <<chainVars, readerVars>>

NoResult == [open |-> FALSE]

Init ==
    /\ ChainInit
    /\ pc = "idle" /\ ctx = FALSE /\ head = 0
    /\ meta = [pair |-> "unsupported", liq |-> 0, owed |-> Zero, at |-> 0]
    /\ raw = <<>> /\ own = [held |-> TRUE, owner |-> Me]
    /\ st = <<>> /\ received = <<>> /\ lost = {}
    /\ ticksOk = TRUE /\ feesOk = TRUE /\ result = NoResult

TypeOK ==
    /\ pc \in {"idle", "meta", "logs", "states", "now", "done", "failed"}
    /\ head \in 0 .. MaxBlocks
    /\ DOMAIN st \subseteq 1 .. MaxBlocks
    /\ DOMAIN received \subseteq DOMAIN st
    /\ lost \subseteq 1 .. MaxBlocks
    /\ ticksOk \in BOOLEAN /\ feesOk \in BOOLEAN
    /\ \A b \in DOMAIN st : st[b].tick \in MinTick .. MaxTick

\* A scan has read the head already, and the transfers up to it; a look-up has not.
Begin ==
    /\ pc = "idle"
    /\ ctx' \in BOOLEAN
    /\ head' = IF ctx' THEN Height ELSE 0
    /\ pc' = "meta"
    /\ UNCHANGED <<chainVars, meta, raw, own, st, received, lost, ticksOk, feesOk, result>>

\* fetchMeta, positions(): as the chain stands now.
ReadMeta ==
    /\ pc = "meta"
    /\ \E pair \in Pairs :
          /\ meta' = [pair |-> pair, liq |-> Tip.liq, owed |-> Plus(owed.fees, owed.principal),
                       at |-> Height]
          /\ pc' = IF pair = "unsupported" THEN "failed" ELSE "logs"
    /\ UNCHANGED <<chainVars, ctx, head, raw, own, st, received, lost, ticksOk, feesOk, result>>

-----------------------------------------------------------------------------
(* The logs, and whose they are *)

AtOf(e) == IF version = "v3" THEN e.at ELSE e.block

\* restrictToOwner: the events while the wallet held the token; all of them, when no
\* transfer says that it ever did.
Scoped(events, transfers) ==
    LET o == ownershipOf(transfers, Me) IN
    IF o.windows = <<>> THEN [events |-> events, held |-> TRUE]
    ELSE [events |-> Picked(events, {i \in DOMAIN events : heldAt(o, AtOf(events[i]))}),
          held |-> o.open]

\* fetchLifecycle and ownershipLogs.  Without a wallet v4 takes the latest holder's flows.
ReadLogs ==
    LET upTo == IF ctx THEN head ELSE Height
        events == IF version = "v3" THEN V3EventsTo(upTo) ELSE ModifiesTo(upTo)
        transfers == TransfersTo(upTo)
        scoped == IF ctx THEN Scoped(events, transfers) ELSE [events |-> events, held |-> TRUE]
    IN  /\ pc = "logs"
        /\ head' = upTo
        /\ raw' = scoped.events
        /\ own' = [held |-> scoped.held,
                   owner |-> IF ctx THEN Me ELSE transfers[Len(transfers)].to]
        /\ pc' = IF scoped.events = <<>> THEN "failed"
                 ELSE IF version = "v3" THEN "now" ELSE "states"
        /\ UNCHANGED <<chainVars, ctx, meta, st, received, lost, ticksOk, feesOk, result>>

-----------------------------------------------------------------------------
(* v4: flows, ticks and fee growth *)

Txs == {raw[i].block : i \in DOMAIN raw}

\* Mutant of ownerFlows: a transaction whose trace cannot be read moved no native coin.
ownerFlowsUnreadZero(native, unread) ==
    LET Leg(b) == IF native /\ b \in unread THEN 0
                  ELSE blocks[b].paid[1] - blocks[b].spent[1]
        Flow(b) == <<Leg(b), blocks[b].paid[2] - blocks[b].spent[2]>>
    IN  [b \in {b \in Txs : blocks[b].owner = own.owner /\ Flow(b) # Zero} |-> Flow(b)]

\* fetchOwnerFlowsByTx: the net movement of both tokens, per transaction in which the
\* owner moved any.  A native leg is in no log: it is read off the trace, and of one that
\* cannot be read only what was sent along is known; else the transaction is left out.
ownerFlows(native, unread) ==
    LET mine == {b \in Txs : blocks[b].owner = own.owner}
        Value(b) == IF blocks[b].spent[1] = 0 THEN 0 ELSE blocks[b].spent[1] + Refund
        Known(b) == ~native \/ b \notin unread \/ Value(b) > 0
        Leg(b) == CASE ~native -> blocks[b].paid[1] - blocks[b].spent[1]
                    [] native /\ b \notin unread ->
                         nativeFlowForOwner(Value(b),
                           CallsOf(b, IF Value(b) = 0 THEN 0 ELSE Refund))
                    [] OTHER -> -Value(b)
        Flow(b) == <<Leg(b), blocks[b].paid[2] - blocks[b].spent[2]>>
    IN  [b \in {b \in mine : Known(b) /\ Flow(b) # Zero} |-> Flow(b)]

\* What a block's own state says, if the node still has it.
slot0TickAt(b, gone) == IF b \in gone THEN NoTick ELSE blocks[b].after
feeGrowthAt(b, gone) == IF b \in gone THEN NoGrowth ELSE FeeGrowthInside(b)

\* What the trades since the mint say, none of which precedes it.
poolSwaps == SwapsTo(head)
swapTickAt(b) == tickAtBlockOrNull(poolSwaps, b)

\* Where the pool began.
poolInitTick == InitTick

\* Mutant of TickSources: the genesis tick is not told from one that was read.
TickSourcesUnflagged(b, gone, implied) ==
    [tick |-> IF slot0TickAt(b, gone) # NoTick THEN slot0TickAt(b, gone)
              ELSE IF b \in DOMAIN implied THEN implied[b]
              ELSE FirstOf(<<swapTickAt(b), poolInitTick>>),
     guessed |-> FALSE]

\* The tick of a block in order of trust: StateView, as the block left it; what the mint
\* evidences; the last trade since the mint's block; where the pool began, which is a guess.
TickSources(b, gone, implied) ==
    IF slot0TickAt(b, gone) # NoTick THEN [tick |-> slot0TickAt(b, gone), guessed |-> FALSE]
    ELSE IF b \in DOMAIN implied THEN [tick |-> implied[b], guessed |-> FALSE]
    ELSE [tick |-> FirstOf(<<swapTickAt(b), poolInitTick>>), guessed |-> swapTickAt(b) = NoTick]

\* The state of every event's block, the removals' ticks held against what was paid, when
\* the node has forgotten some blocks, and the tick of some of them.
StatesOf(flows, gone, tickGone) ==
    LET implied == impliedMintTicks(raw, outflowsOf(flows))
        source == [b \in Txs |-> TickSources(b, tickGone, implied)]
        read == [b \in Txs |->
                  [tick |-> source[b].tick, price |-> NoTick, fg |-> feeGrowthAt(b, gone)]]
        reconciled == reconcileRemovalTicks(raw, read, inflowsOf(flows))
    IN  /\ received' = inflowsOf(flows)
        /\ lost' = gone
        /\ st' = reconciled.st
        /\ ticksOk' = ((\A b \in Txs : ~source[b].guessed) /\ reconciled.fixed = 0)

\* The node forgets its oldest blocks; the tick of one may have been cached in time.
ReadStates ==
    /\ pc = "states"
    /\ \E native \in BOOLEAN, unread \in Unreadable, horizon \in {0} \cup Txs :
          LET gone == {b \in Txs : b <= horizon} IN
          /\ unread \subseteq Txs
          /\ ~native => unread = {}
          /\ \E tickGone \in {{}, gone} : StatesOf(ownerFlows(native, unread), gone, tickGone)
    /\ pc' = "now"
    /\ UNCHANGED <<chainVars, ctx, head, meta, raw, own, feesOk, result>>

-----------------------------------------------------------------------------
(* The result *)

IsOpen == meta.liq > 0 /\ own.held

\* The two synthetic events of an open position: what it would pay out now.
Synthetic(cur, fees) ==
    <<[kind |-> "decrease", tx |-> Open, at |-> Height, amt |-> cur, liq |-> 0],
      [kind |-> "collect", tx |-> Open, at |-> Height, amt |-> Plus(cur, fees), liq |-> 0]>>

Report(events, feed, feesKnown) ==
    /\ result' = [pnl |-> computePnL(events, feed, meta.pair = "anchor0"), open |-> IsOpen,
                  feed |-> feed, now |-> Height, exit |-> exitTxHash(events),
                  times |-> {events[i].at : i \in DOMAIN events}]
    /\ feesOk' = feesKnown
    /\ pc' = "done"
    /\ UNCHANGED <<chainVars, ctx, head, meta, raw, own, received, lost>>

\* v3: an open position is marked at the pool's price, a closed one priced by its last
\* burn.  A pool at the AMM's limit has no price: the bound it is pinned against stands in.
FinishV3 ==
    LET cur == amountsFromLiquidity(meta.liq, Tip.after)
        events == IF IsOpen THEN raw \o Synthetic(cur, meta.owed) ELSE raw
        live == IsOpen \/ closedExitPrice(events) = NoTick
        mark == IF live THEN pricingTick(Tip.after) ELSE closedExitPrice(events)
        markAt == events[Len(events)].at
    IN  /\ pc = "now" /\ version = "v3"
        /\ ticksOk' = (live => isPriceableTick(Tip.after))
        /\ Report(events, buildImpliedPriceFeed(events, mark, markAt), TRUE)
        /\ UNCHANGED st

\* v4: the same with the state at the tip, whose fee growth tells what is unclaimed.
FinishV4 ==
    LET last == raw[Len(raw)].block
        built == buildV4Events(raw, st, received)
        withNow == IF ~IsOpen THEN st
                   ELSE [b \in DOMAIN st \cup {Height} |->
                          IF b = Height
                          THEN [tick |-> Tip.after, price |-> NoTick, fg |-> FeeGrowthInside(Height)]
                          ELSE st[b]]
        known == withNow[last].fg # NoGrowth
        fees == IF known THEN feesFromGrowth(meta.liq, FeeGrowthInside(Height), withNow[last].fg)
                ELSE Zero
        events == built.events \o
                  IF IsOpen THEN Synthetic(amountsFromLiquidity(meta.liq, Tip.after), fees) ELSE <<>>
        pinned == \E b \in DOMAIN withNow : ~isPriceableTick(withNow[b].tick)
    IN  /\ pc = "now" /\ version = "v4"
        /\ \E swaps \in {poolSwaps, <<>>} :
            LET priced == IF pinned THEN resolvePriceTicks(withNow, swaps)
                          ELSE [st |-> withNow, fixed |-> 0]
            IN  /\ ~pinned => swaps = <<>>
                /\ st' = priced.st
                /\ ticksOk' = (ticksOk /\ priced.fixed = 0)
                /\ Report(events, buildV4PriceFeed(priced.st, events[Len(events)].at),
                          built.complete /\ (IsOpen => known))

Read == Begin \/ ReadMeta \/ ReadLogs \/ ReadStates \/ FinishV3 \/ FinishV4

Over == pc \in {"done", "failed"}

Next ==
    \/ ~Over /\ Mine /\ UNCHANGED readerVars
    \/ Read
    \/ Over /\ UNCHANGED vars

Spec == Init /\ [][Next]_vars

-----------------------------------------------------------------------------
(* Properties *)

Done == pc = "done"

\* The blocks whose flows are reported: the wallet's, or all when it never held the token.
EverMine ==
    \E i \in DOMAIN TransfersTo(head) : TransfersTo(head)[i].to = Me
Counted == {b \in 1 .. head : (ctx /\ EverMine) => blocks[b].owner = Me}

\* The premises, each a case in which the code knowingly or unknowingly gives way (README).
Changed == {b \in Counted : blocks[b].delta # <<>>}
NoLateTrade == \A b \in Changed : blocks[b].after = blocks[b].tick
OneChangeEach == \A b \in Changed : Len(blocks[b].delta) = 1
OneIncreaseEach == \A b \in Changed : Cardinality({i \in DOMAIN blocks[b].delta : blocks[b].delta[i] > 0}) <= 1
CollectedAtOnce == \A b \in Changed : TakenOut(blocks[b].delta, blocks[b].tick) # Zero => blocks[b].paid # Zero
MineFromMint == \A b \in 1 .. Max(Changed) : blocks[b].delta # <<>> => b \in Counted
OnlyMine == \A b \in 1 .. head : blocks[b].delta # <<>> => b \in Counted
FreshMints == \A b \in Changed \cap lost : (\E i \in DOMAIN blocks[b].delta : blocks[b].delta[i] > 0)
                                         => blocks[b].paid = Zero
Untouched == \A b \in Min({head, meta.at}) + 1 .. result.now :
                blocks[b].delta = <<>> /\ blocks[b].next = blocks[b].owner

\* What the position would pay now: the principal, what v4 has accrued, what v3 has booked.
MarkNow ==
    LET fees == IF version = "v4" THEN Earned(Tip.growth, Tip.liq) ELSE Plus(owed.fees, owed.principal)
    IN  IF result.open THEN Plus(amountsFromLiquidity(Tip.liq, Tip.after), fees) ELSE Zero

PaidOut == Total([b \in Counted |-> blocks[b].paid])
Reported == Plus(result.pnl.withdrawn, result.pnl.fees)

\* Deposits are what was put in, whichever source a pruned block's tick came from, as long
\* as the reading does not say that it guessed.
DepositsExact ==
    Done /\ ticksOk /\ NoLateTrade /\ OneIncreaseEach /\ FreshMints =>
        result.pnl.deposited = Total([b \in Counted |-> blocks[b].spent])

\* Withdrawals and fees together are what was paid out and what is still in the position,
\* to the token, when the reading says that nothing is missing: whatever was pruned, and
\* whatever the pool did while it was read.
PayoutsExact ==
    /\ Done /\ ticksOk /\ feesOk /\ NoLateTrade /\ Untouched
    /\ version = "v3" => CollectedAtOnce
    /\ version = "v4" => OneChangeEach /\ MineFromMint /\ (result.open => OnlyMine)
    => Reported = Plus(PaidOut, MarkNow)

\* A closed v4 position whose removals were all read off the chain reports what was paid,
\* though its ticks be guessed: no tick can make up or lose a payout.
PaidIsReported ==
    /\ Done /\ version = "v4" /\ ~result.open /\ Changed # {} /\ OneChangeEach
    /\ \A b \in Changed \ {1} : blocks[b].delta[1] <= 0 /\ b \in DOMAIN received
    => Reported = PaidOut

\* No fee is below zero, of a position read from its mint on.
FeesNotNegative ==
    Done /\ (version = "v4" => OneChangeEach /\ MineFromMint) =>
        result.pnl.fees[1] >= 0 /\ result.pnl.fees[2] >= 0

\* Nothing is priced at the AMM's limits, which are no price.
PricedForReal == Done => \A at \in result.times : isPriceableTick(result.feed[at])

\* What is reported makes sense by itself: amounts are amounts, and prices are prices.
ReportSound == TypeOK /\ FeesNotNegative /\ PricedForReal

\* A reading that lost nothing, of a pool that always had a price, is not flagged.
NoFalseAlarm ==
    /\ Done /\ lost = {} /\ OneChangeEach /\ NoLateTrade
    /\ \A b \in 1 .. Height : isPriceableTick(blocks[b].tick) /\ isPriceableTick(blocks[b].after)
    => ticksOk /\ feesOk

\* In a market that stands still inside the range, what the position has paid out and holds
\* comes to what was put in, in the anchor, but for its fees: every flow is priced alike.
FlatMarketNoGain ==
    /\ Done /\ OneChangeEach /\ OnlyMine /\ Untouched /\ ticksOk /\ feesOk
    /\ own.held \/ meta.liq = 0
    /\ \E t \in TickLower + 1 .. TickUpper - 1 :
          \A b \in 1 .. Height : blocks[b].tick = t /\ blocks[b].after = t
    => /\ result.pnl.pricePnlUsd + result.pnl.ilUsd = 0
       /\ result.pnl.netPnlUsd = Worth(result.pnl.fees, numerairePricePoint(blocks[1].tick, meta.pair = "anchor0"))

=============================================================================
