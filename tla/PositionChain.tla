---------------------------- MODULE PositionChain ----------------------------
(***************************************************************************)
(* The chain as far as one position is concerned, which the readers of     *)
(* PositionReader ask about: a pool whose tick moves, the position's       *)
(* liquidity, what its owner pays in and is paid, and the transfers of its *)
(* token.  Nothing of this is in the repository; it is what the code reads *)
(* it for.                                                                 *)
(*                                                                         *)
(* A block holds one transaction of the position, with one change of its   *)
(* liquidity or two, or none, and maybe a transfer.  Before it the pool    *)
(* may trade and earn fees, after it the pool may trade again.             *)
(***************************************************************************)
EXTENDS V4Decode, Ownership

CONSTANTS
    Me, Other,      \* wallets
    Ticks,          \* where the pool may be
    LateTicks,      \* where a trade may take it after the position's transaction
    Opening,        \* the liquidity of the first mint
    Changes,        \* what a transaction may do: sequences of changes of liquidity
    Growths,        \* fees earned between two blocks, per unit of liquidity
    BaseGrowth,     \* what the accumulator starts at
    MaxBlocks       \* bound: blocks of a behaviour

ASSUME ChainAssumption ==
    /\ Me # Other /\ Nobody \notin {Me, Other}
    /\ Ticks \cup LateTicks \subseteq MinTick .. MaxTick
    /\ Opening \in Nat \ {0}
    /\ Changes \subseteq Seq(Int) \ {<<>>}
    /\ Growths \subseteq Nat /\ BaseGrowth \in Nat
    /\ MaxBlocks \in Nat \ {0}

VARIABLES
    version,    \* "v3" or "v4"
    blocks,     \* [tick, after, delta, growth, liq, owner, next, spent, paid]
    owed        \* [fees, principal, since]: what v3 owes the position, and the growth at
                \* its last change

chainVars == <<version, blocks, owed>>

Height == Len(blocks)
Tip == blocks[Height]
FeeGrowthInside(b) == (BaseGrowth + blocks[b].growth) % Wrap

Net(delta) == SumFunction(delta)
PutIn(delta, tick) ==
    Total([i \in {i \in DOMAIN delta : delta[i] > 0} |-> amountsFromLiquidity(delta[i], tick)])
TakenOut(delta, tick) ==
    Total([i \in {i \in DOMAIN delta : delta[i] < 0} |-> amountsFromLiquidity(-delta[i], tick)])

\* What liquidity L has earned when growth has come to g.
Earned(g, L) == <<(g - owed.since) * L, (g - owed.since) * L>>

\* The mint, by me or by somebody I may get the position from.
ChainInit ==
    /\ version \in {"v3", "v4"}
    /\ \E who \in {Me, Other}, t \in Ticks :
          blocks = <<[tick |-> t, after |-> t, delta |-> <<Opening>>, growth |-> 0,
                      liq |-> Opening, owner |-> who, next |-> who,
                      spent |-> amountsFromLiquidity(Opening, t), paid |-> Zero]>>
    /\ owed = [fees |-> Zero, principal |-> Zero, since |-> 0]

\* A change books what was earned and what is taken out; it is paid at once in v4, and
\* when the transaction also collects in v3.  An empty position's token may be burnt.
ChangeOf(t, after, delta, grown, collects, burnt) ==
    LET g == Tip.growth + grown
        L == Tip.liq + Net(delta)
        fees == Plus(owed.fees, Earned(g, Tip.liq))
        principal == Plus(owed.principal, TakenOut(delta, t))
    IN  /\ Tip.next # Nobody
        /\ \A i \in DOMAIN delta : Tip.liq + Net(SubSeq(delta, 1, i)) >= 0
        /\ g < Wrap
        /\ version = "v4" \/ delta = <<0>> => collects
        /\ burnt => collects /\ L = 0
        /\ blocks' = Append(blocks,
             [tick |-> t, after |-> after, delta |-> delta, growth |-> g, liq |-> L,
              owner |-> Tip.next, next |-> IF burnt THEN Nobody ELSE Tip.next,
              spent |-> PutIn(delta, t),
              paid |-> IF collects THEN Plus(principal, fees) ELSE Zero])
        /\ owed' = IF collects THEN [fees |-> Zero, principal |-> Zero, since |-> g]
                   ELSE [fees |-> fees, principal |-> principal, since |-> g]
        /\ UNCHANGED version

Change ==
    \E t \in Ticks, delta \in Changes, grown \in Growths, collects, burnt \in BOOLEAN :
    \E after \in {t} \cup LateTicks : ChangeOf(t, after, delta, grown, collects, burnt)

\* The pool earns, and trades or the token changes hands.
Pass ==
    \E t \in Ticks \cup LateTicks, grown \in Growths, next \in {Me, Other} :
        /\ Tip.growth + grown < Wrap
        /\ Tip.next # Nobody
        /\ t = Tip.after \/ next = Tip.next
        /\ blocks' = Append(blocks,
             [tick |-> t, after |-> t, delta |-> <<>>, growth |-> Tip.growth + grown,
              liq |-> Tip.liq, owner |-> Tip.next, next |-> next, spent |-> Zero, paid |-> Zero])
    /\ UNCHANGED <<version, owed>>

Mine == Height < MaxBlocks /\ (Change \/ Pass)

-----------------------------------------------------------------------------
(* What the chain answers *)

\* The token's transfers up to a block, the mint among them.
TransfersTo(head) ==
    LET moved == Picked([b \in 1 .. head |-> b],
                        {b \in 1 .. head : b = 1 \/ blocks[b].next # blocks[b].owner})
    IN  [i \in DOMAIN moved |->
          [block |-> moved[i], to |-> blocks[moved[i]].next,
           from |-> IF moved[i] = 1 THEN Nobody ELSE blocks[moved[i]].owner]]

\* The position's raw v4 events up to a block.
ModifiesTo(head) ==
    FlattenSeq([b \in 1 .. head |->
        [i \in DOMAIN blocks[b].delta |-> [block |-> b, delta |-> blocks[b].delta[i]]]])

\* The position's v3 events up to a block: those of a transaction, and its collect last.
V3EventsTo(head) ==
    LET Of(b) ==
          LET changes == Picked(blocks[b].delta, {i \in DOMAIN blocks[b].delta : blocks[b].delta[i] # 0})
              Event3(kind, amt, liq) ==
                  [kind |-> kind, tx |-> b, at |-> b, amt |-> amt, liq |-> liq]
          IN  [i \in DOMAIN changes |->
                  Event3(IF changes[i] > 0 THEN "increase" ELSE "decrease",
                         amountsFromLiquidity(Magnitude(changes[i]), blocks[b].tick),
                         Magnitude(changes[i]))]
              \o IF blocks[b].paid = Zero THEN <<>>
                 ELSE <<Event3("collect", blocks[b].paid, 0)>>
    IN  FlattenSeq([b \in 1 .. head |-> Of(b)])

\* What its trace shows of a transaction's native leg: token0 paid, the change of a sum
\* sent in excess, the same once more as seen by a proxy, and a call that failed.
CallsOf(b, refund) ==
    LET n == blocks[b].paid[1] + refund
    IN  <<[type |-> "call", ok |-> TRUE, net |-> n],
          [type |-> "delegatecall", ok |-> TRUE, net |-> n],
          [type |-> "call", ok |-> FALSE, net |-> 1]>>

\* The pool's trades from the mint's block on, up to a block: where they left the tick.
SwapsTo(head) ==
    FlattenSeq([b \in 1 .. head |->
        (IF b > 1 /\ blocks[b].tick # blocks[b - 1].after
         THEN <<[at |-> b, tick |-> blocks[b].tick]>> ELSE <<>>) \o
        (IF blocks[b].after # blocks[b].tick
         THEN <<[at |-> b, tick |-> blocks[b].after]>> ELSE <<>>)])

=============================================================================
