------------------------------ MODULE LogChain ------------------------------
(***************************************************************************)
(* The chain the log cache reads, as far as the cache can tell: blocks in  *)
(* order, each with what a log query matches in it.  External to the       *)
(* repository; modelled from what web/src/lib/chain-cache.ts relies on,    *)
(* which is that a block REORG_DEPTH or more behind the head no longer     *)
(* changes (the constant's own comment, chain-cache.ts:50-61).             *)
(***************************************************************************)
EXTENDS Integers

CONSTANTS
    Queries,    \* the log queries (contract, event and topics) that are cached
    MaxTip,     \* bound: the last block mined in a behaviour
    Depth,      \* REORG_DEPTH, in blocks of the model
    Content,    \* what a query may match in a block
    NoLog,      \* the content of a block in which it matches nothing
    Scans,      \* the calls that may be in flight at once, in whatever tab
    Starts,     \* the blocks their requests start at (a mint, resolveGenesisFloor)
    HeadLag     \* how far behind the tip the node that serves the head may be

ASSUME ChainBounds == MaxTip \in Nat \ {0} /\ Depth \in Nat
ASSUME EmptyContent == NoLog \in Content

VARIABLES
    chain,      \* chain[q][b]: what q matches in block b (of no meaning above tip)
    tip         \* the canonical head

Blocks == 1 .. MaxTip

ASSUME RequestsValid == Starts \subseteq Blocks /\ HeadLag \in Nat

\* A log is known by its block and by the fork's content: one query matches at most one
\* log per block here, so the block stands for (blockNumber, logIndex).
Log == [block : Blocks, content : Content]

\* The logs of blocks f..t of one query's history.
Matching(history, f, t) ==
    {[block |-> b, content |-> history[b]] :
        b \in {x \in Blocks : f <= x /\ x <= t /\ history[x] # NoLog}}

\* What query q matches in blocks f..t of the canonical chain.
LogsIn(q, f, t) == Matching(chain[q], f, t)

\* Deep enough that no reorganisation reaches it any more.
Settled(b) == b + Depth <= tip

ChainTypeOK ==
    /\ chain \in [Queries -> [Blocks -> Content]]
    /\ tip \in Blocks

ChainInit ==
    /\ chain = [q \in Queries |-> [b \in Blocks |-> NoLog]]
    /\ tip = 1

Mine ==
    /\ tip < MaxTip
    /\ \E new \in [Queries -> Content] :
          chain' = [q \in Queries |-> [chain[q] EXCEPT ![tip + 1] = new[q]]]
    /\ tip' = tip + 1

\* Another fork wins and an unsettled block is another one; a reorganisation of several
\* blocks is several such steps.
Reorg ==
    /\ \E b \in Blocks, new \in [Queries -> Content] :
          /\ b <= tip /\ ~Settled(b)
          /\ chain' = [q \in Queries |-> [chain[q] EXCEPT ![b] = new[q]]]
    /\ tip' = tip

=============================================================================
