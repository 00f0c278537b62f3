------------------------------- MODULE LogSplit -------------------------------
(***************************************************************************)
(* web/src/lib/rpc-logs.ts over the proxy: a query for logs that is cut up *)
(* until its answers fit, and, when the node has pruned the old end of its *)
(* range, moved up to the oldest block that can be read.  Also the read of *)
(* pinned state through the same proxy (read-failure.ts).                  *)
(*                                                                         *)
(* Three callers: "mint", the search of analyzeTx from genesis on, by      *)
(* getLogsFromGenesis; "owner", ownershipLogs from the floor on, by        *)
(* resolveGenesisFloor, which remembers what it found; and "point", one    *)
(* read of pinned state.  `getLogsChunked` recurses on halves; here they   *)
(* stand in the query's sequence of pieces where the whole stood, and the  *)
(* answer is their concatenation.                                          *)
(***************************************************************************)
EXTENDS Proxy, FiniteSetsExt

CONSTANTS
    Tip,            \* the block the query goes to
    Logs,           \* the blocks with a matching log
    Cap,            \* the most logs an endpoint gives in one answer
    Tolerance,      \* how near findLogFloor comes
    ProbeWidth,     \* how wide its probes are
    ATTEMPTS,       \* tries of a request whose route is broken
    MaxKept,        \* bound: the oldest block the public node comes to keep
    Sites,          \* the deployments
    Subject         \* the wallet the query is for

ASSUME LogSplitAssumption ==
    /\ Tip \in Nat /\ Logs \subseteq 0 .. Tip /\ Cap \in Nat \ {0}
    /\ Tolerance \in Nat \ {0} /\ ProbeWidth \in Nat /\ ATTEMPTS \in Nat \ {0}
    /\ MaxKept \in 0 .. Tip

VARIABLES
    site,           \* the deployment in use
    kept,           \* the oldest block the public node still has
    mode,           \* the caller
    progress,
    pieces,         \* of the query: [from, to, tries, got], in order
    lo, hi,         \* findLogFloor's bounds
    genesisFloor,   \* what resolveGenesisFloor remembers, or NoFloor
    truncatedAt,    \* what getLogsFromGenesis reports, or NoFloor
    read            \* the latest read of pinned state

splitVars == <<site, kept, mode, progress, pieces, lo, hi, genesisFloor, truncatedAt, read>>

NoFloor == Tip + 1
Pending == {Tip + 1}       \* no set of logs: a piece without its answer
Piece(from, to) == [from |-> from, to |-> to, tries |-> 0, got |-> Pending]
NoRead == [list |-> <<>>, answers |-> <<>>, relay |-> [asked |-> 0, out |-> "ok"]]

SplitInit ==
    /\ site \in Sites
    /\ kept \in 0 .. MaxKept
    /\ mode \in {"mint", "owner", "point"}
    /\ progress = "idle" /\ pieces = <<>>
    /\ lo = 0 /\ hi = 0
    /\ genesisFloor = NoFloor /\ truncatedAt = NoFloor
    /\ read = NoRead

SplitTypeOK ==
    /\ site \in Sites /\ kept \in 0 .. MaxKept
    /\ progress \in {"idle", "whole", "probe0", "probe", "tail", "done", "failed"}
    /\ \A i \in DOMAIN pieces :
          /\ pieces[i].from \in 0 .. Tip /\ pieces[i].to \in pieces[i].from .. Tip
          /\ pieces[i].tries \in 0 .. ATTEMPTS - 1
    /\ lo \in 0 .. Tip /\ hi \in lo .. Tip
    /\ genesisFloor \in 0 .. NoFloor /\ truncatedAt \in 0 .. NoFloor

-----------------------------------------------------------------------------
(* The chain behind the proxy *)

LogsOf(from, to) == {b \in Logs : from <= b /\ b <= to}

\* A range answers with its logs, or is too wide, as is one that timed out in the page.
LogOutcomes(from, to) ==
    {"width"} \cup
    Outcomes(site, [kind |-> "logs", old |-> from < kept, subject |-> Subject],
             IF Cardinality(LogsOf(from, to)) > Cap THEN {"width", "size"} ELSE {"ok"})

Prune ==
    /\ kept < MaxKept
    /\ kept' = kept + 1
    /\ UNCHANGED <<site, mode, progress, pieces, lo, hi, genesisFloor, truncatedAt, read>>

-----------------------------------------------------------------------------
(* getLogsChunked *)

TOO_WIDE(out) == out \in {"width", "size"}
RATE_LIMITED(out) == out \in {"limit", "busy"}

\* A dead backend is a broken route; whether other failures are depends on their words.
isTransient(out) == out = "noRoute"
MayBeTransient(out) == isTransient(out) \/ out \in {"broken", "failed"}

\* Mutant of Split: the block at the cut belongs to both halves.
SplitAtMid(p, mid) == <<Piece(p.from, mid), Piece(mid, p.to)>>

Split(p, mid) == <<Piece(p.from, mid), Piece(mid + 1, p.to)>>

\* Where to cut: where the provider suggests, inside the range, or half way.
Cuts(p, out) ==
    {p.from + (p.to - p.from) \div 2} \cup
    IF out = "size" THEN p.from + 1 .. p.to - 1 ELSE {}

\* A width complaint, not a rate limit, about more than one block.
Narrowed(p, out) == TOO_WIDE(out) /\ ~RATE_LIMITED(out) /\ p.to - p.from >= 1

Open(i) == i \in DOMAIN pieces /\ pieces[i].got = Pending

\* Mutant of Rejected: a query that fails is begun again.
RejectedAgain(out) ==
    /\ pieces' = <<>>
    /\ IF isPruned(out) /\ mode = "mint" /\ progress = "whole"
       THEN progress' = "probe" /\ lo' = 0 /\ hi' = Tip
       ELSE progress' = "idle" /\ UNCHANGED <<lo, hi>>

\* The first piece to fail rejects the query, whatever becomes of the others.
\* getLogsFromGenesis looks for a floor when the blocks are gone.
Rejected(out) ==
    /\ pieces' = <<>>
    /\ IF isPruned(out) /\ mode = "mint" /\ progress = "whole"
       THEN progress' = "probe" /\ lo' = 0 /\ hi' = Tip
       ELSE progress' = "failed" /\ UNCHANGED <<lo, hi>>

\* Promise.all: the query is over when every piece is.
Answered(i, logs) ==
    /\ pieces' = [pieces EXCEPT ![i].got = logs]
    /\ progress' = IF \A j \in DOMAIN pieces : j # i => ~Open(j) THEN "done" ELSE progress

\* One request of the query and what follows from its answer.  Width comes before a broken
\* route, and a rate limit before width.
Ask(i) ==
    LET p == pieces[i] IN
    /\ Open(i)
    /\ \E out \in LogOutcomes(p.from, p.to) :
          \/ out = "ok" /\ Answered(i, LogsOf(p.from, p.to)) /\ UNCHANGED <<lo, hi>>
          \/ /\ Narrowed(p, out)
             /\ \E mid \in Cuts(p, out) :
                   pieces' = SubSeq(pieces, 1, i - 1) \o Split(p, mid) \o
                             SubSeq(pieces, i + 1, Len(pieces))
             /\ UNCHANGED <<progress, lo, hi>>
          \/ /\ MayBeTransient(out) /\ p.tries < ATTEMPTS - 1
             /\ pieces' = [pieces EXCEPT ![i].tries = @ + 1]
             /\ UNCHANGED <<progress, lo, hi>>
          \/ /\ out # "ok" /\ ~Narrowed(p, out)
             /\ isTransient(out) => p.tries = ATTEMPTS - 1
             /\ Rejected(out)
    /\ UNCHANGED <<site, kept, mode, genesisFloor, truncatedAt, read>>

-----------------------------------------------------------------------------
(* findLogFloor *)

Query(from) == pieces' = <<Piece(from, Tip)>>

\* The bounds have come near enough: the rest of the query is asked from the upper one.
Found(floor) ==
    /\ progress' = "tail"
    /\ Query(floor)
    /\ genesisFloor' = IF mode = "owner" THEN floor ELSE genesisFloor
    /\ truncatedAt' = IF mode = "mint" THEN floor ELSE truncatedAt

\* Mutant of Verdict: a probe that fails in any way found the blocks gone.
VerdictAny(out) == IF out = "ok" THEN "served" ELSE "gone"

\* What a probe tells; what is neither ends the search.
Verdict(out) == IF out = "ok" THEN "served" ELSE IF isPruned(out) THEN "gone" ELSE "error"

\* A narrow query from the middle tells whether the node still has blocks so old.
Probe ==
    /\ progress = "probe"
    /\ IF hi - lo <= Tolerance
       THEN Found(hi) /\ UNCHANGED <<lo, hi>>
       ELSE LET mid == lo + (hi - lo) \div 2 IN
            /\ \E out \in LogOutcomes(mid, mid + ProbeWidth) :
                  \/ Verdict(out) = "served" /\ hi' = mid /\ UNCHANGED <<lo, progress>>
                  \/ Verdict(out) = "gone" /\ lo' = mid /\ UNCHANGED <<hi, progress>>
                  \/ Verdict(out) = "error" /\ progress' = "failed" /\ UNCHANGED <<lo, hi>>
            /\ UNCHANGED <<pieces, genesisFloor, truncatedAt>>
    /\ UNCHANGED <<site, kept, mode, read>>

\* resolveGenesisFloor asks for the very first blocks before it searches.
ProbeGenesis ==
    /\ progress = "probe0"
    /\ \E out \in LogOutcomes(0, ProbeWidth) :
          \/ Verdict(out) = "served" /\ Found(0) /\ UNCHANGED <<lo, hi>>
          \/ /\ Verdict(out) = "gone" /\ progress' = "probe" /\ lo' = 0 /\ hi' = Tip
             /\ UNCHANGED <<pieces, genesisFloor, truncatedAt>>
          \/ /\ Verdict(out) = "error" /\ progress' = "failed"
             /\ UNCHANGED <<pieces, lo, hi, genesisFloor, truncatedAt>>
    /\ UNCHANGED <<site, kept, mode, read>>

-----------------------------------------------------------------------------
(* The callers *)

\* getLogsFromGenesis, from analyzeTx.
SearchMint ==
    /\ progress = "idle" /\ mode = "mint"
    /\ progress' = "whole" /\ Query(0)
    /\ UNCHANGED <<site, kept, mode, lo, hi, genesisFloor, truncatedAt, read>>

\* ownershipLogs: from the floor, which is looked for once.
ReadOwners ==
    /\ progress \in {"idle", "done", "failed"} /\ mode = "owner"
    /\ IF genesisFloor = NoFloor
       THEN progress' = "probe0" /\ UNCHANGED pieces
       ELSE progress' = "tail" /\ Query(genesisFloor)
    /\ UNCHANGED <<site, kept, mode, lo, hi, genesisFloor, truncatedAt, read>>

\* slot0TickAt, feeGrowthAt: a read of pinned state.
ReadPinned ==
    /\ progress = "idle" /\ mode = "point"
    /\ progress' = "done"
    /\ \E old \in BOOLEAN : \E serve \in {{"ok"}, {"gone", "goneHash"}} :
          read' \in Exchanges(site, [kind |-> "pinned", old |-> old, subject |-> Subject], serve)
    /\ UNCHANGED <<site, kept, mode, pieces, lo, hi, genesisFloor, truncatedAt>>

Over == progress \in {"done", "failed"}

Request == SearchMint \/ Probe \/ ProbeGenesis \/ \E i \in DOMAIN pieces : Ask(i)

SplitNext == Request \/ ReadOwners \/ ReadPinned \/ Prune \/ (Over /\ UNCHANGED splitVars)

SplitSpec == SplitInit /\ [][SplitNext]_splitVars

\* Every request is answered or given up by the transport, and callers go on; nobody has to
\* look anything up again.
SplitFairSpec == SplitSpec /\ WF_splitVars(Request)

-----------------------------------------------------------------------------
(* Properties *)

Start == IF mode = "owner" THEN genesisFloor ELSE IF truncatedAt = NoFloor THEN 0 ELSE truncatedAt

\* A query that is cut up, at the provider's suggestion or in the middle, again and again
\* and in any order, asks for every block of its range once: the pieces of getLogsChunked
\* follow each other without a gap or an overlap.
EveryBlockOnce ==
    pieces # <<>> =>
        /\ pieces[1].from = Start /\ Last(pieces).to = Tip
        /\ \A i \in 1 .. Len(pieces) - 1 : pieces[i + 1].from = pieces[i].to + 1

\* When a query ends well its answer is every matching log from its start on, in order and
\* once each: no half of getLogsChunked is missing from what Promise.all gives.
LogsExact ==
    progress = "done" /\ mode # "point" =>
        /\ UNION {pieces[i].got : i \in DOMAIN pieces} = LogsOf(Start, Tip)
        /\ \A i, j \in DOMAIN pieces : i < j =>
              \A a \in pieces[i].got, b \in pieces[j].got : a < b

\* The pieces of a query and what is made of them.
QuerySound == SplitTypeOK /\ EveryBlockOnce /\ LogsExact

\* What a search from genesis leaves out is what the node no longer has: truncatedAt is
\* null, or the public node has pruned everything below it but for the tolerance of the
\* search (rpc-logs.ts, getLogsFromGenesis).  That an archive behind the same proxy may have
\* it still, and is not asked after "history unavailable", it does not say.  A probe that
\* failed for another reason never moves the floor.
OnlyTheGoneIsMissing ==
    \A floor \in {truncatedAt, genesisFloor} :
        floor # NoFloor => \A b \in Logs : b < floor => b < kept + Tolerance

\* A stranger's request never reaches an endpoint that costs, whatever the public one
\* answers and whichever lane it names (wallet-lane-gate.ts).
StrangersStayPublic ==
    site.edge /\ ~isAllowlistedSubject(Subject, site.list) =>
        \A i \in 1 .. read.relay.asked : read.list[i] = "public"

\* read-failure.ts:42-45, "one reaching the browser means EVERY upstream refused it": on
\* the edge, what the page takes for pruned state, and prices as such without a retry, is
\* what no endpoint of the request's order would have answered, whichever of them refused
\* or failed before.  A dead backend's words, or "history unavailable", end the request at
\* the first endpoint that says them (spill.ts), but the page does not take them for that.
HonestlyPruned ==
    site.edge /\ isPrunedStateFailure(read.relay.out) =>
        \A i \in DOMAIN read.answers : read.answers[i] # "ok"

\* A search from genesis comes to its end: splitting, the retries and the search for a
\* floor stop, while the node prunes on and anyone else reads.
SearchEnds == (progress = "whole") ~> Over

=============================================================================
