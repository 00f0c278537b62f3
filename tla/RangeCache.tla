----------------------------- MODULE RangeCache -----------------------------
(***************************************************************************)
(* `cachedLogRange` of web/src/lib/chain-cache.ts for one store key: the   *)
(* cached record of one fixed log query, read and rewritten by the scans   *)
(* of every tab that is open on the site, while the chain goes on.         *)
(*                                                                         *)
(* One element of Scans is one call in flight, in whatever tab.  It awaits *)
(* twice, for the store and for the chain, and anything may happen in      *)
(* between: another scan's write, `resetCaches`, a new block, a reorg, or  *)
(* the end of the page.                                                    *)
(***************************************************************************)
EXTENDS LogChain, LogRanges

CONSTANTS
    Key         \* the query whose record this is

ASSUME OneKey == Queries = {Key}

VARIABLES
    record,         \* the record on disk, NoRecord if there is none
    stage,          \* where each scan is
    first, last,    \* its request
    read,           \* the record it read
    fetched,        \* the logs the chain answered
    reply           \* what it returned to its caller

rangeVars == <<chain, tip, record, stage, first, last, read, fetched, reply>>

Stages == {"idle", "reading", "fetching", "fetched", "answered"}

RangeRecord == [from : 0 .. MaxTip, to : 0 .. MaxTip, logs : SUBSET Log]

RangeTypeOK ==
    /\ ChainTypeOK
    /\ record \in RangeRecord
    /\ stage \in [Scans -> Stages]
    /\ first \in [Scans -> 0 .. MaxTip]
    /\ last \in [Scans -> 0 .. MaxTip]
    /\ read \in [Scans -> RangeRecord]
    /\ fetched \in [Scans -> SUBSET Log]
    /\ reply \in [Scans -> SUBSET Log]

RangeInit ==
    /\ ChainInit
    /\ record = NoRecord
    /\ stage = [s \in Scans |-> "idle"]
    /\ first = [s \in Scans |-> NoBlock]
    /\ last = [s \in Scans |-> NoBlock]
    /\ read = [s \in Scans |-> NoRecord]
    /\ fetched = [s \in Scans |-> {}]
    /\ reply = [s \in Scans |-> {}]

Plan(s) == planRangeFetch(read[s], first[s], last[s])

\* A scan reads the head from some node and asks for [f, h].
BeginRange(s) ==
    /\ stage[s] = "idle"
    /\ \E f \in Starts, h \in Blocks :
          /\ f <= h /\ h <= tip /\ tip - HeadLag <= h
          /\ first' = [first EXCEPT ![s] = f]
          /\ last' = [last EXCEPT ![s] = h]
    /\ stage' = [stage EXCEPT ![s] = "reading"]
    /\ UNCHANGED <<chain, tip, record, read, fetched, reply>>

\* store.get resolves: with the record, or with nothing when the read failed.
\* A hit is answered from the record alone.
ReadRange(s) ==
    /\ stage[s] = "reading"
    /\ \E rec \in {record, NoRecord} :
          /\ read' = [read EXCEPT ![s] = rec]
          /\ \/ /\ planRangeFetch(rec, first[s], last[s]).kind = "hit"
                /\ reply' = [reply EXCEPT ![s] = upTo(rec.logs, last[s])]
                /\ stage' = [stage EXCEPT ![s] = "answered"]
             \/ /\ planRangeFetch(rec, first[s], last[s]).kind # "hit"
                /\ stage' = [stage EXCEPT ![s] = "fetching"]
                /\ UNCHANGED reply
    /\ UNCHANGED <<chain, tip, record, first, last, fetched>>

\* A node answers fetchRange for what the plan still needs.
FetchRange(s) ==
    /\ stage[s] = "fetching"
    /\ fetched' = [fetched EXCEPT ![s] = LogsIn(Key, Plan(s).from, last[s])]
    /\ stage' = [stage EXCEPT ![s] = "fetched"]
    /\ UNCHANGED <<chain, tip, record, first, last, read, reply>>

\* The logs the scan returns, and the most it may write down of them.
Combined(s) == mergeLogs(IF Plan(s).kind = "extend" THEN read[s].logs ELSE {}, fetched[s])

writeRange(s, cachedTo, logs) ==
    LET persistTo == nextPersistTo(cachedTo, first[s], last[s], Depth)
        rec == [from |-> first[s], to |-> persistTo, logs |-> upTo(logs, persistTo)]
    IN  IF persistTo = NoBlock
          THEN UNCHANGED record
          ELSE record' \in {rec, record}   \* the write may be dropped (idb.ts put)

\* The logs arrive: the record is rewritten, unawaited, and the scan has its answer.
\* The old end is passed on whatever block the old record starts at.
FinishRange(s) ==
    /\ stage[s] = "fetched"
    /\ reply' = [reply EXCEPT ![s] = Combined(s)]
    /\ writeRange(s, read[s].to, Combined(s))
    /\ stage' = [stage EXCEPT ![s] = "answered"]
    /\ UNCHANGED <<chain, tip, first, last, read, fetched>>

\* The scan is over: answered and done with, its fetch rejected, or its page gone.
LeaveRange(s) ==
    /\ stage[s] # "idle"
    /\ stage' = [stage EXCEPT ![s] = "idle"]
    /\ first' = [first EXCEPT ![s] = NoBlock]
    /\ last' = [last EXCEPT ![s] = NoBlock]
    /\ read' = [read EXCEPT ![s] = NoRecord]
    /\ fetched' = [fetched EXCEPT ![s] = {}]
    /\ reply' = [reply EXCEPT ![s] = {}]
    /\ UNCHANGED <<chain, tip, record>>

\* "Rescan from chain", in any tab; scans in flight are not told.
resetRecord ==
    /\ record' = NoRecord
    /\ UNCHANGED <<chain, tip, stage, first, last, read, fetched, reply>>

ChainMoves == (Mine \/ Reorg) /\ UNCHANGED <<record, stage, first, last, read, fetched, reply>>

RangeNext ==
    \/ ChainMoves
    \/ resetRecord
    \/ \E s \in Scans : BeginRange(s) \/ ReadRange(s) \/ FetchRange(s) \/ FinishRange(s) \/ LeaveRange(s)

RangeSpec == RangeInit /\ [][RangeNext]_rangeVars
FairRangeSpec == RangeSpec /\ \A s \in Scans : WF_rangeVars(ReadRange(s) \/ FetchRange(s) \/ FinishRange(s))

-----------------------------------------------------------------------------
(* Properties *)

\* log-cache.ts:20: a record's "`logs` are every matching log in [from, to]
\* inclusive", and, the chain's final word on those blocks being known, none the chain
\* has since disowned.
RecordComplete ==
    record # NoRecord => record.logs = LogsIn(Key, record.from, record.to)

\* One start block per key, and the record is sound whatever scans, tabs and resets do.
CacheSound == RangeTypeOK /\ RecordComplete

\* What a scan gets is exactly the chain's logs in the settled part of its request,
\* and nothing outside the request, wherever the logs came from.
AnswerExact ==
    \A s \in Scans : stage[s] = "answered" =>
        /\ \A l \in reply[s] : first[s] <= l.block /\ l.block <= last[s]
        /\ upTo(reply[s], last[s] - Depth) = LogsIn(Key, first[s], last[s] - Depth)

=============================================================================
