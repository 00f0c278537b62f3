----------------------------- MODULE LogRanges -----------------------------
(***************************************************************************)
(* The range arithmetic of web/src/lib/log-cache.ts, as pure operators.    *)
(* Sets of logs stand for the arrays: mergeLogs sorts what it returns, and *)
(* no property here is about the order.                                    *)
(***************************************************************************)
EXTENDS Integers

\* Stands for null where the code has `bigint | null`: block 0 is below every start.
NoBlock == 0

\* Stands for `undefined` where the code has `RangeRecord | undefined`.
NoRecord == [from |-> NoBlock, to |-> NoBlock, logs |-> {}]

\* Mutant of planRangeFetch: the fetch resumes one block after the next.
planRangeFetchSkipping(cached, from, to) ==
    IF cached = NoRecord \/ cached.from # from
      THEN [kind |-> "full", from |-> from]
      ELSE IF cached.to >= to
             THEN [kind |-> "hit", from |-> to + 1]
             ELSE [kind |-> "extend", from |-> cached.to + 2]

\* What still has to be asked: the first block to fetch, above `to` on a hit.
planRangeFetch(cached, from, to) ==
    IF cached = NoRecord \/ cached.from # from
      THEN [kind |-> "full", from |-> from]
      ELSE IF cached.to >= to
             THEN [kind |-> "hit", from |-> to + 1]
             ELSE [kind |-> "extend", from |-> cached.to + 1]

\* Mutant of nextPersistTo: one block too many is taken for settled.
nextPersistToShallow(cachedTo, from, to, depth) ==
    LET settled == (to - depth) + 1
        best == IF cachedTo # NoBlock /\ cachedTo > settled THEN cachedTo ELSE settled
    IN  IF best >= from THEN best ELSE NoBlock

\* The highest block that may be written down, NoBlock when none may.
nextPersistTo(cachedTo, from, to, depth) ==
    LET settled == to - depth
        best == IF cachedTo # NoBlock /\ cachedTo > settled THEN cachedTo ELSE settled
    IN  IF best >= from THEN best ELSE NoBlock

\* Duplicates by block are dropped in favour of the cached one.
mergeLogs(cached, fetched) ==
    cached \cup {l \in fetched : \A c \in cached : c.block # l.block}

upTo(logs, to) == {l \in logs : l.block <= to}

=============================================================================
