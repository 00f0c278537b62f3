------------------------------ MODULE Ownership ------------------------------
(***************************************************************************)
(* web/src/lib/ownership.ts: the spans of blocks in which a wallet held an *)
(* LP token, read off the token's transfers [block, from, to], which are   *)
(* in chain order.                                                         *)
(***************************************************************************)
EXTENDS Integers, Sequences, SequencesExt

CONSTANTS
    Nobody,     \* the zero address
    HeldOn      \* no block: a window that is still open

ASSUME HeldOnIsNoBlock == HeldOn \notin Nat

\* One transfer: an arrival opens a window unless one is open, a departure closes it.  To
\* burn the token is not to sell it.
Step(me, own, t) ==
    LET n == Len(own.windows) IN
    IF t.to = me
      THEN IF own.open THEN own
           ELSE [windows |-> Append(own.windows, [from |-> t.block, to |-> HeldOn]),
                 open |-> TRUE, soldAt |-> Nobody]
    ELSE IF t.from = me /\ own.open
      THEN [windows |-> [own.windows EXCEPT ![n].to = t.block], open |-> FALSE,
            soldAt |-> IF t.to = Nobody THEN Nobody ELSE t.block]
    ELSE own

\* [windows, open, soldAt]; `open` is heldNow.
ownershipOf(transfers, me) ==
    LET after[i \in 0 .. Len(transfers)] ==
          IF i = 0 THEN [windows |-> <<>>, open |-> FALSE, soldAt |-> Nobody]
          ELSE Step(me, after[i - 1], transfers[i])
    IN  after[Len(transfers)]

\* Mutant of heldAt: the block a window closes in is not part of it.
heldAtExclusive(own, block) ==
    \E i \in DOMAIN own.windows :
        LET w == own.windows[i] IN w.from <= block /\ (w.to = HeldOn \/ block < w.to)

\* Both ends belong to the window.
heldAt(own, block) ==
    \E i \in DOMAIN own.windows :
        LET w == own.windows[i] IN w.from <= block /\ (w.to = HeldOn \/ block <= w.to)

=============================================================================
