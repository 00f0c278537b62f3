--------------------------- MODULE MCTokenBucket ---------------------------
(* TokenBucket for a few requests over a few ticks, with four rates. *)
EXTENDS TokenBucket

=============================================================================
