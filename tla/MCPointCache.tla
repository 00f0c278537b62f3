---------------------------- MODULE MCPointCache ----------------------------
(* PointCache on a short chain; calls, and facts, are interchangeable. *)
EXTENDS PointCache, TLC

Interchangeable == Permutations(Callers) \cup Permutations(Facts)

=============================================================================
