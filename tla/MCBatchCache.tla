---------------------------- MODULE MCBatchCache ----------------------------
(* BatchCache on a short chain; scans, and ids, are interchangeable. *)
EXTENDS BatchCache, TLC

Interchangeable == Permutations(Scans) \cup Permutations(Ids)

=============================================================================
