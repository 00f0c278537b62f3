---------------------------- MODULE MCRangeCache ----------------------------
(***************************************************************************)
(* RangeCache on small chains.  Scans are interchangeable, and so are the  *)
(* contents of blocks other than NoLog.                                    *)
(***************************************************************************)
EXTENDS RangeCache, TLC

Interchangeable == Permutations(Scans) \cup Permutations(Content \ {NoLog})

=============================================================================
