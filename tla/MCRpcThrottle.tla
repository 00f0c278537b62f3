--------------------------- MODULE MCRpcThrottle ---------------------------
(***************************************************************************)
(* RpcThrottle on small instances.  The requests are interchangeable, so   *)
(* the safety runs use symmetry; the liveness run does not.                *)
(***************************************************************************)
EXTENDS RpcThrottle, TLC

Interchangeable == Permutations(Requests)

=============================================================================
