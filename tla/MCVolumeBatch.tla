---------------------------- MODULE MCVolumeBatch ----------------------------
(* VolumeBatch for a wallet of a few pools; the .cfg files give the counts. *)
EXTENDS VolumeBatch

=============================================================================
