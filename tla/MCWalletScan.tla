----------------------------- MODULE MCWalletScan -----------------------------
(* WalletScan for a few calls; the .cfg files give the counts. *)
EXTENDS WalletScan

=============================================================================
