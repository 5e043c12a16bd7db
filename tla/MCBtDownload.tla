---------------------------- MODULE MCBtDownload ----------------------------
(* Two downloads of different size, for TLC.                                *)
EXTENDS BtDownload, TLC

CONSTANTS d1, d2

MCSize == d1 :> 1 @@ d2 :> 2
=============================================================================
