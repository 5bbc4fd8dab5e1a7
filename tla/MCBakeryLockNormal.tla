------------------------- MODULE MCBakeryLockNormal -------------------------
(* BakeryLockNormal for TLC.                                               *)
EXTENDS BakeryLockNormal
=============================================================================
