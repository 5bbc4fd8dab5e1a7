---------------------------- MODULE MCBakeryLock ----------------------------
(* BakeryLock for TLC: see the cfg files for the number of CPUs.           *)
EXTENDS BakeryLock
=============================================================================
