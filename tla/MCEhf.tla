-------------------------------- MODULE MCEhf -------------------------------
(* Ehf for TLC.                                                            *)
EXTENDS Ehf
=============================================================================
