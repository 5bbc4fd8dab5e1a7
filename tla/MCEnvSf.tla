------------------------------ MODULE MCEnvSf -------------------------------
(* EnvSf for TLC.                                                          *)
EXTENDS EnvSf
=============================================================================
