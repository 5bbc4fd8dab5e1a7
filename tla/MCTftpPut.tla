----------------------------- MODULE MCTftpPut ------------------------------
(* TftpPut for TLC.                                                        *)
EXTENDS TftpPut

(* The theorems about TftpPut apply to this instance.                      *)
ASSUME InstanceAssumption == FewBlocks
=============================================================================
