------------------------------- MODULE MCTftp -------------------------------
(* Tftp for TLC.                                                           *)
EXTENDS Tftp

(* A file from a server with options and errors that is tried twice, a     *)
(* longer one that is tried once, their packets late by any number of      *)
(* blocks, and one in which the block number wraps twice, its packets late *)
(* by one block.                                                           *)
MCSetups ==
  {[blocks |-> 2, options |-> TRUE, errors |-> {"not found", "undefined"}, netretry |-> 2, window |-> 2],
   [blocks |-> 3, options |-> TRUE, errors |-> {}, netretry |-> 0, window |-> 3],
   [blocks |-> 9, options |-> FALSE, errors |-> {}, netretry |-> 0, window |-> 1]}

(* The theorems of Tftp_proofs apply to this instance.                     *)
ASSUME InstanceAssumption == WrapsInTime
=============================================================================
