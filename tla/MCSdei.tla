------------------------------- MODULE MCSdei -------------------------------
(* Sdei for TLC.  Event 0 is signalled, 1 is a private event and 2 a       *)
(* critical shared one; 3 and 4 can be bound to a private interrupt, 5 to  *)
(* a shared one.                                                           *)
EXTENDS Sdei

Registration == {"REGISTER", "UNREGISTER", "ENABLE", "UNMASK"}

(* Of the events of the platform: PEs that route a shared event, a private *)
(* with a critical one on one PE, the signalled event, and a PE that is    *)
(* turned off and on.  Of those that are bound: a shared and a private     *)
(* event that are also released, and two private ones.                     *)
MCClients == {
  [pes |-> PE, about |-> {2}, calls |-> Registration \cup {"ROUTING"}],
  [pes |-> {1}, about |-> {1, 2}, calls |-> Registration \cup {"DISABLE", "MASK"}],
  [pes |-> PE, about |-> {0}, calls |-> Registration \cup {"MASK", "SIGNAL"}],
  [pes |-> PE, about |-> {1}, calls |-> Registration \cup {"CPU_ON"}],
  [pes |-> PE, about |-> {5, 11}, calls |-> Registration \cup {"DISABLE", "BIND", "RELEASE"}],
  [pes |-> PE, about |-> {3, 12}, calls |-> Registration \cup {"BIND", "RELEASE"}],
  [pes |-> PE, about |-> {3, 4, 12, 13}, calls |-> {"REGISTER", "BIND"}] }
=============================================================================
