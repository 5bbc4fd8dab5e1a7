------------------------------- MODULE MCPsci -------------------------------
(* Psci for TLC: topologies and the power states of the platform.          *)
EXTENDS Psci

(* The A3700: one cluster.                                                 *)
OneCluster == [c \in 0..(N-1) |-> <<"cluster">>]

(* Clusters of two CPUs in one system, as on the A8K.                      *)
TwoClusters == [c \in 0..(N-1) |-> <<<<"cluster", c \div 2>>, <<"system", 0>>>>]

(* Every combination of local states, to be validated.                     *)
AllStates == [0..MaxLvl -> RUN..OFF]

(* A state as its levels, the CPU first.                                   *)
Levels(s) == [l \in 0..MaxLvl |-> s[l + 1]]

(* Power down to each level, retention, and a state to be refused.         *)
SomeStates ==
  {Levels(s) : s \in {<<OFF, OFF, OFF>>, <<OFF, OFF, RUN>>, <<RET, RET, RET>>, <<OFF, RUN, RET>>}}
=============================================================================
