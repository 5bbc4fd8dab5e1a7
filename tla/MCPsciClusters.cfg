\* Three CPUs in two clusters of one system.
CONSTANTS
  N = 3
  MaxLvl = 2
  Anc <- TwoClusters
  PowerStates <- SomeStates
  Calls = {"CPU_ON", "CPU_OFF", "CPU_SUSPEND", "SYSTEM_SUSPEND"}
SPECIFICATION Spec
CHECK_DEADLOCK FALSE
INVARIANTS RunningDomainsOn DomainsCoordinated
