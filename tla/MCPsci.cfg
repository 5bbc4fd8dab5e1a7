\* The A3700: two CPUs in one cluster, every call.
CONSTANTS
  N = 2
  MaxLvl = 1
  Anc <- OneCluster
  PowerStates <- AllStates
  Calls = {"CPU_ON", "CPU_OFF", "CPU_SUSPEND", "SYSTEM_SUSPEND"}
SPECIFICATION FairSpec
CHECK_DEADLOCK FALSE
INVARIANTS BootStateOK ContextReady OffIsQuiet LastOnIsLast
PROPERTIES EventuallyReturns OnEventuallyRuns
