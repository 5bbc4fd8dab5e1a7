\* Three CPUs, each with its cache on or off.
CONSTANTS
  N = 3
  TicketLimit = 32768
  MaxTicket = 1
SPECIFICATION Spec
INVARIANTS MutualExclusion StoresReachMemory
