\* Three CPUs that keep contending, tickets up to 4 + N.
CONSTANTS
  N = 3
  TicketLimit = 32768
  MaxTicket = 4
SPECIFICATION FairSpec
INVARIANT MutualExclusion
PROPERTIES RefinesFcfs EventuallyHeld
