\* Three callers, and a power controller that may refuse.
CONSTANTS
  Caller = {c1, c2, c3}
SPECIFICATION Spec
SYMMETRY Symmetry
INVARIANTS BootFindsPending RetrySucceeds OffIsSeen OffIsRestored
