\* One copy and two: power loss at any moment, and every operation failing.
CONSTANTS
  Value = {v1, v2, v3}
  Faults = {"setup", "load", "export", "malloc", "read", "erase", "write"}
SPECIFICATION Spec
INVARIANT NothingLost
PROPERTY ImplementsStore
