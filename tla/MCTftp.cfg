\* Lost, repeated and late packets, and two ports of each side.
CONSTANTS
  SequenceSize = 4
  TimeoutCountMax = 1
  Session = {p1, p2}
  ClientPort = {c1, c2}
  Setups <- MCSetups
  MaxRepeat = 1
SPECIFICATION FairSpec
CHECK_DEADLOCK FALSE
INVARIANTS FileReceived ServerNotAhead
PROPERTY Returns
