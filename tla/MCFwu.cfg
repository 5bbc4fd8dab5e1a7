\* Two secure images that may overlap, one of the normal world, two slots, and failures
\* of the platform.
CONSTANTS
  a = a
  b = b
  ns = ns
  None = None
  Image = {a, b, ns}
  Secure = {a, b}
  Executable = {a, b}
  Base <- MCBase
  MaxSize <- MCMaxSize
  Sizes = {1, 2, 3}
  Slots = 2
  Faults = {"map", "pre"}
SPECIFICATION Spec
CHECK_DEADLOCK FALSE
INVARIANTS ExecutedIsComplete SecureIsExecuted
PROPERTIES OnlyStaleResetClears
