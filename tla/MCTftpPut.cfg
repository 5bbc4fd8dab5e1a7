\* Six blocks; packets lost, repeated and late.
CONSTANTS
  FileBlocks = 6
  SequenceSize = 16
  Options = TRUE
  TimeoutCountMax = 2
  MaxRepeat = 2
  Window = 16
SPECIFICATION PutSpec
CHECK_DEADLOCK FALSE
INVARIANT SendsBounded
