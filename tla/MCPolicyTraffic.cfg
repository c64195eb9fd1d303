SPECIFICATION FairSpec
CONSTANTS
  None = None
  SeqSpace = 8
  Initial <- MCInitial
  Bytes <- MCBytes
  Window = 2
  Transit = 1
INVARIANTS ClosedIsOver
PROPERTIES ConnectionsGetThrough
CHECK_DEADLOCK FALSE
