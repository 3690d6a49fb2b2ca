SPECIFICATION FairSpec
CONSTANTS
  BufferSize = 2
  MaxCalls = 5
INVARIANT AcceptedIsComputed
CHECK_DEADLOCK FALSE
