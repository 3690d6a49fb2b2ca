SPECIFICATION FairSpec
CONSTANTS
  BufferSize = 2
  MaxCalls = 5
INVARIANTS
  RacesAreConfined
  HistoryIsGapless
PROPERTIES
  NetworkSpec
  FlagReturns
\* The policy may be destroyed, after which both threads have ended.
CHECK_DEADLOCK FALSE
