SPECIFICATION FairSpec
CONSTANTS
  Known = {0, 1}
  Unknown = {42}
  TwistCount <- MCTwistCount
  MaxActions = 2
  MaxSent <- MCMaxSent
INVARIANTS
  ReadsWhatWasSent
  StopIsAsked
PROPERTIES
  BackendQueueSpec
  StopArrives
\* The program ends after a STOP.
CHECK_DEADLOCK FALSE
