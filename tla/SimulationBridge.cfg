SPECIFICATION FairSpec
INVARIANT
  EndpointsOutliveUsers
PROPERTY
  SignalStops
\* The process may have returned from main, be dead or hang.
CHECK_DEADLOCK FALSE
