SPECIFICATION FairSpec
CONSTANTS
  Standing = Standing
  BeyondMimic = BeyondMimic
  Policies = {Standing, Walking, BeyondMimic}
  None = None
  Halted = Halted
  Zero = Zero
  Velocities = {Slow}
  SwitchTime = 2
  ConfirmCycles = 2
  Cooldown = 2
  FallRecovery = TRUE
  DanceSteps = 2
  MaxDelay = 2
  MaxArrivals = 1
INVARIANTS
  TargetTracksState
  SteppedIsReady
  TimerIsFresh
  SelfEventsDrained
PROPERTIES
  StopIsFinal
  OutgoingStopped
  VelocityOnlyWhileRunning
  HandoverSpec
  SwitchCompletes
  StopHonoured
  DanceEnds
  FallIsAnswered
\* The program ends after a STOP.
CHECK_DEADLOCK FALSE
