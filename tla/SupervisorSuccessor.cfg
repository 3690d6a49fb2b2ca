SPECIFICATION Spec
CONSTANTS
  Standing = Standing
  BeyondMimic = BeyondMimic
  Policies = {Standing, Walking, BeyondMimic}
  None = None
  Halted = Halted
  Zero = Zero
  Velocities = {}
  SwitchTime = 2
  ConfirmCycles = 2
  Cooldown = 3
  FallRecovery = FALSE
  DanceSteps = 2
  MaxDelay = 1
  MaxArrivals = 1
INVARIANT SuccessorIsWarm
\* The program ends after a STOP.
CHECK_DEADLOCK FALSE
