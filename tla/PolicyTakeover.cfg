SPECIFICATION Spec
CONSTANTS
  Decimation = 3
  BufferSize = 2
  SwitchPeriods = 6
  MaxLatency = 3
  MaxDrops = 1
  BlendPeriods = 8
  MaxActivations = 3
INVARIANTS
  OwnTargets
  NeverUnheard
  BlendsFromHeld
