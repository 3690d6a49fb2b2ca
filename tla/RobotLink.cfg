SPECIFICATION FairSpec
CONSTANTS
  Devices <- MCDevices
  Cells <- MCCells
  CellOf <- MCCellOf
  Timeout = 2
  CheckEvery = 1
  MaxPeriods = 2
  MaxData = 1
INVARIANTS
  ControlsExpire
  NothingMovesUnseen
  ResetIsOver
PROPERTIES
  CommandsInOrder
  EveryJointDriven
  ComesToRest
