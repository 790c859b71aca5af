CONSTANTS
  Adj <- PassAdj
  TargetGap <- PassTargetGap
  GenesisDifficulty <- SlowGenesis
  DiffWidth = 8
  TimeWidth = 6
  Steps <- SlowSteps
  MaxHeight <- PassHeight
SPECIFICATION Spec
CHECK_DEADLOCK FALSE
INVARIANT RetargetNeverPanics
