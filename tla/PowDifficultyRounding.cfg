CONSTANTS
  Adj <- PassAdj
  TargetGap <- PassTargetGap
  GenesisDifficulty <- PassGenesis
  DiffWidth = 8
  TimeWidth = 6
  Steps <- PassSteps
  MaxHeight <- PassHeight
SPECIFICATION Spec
CHECK_DEADLOCK FALSE
INVARIANT RetargetExact
