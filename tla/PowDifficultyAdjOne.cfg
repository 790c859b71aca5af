\* difficulty_adj = 1: block #1 is an adjustment block whose parent is the
\* unsealed genesis.  The run is expected to report RetargetNeverPanics
\* violated by the expect() at worker.rs:229-231.
CONSTANTS
  Adj <- EveryBlockAdj
  TargetGap <- PassTargetGap
  GenesisDifficulty <- PassGenesis
  DiffWidth = 8
  TimeWidth = 6
  Steps <- PassSteps
  MaxHeight <- PassHeight
SPECIFICATION Spec
CHECK_DEADLOCK FALSE
INVARIANT RetargetNeverPanics
