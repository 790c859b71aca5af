\* The node's clock steps back between two of its own blocks, below the
\* timestamp of the block that opens the retarget window.  The run is
\* expected to report RetargetNeverPanics violated by the u64 subtraction
\* time_gap = timestamp - last_time (worker.rs:254).
CONSTANTS
  Adj <- PassAdj
  TargetGap <- PassTargetGap
  GenesisDifficulty <- PassGenesis
  DiffWidth = 8
  TimeWidth = 6
  Steps <- SkewSteps
  MaxHeight <- PassHeight
SPECIFICATION Spec
CHECK_DEADLOCK FALSE
INVARIANT RetargetNeverPanics
