\* The job and chain-height bounds stop the model; the real loop never
\* ends until exit, so the end states are bounds, not deadlocks.
CONSTANTS
  Adj <- MCAdj
  TargetGap <- MCTargetGap
  GenesisDifficulty <- MCGenesis
  DiffWidth = 8
  TimeWidth = 6
  Steps <- MCSteps
  MaxHeight <- MCMaxHeight
  MaxJobs <- MCMaxJobs
SPECIFICATION Spec
CHECK_DEADLOCK FALSE
INVARIANT ChainFollowsRule
PROPERTY BestChainNeverRewritten
PROPERTY NoOwnImportAfterStop
