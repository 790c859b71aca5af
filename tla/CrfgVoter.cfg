\* The voter may stop for good (voter error, lib.rs:951-954), so terminal
\* states are real: deadlock is not checked.
CONSTANTS
  MaxRound <- MCMaxRound
  MaxSetId <- MCMaxSetId
  MaxCmds <- MCMaxCmds
  MaxRestarts <- MCMaxRestarts
SPECIFICATION Spec
CHECK_DEADLOCK FALSE
INVARIANT TypeOK
INVARIANT HandoffsApplied
INVARIANT CurrentRoundLive
PROPERTY ChangesReachVoter
PROPERTY HandoffRefined
PROPERTY StreamDelivers
