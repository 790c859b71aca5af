CONSTANTS
  MaxRound <- MCMaxRound
  MaxSetId <- MCMaxSetId
  MaxCmds <- MCMaxCmds
  MaxRestarts <- MCMaxRestarts
SPECIFICATION Spec
CHECK_DEADLOCK FALSE
INVARIANT LiveVoterIsDurable
