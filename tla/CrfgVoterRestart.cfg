\* A restart after a handoff: the run is expected to report
\* SetStateOfCurrentSet violated.  Deadlock is not checked, as in
\* CrfgVoter.cfg.
CONSTANTS
  MaxRound <- MCMaxRound
  MaxSetId <- MCMaxSetId
  MaxCmds <- MCMaxCmds
  MaxRestarts <- MCMaxRestarts
SPECIFICATION Spec
CHECK_DEADLOCK FALSE
INVARIANT SetStateOfCurrentSet
