---------------------------- MODULE MCCrfgVoter ----------------------------
(* Model-checking instance of CrfgVoter: three handoffs, rounds up to 5 so *)
(* that drop_round has pushed min_live_round past the tolerance before a   *)
(* set change, three queued commands, two crashes.                         *)
EXTENDS CrfgVoter

MCMaxRound == 5
MCMaxSetId == 3
MCMaxCmds == 3
MCMaxRestarts == 2
=============================================================================
