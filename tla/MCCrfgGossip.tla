---------------------------- MODULE MCCrfgGossip ----------------------------
(* CrfgGossip for TLC: four rounds per set, two sets, one queued garbage   *)
(* pass, and peers that send votes for rounds 1 and 3 of the next set, a   *)
(* valid and a badly signed vote for round 2, a commit with empty lists,   *)
(* and undecodable bytes;                                                  *)
(* the node is a voter of the first set only.                              *)
EXTENDS CrfgGossip

MCMaxRound == 4
MCMaxSetId == 1
MCMaxGc == 1

\* The local key votes in set 0 and only observes set 1.
MCLocalSets == {0}

Msg(kind, round, set, sig, shape) ==
  [kind |-> kind, round |-> round, set |-> set, sig |-> sig, shape |-> shape,
   from |-> "peer"]

MCMsgs ==
  {Msg("Vote", 1, 1, TRUE, "ok"), Msg("Vote", 3, 1, TRUE, "ok"),
   Msg("Vote", 2, 0, TRUE, "ok"), Msg("Vote", 2, 0, FALSE, "ok"),
   Msg("Commit", 2, 0, TRUE, "empty"),
   Msg("Garbage", 0, 0, FALSE, "ok")}
=============================================================================
