---------------------------- MODULE CrfgHandoff ----------------------------
(***************************************************************************)
(* What the CRFG authority-set handoff promises (spec 4.5 and 4.6), with   *)
(* no channel, no round state and no crash in it:                          *)
(*                                                                         *)
(*  - the block-import hook enacts authority sets 1, 2, 3, ... in order;   *)
(*  - the voter takes them up one at a time, in the order they were        *)
(*    enacted, never one that has not been enacted and never an older one; *)
(*  - only a node that restarts resumes on the latest enacted set,        *)
(*    skipping the handoffs it had not yet applied; a running voter never  *)
(*    skips one.                                                           *)
(*                                                                         *)
(* CrfgVoter implements this specification (see HandoffRefined there).     *)
(***************************************************************************)
EXTENDS Naturals

CONSTANT MaxSetId   \* authority-set handoffs that may be enacted

VARIABLES
  enacted,   \* the latest authority set the hook has enacted
  applied,   \* the authority set the voter votes in
  boots      \* how many times the node has restarted

hvars == <<enacted, applied, boots>>

HInit == enacted = 0 /\ applied = 0 /\ boots = 0

\* The hook enacts the next authority set.
Enact ==
  /\ enacted < MaxSetId
  /\ enacted' = enacted + 1
  /\ UNCHANGED <<applied, boots>>

\* The voter moves to the set after its own, which has been enacted.
ApplyNext ==
  /\ applied < enacted
  /\ applied' = applied + 1
  /\ UNCHANGED <<enacted, boots>>

\* The node restarts and the voter resumes on the latest enacted set.
Resume ==
  /\ boots' = boots + 1
  /\ applied' = enacted
  /\ UNCHANGED enacted

HNext == Enact \/ ApplyNext \/ Resume

HSpec == HInit /\ [][HNext]_hvars
=============================================================================
