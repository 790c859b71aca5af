---------------------------- MODULE TopicTracker ----------------------------
(***************************************************************************)
(* The CRFG gossip validator's round window (core/crfg/src/lib.rs,         *)
(* TopicTracker and GossipValidator).  The tracker is a record             *)
(*   [min_live_round, max_round, set_id]                                   *)
(* guarded by a RwLock; note_round / drop_round are the writers, the       *)
(* network's validate / message_expired callbacks the readers.             *)
(*                                                                         *)
(* The operators below are pure functions of a tracker value so that the   *)
(* voter-driver and gossip modules can apply them inside their actions.   *)
(***************************************************************************)
EXTENDS Naturals

CONSTANTS
  MaxRound,    \* largest round number a call may carry
  MaxSetId     \* largest authority-set id a call may carry

\* MESSAGE_ROUND_TOLERANCE (lib.rs:117)
Tolerance == 2

Rounds == 0..MaxRound
SetIds == 0..MaxSetId

Trackers == [min_live_round : Nat, max_round : Nat, set_id : Nat]

\* GossipValidator::new
NewTracker == [min_live_round |-> 0, max_round |-> 0, set_id |-> 0]

\* u64::saturating_sub
SatSub(a, b) == IF a > b THEN a - b ELSE 0

\* TopicTracker::is_expired: the first matching branch decides.
IsExpired(t, round, set_id) ==
  \/ set_id < t.set_id
  \/ set_id = t.set_id + 1 /\ round > Tolerance
  \/ set_id = t.set_id /\ round < SatSub(t.min_live_round, Tolerance)
  \/ set_id > t.set_id + 1

\* note_round that moves to a newer set but keeps the old set's
\* min_live_round (a missing reset).
NoteRoundKeepWindow(t, round, set_id) ==
  LET moved == IF set_id > t.set_id
                 THEN [t EXCEPT !.set_id = set_id, !.max_round = 0]
                 ELSE t
  IN  [moved EXCEPT !.max_round = IF round > @ THEN round ELSE @]

\* GossipValidator::note_round: a newer set resets the window first.
NoteRound(t, round, set_id) ==
  LET reset == IF set_id > t.set_id
                 THEN [set_id |-> set_id, max_round |-> 0, min_live_round |-> 0]
                 ELSE t
  IN  [reset EXCEPT !.max_round = IF round > @ THEN round ELSE @]

\* drop_round without the round >= min_live_round guard: dropping an old
\* round late moves the window back.
DropRoundUnguarded(t, round, set_id) ==
  IF set_id = t.set_id THEN [t EXCEPT !.min_live_round = round + 1] ELSE t

\* GossipValidator::drop_round
DropRound(t, round, set_id) ==
  IF set_id = t.set_id /\ round >= t.min_live_round
    THEN [t EXCEPT !.min_live_round = round + 1]
    ELSE t

----------------------------------------------------------------------------
(* The tracker as a variable, for the property below; CrfgGossip drives   *)
(* it with the voter's calls and checks the property there.               *)

VARIABLE rounds

\* Expiry is final for the current and older sets: the gossip engine
\* garbage-collects an expired message (collect_garbage after drop_round,
\* lib.rs:521-524), so a (round, set) that is expired under the tracker
\* and not from a future set must never become live again through a later
\* note_round or drop_round, whoever calls them and in whatever order.
ExpiryIsFinal ==
  [][\A r \in Rounds, s \in SetIds :
        (s <= rounds.set_id /\ IsExpired(rounds, r, s))
           => IsExpired(rounds', r, s)]_rounds
=============================================================================
