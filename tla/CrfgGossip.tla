----------------------------- MODULE CrfgGossip -----------------------------
(***************************************************************************)
(* The CRFG gossip path of core/crfg/src/lib.rs: the GossipValidator's     *)
(* validate and message_expired callbacks (337-435), which the gossip      *)
(* engine runs on the network thread, and the NetworkBridge methods        *)
(* (504-546) the voter calls on its own task.                              *)
(*                                                                         *)
(* The engine keeps every message it accepted (and every message the node  *)
(* itself multicast) until a collect_garbage pass finds it expired.  The   *)
(* voter's calls change the round window at once (the validator's RwLock)  *)
(* but only queue the collect_garbage closure for the network thread       *)
(* (service.with_gossip), so a pass runs against whatever window is        *)
(* current by then.                                                        *)
(*                                                                         *)
(* A message is abstracted to its kind, (round, set_id), whether its       *)
(* signatures check (communication::check_message_sig) and, for a commit,  *)
(* the shape of its precommit / auth_data lists.                           *)
(***************************************************************************)
EXTENDS Naturals

CONSTANTS
  MaxRound,   \* rounds the voter may reach in a set
  MaxSetId,   \* authority sets the voter may reach
  MaxGc,      \* collect_garbage closures that may be queued at once
  Msgs,       \* the messages peers may send
  LocalSets   \* the authority sets whose voter list holds the local key

VARIABLES
  rounds,     \* the validator's TopicTracker
  store,      \* messages the gossip engine holds
  vset,       \* set id of the running voter
  vround,     \* round the running voter is in
  gcQueue     \* collect_garbage closures queued on the network thread

vars == <<rounds, store, vset, vround, gcQueue>>

TT == INSTANCE TopicTracker

\* GossipMessage (lib.rs:129-172): VoteOrPrecommit and Commit carry round
\* and set_id; "Garbage" stands for bytes that do not decode.  from tells
\* the node's own messages from its peers'.
Messages ==
  [kind : {"Vote", "Commit", "Garbage"}, round : Nat, set : Nat,
   sig : BOOLEAN, shape : {"ok", "empty", "mismatch"}, from : {"peer", "self"}]

\* validate_round_message (lib.rs:337-358): expiry first, then the signature.
ValidateRoundMessage(t, m) ==
  IF TT!IsExpired(t, m.round, m.set) THEN "Expired"
  ELSE IF ~m.sig THEN "Invalid"
  ELSE "Valid"

\* validate_commit_message (lib.rs:360-408): expiry, then the lists' shape
\* (equal lengths, not empty), then every precommit's signature.
ValidateCommitMessage(t, m) ==
  IF TT!IsExpired(t, m.round, m.set) THEN "Expired"
  ELSE IF m.shape # "ok" THEN "Invalid"
  ELSE IF ~m.sig THEN "Invalid"
  ELSE "Valid"

\* Validator::validate (lib.rs:412-422): dispatch on the decoded message.
Validate(t, m) ==
  CASE m.kind = "Vote" -> ValidateRoundMessage(t, m)
    [] m.kind = "Commit" -> ValidateCommitMessage(t, m)
    [] m.kind = "Garbage" -> "Invalid"

\* A message_expired that also collects the rounds just below the live
\* one, forgetting the tolerance.
MessageExpiredNoTolerance(t, m) ==
  \/ m.kind = "Garbage"
  \/ TT!IsExpired(t, m.round, m.set)
  \/ m.set = t.set_id /\ m.round < t.min_live_round

\* message_expired (lib.rs:424-435): undecodable bytes, and any message
\* whose (round, set_id) the window has left behind.
MessageExpired(t, m) ==
  m.kind = "Garbage" \/ TT!IsExpired(t, m.round, m.set)

\* The engine's collect_garbage keeps the messages message_expired spares.
CollectGarbage(t, s) == {m \in s : ~MessageExpired(t, m)}

\* The node's own message for (round, set_id), as the voter sends it.
Own(kind, round, set) ==
  [kind |-> kind, round |-> round, set |-> set, sig |-> TRUE, shape |-> "ok",
   from |-> "self"]

----------------------------------------------------------------------------
(* The voter starts at round 1 of set 0 and calls messages_for(1, 0).      *)

Init ==
  /\ rounds = TT!NoteRound(TT!NewTracker, 1, 0)
  /\ store = {}
  /\ vset = 0
  /\ vround = 1
  /\ gcQueue = 0

\* A peer's message reaches the engine, which keeps it iff validate says
\* Valid (lib.rs:411-422).
Receive ==
  /\ \E m \in Msgs :
       store' = IF Validate(rounds, m) = "Valid" THEN store \cup {m} ELSE store
  /\ UNCHANGED <<rounds, vset, vround, gcQueue>>

\* send_message (lib.rs:516-519): the voter multicasts its vote for the
\* current round; the engine keeps it without validating it.
SendMessage ==
  /\ store' = store \cup {Own("Vote", vround, vset)}
  /\ UNCHANGED <<rounds, vset, vround, gcQueue>>

\* committer_communication (lib.rs:702-755): the set's inbound commits come
\* from commit_messages(set_id) through the signature check, and the
\* outbound sink (CommitsOut, spec 4.6) sends only when is_voter, that is
\* when the local key is in the set's voter list.
IsVoter(set) == set \in LocalSets

\* send_commit (lib.rs:541-544): a voter of the set multicasts the commit
\* of the round it has just completed.
SendCommit ==
  /\ IsVoter(vset)
  /\ vround > 1
  /\ store' = store \cup {Own("Commit", vround - 1, vset)}
  /\ UNCHANGED <<rounds, vset, vround, gcQueue>>

\* messages_for (lib.rs:506-514): the voter enters its next round and
\* notes it in the validator.
VoterStartRound ==
  /\ vround < MaxRound
  /\ vround' = vround + 1
  /\ rounds' = TT!NoteRound(rounds, vround + 1, vset)
  /\ UNCHANGED <<store, vset, gcQueue>>

\* A hand-off whose new voter starts at the last completed round (0)
\* instead of the one after it.
VoterNewSetRoundZero ==
  /\ vset < MaxSetId
  /\ vset' = vset + 1
  /\ vround' = 0
  /\ rounds' = TT!NoteRound(rounds, 0, vset + 1)
  /\ UNCHANGED <<store, gcQueue>>

\* A ChangeAuthorities hand-off: the new set's voter subscribes to the
\* set's commits (commit_messages, lib.rs:531-539, note_set is a no-op)
\* and to round 1 (messages_for).
VoterNewSet ==
  /\ vset < MaxSetId
  /\ vset' = vset + 1
  /\ vround' = 1
  /\ rounds' = TT!NoteRound(rounds, 1, vset + 1)
  /\ UNCHANGED <<store, gcQueue>>

\* drop_round_messages (lib.rs:521-524) for a round the voter has left:
\* the window moves now, the garbage pass is queued.
VoterDropRound ==
  /\ gcQueue < MaxGc
  /\ \E r \in 1..(vround - 1) : rounds' = TT!DropRound(rounds, r, vset)
  /\ gcQueue' = gcQueue + 1
  /\ UNCHANGED <<store, vset, vround>>

\* drop_set_messages (lib.rs:526-529): drop_set is a no-op, the garbage
\* pass is queued.
VoterDropSet ==
  /\ gcQueue < MaxGc
  /\ gcQueue' = gcQueue + 1
  /\ UNCHANGED <<rounds, store, vset, vround>>

\* The network thread runs a queued collect_garbage against the window as
\* it is now.
CollectGarbageStep ==
  /\ gcQueue > 0
  /\ store' = CollectGarbage(rounds, store)
  /\ gcQueue' = gcQueue - 1
  /\ UNCHANGED <<rounds, vset, vround>>

Next ==
  \/ Receive
  \/ SendMessage
  \/ SendCommit
  \/ VoterStartRound
  \/ VoterNewSet
  \/ VoterDropRound
  \/ VoterDropSet
  \/ CollectGarbageStep

Spec == Init /\ [][Next]_vars

----------------------------------------------------------------------------
(* Properties                                                               *)

TypeOK ==
  /\ store \subseteq Msgs \cup {Own(k, r, s) : k \in {"Vote", "Commit"},
                                                r \in 1..MaxRound, s \in 0..MaxSetId}
  /\ vset \in 0..MaxSetId
  /\ vround \in 1..MaxRound
  /\ gcQueue \in 0..MaxGc

\* The voter's live window: its set, its current round and the Tolerance
\* rounds before it, which GRANDPA still finishes in the background.
InWindow(m) == m.set = vset /\ m.round >= TT!SatSub(vround, TT!Tolerance)

\* Spec 8.3: no message of the running voter's set and live rounds is
\* expired.  Whatever order the network thread's garbage passes take
\* against the voter's note_round / drop_round calls and set hand-offs,
\* a message the engine holds for the voter's live window (a peer's,
\* accepted early, or the node's own) is never collected.
LiveWindowKept ==
  [][\A m \in store : InWindow(m) => m \in store']_vars
\* The tracker's expiry is final under the voter's own calls: whatever order
\* the voter's note_round (messages_for, lib.rs:506-507), drop_round for any
\* round it has left (lib.rs:521-522) and set hand-offs come in, a (round,
\* set) of the current or an older set that validate() and collect_garbage
\* treat as expired never becomes acceptable again, so a message the engine
\* has already collected cannot be taken in a second time.
GossipExpiryIsFinal == TT!ExpiryIsFinal
=============================================================================
