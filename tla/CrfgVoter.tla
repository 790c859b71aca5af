----------------------------- MODULE CrfgVoter -----------------------------
(***************************************************************************)
(* The CRFG voter driver (run_crfg, core/crfg/src/lib.rs:786-975) with the *)
(* block-import hook that feeds it commands, the gossip round window it    *)
(* drives, the aux store it persists to, and crashes of the node.          *)
(*                                                                         *)
(*  - The hook (import.rs, not in this source tree: modelled from the      *)
(*    spec, section 4.5) owns the authority set, persists it and sends     *)
(*    ChangeAuthorities / Pause through an unbounded FIFO channel.         *)
(*  - The driver loop owns (env, set_state, voter_commands_rx).  Each loop *)
(*    iteration builds a voter when set_state is Live, then selects        *)
(*    between the voter and the next command.                              *)
(*  - A running voter completes rounds; Environment::completed (not in     *)
(*    this tree, spec 4.6 "persist every transition") records the round   *)
(*    in env.last_completed and in the aux store, and opens the next      *)
(*    round's gossip topic (note_round) and drops an old one (drop_round). *)
(*  - A crash loses the channel and all in-memory state; the restart runs  *)
(*    block_import / run_crfg again from the aux store.                    *)
(*                                                                         *)
(* A round state is abstracted to the authority set whose handoff block    *)
(* it descends from (its base): RoundState::genesis((canon_hash, ...)).    *)
(***************************************************************************)
EXTENDS Naturals, Sequences

CONSTANTS
  MaxRound,     \* rounds a voter may reach within one set
  MaxSetId,     \* authority-set handoffs the hook may enact
  MaxCmds,      \* capacity used to bound the (unbounded) command channel
  MaxRestarts   \* node crashes and restarts

ASSUME MaxRound >= 1 /\ MaxSetId >= 1 /\ MaxCmds >= 1 /\ MaxRestarts \in Nat

VARIABLES
  authSetId,      \* authority set id, persisted by the hook ("authority_set")
  cmds,           \* voter_commands channel, hook -> driver
  envSetId,       \* env.set_id of the driver's current Environment
  lastCompleted,  \* env.last_completed: [round, base]
  setState,       \* the loop's set_state: [kind, round, base]
  persisted,      \* aux "voter_set_state"
  driver,         \* "Running", or "Stopped" once voter_work has resolved
  tracker,        \* the GossipValidator's TopicTracker
  stream,         \* the NetworkStream of the live voter's current round
  restarts

vars == <<authSetId, cmds, envSetId, lastCompleted, setState, persisted,
          driver, tracker, stream, restarts>>

TT == INSTANCE TopicTracker WITH rounds <- tracker
NS == INSTANCE NetworkStream

Live == "Live"
Paused == "Paused"

SetStates == [kind : {Live, Paused}, round : 0..MaxRound, base : 0..MaxSetId]
Commands == [type : {"ChangeAuthorities"}, set_id : 1..MaxSetId]
              \cup [type : {"Pause"}]

\* VoterSetState::round() as a LastCompletedRound value
RoundOf(ss) == [round |-> ss.round, base |-> ss.base]

\* The voter a loop iteration builds for set_state: only a Live state gets
\* one, and the voter opens round last_round_number + 1 of env.set_id
\* (messages_for -> note_round, lib.rs:506-507).
StartVoter(t, ss, setId) ==
  IF ss.kind = Live THEN TT!NoteRound(t, ss.round + 1, setId) ELSE t

----------------------------------------------------------------------------
(* Initial state: block_import on a fresh store (aux_schema::load_persistent *)
(* writes the genesis authorities and Live(0, genesis)), then run_crfg.   *)

Init ==
  /\ authSetId = 0
  /\ cmds = << >>
  /\ envSetId = 0
  /\ persisted = [kind |-> Live, round |-> 0, base |-> 0]
  /\ setState = persisted
  /\ lastCompleted = RoundOf(persisted)
  /\ driver = "Running"
  /\ tracker = StartVoter(TT!NewTracker, persisted, 0)
  /\ stream = NS!NewStream
  /\ restarts = 0

----------------------------------------------------------------------------
(* Block-import hook (spec 4.5).                                           *)

\* A handoff block is finalized: the hook applies the scheduled change to the
\* authority set, persists it, and sends ChangeAuthorities.  The send is
\* lost when the receiver has gone with a stopped voter.
EnactChange ==
  /\ authSetId < MaxSetId
  /\ Len(cmds) < MaxCmds
  /\ authSetId' = authSetId + 1
  /\ cmds' = IF driver = "Running"
               THEN Append(cmds, [type |-> "ChangeAuthorities", set_id |-> authSetId + 1])
               ELSE cmds
  /\ UNCHANGED <<envSetId, lastCompleted, setState, persisted, driver, tracker, stream, restarts>>

\* A forced change pauses the voter of the old set.
SendPause ==
  /\ driver = "Running"
  /\ Len(cmds) < MaxCmds
  /\ cmds' = Append(cmds, [type |-> "Pause"])
  /\ UNCHANGED <<authSetId, envSetId, lastCompleted, setState, persisted, driver, tracker, stream, restarts>>

----------------------------------------------------------------------------
(* The live voter (Environment::completed and the round lifecycle).        *)

\* The current round lastCompleted.round + 1 completes; round + 2 opens and
\* the round before the completed one is dropped from gossip.
VoterCompleteRound ==
  LET done == lastCompleted.round + 1 IN
  /\ driver = "Running"
  /\ setState.kind = Live
  /\ done + 1 <= MaxRound
  /\ lastCompleted' = [round |-> done, base |-> lastCompleted.base]
  /\ persisted' = [kind |-> Live, round |-> done, base |-> lastCompleted.base]
  /\ tracker' = TT!DropRound(TT!NoteRound(tracker, done + 1, envSetId),
                             done - 1, envSetId)
  /\ stream' = NS!NewStream
  /\ UNCHANGED <<authSetId, cmds, envSetId, setState, driver, restarts>>

----------------------------------------------------------------------------
(* The driver loop (lib.rs:831-964).                                       *)

\* The ChangeAuthorities arm building the new Environment from the shared
\* authority set (next id after the live one) instead of the command.
HandleChangeAuthoritiesNextSet ==
  /\ driver = "Running"
  /\ cmds # << >>
  /\ Head(cmds).type = "ChangeAuthorities"
  /\ LET ss == [kind |-> Live, round |-> 0, base |-> authSetId + 1]
     IN /\ envSetId' = authSetId + 1
        /\ lastCompleted' = RoundOf(ss)
        /\ setState' = ss
        /\ tracker' = StartVoter(tracker, ss, authSetId + 1)
        /\ stream' = NS!NewStream
  /\ cmds' = Tail(cmds)
  /\ UNCHANGED <<authSetId, persisted, driver, restarts>>

\* The ChangeAuthorities arm keeping the old env.set_id.
HandleChangeAuthoritiesOldSet ==
  /\ driver = "Running"
  /\ cmds # << >>
  /\ Head(cmds).type = "ChangeAuthorities"
  /\ LET ss == [kind |-> Live, round |-> 0, base |-> Head(cmds).set_id]
     IN /\ lastCompleted' = RoundOf(ss)
        /\ setState' = ss
        /\ tracker' = StartVoter(tracker, ss, envSetId)
        /\ stream' = NS!NewStream
  /\ cmds' = Tail(cmds)
  /\ UNCHANGED <<authSetId, envSetId, persisted, driver, restarts>>

\* The ChangeAuthorities arm building the new Environment for the latest
\* set the shared authority set holds, skipping queued handoffs.
HandleChangeAuthoritiesLatest ==
  /\ driver = "Running"
  /\ cmds # << >>
  /\ Head(cmds).type = "ChangeAuthorities"
  /\ LET ss == [kind |-> Live, round |-> 0, base |-> authSetId]
     IN /\ envSetId' = authSetId
        /\ lastCompleted' = RoundOf(ss)
        /\ setState' = ss
        /\ tracker' = StartVoter(tracker, ss, authSetId)
        /\ stream' = NS!NewStream
  /\ cmds' = Tail(cmds)
  /\ UNCHANGED <<authSetId, persisted, driver, restarts>>

\* A loop that only takes commands while a voter is live.
HandleChangeAuthoritiesWhenLive ==
  /\ setState.kind = Live
  /\ driver = "Running"
  /\ cmds # << >>
  /\ Head(cmds).type = "ChangeAuthorities"
  /\ LET new == Head(cmds)
         ss == [kind |-> Live, round |-> 0, base |-> new.set_id]
     IN /\ envSetId' = new.set_id
        /\ lastCompleted' = RoundOf(ss)
        /\ setState' = ss
        /\ tracker' = StartVoter(tracker, ss, new.set_id)
        /\ stream' = NS!NewStream
  /\ cmds' = Tail(cmds)
  /\ UNCHANGED <<authSetId, persisted, driver, restarts>>

\* handle_voter_command, ChangeAuthorities arm (lib.rs:886-919): a new
\* Environment for the new set whose last_completed is round 0 of the
\* handoff block, set_state Live(0, genesis_state); the next loop iteration
\* starts a voter on it.  Nothing is written to the aux store.
HandleChangeAuthorities ==
  /\ driver = "Running"
  /\ cmds # << >>
  /\ Head(cmds).type = "ChangeAuthorities"
  /\ LET new == Head(cmds)
         ss == [kind |-> Live, round |-> 0, base |-> new.set_id]
     IN /\ envSetId' = new.set_id
        /\ lastCompleted' = RoundOf(ss)
        /\ setState' = ss
        /\ tracker' = StartVoter(tracker, ss, new.set_id)
        /\ stream' = NS!NewStream
  /\ cmds' = Tail(cmds)
  /\ UNCHANGED <<authSetId, persisted, driver, restarts>>

\* handle_voter_command, Pause arm (lib.rs:921-934): Paused with the env's
\* last completed round, written to the aux store; no voter is built.  A
\* failing write returns the error (the `?`) and the driver loop ends.
HandlePause ==
  /\ driver = "Running"
  /\ cmds # << >>
  /\ Head(cmds).type = "Pause"
  /\ cmds' = Tail(cmds)
  /\ stream' = NS!NoStream
  /\ \E written \in BOOLEAN :
       IF written
         THEN LET ss == [kind |-> Paused, round |-> lastCompleted.round,
                         base |-> lastCompleted.base]
              IN /\ setState' = ss
                 /\ persisted' = ss
                 /\ UNCHANGED driver
         ELSE /\ driver' = "Stopped"
              /\ UNCHANGED <<setState, persisted>>
  /\ UNCHANGED <<authSetId, envSetId, lastCompleted, tracker, restarts>>

\* The select resolves without a command (lib.rs:939-954): the voter
\* concludes, the command stream ends or fails, or the voter returns an
\* error.  voter_work resolves and the driver is gone.
VoterStops ==
  /\ driver = "Running"
  /\ driver' = "Stopped"
  /\ stream' = NS!NoStream
  /\ UNCHANGED <<authSetId, cmds, envSetId, lastCompleted, setState, persisted, tracker, restarts>>

\* The node crashes and restarts: block_import (lib.rs:654-700) reloads the
\* aux store and makes a fresh channel; run_crfg (lib.rs:805-830) builds the
\* Environment from the persisted authority set and the persisted set state
\* and a fresh GossipValidator (lib.rs:298-308).
Restart ==
  /\ restarts < MaxRestarts
  /\ envSetId' = authSetId
  /\ setState' = persisted
  /\ lastCompleted' = RoundOf(persisted)
  /\ cmds' = << >>
  /\ driver' = "Running"
  /\ tracker' = StartVoter(TT!NewTracker, persisted, authSetId)
  /\ stream' = IF persisted.kind = Live THEN NS!NewStream ELSE NS!NoStream
  /\ restarts' = restarts + 1
  /\ UNCHANGED <<authSetId, persisted>>

\* The node's exit signal fires: voter_work.select(on_exit) (lib.rs:965-975)
\* resolves and drops the voter loop joined with the broadcast worker.
NodeExit ==
  /\ driver = "Running"
  /\ driver' = "Stopped"
  /\ stream' = NS!NoStream
  /\ UNCHANGED <<authSetId, cmds, envSetId, lastCompleted, setState, persisted, tracker, restarts>>

----------------------------------------------------------------------------
(* The round's NetworkStream (lib.rs:224-248, 506-514) between the network *)
(* thread, which runs the messages_for closure and pushes messages, and   *)
(* the voter's task, which polls the stream when woken.                   *)

\* The network thread runs the queued messages_for closure, or drops it.
GossipRunsClosure ==
  /\ stream.outer = "Pending"
  /\ \/ stream' = NS!SendInner(stream)
     \/ stream' = NS!CancelOuter(stream)
  /\ UNCHANGED <<authSetId, cmds, envSetId, lastCompleted, setState, persisted, driver, tracker, restarts>>

\* A peer's message for the round reaches the subscription's channel.
GossipPush ==
  /\ stream.outer \in {"Sent", "Taken"}
  /\ ~stream.pending
  /\ stream' = NS!Push(stream)
  /\ UNCHANGED <<authSetId, cmds, envSetId, lastCompleted, setState, persisted, driver, tracker, restarts>>

\* The woken voter task polls the round's stream.  An Err(()) fails the
\* voter, whose error ends the driver loop (Err(CommandOrError::Error),
\* lib.rs:950-953) and voter_work.
PollStream(next) ==
  /\ stream' = next
  /\ driver' = IF next.outer = "Failed" THEN "Stopped" ELSE driver
  /\ UNCHANGED <<authSetId, cmds, envSetId, lastCompleted, setState, persisted, tracker, restarts>>

VoterPollsStream ==
  /\ driver = "Running"
  /\ stream.notify
  /\ PollStream(NS!Poll(stream))

HandleCommand == HandleChangeAuthorities \/ HandlePause

Next ==
  \/ EnactChange
  \/ SendPause
  \/ VoterCompleteRound
  \/ HandleCommand
  \/ VoterStops
  \/ NodeExit
  \/ GossipRunsClosure
  \/ GossipPush
  \/ VoterPollsStream
  \/ Restart

\* The loop and the voter are tasks on the executor: whenever a command is
\* queued and the driver is running it is eventually taken, and a woken
\* task is eventually polled (weak fairness).  The network thread works
\* through the closures queued on it, so a messages_for closure is
\* eventually run or dropped.  The hook, the voter's progress, peers'
\* messages, failures, exits and crashes are not assumed to happen.
Fairness ==
  /\ WF_vars(HandleCommand)
  /\ WF_vars(VoterPollsStream)
  /\ WF_vars(GossipRunsClosure)

Spec == Init /\ [][Next]_vars /\ Fairness

----------------------------------------------------------------------------
(* Properties                                                               *)

TypeOK ==
  /\ authSetId \in 0..MaxSetId
  /\ cmds \in Seq(Commands) /\ Len(cmds) <= MaxCmds
  /\ envSetId \in 0..MaxSetId
  /\ lastCompleted \in [round : 0..MaxRound, base : 0..MaxSetId]
  /\ setState \in SetStates
  /\ persisted \in SetStates
  /\ driver \in {"Running", "Stopped"}
  /\ tracker \in TT!Trackers
  /\ stream \in NS!Streams
  /\ restarts \in 0..MaxRestarts

\* Every handoff the hook has enacted reaches the voter exactly once: while
\* the driver runs and no ChangeAuthorities is still queued, the voter's
\* env.set_id is the persisted authority set's id, across pauses, round
\* completions and restarts that drop the channel.
HandoffsApplied ==
  (driver = "Running"
     /\ \A i \in 1..Len(cmds) : cmds[i].type # "ChangeAuthorities")
    => envSetId = authSetId

\* The round a live voter is in is never expired in its own gossip
\* validator: its peers' votes for (current round, env.set_id) pass
\* validate() and survive collect_garbage, through set changes that reset
\* the window (note_round) and old rounds being dropped (drop_round).
CurrentRoundLive ==
  (driver = "Running" /\ setState.kind = Live)
    => ~TT!IsExpired(tracker, lastCompleted.round + 1, envSetId)

\* Every authority-set change the hook enacts is eventually taken up by the
\* voter driver (its env.set_id reaches it), unless the driver has stopped.
ChangesReachVoter ==
  \A k \in 1..MaxSetId :
    (authSetId = k /\ driver = "Running") ~> (envSetId >= k \/ driver # "Running")

\* Spec 4.6: every set-state transition is persisted before the loop goes
\* on, so a crash brings the voter back in the state it was in.  In
\* particular a voter that is live is never recorded as paused.
LiveVoterIsDurable ==
  (driver = "Running" /\ setState.kind = Live) => persisted.kind = Live

\* Spec 2 / 4.6: on restart the voter resumes from the persisted set state.
\* The round state the driver runs on descends from the handoff block of the
\* authority set its Environment votes in (run_crfg builds env.set_id from
\* the persisted authority set and last_completed from the persisted
\* voter_set_state, lib.rs:805-830), so the two records never disagree.
SetStateOfCurrentSet ==
  driver = "Running" => setState.base = envSetId

\* A message the gossip engine has pushed into the current round's
\* subscription is eventually handed to the voter, unless the voter moves
\* on or stops.  The receiver only exists once the network thread has run
\* the messages_for closure, and only a task registered with a receiver is
\* woken by it: NetworkStream::poll (lib.rs:234-248) must poll the inner
\* receiver in the same call that takes it from the oneshot, or a message
\* pushed after that call wakes nobody.
StreamDelivers ==
  (driver = "Running" /\ stream.pending)
    ~> (~stream.pending \/ driver # "Running")

\* The handoff promise of CrfgHandoff, seen through the voter's state: the
\* hook's persisted authority set is the latest enacted set, env.set_id is
\* the set the voter votes in, and the node's restarts are its boots.
Handoff == INSTANCE CrfgHandoff
             WITH enacted <- authSetId, applied <- envSetId, boots <- restarts

\* The voter driver implements the handoff specification: across the
\* unbounded command channel (lib.rs:684), the ChangeAuthorities arm
\* (lib.rs:886-919), a Pause whose write fails, a stopped driver whose
\* channel fills with sends nobody takes, and crashes whose restart rebuilds
\* env.set_id from the persisted authority set (lib.rs:805-830), env.set_id
\* only ever moves to the next enacted set while the node runs, and jumps to
\* the latest only in a restart.
HandoffRefined == Handoff!HSpec
=============================================================================
