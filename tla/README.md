# TLA+ models of the yeeroot node

This directory holds TLA+ specifications of the parts of the yeeroot node
(`src/`) whose behaviour depends on ordering, crashes or arithmetic edges.
It also holds the TLC configurations that check them, and `PROJECT.json`,
which records:

- the components;
- the runs;
- the mutants that show each property can fail;
- the map from every definition to the source lines it models;
- the findings;
- the hazards.

Run everything from this directory:

```
tlc -workers 2 -config <Cfg>.cfg <Module>
```

## The system and how its parts interact

| Part | Source | State | Operations |
|---|---|---|---|
| CRFG voter driver | `core/crfg/src/lib.rs` `run_crfg` (786-975), `block_import` (654-700) | `env` (set id, last completed round), `set_state` (Live/Paused, round, round state), the command receiver, the aux store (`authority_set`, `voter_set_state`) | ChangeAuthorities and Pause commands, voter conclusion or error, restart |
| CRFG gossip validator | `lib.rs` `TopicTracker` / `GossipValidator` (250-435), `NetworkBridge` (496-529) | `{min_live_round, max_round, set_id}` behind a RwLock | `note_round` (a voter opens a round), `drop_round` (a round is done), `is_expired` (validate / garbage collection) |
| CRFG round stream | `lib.rs` `NetworkStream` (224-248), `messages_for` (506-514) | the oneshot carrying the engine's receiver, the stored receiver, the voter task's wake-up registration | the network thread runs (or drops) the subscribing closure, the engine pushes a message, the voter polls |
| CRFG block-import hook | `import.rs`, not in this tree (spec 4.5) | the authority set and its pending changes | enacts a change, persists the set, sends `ChangeAuthorities` or `Pause` over an unbounded channel |
| PoW difficulty engine | `core/consensus/pow/src/worker.rs` `calc_difficulty` (198-261) | the chain's seals (timestamp, difficulty) | the retarget at every `difficulty_adj`-th block |
| PoW worker | `worker.rs` `start_worker` (272-336), `DefaultWorker::on_job` (110-196) | loop position, chain head of the job, stop sign | loop iteration, proposal, seal and import, exit |
| Import queue / verifier | `pow/src/lib.rs` `import_queue` | library `BasicQueue` | not modelled |
| Relay decoder | `core/sr-primitives/src/lib.rs` `RelayParams::decode` (54-113), `OriginExtrinsic::decode` (218-331) | none (pure parsers) | decode a relay transaction and the origin extrinsic inside it |
| Switch PoW RPC, mining gateway, misc RPC, foreign-network messages, service wiring, chain spec | see `PROJECT.json` | | not modelled |

Two flows connect the modelled parts:

- **CRFG.** Every imported block goes through the import hook. The hook
  enacts authority-set changes, persists the set, and sends commands to the
  driver. The driver builds a voter for a Live set state. The voter opens its
  rounds in the gossip validator (`messages_for` → `note_round`) and drops
  finished ones (`drop_round_messages` → `drop_round` → `collect_garbage`).
  The validator expires every message outside its round window, and expired
  messages are garbage-collected.
- **PoW.** The worker reads the best header, asks the proposer for a body,
  and computes the difficulty from the chain. It then searches for a nonce
  and imports the block with `LongestChain`. The verifier (not in this tree)
  recomputes the same difficulty for every other node's block.

Every driver is a future on one cooperative executor (spec 5). A step of a
driver between two suspension points is therefore atomic. Hence one action
per loop iteration, per command arm and per proposal completion.

## Modules

| Module | Models | State ↔ code |
|---|---|---|
| `TopicTracker` | the round window | `rounds` is the `TopicTracker` record. `IsExpired`, `NoteRound` and `DropRound` are the code's functions, as operators that other modules apply. `ExpiryIsFinal` is stated over `rounds` and checked in the gossip run, where the voter's calls drive the tracker. |
| `CrfgHandoff` | what the handoff promises (spec 4.5, 4.6) | `enacted` is the latest set the hook enacted, `applied` the set the voter votes in. `boots` counts restarts. `Enact`, `ApplyNext` (the next set, once) and `Resume` (only a restart, which bumps `boots`, takes the latest). `CrfgVoter` implements it. |
| `NetworkStream` | the round stream the voter reads its messages from | a stream is a record: the oneshot's state (`Pending`, `Sent`, `Canceled`, `Taken` = `self.inner` is `Some`, `Failed`), an unread message in the engine's channel, whether the voter's task is woken, and which receiver the last `NotReady` registered it with (the futures 0.1 contract). `Poll` is `NetworkStream::poll`; `SendInner`, `CancelOuter` and `Push` are the network side. |
| `CrfgVoter` | the voter driver, the hook, the voter's round lifecycle, the aux store and crashes | see below |
| `CrfgGossip` | the gossip validator's callbacks on the network thread, the engine's message store and its garbage passes, and the voter's `NetworkBridge` calls | see below |
| `PowDifficulty` | `calc_difficulty` on a growing chain | see below |
| `PowWorker` | the mining task against network imports, major sync and exit, on the chain of an instance of `PowDifficulty` | see below |
| `RelayDecode` | the two relay decoders, against an encoder of the wire layout | see below |
| `MC*` | instances: constants for TLC | |

### CrfgVoter

The state is a set of variables:

- `authSetId`: the persisted authority set.
- `cmds`: the command channel.
- `envSetId` and `lastCompleted`: the `env`.
- `setState`: the loop's `set_state`.
- `persisted`: the aux `voter_set_state`.
- `driver`: whether `voter_work` still runs.
- `tracker`: the `TopicTracker`, through `INSTANCE TopicTracker WITH rounds <- tracker`.
- `stream`: the current round's `NetworkStream` (a `NetworkStream` record). Every `messages_for` (a new voter, a new round) makes a fresh one; a paused or stopped driver holds none.
- `restarts`: the number of crashes so far.

A round state is abstracted to the set whose handoff block it starts from
(`base`).

| Action | What it models |
|---|---|
| `HandleChangeAuthorities` | the ChangeAuthorities arm (lib.rs:886-919). New env with the command's set id, `Live(0, genesis)`, a new voter noting round 1. Nothing is persisted, as in the code. |
| `HandlePause` | the Pause arm (921-934), including its failing write, which ends the loop. |
| `VoterStops` | the select's terminating outcomes (938-954). |
| `Restart` | a crash followed by `block_import` + `run_crfg` (654-700, 805-830): a fresh channel and validator, and the env rebuilt from the two persisted records. |
| `NodeExit` | the exit signal: `voter_work.join(broadcast_worker).select(on_exit)` (965-975) resolves and drops the loop. |
| `GossipRunsClosure` | the network thread runs the queued `messages_for` closure (509-512), sending the receiver through the oneshot, or drops it unrun. |
| `GossipPush` | the gossip engine (not in this tree) pushes a message for the round into the subscription. |
| `VoterPollsStream` | the woken voter task polls the stream (234-248). `Err(())` fails the voter, whose error ends the loop (950-953). |
| `EnactChange`, `SendPause` | the hook (spec 4.5). |
| `VoterCompleteRound` | `Environment::completed` (spec 4.6), which persists the round, notes the next round and drops the one before. |

### CrfgGossip

The state is:

- `rounds`: the `TopicTracker`, through `INSTANCE TopicTracker`.
- `store`: the messages the gossip engine holds.
- `vset`, `vround`: the running voter's set and round.
- `gcQueue`: the `collect_garbage` closures queued on the network thread.

A message is a record: kind (vote, commit, or bytes that do not decode),
round, set id, whether its signatures check, the shape of a commit's
lists, and whether it is the node's own.

| Action | What it models |
|---|---|
| `Receive` | `validate` (lib.rs:411-422): `validate_round_message` and `validate_commit_message` in their order of checks. The engine keeps a message iff it is Valid. |
| `SendMessage`, `SendCommit` | `send_message` and `send_commit`. The engine keeps the node's own messages without validating them. A commit goes out only when `IsVoter(vset)`, which models `committer_communication`'s `is_voter` (the local key is in the set, constant `LocalSets`). |
| `VoterStartRound`, `VoterNewSet` | `messages_for` and `commit_messages`, which note the round in the window at once. |
| `VoterDropRound`, `VoterDropSet` | `drop_round_messages` and `drop_set_messages`. They move the window now and queue `collect_garbage`. |
| `CollectGarbageStep` | the queued pass, filtering the store with `message_expired` against the window of that moment. |

The voter's own behaviour follows spec 4.6 (the voter's code is not in
this tree):

- rounds go up one at a time;
- it drops only rounds it has left;
- a hand-off starts round 1 of the next set.

### PowDifficulty

- A header is `[sealed, ts, diff]`.
- `Walk` is the loop at worker.rs:233-249, as a RECURSIVE operator.
- `CalcDifficulty` returns the set of outcomes a build can produce:
  - a difficulty;
  - `ParentSealMissing` (the `expect`);
  - `MulOverflow` (U256 `*` panics);
  - `TimeUnderflow` (a debug build). A release build wraps instead.
- Widths are scaled: difficulty to `DiffWidth` bits, timestamps to
  `TimeWidth` bits.
- `SealBlock` is `on_proposal_block` up to the import: the timestamp, the
  difficulty with one of those outcomes, and `Extend` putting the sealed
  header on the chain, or the panic that ends the task. `MineBlock` lets
  any block be sealed next; the violation runs use it.
- `PowWorker` instantiates the module with `height <- best`, so the
  worker's own blocks and the network's share one chain.

### PowWorker

| Action | What it models |
|---|---|
| `Init` | `start_pow` (`StartPow`: a fresh stop sign) and `start_worker` up to the loop. `on_start` registers the timestamp provider only when `has_provider` says none is there, and registering fails only on a duplicate, so its `?` never returns and no branch models it. |
| `LoopIteration` | the `loop_fn` closure up to its first return. The stop sign, major sync and best-header failure are its early returns. `OnJob` is `on_job` up to the proposal: a failing `env.init` or inherent data returns a resolved future. |
| `ProposalDone` | the proposal resolving, then the whole of `on_proposal_block` (`OnProposalBlock`): the timestamp, `D!CalcDifficulty` on the chain below the job's head (a panic ends the task), no seal found, or import with LongestChain, which extends the best chain only when the job's head is still its tip. |
| `SelectExit` | `work.select(on_exit).then(...)`: the loop future is dropped, then the stop sign is written. |
| `NetworkImport`, `SyncChange`, `OnExit` | the environment. A network block is sealed with `D!SealBlock` at a later timestamp than its parent, as the verifier demands. |

### RelayDecode

- A byte string is a sequence of naturals 0..255. The hash, account-id and
  signature lengths are constants, scaled down to 2, 2 and 4 bytes.
- `Parse` runs a list of field decoders in order and fails as soon as one
  runs out of input, the way each `Decode::decode(&mut input)?` returns
  `None`.
- The field decoders are the codec's: a byte, a fixed array, a compact
  integer (all four modes), a byte vector with a compact length, a
  `Vec<()>` (a compact length that consumes no bytes), and an era.
- `RelayParamsDecode` and `OriginDecode` are the two `decode` functions,
  with every guard in the order of the code. `Blake2` stands for the hash
  as an uninterpreted record, which is enough to compare hashes.
- The single state variable `input` is a relay and a way to damage it: an
  exact encoding, a signed or version-2 wrapper, a trailing byte, a length
  prefix one too large, or a cut of the relay or of its origin at every
  length. `Next` stutters, so each invariant is checked over every input.

## Runs

| Run | Cfg | Expect | What it shows |
|---|---|---|---|
| voter | `CrfgVoter.cfg` | pass | `HandoffsApplied`: once no ChangeAuthorities is queued, the running voter's set id is the persisted one, across pauses, round completions and a crash that drops the channel. `CurrentRoundLive`: the live voter's current round is never expired in its own validator (the new-set reset of `note_round` matters; the voter's drops here come in order, so `drop_round`'s guard is exercised by the gossip run). `ChangesReachVoter`: every enacted change eventually reaches the voter unless the driver stopped. `HandoffRefined`: the driver implements `CrfgHandoff` under the mapping `enacted <- authSetId`, `applied <- envSetId`, `boots <- restarts`. `env.set_id` moves only to the next enacted set while the node runs, or to the latest in a restart. It never goes back and never skips one while running: an arm that took the latest set from the shared authority set would break it. `StreamDelivers` (liveness): a message the engine has pushed into the current round's stream is eventually handed to the voter unless the voter moves on or stops, whatever order the network thread's closure, the pushes and the voter's polls take. It needs `poll` to poll the receiver in the call that takes it from the oneshot, since only that registers the task to be woken. |
| voter_durable | `CrfgVoterDurable.cfg` | violation | `LiveVoterIsDurable` fails after Pause then ChangeAuthorities. The store says Paused while the voter is live, because the ChangeAuthorities arm does not persist (spec 4.6 says it does). |
| voter_restart | `CrfgVoterRestart.cfg` | violation | `SetStateOfCurrentSet` fails after a change is enacted and the node crashes. The new set's voter restarts on the old set's round state. |
| gossip | `CrfgGossip.cfg` | pass | `LiveWindowKept` (an action property): no step ever removes from the engine a message of the running voter's set whose round is within `Tolerance` of the voter's round. That covers peers' messages accepted early for the next set and the node's own messages, whatever the order of the queued garbage passes, round changes, drops and hand-offs. It needs both the new-set reset of `note_round` and the tolerance in `message_expired`. `GossipExpiryIsFinal`: under the voter's `note_round` / `drop_round` calls in any order, an expired (round, set) of the current or an older set never becomes acceptable again. Without `drop_round`'s guard a late drop revives it. |
| difficulty_overflow | `PowDifficultyOverflow.cfg` | violation | The U256 product overflows and panics (spec 4.1 says saturate). |
| difficulty_rounding | `PowDifficultyRounding.cfg` | violation | The result is not `c·t/e` within division error (spec 8.2). |
| difficulty_adj_one | `PowDifficultyAdjOne.cfg` | violation | With `difficulty_adj = 1`, block #1 panics on genesis' missing seal (spec 4.1 says a missing seal is a boundary). |
| difficulty_clock_skew | `PowDifficultyClockSkew.cfg` | violation | The node's clock steps back by 3 between its own blocks (peers' blocks must still be later than their parent, as the verifier demands). The next retarget's `timestamp - last_time` underflows (a debug panic; in a release build the gap wraps and the product overflows). |
| relay | `RelayDecode.cfg` | pass | `RoundTrip`: every intact relay of both types (immortal and mortal era, one- and two-byte compacts) decodes to what was encoded, origin fields included (spec 8.6). `MalformedRejected`: a signed or version-2 wrapper, and a relay or an origin cut at any byte, are refused. |
| relay_framing | `RelayDecodeFraming.cfg` | violation | `FramingViolationRejected` fails: a relay with a trailing byte, or a length prefix one larger than its bytes, decodes. The length prefix is read as `Vec<()>` and never checked, and nothing checks the end of input. |
| worker | `PowWorker.cfg` | pass | The worker and `calc_difficulty` on one chain. `ChainFollowsRule`: every block of the best chain, the worker's own and the network's, has its parent's difficulty off a boundary, and at a boundary `c·t/e` rounded down by less than `t` (the divide-first error). The window is the one that starts after the previous boundary. `BestChainNeverRewritten`: no step rewrites a block of the best chain or shortens it, even when a job's head has gone stale behind network imports. `NoOwnImportAfterStop`: nothing is imported after the stop sign is up, so a proposal in flight when `on_exit` wins the select is never imported. |

Each property of a passing run has a mutant in `PROJECT.json`: a
plausible bug in the modelled code, written as an operator next to the
definition it replaces, which TLC shows breaks the property. The mutants are:

- `drop_round` without its guard;
- `note_round` that keeps the old window on a new set;
- a ChangeAuthorities arm that keeps the old set id, takes the set after the
  one in the shared authority set, takes the latest set from it (skipping
  queued handoffs, which breaks the refinement), or only runs while the
  voter is live;
- a `message_expired` that forgets the tolerance, and a hand-off whose voter
  starts at round 0;
- a stream `poll` that stores the receiver taken from the oneshot but returns `NotReady` without polling it (a lost wake-up);
- a walk that checks the header itself rather than its parent (worker run);
- an own import that forces its block to be best, cutting the chain back to
  the job's stale head;
- an exit that only raises the sign and lets the loop run on;
- a relay decoder that accepts signed wrappers;
- an origin decoder that always reads the asset id.

## Bounds and why they are enough

**CrfgVoter** runs with `MaxRound = 5`, `MaxSetId = 3`, `MaxCmds = 3` and
`MaxRestarts = 2` (83,063 states, about 10 s).

- Three handoffs and a three-slot channel give a Pause queued before,
  between or behind changes, and changes queued back to back.
- Five rounds take `min_live_round` past the tolerance of 2, so expiry by
  round happens within a set.
- Two crashes can fall between any two steps, so a restart can itself be
  followed by a handoff and a second crash.
- One unread message per stream is enough: the property is about a message
  nobody is woken for, and a second one would be pushed the same way.
  Every ordering of closure, push and poll within a round is explored, and
  a round change or a command can replace the stream at any point.

**CrfgGossip** runs with 4 rounds, 2 sets and 1 queued garbage pass
(135,920 states, under 10 s).

- Peers send:
  - a vote for round 1 of the next set (accepted early);
  - a vote for round 3 of the next set (beyond the tolerance);
  - a valid vote and a badly signed vote for round 2 of set 0;
  - a commit with empty lists;
  - undecodable bytes.
- Four rounds let the window pass the tolerance of 2 before a hand-off.
- One queued pass can run after any later step of the voter.
- The local key is a voter of set 0 only, so commits are sent in one set
  and suppressed in the other.

**PowDifficulty** (the four violation runs) runs with `Adj = 3`, a target gap of 2, genesis difficulty
41, block intervals 1..3 and 7 blocks.

- That is two full retargets and part of a third.
- `curr / expected` is small enough for the rounding to show.
- The overflow run uses slow blocks, 200 difficulty and 8 bits.
- The clock-skew run adds a step of -3 to the intervals. That is enough for
  an own block to be sealed before the block that opens the window.

**RelayDecode** uses 2-byte hashes and account ids and 4-byte signatures.
The guards compare with the same sums of these lengths as the code. Indexes
0 and 70 and amounts 5 and 300 take the compact integers through their one-
and two-byte modes, and block number 100 does the same for the number field.
Both eras are included, and both relay types. Every cut length is tried.

**PowWorker** runs the same rule (`Adj = 3`, gap 2, genesis 41) with
block intervals 1 and 3, 6 blocks and 3 jobs (107,468 states).

- Six blocks are two retargets, so `ChainFollowsRule` is checked on
  windows built from own and network blocks mixed.
- Intervals 1 and 3 give a retarget both up and down.
- Three jobs let a job start on a head that the network then overtakes,
  before and after an own block. Intervals 1..3 at the same height take
  over a million states and add no new ordering.

## Fairness

- **CrfgVoter:** weak fairness of the command arms. `run_crfg` selects on
  the command receiver in every iteration, and the executor polls it
  whenever a command is queued. Weak fairness of the voter's poll of a
  woken stream: a woken task is polled by the executor. Weak fairness of
  the network thread running or dropping a queued `messages_for` closure:
  the thread works through its queue. The hook, the voter's progress,
  the engine's pushes, failures, exits and crashes are not assumed to
  happen.
- **PowWorker:** weak fairness of the loop, the delay, the proposal (its
  10 s deadline bounds it) and the exit select. The network, the sync oracle
  and the exit signal get none.

Deadlock is not checked in any cfg:

- The voter may stop for good (`Err(e)` at lib.rs:951).
- PowDifficulty and PowWorker end only at their model bounds.

## Not modelled, and why

- **Signature verification.** `check_message_sig` is abstracted to a flag
  per message.
- **A gossip store that grows without bound.** The gossip engine itself is
  not in this tree. `is_expired` accepts any future
  round of the current set (spec 4.7 agrees); this is listed as a hazard.
- **Committer communication's inbound side.** The until-imported barrier
  lives in `until_imported.rs` and `communication.rs`, which are not in this
  tree. The outbound filter (`is_voter`) is modelled as `IsVoter`.
- **The finality-tracker and CRFG inherent providers.** Each is registered
  once per process behind a `has_provider` check. Its only error, a
  duplicate, cannot happen, so it changes no modelled state.
- **The import queue and verifier.** These are library code, and
  `verifier.rs` is absent. Network blocks only extend the best chain:
  reorganisations to a longer fork are not modelled.
- **The switch PoW RPC.** `submit_work` and `decode_submit_work` drive a
  `WorkManager`, and their meaning depends on how `ExtraData` is built and
  on the trait behind `u64::from_bytes`. None of these is in this tree, so
  neither a round trip nor the lookup/submit race can be stated from the
  source.
- **The relay size boundary at real sizes.** `len <= MIN_RELAY_SIZE` refuses
  a 130-byte frame where spec 4.8 accepts one. A well-formed relay is always
  longer than 130 bytes, because two hashes, a signed origin and the header
  fields already exceed it. So the boundary cannot refuse a valid relay. The
  scaled relays of `RelayDecode` are far longer than its scaled limit, so no
  run reaches the guard either way.
- **The remaining parts.** The switch mining gateway, the misc RPC queries,
  the foreign-network message types, the service wiring and the chain spec
  are construction and I/O, with no state machine of their own.

## Plan for later work

1. **Gossip delivery in CrfgGossip.** Subscriptions queued on the network
   thread in FIFO order with the garbage passes (the stream itself is in
   `NetworkStream`, composed into `CrfgVoter`).
