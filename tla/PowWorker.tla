----------------------------- MODULE PowWorker -----------------------------
(***************************************************************************)
(* The PoW mining task (start_worker and DefaultWorker::on_job,            *)
(* core/consensus/pow/src/worker.rs:110-196 and 272-336) on one executor,  *)
(* racing the network's block imports, the sync oracle and on_exit.        *)
(*                                                                         *)
(* The worker is composed with the difficulty engine (PowDifficulty): the  *)
(* best chain is PowDifficulty's chain of seals, its best number is       *)
(* `best`.  The network extends it with peers' blocks that pass the        *)
(* verifier; the worker seals its own block with calc_difficulty on the   *)
(* chain_head it read before awaiting the proposal, and LongestChain makes *)
(* that block best only if it is longer than the best chain by then.  A   *)
(* block the network overtook is imported on a fork and is not kept; the  *)
(* network's chain is not reorganised.  One iteration of the loop_fn closure is one  *)
(* action (its early returns are the branches), the proposal is awaited,   *)
(* and on_proposal_block (difficulty, nonce search, import) runs to        *)
(* completion in the poll that sees the proposal.  The whole worker future *)
(* is select()ed against on_exit; when on_exit wins the loop future is     *)
(* dropped and then the stop sign is written.                              *)
(***************************************************************************)
EXTENDS Integers

CONSTANTS
  Adj, TargetGap, GenesisDifficulty, DiffWidth, TimeWidth, \* see PowDifficulty
  Steps,      \* distances (ms) between a block's timestamp and its parent's
  MaxHeight,  \* height the best chain may reach
  MaxJobs     \* mining jobs the worker may start

ASSUME MaxHeight \in Nat /\ MaxJobs \in Nat

VARIABLES
  phase,     \* "Top" (loop_fn body), "Waiting" (5 s Delay), "Proposing",
             \* "Stopped" (Loop::Break) or "Dropped" (select resolved)
  head,      \* chain_head the current job builds on
  best,      \* the client's best number
  hdr,       \* the best chain's seals, block number -> [sealed, ts, diff]
  panicked,  \* a calc_difficulty panic that ended mining and import, or "none"
  syncing,   \* sync_oracle.is_major_syncing()
  exited,    \* on_exit has resolved
  stopSign,  \* *worker.stop_sign
  jobs,      \* jobs started
  mined      \* blocks the worker imported

vars == <<phase, head, best, hdr, panicked, syncing, exited, stopSign, jobs, mined>>

chain == <<best, hdr, panicked>>

D == INSTANCE PowDifficulty WITH height <- best

Working == phase \in {"Top", "Waiting", "Proposing"}

\* start_pow (pow/src/lib.rs:84-100) builds the DefaultWorker with a fresh
\* stop sign, Arc<RwLock<bool>>::default(), that is false, and hands it to
\* start_worker.
StartPow == stopSign = FALSE

\* DefaultWorker::on_job up to the proposal (worker.rs:110-131): when
\* env.init cannot make a proposer for chain_head, or the inherent data
\* providers fail, it returns an already-resolved future and the loop goes
\* on; otherwise the proposal is under way.
OnJob(initOk, inherentOk) ==
  IF initOk /\ inherentOk THEN "Proposing" ELSE "Top"

\* start_worker (worker.rs:272-289) up to the loop.  on_start() registers
\* the timestamp provider (pow/src/lib.rs:130-139) only when none is there,
\* and registering fails only on a duplicate, so its `?` never returns.
Init ==
  /\ StartPow
  /\ phase = "Top"
  /\ head = 0
  /\ best = 0
  /\ hdr = [n \in {0} |-> D!Genesis]
  /\ panicked = "none"
  /\ syncing \in BOOLEAN
  /\ exited = FALSE
  /\ jobs = 0
  /\ mined = 0

\* One loop_fn iteration up to its first return (worker.rs:291-327): a set
\* stop sign (or a poisoned lock) breaks the loop; a major sync, or a
\* failing best_block_header, waits 5 s; otherwise on_job starts on the
\* best header.
LoopIteration ==
  /\ phase = "Top"
  /\ IF stopSign
       THEN /\ phase' = "Stopped"
            /\ UNCHANGED <<head, jobs>>
     ELSE IF syncing
       THEN /\ phase' = "Waiting"
            /\ UNCHANGED <<head, jobs>>
     ELSE \E headOk, initOk, inherentOk \in BOOLEAN :
            IF ~headOk
              THEN /\ phase' = "Waiting"
                   /\ UNCHANGED <<head, jobs>>
              ELSE /\ jobs < MaxJobs
                   /\ jobs' = jobs + 1
                   /\ head' = best
                   /\ phase' = OnJob(initOk, inherentOk)
  /\ UNCHANGED <<chain, syncing, exited, stopSign, mined>>

\* The 5 s Delay fires and the loop continues.
DelayElapses ==
  /\ phase = "Waiting"
  /\ phase' = "Top"
  /\ UNCHANGED <<head, chain, syncing, exited, stopSign, jobs, mined>>

\* An import that makes the sealed block best whatever its height (fork
\* choice Custom(true) instead of LongestChain): the best chain is cut back
\* to chain_head and the own block put on top.
OnProposalBlockForceBest(step, sealed) ==
  LET n == head + 1
      ts == hdr[head].ts + step
  IN /\ ts \in 0..(D!TimeLimit - 1)
     /\ \E out \in D!CalcDifficulty(hdr, n, ts) :
          IF ~out.ok
            THEN /\ panicked' = out.why
                 /\ UNCHANGED <<best, hdr, mined>>
          ELSE IF ~sealed
            THEN UNCHANGED <<best, hdr, panicked, mined>>
          ELSE /\ mined' = mined + 1
               /\ UNCHANGED panicked
               /\ hdr' = D!Extend(hdr, n, ts, out.diff)
               /\ best' = n

\* on_proposal_block (worker.rs:140-182) for the proposed block #head+1:
\* timestamp_now() at step after chain_head's seal, calc_difficulty on the
\* chain below it (a panic ends mining and import), then the nonce search;
\* a found seal imports the block with origin Own, and fork choice
\* LongestChain makes it best only when head + 1 > best.
OnProposalBlock(step, sealed) ==
  LET n == head + 1
      ts == hdr[head].ts + step
  IN /\ ts \in 0..(D!TimeLimit - 1)
     /\ \E out \in D!CalcDifficulty(hdr, n, ts) :
          IF ~out.ok
            THEN /\ panicked' = out.why
                 /\ UNCHANGED <<best, hdr, mined>>
          ELSE IF ~sealed
            THEN UNCHANGED <<best, hdr, panicked, mined>>
          ELSE /\ mined' = mined + 1
               /\ UNCHANGED panicked
               /\ IF n > best
                    THEN /\ hdr' = D!Extend(hdr, n, ts, out.diff)
                         /\ best' = n
                    ELSE UNCHANGED <<best, hdr>>

\* The proposal resolves (or fails, or misses its 10 s deadline) and
\* on_proposal_block runs to the end in the same poll (worker.rs:133-195);
\* its errors are logged.  Then Delay(now) and the loop continues.
ProposalDone ==
  /\ phase = "Proposing"
  /\ panicked = "none"
  /\ \/ UNCHANGED <<chain, mined>>
     \/ \E step \in Steps, sealed \in BOOLEAN : OnProposalBlock(step, sealed)
  /\ phase' = "Top"
  /\ UNCHANGED <<head, syncing, exited, stopSign, jobs>>

\* A peer's block reaches the import queue, whose verifier recomputes its
\* difficulty and demands a timestamp later than its parent's (spec 4.2).
NetworkImport ==
  /\ panicked = "none"
  /\ best < MaxHeight
  /\ \E step \in Steps : D!SealBlock(FALSE, step)
  /\ UNCHANGED <<phase, head, syncing, exited, stopSign, jobs, mined>>

\* The sync oracle starts or stops a major sync.
SyncChange ==
  /\ syncing' = ~syncing
  /\ UNCHANGED <<phase, head, chain, exited, stopSign, jobs, mined>>

\* The node's exit signal resolves.
OnExit ==
  /\ ~exited
  /\ exited' = TRUE
  /\ UNCHANGED <<phase, head, chain, syncing, stopSign, jobs, mined>>

\* A select that, on exit, only raises the stop sign and lets the loop run
\* on until it sees it.
SelectExitSignOnly ==
  /\ exited
  /\ Working
  /\ ~stopSign
  /\ stopSign' = TRUE
  /\ UNCHANGED <<phase, head, chain, syncing, exited, jobs, mined>>

\* work.select(on_exit).then(..) (worker.rs:329-335): on_exit wins, the
\* loop future is dropped wherever it is, and the stop sign is written.
SelectExit ==
  /\ exited
  /\ Working
  /\ phase' = "Dropped"
  /\ stopSign' = TRUE
  /\ UNCHANGED <<head, chain, syncing, exited, jobs, mined>>

Next ==
  \/ LoopIteration
  \/ DelayElapses
  \/ ProposalDone
  \/ NetworkImport
  \/ SyncChange
  \/ OnExit
  \/ SelectExit

\* The executor polls the task whenever one of its futures is ready: the
\* loop, the delay, the proposal (bounded by its 10 s deadline) and the
\* exit select each progress when enabled.  The network, the sync oracle
\* and the exit signal are the environment and are not assumed to act.
Fairness ==
  /\ WF_vars(LoopIteration)
  /\ WF_vars(DelayElapses)
  /\ WF_vars(ProposalDone)
  /\ WF_vars(SelectExit)

Spec == Init /\ [][Next]_vars /\ Fairness

----------------------------------------------------------------------------
(* Properties                                                               *)

\* A block the worker seals on a chain_head read before the proposal await,
\* which the network's imports may have overtaken by the time the seal is
\* found, never rewrites the best chain: every step keeps every block of
\* the best chain in place, so the worker's own import (LongestChain,
\* worker.rs:172) only ever appends to it.
BestChainNeverRewritten ==
  [][/\ best' >= best
     /\ \A m \in 0..best : hdr'[m] = hdr[m]]_vars

\* Every block of the best chain, the worker's own (sealed with the
\* difficulty computed on its possibly stale chain_head, worker.rs:145) and
\* the peers' (recomputed by the verifier), carries the difficulty the
\* retarget rule gives for its place on the chain.
ChainFollowsRule == D!DifficultyFollowsRule

\* Once the stop sign is up, the worker imports nothing more: the loop
\* future is gone before the sign is written, so a proposal in flight at
\* exit is never sealed and imported.
NoOwnImportAfterStop == [][stopSign => mined' = mined]_vars
=============================================================================
