---------------------------- MODULE PowDifficulty ----------------------------
(***************************************************************************)
(* PoW difficulty retargeting, calc_difficulty (core/consensus/pow/src/    *)
(* worker.rs:198-261), applied block after block to a growing chain.       *)
(*                                                                         *)
(* A header is abstracted to its PoW seal's timestamp and difficulty;      *)
(* genesis (#0) carries no seal.  Every block above genesis is sealed with *)
(* the difficulty calc_difficulty gives for it: the worker seals its own   *)
(* blocks with it and the verifier recomputes it for everyone else's      *)
(* (spec 4.2).  The difficulty is a U256 scaled down to DiffWidth bits,    *)
(* timestamps are u64 milliseconds scaled down to TimeWidth bits.          *)
(***************************************************************************)
EXTENDS Integers

CONSTANTS
  Adj,                 \* difficulty_adj (runtime API), in blocks
  TargetGap,           \* target_block_time * 1000, per block
  GenesisDifficulty,   \* genesis_difficulty (runtime API)
  DiffWidth,           \* bits of DifficultyType (256 in the code)
  TimeWidth,           \* bits of the u64 timestamp
  Steps,               \* possible distances (ms, may be negative under clock skew) between a block's timestamp and its parent's
  MaxHeight            \* blocks mined

ASSUME Adj >= 1 /\ TargetGap >= 1 /\ MaxHeight >= 1
ASSUME GenesisDifficulty \in 1..(2^DiffWidth - 1)

DiffLimit == 2^DiffWidth
TimeLimit == 2^TimeWidth

\* Outcomes of calc_difficulty: a difficulty, or a panic of the mining or
\* importing task (expect(), U256 overflow, or u64 underflow in a debug build).
Ok(d) == [ok |-> TRUE, diff |-> d]
Panic(why) == [ok |-> FALSE, why |-> why]

\* A walk that tests the header itself instead of its parent and so runs
\* back onto the boundary block.
RECURSIVE WalkPastBoundary(_, _)
WalkPastBoundary(hdr, cur) ==
  IF cur % Adj = 0 \/ ~hdr[cur].sealed
    THEN cur
    ELSE WalkPastBoundary(hdr, cur - 1)

\* The walk back from the parent (worker.rs:228-249): hdr is the chain,
\* cur the header reached so far.  It stops when cur's parent is at an
\* adjustment boundary, or has no seal, and yields cur's (number, timestamp).
RECURSIVE Walk(_, _)
Walk(hdr, cur) ==
  IF (cur - 1) % Adj = 0 \/ ~hdr[cur - 1].sealed
    THEN cur
    ELSE Walk(hdr, cur - 1)

\* calc_difficulty(client, header #n, timestamp) on the chain hdr[0..n-1].
\* The set holds every outcome a build can produce: time_gap = timestamp -
\* last_time is a u64 subtraction that panics in a debug build and wraps in
\* a release build.
CalcDifficulty(hdr, n, timestamp) ==
  LET parent == hdr[n - 1] IN
  IF n % Adj # 0
    THEN {Ok(IF parent.sealed THEN parent.diff ELSE GenesisDifficulty)}
  ELSE IF ~parent.sealed
    THEN {Panic("ParentSealMissing")}
  ELSE
    LET last == Walk(hdr, n - 1)
        curr == parent.diff
        expected == TargetGap * (n - last)
        gaps == IF timestamp >= hdr[last].ts
                  THEN {timestamp - hdr[last].ts}
                  ELSE {(timestamp - hdr[last].ts) + TimeLimit, -1}
    IN { IF g = -1 THEN Panic("TimeUnderflow")
         ELSE IF (curr \div expected) * g >= DiffLimit THEN Panic("MulOverflow")
         ELSE Ok((curr \div expected) * g) : g \in gaps }

----------------------------------------------------------------------------
VARIABLES
  hdr,       \* the best chain: block number -> [sealed, ts, diff]
  height,    \* its best number
  panicked   \* the panic that ended mining and import, or "none"

vars == <<hdr, height, panicked>>

Genesis == [sealed |-> FALSE, ts |-> 0, diff |-> 0]

Init ==
  /\ height = 0
  /\ hdr = [n \in {0} |-> Genesis]
  /\ panicked = "none"

\* The chain h with block #n sealed at (ts, d) on top of it.
Extend(h, n, ts, d) ==
  [m \in 0..n |-> IF m = n THEN [sealed |-> TRUE, ts |-> ts, diff |-> d] ELSE h[m]]

\* Block #height+1 is sealed at a timestamp step after its parent's (the
\* clock of whoever mined it), with the difficulty calc_difficulty yields.
\* The node's own block takes timestamp_now() (worker.rs:144) and goes
\* straight to block_import; a peer's block is imported only if the
\* verifier finds its timestamp later than its parent's (spec 4.2).
SealBlock(own, step) ==
  LET n == height + 1
      ts == hdr[height].ts + step
  IN /\ own \/ step > 0
     /\ ts \in 0..(TimeLimit - 1)
     /\ \E out \in CalcDifficulty(hdr, n, ts) :
          IF out.ok
            THEN /\ hdr' = Extend(hdr, n, ts, out.diff)
                 /\ height' = n
                 /\ UNCHANGED panicked
            ELSE /\ panicked' = out.why
                 /\ UNCHANGED <<hdr, height>>

\* The next block is mined, by the node or by a peer.
MineBlock ==
  /\ panicked = "none"
  /\ height < MaxHeight
  /\ \E own \in BOOLEAN, step \in Steps : SealBlock(own, step)

Next == MineBlock

Spec == Init /\ [][Next]_vars

----------------------------------------------------------------------------
(* Properties                                                               *)

\* The reference window of a retarget at #n (n a multiple of Adj): it starts
\* at the block after the previous boundary, or at the parent when Adj = 1,
\* and spans n - start target gaps.
WindowStart(n) == IF Adj = 1 THEN n - 1 ELSE n - Adj + 1

\* Every block on the chain carries the difficulty the retarget rule gives:
\* off a boundary its parent's (genesis_difficulty above genesis); at a
\* boundary the parent's difficulty scaled by measured over expected time
\* over the reference window, rounded down by less than one measured-time
\* unit per target gap (the code divides before it multiplies).
DifficultyFollowsRule ==
  \A n \in 1..height :
    LET c == IF hdr[n - 1].sealed THEN hdr[n - 1].diff ELSE GenesisDifficulty
        w == WindowStart(n)
        e == TargetGap * (n - w)
        t == hdr[n].ts - hdr[w].ts
    IN IF n % Adj # 0 THEN hdr[n].diff = c
       ELSE /\ hdr[n].diff * e <= c * t
            /\ c * t < hdr[n].diff * e + e * t

\* Spec 4.1: retargeting is integer arithmetic that saturates on overflow and
\* never needs a negative clamp; spec 4.1 step 3: a header without a seal is
\* a window boundary.  Mining and import never panic computing a difficulty.
RetargetNeverPanics == panicked = "none"

\* Spec 8.2: new / old = actual / expected within integer-division error.
RetargetExact ==
  \A n \in 1..height :
    n % Adj = 0 /\ hdr[n - 1].sealed =>
      LET e == TargetGap * (n - WindowStart(n))
          t == hdr[n].ts - hdr[WindowStart(n)].ts
      IN hdr[n].diff = (hdr[n - 1].diff * t) \div e
=============================================================================
