-------------------------- MODULE MCPowDifficulty --------------------------
(* Instances of PowDifficulty.  Numbers are scaled down from U256/u64 but   *)
(* keep the relations that matter: difficulty / expected gap is a few      *)
(* units, so the divide-first rounding shows, and three retarget periods   *)
(* fit in the chain.                                                       *)
EXTENDS PowDifficulty

\* Passing instance: adjustment every 3 blocks, blocks 1..3 target gaps apart.
PassAdj == 3
PassTargetGap == 2
PassGenesis == 41
PassSteps == {1, 2, 3}
PassHeight == 7

\* Slow blocks at an easy difficulty: the retarget product leaves 8 bits.
SlowGenesis == 200
SlowSteps == {2, 9}

\* The node's clock may step back by 3 between two of its own blocks.
SkewSteps == {1, 2, 3, -3}

\* Retarget at every block (difficulty_adj = 1).
EveryBlockAdj == 1
=============================================================================
