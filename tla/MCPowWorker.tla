---------------------------- MODULE MCPowWorker ----------------------------
(* PowWorker composed with the difficulty engine: a retarget every 3       *)
(* blocks, blocks 1..3 target gaps apart, a chain of up to 6 blocks (two   *)
(* retargets) that the network may extend while a job is in flight, and   *)
(* room for three mining jobs.                                             *)
EXTENDS PowWorker

MCAdj == 3
MCTargetGap == 2
MCGenesis == 41
MCSteps == {1,3}
MCMaxHeight == 6
MCMaxJobs == 3
=============================================================================
