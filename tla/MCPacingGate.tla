---------------------------- MODULE MCPacingGate ----------------------------
(* Instances of PacingGate: the workers and the penalties of each run, and  *)
(* the symmetry of the workers where only safety is checked.                *)
EXTENDS PacingGate, TLC

CONSTANTS w1, w2, w3

TwoWorkers   == {w1, w2}
ThreeWorkers == {w1, w2, w3}
ShortPenalty == {0, 3}
AnyWorker    == Permutations(ThreeWorkers)
=============================================================================
