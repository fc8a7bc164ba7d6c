----------------------- MODULE MCOptimizerCoordinator -----------------------
(* Constants of OptimizerCoordinator for TLC.                              *)
EXTENDS OptimizerCoordinator, TLC

CONSTANTS r1, r2, p1, p2

MCRevision == {r1, r2}
MCPool == {p1, p2}
MCPoolOf == (r1 :> p1) @@ (r2 :> p2)
MCFormatAddTxt(p) == [lines |-> p]

CallSymmetry == Permutations(Call)
=============================================================================
