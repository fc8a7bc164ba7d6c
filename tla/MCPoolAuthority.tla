-------------------------- MODULE MCPoolAuthority --------------------------
(* Constants of PoolAuthority for TLC: three revisions over two pools, so  *)
(* that one pool is published under two revisions.                         *)
EXTENDS PoolAuthority, TLC

CONSTANTS r1, r2, r3, p1, p2

MCRevision == {r1, r2, r3}
MCPool == {p1, p2}
MCPoolOf == (r1 :> p1) @@ (r2 :> p2) @@ (r3 :> p1)
MCFormatAddTxt(p) == [lines |-> p]
=============================================================================
