---------------------------- MODULE MCCycleLock ----------------------------
(* Constants of CycleLock for TLC.                                         *)
EXTENDS CycleLock, TLC

ProcessSymmetry == Permutations(Process)
=============================================================================
