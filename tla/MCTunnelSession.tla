-------------------------- MODULE MCTunnelSession --------------------------
\* Two attempts in each race; the code treats them alike.
EXTENDS TunnelSession, TLC

AttemptSymmetry == Permutations(Attempt)
=============================================================================
