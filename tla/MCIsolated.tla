----------------------------- MODULE MCIsolated -----------------------------
(* Three runs of one user for TLC, one of them with an isolated test.      *)
EXTENDS Isolated, TLC

CONSTANTS a, b, c

MCSymmetry == Permutations({b, c})
=============================================================================
