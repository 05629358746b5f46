----------------------------- MODULE MCClient ------------------------------
EXTENDS Client, TLC

Symmetry == Permutations(Callers)
=============================================================================
