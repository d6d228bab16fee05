--------------------------- MODULE MCGuardedWrite ---------------------------
EXTENDS GuardedWrite, TLC

Symmetry == Permutations(Writers)
=============================================================================
