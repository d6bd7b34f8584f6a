---------------------------- MODULE MCPoolGuards ----------------------------
EXTENDS PoolGuards, TLC

Symmetry == Permutations(Calls)
=============================================================================
