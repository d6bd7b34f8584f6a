--------------------------- MODULE MCGovernedCall ---------------------------
EXTENDS GovernedCall, TLC

Symmetry == Permutations(Calls)
=============================================================================
