------------------------- MODULE MCReversibleWrites -------------------------
EXTENDS ReversibleWrites, TLC

Symmetry == Permutations(Calls)
=============================================================================
