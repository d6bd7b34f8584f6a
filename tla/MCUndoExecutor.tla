--------------------------- MODULE MCUndoExecutor ---------------------------
EXTENDS UndoExecutor, TLC

Symmetry == Permutations(Tokens) \cup Permutations(Requests)
=============================================================================
