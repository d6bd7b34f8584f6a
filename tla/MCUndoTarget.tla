----------------------------- MODULE MCUndoTarget -----------------------------
EXTENDS UndoTarget, TLC

Symmetry == Permutations(Calls) \cup Permutations(Targets)
=============================================================================
