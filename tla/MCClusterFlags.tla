--------------------------- MODULE MCClusterFlags ---------------------------
EXTENDS ClusterFlags, TLC

Symmetry == Permutations(Calls) \cup Permutations(Flags)
=============================================================================
