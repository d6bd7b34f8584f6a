---------------------------- MODULE MCConnection ----------------------------
EXTENDS Connection, TLC

CONSTANT OldValue  \* the password every name has in the .env

InEnv == [n \in Names |-> OldValue]
Symmetry == Permutations(Commands) \cup Permutations(Names) \cup Permutations(Passwords)
              \cup Permutations(Requests)
=============================================================================
