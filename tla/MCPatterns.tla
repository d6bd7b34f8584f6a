----------------------------- MODULE MCPatterns -----------------------------
EXTENDS Patterns, TLC

Pattern(i, granted, expires, perHour, perDay) ==
  [id |-> i, valid |-> TRUE, granted |-> granted, expires |-> expires, perHour |-> perHour, perDay |-> perDay]

Written == {Pattern("p", TRUE, 1, 0, 0), Pattern("p", FALSE, 9, 0, 0), Pattern("p", TRUE, 9, 1, 2)}
AtFirst == <<Pattern("p", TRUE, 1, 0, 0)>>
TheFiles == {1}

Symmetry == Permutations(Calls)
=============================================================================
