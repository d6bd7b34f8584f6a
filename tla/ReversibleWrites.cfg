\* The tools that share settings are called together: the ones for a single
\* setting, the quotas of a pool, the recovery limits.
CONSTANTS
  First = First
  Second = Second
  Values = {0, 1}
  None = None
  Out = 0
  Calls = {c1, c2}
  Families = {{"single", "mark_in"}, {"quota"}, {"throttle"}}
  MaxOthers = 1
SPECIFICATION Spec
SYMMETRY Symmetry
CHECK_DEADLOCK FALSE
INVARIANTS TypeOK InverseRestores FailureLeavesAPrefix UndisturbedTokenIsPreState
