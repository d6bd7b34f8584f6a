CONSTANTS
  Targets = {lab1, lab2}
  Procs = {mcp, cli}
  Calls = {c1, c2}
  None = None
  MaxEdits = 1
SPECIFICATION Spec
SYMMETRY Symmetry
CHECK_DEADLOCK FALSE
INVARIANT ReplayGoesHome
