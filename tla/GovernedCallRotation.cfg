\* Three calls of one process: two rotations and the pruning of the archives.
CONSTANTS
  Procs = {mcp}
  CliProcs = {}
  Calls = {c1, c2, c3}
  Kinds = {"write", "read"}
  RotateAt = 1
  MaxArchives = 1
  HostLock = TRUE
  Nobody = Nobody
SPECIFICATION Spec
SYMMETRY Symmetry
CHECK_DEADLOCK FALSE
INVARIANT IntentIsOwnRow
PROPERTY ResolvedIsFinal
