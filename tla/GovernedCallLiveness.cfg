\* Writes of two processes and their threads: they meet at the rotation lock.
\* No symmetry: it is not sound for the leads-to properties.
CONSTANTS
  Procs = {mcp, cli}
  CliProcs = {}
  Calls = {c1, c2}
  Kinds = {"write"}
  RotateAt = 1
  MaxArchives = 1
  HostLock = TRUE
  Nobody = Nobody
SPECIFICATION FairSpec
CHECK_DEADLOCK FALSE
PROPERTIES EveryCallEnds IntentIsResolved
