CONSTANTS
  Procs = {cli}
  CliProcs = {cli}
  Calls = {c1}
  Kinds = {"write"}
  RotateAt = 1
  MaxArchives = 1
  HostLock = TRUE
  Nobody = Nobody
SPECIFICATION Spec
CHECK_DEADLOCK FALSE
INVARIANT OkRowIsNoLie
