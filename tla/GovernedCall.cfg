\* Two processes: the lock between them, crashes, restarts, interrupts.
CONSTANTS
  Procs = {mcp, cli}
  CliProcs = {cli}
  Calls = {c1, c2}
  Kinds = {"write", "preview", "read"}
  RotateAt = 1
  MaxArchives = 1
  HostLock = TRUE
  Nobody = Nobody
SPECIFICATION Spec
SYMMETRY Symmetry
CHECK_DEADLOCK FALSE
INVARIANTS Inductive NoEffectWithoutIntent OrphanIsReported TokenImpliesEffect OkRowIsConfirmed
PROPERTIES AnswerIsAudited WriteAheadHolds
