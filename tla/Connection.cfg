CONSTANTS
  Commands = {c1, c2}
  Kinds = {"set", "rm", "rotate", "init", "migrate"}
  Names = {a, b}
  Values = {v, w}
  OldValue = w
  Legacy <- InEnv
  Passwords = {p, q}
  None = None
  Empty = Empty
  Torn = Torn
  MaxActors = 2
  Requests = {r1, r2}
  Plain = v
  MaxEvents = 1
SPECIFICATION ConnectionSpec
SYMMETRY Symmetry
CHECK_DEADLOCK FALSE
INVARIANTS Typed DamageNeedsCollision TargetsAreKept RequestLandsOnce UnauthorizedIsEarned RefusalIsStale
PROPERTIES WritesAreOwn MigrationIsOnce
