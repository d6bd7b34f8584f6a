CONSTANTS
  Tokens = {t1, t2}
  Requests = {r1, r2}
  NoToken = NoToken
SPECIFICATION Spec
CHECK_DEADLOCK FALSE
INVARIANTS AppliedOnce
