CONSTANTS
  Tokens = {t1, t2, t3}
  Requests = {r1, r2, r3}
  NoToken = NoToken
SPECIFICATION Spec
SYMMETRY Symmetry
CHECK_DEADLOCK FALSE
INVARIANTS Inductive MarkedMeansLanded AppliedReplyIsTrue LateRequestsAreRefused
