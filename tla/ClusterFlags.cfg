CONSTANTS
  Flags = {noout, noscrub}
  Calls = {c1, c2, c3}
  MaxOthers = 1
SPECIFICATION Spec
SYMMETRY Symmetry
CHECK_DEADLOCK FALSE
INVARIANTS TypeOK RealChangeIsUndone
PROPERTIES LossNeedsAnOverlap
