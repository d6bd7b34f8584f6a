CONSTANTS
  Calls = {c1, c2}
  MaxSize = 3
  MaxOthers = 2
SPECIFICATION Spec
SYMMETRY Symmetry
CHECK_DEADLOCK FALSE
INVARIANTS TypeOK PreviewAgrees
PROPERTIES DeletionIsGuarded ReductionNeedsARace
