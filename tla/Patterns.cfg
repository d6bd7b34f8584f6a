CONSTANTS
  Calls = {c1, c2, c3, c4}
  Fingerprints = {f}
  MaxCalls = 3
  MaxSeconds = 2
  RunawayMax = 2
  Window = 1
  NoCeiling = NoCeiling
  MaxTime = 2
  Files <- TheFiles
  Contents <- Written
  Absent = Absent
  OnDisk <- AtFirst
  Hour = 1
  Day = 2
  Threshold = 2
  Disable = 1
  DefaultThreshold = 3
  DefaultDisable = 2
  MaxEvents = 4
SPECIFICATION PatternsSpec
SYMMETRY Symmetry
CHECK_DEADLOCK FALSE
INVARIANTS Typed CapsHold BreakerIsExact MemoryIsDisk RunawayIsExact CeilingCountsAdmitted
