CONSTANTS
  N = 2
  Motion <- NoMotion
  Listed0 <- Two
  Ours <- One
  PageSize = 1
  Overlap = 1
  MaxSweeps = 3
  MaxTime = 2
  MaxChanges = 2
  MaxFaults = 1

SPECIFICATION Spec

INVARIANTS
  TypeOK
  CursorCovers

PROPERTIES
  Converges

CHECK_DEADLOCK FALSE
