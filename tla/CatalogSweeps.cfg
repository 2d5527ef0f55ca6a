CONSTANTS
  N = 3
  Motion <- LivePhotos
  Listed0 <- Three
  Ours <- NoAssets
  PageSize = 1
  Overlap = 1
  MaxSweeps = 3
  MaxTime = 0
  MaxChanges = 3
  MaxFaults = 2

SPECIFICATION Spec

INVARIANTS
  LinksMatchRows

PROPERTIES
  AbsenceIsReal

CHECK_DEADLOCK FALSE
