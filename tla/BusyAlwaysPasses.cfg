CONSTANTS
  a = a
  b = b
  c = c
  Files = {a, b, c}
  ProfileOf <- TwoProfiles
  Oversized <- LargeC
  MaxBatch = 2
  MaxCache = 1
  Used = {a}
  MaxLooks = 2
  MaxFailures = 1
  None = None

SPECIFICATION LiveSpec

PROPERTIES
  BusyAlwaysPasses

CHECK_DEADLOCK FALSE
