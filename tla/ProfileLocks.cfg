CONSTANTS
  a = a
  ab = ab
  c = c
  m1 = m1
  m2 = m2
  Processes = {p1, p2}
  Profiles = {default, other}
  Default = default
  Mounts = {m1, m2}
  Paths <- MCPaths
  Above <- MCAbove
  Target0 <- MCTarget
  LegacyMount = m1
  Entries = 2
  None = None
  MaxRuns = 4
  MaxTrouble = 2

SPECIFICATION Spec

INVARIANTS
  TypeOK
  RunningApart
  MigratedWhole

PROPERTIES
  ConfigIsExclusive

CHECK_DEADLOCK FALSE
