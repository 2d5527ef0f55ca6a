CONSTANTS
  managed = managed
  external = external
  Assets <- BothAssets
  Managed <- OneManaged
  Versions <- MCVersions
  FirstVersion = 1
  SizeOf <- MCSizes
  Readers = {r1}
  PinWorker = PinWorker
  UploadWorker = UploadWorker
  MaxBytes = 2
  Floor = 1
  Disk = 3
  None = None
  Damaged = Damaged
  MaxTrouble = 1

SPECIFICATION LiveSpec

INVARIANTS
  WithinBudget

PROPERTIES
  FloorKept
  PinnedStays
  ReadEnds
