CONSTANTS
  managed = managed
  external = external
  Assets <- OneManaged
  Managed <- OneManaged
  Versions <- MCVersions
  FirstVersion = 1
  SizeOf <- MCSizes
  Readers = {r1, r2}
  PinWorker = PinWorker
  UploadWorker = UploadWorker
  MaxBytes = 2
  Floor = 1
  Disk = 3
  None = None
  Damaged = Damaged
  MaxTrouble = 2

SPECIFICATION Spec

INVARIANTS
  TypeOK
  BytesAreRight

PROPERTIES
  OpenBytesStay
