CONSTANTS
  Jobs = {j1}
  Assets <- OneAsset
  NoAsset = NoAsset
  NoManifest = NoManifest
  NoJob = NoJob
  OtherErrors <- MCOtherErrors
  MaxTrouble = 6

SPECIFICATION Spec

INVARIANTS
  TypeOK
  BytesNotLost
  AttemptIsExclusive

PROPERTIES
  ClosedNameStays
  CancelStopsUpload
