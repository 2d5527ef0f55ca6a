CONSTANTS
  Jobs = {j1, j2}
  Assets <- OneAsset
  NoAsset = NoAsset
  NoManifest = NoManifest
  NoJob = NoJob
  OtherErrors <- MCOtherErrors
  MaxTrouble = 1

SPECIFICATION LiveSpec

INVARIANTS
  CommittedIsServed

PROPERTIES
  WokenIsTaken
  FinishedNameGoes
