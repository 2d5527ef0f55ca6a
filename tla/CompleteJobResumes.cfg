CONSTANTS
  Assets <- MCAssets
  NoAsset = NoAsset
  NoManifest = NoManifest
  NoRow = NoRow
  Albums = {a1}
  OtherErrors <- MCOtherErrors
  MaxTrouble = 2

SPECIFICATION Spec
CHECK_DEADLOCK FALSE

INVARIANT CompleteJobResumes
