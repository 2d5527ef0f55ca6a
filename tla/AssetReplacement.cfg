CONSTANTS
  Assets <- MCAssets
  NoAsset = NoAsset
  NoManifest = NoManifest
  NoRow = NoRow
  Albums = {a1}
  OtherErrors <- MCOtherErrors
  MaxTrouble = 2

SPECIFICATION LiveSpec
CHECK_DEADLOCK FALSE

INVARIANTS
  TypeOK
  NameServed
  PublishedStays

PROPERTIES
  RetiresBehindCopy
  BytesLeaveWhenServed
  
