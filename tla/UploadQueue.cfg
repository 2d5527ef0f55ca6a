CONSTANTS
  Jobs = {j1}
  Assets = {a1, a2}
  NoAsset = NoAsset
  NoManifest = NoManifest
  OtherErrors <- MCOtherErrors
  MaxRevision = 7
  MaxWrites = 1

SPECIFICATION Spec

INVARIANTS
  TypeOK
  SealMatchesPayload
  BytesKept
  SentIsRecorded
  RevisionNamesRecord
  NothingForgotten

PROPERTIES
  FollowsLifecycle

