-------------------------- MODULE MCUploadService --------------------------
(***************************************************************************)
(* The instances of UploadService that TLC checks.                         *)
(***************************************************************************)
EXTENDS UploadService

MCAssets == {0, 1}
OneAsset == {0}

MCOtherErrors ==
  {"upload-unavailable", "ambiguous-response", "candidate-mismatch",
   "local-state-failed", "local-write-failed"}
=============================================================================
