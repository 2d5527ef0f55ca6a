------------------------- MODULE MCAssetReplacement -------------------------
(***************************************************************************)
(* The instance of AssetReplacement that TLC checks.                       *)
(***************************************************************************)
EXTENDS AssetReplacement

MCAssets == {0, 1}

MCOtherErrors ==
  {"upload-unavailable", "ambiguous-response", "candidate-mismatch",
   "local-state-failed"}
=============================================================================
