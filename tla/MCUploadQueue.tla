--------------------------- MODULE MCUploadQueue ---------------------------
(***************************************************************************)
(* The instance of UploadQueue that TLC checks: the error codes no guard   *)
(* reads are one value.                                                    *)
(***************************************************************************)
EXTENDS UploadQueue

MCOtherErrors == {"upload-unavailable"}
=============================================================================
