---------------------------- MODULE MCUploadFlow -----------------------------
(* Model-checking instance of UploadFlow. *)
EXTENDS UploadFlow
=============================================================================
