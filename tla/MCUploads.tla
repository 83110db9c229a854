------------------------------ MODULE MCUploads ------------------------------
(***************************************************************************)
(* Model-checking instance of Uploads for the calls of the GCS provider.   *)
(* UploadFlow, which MCUploadFlow checks, stays in one initial state.      *)
(***************************************************************************)
EXTENDS Uploads, TLC

ComposeInit == Init /\ kind = "multipart" /\ provider = "gcs" /\ Gcs!Init

ComposeNext == Gcs!Next /\ UNCHANGED vars

ComposeSpec == ComposeInit /\ [][ComposeNext]_<<vars, Gcs!vars>>

Symmetry == Permutations(Handler)

==============================================================================
