------------------------------- MODULE Uploads -------------------------------
(***************************************************************************)
(* Uploads of a project: one upload from the client to its commit          *)
(* (UploadFlow), and the calls by which the GCS provider completes or      *)
(* aborts a multipart upload (GcsCompose).  UploadFlow takes what a        *)
(* provider does for one step; GcsCompose opens that step up for GCS.      *)
(***************************************************************************)
EXTENDS UploadFlow

CONSTANTS Handler, MaxParts, Limit, Batch, MaxCalls, MaxPuts   \* of GcsCompose

VARIABLES size, bucket, call, answered, widest, calls, puts

Gcs == INSTANCE GcsCompose WITH store <- bucket

ASSUME ComposeAssumption == Gcs!ComposeAssumption

\* The variables of the provider's calls have their types, and no compose has
\* more sources than GCS takes.
ComposeTypeOK == Gcs!TypeOK

\* The composed object is all parts in order, and there once complete has returned.
ObjectIsWhole == Gcs!ObjectIsWhole

\* No part and no temporary object is left once complete has returned.
NothingIsLeft == Gcs!NothingIsLeft

==============================================================================
