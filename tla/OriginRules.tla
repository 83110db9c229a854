----------------------------- MODULE OriginRules -----------------------------
(***************************************************************************)
(* Which origins may call what: the identity service's caches of its       *)
(* clients' origins (OAuthOrigins), the backend's caches of a project's    *)
(* origins (ProjectOrigins), and the CORS rules of the project's bucket,   *)
(* which follow its storage configuration (StorageSetup).                  *)
(*                                                                         *)
(* The identity service keeps its own origins.  StorageSetup changes the   *)
(* project's in its own way, and ProjectOrigins in all ways it can.        *)
(***************************************************************************)
EXTENDS OAuthOrigins, Sequences

CONSTANTS Handler, Bucket, NoBucket, Origins, All, MaxRequests,   \* of the storage
          Replica, ProjectRequest, PROJECT_TTL, MaxWait           \* of the project's caches

VARIABLES storage, config, cors, probed, call, before, ended, failed,
          stored, projectCache, projectRequest

Setup == INSTANCE StorageSetup

Project == INSTANCE ProjectOrigins WITH
  Request <- ProjectRequest, TTL <- PROJECT_TTL, cache <- projectCache,
  request <- projectRequest

ASSUME RulesAssumption == Setup!StorageAssumption /\ Project!OriginsAssumption

\* An active storage configuration was probed with the credentials it has.
ActiveWasProbed == Setup!ActiveWasProbed

\* The bucket has the project's origins, but for what failed or overlapped.
CorsFollowsConfig == Setup!CorsFollowsConfig

\* No decision is older than the time to live allows.
ChangesPropagate == Project!ChangesPropagate

==============================================================================
