---------------------------- MODULE StorageSetup ----------------------------
(***************************************************************************)
(* The storage of one project: update_config and verify of                 *)
(* StorageConfigService, update_security_config of ProjectConfigService    *)
(* with its sync of the bucket's CORS rules, and the pass over the buckets *)
(* that every replica makes when it starts.                                *)
(*                                                                         *)
(* A request reads a row once: the session keeps the object, a second      *)
(* SELECT does not refresh it, and only the columns that differ from what  *)
(* was read are written.  The store is written outside of transactions.    *)
(***************************************************************************)
EXTENDS Naturals, Sequences

CONSTANTS Handler,     \* requests and starts in progress at once
          Bucket, NoBucket,
          Origins,     \* values of allowed_origins, All for null
          All,
          MaxRequests

\* What an instance must be.
StorageAssumption ==
  /\ NoBucket \notin Bucket
  /\ All \in Origins
  /\ MaxRequests \in Nat

VARIABLES storage,   \* the row of storage_configs, and who wrote its columns
          config,    \* allowed_origins of project_configs, and who wrote it
          cors,      \* the rules of each bucket, and who set them
          probed,    \* history: the credentials that a probe has found to work
          call,      \* what each request holds
          before,    \* history: the requests that had ended when each one began
          ended,     \* history: the requests that have ended
          failed     \* history: the requests that failed or were stopped

vars == <<storage, config, cors, probed, call, before, ended, failed>>

Idle == [op |-> "idle", id |-> 0]
NextId == Len(before) + 1

\* The requests are numbered as they begin.
Begin(h, c) ==
  /\ call[h] = Idle
  /\ Len(before) < MaxRequests
  /\ before' = Append(before, ended)
  /\ call' = [call EXCEPT ![h] = c]
  /\ UNCHANGED <<storage, config, cors, probed, ended, failed>>

End(h) ==
  /\ call' = [call EXCEPT ![h] = Idle]
  /\ ended' = ended \cup {call[h].id}
  /\ UNCHANGED before

Fail(h) == End(h) /\ failed' = failed \cup {call[h].id}
Succeed(h) == End(h) /\ UNCHANGED failed

\* A column is written if it differs from what the request has read.
Written(read, old, new) == IF new = read THEN old ELSE new

(***************************************************************************)
(* update_config: new credentials, which are never equal to the old ones   *)
(* (they are encrypted with a fresh nonce; here, the number of the request)*)
(***************************************************************************)

update_config(h) ==
  \E b \in Bucket :
    Begin(h, [op |-> "update", id |-> NextId, bucket |-> b, read |-> storage])

\* Mutant: the status is left as it is.
BugNoReset(h) ==
  LET c == call[h] IN
    /\ c.op = "update"
    /\ storage' = [storage EXCEPT !.bucket = Written(c.read.bucket, @, c.bucket),
                                  !.bucketBy = IF c.bucket = c.read.bucket THEN @ ELSE c.id,
                                  !.creds = c.id]
    /\ Succeed(h)
    /\ UNCHANGED <<config, cors, probed>>

\* The row is written with new credentials, and is pending again.
update_commit(h) ==
  LET c == call[h] IN
    /\ c.op = "update"
    /\ storage' = [storage EXCEPT
                     !.bucket = Written(c.read.bucket, @, c.bucket),
                     !.bucketBy = IF c.bucket = c.read.bucket THEN @ ELSE c.id,
                     !.creds = c.id,
                     !.status = Written(c.read.status, @, "pending_verification")]
    /\ Succeed(h)
    /\ UNCHANGED <<config, cors, probed>>

(***************************************************************************)
(* verify                                                                  *)
(***************************************************************************)

\* build_provider raises for a project that has no credentials yet.
verify(h) ==
  /\ storage.bucket # NoBucket
  /\ Begin(h, [op |-> "probe", id |-> NextId, read |-> storage])

\* A test object is written and deleted.
probe(h) ==
  /\ call[h].op = "probe"
  /\ \E status \in {"active", "verification_failed"} :
       /\ call' = [call EXCEPT ![h] = [op |-> "verdict", id |-> call[h].id,
                                       read |-> call[h].read, status |-> status]]
       /\ probed' = IF status = "active"
                    THEN probed \cup {<<call[h].read.bucket, call[h].read.creds>>}
                    ELSE probed
  /\ UNCHANGED <<storage, config, cors, before, ended, failed>>

\* update_status and the commit.
verdict(h) ==
  LET c == call[h] IN
    /\ c.op = "verdict"
    /\ storage' = [storage EXCEPT
                     !.status = Written(c.read.status, @, c.status),
                     !.statusBy = IF c.status = c.read.status THEN @ ELSE c.id]
    /\ Succeed(h)
    /\ UNCHANGED <<config, cors, probed>>

(***************************************************************************)
(* update_security_config, of a request that sets allowed_origins          *)
(***************************************************************************)

update_security_config(h) ==
  \E o \in Origins :
    Begin(h, [op |-> "security", id |-> NextId, origins |-> o, read |-> config.origins])

\* Mutant: an empty list of origins, which stores null, is not synced.
BugTruthiness(h) ==
  LET c == call[h] IN
    /\ c.op = "security"
    /\ config' = IF c.origins = c.read THEN config ELSE [origins |-> c.origins, by |-> c.id]
    /\ IF c.origins = All THEN Succeed(h)
       ELSE /\ call' = [call EXCEPT ![h] = [op |-> "sync", id |-> c.id, origins |-> c.origins]]
            /\ UNCHANGED <<before, ended, failed>>
    /\ UNCHANGED <<storage, cors, probed>>

security_commit(h) ==
  LET c == call[h] IN
    /\ c.op = "security"
    /\ config' = IF c.origins = c.read THEN config ELSE [origins |-> c.origins, by |-> c.id]
    /\ call' = [call EXCEPT ![h] = [op |-> "sync", id |-> c.id, origins |-> c.origins]]
    /\ UNCHANGED <<storage, cors, probed, before, ended, failed>>

\* _sync_bucket_cors reads the storage row; what fails there is only logged.
sync_read(h) ==
  LET c == call[h] IN
    /\ c.op = "sync"
    /\ IF storage.bucket = NoBucket THEN Fail(h)
       ELSE /\ call' = [call EXCEPT ![h] = [op |-> "cors", id |-> c.id, origins |-> c.origins,
                                            bucket |-> storage.bucket]]
            /\ UNCHANGED <<before, ended, failed>>
    /\ UNCHANGED <<storage, config, cors, probed>>

\* set_bucket_cors; a call that fails may have reached the store.
set_bucket_cors(h) ==
  LET c == call[h]
      rules == [cors EXCEPT ![c.bucket] = [origins |-> c.origins, by |-> c.id]]
  IN /\ c.op = "cors"
     /\ \/ cors' = rules /\ Succeed(h)
        \/ cors' \in {cors, rules} /\ Fail(h)
     /\ UNCHANGED <<storage, config, probed>>

\* A replica that starts reads the rows of the managed, active projects and
\* sets the rules of their buckets.
startup(h) ==
  /\ storage.mode = "managed" /\ storage.status = "active"
  /\ Begin(h, [op |-> "cors", id |-> NextId, origins |-> config.origins,
               bucket |-> storage.bucket])

\* The process stops: what is not committed is rolled back.
stop(h) ==
  /\ call[h] # Idle
  /\ Fail(h)
  /\ UNCHANGED <<storage, config, cors, probed>>

-----------------------------------------------------------------------------

\* create_project: a managed project gets a bucket with open CORS rules, which
\* is probed; any other project waits for credentials.
Init ==
  /\ \E b \in Bucket, ok \in BOOLEAN :
       \/ /\ storage = [mode |-> "managed", bucket |-> b, creds |-> 0,
                        status |-> IF ok THEN "active" ELSE "verification_failed",
                        bucketBy |-> 0, statusBy |-> 0]
          /\ probed = IF ok THEN {<<b, 0>>} ELSE {}
       \/ /\ storage = [mode |-> "byob", bucket |-> NoBucket, creds |-> 0,
                        status |-> "pending_verification", bucketBy |-> 0, statusBy |-> 0]
          /\ probed = {}
  /\ config = [origins |-> All, by |-> 0]
  /\ cors = [b \in Bucket |-> [origins |-> All, by |-> 0]]
  /\ call = [h \in Handler |-> Idle]
  /\ before = <<>>
  /\ ended = {}
  /\ failed = {}

Update(h) == update_config(h) \/ update_commit(h)
Verify(h) == verify(h) \/ probe(h) \/ verdict(h)
Secure(h) == \/ update_security_config(h) \/ security_commit(h)
             \/ sync_read(h) \/ set_bucket_cors(h) \/ startup(h)

Next == \E h \in Handler : Update(h) \/ Verify(h) \/ Secure(h) \/ stop(h)

Spec == Init /\ [][Next]_vars

-----------------------------------------------------------------------------
(***************************************************************************)
(* Properties                                                              *)
(***************************************************************************)

Requests == 1..Len(before)
By == {0} \cup Requests

\* Every variable has its type; a project with credentials has a bucket.
TypeOK ==
  /\ storage \in [mode : {"managed", "byob"}, bucket : Bucket \cup {NoBucket}, creds : By,
                  status : {"pending_verification", "active", "verification_failed"},
                  bucketBy : By, statusBy : By]
  /\ storage.bucket = NoBucket => storage.creds = 0 /\ storage.bucketBy = 0
  /\ config \in [origins : Origins, by : By]
  /\ cors \in [Bucket -> [origins : Origins, by : By]]
  /\ probed \subseteq Bucket \X By
  /\ \A h \in Handler : call[h] = Idle \/ call[h].id \in Requests \ ended
  /\ \A r \in Requests : before[r] \subseteq 1..(r - 1)
  /\ failed \subseteq ended /\ ended \subseteq Requests

\* Request q had ended when r began; a request 0 stands for the creation.
Precedes(q, r) == r # 0 /\ (q = 0 \/ q \in before[r])
Overlap(q, r) == q # r /\ ~ Precedes(q, r) /\ ~ Precedes(r, q)

\* The configuration is active with credentials that no probe has used only if
\* the verify that made it active overlapped the update that wrote the
\* credentials or the bucket.  (verify marks the row active whatever is stored
\* by then, and an update does not write a status that was pending when it
\* read it.)
ActiveWasProbed ==
  storage.status = "active" =>
    \/ <<storage.bucket, storage.creds>> \in probed
    \/ Overlap(storage.statusBy, storage.creds)
    \/ Overlap(storage.statusBy, storage.bucketBy)

\* Unless the sync failed, or the bucket was changed since the update began,
\* the bucket's CORS rules are the origins the last update has stored, also
\* null, or were set by an update or a start that overlapped it: neither
\* updates that do not write the column, nor starting replicas, leave older
\* rules behind.
CorsFollowsConfig ==
  LET u == config.by IN
    (u \in ended \ failed /\ Precedes(storage.bucketBy, u) /\ storage.bucket # NoBucket) =>
      \/ cors[storage.bucket].origins = config.origins
      \/ Overlap(cors[storage.bucket].by, u)

=============================================================================
