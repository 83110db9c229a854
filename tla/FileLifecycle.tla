---------------------------- MODULE FileLifecycle ----------------------------
(***************************************************************************)
(* The life of a file record between the HTTP API and the processing       *)
(* pipeline: FileService (init_upload, confirm_upload, restore_version,    *)
(* delete_file), the transactional outbox, the JetStream stream it feeds,  *)
(* ProcessingWorker and PipelineExecutor.                                  *)
(*                                                                         *)
(* A handler is a task that reads at one await and commits at a later one; *)
(* between the two any other task may commit.  PostgreSQL runs at READ     *)
(* COMMITTED and SQLAlchemy's unit of work writes only the columns whose   *)
(* value differs from the one that was read (operator Flush).              *)
(***************************************************************************)
EXTENDS Naturals, Sequences, FiniteSets

CONSTANTS File,        \* ids of file records
          NoFile,      \* stands for "no file id yet"
          Request,     \* slots for concurrent HTTP requests
          Run,         \* slots for concurrent pipeline runs
          Config,      \* the project_configs values an administrator may set
          Infected,    \* files whose bytes ClamAV reports as FOUND
          Mismatched,  \* files whose sniffed type contradicts the declared one
          MaxInFlight, \* config.max_files_per_request, 0 when not set
          Unreliable,  \* TRUE when _mark_failed's own transaction can fail
          MaxRequests, \* bound on the requests of one behaviour
          MaxFaults    \* bound on crashes, lost acks and redeliveries

ASSUME ConfigAssumption ==
  /\ NoFile \notin File
  /\ Config \subseteq [scan : BOOLEAN, versioning : BOOLEAN]
  /\ Config # {}

ASSUME BoundAssumption ==
  /\ MaxInFlight \in Nat
  /\ MaxRequests \in Nat
  /\ MaxFaults \in Nat
  /\ Unreliable \in BOOLEAN
  /\ IsFiniteSet(Request)

VARIABLES config,    \* the project_configs row
          row,       \* the files table
          versions,  \* file_versions: version_number of each row, as inserted
          outbox,    \* outbox_messages, in commit order
          published, \* positions in outbox with published_at set
          stream,    \* JetStream: the outbox position of each stored message
          acked,     \* stream sequence numbers acked by "processing-workers"
          req,       \* the HTTP handlers in progress
          run,       \* the pipeline runs in progress
          started,   \* requests begun so far
          faults     \* faults met so far

vars == <<config, row, versions, outbox, published, stream, acked, req, run,
          started, faults>>

Status == {"none", "pending", "processing", "ready", "failed", "quarantined"}
EventType == {"upload.initiated", "uploaded", "ready", "restored", "deleted",
              "quarantined", "processing_failed"}
Row == [status : Status, deleted : BOOLEAN, count : Nat]
Event == [type : EventType, file : File]

NoRow == [status |-> "none", deleted |-> FALSE, count |-> 0]
NoConfig == [scan |-> FALSE, versioning |-> FALSE]
IdleRequest == [pc |-> "idle", op |-> "none", file |-> NoFile,
                cfg |-> NoConfig, row |-> NoRow]
IdleRun == [pc |-> "idle", msg |-> 0, cfg |-> NoConfig, row |-> NoRow]

(***************************************************************************)
(* Shared database operations                                              *)
(***************************************************************************)

\* FileRepository.get finds the row and it is not soft-deleted.
Found(f) == row[f].status # "none" /\ ~row[f].deleted

\* FileRepository.count_in_flight ("uploading" is counted but never set).
InFlight == {f \in File : row[f].status = "pending" /\ ~row[f].deleted}

\* Mutant: the whole row is written back, as a merge of a detached object would.
BugFlush(f, old, new) == row' = [row EXCEPT ![f] = new]

\* The UPDATE of a commit: of the columns of `new`, the ones that differ from
\* the row as it was read (`old`).
Flush(f, old, new) ==
  row' = [row EXCEPT ![f] =
    [status  |-> IF new.status  # old.status  THEN new.status  ELSE row[f].status,
     deleted |-> IF new.deleted # old.deleted THEN new.deleted ELSE row[f].deleted,
     count   |-> IF new.count   # old.count   THEN new.count   ELSE row[f].count]]

\* TransactionalOutboxPublisher.publish, in the transaction of the caller.
Publish(type, f) == outbox' = Append(outbox, [type |-> type, file |-> f])

(***************************************************************************)
(* HTTP requests                                                           *)
(***************************************************************************)

\* ProjectConfigService.update_processing_config: an administrator sets flags.
update_processing_config ==
  /\ config' \in Config
  /\ config' # config
  /\ started < MaxRequests
  /\ started' = started + 1
  /\ UNCHANGED <<row, versions, outbox, published, stream, acked, req, run, faults>>

\* The FileService dependency reads the config row first (IP allowlist); the
\* service's own read returns the same ORM object.
get_file_service(q, op, f) ==
  /\ req[q].pc = "idle"
  /\ started < MaxRequests
  /\ started' = started + 1
  /\ req' = [req EXCEPT ![q] = [pc |-> "config", op |-> op, file |-> f,
                                cfg |-> config, row |-> NoRow]]
  /\ UNCHANGED <<config, row, versions, outbox, published, stream, acked, run, faults>>

begin_init(q) == get_file_service(q, "init", NoFile)
begin_file_op(q) ==
  \E op \in {"confirm", "restore", "delete"}, f \in File : get_file_service(q, op, f)

\* Mutant: the comparison that admits one file more than the limit.
BugInitCheck(q) ==
  /\ req[q].pc = "config" /\ req[q].op = "init"
  /\ req' = IF MaxInFlight # 0 /\ Cardinality(InFlight) > MaxInFlight
            THEN [req EXCEPT ![q] = IdleRequest]
            ELSE [req EXCEPT ![q].pc = "read"]
  /\ UNCHANGED <<config, row, versions, outbox, published, stream, acked, run,
                 started, faults>>

\* init_upload's concurrency check: over the limit, the request is refused.
init_check(q) ==
  /\ req[q].pc = "config" /\ req[q].op = "init"
  /\ req' = IF MaxInFlight # 0 /\ Cardinality(InFlight) >= MaxInFlight
            THEN [req EXCEPT ![q] = IdleRequest]
            ELSE [req EXCEPT ![q].pc = "read"]
  /\ UNCHANGED <<config, row, versions, outbox, published, stream, acked, run,
                 started, faults>>

\* repo.get, and version_repo.get for a restore: the row as it is read, or 404.
read_file(q) ==
  LET f == req[q].file IN
  /\ req[q].pc = "config" /\ req[q].op # "init"
  /\ req' = IF Found(f) /\ (req[q].op = "restore" => versions[f] # <<>>)
            THEN [req EXCEPT ![q].pc = "read", ![q].row = row[f]]
            ELSE [req EXCEPT ![q] = IdleRequest]
  /\ UNCHANGED <<config, row, versions, outbox, published, stream, acked, run,
                 started, faults>>

\* What every commit of a request leaves alone, and the end of the handler.
Respond(q) ==
  /\ req' = [req EXCEPT ![q] = IdleRequest]
  /\ UNCHANGED <<config, published, stream, acked, run, started, faults>>

\* init_upload's commit: the new row (a fresh uuid) and file.upload.initiated.
init_upload(q) ==
  /\ req[q].pc = "read" /\ req[q].op = "init"
  /\ \E f \in File :
       /\ row[f].status = "none"
       /\ row' = [row EXCEPT ![f] = [NoRow EXCEPT !.status = "pending"]]
       /\ Publish("upload.initiated", f)
  /\ UNCHANGED versions
  /\ Respond(q)

\* Mutant: the number is computed before and bumped again at the insert.
BugCreateVersion(f, n) == versions' = [versions EXCEPT ![f] = Append(@, n + 1)]

\* A FileVersion row with the number the handler computed.
CreateVersion(f, n) == versions' = [versions EXCEPT ![f] = Append(@, n)]

\* confirm_upload's commit.  There is no guard on the status that was read.
confirm_upload(q) ==
  LET f == req[q].file
      old == req[q].row
      cfg == req[q].cfg
  IN
  /\ req[q].pc = "read" /\ req[q].op = "confirm"
  /\ Flush(f, old,
       [old EXCEPT !.status = IF cfg.scan THEN "processing" ELSE "ready",
                   !.count = IF cfg.versioning THEN @ + 1 ELSE @])
  /\ IF cfg.versioning THEN CreateVersion(f, old.count + 1) ELSE UNCHANGED versions
  /\ Publish(IF cfg.scan THEN "uploaded" ELSE "ready", f)
  /\ Respond(q)

\* restore_version's commit.  Every version of a file has the file's own
\* storage key, so status and count are the columns that change.
restore_version(q) ==
  LET f == req[q].file
      old == req[q].row
  IN
  /\ req[q].pc = "read" /\ req[q].op = "restore"
  /\ Flush(f, old, [old EXCEPT !.status = "ready", !.count = @ + 1])
  /\ CreateVersion(f, old.count + 1)
  /\ Publish("restored", f)
  /\ Respond(q)

\* delete_file's commit.
delete_file(q) ==
  LET f == req[q].file
      old == req[q].row
  IN
  /\ req[q].pc = "read" /\ req[q].op = "delete"
  /\ Flush(f, old, [old EXCEPT !.deleted = TRUE])
  /\ UNCHANGED versions
  /\ Publish("deleted", f)
  /\ Respond(q)

\* The handler is lost before its commit: an exception (the session rolls
\* back), or a crash of the process.
abandon_request(q) ==
  /\ req[q].pc # "idle"
  /\ faults < MaxFaults
  /\ faults' = faults + 1
  /\ req' = [req EXCEPT ![q] = IdleRequest]
  /\ UNCHANGED <<config, row, versions, outbox, published, stream, acked, run, started>>

(***************************************************************************)
(* From the outbox to the consumer                                         *)
(***************************************************************************)

Uploaded(e) == outbox[e].type = "uploaded"
Held(m) == \E r \in Run : run[r].pc # "idle" /\ run[r].msg = m

\* An OutboxWorker cycle for one row: stored in the stream, then marked.  A
\* crash or an error between the two rolls published_at back (marked = FALSE).
\* Only file.uploaded rows matter to this consumer's filter subject.
poll_and_publish(e, marked) ==
  /\ e \notin published /\ Uploaded(e)
  /\ stream' = Append(stream, e)
  /\ IF marked
     THEN published' = published \cup {e} /\ UNCHANGED faults
     ELSE /\ faults < MaxFaults /\ faults' = faults + 1
          /\ UNCHANGED published
  /\ UNCHANGED <<config, row, versions, outbox, acked, req, run, started>>

\* Mutant: the subscription without manual_ack, acked when it is delivered.
BugStartRun(r, m) ==
  /\ run[r].pc = "idle"
  /\ m \notin acked
  /\ run' = [run EXCEPT ![r] = [IdleRun EXCEPT !.pc = "start", !.msg = m]]
  /\ acked' = acked \cup {m}
  /\ UNCHANGED <<config, row, versions, outbox, published, stream, req, started>>

\* The task that JetStream's push creates for stored message m.
StartRun(r, m) ==
  /\ run[r].pc = "idle"
  /\ m \notin acked
  /\ run' = [run EXCEPT ![r] = [IdleRun EXCEPT !.pc = "start", !.msg = m]]
  /\ UNCHANGED <<config, row, versions, outbox, published, stream, acked, req, started>>

\* JetStream pushes an unacked message that no task holds: its first delivery,
\* or the one after a nak or a crash.
deliver(r, m) == ~Held(m) /\ StartRun(r, m) /\ UNCHANGED faults

\* ack_wait expires while a task still works on the message.
redeliver(r, m) ==
  /\ Held(m) /\ StartRun(r, m)
  /\ faults < MaxFaults
  /\ faults' = faults + 1

(***************************************************************************)
(* PipelineExecutor                                                        *)
(***************************************************************************)

RunFile(r) == outbox[stream[run[r].msg]].file

\* Mutant: a FOUND result sets neither `quarantined` nor `failed_reason`.
BugOutcome(f, cfg) == IF f \in Mismatched THEN "failed" ELSE "ready"

\* The stages, as to whether the file passes.  A scan that times out or errs is an
\* execute_raise.
virus_scan(f) == f \notin Infected
mime_validation(f) == f \notin Mismatched

\* The result of the stages: virus_scan (if enabled), mime_validation, and
\* classification, which never fails; the first failure stops the loop.
Outcome(f, cfg) ==
  IF cfg.scan /\ ~virus_scan(f) THEN "quarantined"
  ELSE IF ~mime_validation(f) THEN "failed"
  ELSE "ready"

\* The event each outcome is announced by.
OutcomeEvent(s) ==
  IF s = "failed" THEN "processing_failed" ELSE s

\* A step of a run that commits nothing.
Local == UNCHANGED <<config, row, versions, outbox, published, stream, acked, req,
                     started, faults>>

\* _execute loads the file: NotFoundError goes to _mark_failed, a status other
\* than "processing" ends the run, otherwise the row is kept.
execute_get(r) ==
  LET f == RunFile(r) IN
  /\ run[r].pc = "start"
  /\ run' = [run EXCEPT
       ![r] = IF ~Found(f) THEN [@ EXCEPT !.pc = "failing"]
              ELSE IF row[f].status # "processing" THEN [@ EXCEPT !.pc = "done"]
              ELSE [@ EXCEPT !.pc = "loaded", !.row = row[f]]]
  /\ Local

\* _execute reads the project config that selects the stages.
execute_config(r) ==
  /\ run[r].pc = "loaded"
  /\ run' = [run EXCEPT ![r].pc = "stages", ![r].cfg = config]
  /\ Local

\* _execute's commit: the outcome and its event.
execute_commit(r) ==
  LET f == RunFile(r)
      s == Outcome(f, run[r].cfg)
  IN
  /\ run[r].pc = "stages"
  /\ Flush(f, run[r].row, [run[r].row EXCEPT !.status = s])
  /\ Publish(OutcomeEvent(s), f)
  /\ run' = [run EXCEPT ![r].pc = "done"]
  /\ UNCHANGED <<config, versions, published, stream, acked, req, started, faults>>

\* Mutant: the exception is logged and the message acked.
BugExecuteRaise(r) ==
  /\ run[r].pc \in {"start", "loaded", "stages"}
  /\ run' = [run EXCEPT ![r].pc = "done"]
  /\ Local

\* Any exception inside _execute (storage, clamd, database): its session rolls
\* back and run() calls _mark_failed.
execute_raise(r) ==
  /\ run[r].pc \in {"start", "loaded", "stages"}
  /\ run' = [run EXCEPT ![r] = [IdleRun EXCEPT !.pc = "failing", !.msg = run[r].msg]]
  /\ Local

\* _mark_failed loads the file; NotFoundError is logged and swallowed.
mark_failed_get(r) ==
  LET f == RunFile(r) IN
  /\ run[r].pc = "failing"
  /\ run' = [run EXCEPT
       ![r] = IF Found(f) THEN [@ EXCEPT !.pc = "marking", !.row = row[f]]
                          ELSE [@ EXCEPT !.pc = "done"]]
  /\ Local

\* Mutant: the status without its event.
BugMarkFailed(r) ==
  LET f == RunFile(r) IN
  /\ run[r].pc = "marking"
  /\ Flush(f, run[r].row, [run[r].row EXCEPT !.status = "failed"])
  /\ run' = [run EXCEPT ![r].pc = "done"]
  /\ UNCHANGED <<config, versions, outbox, published, stream, acked, req, started, faults>>

\* _mark_failed's commit, whatever the status it read.
mark_failed(r) ==
  LET f == RunFile(r) IN
  /\ run[r].pc = "marking"
  /\ Flush(f, run[r].row, [run[r].row EXCEPT !.status = "failed"])
  /\ Publish("processing_failed", f)
  /\ run' = [run EXCEPT ![r].pc = "done"]
  /\ UNCHANGED <<config, versions, published, stream, acked, req, started, faults>>

\* An exception in _mark_failed itself is logged and swallowed.
mark_failed_error(r) ==
  /\ Unreliable
  /\ run[r].pc \in {"failing", "marking"}
  /\ run' = [run EXCEPT ![r].pc = "done"]
  /\ Local

\* ProcessingWorker._handle acks once executor.run() has returned.
ack(r) ==
  /\ run[r].pc = "done"
  /\ acked' = acked \cup {run[r].msg}
  /\ run' = [run EXCEPT ![r] = IdleRun]
  /\ UNCHANGED <<config, row, versions, outbox, published, stream, req, started, faults>>

\* The task ends without an ack: ack() raised (then nak), or the worker
\* process crashed.  JetStream keeps the message.
lose_run(r) ==
  /\ run[r].pc # "idle"
  /\ faults < MaxFaults
  /\ faults' = faults + 1
  /\ run' = [run EXCEPT ![r] = IdleRun]
  /\ UNCHANGED <<config, row, versions, outbox, published, stream, acked, req, started>>

-----------------------------------------------------------------------------

Init ==
  /\ config \in Config
  /\ row = [f \in File |-> NoRow]
  /\ versions = [f \in File |-> <<>>]
  /\ outbox = <<>>
  /\ published = {}
  /\ stream = <<>>
  /\ acked = {}
  /\ req = [q \in Request |-> IdleRequest]
  /\ run = [r \in Run |-> IdleRun]
  /\ started = 0
  /\ faults = 0

RequestStep(q) ==
  \/ begin_init(q)
  \/ begin_file_op(q)
  \/ init_check(q)
  \/ read_file(q)
  \/ init_upload(q)
  \/ confirm_upload(q)
  \/ restore_version(q)
  \/ delete_file(q)
  \/ abandon_request(q)

\* The steps a run takes when nothing kills it.
RunStep(r) ==
  \/ execute_get(r)
  \/ execute_config(r)
  \/ execute_commit(r)
  \/ execute_raise(r)
  \/ mark_failed_get(r)
  \/ mark_failed(r)
  \/ mark_failed_error(r)
  \/ ack(r)

Relay == \E e \in DOMAIN outbox : poll_and_publish(e, TRUE)
RelayLost == \E e \in DOMAIN outbox : poll_and_publish(e, FALSE)
Deliver == \E r \in Run, m \in DOMAIN stream : deliver(r, m)
Redeliver == \E r \in Run, m \in DOMAIN stream : redeliver(r, m)

Next ==
  \/ update_processing_config
  \/ \E q \in Request : RequestStep(q)
  \/ Relay
  \/ RelayLost
  \/ Deliver
  \/ Redeliver
  \/ \E r \in Run : RunStep(r) \/ lose_run(r)

Spec == Init /\ [][Next]_vars

\* The outbox worker polls for ever, JetStream redelivers for ever, and the
\* event loop runs every task that can continue.  Requests need no fairness.
Fairness ==
  /\ WF_vars(Relay)
  /\ WF_vars(Deliver)
  /\ \A r \in Run : WF_vars(RunStep(r))

FairSpec == Spec /\ Fairness

-----------------------------------------------------------------------------
(***************************************************************************)
(* Properties                                                              *)
(***************************************************************************)

RequestType == [pc : {"idle", "config", "read"},
                op : {"none", "init", "confirm", "restore", "delete"},
                file : File \cup {NoFile},
                cfg : Config \cup {NoConfig},
                row : Row]
RunType == [pc : {"idle", "start", "loaded", "stages", "failing", "marking", "done"},
            msg : Nat,
            cfg : Config \cup {NoConfig},
            row : Row]

\* Every variable has its type; a file handler names a file, a run holds a
\* stored message, and only file.uploaded rows reach the consumer's stream.
TypeOK ==
  /\ config \in Config
  /\ row \in [File -> Row]
  /\ versions \in [File -> Seq(Nat)]
  /\ outbox \in Seq(Event)
  /\ published \subseteq DOMAIN outbox
  /\ stream \in Seq(Nat)
  /\ \A m \in DOMAIN stream : stream[m] \in DOMAIN outbox /\ Uploaded(stream[m])
  /\ acked \subseteq DOMAIN stream
  /\ req \in [Request -> RequestType]
  /\ \A q \in Request :
       req[q].pc # "idle" /\ req[q].op # "init" => req[q].file \in File
  /\ run \in [Run -> RunType]
  /\ \A r \in Run : run[r].pc # "idle" => run[r].msg \in DOMAIN stream
  /\ started \in Nat
  /\ faults \in Nat

\* The event still owes a pipeline run: it is unpublished, or the consumer
\* holds an unacked copy of it.
Pending(e) == \/ e \notin published
              \/ \E m \in DOMAIN stream : stream[m] = e /\ m \notin acked

\* A file in "processing" always has a file.uploaded event that still owes it a
\* pipeline run: whatever the order of confirms, restores, deletes, duplicate
\* deliveries, crashes and stale writes, no file waits for work that nobody
\* will do (outbox atomicity, ack after run, the status guard of _execute).
NoLostWork ==
  \A f \in File :
    row[f].status = "processing" /\ ~row[f].deleted =>
      \E e \in DOMAIN outbox :
        outbox[e] = [type |-> "uploaded", file |-> f] /\ Pending(e)

\* The events that announce a status.
Announcements ==
  [pending |-> {"upload.initiated"}, processing |-> {"uploaded"},
   ready |-> {"ready", "restored"}, failed |-> {"processing_failed"},
   quarantined |-> {"quarantined"}]

\* The step commits one event, which is about f and of one of the types.
Announces(f, types) == \E t \in types : outbox' = Append(outbox, [type |-> t, file |-> f])

\* The transaction that the step commits read f with status s, which another has
\* changed since: it writes no status, since it computed the one it had read.
CommitsStale(f, s) ==
  /\ row[f].status # s
  /\ \/ \E q \in Request : /\ req[q].pc = "read" /\ req[q].file = f /\ req[q].row.status = s
                            /\ req'[q].pc = "idle"
     \/ \E r \in Run : /\ run[r].pc \in {"stages", "marking"} /\ RunFile(r) = f
                        /\ run[r].row.status = s /\ run'[r].pc = "done"

\* No commit of FileService or of the pipeline changes a file silently: every change
\* of the status, every deletion and every version is committed with one event of
\* the same transaction that says so, however the columns of stale and of fresh rows
\* mix.  Conversely an event that announces a status is true of the row when it is
\* committed, unless its transaction computed from a row that has changed since.
StatusAnnounced ==
  [][\A f \in File :
       /\ row'[f].status # row[f].status => Announces(f, Announcements[row'[f].status])
       /\ row'[f].deleted # row[f].deleted => Announces(f, {"deleted"})
       /\ row'[f].count # row[f].count \/ versions'[f] # versions[f] =>
            Announces(f, {"uploaded", "ready", "restored"})
       /\ \A s \in DOMAIN Announcements : Announces(f, Announcements[s]) =>
            row'[f].status = s \/ CommitsStale(f, s)]_vars

VersionNumbers(f) == {versions[f][i] : i \in DOMAIN versions[f]}

\* Lost updates of version_count may repeat a version number, but the numbers of
\* a file's version rows always are 1..k for some k, and version_count is 0 or
\* one of them.
VersionNumbersGapFree ==
  \A f \in File :
    /\ \A n \in VersionNumbers(f) : n >= 1 /\ (n > 1 => n - 1 \in VersionNumbers(f))
    /\ row[f].count = 0 \/ row[f].count \in VersionNumbers(f)

\* A commit that was computed from a row read before the deletion never brings
\* the file back: the unit of work does not write deleted_at.
NoResurrection == [][\A f \in File : row[f].deleted => row'[f].deleted]_vars

\* While every config the project has had enables virus scanning, infected bytes
\* become "ready" only in a commit of restore_version, which sets the status itself;
\* also once they have been restored, and quarantined or failed again.
InfectedReadyOnlyByRestore ==
  [][(\A c \in Config : c.scan) =>
       \A f \in Infected \cap File :
         row'[f].status = "ready" /\ row[f].status # "ready" =>
           Announces(f, {"restored"})]_vars

\* The check-then-insert of init_upload can exceed max_files_per_request, but
\* by fewer files than there are concurrent requests.
InFlightOvershoot ==
  MaxInFlight # 0 => Cardinality(InFlight) < MaxInFlight + Cardinality(Request)

\* Pipeline work ends: a confirmed file leaves "processing" (or is deleted),
\* although workers crash, acks are lost and messages are delivered twice.
ProcessingEnds ==
  \A f \in File :
    (row[f].status = "processing" /\ ~row[f].deleted)
      ~> (row[f].status # "processing" \/ row[f].deleted)

=============================================================================
