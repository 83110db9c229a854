# A TLA+ verification of FileNest

FileNest is a file infrastructure service: a Python (FastAPI) backend that keeps
file records in PostgreSQL, hands out presigned URLs to object storage, runs a
processing pipeline over uploaded bytes and tells customers about it through
webhooks; SDKs and a console that upload through it; and an identity service
(Next.js with Better Auth) that issues the tokens.  This directory models the
parts in which several tasks, processes and services share state.  Paths below
are relative to `src/backend/app` unless they start with `src/`.

## Inventory

| Part | State | Operations | Interacts with |
|---|---|---|---|
| FileService (`services/file.py`) | `files`, `file_versions` | init, confirm, restore, delete, list, tags, move | config row, outbox, storage |
| Processing (`processing/`, `workers/processing.py`) | file status | run, `_execute`, `_mark_failed`, ack | JetStream, storage, ClamAV, outbox |
| Outbox (`core/messaging.py`) | `outbox_messages` | publish (in the caller's transaction), poll, mark | JetStream |
| Webhooks (`workers/webhook.py`, `services/webhook.py`) | `webhooks`, `webhook_deliveries` | CRUD, list, POST with retries, record, ack | JetStream, customer endpoints |
| Multipart (`services/multipart.py`) | `upload_sessions`, provider uploads | start, part URL, complete, abort | storage, outbox |
| Storage providers (`storage/`) | objects and parts | presign, complete, abort, CORS | S3, Azure, GCS |
| Folders (`services/folder.py`) | `folders` | create, ensure_path, delete, list | files |
| Metadata (`services/metadata.py`) | `metadata_schemas`, metadata of files | create_schema, update, merge | config row |
| Upload tokens (`services/upload_token.py`) | `upload_tokens` | create, authenticate, validate | config row, folders |
| Configuration (`services/project*.py`, `services/storage_config.py`) | `projects`, `project_configs`, `storage_configs`, bucket CORS | create, update, verify | storage, CORS cache |
| CORS middleware (`core/cors_middleware.py`) | a cache per replica | look up, query | config row |
| React SDK (`src/sdks/react`) | cached token, refresh timer, upload items | getToken, refresh, callApi, upload | token endpoint, HTTP API |
| Node and core SDK (`src/sdks/node`, `src/sdks/core`) | upload sessions, retries | upload, uploads.create, resume, abort | HTTP API, storage |
| Console (`src/frontend/web`) | upload queue | upload (presigned, multipart, proxied) | HTTP API, storage |
| Identity service (`src/iam`) | organisations, members, roles, redirects, user contexts, sessions, OAuth clients and two caches of their origins | CRUD, sign-in, token claims, CORS decisions | Better Auth, PostgreSQL |
| Python SDK, dashboards, documentation | none | one request each | HTTP API |

What is hard to test here.  Every handler of the backend is a coroutine that reads
at one await and commits at a later one, with READ COMMITTED isolation, no version
column and few constraints; what it writes is only the columns that differ from
what it has read.  The status of a file is written by HTTP handlers and by pipeline
runs.  Events pass an outbox, a stream with at-least-once delivery and consumers
whose `ack_wait` is shorter than their work; errors are swallowed in several places
where an ack follows.  Uploads go to a store that knows nothing of the database,
from clients that give up on requests whose handlers go on.  The identity service
writes one organisation by several statements without a transaction and builds a
token from six reads.  Four caches (upload token, project origins, client origins
twice) are filled by fetches that overtake each other.

What makes each part correct.  FileService and the pipeline never forget a file in
"processing", never change a file without an event and never revive a deleted one.
The outbox stores what committed and nothing else.  Webhook delivery passes over no
subscriber.  A finished upload is stored and an aborted one is gone.  Schemas and
folders say of the past only what happened.  A configuration is active because a
probe succeeded, and the bucket's rules follow the project's.  A cached decision is
no older than the cache promises.  A token says only what was true while it was
built.  `PROJECT.json` lists the hazards with their lines and properties.

## Modules

| Module | Models | Key state |
|---|---|---|
| `FileLifecycle` | FileService, the config row, the relay, ProcessingWorker, PipelineExecutor | `row`, `versions`, `outbox`, `stream`, `acked`, handlers `req`, runs `run` |
| `EventRelay` | what the outbox promises | `committed`, `delivered` |
| `Outbox` | `outbox_messages`, OutboxWorker replicas; implements `EventRelay` | `created`, `committed`, `published`, `stream`, `batch`, `sent`, `replicas` |
| `WebhookDelivery` | WebhookService, WebhookWorker | `hook`, `acked`, `handler`, `task`, `rows`, `posted` |
| `UploadFlow` | one upload: six kinds of client, the handlers of confirm, complete and abort, three stores | `client`, `handler`, `file`, `parts`, `object`, `open`, `late` |
| `GcsCompose` | complete and abort of the GCS provider, call by call | `store`, `call` |
| `TokenProvider` | FileNestProvider of the React SDK | `cache`, `timer`, `fetch`, `call` |
| `MetadataSchemas` | MetadataService, statement by statement | `schemas`, `meta`, `call` |
| `Folders` | FolderService and what puts files into folders | `folders`, `files`, `call` |
| `FileListing` | pages of `list_files` and the client that follows them | `rows`, `place`, `total`, `page`, `seen` |
| `StorageSetup` | StorageConfigService, the origins of ProjectConfigService, the startup pass | `storage`, `config`, `cors`, `call` |
| `ProjectOrigins` | PerProjectCORSMiddleware of every replica | `stored`, `cache`, `request` |
| `OAuthOrigins` | `oauth-client-origins.ts` and the CORS cache of `proxy.ts` | `db`, `cache`, `corsCache`, `request` |
| `OrgDirectory` | organisations, members, roles, redirects, contexts and token claims of the identity service | `member`, `orgRole`, `redirect`, `context`, `session`, `call` |
| `Catalogue` | schemas, folders and listing of one project together | those of its three parts |
| `Uploads` | one upload and the GCS provider's calls | those of its two parts |
| `OriginRules` | who may call what: clients' origins, projects' origins, buckets' CORS rules | those of its three parts |
| `FileLifecycleProofs`, `OutboxProofs`, `WebhookProofs`, `UploadFlowProofs`, `TokenProviderProofs`, `CatalogueProofs`, `OriginRulesProofs`, `OrgDirectoryProofs` | theorems | |
| `MC*` | instances for TLC | |

How they fit together.  `FileLifecycle` composes the file handlers, the relay and
the pipeline.  `Outbox` details its relay, `WebhookDelivery` the other consumer of
the same stream; `MCConsumers` sets the two consumers side by side.  `UploadFlow` is what
happens before a file is confirmed; its "confirmed" is where `FileLifecycle` goes
on, and `GcsCompose` details its store call for GCS.  `ProjectOrigins` reads
what `StorageSetup` writes.  `Catalogue` instantiates `Folders` and `FileListing` beside
`MetadataSchemas`, and `OriginRules` instantiates `StorageSetup` and `ProjectOrigins`
beside `OAuthOrigins`, and `Uploads` instantiates `GcsCompose` beside `UploadFlow`; the
theorems about the parts are stated over these three.  In
`MCConsumers`, `MCCatalogue` and `MCOriginRules` the parts share no state (in
`OriginRules`, `ProjectOrigins` changes the origins in every way `StorageSetup` can), so
a behaviour moves one part, named by the variable `moves`, and the others stay in an
initial state: interleaving them would multiply the states and add no behaviour of any
part.  `MCUploads` moves `GcsCompose` only, `MCUploadFlow` has `UploadFlow` alone.

### FileLifecycle

A request is a task in one of `Request` slots.  It reads the config row
(`get_file_service`: the dependency reads it first, and the ORM's identity map
gives the handler the same object later), then the in-flight count or the file
row (`init_check`, `read_file`), then commits (`init_upload`, `confirm_upload`,
`restore_version`, `delete_file`).  Anything may happen between those steps.
`Flush` is the unit of work: only columns whose value differs from the one that
was read are written.  A confirm therefore does not clear a concurrent
`deleted_at`, and a commit that "sets" the status it had read writes nothing.

A run is a task in one of `Run` slots: `execute_get`, `execute_config`,
`execute_commit` are the reads and the commit of `_execute`; `execute_raise` is
any exception in it; `mark_failed_get` and `mark_failed` are `_mark_failed`;
`ack` follows.  `mark_failed_error` is an exception inside `_mark_failed`, which
the code swallows; it is possible only when `Unreliable`.  `lose_run` is a crash
or a failed ack.  `deliver` and `redeliver` are JetStream's.

The relay is one action per outbox row here (`poll_and_publish`), in any order,
with or without its mark: every step of `Outbox` on a row is one of these.  Only
`file.uploaded` rows are relayed, because the consumer filters on that subject.
Files are a fresh id each; the constants `Infected` and `Mismatched` say what the
stages find in them.  Virus scanning and versioning flags are toggled by
`update_processing_config`.

### Outbox and EventRelay

`publish` flushes a row with its timestamp, `commit_event` makes it visible: the
order of timestamps is not the order of commits.  A cycle of a worker is `poll`
(SELECT ... ORDER BY created_at LIMIT n FOR UPDATE SKIP LOCKED), one
`publish_row` per row, `commit`.  `roll_back` is an exception or a crash,
`publish_timeout` an exception although the message was stored.  The timestamps
are those of one clock.  `replicas`, the workers that a
deployment runs, is any nonempty subset chosen at the start.  The refinement mapping
sends `delivered` to the set of stored events.

### WebhookDelivery

A `_handle` task lists the matching webhooks and runs one task per webhook: POST,
record the attempt, sleep, up to three times; it acks when all have ended.
Administrators create, update and delete webhooks meanwhile.  `steady` and
`posted` are history: the webhooks that have matched ever since the message was
stored, and what each endpoint has received.  `record_error` (only when
`Unreliable`) is a failed transaction while recording, which `gather` hides.

### UploadFlow and GcsCompose

`UploadFlow` is one upload by one of six clients: the console's `useFileUpload`
(presigned single, multipart, and through `/api/upload`), `useUpload` of the React
SDK, and `files.upload` and `uploads.*` of the Node SDK.  The client's function is
one task (`startUpload`, `init_*`, `put_*`, `respond_*`, `again`).  A request puts a
handler into a slot (`Send` reads the row), which calls the store (`call_ok`,
`call_error`: the store may have done the work) and commits (`commit`, `roll_back`).
`lose_response` is the client giving up while the handler goes on.  `Land`,
`DoComplete` and `DoAbort` hold what the stores do differently: S3 knows only open
uploads, an abort on Azure deletes the blob, committed or not.  `arrive_late` is a
part the client has given up on.  Init and start are one step, because nothing can
come between them; signing changes nothing.

`GcsCompose` is the GCS provider's complete and abort with every call to the bucket
a step: `compose` of a batch into a temporary object put in front of what is left,
the last `compose` into the destination, then the deletion of the parts and, after
them, of the temporary objects.  Other calls of complete and abort run beside it,
any call may stop anywhere, and the client may PUT a part once more.  An object is
the sequence of parts it is made of.

### TokenProvider

JavaScript runs a continuation to its end, so an action is the code between two
awaits.  Fetches are those of `getToken` (one, shared through `inflightRef`), of the
refresh timer, and of each call that was answered with 401.  `fetchToken_ok` caches,
arms the timer and resumes the waiters in one step, whichever fetch answers last.
Time is relative: a token carries the time it has left, the timer the time until it
is due, and `Tick` lets one unit pass.  `revoke` is the server's.

### MetadataSchemas, Folders, FileListing

In these three a request is one READ COMMITTED transaction and each statement one
step, which sees what was committed when it began.

`MetadataSchemas`: the UPDATE of `deactivate_all` finds its rows (`todo`) and locks
them one by one in any order, waiting for rows that others hold and looking at them
again (`lock_row`).  Two such updates may wait for each other; PostgreSQL then
aborts one, which is `stop`.  `Result` uses the row of the first read of a PATCH, as
the session's identity map returns it to the second.  `enforce_schema` is the
constant `Enforce`, as no endpoint sets it.  `during` is history: what was committed
while a request ran.

`Folders`: `create_*`, `ensure_segment` per segment with `get_by_path`, and
`has_subfolders`, `has_files`, `delete_get` of a delete, each followed by a commit.
A walk of `ensure_path` holds the folder it has reached (`at`, `parent`), whether
that one is its own (`fresh`), and the rows it will insert (`added`); once one segment
is missing, no later one is found.
No request looks at the folder a file is put into, so `move_file` and `init_upload`
take any folder.  Rows are in the order of their commits; `before` and `ended` are
history and say which requests overlapped.

`FileListing`: the count and the page of one request are two statements in either
order (`asyncio.gather`).  The client follows `next_cursor`, or the offset by
`has_more` or, as `useInfiniteFiles` does, by `total`.  Ids are random, so any order
of ids may go with the order of `created_at`.  A page is the set of its rows: those
with at least `offset` and fewer than `offset + limit` newer candidates.

### StorageSetup and ProjectOrigins

A request reads a row once and writes the columns that differ from what it has read
(`Written`): an update that has read a pending row does not withdraw the status a
verify has set since.  `probe` is the test object; `verdict` is `update_status`.
`security_commit` stores the origins, `sync_read` and `set_bucket_cors` write the
bucket's rules afterwards and swallow errors.  `startup` is the pass over managed
projects by a replica that starts, with what it has read.  Left out: settings of a
request other than the origins, and the encryption flag of the bucket.

`ProjectOrigins`: `hit` and `miss` look into the replica's entry, `query` is the
database's answer, `store` overwrites the entry, also a newer one; `Left` counts the
expiry from before the query.  A value's lag is the number of ticks since the
database held it.

### OAuthOrigins

`change` is an administrator's commit, `refreshOAuthClientOrigins` the refresh that
nobody waits for, `skip_refresh` an action that fails in between.  `findMany` is the
query, `fetchAndApply` takes its result into the cache, `route` answers the
middleware from that cache or by a query, `cors_ok` fills the second cache.  The
middleware gets the cached `Set` by reference and adds `https://test.drgodly.com` to it
on every request with an Origin header (`proxy.ts:91`).  So what it decides by, and what
its cache holds by the first decision, is `Allowed` of what the route answered: that with
`TestOrigin`.  The first decision is made before any other can read the new cache, so
`cors_ok` does both.
`cors_error` falls back to whatever the second cache holds, for this one request:
such a decision may be of any age, and the properties speak of a valid cache only.

### OrgDirectory

Every handler of the identity service is a sequence of statements.
`createOrganization` and `afterCreateOrganization`; `updateMemberRole`, `findMember`,
`deleteRedirects`, `createRedirects` (a transaction of which the unique key may refuse
the insert); `updateOrgRole` and `writeOrgRole`; `signIn` and the first or next session;
`activeOrganization` and `upsertContext`.  A token build (`buildUserContext`) makes its
reads in any order the code allows, the last two after the first four.  `stop` ends a
handler between two statements.  Better Auth's own statements (an organisation with
its owner, a member, a role) are external and atomic.

## Runs

Passing runs:

| Run | Shows | Instance |
|---|---|---|
| `file_lifecycle` | `NoLostWork`, `StatusAnnounced`, `VersionNumbersGapFree`, `NoResurrection` | one file, infected and of a wrong type, two concurrent requests of four, two pipeline runs, scanning toggled, one crash, lost ack or redelivery |
| `in_flight` | `InFlightOvershoot`, `InfectedReadyOnlyByRestore` | three infected files, a limit of one, two concurrent requests of four, scanning on, `_mark_failed` may fail too |
| `consumers` | `ProcessingEnds`, `EveryMessageAcked` (liveness) | pipeline: one file, three requests, two runs, two faults; webhooks: one message, one webhook, two handlers, two administrative changes, one fault |
| `outbox` | `NoDuplicates`, `CausalOrder` (of one replica), the refinement `ImplementsRelay` with its liveness | one or two replicas, three events, batches of two, two faults |
| `webhooks` | `AckedSettled`, `PostsBounded`, `AttemptsGapFree` | two webhooks, two handlers, two administrative changes, one fault, recording may fail |
| `upload_flow` | `DoneIsStored`, `ConfirmedHasObject`, `AbortIsFinal`, `UploadEnds` (liveness) | every client and store, three handlers at once, two parts, one retry, two calls of resume or abort |
| `token_provider` | `RefreshNeverStops`, `RefusedTwiceOnlyIfRevoked`, `IdleProviderStops` | two calls, one fetch each of getToken and of the timer, lifetime 5, buffer 1, latency 2, two attempts |
| `catalogue` | `LaterReplaces`, `VersionsGapFree`, `StoredIsExplained`, `EnsureIsIdempotent`, `DeletedWereEmpty`, `PagesListAll`, `CatalogueOK` | two concurrent requests of four, one rollback; two schemas and two metadata keys; two folder names, two levels, one file; up to four files in pages of two |
| `origin_rules` | `DecisionsWithinLag`, `QuietCacheAgrees`, `ActiveWasProbed`, `CorsFollowsConfig`, `ChangesPropagate` | identity service: one origin, three fetches, both caches for two ticks, latency 1, two changes without their refresh; storage: three concurrent requests, two buckets, two settings; projects: two replicas, two requests, a cache for two ticks, queries of up to three |
| `gcs_compose` | `ObjectIsWhole`, `NothingIsLeft`, `ComposeTypeOK` | three calls of complete or abort over up to nine parts, limit 4 and batches of 3 |
| `org_directory` | `TokensAreExplained`, `OwnersAreCovered`, `ChoicesAreKept`, `RedirectsFollowRoles` | one user, one organisation, two roles, two permissions, two concurrent requests of four, one that stops half way |

`CatalogueOK` is the type invariants of schemas and folders with `PathsFollowParents`
(the breadcrumbs a path spells are the folders its parents lead through); `PagesListAll`
includes the type invariant of the listing, and `ComposeTypeOK` the
compose limit of GCS.  The other modules' type invariants are stated as theorems only.

One run refutes a comment.  `webhook_retries`: the handler sleeps between attempts for
longer than `ack_wait`, a redelivery starts three more, and `AtMostThreePosts` fails,
where `workers/webhook.py:14` says that no further retries occur after three failures.

Where else the code does other than its documentation says, a passing property is
exact about what does hold, so that a change in either direction shows:

* `init_upload`'s docstring promises the limit `max_files_per_request`;
  `InFlightOvershoot` bounds by how much concurrent inits exceed it.
* Two confirms store the same version number (`services/file.py:275`).
  `VersionNumbersGapFree` holds with repetitions.
* A duplicate run that raises overwrites a completed file with "failed"
  (`processing/pipeline.py:223`): `StatusAnnounced` holds, the commit that does so
  announces it.
* A commit whose handler or run read a file that another has changed since publishes its
  event all the same, but does not write a status that equals the one it had read: a
  second confirm announces "uploaded" about a file that has been restored meanwhile
  (`services/file.py:268`).  `StatusAnnounced` says that every change is committed with its
  event, and of the events only those of such transactions (`CommitsStale`) are untrue.
* `proxy.ts:7` says that the allowed origins come from registered OAuth clients; one comes
  from the code (`proxy.ts:91`).  `DecisionsWithinLag` is exact about the others, and that
  one is always allowed.
* `_mark_failed` swallows its own error (`processing/pipeline.py:232`) and the message
  is acked: `NoLostWork` and `ProcessingEnds` hold only unless `Unreliable`.
* `restore_version` makes a quarantined file ready without a scan: the exception in
  `InfectedReadyOnlyByRestore`.
* A failed record of an attempt ends a webhook's retries while the message is acked:
  the exception in `Settled`.  A task that sleeps between attempts calls a webhook
  that was deleted meanwhile, where the webhook page says "Pending retries are
  cancelled".
* Overlapping `create_schema` calls repeat a version and leave two active schemas,
  where `repositories/metadata_schema.py:4` says that one is active at a time.
  `LaterReplaces` says when that cannot happen, and that a later call repairs it.
  Overlapping PATCHes lose keys: `StoredIsExplained` says what is stored instead.
* `ensure_path` is "Idempotent" (`schemas/folder.py:57`), but raises once its path exists
  twice (`repositories/folder.py:121`), which `create_folder` allows at any time.
  `EnsureIsIdempotent` says what `ensure_path` itself does not add.
* `verify` may mark credentials active that nobody has probed
  (`services/storage_config.py:174`): `ActiveWasProbed` confines it to overlaps.
* Pages by cursor pass over files (`repositories/file.py:217`; the docstring at
  line 189 recommends them for infinite scroll): `PagesListAll` says which.
* The Node SDK's single upload confirms a file whose PUT was refused
  (`src/sdks/node/src/namespaces/files.ts:129`): the exception in `DoneIsStored`.

Bounds.  The races of `FileLifecycle` need two handlers and two runs on one file;
files do not interact except through the in-flight count, which has its own run
with three.  Four requests are an init, two confirms and one of restore, delete or
a config change.  One fault gives one crash, lost ack, unmarked publish or
redelivery; the pipeline of `consumers` has two.  Three outbox rows and batches of
two give a full batch, a short one and a row that becomes visible late, behind rows
already published.  Webhook attempts are the code's three.  An upload of two parts
has a first and a last one, three handlers are a request, one the client gave up on,
and an abort.  Nine parts are two batches and a remainder of a limit of four, as 63
are of 32.  A lifetime of 5 is the smallest above buffer plus latency and twice the
latency with a latency that lets two answers cross.  Two schemas of which one requires
and one forbids a key make a merge acceptable to each, both and none.  Two path
levels give a parent and a child, which every race about folders is between.  A wait
of three ticks is the first beyond a cache of two: a longer one stores an expired
entry just the same.  One origin suffices as origins do not interact; the middleware's own is not registered
in the run, and may be for the theorem.  Three requests
of the storage are an update, a verify and a change of the origins, or two of one kind
and another, all at once.  One user and one organisation suffice for two changes of one
member and a token built meanwhile.  Of the last two the theorems cover more.
Handlers, runs, files, calls, webhooks, buckets and names are
symmetric, in runs without liveness only; in `origin_rules` the fetches of the identity
service and the requests of the storage take the same model values, so one permutation
serves whichever part moves.  Most runs switch deadlock checking off
because the bounded supply of requests, events and changes runs out.

Fairness.  `FileLifecycle`: weak fairness of the relay (OutboxWorker loops for
ever and survives every exception), of the first delivery of an unacked message
(JetStream redelivers without a limit, as `max_deliver` is not set) and of each
run's own steps (awaits in them have time limits).  Requests are not fair.  The
number of faults is bounded: for ever repeated crashes no property of this kind
holds.  `Outbox`: weak fairness of the cycles of the replicas that run; publishers need
not commit.  `WebhookDelivery`: weak fairness of
the delivery and of each handler's steps.  `UploadFlow`: weak fairness of the client's
own steps (every request is answered, or ends by a time limit or a broken connection)
and of each handler's; users need not do anything.  Fairness of delivery assumes that a
consumer is bound; a worker whose subscribe failed returns for good, and a durable
push consumer accepts one subscriber only.  That hazard is listed and not modelled.
The other modules are about safety only.

## Proofs

For every value of the constants that the named assumptions of the modules admit
(any number of files, requests, runs, replicas, webhooks, users, faults):

* `FileLifecycle` (`ConfigAssumption`, `BoundAssumption`).  `TypeCorrect`.
  `WorkNeverLost`: `~Unreliable => (Spec => []NoLostWork)`.  `NoLostWork` is not
  inductive: a run that has finished its work still holds an unacked message, and
  its ack would remove the last pending event of a file that was confirmed again.
  A run is `Spent` when it will ack without moving its file out of "processing":
  it is done, or it is about to write "failed" over a row it read as "failed",
  which the unit of work turns into no write.  `WorkInv` asks for a pending event
  that no spent run holds, and that a loaded run read "processing", so its commit
  does write the status.  `confirm_upload` creates such an event, the relay keeps
  it pending, `execute_get` and `mark_failed_get` become spent only for files that
  do not wait, and commits move the file out of "processing".
* `DeletionIsFinal`: `Spec => NoResurrection`.  The updates write `deleted_at` only
  to set it, so the commit that could bring a file back is the insert of
  `init_upload`.  `ExistInv` says that what is deleted, announced by an event or
  read by a handler exists; an insert takes an id that does not.
  `VersionNumbersHaveNoGaps`: `VersionInv` adds that the count a handler has read is
  0 or the number of an existing version, so the row it inserts continues the numbers
  even when its read is stale.  Both rest on `StepCommit` (every step commits nothing,
  inserts a file, or updates one file with or without a version row) and `StepRead`.
* `StatusesAreAnnounced`, `InfectedOnlyByRestore`: both are about steps, and rest on
  `Transacted`: whatever a commit writes, it writes the row and one event in one
  transaction, both computed from a row that a handler or run had read and is now done
  with (`Computed`), and the event is one that announces the status computed; and
  (`Scanned`) if every config scans, nothing but a restore announces infected bytes as
  ready.  That needs `CfgRead`: handlers and runs decide by a config the project has had.
  `BlankInv` adds that a file that has not been created has the columns of `NoRow`, so an
  insert changes only what its event announces.
* `OvershootIsBounded` (`BoundAssumption`: the request slots are finitely many): the
  property bounds files in flight, and the inserts that break the limit are still to
  come; `FlightInv` counts the files in flight and the requests that have passed the
  check together, below the limit plus the number of slots, and a request passes the
  check only when the files in flight are below the limit.
* `Outbox` (`OutboxAssumption`).  `OutboxTypeCorrect`; `MarkedRowsAreStored` (with:
  what a worker has sent is stored); `NoDuplicateWithoutFault` (with: batches are
  disjoint from each other and from the published rows, and while nothing has failed
  what is stored was published or sent under a lock); `OneReplicaKeepsOrder`:
  `CausalInv` says that timestamps grow (`ClockAhead`), that what a row has seen is
  older than the row (`SeenOlder`), and that a batch holds with a row every
  unpublished event the row has seen (`BatchClosed`); `OutboxImplementsRelay` (each
  step commits one event, stores one committed event, or stutters).
* `WebhookDelivery` (`WebhookAssumption`).  `WebhookTypeCorrect`.
  `NoSubscriberPassedOver`: `AckedSettled` speaks of recorded attempts, which other
  handlers add to.  `AckInv` counts the rows of a webhook and the handlers about to
  write one together; the sum never exceeds the POSTs, and an attempt that was given up
  leaves it smaller for good (`Settles`).  Tasks have done what their state says
  (`TasksFine`), and there is one for every webhook subscribed throughout
  (`TasksCover`).  `AttemptsHaveNoGaps`: a task about to make attempt k > 1 has a
  row of its failed attempt k - 1 (`TasksFollow`), and rows only grow.
  `PostsAreBounded`: `PostInv` adds up the POSTs a webhook has received of a message,
  the attempts that the tasks of its handlers have left (`Left`) and those of the delivery
  a message without a handler still waits for (`Unstarted`).  The sum stays within three
  for the first delivery and for each fault: a POST moves one from the second number
  to the first, a delivery three from the last to the second, and only a crash or a
  redelivery, which are faults, adds three.
* `UploadFlow` (`UploadAssumption`).  `AbortedStaysAborted`: `ClosedOnce` says that on
  S3 nothing is decided while the upload is open, and that the handler whose call
  closed it (`Closing`) is the only one about to commit, with the row still pending
  and the object as its operation leaves it; so what an aborting handler commits
  nobody overwrites.  `ConfirmedIsStored`: `Stored` adds the handlers that are about
  to confirm.  `ShownDoneIsStored`: `DoneIsConfirmed` covers what the client shows
  and the answers it has not read, and `StaysConfirmed` the handlers that read the
  file before another confirmed it.  All rest on the client waiting for a handler of
  the kind it asked for (`WaitsForItsOwn`), and on `ClientStep`: what any step of a
  client may do once `init_upload` has answered.  `TypeCorrect`.
* `TokenProvider` (`TokenAssumption`: `Buffer + Latency < Lifetime` and
  `2 * Latency < Lifetime`).  One `Inv` for all theorems: an answer on its way has
  lost at most the latency (`AnsweredFresh`), so it arms the timer; the second
  request of a call has a token fetched for it (`SecondFresh`), which cannot expire
  on the way; the provider that unmounts idle has nothing left that could start a
  fetch (`IdleStays`).  `RefreshGoesOnForever`, `OneRetrySuffices`,
  `UnmountStopsIdle`, `TypeCorrect`.
* `OriginRules`, about `OAuthOrigins` (`OriginsAssumption`).  `WithinLag`: `LagInv` bounds
  the age of what each holder has by its way from the database: a query's result by its
  travel, the first cache by `Latency` and its age, a response by `TTL + Latency` and its
  travel, the second cache by all four; the second holds `Allowed` of what came to it, which
  is why its bound asks for the set it came from.  `RefreshedCacheAgrees`: `AgreeInv` adds that
  unless `excused`, a query under way has read what the database says.
* `OriginRules`, about `StorageSetup` (`RulesAssumption`).  `SetupTypes`;
  `ActiveConfigsWereProbed` and `CorsRulesFollow`.  Neither property is inductive: each
  speaks of rows, and what breaks them is what a request has read and not yet written.
  `SetupInv` adds `RequestsKnow`: the row an update or a verify holds is the one in the
  database, or what differs was written by a request that overlaps it (`KnowsRow`), and
  a request that is about to write rules holds the project's origins and, if its bucket
  precedes it, the bucket they belong to (`KnowsOrigins`).  Requests under way have
  different ids, and writers of the row have ended (`IdsFit`), so "overlaps" can be read
  off the history.
* `OriginRules`, about `ProjectOrigins`.  `OriginChangesPropagate`: `PropInv` adds that an
  entry's lag and the time it has left sum to at most the time to live
  (`EntriesExpire`), which `store` keeps although it may overwrite a newer entry, since
  the expiry counts from before the query; and that a query's result is no older than
  its wait (`RowsAreFresh`).
* `OrgDirectory` (`DirectoryAssumption`).  `OwnersCovered`: a row nobody wrote by
  hand is a seeded one, and an owner's permissions have the defaults once the rows
  are read, for which a build needs a session and an organisation's id is not used
  again while there is one (`OwnerInv`).  `TokensExplained`: what holds during a build
  is in what was `seen`, and each partial result is explained by it (`SeenInv`).
  `RedirectsFollow`: an update that runs alone will delete every old link and
  create links of roles the member has (`RedirectInv`).  `ChoicesKept`, `TypeCorrect`.
* `Catalogue`, about `MetadataSchemas` (`MetadataAssumption`).  `SchemasAreReplaced` and
  `VersionsHaveNoGaps`: `SchemaInv` says that the version of a schema being created is
  one more than the highest there was when its request began (`Numbered`), and that
  of the rows there were, those still active are locked by the request or in front of
  its UPDATE (`Catches`).  `StoredMetadataIsExplained`: `WriteInv` says that what a
  request has read, and was validated against, was committed `during` it.  `TypeCorrect`.
* `Catalogue`, about `Folders` (`CatalogueAssumption`).  `CatalogueIsSound` (with
  `TypeCorrect` of the schemas), `EnsureFindsFolders`, `DeletedFoldersWereEmpty`.  One
  `FoldersInv` for all: what each request relies on at its commit (`FolderKnowledge`).  A
  create and a walk hold a parent whose path is theirs without the last segment and that
  nobody had deleted before they began; a row a walk will insert had no active folder of
  its path committed before; a delete past its checks knows that no folder, or file, was
  put into its folder by a request that had ended before it.  `KnowledgeKept` is the
  lemma the rest hangs on: rows that other requests commit or delete do not invalidate
  that, because those requests had not ended when this one began.
* `Catalogue`, about `FileListing` (`CatalogueAssumption`).  `ListingIsComplete`: the
  property speaks of a client that has ended; `ListingInv` says on the way what it has
  been given.  Files that the offset has passed are `seen` (`PassedSeen`): a file that
  is created moves the others to larger offsets, never to smaller ones.  A page that is
  waiting for its count has every file up to its end, and all that are left if it is
  short (`PageFits`); a count that no file was created behind counts all (`CountFits`),
  so the client stops at no total that is too small.  `PageOf` is the lemma about pages:
  how many rows one has, and that one that is not full has all of them.
* `Uploads`, about `GcsCompose` (`ComposeAssumption`: a batch has two parts or more and
  fits into a compose), for any number of parts, calls and repeated PUTs.
  `ComposeTypes`, `ComposedObjectIsWhole`, `NothingIsLeftBehind`.  `NothingIsLeft` is
  not inductive: another call that still composes could write a temporary object again
  after the first has returned.  It cannot, as every compose takes a part among its
  sources and parts are deleted before temporary objects.  `UploadsInv` says what that
  rests on: a call that composes is fixed by the number of batches it has made
  (`Composing`), a temporary object holds all parts up to the end of its batch
  (`ObjectsFit`), and a call of complete that deletes has on its list everything that is
  still there, the parts in front, and as long as a part is on it every temporary object
  another call could make (`CleansUp`).  What a compose makes is a flattening of
  sequences, which is recursive: `PartsInOrder` proves it for any number of sources from
  the least number at which it would fail (`LeastElement`, by well-founded minimality,
  instead of an induction theorem).

Only model-checked:

* liveness (`ProcessingEnds`, `EveryMessageAcked`, `UploadEnds`, the liveness half of the
  refinement), since fairness is beyond the prover.

Every safety property and action property of the passing runs is a theorem.

## Plan

What the project would take up next:

1. `Consumers`: binding of durable push consumers across replicas and restarts, which
   the fairness of delivery assumes.
2. `FileVersions`: an object store keyed by file.  All versions of a file share one
   storage key (`services/file.py:351`), so what an earlier version's URL serves
   differs from "exact bytes" in the docstring of `get_version_download_url`.
3. `UploadRules` (pure): token coverage against the check at upload time; MIME
   wildcards.
4. `AzureBlocks`, `S3Parts`: complete and abort of the other two providers call by call,
   beside `GcsCompose`.

## Not modelled

Contents of files, names, URLs, signatures and encryption; connection pools and
read replicas; dashboards and usage reports (read-only); upload tokens and upload
validation (checks of one request against one row); tags, renaming and signed
download URLs; authentication of the backend (stateless checks against the identity
service); the Python SDK and the other methods of the JavaScript SDKs (one request
each).  Of the identity service: teams, invitations, applications, API keys and
sign-up, which are calls of Better Auth.  Better Auth's own endpoint that updates a
member's role is not modelled either: it writes the role without the redirects, so
`RedirectsFollowRoles` is about roles that change through the service
(`organizations.service.ts`).  `UploadFlow` takes S3 to refuse a part once its upload is
completed or aborted; S3 itself advises to repeat an abort while parts are being sent.
Most of the TypeScript in `src/iam` and
`src/frontend` is user interface (components, tables, forms, documentation pages):
it keeps no shared state of its own, so the share of the repository's lines that the
modules map stays small.

Observed on the way, in code outside the models: the webhook documentation names an
event `file.failed` where the code emits `file.processing_failed`, and five attempts
where the code makes three; `refresh` of `useUploadToken` is documented to clear the
cache first but is `getToken`; `cancel` and `retry` of `useUpload` change what is shown
and stop or start nothing; `proxy.ts` falls back to a cache of any age when its fetch
fails; `update_config` does not write the CORS rules of the new bucket; `list_files`
gathers two queries on one session, whose order is not fixed.
