----------------------------- MODULE UploadFlow ------------------------------
(***************************************************************************)
(* The upload of one file, from the client through the backend's handlers  *)
(* to the object store.  The clients are the console's useFileUpload       *)
(* (presigned single and multipart, and the /api/upload proxy), useUpload  *)
(* of the React SDK, and files.upload and uploads.* of the Node SDK.       *)
(* Uploads share nothing, so one is enough.                                *)
(*                                                                         *)
(* A handler reads its rows, calls the store and commits; the client may   *)
(* have given up on it meanwhile and sent another request.  The status     *)
(* "confirmed" stands for ready and processing: what follows is            *)
(* FileLifecycle.                                                          *)
(***************************************************************************)
EXTENDS Naturals, FiniteSets

CONSTANTS Slot,        \* concurrent backend handlers of this upload
          NoSlot,
          Parts,       \* number of parts of a multipart upload
          MaxRetries,  \* maxRetries of the Node SDK
          MaxResumes   \* bound on the user's calls of uploads.resume and abort

ASSUME UploadAssumption ==
  /\ NoSlot \notin Slot
  /\ Parts \in Nat \ {0}
  /\ MaxRetries \in Nat
  /\ MaxResumes \in Nat

Kind == {"single", "multipart", "server", "react", "node", "session"}
Provider == {"s3", "azure", "gcs"}

VARIABLES kind, provider,  \* the client and the project's store
          row,        \* what the client shows: the item, or the promise, of the upload
          client,     \* the client's async function
          handler,    \* the backend's handlers
          file,       \* files.status
          parts,      \* the parts the store holds
          object,     \* the object exists
          open,       \* S3: the multipart upload is open
          late,       \* parts still travelling after the client gave up on them
          resumes,
          abortSent, abortAcked   \* history

store == <<parts, object, open, late>>
vars == <<kind, provider, row, client, handler, file, store, resumes, abortSent, abortAcked>>

isMultipart == kind \in {"multipart", "session"}
PartCount == IF isMultipart THEN Parts ELSE 1

IdleClient == [pc |-> "idle", part |-> 0, attempt |-> 0, req |-> NoSlot]
IdleHandler == [pc |-> "idle", op |-> "none", seen |-> "none"]

\* updateItem: a removed item is not brought back.
Shown(s) == IF row = "removed" THEN row ELSE s

(***************************************************************************)
(* The list of items                                                       *)
(***************************************************************************)

OnlyRow == UNCHANGED <<kind, provider, client, handler, file, store, resumes,
                                 abortSent, abortAcked>>

addFiles ==
  /\ kind \in {"single", "multipart", "server"}
  /\ row = "none"
  /\ row' = "queued"
  /\ OnlyRow

\* removeFile, clearAll and clear: the upload itself goes on.
removeFile ==
  /\ kind \notin {"node", "session"}
  /\ row \notin {"none", "removed"}
  /\ row' = "removed"
  /\ OnlyRow

\* useUpload's cancel, which stops nothing, and retry, which starts nothing.
cancel ==
  /\ kind = "react" /\ row \notin {"none", "removed"}
  /\ row' \in {"error", "queued"}
  /\ OnlyRow

\* startUpload, upload and uploads.create: the first request is sent.
startUpload ==
  /\ client.pc = "idle"
  /\ row = IF kind \in {"single", "multipart", "server"} THEN "queued" ELSE "none"
  /\ row' = "uploading"
  /\ client' = [client EXCEPT !.pc = "init"]
  /\ UNCHANGED <<kind, provider, handler, file, store, resumes, abortSent, abortAcked>>

(***************************************************************************)
(* The client's steps                                                      *)
(***************************************************************************)

Ended == [client EXCEPT !.pc = "end", !.req = NoSlot, !.attempt = 0]

\* A request reaches the backend: the handler reads the rows.
Sent(s, op, h) == [h EXCEPT ![s] = [pc |-> IF op = "confirm" THEN "commit" ELSE "provider",
                                   op |-> op, seen |-> file]]
Send(s, pc, op, h) ==
  /\ h[s].pc = "idle"
  /\ handler' = Sent(s, op, h)
  /\ client' = [client EXCEPT !.pc = pc, !.req = s]
  /\ abortSent' = (abortSent \/ op = "abort")

\* The catch block: uploadMultipart aborts its session, the others only report.
Fail(h) ==
  IF kind = "multipart" /\ client.pc # "abort"
  THEN /\ \E s \in Slot : Send(s, "abort", "abort", h)
       /\ UNCHANGED row
  ELSE /\ row' = Shown("error")
       /\ client' = Ended
       /\ handler' = h
       /\ UNCHANGED abortSent

\* init_upload and start, with the response received.
init_ok ==
  /\ client.pc = "init"
  /\ file' = "pending"
  /\ open' = isMultipart
  /\ client' = [client EXCEPT !.pc = "put", !.part = 1, !.attempt = 0]
  /\ UNCHANGED <<kind, provider, row, handler, parts, object, late, resumes, abortSent, abortAcked>>

\* The request fails, or its response is lost: without an upload id there is
\* nothing to abort.  The Node SDK tries again, which creates another row.
init_error ==
  /\ client.pc = "init"
  /\ file' \in {file, "pending"}
  /\ \/ /\ kind \in {"node", "session"} /\ client.attempt < MaxRetries
        /\ client' = [client EXCEPT !.attempt = @ + 1]
        /\ UNCHANGED row
     \/ /\ client' = Ended
        /\ row' = Shown("error")
  /\ UNCHANGED <<kind, provider, handler, store, resumes, abortSent, abortAcked>>

\* The store receives a part: S3 refuses one for a closed upload.
Land(k) ==
  IF isMultipart
  THEN /\ parts' = IF provider = "s3" /\ ~open THEN parts ELSE parts \cup {k}
       /\ UNCHANGED object
  ELSE object' = TRUE /\ UNCHANGED parts

FinishOp == IF isMultipart THEN "complete" ELSE "confirm"

\* After a PUT: the next part, or the request that finishes the upload.
NextPut ==
  IF client.part < PartCount
  THEN /\ client' = [client EXCEPT !.part = @ + 1]
       /\ UNCHANGED <<row, handler, abortSent>>
  ELSE /\ \E s \in Slot : Send(s, "finish", FinishOp, handler)
       /\ row' = IF kind \in {"single", "multipart"} THEN Shown("confirming") ELSE row

\* part_url and the PUT of a part, or the PUT of the whole file.
put_ok ==
  /\ client.pc = "put"
  /\ provider = "s3" /\ isMultipart => open
  /\ Land(client.part)
  /\ NextPut
  /\ UNCHANGED <<kind, provider, file, open, late, resumes, abortAcked>>

\* The PUT is refused and the client does not look: the Node SDK pushes an empty
\* ETag, or confirms.
put_refused ==
  /\ client.pc = "put"
  /\ kind \in {"node", "session"}
  /\ NextPut
  /\ UNCHANGED <<kind, provider, file, store, resumes, abortAcked>>

\* The PUT fails or its ETag is missing; the part may be stored, or still arrive.
put_error ==
  /\ client.pc = "put"
  /\ \/ UNCHANGED store
     \/ Land(client.part) /\ UNCHANGED <<open, late>>
     \/ late' = late \cup {client.part} /\ UNCHANGED <<parts, object, open>>
  /\ Fail(handler)
  /\ UNCHANGED <<kind, provider, file, resumes, abortAcked>>

\* A part arrives after all.
arrive_late ==
  /\ \E k \in late : late' = late \ {k} /\ Land(k)
  /\ UNCHANGED <<kind, provider, row, client, handler, file, open, resumes, abortSent, abortAcked>>

(***************************************************************************)
(* The backend's handlers and the object store                             *)
(***************************************************************************)

Answer(s, a) == handler' = [handler EXCEPT ![s] = IF client.req = s THEN [@ EXCEPT !.pc = a]
                                                 ELSE IdleHandler]

\* complete_multipart_upload: Azure also finds blocks that are committed already.
CanComplete ==
  \/ parts = 1..Parts /\ (provider = "s3" => open)
  \/ provider = "azure" /\ object

DoComplete == object' = TRUE /\ parts' = {} /\ open' = FALSE

\* Mutant: S3 answers an abort of an upload that is no longer open with success.
BugCanAbort == TRUE

\* abort_multipart_upload: S3 knows only open uploads.
CanAbort == provider = "s3" => open

\* On Azure abort deletes the blob, committed or not; blocks without a blob stay.
DoAbort ==
  /\ object' = (object /\ provider # "azure")
  /\ parts' = IF provider = "azure" /\ ~object THEN parts ELSE {}
  /\ open' = FALSE

StoreCall(op) == IF op = "complete" THEN CanComplete /\ DoComplete ELSE CanAbort /\ DoAbort

call_ok(s) ==
  /\ handler[s].pc = "provider"
  /\ StoreCall(handler[s].op)
  /\ handler' = [handler EXCEPT ![s].pc = "commit"]
  /\ UNCHANGED <<kind, provider, row, client, file, late, resumes, abortSent, abortAcked>>

\* Mutant: an error of the store is swallowed.
BugCallError(s) ==
  /\ handler[s].pc = "provider"
  /\ handler' = [handler EXCEPT ![s].pc = "commit"]
  /\ UNCHANGED <<kind, provider, row, client, file, store, resumes, abortSent, abortAcked>>

\* The store refuses, or fails after it did the work; nothing is committed.
call_error(s) ==
  /\ handler[s].pc = "provider"
  /\ StoreCall(handler[s].op) \/ UNCHANGED <<object, parts, open>>
  /\ Answer(s, "error")
  /\ UNCHANGED <<kind, provider, row, client, file, late, resumes, abortSent, abortAcked>>

Outcome(op) == IF op = "abort" THEN "failed" ELSE "confirmed"

\* The commit writes the status if it differs from the one read.
commit(s) ==
  /\ handler[s].pc = "commit"
  /\ file' = IF Outcome(handler[s].op) = handler[s].seen THEN file ELSE Outcome(handler[s].op)
  /\ Answer(s, "ok")
  /\ UNCHANGED <<kind, provider, row, client, store, resumes, abortSent, abortAcked>>

\* The commit fails, or the process crashes.
roll_back(s) ==
  /\ handler[s].pc \in {"provider", "commit"}
  /\ Answer(s, "error")
  /\ UNCHANGED <<kind, provider, row, client, file, store, resumes, abortSent, abortAcked>>

(***************************************************************************)
(* The client's responses                                                  *)
(***************************************************************************)

Released == [handler EXCEPT ![client.req] = IdleHandler]

\* Clients that read the file once more, or answer a browser, may fail even so.
respond_ok ==
  /\ client.req # NoSlot /\ handler[client.req].pc = "ok"
  /\ \E s \in {"done", "error"} :
       /\ client.pc = "abort" => s = "error"
       /\ kind \in {"single", "multipart"} /\ client.pc = "finish" => s = "done"
       /\ row' = Shown(s)
  /\ client' = Ended
  /\ handler' = Released
  /\ abortAcked' = (abortAcked \/ client.pc = "abort")
  /\ UNCHANGED <<kind, provider, file, store, resumes, abortSent>>

\* fetchWithRetry: another attempt after a 5xx or a network error.
Retries == kind \in {"node", "session"} /\ client.attempt < MaxRetries

\* Mutant: the attempts are not counted.
BugBackOff(h) ==
  /\ client' = [client EXCEPT !.pc = IF @ = "abort" THEN "abort_again" ELSE "again",
                              !.req = NoSlot]
  /\ handler' = h
  /\ UNCHANGED <<row, abortSent>>

BackOff(h) ==
  /\ client' = [client EXCEPT !.pc = IF @ = "abort" THEN "abort_again" ELSE "again",
                              !.attempt = @ + 1, !.req = NoSlot]
  /\ handler' = h
  /\ UNCHANGED <<row, abortSent>>

\* Mutant: the error of the last request is not looked at.
BugRespondError ==
  /\ client.req # NoSlot /\ handler[client.req].pc = "error"
  /\ row' = Shown("done") /\ client' = Ended /\ handler' = Released
  /\ UNCHANGED <<kind, provider, file, store, resumes, abortSent, abortAcked>>

respond_error ==
  /\ client.req # NoSlot /\ handler[client.req].pc = "error"
  /\ IF Retries THEN BackOff(Released) ELSE Fail(Released)
  /\ UNCHANGED <<kind, provider, file, store, resumes, abortAcked>>

\* The connection breaks or times out; the handler goes on by itself.  The Node
\* SDK does not retry after its own timeout.
Detached == IF handler[client.req].pc \in {"ok", "error"} THEN Released ELSE handler
lose_response ==
  /\ client.req # NoSlot
  /\ (Retries /\ BackOff(Detached)) \/ Fail(Detached)
  /\ UNCHANGED <<kind, provider, file, store, resumes, abortAcked>>

\* The back-off is over.
again ==
  /\ \E s \in Slot : \/ client.pc = "again" /\ Send(s, "finish", FinishOp, handler)
                     \/ client.pc = "abort_again" /\ Send(s, "abort", "abort", handler)
  /\ UNCHANGED <<kind, provider, row, file, store, resumes, abortAcked>>

\* uploads.resume: all parts again, then complete; uploads.abort.
resume ==
  /\ kind = "session" /\ client.pc = "end" /\ client.part > 0
  /\ resumes < MaxResumes
  /\ resumes' = resumes + 1
  /\ row' = "uploading"
  /\ \/ /\ client' = [client EXCEPT !.pc = "put", !.part = 1]
        /\ UNCHANGED <<handler, abortSent>>
     \/ \E s \in Slot : Send(s, "abort", "abort", handler)
  /\ UNCHANGED <<kind, provider, file, store, abortAcked>>

-----------------------------------------------------------------------------

Init ==
  /\ kind \in Kind /\ provider \in Provider
  /\ row = "none"
  /\ client = IdleClient
  /\ handler = [s \in Slot |-> IdleHandler]
  /\ file = "none"
  /\ parts = {} /\ object = FALSE /\ open = FALSE /\ late = {}
  /\ resumes = 0
  /\ abortSent = FALSE /\ abortAcked = FALSE

Client == init_ok \/ init_error \/ put_ok \/ put_refused \/ put_error \/ respond_ok
            \/ respond_error \/ lose_response \/ again
Backend(s) == call_ok(s) \/ call_error(s) \/ commit(s) \/ roll_back(s)

Next ==
  \/ addFiles \/ removeFile \/ cancel \/ startUpload \/ resume
  \/ Client \/ arrive_late
  \/ \E s \in Slot : Backend(s)

\* Requests are answered or time out, and handlers end.
Spec == Init /\ [][Next]_vars /\ WF_vars(Client) /\ \A s \in Slot : WF_vars(Backend(s))

-----------------------------------------------------------------------------
(***************************************************************************)
(* Properties                                                              *)
(***************************************************************************)

Status == {"none", "pending", "confirmed", "failed"}
ClientType == [pc : {"idle", "init", "put", "finish", "abort", "again", "abort_again", "end"},
               part : Nat, attempt : Nat, req : Slot \cup {NoSlot}]
HandlerType == [pc : {"idle", "provider", "commit", "ok", "error"},
                op : {"none", "confirm", "complete", "abort"}, seen : Status]

\* Every variable has its type.
TypeOK ==
  /\ kind \in Kind /\ provider \in Provider
  /\ row \in {"none", "queued", "uploading", "confirming", "done", "error", "removed"}
  /\ client \in ClientType
  /\ handler \in [Slot -> HandlerType]
  /\ file \in Status
  /\ parts \subseteq Nat /\ late \subseteq Nat
  /\ object \in BOOLEAN /\ open \in BOOLEAN
  /\ resumes \in Nat
  /\ abortSent \in BOOLEAN /\ abortAcked \in BOOLEAN

\* What a client shows as done is stored and confirmed, and stays so, although
\* handlers it gave up on may still be running.  Two exceptions the code leaves:
\* the Node SDK's single upload ignores the answer to its PUT, and on Azure and GCS
\* an abort that was given up on may still undo a later complete.
DoneIsStored ==
  row = "done" /\ kind # "node" /\ (provider = "s3" \/ ~abortSent) =>
    object /\ file = "confirmed"

\* A confirmed file has its object, whatever the client shows and however complete
\* and abort overlap: nothing in these flows deletes an object but abort on Azure.
ConfirmedHasObject ==
  file = "confirmed" /\ kind # "node" /\ (provider # "azure" \/ ~abortSent) => object

\* An abort that S3 and the backend acknowledged is final: the file is failed, and
\* no part that arrives late and no complete that was under way brings it back.
AbortIsFinal ==
  abortAcked /\ provider = "s3" => file = "failed" /\ ~object /\ parts = {}

\* An upload that has started ends, for whoever watches it.
UploadEnds ==
  row \in {"uploading", "confirming"} ~> row \in {"done", "error", "removed", "queued"}
=============================================================================
