------------------------- MODULE FileLifecycleProofs -------------------------
(***************************************************************************)
(* Proofs about FileLifecycle, for any number of files, requests, runs,    *)
(* configurations and faults.                                              *)
(***************************************************************************)
EXTENDS FileLifecycle, FiniteSetTheorems, TLAPS

\* What Append does to a sequence, in the form the provers need.
LEMMA AppendFacts ==
  ASSUME NEW S, NEW s \in Seq(S), NEW x \in S
  PROVE  /\ Append(s, x) \in Seq(S)
         /\ Len(Append(s, x)) = Len(s) + 1
         /\ DOMAIN s = 1..Len(s)
         /\ Len(s) \in Nat
         /\ DOMAIN Append(s, x) = 1..(Len(s) + 1)
         /\ DOMAIN s \subseteq DOMAIN Append(s, x)
         /\ Len(s) + 1 \in DOMAIN Append(s, x)
         /\ Len(s) + 1 \notin DOMAIN s
         /\ \A i \in DOMAIN s : Append(s, x)[i] = s[i]
         /\ Append(s, x)[Len(s) + 1] = x
  OBVIOUS

\* The values that handlers and runs are reset to have their types.
LEMMA IdleTypes ==
  /\ NoRow \in Row
  /\ NoConfig \in [scan : BOOLEAN, versioning : BOOLEAN]
  /\ IdleRequest \in RequestType
  /\ IdleRun \in RunType
  BY DEF NoRow, Row, Status, NoConfig, IdleRequest, RequestType, IdleRun, RunType

\* A commit keeps the files table well typed, whatever was read.
LEMMA FlushType ==
  ASSUME NEW f \in File, NEW old \in Row, NEW new \in Row,
         row \in [File -> Row], Flush(f, old, new)
  PROVE  row' \in [File -> Row]
  BY DEF Flush, Row

\* A new version row keeps the version table well typed.
LEMMA CreateVersionType ==
  ASSUME NEW f \in File, NEW n \in Nat, versions \in [File -> Seq(Nat)],
         CreateVersion(f, n)
  PROVE  versions' \in [File -> Seq(Nat)]
  BY DEF CreateVersion

\* What the handlers write: the row that was read with some columns replaced.
LEMMA RowWith ==
  ASSUME NEW old \in Row, NEW s \in Status, NEW n \in Nat
  PROVE  /\ old.count \in Nat /\ old.count + 1 \in Nat
         /\ [old EXCEPT !.status = s] \in Row
         /\ [old EXCEPT !.deleted = TRUE] \in Row
         /\ [old EXCEPT !.status = s, !.count = n] \in Row
  <1>1. old.count \in Nat /\ old.count + 1 \in Nat
    BY DEF Row
  <1>2. [old EXCEPT !.status = s] \in Row
    BY DEF Row
  <1>3. [old EXCEPT !.deleted = TRUE] \in Row
    BY DEF Row
  <1>4. [old EXCEPT !.status = s, !.count = n] \in Row
    BY DEF Row
  <1>5. QED
    BY <1>1, <1>2, <1>3, <1>4

\* A run that is not idle works on a file.
LEMMA RunFileType ==
  ASSUME TypeOK, NEW r \in Run, run[r].pc # "idle"
  PROVE  RunFile(r) \in File
  <1>1. run[r].msg \in DOMAIN stream
    BY DEF TypeOK
  <1>2. stream[run[r].msg] \in DOMAIN outbox
    BY <1>1 DEF TypeOK
  <1>3. outbox[stream[run[r].msg]] \in Event
    BY <1>2 DEF TypeOK
  <1>4. QED
    BY <1>3 DEF RunFile, Event

\* The result of the stages is a status, and it has an event.
LEMMA OutcomeType ==
  ASSUME NEW f, NEW cfg
  PROVE  /\ Outcome(f, cfg) \in {"ready", "failed", "quarantined"}
         /\ OutcomeEvent(Outcome(f, cfg)) \in Announcements[Outcome(f, cfg)]
         /\ OutcomeEvent(Outcome(f, cfg)) \in EventType
         /\ OutcomeEvent(Outcome(f, cfg)) # "uploaded"
  BY DEF Outcome, OutcomeEvent, EventType, Announcements

-----------------------------------------------------------------------------
\* An event appended to the outbox keeps the outbox, the stream and the
\* published rows well typed, and the earlier events where they are.
LEMMA PublishType ==
  ASSUME TypeOK, NEW f \in File, NEW t \in EventType, Publish(t, f)
  PROVE  /\ outbox' \in Seq(Event)
         /\ DOMAIN outbox \subseteq DOMAIN outbox'
         /\ \A e \in DOMAIN outbox : outbox'[e] = outbox[e]
         /\ \E e \in DOMAIN outbox' \ DOMAIN outbox :
              outbox'[e] = [type |-> t, file |-> f]
  <1>1. [type |-> t, file |-> f] \in Event
    BY DEF Event
  <1> DEFINE x == [type |-> t, file |-> f]
  <1>2. outbox \in Seq(Event) /\ outbox' = Append(outbox, x)
    BY DEF TypeOK, Publish
  <1> HIDE DEF x
  <1>3. /\ outbox' \in Seq(Event)
        /\ DOMAIN outbox \subseteq DOMAIN outbox'
        /\ \A e \in DOMAIN outbox : outbox'[e] = outbox[e]
        /\ Len(outbox) + 1 \in DOMAIN outbox'
        /\ Len(outbox) + 1 \notin DOMAIN outbox
        /\ outbox'[Len(outbox) + 1] = x
    BY <1>1, <1>2, AppendFacts DEF x
  <1>4. QED
    BY <1>3 DEF x

\* A commit that announces itself keeps the type invariant if what it writes is
\* well typed and nobody's message changes.
LEMMA CommitType ==
  ASSUME TypeOK, NEW f \in File, NEW t \in EventType, Publish(t, f),
         row' \in [File -> Row], versions' \in [File -> Seq(Nat)],
         req' \in [Request -> RequestType],
         \A q \in Request : req'[q].pc # "idle" /\ req'[q].op # "init" => req'[q].file \in File,
         run' \in [Run -> RunType],
         \A r \in Run : run'[r].pc # "idle" => run[r].pc # "idle" /\ run'[r].msg = run[r].msg,
         UNCHANGED <<config, published, stream, acked, started, faults>>
  PROVE  TypeOK'
  <1>1. /\ outbox' \in Seq(Event)
        /\ DOMAIN outbox \subseteq DOMAIN outbox'
        /\ \A e \in DOMAIN outbox : outbox'[e] = outbox[e]
    BY PublishType
  <1>2. published' \subseteq DOMAIN outbox'
    BY <1>1 DEF TypeOK
  <1>3. \A m \in DOMAIN stream' : stream'[m] \in DOMAIN outbox' /\ Uploaded(stream[m])'
    BY <1>1 DEF TypeOK, Uploaded
  <1>4. \A r \in Run : run'[r].pc # "idle" => run'[r].msg \in DOMAIN stream'
    BY DEF TypeOK
  <1>5. config' \in Config /\ started' \in Nat /\ faults' \in Nat
    BY DEF TypeOK
  <1>6. stream' \in Seq(Nat) /\ acked' \subseteq DOMAIN stream'
    BY DEF TypeOK
  <1>7. QED
    BY <1>1, <1>2, <1>3, <1>4, <1>5, <1>6 DEF TypeOK

\* The handler that has answered is idle again.
LEMMA RespondType ==
  ASSUME TypeOK, NEW q \in Request, Respond(q)
  PROVE  /\ req' \in [Request -> RequestType]
         /\ \A p \in Request : req'[p].pc # "idle" /\ req'[p].op # "init" => req'[p].file \in File
         /\ run' \in [Run -> RunType]
         /\ \A r \in Run : run'[r] = run[r]
         /\ UNCHANGED <<config, published, stream, acked, started, faults>>
  <1>1. req' = [req EXCEPT ![q] = IdleRequest] /\ IdleRequest.pc = "idle"
    BY DEF Respond, IdleRequest
  <1>2. \A p \in Request : req'[p] = IdleRequest \/ req'[p] = req[p]
    BY <1>1 DEF TypeOK
  <1>3. req' \in [Request -> RequestType]
    BY <1>1, IdleTypes DEF TypeOK
  <1>4. \A p \in Request : req'[p].pc # "idle" /\ req'[p].op # "init" => req'[p].file \in File
    BY <1>1, <1>2 DEF TypeOK
  <1>5. QED
    BY <1>3, <1>4 DEF Respond, TypeOK

\* A request's commit keeps the type invariant: the row is written by Flush or
\* by the insert, the event by Publish.
LEMMA RequestTypeStep ==
  ASSUME TypeOK, NEW q \in Request, RequestStep(q)
  PROVE  TypeOK'
  <1> USE IdleTypes, ConfigAssumption, BoundAssumption
  <1>1. CASE begin_init(q)
    BY <1>1 DEF begin_init, get_file_service, TypeOK, RequestType, Uploaded
  <1>2. CASE begin_file_op(q)
    BY <1>2 DEF begin_file_op, get_file_service, TypeOK, RequestType, Uploaded
  <1>3. CASE init_check(q)
    BY <1>3 DEF init_check, TypeOK, RequestType, IdleRequest, Uploaded
  <1>4. CASE read_file(q)
    BY <1>4 DEF read_file, TypeOK, RequestType, IdleRequest, Uploaded
  <1>5. CASE init_upload(q)
    <2>1. PICK f \in File : /\ row' = [row EXCEPT ![f] = [NoRow EXCEPT !.status = "pending"]]
                            /\ Publish("upload.initiated", f)
      BY <1>5 DEF init_upload
    <2>2. row' \in [File -> Row]
      BY <2>1 DEF TypeOK, Row, NoRow, Status
    <2>3. "upload.initiated" \in EventType /\ Respond(q) /\ versions' \in [File -> Seq(Nat)]
      BY <1>5 DEF init_upload, EventType, TypeOK
    <2>4. QED
      BY <2>1, <2>2, <2>3, RespondType, CommitType
  <1>6. CASE confirm_upload(q)
    <2> DEFINE f == req[q].file
               old == req[q].row
               s == IF req[q].cfg.scan THEN "processing" ELSE "ready"
               n == IF req[q].cfg.versioning THEN old.count + 1 ELSE old.count
               new == [old EXCEPT !.status = s, !.count = n]
    <2>0. f \in File /\ old \in Row /\ s \in Status
      BY <1>6 DEF confirm_upload, TypeOK, RequestType, Status
    <2>1. f \in File /\ old \in Row /\ new \in Row /\ old.count + 1 \in Nat
      <3>1. old.count \in Nat /\ old.count + 1 \in Nat
        BY <2>0 DEF Row
      <3>2. n \in Nat
        BY <3>1
      <3> HIDE DEF s, n
      <3>3. QED
        BY <2>0, <3>1, <3>2, RowWith
    <2>2. row' \in [File -> Row]
      BY <1>6, <2>1, FlushType DEF confirm_upload, TypeOK
    <2>3. versions' \in [File -> Seq(Nat)]
      <3>1. versions \in [File -> Seq(Nat)]
        BY DEF TypeOK
      <3>2. CreateVersion(f, old.count + 1) \/ UNCHANGED versions
        BY <1>6 DEF confirm_upload
      <3>3. QED
        BY <2>1, <3>1, <3>2, CreateVersionType
    <2>4. PICK t \in EventType : Publish(t, f)
      BY <1>6 DEF confirm_upload, EventType
    <2>5. Respond(q)
      BY <1>6 DEF confirm_upload
    <2> HIDE DEF f, old, s, n, new
    <2>6. QED
      BY <2>1, <2>2, <2>3, <2>4, <2>5, RespondType, CommitType
  <1>7. CASE restore_version(q)
    <2> DEFINE f == req[q].file
               old == req[q].row
               new == [old EXCEPT !.status = "ready", !.count = old.count + 1]
    <2>0. f \in File /\ old \in Row /\ "ready" \in Status
      BY <1>7 DEF restore_version, TypeOK, RequestType, Status
    <2>1. f \in File /\ old \in Row /\ new \in Row /\ old.count + 1 \in Nat
      BY <2>0, RowWith
    <2>2. row' \in [File -> Row]
      BY <1>7, <2>1, FlushType DEF restore_version, TypeOK
    <2>3. versions' \in [File -> Seq(Nat)]
      BY <1>7, <2>1, CreateVersionType DEF restore_version, TypeOK
    <2>4. PICK t \in EventType : Publish(t, f)
      BY <1>7 DEF restore_version, EventType
    <2>5. Respond(q)
      BY <1>7 DEF restore_version
    <2> HIDE DEF f, old, new
    <2>6. QED
      BY <2>1, <2>2, <2>3, <2>4, <2>5, RespondType, CommitType
  <1>8. CASE delete_file(q)
    <2> DEFINE f == req[q].file
               old == req[q].row
               new == [old EXCEPT !.deleted = TRUE]
    <2>1. f \in File /\ old \in Row /\ new \in Row
      BY <1>8 DEF delete_file, TypeOK, RequestType, Row
    <2>2. row' \in [File -> Row]
      BY <1>8, <2>1, FlushType DEF delete_file, TypeOK
    <2>3. PICK t \in EventType : Publish(t, f)
      BY <1>8 DEF delete_file, EventType
    <2>4. Respond(q) /\ versions' \in [File -> Seq(Nat)]
      BY <1>8 DEF delete_file, TypeOK
    <2> HIDE DEF f, old, new
    <2>5. QED
      BY <2>1, <2>2, <2>3, <2>4, RespondType, CommitType
  <1>9. CASE abandon_request(q)
    BY <1>9 DEF abandon_request, TypeOK, IdleRequest, Uploaded
  <1>10. QED
    BY <1>1, <1>2, <1>3, <1>4, <1>5, <1>6, <1>7, <1>8, <1>9 DEF RequestStep

\* A run that ends keeps its message.
LEMMA RunDone ==
  ASSUME TypeOK, NEW r \in Run, run[r].pc # "idle", run' = [run EXCEPT ![r].pc = "done"]
  PROVE  /\ run' \in [Run -> RunType]
         /\ \A x \in Run : run'[x].pc # "idle" => run[x].pc # "idle" /\ run'[x].msg = run[x].msg
  <1>1. run \in [Run -> RunType]
    BY DEF TypeOK
  <1>2. QED
    BY <1>1 DEF RunType

\* A step of a pipeline run keeps the type invariant.
LEMMA RunTypeStep ==
  ASSUME TypeOK, NEW r \in Run, RunStep(r) \/ lose_run(r)
  PROVE  TypeOK'
  <1> USE IdleTypes, ConfigAssumption, BoundAssumption
  <1>0. run[r].pc # "idle" => RunFile(r) \in File
    BY RunFileType
  <1>1. CASE execute_get(r)
    BY <1>1, <1>0 DEF execute_get, Local, TypeOK, RunType, Uploaded
  <1>2. CASE execute_config(r)
    BY <1>2 DEF execute_config, Local, TypeOK, RunType, Uploaded
  <1>3. CASE execute_commit(r)
    <2> DEFINE f == RunFile(r)
               old == run[r].row
               s == Outcome(f, run[r].cfg)
    <2>0. f \in File /\ old \in Row /\ s \in Status
      BY <1>3, <1>0, OutcomeType DEF execute_commit, TypeOK, RunType, Status
    <2>1. f \in File /\ old \in Row /\ [old EXCEPT !.status = s] \in Row
      BY <2>0 DEF Row
    <2>2. row' \in [File -> Row]
      BY <1>3, <2>1, FlushType DEF execute_commit, TypeOK
    <2>3. PICK t \in EventType : Publish(t, f)
      BY <1>3, OutcomeType DEF execute_commit
    <2>4. /\ run' \in [Run -> RunType]
          /\ \A x \in Run : run'[x].pc # "idle" => run[x].pc # "idle" /\ run'[x].msg = run[x].msg
      BY <1>3, RunDone DEF execute_commit
    <2>5. /\ UNCHANGED <<config, published, stream, acked, started, faults>>
          /\ versions' \in [File -> Seq(Nat)] /\ req' \in [Request -> RequestType]
          /\ \A p \in Request : req'[p].pc # "idle" /\ req'[p].op # "init" => req'[p].file \in File
      BY <1>3 DEF execute_commit, TypeOK
    <2> HIDE DEF f, old, s
    <2>6. QED
      BY <2>1, <2>2, <2>3, <2>4, <2>5, CommitType
  <1>4. CASE execute_raise(r)
    BY <1>4 DEF execute_raise, Local, TypeOK, RunType, IdleRun, Uploaded
  <1>5. CASE mark_failed_get(r)
    BY <1>5, <1>0 DEF mark_failed_get, Local, TypeOK, RunType, Uploaded
  <1>6. CASE mark_failed(r)
    <2> DEFINE f == RunFile(r)
               old == run[r].row
    <2>1. f \in File /\ old \in Row /\ [old EXCEPT !.status = "failed"] \in Row
      BY <1>6, <1>0 DEF mark_failed, TypeOK, RunType, Row, Status
    <2>2. row' \in [File -> Row]
      BY <1>6, <2>1, FlushType DEF mark_failed, TypeOK
    <2>3. PICK t \in EventType : Publish(t, f)
      BY <1>6 DEF mark_failed, EventType
    <2>4. /\ run' \in [Run -> RunType]
          /\ \A x \in Run : run'[x].pc # "idle" => run[x].pc # "idle" /\ run'[x].msg = run[x].msg
      BY <1>6, RunDone DEF mark_failed
    <2>5. /\ UNCHANGED <<config, published, stream, acked, started, faults>>
          /\ versions' \in [File -> Seq(Nat)] /\ req' \in [Request -> RequestType]
          /\ \A p \in Request : req'[p].pc # "idle" /\ req'[p].op # "init" => req'[p].file \in File
      BY <1>6 DEF mark_failed, TypeOK
    <2> HIDE DEF f, old
    <2>6. QED
      BY <2>1, <2>2, <2>3, <2>4, <2>5, CommitType
  <1>7. CASE mark_failed_error(r)
    BY <1>7 DEF mark_failed_error, Local, TypeOK, RunType, Uploaded
  <1>8. CASE ack(r)
    BY <1>8 DEF ack, TypeOK, IdleRun, Uploaded
  <1>9. CASE lose_run(r)
    BY <1>9 DEF lose_run, TypeOK, IdleRun, Uploaded
  <1>10. QED
    BY <1>1, <1>2, <1>3, <1>4, <1>5, <1>6, <1>7, <1>8, <1>9 DEF RunStep

\* The outbox relay and the deliveries keep the type invariant.
LEMMA DeliveryType ==
  ASSUME TypeOK, Relay \/ RelayLost \/ Deliver \/ Redeliver
  PROVE  TypeOK'
  <1> USE IdleTypes, ConfigAssumption, BoundAssumption
  <1>1. ASSUME NEW e \in DOMAIN outbox, NEW b \in BOOLEAN, poll_and_publish(e, b)
        PROVE  TypeOK'
    <2>1. e \in Nat /\ Uploaded(e)
      BY <1>1 DEF TypeOK, poll_and_publish
    <2>2. /\ stream' \in Seq(Nat)
          /\ DOMAIN stream \subseteq DOMAIN stream'
          /\ \A m \in DOMAIN stream' : m \in DOMAIN stream \/ stream'[m] = e
          /\ \A m \in DOMAIN stream : stream'[m] = stream[m]
      BY <1>1, <2>1, AppendFacts DEF TypeOK, poll_and_publish
    <2>3. QED
      BY <1>1, <2>1, <2>2 DEF poll_and_publish, TypeOK, Uploaded
  <1>2. ASSUME NEW r \in Run, NEW m \in DOMAIN stream, StartRun(r, m),
               UNCHANGED faults \/ faults' = faults + 1
        PROVE  TypeOK'
    <2>1. m \in Nat
      BY DEF TypeOK
    <2>2. run' \in [Run -> RunType]
      BY <1>2, <2>1 DEF StartRun, TypeOK, RunType, IdleRun
    <2>3. QED
      BY <1>2, <2>1, <2>2 DEF StartRun, TypeOK, IdleRun, Uploaded
  <1>3. QED
    BY <1>1, <1>2 DEF Relay, RelayLost, Deliver, Redeliver, deliver, redeliver

\* Every step keeps the type invariant.
LEMMA TypeStep == TypeOK /\ [Next]_vars => TypeOK'
  <1> SUFFICES ASSUME TypeOK, [Next]_vars
               PROVE  TypeOK'
    OBVIOUS
  <1>1. CASE update_processing_config
    BY <1>1 DEF update_processing_config, TypeOK, Uploaded
  <1>2. CASE UNCHANGED vars
    BY <1>2 DEF vars, TypeOK, Uploaded
  <1>3. QED
    BY <1>1, <1>2, RequestTypeStep, RunTypeStep, DeliveryType DEF Next

\* The type invariant holds initially.
LEMMA TypeInit == Init => TypeOK
  BY IdleTypes, ConfigAssumption DEF Init, TypeOK, IdleRequest, IdleRun, Uploaded

\* Type correctness of the specification: rows, events, handlers and runs keep
\* their shapes, handlers name files, runs hold stored file.uploaded messages.
THEOREM TypeCorrect == Spec => []TypeOK
  BY TypeInit, TypeStep, PTL DEF Spec

-----------------------------------------------------------------------------
(***************************************************************************)
(* No lost work.  NoLostWork is not inductive: the pending event it speaks *)
(* of could be one whose run has already decided not to touch the file.    *)
(* Such a run is `Spent`; the inductive invariant asks for a pending event *)
(* that no spent run holds.                                                *)
(***************************************************************************)

\* The run will not change its file's status any more.
Spent(r) == \/ run[r].pc = "done"
            \/ run[r].pc = "marking" /\ run[r].row.status = "failed"

FreshWork(f, e) ==
  /\ e \in DOMAIN outbox
  /\ outbox[e] = [type |-> "uploaded", file |-> f]
  /\ Pending(e)
  /\ \A r \in Run : Spent(r) => stream[run[r].msg] # e

\* The file waits for the pipeline.
Waiting(f) == row[f].status = "processing" /\ ~row[f].deleted

WorkInv ==
  /\ \A f \in File : Waiting(f) => \E e \in DOMAIN outbox : FreshWork(f, e)
  /\ \A r \in Run : run[r].pc \in {"loaded", "stages"} =>
                      run[r].row.status = "processing"

\* Fresh work stays fresh when the stream is unchanged, the outbox only grows
\* and no run of that event becomes spent.
LEMMA FreshKept ==
  ASSUME NEW f, NEW e, FreshWork(f, e),
         DOMAIN outbox \subseteq DOMAIN outbox',
         \A x \in DOMAIN outbox : outbox'[x] = outbox[x],
         UNCHANGED <<published, stream, acked>>,
         \A r \in Run : Spent(r)' => \/ Spent(r) /\ run'[r].msg = run[r].msg
                                     \/ stream[run'[r].msg] # e
  PROVE  FreshWork(f, e)'
  BY DEF FreshWork, Pending

\* A commit makes a file wait only if it writes "processing", and never by
\* clearing deleted_at.
LEMMA FlushWaiting ==
  ASSUME TypeOK, NEW f \in File, NEW old \in Row, NEW new \in Row,
         Flush(f, old, new), new.deleted = old.deleted \/ new.deleted = TRUE,
         NEW g \in File, Waiting(g)'
  PROVE  Waiting(g) \/ (g = f /\ new.status = "processing")
  BY DEF TypeOK, Flush, Waiting, Row

\* Every step of a request keeps the invariant: only confirm_upload makes a
\* file wait, and it enqueues the event in the same transaction.
LEMMA RequestWork ==
  ASSUME TypeOK, WorkInv, NEW q \in Request, RequestStep(q)
  PROVE  WorkInv'
  <1> USE DEF WorkInv
  <1>1. UNCHANGED <<published, stream, acked, run>>
    BY DEF RequestStep, begin_init, begin_file_op, get_file_service, init_check,
           read_file, init_upload, confirm_upload, restore_version, delete_file,
           abandon_request, Respond
  <1>2. \A r \in Run : Spent(r)' <=> Spent(r)
    BY <1>1 DEF Spent
  <1>3. ASSUME UNCHANGED <<row, outbox>>
        PROVE  WorkInv'
    BY <1>1, <1>2, <1>3, FreshKept DEF Waiting
  <1>4. ASSUME NEW f \in File, NEW t \in EventType, Publish(t, f),
               \A g \in File : Waiting(g)' => Waiting(g) \/ (g = f /\ t = "uploaded")
        PROVE  WorkInv'
    <2>1. /\ DOMAIN outbox \subseteq DOMAIN outbox'
          /\ \A x \in DOMAIN outbox : outbox'[x] = outbox[x]
          /\ \E e \in DOMAIN outbox' \ DOMAIN outbox :
                outbox'[e] = [type |-> t, file |-> f]
      BY <1>4, PublishType
    <2>2. ASSUME NEW g \in File, Waiting(g)
          PROVE  \E e \in DOMAIN outbox' : FreshWork(g, e)'
      <3>1. PICK e \in DOMAIN outbox : FreshWork(g, e)
        BY <2>2
      <3>2. FreshWork(g, e)'
        BY <1>1, <1>2, <2>1, <3>1, FreshKept
      <3>3. QED
        BY <2>1, <3>2
    <2>3. ASSUME t = "uploaded"
          PROVE  \E e \in DOMAIN outbox' : FreshWork(f, e)'
      <3>1. PICK e \in DOMAIN outbox' \ DOMAIN outbox :
                   outbox'[e] = [type |-> t, file |-> f]
        BY <2>1
      <3>2. e \notin published'
        BY <1>1 DEF TypeOK
      <3>3. \A r \in Run : Spent(r)' => stream'[run'[r].msg] # e
        BY <1>1, <1>2 DEF TypeOK, Spent
      <3>4. QED
        BY <2>3, <3>1, <3>2, <3>3 DEF FreshWork, Pending
    <2>4. QED
      BY <1>1, <1>4, <2>2, <2>3
  <1>5. CASE init_upload(q)
    <2>1. PICK f \in File : /\ row' = [row EXCEPT ![f] = [NoRow EXCEPT !.status = "pending"]]
                            /\ Publish("upload.initiated", f)
      BY <1>5 DEF init_upload
    <2>2. \A g \in File : Waiting(g)' => Waiting(g)
      BY <2>1 DEF Waiting, TypeOK, NoRow
    <2>3. QED
      BY <1>4, <2>1, <2>2 DEF EventType
  <1>6. CASE confirm_upload(q)
    <2> DEFINE f == req[q].file
               old == req[q].row
               s == IF req[q].cfg.scan THEN "processing" ELSE "ready"
               n == IF req[q].cfg.versioning THEN old.count + 1 ELSE old.count
               t == IF req[q].cfg.scan THEN "uploaded" ELSE "ready"
    <2>1. f \in File /\ old \in Row /\ s \in Status /\ t \in EventType
      BY <1>6 DEF confirm_upload, TypeOK, RequestType, Status, EventType
    <2>2. Flush(f, old, [old EXCEPT !.status = s, !.count = n]) /\ Publish(t, f)
      BY <1>6 DEF confirm_upload
    <2>3. n \in Nat
      BY <2>1 DEF Row
    <2>4. s = "processing" => t = "uploaded"
      OBVIOUS
    <2> HIDE DEF f, old, s, n, t
    <2>5. /\ [old EXCEPT !.status = s, !.count = n] \in Row
          /\ [old EXCEPT !.status = s, !.count = n].deleted = old.deleted
          /\ [old EXCEPT !.status = s, !.count = n].status = s
      BY <2>1, <2>3 DEF Row
    <2>6. \A g \in File : Waiting(g)' => Waiting(g) \/ (g = f /\ t = "uploaded")
      BY <2>1, <2>2, <2>4, <2>5, FlushWaiting
    <2>7. QED
      BY <1>4, <2>1, <2>2, <2>6
  <1>7. CASE restore_version(q)
    <2> DEFINE f == req[q].file
               old == req[q].row
               new == [old EXCEPT !.status = "ready", !.count = old.count + 1]
    <2>1. f \in File /\ old \in Row /\ "ready" \in Status /\ "restored" \in EventType
      BY <1>7 DEF restore_version, TypeOK, RequestType, Status, EventType
    <2>2. Flush(f, old, new) /\ Publish("restored", f)
      BY <1>7 DEF restore_version
    <2>3. new \in Row /\ new.deleted = old.deleted /\ new.status = "ready"
      <3>1. old.count + 1 \in Nat
        BY <2>1, RowWith
      <3>2. new \in Row
        BY <2>1, <3>1, RowWith
      <3>3. QED
        BY <2>1, <3>2 DEF Row
    <2>4. \A g \in File : Waiting(g)' => Waiting(g)
      BY <2>1, <2>2, <2>3, FlushWaiting
    <2>5. QED
      BY <1>4, <2>1, <2>2, <2>4
  <1>8. CASE delete_file(q)
    <2> DEFINE f == req[q].file
               old == req[q].row
               new == [old EXCEPT !.deleted = TRUE]
    <2>1. f \in File /\ old \in Row /\ "deleted" \in EventType
      BY <1>8 DEF delete_file, TypeOK, RequestType, EventType
    <2>2. Flush(f, old, new) /\ Publish("deleted", f)
      BY <1>8 DEF delete_file
    <2>3. new \in Row /\ new.deleted = TRUE /\ new.status = old.status
      BY <2>1 DEF Row
    <2>4. \A g \in File : Waiting(g)' => Waiting(g)
      BY <2>1, <2>2, <2>3 DEF TypeOK, Flush, Waiting, Row
    <2>5. QED
      BY <1>4, <2>1, <2>2, <2>4
  <1>9. QED
    BY <1>3, <1>5, <1>6, <1>7, <1>8
       DEF RequestStep, begin_init, begin_file_op, get_file_service, init_check,
           read_file, abandon_request

\* Publishing a row, marked or not, keeps it pending: the mark is only set once
\* the stream has a copy that nobody has acked.
LEMMA RelayWork ==
  ASSUME TypeOK, WorkInv, NEW d \in DOMAIN outbox, NEW b \in BOOLEAN,
         poll_and_publish(d, b)
  PROVE  WorkInv'
  <1> DEFINE k == Len(stream) + 1
  <1>1. /\ UNCHANGED <<row, outbox, acked, run>>
        /\ published' = published \/ published' = published \cup {d}
        /\ stream' = Append(stream, d)
    BY DEF poll_and_publish
  <1>2. /\ DOMAIN stream \subseteq DOMAIN stream'
        /\ k \in DOMAIN stream' /\ k \notin DOMAIN stream
        /\ stream'[k] = d
        /\ \A m \in DOMAIN stream : stream'[m] = stream[m]
    BY <1>1, AppendFacts DEF TypeOK
  <1>3. \A e : Pending(e) => Pending(e)'
    BY <1>1, <1>2 DEF Pending, TypeOK
  <1>4. \A r \in Run : Spent(r)' => Spent(r) /\ stream'[run'[r].msg] = stream[run[r].msg]
    BY <1>1, <1>2 DEF Spent, TypeOK
  <1>5. \A f, e : FreshWork(f, e) => FreshWork(f, e)'
    BY <1>1, <1>3, <1>4 DEF FreshWork
  <1>6. QED
    BY <1>1, <1>5 DEF WorkInv, Waiting

\* A delivery starts a run, which is not spent.
LEMMA DeliveryWork ==
  ASSUME TypeOK, WorkInv, NEW r \in Run, NEW m \in DOMAIN stream, StartRun(r, m)
  PROVE  WorkInv'
  <1>1. UNCHANGED <<row, outbox, published, stream, acked>>
    BY DEF StartRun
  <1>2. run' = [run EXCEPT ![r] = [IdleRun EXCEPT !.pc = "start", !.msg = m]]
    BY DEF StartRun
  <1>3. \A x \in Run : Spent(x)' => Spent(x) /\ run'[x].msg = run[x].msg
    BY <1>2 DEF Spent, TypeOK, IdleRun
  <1>4. \A x \in Run : run'[x].pc \in {"loaded", "stages"} =>
                         run'[x].row.status = "processing"
    BY <1>2 DEF WorkInv, TypeOK, IdleRun
  <1>5. QED
    BY <1>1, <1>3, <1>4, FreshKept DEF WorkInv, Waiting

\* A step of a run that writes no row.  It keeps the invariant when the run
\* becomes spent only if its file does not wait.
LEMMA LocalWork ==
  ASSUME TypeOK, WorkInv, NEW r \in Run, NEW x \in RunType,
         run' = [run EXCEPT ![r] = x],
         run[r].pc # "idle",
         UNCHANGED <<row, outbox, published, stream, acked>>,
         x.pc \in {"loaded", "stages"} => x.row.status = "processing",
         \/ x.pc \notin {"done", "marking"}
         \/ x.msg = run[r].msg /\ Spent(r)
         \/ x.msg = run[r].msg /\ x.pc = "marking" /\ x.row.status # "failed"
         \/ x.msg = run[r].msg /\ ~Waiting(RunFile(r))
  PROVE  WorkInv'
  <1>1. \A z \in Run : run'[z].pc \in {"loaded", "stages"} =>
                         run'[z].row.status = "processing"
    BY DEF WorkInv, TypeOK
  <1>2. ASSUME NEW f \in File, Waiting(f), NEW e \in DOMAIN outbox, FreshWork(f, e)
        PROVE  FreshWork(f, e)'
    <2>1. outbox[e].file = f
      BY <1>2 DEF FreshWork
    <2>2. ~Waiting(RunFile(r)) => stream[run[r].msg] # e
      BY <1>2, <2>1 DEF RunFile
    <2>3. Spent(r)' => x.pc = "done" \/ (x.pc = "marking" /\ x.row.status = "failed")
      BY DEF Spent, TypeOK
    <2>4. Spent(r)' => \/ Spent(r) /\ run'[r].msg = run[r].msg
                       \/ stream[run'[r].msg] # e
      BY <2>2, <2>3 DEF TypeOK
    <2>5. \A z \in Run \ {r} : Spent(z)' => Spent(z) /\ run'[z].msg = run[z].msg
      BY DEF Spent, TypeOK
    <2>6. QED
      BY <1>2, <2>4, <2>5, FreshKept
  <1>3. QED
    BY <1>1, <1>2 DEF WorkInv, Waiting

\* The commit of a run: its file leaves "processing", or the run was spent.
LEMMA CommitWork ==
  ASSUME TypeOK, WorkInv, NEW r \in Run, NEW f \in File, f = RunFile(r),
         NEW t \in EventType, Publish(t, f),
         run[r].pc # "idle",
         run' = [run EXCEPT ![r].pc = "done"],
         UNCHANGED <<published, stream, acked>>,
         \A g \in File : Waiting(g)' => Waiting(g),
         ~Waiting(f)' \/ Spent(r)
  PROVE  WorkInv'
  <1>1. /\ DOMAIN outbox \subseteq DOMAIN outbox'
        /\ \A e \in DOMAIN outbox : outbox'[e] = outbox[e]
    BY PublishType
  <1>2. \A z \in Run : run'[z].pc \in {"loaded", "stages"} =>
                         run'[z].row.status = "processing"
    BY DEF WorkInv, TypeOK, RunType
  <1>3. ASSUME NEW g \in File, Waiting(g)', NEW e \in DOMAIN outbox, FreshWork(g, e)
        PROVE  FreshWork(g, e)'
    <2>1. outbox[e].file = g
      BY <1>3 DEF FreshWork
    <2>2. run'[r].msg = run[r].msg
      BY DEF TypeOK, RunType
    <2>3. Spent(r) \/ stream[run[r].msg] # e
      BY <1>3, <2>1 DEF RunFile
    <2>4. \A z \in Run \ {r} : Spent(z)' => Spent(z) /\ run'[z].msg = run[z].msg
      BY DEF Spent, TypeOK, RunType
    <2>5. QED
      BY <1>1, <1>3, <2>2, <2>3, <2>4, FreshKept
  <1>4. QED
    BY <1>1, <1>2, <1>3 DEF WorkInv

\* Every step of a run keeps the invariant, when _mark_failed cannot fail.
LEMMA RunWork ==
  ASSUME ~Unreliable, TypeOK, WorkInv, NEW r \in Run, RunStep(r) \/ lose_run(r)
  PROVE  WorkInv'
  <1>0. run[r] \in RunType /\ run \in [Run -> RunType]
    BY DEF TypeOK
  <1>1. CASE execute_get(r)
    <2> DEFINE f == RunFile(r)
               x == IF ~Found(f) THEN [run[r] EXCEPT !.pc = "failing"]
                    ELSE IF row[f].status # "processing" THEN [run[r] EXCEPT !.pc = "done"]
                    ELSE [run[r] EXCEPT !.pc = "loaded", !.row = row[f]]
    <2>1. run' = [run EXCEPT ![r] = x] /\ run[r].pc = "start" /\ Local
      BY <1>1 DEF execute_get
    <2>2. f \in File
      BY <2>1, RunFileType
    <2>3. row[f] \in Row
      BY <2>2 DEF TypeOK
    <2>4. /\ x \in RunType
          /\ x.msg = run[r].msg
          /\ x.pc \in {"failing", "done", "loaded"}
          /\ x.pc = "done" => row[f].status # "processing"
          /\ x.pc = "loaded" => x.row.status = "processing"
      BY <1>0, <2>3 DEF RunType
    <2> HIDE DEF x
    <2>5. QED
      BY <2>1, <2>4, LocalWork DEF Local, Waiting
  <1>2. CASE execute_config(r)
    <2> DEFINE x == [run[r] EXCEPT !.pc = "stages", !.cfg = config]
    <2>1. run' = [run EXCEPT ![r] = x] /\ run[r].pc = "loaded" /\ Local
      BY <1>0, <1>2 DEF execute_config
    <2>2. x \in RunType /\ x.pc = "stages" /\ x.row = run[r].row
      BY <1>0 DEF RunType, TypeOK
    <2> HIDE DEF x
    <2>3. run[r].row.status = "processing"
      BY <2>1 DEF WorkInv
    <2>4. QED
      BY <2>1, <2>2, <2>3, LocalWork DEF Local
  <1>3. CASE execute_commit(r)
    <2> run[r].pc = "stages"
      BY <1>3 DEF execute_commit
    <2>1. PICK f \in File : f = RunFile(r)
      BY RunFileType
    <2>2. PICK s \in Status : s = Outcome(f, run[r].cfg) /\ s # "processing"
      BY DEF Outcome, Status
    <2>3. PICK old \in Row : old = run[r].row /\ old.status = "processing"
      BY <1>0 DEF RunType, WorkInv
    <2>4. PICK t \in EventType : t = OutcomeEvent(s)
      BY <2>2, OutcomeType
    <2> DEFINE new == [old EXCEPT !.status = s]
    <2>5. /\ Flush(f, old, new) /\ Publish(t, f)
          /\ run' = [run EXCEPT ![r].pc = "done"]
          /\ UNCHANGED <<published, stream, acked>>
      BY <1>3, <2>1, <2>2, <2>3, <2>4 DEF execute_commit
    <2>6. new \in Row /\ new.deleted = old.deleted /\ new.status = s
      BY <2>3 DEF Row
    <2> HIDE DEF new
    <2>7. \A g \in File : Waiting(g)' => Waiting(g)
      BY <2>2, <2>5, <2>6, FlushWaiting
    <2>8. row'[f].status = s
      BY <2>2, <2>3, <2>5, <2>6 DEF Flush, TypeOK
    <2>9. ~Waiting(f)'
      BY <2>2, <2>8 DEF Waiting
    <2>10. QED
      BY <2>1, <2>5, <2>7, <2>9, CommitWork
  <1>4. CASE execute_raise(r)
    <2> DEFINE x == [IdleRun EXCEPT !.pc = "failing", !.msg = run[r].msg]
    <2>1. run' = [run EXCEPT ![r] = x] /\ run[r].pc # "idle" /\ Local
      BY <1>4 DEF execute_raise
    <2>2. x \in RunType /\ x.pc = "failing"
      BY <1>0, IdleTypes DEF RunType, IdleRun
    <2> HIDE DEF x
    <2>3. QED
      BY <2>1, <2>2, LocalWork DEF Local
  <1>5. CASE mark_failed_get(r)
    <2> DEFINE f == RunFile(r)
               x == IF Found(f) THEN [run[r] EXCEPT !.pc = "marking", !.row = row[f]]
                                ELSE [run[r] EXCEPT !.pc = "done"]
    <2>1. run' = [run EXCEPT ![r] = x] /\ run[r].pc = "failing" /\ Local
      BY <1>5 DEF mark_failed_get
    <2>2. f \in File
      BY <2>1, RunFileType
    <2>3. row[f] \in Row
      BY <2>2 DEF TypeOK
    <2>4. /\ x \in RunType
          /\ x.msg = run[r].msg
          /\ \/ x.pc = "marking" /\ x.row = row[f]
             \/ x.pc = "done" /\ ~Waiting(f)
      BY <1>0, <2>3 DEF RunType, Found, Waiting
    <2> HIDE DEF x
    <2>5. QED
      BY <2>1, <2>4, LocalWork DEF Local, Waiting
  <1>6. CASE mark_failed(r)
    <2> run[r].pc = "marking"
      BY <1>6 DEF mark_failed
    <2>1. PICK f \in File : f = RunFile(r)
      BY RunFileType
    <2>2. PICK old \in Row : old = run[r].row
      BY <1>0 DEF RunType
    <2> DEFINE new == [old EXCEPT !.status = "failed"]
    <2>3. /\ Flush(f, old, new) /\ Publish("processing_failed", f)
          /\ run' = [run EXCEPT ![r].pc = "done"]
          /\ UNCHANGED <<published, stream, acked>>
      BY <1>6, <2>1, <2>2 DEF mark_failed
    <2>4. new \in Row /\ new.deleted = old.deleted /\ new.status = "failed"
      BY DEF Row, Status
    <2> HIDE DEF new
    <2>5. \A g \in File : Waiting(g)' => Waiting(g)
      BY <2>3, <2>4, FlushWaiting
    <2>6. old.status # "failed" => row'[f].status = "failed"
      BY <2>3, <2>4 DEF Flush, TypeOK
    <2>7. ~Waiting(f)' \/ Spent(r)
      BY <2>2, <2>6 DEF Waiting, Spent
    <2>8. "processing_failed" \in EventType
      BY DEF EventType
    <2>9. QED
      BY <2>1, <2>3, <2>5, <2>7, <2>8, CommitWork
  <1>7. CASE ack(r)
    <2>1. /\ run[r].pc = "done" /\ Spent(r)
          /\ acked' = acked \cup {run[r].msg}
          /\ run' = [run EXCEPT ![r] = IdleRun]
          /\ UNCHANGED <<row, outbox, published, stream>>
      BY <1>7 DEF ack, Spent
    <2>2. \A z \in Run : /\ Spent(z)' => Spent(z) /\ run'[z].msg = run[z].msg
                         /\ run'[z].pc \in {"loaded", "stages"} =>
                              run'[z].row.status = "processing"
      BY <1>0, <2>1 DEF Spent, IdleRun, WorkInv
    <2>3. \A f, e : FreshWork(f, e) => Pending(e)'
      BY <2>1 DEF FreshWork, Pending
    <2>4. \A f, e : FreshWork(f, e) => FreshWork(f, e)'
      BY <2>1, <2>2, <2>3 DEF FreshWork
    <2>5. QED
      BY <2>1, <2>2, <2>4 DEF WorkInv, Waiting
  <1>8. CASE lose_run(r)
    <2>1. IdleRun \in RunType /\ IdleRun.pc = "idle"
      BY IdleTypes DEF IdleRun
    <2>2. QED
      BY <1>8, <2>1, LocalWork DEF lose_run
  <1>9. QED
    BY <1>1, <1>2, <1>3, <1>4, <1>5, <1>6, <1>7, <1>8 DEF RunStep, mark_failed_error

\* The invariant is inductive, relative to the type invariant.
LEMMA WorkStep ==
  ASSUME ~Unreliable, TypeOK, WorkInv, [Next]_vars
  PROVE  WorkInv'
  <1>1. CASE update_processing_config \/ UNCHANGED vars
    <2>1. UNCHANGED <<row, outbox, published, stream, acked, run>>
      BY <1>1 DEF update_processing_config, vars
    <2>2. QED
      BY <2>1 DEF WorkInv, FreshWork, Waiting, Pending, Spent
  <1>2. CASE Relay \/ RelayLost
    BY <1>2, RelayWork DEF Relay, RelayLost
  <1>3. CASE Deliver \/ Redeliver
    BY <1>3, DeliveryWork DEF Deliver, Redeliver, deliver, redeliver
  <1>4. QED
    BY <1>1, <1>2, <1>3, RequestWork, RunWork DEF Next

\* No file waits before the first request.
LEMMA WorkInit == Init => WorkInv
  BY DEF Init, WorkInv, Waiting, NoRow, IdleRun

\* No accepted upload is forgotten: if the transaction of _mark_failed cannot
\* fail, then for any number of files, requests, pipeline runs, crashes and
\* duplicate deliveries a file in "processing" has a file.uploaded event that is
\* unpublished or unacked.
THEOREM WorkNeverLost == ~Unreliable => (Spec => []NoLostWork)
  <1> SUFFICES ASSUME ~Unreliable PROVE Spec => []NoLostWork
    OBVIOUS
  <1>1. TypeOK /\ WorkInv /\ [Next]_vars => WorkInv'
    BY WorkStep
  <1>2. WorkInv => NoLostWork
    BY DEF WorkInv, NoLostWork, FreshWork, Waiting
  <1>3. QED
    BY <1>1, <1>2, TypeCorrect, WorkInit, PTL DEF Spec

-----------------------------------------------------------------------------
(***************************************************************************)
(* What commits do to the history of a file: deletions are final and the   *)
(* version numbers have no gaps, although every commit is computed from a  *)
(* row that may be stale.                                                  *)
(***************************************************************************)

\* Handler q has read its file and will commit.
Reading(q) == req[q].pc = "read" /\ req[q].op # "init"

\* init_upload's insert of file f.
Insert(f) ==
  /\ row[f].status = "none"
  /\ row' = [row EXCEPT ![f] = [NoRow EXCEPT !.status = "pending"]]
  /\ UNCHANGED versions

\* An UPDATE of file f that was read as `old`: deleted_at is only ever set, the
\* status is never cleared.
Update(f, old, new) ==
  /\ Flush(f, old, new)
  /\ new.deleted = old.deleted \/ new.deleted = TRUE
  /\ new.status = old.status \/ new.status # "none"

\* An UPDATE that counts a version, with the version's row, by handler q.
NewVersion(q, f, old, new) ==
  /\ Reading(q) /\ f = req[q].file /\ old = req[q].row
  /\ Update(f, old, new)
  /\ new.count = old.count + 1
  /\ CreateVersion(f, old.count + 1)

\* An UPDATE without a version row.
PlainUpdate(f, old, new) ==
  /\ Update(f, old, new)
  /\ new.count = old.count
  /\ UNCHANGED versions

\* A commit that announces itself with an event about f.
CommitOf(f) ==
  /\ \E t \in EventType : Publish(t, f)
  /\ \/ Insert(f)
     \/ \E q \in Request, old, new \in Row : NewVersion(q, f, old, new)
     \/ \E old, new \in Row : PlainUpdate(f, old, new)

\* The commits of requests are insertions, updates of a file that the handler
\* has read, with or without a version row.
LEMMA RequestCommit ==
  ASSUME TypeOK, NEW q \in Request, RequestStep(q)
  PROVE  \/ UNCHANGED <<row, versions, outbox>>
         \/ \E f \in File : CommitOf(f) /\ (Insert(f) \/ (Reading(q) /\ f = req[q].file))
  <1>1. CASE init_upload(q)
    <2>1. PICK f \in File : /\ row[f].status = "none"
                            /\ row' = [row EXCEPT ![f] = [NoRow EXCEPT !.status = "pending"]]
                            /\ Publish("upload.initiated", f)
      BY <1>1 DEF init_upload
    <2>2. Insert(f)
      BY <1>1, <2>1 DEF init_upload, Insert
    <2>3. QED
      BY <2>1, <2>2 DEF CommitOf, EventType
  <1>2. CASE confirm_upload(q)
    <2> DEFINE f == req[q].file
               old == req[q].row
               s == IF req[q].cfg.scan THEN "processing" ELSE "ready"
               n == IF req[q].cfg.versioning THEN old.count + 1 ELSE old.count
               t == IF req[q].cfg.scan THEN "uploaded" ELSE "ready"
               new == [old EXCEPT !.status = s, !.count = n]
    <2>1. f \in File /\ old \in Row /\ s \in Status \ {"none"} /\ t \in EventType
      BY <1>2 DEF confirm_upload, TypeOK, RequestType, Status, EventType
    <2>2. /\ Reading(q) /\ Flush(f, old, new) /\ Publish(t, f)
          /\ \/ n = old.count + 1 /\ CreateVersion(f, old.count + 1)
             \/ n = old.count /\ UNCHANGED versions
      BY <1>2 DEF confirm_upload, Reading
    <2>3. n \in Nat
      BY <2>1 DEF Row
    <2> HIDE DEF s, n, t
    <2>4. /\ new \in Row /\ new.deleted = old.deleted
          /\ new.status = s /\ new.count = n
      BY <2>1, <2>3 DEF Row
    <2> HIDE DEF f, old, new
    <2>5. Update(f, old, new)
      BY <2>1, <2>2, <2>4 DEF Update
    <2>6. NewVersion(q, f, old, new) \/ PlainUpdate(f, old, new)
      BY <2>2, <2>4, <2>5 DEF NewVersion, PlainUpdate, f, old
    <2>7. CommitOf(f)
      BY <2>1, <2>2, <2>4, <2>6 DEF CommitOf
    <2>8. QED
      BY <2>1, <2>2, <2>7 DEF f
  <1>3. CASE restore_version(q)
    <2> DEFINE f == req[q].file
               old == req[q].row
               new == [old EXCEPT !.status = "ready", !.count = old.count + 1]
    <2>1. f \in File /\ old \in Row /\ "ready" \in Status /\ "restored" \in EventType
      BY <1>3 DEF restore_version, TypeOK, RequestType, Status, EventType
    <2>2. /\ Reading(q) /\ Flush(f, old, new) /\ Publish("restored", f)
          /\ CreateVersion(f, old.count + 1)
      BY <1>3 DEF restore_version, Reading
    <2>3. old.count + 1 \in Nat
      BY <2>1 DEF Row
    <2>4. /\ new \in Row /\ new.deleted = old.deleted
          /\ new.status = "ready" /\ new.count = old.count + 1
      BY <2>1, <2>3 DEF Row
    <2> HIDE DEF f, old, new
    <2>5. NewVersion(q, f, old, new)
      BY <2>2, <2>4 DEF Update, NewVersion, f, old
    <2>6. CommitOf(f)
      BY <2>1, <2>2, <2>4, <2>5 DEF CommitOf
    <2>7. QED
      BY <2>1, <2>2, <2>6 DEF f
  <1>4. CASE delete_file(q)
    <2> DEFINE f == req[q].file
               old == req[q].row
               new == [old EXCEPT !.deleted = TRUE]
    <2>1. f \in File /\ old \in Row /\ "deleted" \in EventType
      BY <1>4 DEF delete_file, TypeOK, RequestType, EventType
    <2>2. Reading(q) /\ Flush(f, old, new) /\ Publish("deleted", f) /\ UNCHANGED versions
      BY <1>4 DEF delete_file, Reading
    <2>3. /\ new \in Row /\ new.deleted = TRUE
          /\ new.status = old.status /\ new.count = old.count
      BY <2>1 DEF Row
    <2> HIDE DEF f, old, new
    <2>4. PlainUpdate(f, old, new)
      BY <2>2, <2>3 DEF Update, PlainUpdate
    <2>5. CommitOf(f)
      BY <2>1, <2>2, <2>3, <2>4 DEF CommitOf
    <2>6. QED
      BY <2>1, <2>2, <2>5 DEF f
  <1>5. QED
    BY <1>1, <1>2, <1>3, <1>4
       DEF RequestStep, begin_init, begin_file_op, get_file_service, init_check,
           read_file, abandon_request

\* The commits of runs are updates of their file without a version row.
LEMMA RunCommit ==
  ASSUME TypeOK, NEW r \in Run, RunStep(r) \/ lose_run(r)
  PROVE  \/ UNCHANGED <<row, versions, outbox>>
         \/ run[r].pc # "idle" /\ RunFile(r) \in File /\ CommitOf(RunFile(r))
  <1>1. CASE execute_commit(r) \/ mark_failed(r)
    <2>0. run[r].pc # "idle"
      BY <1>1 DEF execute_commit, mark_failed
    <2>1. PICK f \in File : f = RunFile(r)
      BY <2>0, RunFileType
    <2>2. PICK old \in Row : old = run[r].row
      BY DEF TypeOK, RunType
    <2>3. PICK s \in Status \ {"none"}, t \in EventType :
            /\ Flush(f, old, [old EXCEPT !.status = s])
            /\ Publish(t, f)
      <3>1. CASE execute_commit(r)
        <4> DEFINE s == Outcome(f, run[r].cfg)
        <4>1. s \in Status \ {"none"} /\ OutcomeEvent(s) \in EventType
          BY OutcomeType DEF Status
        <4>2. /\ Flush(f, old, [old EXCEPT !.status = s])
              /\ Publish(OutcomeEvent(s), f)
          BY <3>1, <2>1, <2>2 DEF execute_commit
        <4>3. QED
          BY <4>1, <4>2
      <3>2. CASE mark_failed(r)
        BY <3>2, <2>1, <2>2 DEF mark_failed, Status, EventType
      <3>3. QED
        BY <1>1, <3>1, <3>2
    <2>4. UNCHANGED versions
      BY <1>1 DEF execute_commit, mark_failed
    <2> DEFINE new == [old EXCEPT !.status = s]
    <2>5. /\ new \in Row /\ new.deleted = old.deleted
          /\ new.status = s /\ new.count = old.count
      BY DEF Row
    <2> HIDE DEF new
    <2>6. PlainUpdate(f, old, new)
      BY <2>3, <2>4, <2>5 DEF PlainUpdate, Update, new
    <2>7. CommitOf(f)
      BY <2>3, <2>5, <2>6 DEF CommitOf
    <2>8. QED
      BY <2>0, <2>1, <2>7
  <1>2. QED
    BY <1>1 DEF RunStep, execute_get, execute_config, execute_raise, mark_failed_get,
                mark_failed_error, ack, lose_run, Local

\* Every step commits nothing, or something about one file that a handler is
\* inserting, a handler has read, or a run works on.
LEMMA StepCommit ==
  ASSUME TypeOK, [Next]_vars
  PROVE  \/ UNCHANGED <<row, versions, outbox>>
         \/ \E f \in File :
              /\ CommitOf(f)
              /\ \/ Insert(f)
                 \/ \E q \in Request : Reading(q) /\ f = req[q].file
                 \/ \E r \in Run : run[r].pc # "idle" /\ f = RunFile(r)
  <1>1. CASE update_processing_config \/ UNCHANGED vars
    BY <1>1 DEF update_processing_config, vars
  <1>2. CASE Relay \/ RelayLost
    BY <1>2 DEF Relay, RelayLost, poll_and_publish
  <1>3. CASE Deliver \/ Redeliver
    BY <1>3 DEF Deliver, Redeliver, deliver, redeliver, StartRun
  <1>4. QED
    BY <1>1, <1>2, <1>3, RequestCommit, RunCommit DEF Next

\* The handlers that have read their file after a step had done so before it, or
\* have just read it.
LEMMA StepRead ==
  ASSUME TypeOK, [Next]_vars, NEW q \in Request, Reading(q)'
  PROVE  /\ req'[q].file \in File
         /\ \/ Reading(q) /\ req'[q] = req[q]
            \/ /\ Found(req'[q].file) /\ req'[q].row = row[req'[q].file]
               /\ UNCHANGED <<row, versions, outbox>>
  <1>0. req'[q].file \in File
    BY TypeStep DEF TypeOK, Reading
  <1>1. ASSUME NEW p \in Request, RequestStep(p)
        PROVE  \/ Reading(q) /\ req'[q] = req[q]
               \/ /\ Found(req'[q].file) /\ req'[q].row = row[req'[q].file]
                  /\ UNCHANGED <<row, versions, outbox>>
    <2>1. CASE read_file(p)
      BY <2>1 DEF read_file, Reading, TypeOK, RequestType, IdleRequest
    <2>2. CASE init_check(p)
      BY <2>2 DEF init_check, Reading, TypeOK, RequestType, IdleRequest
    <2>3. CASE begin_init(p) \/ begin_file_op(p)
      BY <2>3 DEF begin_init, begin_file_op, get_file_service, Reading, TypeOK, RequestType
    <2>4. ASSUME req' = [req EXCEPT ![p] = IdleRequest]
          PROVE  Reading(q) /\ req'[q] = req[q]
      BY <2>4 DEF Reading, TypeOK, IdleRequest
    <2>5. QED
      BY <1>1, <2>1, <2>2, <2>3, <2>4
         DEF RequestStep, init_upload, confirm_upload, restore_version, delete_file,
             abandon_request, Respond
  <1>2. ASSUME UNCHANGED req
        PROVE  Reading(q) /\ req'[q] = req[q]
    BY <1>2 DEF Reading
  <1>3. CASE update_processing_config \/ UNCHANGED vars
    BY <1>0, <1>2, <1>3 DEF update_processing_config, vars
  <1>4. CASE Relay \/ RelayLost
    BY <1>0, <1>2, <1>4 DEF Relay, RelayLost, poll_and_publish
  <1>5. CASE Deliver \/ Redeliver
    BY <1>0, <1>2, <1>5 DEF Deliver, Redeliver, deliver, redeliver, StartRun
  <1>6. ASSUME NEW r \in Run, RunStep(r) \/ lose_run(r)
        PROVE  UNCHANGED req
    BY <1>6 DEF RunStep, execute_get, execute_config, execute_commit, execute_raise,
                mark_failed_get, mark_failed, mark_failed_error, ack, lose_run, Local
  <1>7. QED
    BY <1>0, <1>1, <1>2, <1>3, <1>4, <1>5, <1>6 DEF Next

-----------------------------------------------------------------------------
(***************************************************************************)
(* Deletion is final.  The insert of init_upload is the one commit that    *)
(* writes deleted_at without having read it, so the invariant says that    *)
(* whatever is deleted, announced or read is a file that exists.           *)
(***************************************************************************)

Exists(f) == row[f].status # "none"

ExistInv ==
  /\ \A f \in File : row[f].deleted => Exists(f)
  /\ \A e \in DOMAIN outbox : Exists(outbox[e].file)
  /\ \A q \in Request : Reading(q) => Exists(req[q].file)

\* An UPDATE keeps deletions and existence, and touches one file only.
LEMMA UpdateKeeps ==
  ASSUME TypeOK, NEW f \in File, NEW old \in Row, NEW new \in Row,
         Update(f, old, new), NEW g \in File
  PROVE  /\ row[g].deleted => row'[g].deleted
         /\ Exists(g) => Exists(g)'
         /\ g # f => row'[g] = row[g]
  BY DEF TypeOK, Update, Flush, Row, Exists

\* A commit about f keeps deletions and existence, and f exists after it.
LEMMA CommitKeeps ==
  ASSUME TypeOK, ExistInv, NEW f \in File, CommitOf(f), Insert(f) \/ Exists(f)
  PROVE  /\ \A g \in File : row[g].deleted => row'[g].deleted
         /\ \A g \in File : Exists(g) => Exists(g)'
         /\ \A g \in File : g # f => row'[g] = row[g]
         /\ Exists(f)'
  <1>1. CASE Insert(f)
    BY <1>1 DEF Insert, NoRow, Exists, ExistInv, TypeOK
  <1>2. ASSUME NEW old \in Row, NEW new \in Row, Update(f, old, new), Exists(f)
        PROVE  /\ \A g \in File : row[g].deleted => row'[g].deleted
               /\ \A g \in File : Exists(g) => Exists(g)'
               /\ \A g \in File : g # f => row'[g] = row[g]
               /\ Exists(f)'
    BY <1>2, UpdateKeeps
  <1>3. QED
    BY <1>1, <1>2 DEF CommitOf, NewVersion, PlainUpdate

\* What a step commits is about a file it inserts or that exists.
LEMMA CommitExisting ==
  ASSUME TypeOK, ExistInv, [Next]_vars
  PROVE  \/ UNCHANGED <<row, versions, outbox>>
         \/ \E f \in File : CommitOf(f) /\ (Insert(f) \/ Exists(f))
  <1>1. ASSUME NEW r \in Run, run[r].pc # "idle"
        PROVE  Exists(RunFile(r))
    BY <1>1 DEF TypeOK, RunFile, ExistInv
  <1>2. QED
    BY <1>1, StepCommit DEF ExistInv

\* The invariant is inductive.
LEMMA ExistStep ==
  ASSUME TypeOK, ExistInv, [Next]_vars
  PROVE  ExistInv'
  <1>1. CASE UNCHANGED <<row, versions, outbox>>
    <2>1. \A q \in Request : Reading(q)' => Exists(req[q].file)'
      BY <1>1, StepRead DEF ExistInv, Exists, Found
    <2>2. QED
      BY <1>1, <2>1 DEF ExistInv, Exists
  <1>2. ASSUME NEW f \in File, CommitOf(f), Insert(f) \/ Exists(f)
        PROVE  ExistInv'
    <2>1. /\ \A g \in File : Exists(g) => Exists(g)'
          /\ \A g \in File : g # f => row'[g] = row[g]
          /\ Exists(f)'
      BY <1>2, CommitKeeps
    <2>2. \A g \in File : row'[g].deleted => Exists(g)'
      BY <2>1 DEF ExistInv, Exists
    <2>3. \A e \in DOMAIN outbox' : outbox'[e].file \in File /\ Exists(outbox[e].file)'
      <3>1. PICK t \in EventType : Publish(t, f)
        BY <1>2 DEF CommitOf
      <3> DEFINE x == [type |-> t, file |-> f]
      <3>2. x \in Event /\ x.file = f
        BY DEF Event
      <3>3. outbox \in Seq(Event) /\ outbox' = Append(outbox, x)
        BY <3>1 DEF TypeOK, Publish
      <3> HIDE DEF x
      <3>4. \A e \in DOMAIN outbox' : \/ e \in DOMAIN outbox /\ outbox'[e] = outbox[e]
                                      \/ outbox'[e] = x
        BY <3>2, <3>3, AppendFacts
      <3>5. \A e \in DOMAIN outbox : outbox[e].file \in File /\ Exists(outbox[e].file)
        <4>1. \A e \in DOMAIN outbox : outbox[e] \in Event
          BY <3>3
        <4>2. QED
          BY <4>1 DEF ExistInv, Event
      <3>6. QED
        BY <2>1, <3>2, <3>4, <3>5 DEF Exists
    <2>4. \A q \in Request : Reading(q)' => Exists(req[q].file)'
      BY <2>1, StepRead DEF ExistInv, Exists, Found
    <2>5. QED
      BY <2>2, <2>3, <2>4 DEF ExistInv, Exists
  <1>3. QED
    BY <1>1, <1>2, CommitExisting

\* Nothing exists at first.
LEMMA ExistInit == Init => ExistInv
  BY DEF Init, ExistInv, NoRow, IdleRequest, Reading

\* Deletion is final: for any number of concurrent handlers and runs, no commit
\* computed from a row that was read before the deletion brings a file back, and
\* no insert reuses the id of a deleted file.
THEOREM DeletionIsFinal == Spec => NoResurrection
  <1>1. TypeOK /\ ExistInv /\ [Next]_vars => ExistInv'
    BY ExistStep
  <1>2. TypeOK /\ ExistInv /\ [Next]_vars
          => [\A f \in File : row[f].deleted => row'[f].deleted]_vars
    BY CommitExisting, CommitKeeps
  <1>3. QED
    BY <1>1, <1>2, TypeCorrect, ExistInit, PTL DEF Spec, NoResurrection

-----------------------------------------------------------------------------
(***************************************************************************)
(* Version numbers.  Two handlers may read the same version_count, and one *)
(* may commit a smaller count than the other; the invariant adds that the  *)
(* count a handler has read is 0 or the number of a version that exists.   *)
(***************************************************************************)

\* n is 0 or the number of one of f's versions.
Counted(f, n) == n = 0 \/ n \in VersionNumbers(f)

VersionInv ==
  /\ \A f \in File : \A n \in VersionNumbers(f) : n >= 1 /\ Counted(f, n - 1)
  /\ \A f \in File : Counted(f, row[f].count)
  /\ \A q \in Request : Reading(q) => Counted(req[q].file, req[q].row.count)

\* A version row adds its number to its file and to no other.
LEMMA NewNumber ==
  ASSUME versions \in [File -> Seq(Nat)], NEW f \in File, NEW n \in Nat,
         CreateVersion(f, n)
  PROVE  /\ VersionNumbers(f)' = VersionNumbers(f) \cup {n}
         /\ \A g \in File : g # f => VersionNumbers(g)' = VersionNumbers(g)
  <1>1. versions' = [versions EXCEPT ![f] = Append(versions[f], n)]
    BY DEF CreateVersion
  <1>2. \A g \in File : g # f => versions'[g] = versions[g]
    BY <1>1
  <1>3. versions'[f] = Append(versions[f], n) /\ versions[f] \in Seq(Nat)
    BY <1>1
  <1>4. /\ DOMAIN versions[f] \subseteq DOMAIN versions'[f]
        /\ \A i \in DOMAIN versions[f] : versions'[f][i] = versions[f][i]
        /\ \A i \in DOMAIN versions'[f] : i \in DOMAIN versions[f] \/ versions'[f][i] = n
        /\ \E i \in DOMAIN versions'[f] : versions'[f][i] = n
    BY <1>3, AppendFacts
  <1>5. VersionNumbers(f)' = VersionNumbers(f) \cup {n}
    BY <1>4 DEF VersionNumbers
  <1>6. QED
    BY <1>2, <1>5 DEF VersionNumbers

\* The count column after an UPDATE is the one before it, or the new one.
LEMMA UpdateCount ==
  ASSUME TypeOK, NEW f \in File, NEW old \in Row, NEW new \in Row, Flush(f, old, new)
  PROVE  /\ \A g \in File : g # f => row'[g] = row[g]
         /\ row'[f].count = row[f].count \/ (new.count # old.count /\ row'[f].count = new.count)
  BY DEF TypeOK, Flush, Row

\* A commit keeps the first two parts of the invariant and every counted number.
LEMMA CommitCounts ==
  ASSUME TypeOK, VersionInv, NEW f \in File, CommitOf(f)
  PROVE  /\ \A g \in File : \A n \in VersionNumbers(g)' : n >= 1 /\ Counted(g, n - 1)'
         /\ \A g \in File : Counted(g, row[g].count)'
         /\ \A g \in File : \A n \in Nat : Counted(g, n) => Counted(g, n)'
  <1>1. CASE Insert(f)
    <2>1. row' = [row EXCEPT ![f] = [NoRow EXCEPT !.status = "pending"]] /\ UNCHANGED versions
      BY <1>1 DEF Insert
    <2>2. \A g \in File : row'[g].count = row[g].count \/ row'[g].count = 0
      BY <2>1 DEF NoRow, TypeOK
    <2>3. \A g \in File : VersionNumbers(g)' = VersionNumbers(g)
      BY <2>1 DEF VersionNumbers
    <2>4. QED
      BY <2>2, <2>3 DEF VersionInv, Counted
  <1>2. ASSUME NEW old \in Row, NEW new \in Row, PlainUpdate(f, old, new)
        PROVE  /\ \A g \in File : row'[g].count = row[g].count
               /\ UNCHANGED versions
    BY <1>2, UpdateCount DEF PlainUpdate, Update
  <1>3. ASSUME NEW q \in Request, NEW old \in Row, NEW new \in Row,
               NewVersion(q, f, old, new)
        PROVE  /\ \A g \in File : \A n \in VersionNumbers(g)' : n >= 1 /\ Counted(g, n - 1)'
               /\ \A g \in File : Counted(g, row[g].count)'
               /\ \A g \in File : \A n \in Nat : Counted(g, n) => Counted(g, n)'
    <2> DEFINE k == old.count + 1
    <2>1. old.count \in Nat /\ k \in Nat /\ k >= 1 /\ k - 1 = old.count
      BY DEF Row
    <2>2. Counted(f, old.count)
      BY <1>3 DEF NewVersion, VersionInv
    <2>3. /\ VersionNumbers(f)' = VersionNumbers(f) \cup {k}
          /\ \A g \in File : g # f => VersionNumbers(g)' = VersionNumbers(g)
      BY <1>3, <2>1, NewNumber DEF NewVersion, TypeOK
    <2>4. /\ \A g \in File : g # f => row'[g] = row[g]
          /\ row'[f].count = row[f].count \/ row'[f].count = k
      BY <1>3, UpdateCount DEF NewVersion, Update
    <2> HIDE DEF k
    <2>5. \A g \in File : \A n : Counted(g, n) => Counted(g, n)'
      BY <2>3 DEF Counted
    <2>6. \A g \in File : Counted(g, row[g].count)'
      BY <2>3, <2>4, <2>5 DEF VersionInv, Counted
    <2>7. \A g \in File : \A n \in VersionNumbers(g)' : n >= 1 /\ Counted(g, n - 1)'
      BY <2>1, <2>2, <2>3, <2>5 DEF VersionInv
    <2>8. QED
      BY <2>5, <2>6, <2>7 DEF Counted
  <1>4. QED
    BY <1>1, <1>2, <1>3 DEF CommitOf, VersionInv, Counted, VersionNumbers

\* The invariant is inductive.
LEMMA VersionStep ==
  ASSUME TypeOK, VersionInv, [Next]_vars
  PROVE  VersionInv'
  <1>1. \A q \in Request : Reading(q) => req[q].row.count \in Nat /\ req[q].file \in File
    BY DEF TypeOK, RequestType, Row, Reading
  <1>2. CASE UNCHANGED <<row, versions, outbox>>
    <2>1. \A f \in File : \A n : Counted(f, n)' <=> Counted(f, n)
      BY <1>2 DEF Counted, VersionNumbers
    <2>2. \A q \in Request : Reading(q)' => Counted(req'[q].file, req'[q].row.count)
      BY <1>2, StepRead DEF VersionInv
    <2>3. \A q \in Request : Reading(q)' => Counted(req[q].file, req[q].row.count)'
      BY <1>2, <2>2 DEF Counted, VersionNumbers
    <2>4. QED
      BY <1>2, <2>3 DEF VersionInv, Counted, VersionNumbers
  <1>3. ASSUME NEW f \in File, CommitOf(f)
        PROVE  VersionInv'
    <2>1. /\ \A g \in File : \A n \in VersionNumbers(g)' : n >= 1 /\ Counted(g, n - 1)'
          /\ \A g \in File : Counted(g, row[g].count)'
          /\ \A g \in File : \A n \in Nat : Counted(g, n) => Counted(g, n)'
      BY <1>3, CommitCounts
    <2>2. ASSUME NEW q \in Request, Reading(q)'
          PROVE  Counted(req[q].file, req[q].row.count)'
      <3>1. CASE Reading(q) /\ req'[q] = req[q]
        BY <1>1, <2>1, <3>1 DEF VersionInv, Counted
      <3>2. CASE req'[q].row = row[req'[q].file] /\ UNCHANGED <<row, versions, outbox>>
        BY <2>1, <2>2, <3>2, StepRead DEF Counted, VersionNumbers
      <3>3. QED
        BY <2>2, <3>1, <3>2, StepRead
    <2>3. QED
      BY <2>1, <2>2 DEF VersionInv
  <1>4. QED
    BY <1>2, <1>3, StepCommit

\* There are no versions at first.
LEMMA VersionInit == Init => VersionInv
  BY DEF Init, VersionInv, Counted, VersionNumbers, NoRow, IdleRequest, Reading

\* Version numbers have no gaps: for any number of concurrent confirms and
\* restores, whatever updates of version_count are lost, the numbers of a file's
\* version rows are 1..k and version_count is 0 or one of them.
THEOREM VersionNumbersHaveNoGaps == Spec => []VersionNumbersGapFree
  <1>1. TypeOK /\ VersionInv /\ [Next]_vars => VersionInv'
    BY VersionStep
  <1>2. TypeOK /\ VersionInv => VersionNumbersGapFree
    <2>1. TypeOK => \A f \in File : VersionNumbers(f) \subseteq Nat
      BY DEF TypeOK, VersionNumbers
    <2>2. QED
      BY <2>1 DEF VersionInv, Counted, VersionNumbersGapFree
  <1>3. QED
    BY <1>1, <1>2, TypeCorrect, VersionInit, PTL DEF Spec

-----------------------------------------------------------------------------
(***************************************************************************)
(* No commit changes a file silently.  A transaction is an UPDATE of a     *)
(* file, computed from the row that a handler or a run has read, and its   *)
(* event: the event announces the status that is computed, and no other,   *)
(* and the transaction deletes only with file.deleted and counts a version *)
(* only with the event of a confirm or a restore.  Infected bytes are      *)
(* followed with it: a transaction that computes "ready" for them is a     *)
(* restore, once every config that was read enables scanning.              *)
(***************************************************************************)

\* Handlers and runs that decide by a config have read one of the project's.
CfgRead ==
  /\ \A q \in Request : req[q].pc # "idle" => req[q].cfg \in Config
  /\ \A r \in Run : run[r].pc = "stages" => run[r].cfg \in Config

\* What a handler or a run has read of f is `old`, and it is done with it.
Computed(f, old) ==
  \/ \E q \in Request : /\ req[q].pc = "read" /\ req[q].file = f /\ req[q].row = old
                        /\ req'[q].pc = "idle"
  \/ \E r \in Run : /\ run[r].pc \in {"stages", "marking"} /\ RunFile(r) = f
                    /\ run[r].row = old /\ run'[r].pc = "done"

Transaction(f, old, new, t) ==
  /\ Computed(f, old)
  /\ Flush(f, old, new)
  /\ Publish(t, f)
  /\ new.status = old.status \/ (new.status \in Status \ {"none", "pending"}
                                 /\ t \in Announcements[new.status])
  /\ \A s \in DOMAIN Announcements : t \in Announcements[s] => new.status = s
  /\ new.deleted = old.deleted \/ (new.deleted = TRUE /\ t = "deleted")
  /\ \/ new.count = old.count /\ UNCHANGED versions
     \/ /\ t \in {"uploaded", "ready", "restored"}
        /\ \A g \in File : g # f => versions'[g] = versions[g]

\* A scan that is enabled for every config keeps t from announcing infected
\* bytes as scanned.
Scanned(f, old, new, t) ==
  (\A c \in Config : c.scan) /\ f \in Infected /\ new.status # old.status /\ new.status = "ready"
    => t = "restored"

Admitted == {q \in Request : req[q].pc = "read" /\ req[q].op = "init"}

\* Handler q inserts a file and is done.
InitOf(q) ==
  /\ q \in Admitted
  /\ req' = [req EXCEPT ![q] = IdleRequest]
  /\ \E f \in File : Insert(f) /\ Publish("upload.initiated", f)

\* A transaction about some file.
Transacted ==
  \E f \in File, old, new \in Row, t \in EventType :
    Transaction(f, old, new, t) /\ Scanned(f, old, new, t)

\* What a request writes.
LEMMA RequestTransaction ==
  ASSUME TypeOK, CfgRead, NEW q \in Request, RequestStep(q)
  PROVE  UNCHANGED <<row, versions, outbox>> \/ InitOf(q) \/ Transacted
  <1>1. CASE init_upload(q)
    BY <1>1 DEF init_upload, InitOf, Admitted, Insert, Respond
  <1>2. CASE confirm_upload(q)
    <2> DEFINE f == req[q].file
               old == req[q].row
               s == IF req[q].cfg.scan THEN "processing" ELSE "ready"
               n == IF req[q].cfg.versioning THEN old.count + 1 ELSE old.count
               t == IF req[q].cfg.scan THEN "uploaded" ELSE "ready"
               new == [old EXCEPT !.status = s, !.count = n]
    <2>1. /\ f \in File /\ old \in Row /\ t \in EventType
          /\ s \in Status \ {"none", "pending"} /\ t \in Announcements[s]
      BY <1>2 DEF confirm_upload, TypeOK, RequestType, Status, EventType, Announcements
    <2>2. Flush(f, old, new) /\ Publish(t, f)
      BY <1>2 DEF confirm_upload
    <2>3. n \in Nat
      BY <2>1 DEF Row
    <2>4. (\A c \in Config : c.scan) => s # "ready"
      BY <1>2 DEF confirm_upload, CfgRead
    <2> HIDE DEF s, n, t
    <2>5. new \in Row /\ new.deleted = old.deleted /\ new.status = s
      BY <2>1, <2>3 DEF Row
    <2>6. /\ t \in {"uploaded", "ready"}
          /\ \A u \in DOMAIN Announcements : t \in Announcements[u] => s = u
      BY DEF s, t, Announcements
    <2>7. \A g \in File : g # f => versions'[g] = versions[g]
      BY <1>2 DEF confirm_upload, CreateVersion, TypeOK
    <2>8. Computed(f, old)
      BY <1>2 DEF confirm_upload, Respond, IdleRequest, TypeOK, Computed
    <2> HIDE DEF f, old, new
    <2>9. Transaction(f, old, new, t) /\ Scanned(f, old, new, t)
      BY <2>1, <2>2, <2>4, <2>5, <2>6, <2>7, <2>8 DEF Transaction, Scanned
    <2>10. QED
      BY <2>1, <2>5, <2>9 DEF Transacted
  <1>3. CASE restore_version(q)
    <2> DEFINE f == req[q].file
               old == req[q].row
               new == [old EXCEPT !.status = "ready", !.count = old.count + 1]
    <2>1. /\ f \in File /\ old \in Row /\ "restored" \in EventType
          /\ "ready" \in Status \ {"none", "pending"} /\ "restored" \in Announcements["ready"]
      BY <1>3 DEF restore_version, TypeOK, RequestType, Status, EventType, Announcements
    <2>2. Flush(f, old, new) /\ Publish("restored", f)
      BY <1>3 DEF restore_version
    <2>3. old.count + 1 \in Nat
      BY <2>1 DEF Row
    <2>4. new \in Row /\ new.deleted = old.deleted /\ new.status = "ready"
      BY <2>1, <2>3 DEF Row
    <2>5. \A u \in DOMAIN Announcements : "restored" \in Announcements[u] => u = "ready"
      BY DEF Announcements
    <2>6. \A g \in File : g # f => versions'[g] = versions[g]
      BY <1>3 DEF restore_version, CreateVersion, TypeOK
    <2>7. Computed(f, old)
      BY <1>3 DEF restore_version, Respond, IdleRequest, TypeOK, Computed
    <2> HIDE DEF f, old, new
    <2>8. Transaction(f, old, new, "restored") /\ Scanned(f, old, new, "restored")
      BY <2>1, <2>2, <2>4, <2>5, <2>6, <2>7 DEF Transaction, Scanned
    <2>9. QED
      BY <2>1, <2>4, <2>8 DEF Transacted
  <1>4. CASE delete_file(q)
    <2> DEFINE f == req[q].file
               old == req[q].row
               new == [old EXCEPT !.deleted = TRUE]
    <2>1. f \in File /\ old \in Row /\ "deleted" \in EventType
      BY <1>4 DEF delete_file, TypeOK, RequestType, EventType
    <2>2. Flush(f, old, new) /\ Publish("deleted", f)
      BY <1>4 DEF delete_file
    <2>3. new \in Row /\ new.deleted = TRUE /\ new.status = old.status /\ new.count = old.count
      BY <2>1 DEF Row
    <2>4. \A u \in DOMAIN Announcements : "deleted" \notin Announcements[u]
      BY DEF Announcements
    <2>5. UNCHANGED versions /\ Computed(f, old)
      BY <1>4 DEF delete_file, Respond, IdleRequest, TypeOK, Computed
    <2> HIDE DEF f, old, new
    <2>6. Transaction(f, old, new, "deleted") /\ Scanned(f, old, new, "deleted")
      BY <2>2, <2>3, <2>4, <2>5 DEF Transaction, Scanned
    <2>7. QED
      BY <2>1, <2>3, <2>6 DEF Transacted
  <1>5. QED
    BY <1>1, <1>2, <1>3, <1>4
       DEF RequestStep, begin_init, begin_file_op, get_file_service, init_check,
           read_file, abandon_request

\* What a run writes.
LEMMA RunTransaction ==
  ASSUME TypeOK, CfgRead, NEW r \in Run, RunStep(r) \/ lose_run(r)
  PROVE  UNCHANGED <<row, versions, outbox>> \/ Transacted
  <1>1. CASE execute_commit(r) \/ mark_failed(r)
    <2>0. run[r].pc # "idle"
      BY <1>1 DEF execute_commit, mark_failed
    <2>1. PICK f \in File : f = RunFile(r)
      BY <2>0, RunFileType
    <2>2. PICK old \in Row : old = run[r].row
      BY DEF TypeOK, RunType
    <2>3. PICK s \in Status \ {"none", "pending"}, t \in EventType :
            /\ Flush(f, old, [old EXCEPT !.status = s])
            /\ Publish(t, f)
            /\ t \in Announcements[s]
            /\ \A u \in DOMAIN Announcements : t \in Announcements[u] => s = u
            /\ (\A c \in Config : c.scan) /\ f \in Infected => s # "ready"
      <3>1. CASE execute_commit(r)
        <4> DEFINE s == Outcome(f, run[r].cfg)
        <4>1. /\ s \in Status \ {"none", "pending"} /\ OutcomeEvent(s) \in EventType
              /\ OutcomeEvent(s) \in Announcements[s]
          BY OutcomeType DEF Status
        <4>2. /\ Flush(f, old, [old EXCEPT !.status = s])
              /\ Publish(OutcomeEvent(s), f)
          BY <3>1, <2>1, <2>2 DEF execute_commit
        <4>3. (\A c \in Config : c.scan) /\ f \in Infected => s # "ready"
          <5>1. run[r].cfg \in Config
            BY <3>1 DEF execute_commit, CfgRead
          <5>2. QED
            BY <5>1 DEF Outcome, virus_scan
        <4>4. \A u \in DOMAIN Announcements : OutcomeEvent(s) \in Announcements[u] => s = u
          BY DEF Outcome, OutcomeEvent, Announcements
        <4>5. QED
          BY <4>1, <4>2, <4>3, <4>4
      <3>2. CASE mark_failed(r)
        BY <3>2, <2>1, <2>2 DEF mark_failed, Status, EventType, Announcements
      <3>3. QED
        BY <1>1, <3>1, <3>2
    <2> DEFINE new == [old EXCEPT !.status = s]
    <2>4. new \in Row /\ new.deleted = old.deleted /\ new.status = s /\ new.count = old.count
      BY DEF Row
    <2>5. UNCHANGED versions /\ Computed(f, old)
      <3>1. run[r].pc \in {"stages", "marking"} /\ run' = [run EXCEPT ![r].pc = "done"]
            /\ UNCHANGED versions
        BY <1>1 DEF execute_commit, mark_failed
      <3>2. run'[r].pc = "done"
        BY <3>1 DEF TypeOK, RunType
      <3>3. QED
        BY <2>1, <2>2, <3>1, <3>2 DEF Computed
    <2> HIDE DEF new
    <2>6. Transaction(f, old, new, t) /\ Scanned(f, old, new, t)
      BY <2>3, <2>4, <2>5 DEF Transaction, Scanned, new
    <2>7. QED
      BY <2>4, <2>6 DEF Transacted
  <1>2. QED
    BY <1>1 DEF RunStep, execute_get, execute_config, execute_raise, mark_failed_get,
                mark_failed_error, ack, lose_run, Local

\* Every step commits nothing, inserts a file or is a transaction.
LEMMA StepTransaction ==
  ASSUME TypeOK, CfgRead, [Next]_vars
  PROVE  UNCHANGED <<row, versions, outbox>> \/ (\E q \in Request : InitOf(q)) \/ Transacted
  <1>1. CASE update_processing_config \/ UNCHANGED vars
    BY <1>1 DEF update_processing_config, vars
  <1>2. CASE Relay \/ RelayLost
    BY <1>2 DEF Relay, RelayLost, poll_and_publish
  <1>3. CASE Deliver \/ Redeliver
    BY <1>3 DEF Deliver, Redeliver, deliver, redeliver, StartRun
  <1>4. QED
    BY <1>1, <1>2, <1>3, RequestTransaction, RunTransaction DEF Next

\* No request has read the configuration.
LEMMA CfgInit == Init => CfgRead
  BY DEF Init, CfgRead, IdleRequest, IdleRun

\* Handlers and runs read the config row.
LEMMA CfgStep ==
  ASSUME TypeOK, CfgRead, [Next]_vars
  PROVE  CfgRead'
  <1>1. \A q \in Request : req'[q].pc # "idle" => req'[q].cfg \in Config
    <2>1. ASSUME NEW p \in Request, RequestStep(p), NEW q \in Request, req'[q].pc # "idle"
          PROVE  req'[q].cfg \in Config
      <3>1. CASE begin_init(p) \/ begin_file_op(p)
        <4>1. config \in Config /\ \E op, f : req' = [req EXCEPT ![p] =
                [pc |-> "config", op |-> op, file |-> f, cfg |-> config, row |-> NoRow]]
          BY <3>1 DEF begin_init, begin_file_op, get_file_service, TypeOK
        <4>2. QED
          BY <2>1, <4>1 DEF CfgRead, TypeOK
      <3>2. CASE init_check(p)
        BY <2>1, <3>2 DEF init_check, CfgRead, TypeOK, RequestType, IdleRequest
      <3>3. CASE read_file(p)
        BY <2>1, <3>3 DEF read_file, CfgRead, TypeOK, RequestType, IdleRequest
      <3>4. CASE req' = [req EXCEPT ![p] = IdleRequest]
        BY <2>1, <3>4 DEF CfgRead, TypeOK, IdleRequest
      <3>5. QED
        BY <2>1, <3>1, <3>2, <3>3, <3>4
           DEF RequestStep, init_upload, confirm_upload, restore_version, delete_file,
               abandon_request, Respond
    <2>2. UNCHANGED req \/ \E p \in Request : RequestStep(p)
      <3>1. CASE update_processing_config \/ UNCHANGED vars
        BY <3>1 DEF update_processing_config, vars
      <3>2. CASE Relay \/ RelayLost
        BY <3>2 DEF Relay, RelayLost, poll_and_publish
      <3>3. CASE Deliver \/ Redeliver
        BY <3>3 DEF Deliver, Redeliver, deliver, redeliver, StartRun
      <3>4. ASSUME NEW r \in Run, RunStep(r) \/ lose_run(r)
            PROVE  UNCHANGED req
        BY <3>4 DEF RunStep, execute_get, execute_config, execute_commit, execute_raise,
                    mark_failed_get, mark_failed, mark_failed_error, ack, lose_run, Local
      <3>5. QED
        BY <3>1, <3>2, <3>3, <3>4 DEF Next
    <2>3. QED
      BY <2>1, <2>2 DEF CfgRead
  <1>2. \A r \in Run : run'[r].pc = "stages" => run'[r].cfg \in Config
    <2>1. ASSUME NEW z \in Run, RunStep(z) \/ lose_run(z), NEW r \in Run, run'[r].pc = "stages"
          PROVE  run'[r].cfg \in Config
      <3>1. CASE execute_config(z)
        BY <2>1, <3>1 DEF execute_config, CfgRead, TypeOK, RunType
      <3>2. CASE execute_get(z)
        BY <2>1, <3>2 DEF execute_get, CfgRead, TypeOK, RunType
      <3>3. CASE mark_failed_get(z)
        BY <2>1, <3>3 DEF mark_failed_get, CfgRead, TypeOK, RunType
      <3>4. CASE run' = [run EXCEPT ![z].pc = "done"]
        BY <2>1, <3>4 DEF CfgRead, TypeOK, RunType
      <3>5. CASE execute_raise(z)
        BY <2>1, <3>5 DEF execute_raise, CfgRead, TypeOK, RunType, IdleRun
      <3>6. CASE run' = [run EXCEPT ![z] = IdleRun]
        BY <2>1, <3>6 DEF CfgRead, TypeOK, IdleRun
      <3>7. QED
        BY <2>1, <3>1, <3>2, <3>3, <3>4, <3>5, <3>6
           DEF RunStep, execute_commit, mark_failed, mark_failed_error, ack, lose_run
    <2>2. ASSUME NEW z \in Run, NEW k \in DOMAIN stream, deliver(z, k) \/ redeliver(z, k),
                 NEW r \in Run, run'[r].pc = "stages"
          PROVE  run'[r].cfg \in Config
      BY <2>2 DEF deliver, redeliver, StartRun, CfgRead, TypeOK, RunType, IdleRun
    <2>3. \/ UNCHANGED run
          \/ \E z \in Run : RunStep(z) \/ lose_run(z)
          \/ \E z \in Run, k \in DOMAIN stream : deliver(z, k) \/ redeliver(z, k)
      <3>1. CASE update_processing_config \/ UNCHANGED vars
        BY <3>1 DEF update_processing_config, vars
      <3>2. CASE Relay \/ RelayLost
        BY <3>2 DEF Relay, RelayLost, poll_and_publish
      <3>3. ASSUME NEW q \in Request, RequestStep(q)
            PROVE  UNCHANGED run
        BY <3>3 DEF RequestStep, begin_init, begin_file_op, get_file_service, init_check,
                    read_file, init_upload, confirm_upload, restore_version, delete_file,
                    abandon_request, Respond
      <3>4. QED
        BY <3>1, <3>2, <3>3 DEF Next, Deliver, Redeliver
    <2>4. QED
      BY <2>1, <2>2, <2>3 DEF CfgRead
  <1>3. Config' = Config
    OBVIOUS
  <1>4. QED
    BY <1>1, <1>2 DEF CfgRead

\* A commit of one event announces what that event does, and nothing else.
LEMMA AnnouncesOne ==
  ASSUME TypeOK, NEW f \in File, NEW t \in EventType, Publish(t, f),
         NEW g \in File, NEW T \in SUBSET EventType
  PROVE  Announces(g, T) <=> g = f /\ t \in T
  <1>1. outbox' = Append(outbox, [type |-> t, file |-> f]) /\ outbox \in Seq(Event)
    BY DEF Publish, TypeOK
  <1>2. ASSUME NEW u \in EventType, Append(outbox, [type |-> t, file |-> f])
                                      = Append(outbox, [type |-> u, file |-> g])
        PROVE  u = t /\ g = f
    <2>1. [type |-> t, file |-> f] \in Event /\ [type |-> u, file |-> g] \in Event
      BY DEF Event
    <2>2. [type |-> t, file |-> f] = [type |-> u, file |-> g]
      BY <1>1, <1>2, <2>1, AppendFacts
    <2>3. [type |-> t, file |-> f].type = t /\ [type |-> u, file |-> g].type = u
          /\ [type |-> t, file |-> f].file = f /\ [type |-> u, file |-> g].file = g
      OBVIOUS
    <2>4. QED
      BY <2>2, <2>3
  <1>3. QED
    BY <1>1, <1>2 DEF Announces

\* A step that leaves the outbox alone announces nothing.
LEMMA AnnouncesNone ==
  ASSUME TypeOK, UNCHANGED outbox, NEW g \in File, NEW T \in SUBSET EventType
  PROVE  ~Announces(g, T)
  <1>1. SUFFICES ASSUME NEW u \in EventType, outbox = Append(outbox, [type |-> u, file |-> g])
                 PROVE  FALSE
    BY DEF Announces
  <1>2. outbox \in Seq(Event) /\ [type |-> u, file |-> g] \in Event
    BY DEF TypeOK, Event
  <1>3. Len(Append(outbox, [type |-> u, file |-> g])) = Len(outbox) + 1 /\ Len(outbox) \in Nat
    BY <1>2
  <1>4. QED
    BY <1>1, <1>3

\* What announces a status is a type of event.
LEMMA AnnouncementTypes ==
  /\ DOMAIN Announcements = Status \ {"none"}
  /\ \A s \in DOMAIN Announcements : Announcements[s] \in SUBSET EventType
  /\ {"deleted"} \in SUBSET EventType /\ {"restored"} \in SUBSET EventType
  /\ {"uploaded", "ready", "restored"} \in SUBSET EventType
  BY DEF Status, Announcements, EventType

\* The insert of init_upload finds an empty row, as no UPDATE writes to a file that
\* is not there.
BlankInv == \A f \in File : Exists(f) \/ row[f] = NoRow

LEMMA BlankStep ==
  ASSUME TypeOK, ExistInv, BlankInv, [Next]_vars
  PROVE  BlankInv'
  <1>1. CASE UNCHANGED <<row, versions, outbox>>
    BY <1>1 DEF BlankInv, Exists
  <1>2. ASSUME NEW f \in File, CommitOf(f), Insert(f) \/ Exists(f)
        PROVE  BlankInv'
    BY <1>2, CommitKeeps DEF BlankInv, Exists
  <1>3. QED
    BY <1>1, <1>2, CommitExisting

LEMMA BlankInit == Init => BlankInv
  BY DEF Init, BlankInv

\* What StatusAnnounced says of a step and one file.
Told(g) ==
  /\ row'[g].status # row[g].status => Announces(g, Announcements[row'[g].status])
  /\ row'[g].deleted # row[g].deleted => Announces(g, {"deleted"})
  /\ row'[g].count # row[g].count \/ versions'[g] # versions[g] =>
       Announces(g, {"uploaded", "ready", "restored"})
  /\ \A s \in DOMAIN Announcements : Announces(g, Announcements[s]) =>
       row'[g].status = s \/ CommitsStale(g, s)

\* A step that does not concern a file announces nothing about it.
LEMMA ToldOther ==
  ASSUME TypeOK, NEW g \in File, row'[g] = row[g], versions'[g] = versions[g],
         \/ UNCHANGED outbox
         \/ \E f \in File \ {g}, t \in EventType : Publish(t, f)
  PROVE  Told(g)
  <1>1. \A T \in SUBSET EventType : ~Announces(g, T)
    BY AnnouncesOne, AnnouncesNone
  <1>2. QED
    BY <1>1, AnnouncementTypes DEF Told

\* The insert of init_upload announces the row it inserts.
LEMMA ToldInsert ==
  ASSUME TypeOK, BlankInv, NEW g \in File, Insert(g), Publish("upload.initiated", g)
  PROVE  Told(g)
  <1>1. "upload.initiated" \in EventType
    BY DEF EventType
  <1>2. row[g] = NoRow /\ row'[g] = [NoRow EXCEPT !.status = "pending"] /\ versions'[g] = versions[g]
    BY DEF Insert, BlankInv, Exists, TypeOK
  <1>3. row'[g].status = "pending" /\ row'[g].deleted = row[g].deleted
        /\ row'[g].count = row[g].count
    BY <1>2 DEF NoRow
  <1>4. \A s \in DOMAIN Announcements : "upload.initiated" \in Announcements[s] <=> s = "pending"
    BY DEF Announcements
  <1>5. \A s \in DOMAIN Announcements : Announces(g, Announcements[s]) <=> s = "pending"
    BY <1>1, <1>4, AnnouncesOne, AnnouncementTypes
  <1>6. "pending" \in DOMAIN Announcements
    BY DEF Announcements
  <1>7. QED
    BY <1>2, <1>3, <1>5, <1>6 DEF Told

\* A transaction announces what it writes.  If its event announces a status the row
\* does not have, it has read that status, and another has changed it since.
LEMMA ToldTransaction ==
  ASSUME TypeOK, NEW g \in File, NEW old \in Row, NEW new \in Row, NEW t \in EventType,
         Transaction(g, old, new, t)
  PROVE  Told(g)
  <1>1. /\ row'[g].status = IF new.status # old.status THEN new.status ELSE row[g].status
        /\ row'[g].deleted = IF new.deleted # old.deleted THEN new.deleted ELSE row[g].deleted
        /\ row'[g].count = IF new.count # old.count THEN new.count ELSE row[g].count
    BY DEF Transaction, Flush, TypeOK
  <1>2. \A T \in SUBSET EventType : Announces(g, T) <=> t \in T
    BY AnnouncesOne DEF Transaction
  <1>3. row'[g].status # row[g].status => Announces(g, Announcements[row'[g].status])
    <2>1. SUFFICES ASSUME row'[g].status # row[g].status
                   PROVE  Announces(g, Announcements[new.status]) /\ row'[g].status = new.status
      OBVIOUS
    <2>2. new.status # old.status /\ row'[g].status = new.status
      BY <1>1, <2>1
    <2>3. new.status \in DOMAIN Announcements /\ t \in Announcements[new.status]
      BY <2>2, AnnouncementTypes DEF Transaction
    <2>4. QED
      BY <1>2, <2>2, <2>3, AnnouncementTypes
  <1>4. row'[g].deleted # row[g].deleted => Announces(g, {"deleted"})
    BY <1>1, <1>2, AnnouncementTypes DEF Transaction
  <1>5. row'[g].count # row[g].count \/ versions'[g] # versions[g] =>
          Announces(g, {"uploaded", "ready", "restored"})
    BY <1>1, <1>2, AnnouncementTypes DEF Transaction
  <1>6. ASSUME NEW s \in DOMAIN Announcements, Announces(g, Announcements[s]),
               row'[g].status # s
        PROVE  CommitsStale(g, s)
    <2>1. new.status = s
      BY <1>2, <1>6, AnnouncementTypes DEF Transaction
    <2>2. old.status = s /\ row[g].status # s
      BY <1>1, <1>6, <2>1
    <2>3. QED
      BY <2>2 DEF Transaction, Computed, CommitsStale
  <1>7. QED
    BY <1>3, <1>4, <1>5, <1>6 DEF Told

\* Every step announces what it commits about every file.
LEMMA ToldStep ==
  ASSUME TypeOK, CfgRead, BlankInv, [Next]_vars, NEW g \in File
  PROVE  Told(g)
  <1>1. CASE UNCHANGED <<row, versions, outbox>>
    BY <1>1, ToldOther
  <1>2. ASSUME NEW q \in Request, InitOf(q)
        PROVE  Told(g)
    <2>1. PICK f \in File : Insert(f) /\ Publish("upload.initiated", f)
      BY <1>2 DEF InitOf
    <2>2. CASE g = f
      BY <2>1, <2>2, ToldInsert
    <2>3. CASE g # f
      <3>1. row'[g] = row[g] /\ versions'[g] = versions[g] /\ "upload.initiated" \in EventType
        BY <2>1, <2>3 DEF Insert, TypeOK, EventType
      <3>2. QED
        BY <2>1, <2>3, <3>1, ToldOther
    <2>4. QED
      BY <2>2, <2>3
  <1>3. ASSUME NEW f \in File, NEW old \in Row, NEW new \in Row, NEW t \in EventType,
               Transaction(f, old, new, t)
        PROVE  Told(g)
    <2>1. CASE g = f
      BY <1>3, <2>1, ToldTransaction
    <2>2. CASE g # f
      <3>1. row'[g] = row[g] /\ versions'[g] = versions[g] /\ Publish(t, f)
        BY <1>3, <2>2 DEF Transaction, Flush, TypeOK
      <3>2. QED
        BY <2>2, <3>1, ToldOther
    <2>3. QED
      BY <2>1, <2>2
  <1>4. QED
    BY <1>1, <1>2, <1>3, StepTransaction DEF Transacted

\* No commit of FileService or of the pipeline changes a file silently, and an event
\* that does not say what the row says was computed from a row that has changed since.
THEOREM StatusesAreAnnounced == Spec => StatusAnnounced
  <1>1. TypeOK /\ CfgRead /\ BlankInv /\ [Next]_vars => [\A f \in File : Told(f)]_vars
    BY ToldStep
  <1>2. TypeOK /\ ExistInv /\ BlankInv /\ [Next]_vars => ExistInv' /\ BlankInv'
    BY ExistStep, BlankStep
  <1>3. TypeOK /\ CfgRead /\ [Next]_vars => CfgRead'
    BY CfgStep
  <1>4. QED
    BY <1>1, <1>2, <1>3, CfgInit, ExistInit, BlankInit, TypeCorrect, PTL
       DEF Spec, StatusAnnounced, Told

-----------------------------------------------------------------------------
\* A step that makes infected bytes "ready" is a restore.
LEMMA InfectedStep ==
  ASSUME TypeOK, CfgRead, [Next]_vars, \A c \in Config : c.scan,
         NEW g \in Infected \cap File, row[g].status # "ready", row'[g].status = "ready"
  PROVE  Announces(g, {"restored"})
  <1>1. ASSUME NEW q \in Request, InitOf(q)
        PROVE  FALSE
    <2>1. PICK f \in File : Insert(f)
      BY <1>1 DEF InitOf
    <2>2. QED
      BY <2>1 DEF Insert, TypeOK, NoRow
  <1>2. ASSUME NEW f \in File, NEW old \in Row, NEW new \in Row, NEW t \in EventType,
               Transaction(f, old, new, t), Scanned(f, old, new, t)
        PROVE  Announces(g, {"restored"})
    <2>1. Publish(t, f) /\ Flush(f, old, new)
      BY <1>2 DEF Transaction
    <2>2. g = f /\ new.status # old.status /\ new.status = "ready"
      BY <2>1 DEF Flush, TypeOK
    <2>3. t = "restored"
      BY <1>2, <2>2 DEF Scanned
    <2>4. QED
      BY <2>1, <2>2, <2>3, AnnouncesOne, AnnouncementTypes
  <1>3. QED
    BY <1>1, <1>2, StepTransaction DEF Transacted

\* While every config enables scanning, infected bytes become "ready" only in a commit
\* of restore_version.
THEOREM InfectedOnlyByRestore == Spec => InfectedReadyOnlyByRestore
  <1>1. TypeOK /\ CfgRead /\ [Next]_vars =>
          [(\A c \in Config : c.scan) =>
             \A f \in Infected \cap File :
               row'[f].status = "ready" /\ row[f].status # "ready" =>
                 Announces(f, {"restored"})]_vars
    BY InfectedStep
  <1>2. TypeOK /\ CfgRead /\ [Next]_vars => CfgRead'
    BY CfgStep
  <1>3. QED
    BY <1>1, <1>2, CfgInit, TypeCorrect, PTL DEF Spec, InfectedReadyOnlyByRestore

-----------------------------------------------------------------------------
(***************************************************************************)
(* The check-then-insert of init_upload.  A request that has passed the    *)
(* check is about to insert; counted with the files in flight, those       *)
(* requests stay below the limit and the number of request slots.          *)
(***************************************************************************)

FlightInv ==
  /\ IsFiniteSet(InFlight)
  /\ MaxInFlight # 0 =>
       Cardinality(InFlight) + Cardinality(Admitted) < MaxInFlight + Cardinality(Request)

\* The slots that have passed the check are finitely many, before and after a step.
LEMMA AdmittedFinite ==
  /\ IsFiniteSet(Request) /\ Cardinality(Request) \in Nat
  /\ IsFiniteSet(Admitted) /\ Cardinality(Admitted) \in Nat
  /\ Cardinality(Admitted) <= Cardinality(Request)
  /\ IsFiniteSet(Admitted') /\ Cardinality(Admitted') \in Nat
  /\ Cardinality(Admitted') <= Cardinality(Request)
  <1>1. Admitted \subseteq Request /\ Admitted' \subseteq Request
    BY DEF Admitted
  <1>2. QED
    BY <1>1, BoundAssumption, FS_Subset, FS_CardinalityType

\* Who passes the check, and when.
LEMMA AdmittedStep ==
  ASSUME TypeOK, [Next]_vars
  PROVE  \/ Admitted' \subseteq Admitted
         \/ /\ UNCHANGED row
            /\ MaxInFlight # 0 => ~(Cardinality(InFlight) >= MaxInFlight)
  <1>1. ASSUME NEW q \in Request, RequestStep(q)
        PROVE  \/ Admitted' \subseteq Admitted
               \/ /\ UNCHANGED row
                  /\ MaxInFlight # 0 => ~(Cardinality(InFlight) >= MaxInFlight)
    <2>1. CASE begin_init(q) \/ begin_file_op(q)
      <3>1. PICK x : x.pc = "config" /\ req' = [req EXCEPT ![q] = x]
        BY <2>1 DEF begin_init, begin_file_op, get_file_service
      <3>2. QED
        BY <3>1 DEF Admitted, TypeOK
    <2>2. CASE init_check(q)
      <3>1. CASE req' = [req EXCEPT ![q] = IdleRequest]
        BY <3>1 DEF Admitted, TypeOK, IdleRequest
      <3>2. CASE req' # [req EXCEPT ![q] = IdleRequest]
        BY <2>2, <3>2 DEF init_check
      <3>3. QED
        BY <3>1, <3>2
    <2>3. CASE read_file(q)
      BY <2>3 DEF read_file, Admitted, TypeOK, RequestType, IdleRequest
    <2>4. CASE req' = [req EXCEPT ![q] = IdleRequest]
      BY <2>4 DEF Admitted, TypeOK, IdleRequest
    <2>5. QED
      BY <1>1, <2>1, <2>2, <2>3, <2>4
         DEF RequestStep, init_upload, confirm_upload, restore_version, delete_file,
             abandon_request, Respond
  <1>2. (\E q \in Request : RequestStep(q)) \/ UNCHANGED req
    <2>1. CASE update_processing_config \/ UNCHANGED vars
      BY <2>1 DEF update_processing_config, vars
    <2>2. CASE Relay \/ RelayLost
      BY <2>2 DEF Relay, RelayLost, poll_and_publish
    <2>3. CASE Deliver \/ Redeliver
      BY <2>3 DEF Deliver, Redeliver, deliver, redeliver, StartRun
    <2>4. ASSUME NEW r \in Run, RunStep(r) \/ lose_run(r)
          PROVE  UNCHANGED req
      BY <2>4 DEF RunStep, execute_get, execute_config, execute_commit, execute_raise,
                  mark_failed_get, mark_failed, mark_failed_error, ack, lose_run, Local
    <2>5. QED
      BY <2>1, <2>2, <2>3, <2>4 DEF Next
  <1>3. UNCHANGED req => Admitted' \subseteq Admitted
    BY DEF Admitted
  <1>4. QED
    BY <1>1, <1>2, <1>3

\* The commits that do not insert a file leave no more files in flight.
LEMMA FewerInFlight ==
  ASSUME TypeOK, TypeOK', UNCHANGED <<row, outbox>> \/ Transacted
  PROVE  InFlight' \subseteq InFlight
  <1>1. CASE UNCHANGED <<row, outbox>>
    BY <1>1 DEF InFlight
  <1>2. ASSUME NEW f \in File, NEW old \in Row, NEW new \in Row, NEW t \in EventType,
               Transaction(f, old, new, t)
        PROVE  InFlight' \subseteq InFlight
    <2> SUFFICES ASSUME NEW g \in File, row'[g].status = "pending", ~row'[g].deleted
                 PROVE  row[g].status = "pending" /\ ~row[g].deleted
      BY DEF InFlight
    <2>1. /\ g # f => row'[g] = row[g]
          /\ g = f => /\ row'[g].status = IF new.status # old.status THEN new.status
                                          ELSE row[g].status
                      /\ row'[g].deleted = IF new.deleted # old.deleted THEN new.deleted
                                           ELSE row[g].deleted
      BY <1>2 DEF Transaction, Flush, TypeOK
    <2>2. new.status # old.status => new.status # "pending"
      BY <1>2 DEF Transaction
    <2>3. new.deleted # old.deleted => new.deleted
      BY <1>2 DEF Transaction
    <2>4. QED
      BY <2>1, <2>2, <2>3
  <1>3. QED
    BY <1>1, <1>2 DEF Transacted

\* A step puts at most one more file in flight, and only one whose request has
\* counted those in flight.
LEMMA FlightStep ==
  ASSUME TypeOK, TypeOK', CfgRead, FlightInv, [Next]_vars
  PROVE  FlightInv'
  <1> DEFINE x == Cardinality(InFlight)
             y == Cardinality(InFlight')
             a == Cardinality(Admitted)
             b == Cardinality(Admitted')
             c == Cardinality(Request)
  <1>1. /\ x \in Nat /\ a \in Nat /\ b \in Nat /\ c \in Nat /\ b <= c /\ MaxInFlight \in Nat
        /\ MaxInFlight # 0 => x + a < MaxInFlight + c
    BY AdmittedFinite, BoundAssumption, FS_CardinalityType DEF FlightInv
  <1>2. ASSUME NEW q \in Request, InitOf(q)
        PROVE  FlightInv'
    <2>1. PICK f \in File : Insert(f)
      BY <1>2 DEF InitOf
    <2>2. InFlight' \subseteq InFlight \cup {f}
      BY <2>1 DEF InFlight, Insert, TypeOK
    <2>3. IsFiniteSet(InFlight \cup {f}) /\ Cardinality(InFlight \cup {f}) <= x + 1
      <3>1. IsFiniteSet(InFlight)
        BY DEF FlightInv
      <3>2. IsFiniteSet(InFlight \cup {f})
        BY <3>1, FS_AddElement
      <3>3. Cardinality(InFlight \cup {f}) = IF f \in InFlight THEN x ELSE x + 1
        BY <3>1, FS_AddElement, Zenon
      <3> HIDE DEF x
      <3>4. QED
        BY <1>1, <3>2, <3>3
    <2>4. IsFiniteSet(InFlight') /\ y \in Nat /\ y <= Cardinality(InFlight \cup {f})
      BY <2>2, <2>3, FS_Subset, FS_CardinalityType
    <2>5. q \in Admitted /\ Admitted' \subseteq Admitted \ {q}
      BY <1>2 DEF InitOf, Admitted, TypeOK, IdleRequest
    <2>6. b <= a - 1
      <3>1. IsFiniteSet(Admitted) /\ IsFiniteSet(Admitted \ {q})
        BY AdmittedFinite, FS_Subset
      <3>2. Cardinality(Admitted \ {q}) = IF q \in Admitted THEN a - 1 ELSE a
        BY <3>1, FS_RemoveElement, Zenon
      <3>3. b <= Cardinality(Admitted \ {q})
        BY <2>5, <3>1, FS_Subset
      <3>4. QED
        BY <2>5, <3>2, <3>3
    <2>7. Cardinality(InFlight \cup {f}) \in Nat
      BY <2>3, FS_CardinalityType
    <2>8. MaxInFlight # 0 => y + b < MaxInFlight + c
      <3> HIDE DEF x, y, a, b, c
      <3>1. QED
        BY <1>1, <2>3, <2>4, <2>6, <2>7
    <2>9. QED
      BY <2>4, <2>8 DEF FlightInv
  <1>3. CASE UNCHANGED <<row, outbox>> \/ Transacted
    <2>1. InFlight' \subseteq InFlight
      BY <1>3, FewerInFlight
    <2>2. IsFiniteSet(InFlight') /\ y \in Nat /\ y <= x
      BY <2>1, FS_Subset, FS_CardinalityType DEF FlightInv
    <2>3. CASE Admitted' \subseteq Admitted
      <3>1. b <= a
        BY <2>3, AdmittedFinite, FS_Subset
      <3>2. MaxInFlight # 0 => y + b < MaxInFlight + c
        <4> HIDE DEF x, y, a, b, c
        <4>1. QED
          BY <1>1, <2>2, <3>1
      <3>3. QED
        BY <2>2, <3>2 DEF FlightInv
    <2>4. CASE /\ UNCHANGED row
               /\ MaxInFlight # 0 => ~(Cardinality(InFlight) >= MaxInFlight)
      <3>1. MaxInFlight # 0 => ~(x >= MaxInFlight)
        BY <2>4
      <3>2. MaxInFlight # 0 => y + b < MaxInFlight + c
        <4> HIDE DEF x, y, a, b, c
        <4>1. QED
          BY <1>1, <2>2, <3>1
      <3>3. QED
        BY <2>2, <3>2 DEF FlightInv
    <2>5. QED
      BY <2>3, <2>4, AdmittedStep
  <1>4. QED
    BY <1>2, <1>3, StepTransaction

\* The files in flight exceed max_files_per_request by fewer than there are
\* concurrent requests, for any number of both.
THEOREM OvershootIsBounded == Spec => []InFlightOvershoot
  <1>1. Init => FlightInv
    <2> SUFFICES ASSUME Init
                 PROVE  FlightInv
      OBVIOUS
    <2>1. InFlight = {} /\ Admitted = {}
      BY DEF Init, InFlight, Admitted, NoRow, IdleRequest
    <2>2. IsFiniteSet(InFlight) /\ Cardinality(InFlight) = 0 /\ Cardinality(Admitted) = 0
      BY <2>1, FS_EmptySet
    <2>3. MaxInFlight \in Nat /\ Cardinality(Request) \in Nat
      BY AdmittedFinite, BoundAssumption
    <2>4. QED
      BY <2>2, <2>3 DEF FlightInv
  <1>2. TypeOK /\ TypeOK' /\ CfgRead /\ FlightInv /\ [Next]_vars => FlightInv'
    BY FlightStep
  <1>3. FlightInv => InFlightOvershoot
    <2> SUFFICES ASSUME FlightInv, MaxInFlight # 0
                 PROVE  Cardinality(InFlight) < MaxInFlight + Cardinality(Request)
      BY DEF InFlightOvershoot
    <2>1. /\ Cardinality(InFlight) \in Nat /\ Cardinality(Admitted) \in Nat
          /\ Cardinality(Request) \in Nat /\ MaxInFlight \in Nat
      BY AdmittedFinite, BoundAssumption, FS_CardinalityType DEF FlightInv
    <2>2. QED
      BY <2>1 DEF FlightInv
  <1>4. QED
    BY <1>1, <1>2, <1>3, CfgInit, CfgStep, TypeCorrect, PTL DEF Spec

=============================================================================
