--------------------------- MODULE UploadFlowProofs ---------------------------
(***************************************************************************)
(* Proofs about uploads: the upload that a client drives (UploadFlow) for  *)
(* any number of concurrent handlers, parts, retries and resumes, and the  *)
(* calls of the GCS provider (GcsCompose).                                 *)
(***************************************************************************)
EXTENDS Uploads, Integers, Sequences, SequenceTheorems, WellFoundedInduction, TLAPS

Committing(s) == handler[s].pc = "commit"

\* Before init_upload has answered there is nothing.
NothingYet ==
  client.pc \in {"idle", "init"} =>
    /\ file \in {"none", "pending"} /\ ~object /\ ~open /\ late = {}
    /\ \A s \in Slot : handler[s].pc = "idle"
    /\ row # "done" /\ ~abortAcked

\* The client waits for a handler of the kind it has asked for.
WaitsForItsOwn ==
  /\ client.req # NoSlot =>
       /\ client.pc \in {"finish", "abort"}
       /\ handler[client.req].pc # "idle"
       /\ client.pc = "abort" <=> handler[client.req].op = "abort"

\* Only multipart uploads are completed and aborted.
RightOps ==
  /\ client.pc \in {"abort", "abort_again"} => isMultipart
  /\ client.pc \in {"again", "abort_again"} => kind \in {"node", "session"}
  /\ abortSent \/ abortAcked => isMultipart
  /\ \A s \in Slot : handler[s].pc # "idle" =>
       /\ handler[s].op = "abort" => abortSent
       /\ IF isMultipart THEN handler[s].op \in {"complete", "abort"}
          ELSE handler[s].op = "confirm" /\ handler[s].pc # "provider"

OnlyOne(s) == \A t \in Slot \ {s} : ~Committing(t)

\* S3 closes an upload once, and until it does nothing has been decided: the
\* one handler whose call closed it commits.
Closing(s) ==
  /\ ~open /\ file = "pending" /\ handler[s].seen = "pending"
  /\ OnlyOne(s)
  /\ IF handler[s].op = "abort" THEN ~object /\ parts = {} ELSE object

ClosedOnce ==
  provider = "s3" /\ isMultipart =>
    /\ open => /\ file = "pending" /\ ~object
               /\ \A s \in Slot : /\ ~Committing(s)
                                  /\ handler[s].pc = "provider" => handler[s].seen = "pending"
    /\ \A s \in Slot : Committing(s) => Closing(s)
    /\ file = "failed" => ~open /\ ~object /\ parts = {} /\ \A s \in Slot : ~Committing(s)
    /\ file = "confirmed" => ~open /\ object /\ \A s \in Slot : ~Committing(s)
    /\ \A s \in Slot : handler[s].pc = "ok" => file = Outcome(handler[s].op)
    /\ abortAcked => file = "failed"

\* What is confirmed, or about to be, is stored.
Stored ==
  kind # "node" /\ (provider # "azure" \/ ~abortSent) =>
    /\ file = "confirmed" => object
    /\ \A s \in Slot : Committing(s) /\ handler[s].op # "abort" => object

\* Without an abort a confirmed file stays confirmed.
StaysConfirmed ==
  ~abortSent =>
    \A s \in Slot :
      handler[s].pc \in {"provider", "commit"} /\ handler[s].seen = "confirmed" => file = "confirmed"

DoneIsConfirmed ==
  provider = "s3" \/ ~abortSent =>
    /\ row = "done" => file = "confirmed"
    /\ \A s \in Slot : handler[s].pc = "ok" /\ handler[s].op # "abort" => file = "confirmed"

Inv == /\ TypeOK /\ NothingYet /\ WaitsForItsOwn /\ RightOps
       /\ ClosedOnce /\ Stored /\ StaysConfirmed /\ DoneIsConfirmed

-----------------------------------------------------------------------------
(***************************************************************************)
(* Types                                                                   *)
(***************************************************************************)

LEMMA IdleTypes == IdleClient \in ClientType /\ IdleHandler \in HandlerType
  BY DEF IdleClient, IdleHandler, ClientType, HandlerType, Status

\* A request is sent by a client of any kind.
LEMMA SendType ==
  ASSUME TypeOK, NEW s \in Slot, NEW h \in [Slot -> HandlerType],
         NEW pc \in {"finish", "abort"}, NEW op \in {"confirm", "complete", "abort"},
         Send(s, pc, op, h)
  PROVE  client' \in ClientType /\ handler' \in [Slot -> HandlerType] /\ abortSent' \in BOOLEAN
  <1>1. handler' = Sent(s, op, h) /\ client' = [client EXCEPT !.pc = pc, !.req = s]
    BY DEF Send
  <1>2. [pc |-> IF op = "confirm" THEN "commit" ELSE "provider", op |-> op, seen |-> file]
          \in HandlerType
    BY DEF TypeOK, HandlerType
  <1>3. Sent(s, op, h) \in [Slot -> HandlerType]
    BY <1>2 DEF Sent
  <1>4. client' \in ClientType
    BY <1>1 DEF TypeOK, ClientType
  <1>5. QED
    BY <1>1, <1>3, <1>4 DEF Send, TypeOK

LEMMA EndedType == TypeOK => Ended \in ClientType
  BY DEF TypeOK, Ended, ClientType

LEMMA FailType ==
  ASSUME TypeOK, NEW h \in [Slot -> HandlerType], Fail(h)
  PROVE  /\ client' \in ClientType /\ handler' \in [Slot -> HandlerType]
         /\ abortSent' \in BOOLEAN /\ row' \in {row, "error", "removed"}
  <1>1. CASE kind = "multipart" /\ client.pc # "abort"
    BY <1>1, SendType DEF Fail
  <1>2. CASE ~(kind = "multipart" /\ client.pc # "abort")
    BY <1>2, EndedType DEF Fail, Shown, TypeOK
  <1>3. QED
    BY <1>1, <1>2

LEMMA NextPutType ==
  ASSUME TypeOK, NextPut
  PROVE  /\ client' \in ClientType /\ handler' \in [Slot -> HandlerType]
         /\ abortSent' \in BOOLEAN /\ row' \in {row, "confirming", "removed"}
  <1>1. CASE client.part < PartCount
    BY <1>1 DEF NextPut, TypeOK, ClientType
  <1>2. CASE ~(client.part < PartCount)
    <2>1. PICK s \in Slot : Send(s, "finish", FinishOp, handler)
      BY <1>2 DEF NextPut
    <2>2. FinishOp \in {"confirm", "complete", "abort"}
      BY DEF FinishOp
    <2>3. client' \in ClientType /\ handler' \in [Slot -> HandlerType] /\ abortSent' \in BOOLEAN
      BY <2>1, <2>2, SendType DEF TypeOK
    <2>4. QED
      BY <1>2, <2>3 DEF NextPut, Shown
  <1>3. QED
    BY <1>1, <1>2

LEMMA LandType ==
  ASSUME TypeOK, NEW k \in Nat, Land(k)
  PROVE  parts' \subseteq Nat /\ object' \in BOOLEAN
  BY DEF TypeOK, Land

LEMMA StoreType ==
  ASSUME TypeOK, NEW op, StoreCall(op)
  PROVE  parts' \subseteq Nat /\ object' \in BOOLEAN /\ open' \in BOOLEAN
  BY DEF TypeOK, StoreCall, DoComplete, DoAbort

LEMMA AnswerType ==
  ASSUME TypeOK, NEW s \in Slot, NEW a \in {"ok", "error"}, Answer(s, a)
  PROVE  handler' \in [Slot -> HandlerType]
  BY IdleTypes DEF TypeOK, Answer, HandlerType

LEMMA ReleasedType ==
  TypeOK => Released \in [Slot -> HandlerType] /\ Detached \in [Slot -> HandlerType]
  BY IdleTypes DEF TypeOK, Released, Detached

LEMMA BackOffType ==
  ASSUME TypeOK, NEW h \in [Slot -> HandlerType], BackOff(h)
  PROVE  /\ client' \in ClientType /\ handler' \in [Slot -> HandlerType]
         /\ abortSent' \in BOOLEAN /\ row' = row
  <1> DEFINE pc == IF client.pc = "abort" THEN "abort_again" ELSE "again"
  <1>1. client' = [client EXCEPT !.pc = pc, !.attempt = client.attempt + 1, !.req = NoSlot]
    BY DEF BackOff
  <1>2. /\ pc \in {"again", "abort_again"} /\ NoSlot \in Slot \cup {NoSlot}
        /\ client.attempt + 1 \in Nat
    BY DEF TypeOK, ClientType
  <1>3. client' \in ClientType
    <2> HIDE DEF pc
    <2>1. QED
      BY <1>1, <1>2 DEF TypeOK, ClientType
  <1>4. QED
    BY <1>3 DEF BackOff, TypeOK

LEMMA ClientTypes ==
  ASSUME TypeOK, Client
  PROVE  TypeOK'
  <1>1. CASE init_ok
    <2>1. client' \in ClientType
      BY <1>1 DEF init_ok, TypeOK, ClientType
    <2>2. isMultipart \in BOOLEAN
      BY DEF isMultipart
    <2>3. QED
      BY <1>1, <2>1, <2>2 DEF init_ok, TypeOK, Status
  <1>2. CASE init_error
    BY <1>2, EndedType DEF init_error, TypeOK, ClientType, Status, store, Shown
  <1>3. CASE put_ok
    <2>1. client.part \in Nat
      BY DEF TypeOK, ClientType
    <2>2. QED
      BY <1>3, <2>1, LandType, NextPutType DEF put_ok, TypeOK
  <1>4. CASE put_refused
    BY <1>4, NextPutType DEF put_refused, TypeOK, store
  <1>5. CASE put_error
    <2>1. client.part \in Nat /\ handler \in [Slot -> HandlerType]
      BY DEF TypeOK, ClientType
    <2>2. parts' \subseteq Nat /\ late' \subseteq Nat /\ object' \in BOOLEAN /\ open' \in BOOLEAN
      BY <1>5, <2>1, LandType DEF put_error, TypeOK, store
    <2>3. QED
      BY <1>5, <2>1, <2>2, FailType DEF put_error, TypeOK
  <1>6. CASE respond_ok
    BY <1>6, EndedType, ReleasedType DEF respond_ok, TypeOK, store, Shown
  <1>7. CASE respond_error
    BY <1>7, ReleasedType, BackOffType, FailType DEF respond_error, TypeOK, store
  <1>8. CASE lose_response
    BY <1>8, ReleasedType, BackOffType, FailType DEF lose_response, TypeOK, store
  <1>9. CASE again
    <2>1. FinishOp \in {"confirm", "complete", "abort"}
      BY DEF FinishOp
    <2>2. client' \in ClientType /\ handler' \in [Slot -> HandlerType] /\ abortSent' \in BOOLEAN
      BY <1>9, <2>1, SendType DEF again, TypeOK
    <2>3. QED
      BY <1>9, <2>2 DEF again, TypeOK, store
  <1>10. QED
    BY <1>1, <1>2, <1>3, <1>4, <1>5, <1>6, <1>7, <1>8, <1>9 DEF Client

LEMMA BackendTypes ==
  ASSUME TypeOK, NEW s \in Slot, Backend(s)
  PROVE  TypeOK'
  <1>1. CASE call_ok(s)
    <2>1. handler' \in [Slot -> HandlerType]
      BY <1>1 DEF call_ok, TypeOK, HandlerType
    <2>2. QED
      BY <1>1, <2>1, StoreType DEF call_ok, TypeOK
  <1>2. CASE call_error(s)
    <2>1. handler' \in [Slot -> HandlerType]
      BY <1>2, AnswerType DEF call_error
    <2>2. parts' \subseteq Nat /\ object' \in BOOLEAN /\ open' \in BOOLEAN
      BY <1>2, StoreType DEF call_error, TypeOK
    <2>3. QED
      BY <1>2, <2>1, <2>2 DEF call_error, TypeOK
  <1>3. CASE commit(s)
    <2>1. handler' \in [Slot -> HandlerType]
      BY <1>3, AnswerType DEF commit
    <2>2. file' \in Status
      BY <1>3 DEF commit, Outcome, TypeOK, Status
    <2>3. QED
      BY <1>3, <2>1, <2>2 DEF commit, TypeOK, store
  <1>4. CASE roll_back(s)
    <2>1. handler' \in [Slot -> HandlerType]
      BY <1>4, AnswerType DEF roll_back
    <2>2. QED
      BY <1>4, <2>1 DEF roll_back, TypeOK, store
  <1>5. QED
    BY <1>1, <1>2, <1>3, <1>4 DEF Backend

LEMMA TypesAtStart == Init => TypeOK
  <1> SUFFICES ASSUME Init PROVE TypeOK
    OBVIOUS
  <1>1. client \in ClientType /\ handler \in [Slot -> HandlerType]
    BY IdleTypes DEF Init
  <1>2. QED
    BY <1>1 DEF Init, TypeOK, Status

LEMMA TypesStep ==
  ASSUME TypeOK, [Next]_vars
  PROVE  TypeOK'
  <1>1. CASE UNCHANGED vars
    BY <1>1 DEF vars, store, TypeOK
  <1>2. CASE addFiles \/ removeFile \/ cancel
    BY <1>2 DEF addFiles, removeFile, cancel, OnlyRow, store, TypeOK
  <1>3. CASE startUpload
    BY <1>3 DEF startUpload, store, TypeOK, ClientType
  <1>4. CASE resume
    <2>1. client' \in ClientType /\ handler' \in [Slot -> HandlerType] /\ abortSent' \in BOOLEAN
      <3>1. CASE client' = [client EXCEPT !.pc = "put", !.part = 1]
                   /\ UNCHANGED <<handler, abortSent>>
        BY <3>1 DEF TypeOK, ClientType
      <3>2. CASE \E s \in Slot : Send(s, "abort", "abort", handler)
        BY <3>2, SendType DEF TypeOK
      <3>3. QED
        BY <1>4, <3>1, <3>2 DEF resume
    <2>2. QED
      BY <1>4, <2>1 DEF resume, TypeOK, store
  <1>5. CASE arrive_late
    <2>1. PICK k \in late : late' = late \ {k} /\ Land(k)
      BY <1>5 DEF arrive_late
    <2>2. k \in Nat
      BY DEF TypeOK
    <2>3. QED
      BY <1>5, <2>1, <2>2, LandType DEF arrive_late, TypeOK
  <1>6. QED
    BY <1>1, <1>2, <1>3, <1>4, <1>5, ClientTypes, BackendTypes DEF Next

\* Rows, requests, handlers and parts keep their shapes, for any number of
\* handlers, parts, retries and resumes.
THEOREM TypeCorrect == Spec => []TypeOK
  <1>1. Init => TypeOK
    BY TypesAtStart
  <1>2. TypeOK /\ [Next]_vars => TypeOK'
    BY TypesStep
  <1>3. QED
    BY <1>1, <1>2, PTL DEF Spec

-----------------------------------------------------------------------------
(***************************************************************************)
(* What a client may do once init_upload has answered                      *)
(***************************************************************************)

\* A request that has just reached the backend.
Asked(s) ==
  /\ handler'[s].seen = file
  /\ handler'[s].op = "abort" => abortSent'
  /\ IF isMultipart
     THEN handler'[s].pc = "provider" /\ handler'[s].op \in {"complete", "abort"}
     ELSE handler'[s].pc = "commit" /\ handler'[s].op = "confirm" /\ (kind = "node" \/ object')

Requests == \A s \in Slot : handler'[s] \in {handler[s], IdleHandler} \/ Asked(s)

\* The client changes neither the row nor the state of the store's upload; it
\* learns of an outcome from an answer only.
ClientStep ==
  /\ UNCHANGED <<kind, provider, file, open>>
  /\ object => object'
  /\ isMultipart => object' = object /\ (provider = "s3" /\ ~open => parts' = parts)
  /\ Requests
  /\ abortSent => abortSent'
  /\ abortSent' => abortSent \/ isMultipart
  /\ row' = "done" =>
       row = "done" \/ \E s \in Slot : handler[s].pc = "ok" /\ handler[s].op # "abort"
  /\ abortAcked' =>
       abortAcked \/ \E s \in Slot : handler[s].pc = "ok" /\ handler[s].op = "abort"
  /\ client'.pc \in {"idle", "init"} =>
       client.pc \in {"idle", "init"} /\ UNCHANGED <<handler, object, late, abortAcked>>
  /\ client'.pc \in {"abort", "abort_again"} => isMultipart
  /\ client'.pc \in {"again", "abort_again"} => kind \in {"node", "session"}
  /\ WaitsForItsOwn'

LEMMA SendAsks ==
  ASSUME Inv, NEW s \in Slot, NEW h \in [Slot -> HandlerType],
         \A t \in Slot : h[t] \in {handler[t], IdleHandler},
         NEW pc \in {"finish", "abort"},
         NEW op \in IF isMultipart THEN {"complete", "abort"} ELSE {"confirm"},
         pc = "abort" <=> op = "abort",
         isMultipart \/ kind = "node" \/ object',
         Send(s, pc, op, h)
  PROVE  /\ Requests /\ WaitsForItsOwn'
         /\ client'.pc = pc
         /\ abortSent' = (abortSent \/ op = "abort")
  <1> DEFINE request == [pc |-> IF op = "confirm" THEN "commit" ELSE "provider",
                         op |-> op, seen |-> file]
  <1>1. /\ handler' = [h EXCEPT ![s] = request]
        /\ client' = [client EXCEPT !.pc = pc, !.req = s]
        /\ abortSent' = (abortSent \/ op = "abort")
    BY DEF Send, Sent
  <1>2. client'.pc = pc /\ client'.req = s
    BY <1>1 DEF Inv, TypeOK, ClientType
  <1>3. handler'[s] = request /\ \A t \in Slot \ {s} : handler'[t] = h[t]
    BY <1>1
  <1>4. Asked(s)
    BY <1>1, <1>3 DEF Asked
  <1>5. Requests
    BY <1>3, <1>4 DEF Requests
  <1>6. WaitsForItsOwn'
    BY <1>2, <1>3 DEF WaitsForItsOwn
  <1>7. QED
    BY <1>1, <1>2, <1>5, <1>6

\* Between two requests the client waits for nothing.
LEMMA NotWaiting ==
  ASSUME Inv, client.pc \notin {"finish", "abort"}
  PROVE  client.req = NoSlot
  BY DEF Inv, WaitsForItsOwn

LEMMA FailSteps ==
  ASSUME Inv, NEW h \in [Slot -> HandlerType],
         \A t \in Slot : h[t] \in {handler[t], IdleHandler}, Fail(h)
  PROVE  /\ Requests /\ WaitsForItsOwn'
         /\ client'.pc = "end" \/ (client'.pc = "abort" /\ isMultipart)
         /\ abortSent => abortSent'
         /\ abortSent' => abortSent \/ isMultipart
         /\ row' = "done" => row = "done"
  <1>1. CASE kind = "multipart" /\ client.pc # "abort"
    <2>1. isMultipart /\ UNCHANGED row
      BY <1>1 DEF isMultipart, Fail
    <2>2. PICK s \in Slot : Send(s, "abort", "abort", h)
      BY <1>1 DEF Fail
    <2>3. /\ Requests /\ WaitsForItsOwn' /\ client'.pc = "abort"
          /\ abortSent' = (abortSent \/ "abort" = "abort")
      BY <2>1, <2>2, SendAsks
    <2>4. QED
      BY <2>1, <2>3
  <1>2. CASE ~(kind = "multipart" /\ client.pc # "abort")
    <2>1. handler' = h /\ client' = Ended /\ row' = Shown("error") /\ UNCHANGED abortSent
      BY <1>2 DEF Fail
    <2>2. client'.pc = "end" /\ client'.req = NoSlot
      BY <2>1 DEF Ended, Inv, TypeOK, ClientType
    <2>3. Requests
      BY <2>1 DEF Requests
    <2>4. WaitsForItsOwn'
      BY <2>2 DEF WaitsForItsOwn
    <2>5. row' = "done" => row = "done"
      BY <2>1 DEF Shown
    <2>6. (abortSent => abortSent') /\ (abortSent' => abortSent \/ isMultipart)
      BY <2>1
    <2>7. QED
      BY <2>2, <2>3, <2>4, <2>5, <2>6
  <1>3. QED
    BY <1>1, <1>2

LEMMA NextPutSteps ==
  ASSUME Inv, client.pc = "put", NextPut, isMultipart \/ kind = "node" \/ object'
  PROVE  /\ Requests /\ WaitsForItsOwn'
         /\ client'.pc \in {"put", "finish"}
         /\ UNCHANGED abortSent
         /\ row' = "done" => row = "done"
  <1>1. CASE client.part < PartCount
    <2>1. client' = [client EXCEPT !.part = @ + 1] /\ UNCHANGED <<row, handler, abortSent>>
      BY <1>1 DEF NextPut
    <2>2. client'.pc = "put" /\ client'.req = NoSlot
      BY <2>1, NotWaiting DEF Inv, TypeOK, ClientType
    <2>3. QED
      BY <2>1, <2>2 DEF Requests, WaitsForItsOwn
  <1>2. CASE ~(client.part < PartCount)
    <2>1. PICK s \in Slot : Send(s, "finish", FinishOp, handler)
      BY <1>2 DEF NextPut
    <2>2. FinishOp \in (IF isMultipart THEN {"complete", "abort"} ELSE {"confirm"}) /\ FinishOp # "abort"
      BY DEF FinishOp
    <2>3. handler \in [Slot -> HandlerType]
      BY DEF Inv, TypeOK
    <2>4. /\ Requests /\ WaitsForItsOwn' /\ client'.pc = "finish"
          /\ abortSent' = (abortSent \/ FinishOp = "abort")
      BY <2>1, <2>2, <2>3, SendAsks
    <2>5. row' = "done" => row = "done"
      BY <1>2 DEF NextPut, Shown
    <2>6. abortSent' = abortSent
      BY <2>2, <2>4 DEF Inv, TypeOK
    <2>7. QED
      BY <2>4, <2>5, <2>6
  <1>3. QED
    BY <1>1, <1>2

LEMMA BackOffSteps ==
  ASSUME Inv, NEW h \in [Slot -> HandlerType],
         \A t \in Slot : h[t] \in {handler[t], IdleHandler}, BackOff(h), Retries
  PROVE  /\ Requests /\ WaitsForItsOwn'
         /\ client'.pc \in {"again", "abort_again"}
         /\ client'.pc = "abort_again" => isMultipart
         /\ kind \in {"node", "session"}
         /\ UNCHANGED <<row, abortSent>>
  <1> DEFINE pc == IF client.pc = "abort" THEN "abort_again" ELSE "again"
  <1>1. /\ client' = [client EXCEPT !.pc = pc, !.attempt = client.attempt + 1, !.req = NoSlot]
        /\ handler' = h /\ UNCHANGED <<row, abortSent>>
    BY DEF BackOff
  <1>2. client'.pc = pc /\ client'.req = NoSlot
    <2> HIDE DEF pc
    <2>1. QED
      BY <1>1 DEF Inv, TypeOK, ClientType
  <1>3. Requests
    BY <1>1 DEF Requests
  <1>4. WaitsForItsOwn'
    BY <1>2 DEF WaitsForItsOwn
  <1>5. pc = "abort_again" => isMultipart
    BY DEF Inv, RightOps
  <1>6. QED
    BY <1>1, <1>2, <1>3, <1>4, <1>5 DEF Retries

LEMMA ReleasedIdle ==
  ASSUME Inv, client.req # NoSlot
  PROVE  \A t \in Slot : Released[t] \in {handler[t], IdleHandler} /\ Detached[t] \in {handler[t], IdleHandler}
  BY DEF Inv, TypeOK, ClientType, Released, Detached

\* Every step of the client but init_upload's, and a part that arrives late.
ClientActs ==
  \/ addFiles \/ removeFile \/ cancel \/ startUpload \/ resume \/ arrive_late
  \/ put_ok \/ put_refused \/ put_error \/ respond_ok \/ respond_error
  \/ lose_response \/ again

LEMMA ClientSteps ==
  ASSUME Inv, ClientActs
  PROVE  ClientStep
  <1> USE DEF Inv
  <1>0. handler \in [Slot -> HandlerType]
    BY DEF TypeOK
  <1>1. CASE addFiles \/ removeFile \/ cancel
    <2>1. OnlyRow /\ (row' = "done" => row = "done")
      BY <1>1 DEF addFiles, removeFile, cancel
    <2>2. Requests /\ WaitsForItsOwn'
      BY <2>1 DEF OnlyRow, Requests, WaitsForItsOwn
    <2>3. UNCHANGED <<kind, provider, client, handler, file, open, parts, object, late, abortSent, abortAcked>>
      BY <2>1 DEF OnlyRow, store
    <2>4. QED
      BY <2>1, <2>2, <2>3 DEF ClientStep, RightOps
  <1>2. CASE startUpload
    <2>1. client'.pc = "init" /\ client'.req = NoSlot /\ row' # "done" /\ client.pc = "idle"
      BY <1>2, NotWaiting DEF startUpload, TypeOK, ClientType
    <2>2. UNCHANGED <<kind, provider, handler, file, open, parts, object, late, abortSent, abortAcked>>
      BY <1>2 DEF startUpload, store
    <2>3. Requests /\ WaitsForItsOwn'
      BY <2>1, <2>2 DEF Requests, WaitsForItsOwn
    <2>4. QED
      BY <2>1, <2>2, <2>3 DEF ClientStep
  <1>3. CASE resume
    <2>1. /\ isMultipart /\ client.pc = "end" /\ row' # "done"
          /\ UNCHANGED <<kind, provider, file, open, parts, object, abortAcked>>
      BY <1>3 DEF resume, isMultipart, store
    <2>2. CASE client' = [client EXCEPT !.pc = "put", !.part = 1] /\ UNCHANGED <<handler, abortSent>>
      <3>1. client'.pc = "put" /\ client'.req = NoSlot
        BY <2>1, <2>2, NotWaiting DEF TypeOK, ClientType
      <3>2. Requests /\ WaitsForItsOwn'
        BY <2>2, <3>1 DEF Requests, WaitsForItsOwn
      <3>3. QED
        BY <2>1, <2>2, <3>1, <3>2 DEF ClientStep
    <2>3. CASE \E s \in Slot : Send(s, "abort", "abort", handler)
      <3>1. /\ Requests /\ WaitsForItsOwn' /\ client'.pc = "abort"
            /\ abortSent' = (abortSent \/ "abort" = "abort")
        BY <1>0, <2>1, <2>3, SendAsks
      <3>2. QED
        BY <2>1, <3>1 DEF ClientStep
    <2>4. QED
      BY <1>3, <2>2, <2>3 DEF resume
  <1>4. CASE arrive_late
    <2>1. PICK k \in late : Land(k)
      BY <1>4 DEF arrive_late
    <2>2. UNCHANGED <<kind, provider, row, client, handler, file, open, abortSent, abortAcked>>
      BY <1>4 DEF arrive_late
    <2>3. client.pc \notin {"idle", "init"}
      BY <2>1 DEF NothingYet
    <2>4. Requests /\ WaitsForItsOwn'
      BY <2>2 DEF Requests, WaitsForItsOwn
    <2>5. (object => object') /\ (isMultipart => object' = object /\ (provider = "s3" /\ ~open => parts' = parts))
      BY <2>1 DEF Land
    <2>6. QED
      BY <2>2, <2>3, <2>4, <2>5 DEF ClientStep, RightOps
  <1>5. CASE put_ok
    <2>1. /\ client.pc = "put" /\ Land(client.part) /\ NextPut
          /\ UNCHANGED <<kind, provider, file, open, late, abortAcked>>
      BY <1>5 DEF put_ok
    <2>2. /\ object => object'
          /\ isMultipart => object' = object /\ (provider = "s3" /\ ~open => parts' = parts)
          /\ isMultipart \/ object'
      BY <2>1 DEF Land
    <2>3. QED
      BY <2>1, <2>2, NextPutSteps DEF ClientStep
  <1>6. CASE put_refused
    <2>1. /\ client.pc = "put" /\ kind \in {"node", "session"} /\ NextPut
          /\ UNCHANGED <<kind, provider, file, open, parts, object, late, abortAcked>>
      BY <1>6 DEF put_refused, store
    <2>2. isMultipart \/ kind = "node"
      BY <2>1 DEF isMultipart
    <2>3. QED
      BY <2>1, <2>2, NextPutSteps DEF ClientStep
  <1>7. CASE put_error
    <2>1. Fail(handler) /\ client.pc = "put" /\ UNCHANGED <<kind, provider, file, abortAcked>>
      BY <1>7 DEF put_error
    <2>2. /\ open' = open /\ (object => object')
          /\ isMultipart => object' = object /\ (provider = "s3" /\ ~open => parts' = parts)
      BY <1>7 DEF put_error, Land, store
    <2>3. QED
      BY <1>0, <2>1, <2>2, FailSteps DEF ClientStep
  <1>8. CASE respond_ok
    <2>1. /\ client.req \in Slot /\ handler[client.req].pc = "ok"
          /\ handler' = Released /\ client' = Ended
          /\ UNCHANGED <<kind, provider, file, open, parts, object, late, abortSent>>
          /\ abortAcked' = (abortAcked \/ client.pc = "abort")
      BY <1>8 DEF respond_ok, TypeOK, ClientType, store
    <2>2. client.pc = "abort" <=> handler[client.req].op = "abort"
      BY <2>1, UploadAssumption DEF WaitsForItsOwn
    <2>3. row' = "done" => row = "done" \/ client.pc # "abort"
      BY <1>8 DEF respond_ok, Shown
    <2>4. client'.pc = "end" /\ client'.req = NoSlot
      BY <2>1 DEF Ended, TypeOK, ClientType
    <2>5. Requests /\ WaitsForItsOwn'
      BY <2>1, <2>4, ReleasedIdle, UploadAssumption DEF Requests, WaitsForItsOwn
    <2>6. /\ abortAcked' => abortAcked \/ \E s \in Slot : handler[s].pc = "ok" /\ handler[s].op = "abort"
          /\ row' = "done" => row = "done" \/ \E s \in Slot : handler[s].pc = "ok" /\ handler[s].op # "abort"
      BY <2>1, <2>2, <2>3
    <2>7. QED
      BY <2>1, <2>4, <2>5, <2>6 DEF ClientStep
  <1>9. CASE respond_error \/ lose_response
    <2>1. /\ client.req # NoSlot
          /\ UNCHANGED <<kind, provider, file, open, parts, object, late, abortAcked>>
      BY <1>9 DEF respond_error, lose_response, store
    <2>2. PICK h \in {Released, Detached} : (Retries /\ BackOff(h)) \/ Fail(h)
      BY <1>9 DEF respond_error, lose_response
    <2>3. h \in [Slot -> HandlerType] /\ \A t \in Slot : h[t] \in {handler[t], IdleHandler}
      BY <2>1, <2>2, ReleasedType, ReleasedIdle
    <2>4. CASE Retries /\ BackOff(h)
      BY <2>1, <2>3, <2>4, BackOffSteps DEF ClientStep
    <2>5. CASE Fail(h)
      BY <2>1, <2>3, <2>5, FailSteps DEF ClientStep
    <2>6. QED
      BY <2>2, <2>4, <2>5
  <1>10. CASE again
    <2>1. UNCHANGED <<kind, provider, row, file, open, parts, object, abortAcked>>
      BY <1>10 DEF again, store
    <2>2. CASE \E s \in Slot : client.pc = "again" /\ Send(s, "finish", FinishOp, handler)
      <3>1. kind \in {"node", "session"}
        BY <2>2 DEF RightOps
      <3>2. /\ FinishOp \in IF isMultipart THEN {"complete", "abort"} ELSE {"confirm"}
            /\ FinishOp # "abort" /\ (isMultipart \/ kind = "node")
        BY <3>1 DEF FinishOp, isMultipart
      <3>3. /\ Requests /\ WaitsForItsOwn' /\ client'.pc = "finish"
            /\ abortSent' = (abortSent \/ FinishOp = "abort")
        BY <1>0, <2>2, <3>2, SendAsks
      <3>4. QED
        BY <2>1, <3>2, <3>3 DEF ClientStep
    <2>3. CASE \E s \in Slot : client.pc = "abort_again" /\ Send(s, "abort", "abort", handler)
      <3>1. isMultipart
        BY <2>3 DEF RightOps
      <3>2. /\ Requests /\ WaitsForItsOwn' /\ client'.pc = "abort"
            /\ abortSent' = (abortSent \/ "abort" = "abort")
        BY <1>0, <2>3, <3>1, SendAsks
      <3>3. QED
        BY <2>1, <3>1, <3>2 DEF ClientStep
    <2>4. QED
      BY <1>10, <2>2, <2>3 DEF again
  <1>11. QED
    BY <1>1, <1>2, <1>3, <1>4, <1>5, <1>6, <1>7, <1>8, <1>9, <1>10 DEF ClientActs

LEMMA ClientKeepsInv ==
  ASSUME Inv, TypeOK', ClientStep
  PROVE  Inv'
  <1> USE DEF Inv
  <1>1. /\ UNCHANGED <<kind, provider, file, open>>
        /\ isMultipart' <=> isMultipart
    BY DEF ClientStep, isMultipart
  <1>2. \A s \in Slot : \/ handler'[s] = handler[s]
                        \/ handler'[s].pc = "idle"
                        \/ Asked(s)
    BY DEF ClientStep, Requests, IdleHandler
  <1>3. \A s \in Slot : Committing(s)' => Committing(s) \/ (Asked(s) /\ ~isMultipart)
    BY <1>2 DEF Committing, Asked
  <1>4. NothingYet'
    BY <1>1 DEF ClientStep, NothingYet
  <1>5. RightOps'
    <2>1. abortAcked' => isMultipart
      BY DEF ClientStep, RightOps
    <2>2. abortSent' => isMultipart
      BY DEF ClientStep, RightOps
    <2>3. ASSUME NEW s \in Slot, handler'[s].pc # "idle"
          PROVE  /\ handler'[s].op = "abort" => abortSent'
                 /\ IF isMultipart THEN handler'[s].op \in {"complete", "abort"}
                    ELSE handler'[s].op = "confirm" /\ handler'[s].pc # "provider"
      <3>1. CASE handler'[s] = handler[s]
        BY <2>3, <3>1 DEF RightOps, ClientStep
      <3>2. CASE Asked(s)
        BY <3>2 DEF Asked
      <3>3. QED
        BY <1>2, <2>3, <3>1, <3>2
    <2>4. QED
      BY <1>1, <2>1, <2>2, <2>3 DEF RightOps, ClientStep
  <1>6. ClosedOnce'
    <2> SUFFICES ASSUME provider = "s3", isMultipart PROVE ClosedOnce'
      BY <1>1 DEF ClosedOnce
    <2>1. object' = object /\ (~open => parts' = parts)
      BY DEF ClientStep
    <2>2. \A s \in Slot : Committing(s)' => Committing(s) /\ handler'[s] = handler[s]
      BY <1>2, <1>3 DEF Committing, Asked
    <2>3. ASSUME NEW s \in Slot, Committing(s)' PROVE Closing(s)'
      <3>1. Closing(s) /\ handler'[s] = handler[s]
        BY <2>2, <2>3 DEF ClosedOnce
      <3>2. QED
        BY <1>1, <2>1, <2>2, <3>1 DEF Closing, OnlyOne
    <2>4. \A s \in Slot : open /\ handler'[s].pc = "provider" => handler'[s].seen = "pending"
      BY <1>2 DEF ClosedOnce, Asked
    <2>5. \A s \in Slot : handler'[s].pc = "ok" => file = Outcome(handler'[s].op)
      BY <1>2 DEF ClosedOnce, Asked
    <2>6. abortAcked' => file = "failed"
      BY DEF ClosedOnce, ClientStep, Outcome
    <2>7. QED
      BY <1>1, <2>1, <2>2, <2>3, <2>4, <2>5, <2>6 DEF ClosedOnce
  <1>7. Stored'
    <2> SUFFICES ASSUME kind # "node", provider # "azure" \/ ~abortSent' PROVE Stored'
      BY <1>1 DEF Stored
    <2>1. provider # "azure" \/ ~abortSent
      BY DEF ClientStep
    <2>2. object => object'
      BY DEF ClientStep
    <2>3. ASSUME NEW s \in Slot, Committing(s)', handler'[s].op # "abort" PROVE object'
      <3>1. CASE Committing(s) /\ handler'[s] = handler[s]
        BY <2>1, <2>2, <2>3, <3>1 DEF Stored
      <3>2. CASE Asked(s) /\ ~isMultipart
        BY <3>2 DEF Asked
      <3>3. QED
        BY <1>2, <2>3, <3>1, <3>2 DEF Committing, Asked
    <2>4. QED
      BY <1>1, <2>1, <2>2, <2>3 DEF Stored
  <1>8. StaysConfirmed'
    BY <1>1, <1>2 DEF StaysConfirmed, ClientStep, Asked
  <1>9. DoneIsConfirmed'
    <2> SUFFICES ASSUME provider = "s3" \/ ~abortSent' PROVE DoneIsConfirmed'
      BY <1>1 DEF DoneIsConfirmed
    <2>1. provider = "s3" \/ ~abortSent
      BY DEF ClientStep
    <2>2. row' = "done" => file = "confirmed"
      BY <2>1 DEF ClientStep, DoneIsConfirmed
    <2>3. \A s \in Slot : handler'[s].pc = "ok" /\ handler'[s].op # "abort" => file = "confirmed"
      BY <1>2, <2>1 DEF DoneIsConfirmed, Asked
    <2>4. QED
      BY <1>1, <2>2, <2>3 DEF DoneIsConfirmed
  <1>10. QED
    BY <1>4, <1>5, <1>6, <1>7, <1>8, <1>9 DEF ClientStep

LEMMA InitUploadKeepsInv ==
  ASSUME Inv, TypeOK', init_ok \/ init_error
  PROVE  Inv'
  <1> USE DEF Inv
  <1>1. /\ file \in {"none", "pending"} /\ ~object /\ ~open /\ late = {} /\ ~abortAcked
        /\ row # "done" /\ client.pc = "init" /\ client.req = NoSlot
        /\ \A s \in Slot : handler[s].pc = "idle"
    BY NotWaiting DEF NothingYet, init_ok, init_error
  <1>2. /\ UNCHANGED <<kind, provider, handler, object, late, abortSent, abortAcked>>
        /\ file' \in {"none", "pending"} /\ row' # "done"
    BY <1>1 DEF init_ok, init_error, store, Shown
  <1>3. /\ open' => isMultipart /\ file' = "pending" /\ client'.pc = "put"
        /\ client'.pc \in {"init", "put", "end"} /\ client'.req = NoSlot
    BY <1>1 DEF init_ok, init_error, store, TypeOK, ClientType, Ended
  <1>4. isMultipart' <=> isMultipart
    BY <1>2 DEF isMultipart
  <1>5. NothingYet' /\ WaitsForItsOwn'
    BY <1>1, <1>2, <1>3 DEF NothingYet, WaitsForItsOwn
  <1>6. RightOps'
    BY <1>1, <1>2, <1>3, <1>4 DEF RightOps
  <1>7. ClosedOnce'
    BY <1>1, <1>2, <1>3, <1>4 DEF ClosedOnce, Committing
  <1>8. Stored' /\ StaysConfirmed' /\ DoneIsConfirmed'
    BY <1>1, <1>2 DEF Stored, StaysConfirmed, DoneIsConfirmed, Committing
  <1>9. QED
    BY <1>5, <1>6, <1>7, <1>8

-----------------------------------------------------------------------------
(***************************************************************************)
(* The backend's steps                                                     *)
(***************************************************************************)

\* What all of them have in common.
BackendStep(s) ==
  /\ UNCHANGED <<kind, provider, row, client, late, abortSent, abortAcked>>
  /\ handler[s].pc \in {"provider", "commit"}
  /\ \A t \in Slot \ {s} : handler'[t] = handler[t]
  /\ handler'[s] = IdleHandler => client.req # s
  /\ handler'[s] # IdleHandler =>
       /\ handler'[s].op = handler[s].op /\ handler'[s].seen = handler[s].seen
       /\ handler'[s].pc \in {"commit", "ok", "error"}

LEMMA AnswerStep ==
  ASSUME TypeOK, NEW s \in Slot, NEW a \in {"ok", "error"}, Answer(s, a)
  PROVE  /\ \A t \in Slot \ {s} : handler'[t] = handler[t]
         /\ handler'[s] = IdleHandler => client.req # s
         /\ handler'[s] # IdleHandler =>
              /\ handler'[s].op = handler[s].op /\ handler'[s].seen = handler[s].seen
              /\ handler'[s].pc = a
  <1>1. handler' = [handler EXCEPT ![s] = IF client.req = s THEN [handler[s] EXCEPT !.pc = a]
                                          ELSE IdleHandler]
    BY DEF Answer
  <1>2. CASE client.req = s
    <2>1. handler'[s] = [handler[s] EXCEPT !.pc = a]
      BY <1>1, <1>2 DEF TypeOK
    <2>2. handler'[s].pc = a /\ handler'[s].op = handler[s].op /\ handler'[s].seen = handler[s].seen
      BY <2>1 DEF TypeOK, HandlerType
    <2>3. QED
      BY <1>1, <2>2 DEF TypeOK, IdleHandler
  <1>3. CASE client.req # s
    BY <1>1, <1>3 DEF TypeOK
  <1>4. QED
    BY <1>2, <1>3

LEMMA BackendSteps ==
  ASSUME TypeOK, NEW s \in Slot, Backend(s)
  PROVE  BackendStep(s)
  <1>1. CASE call_ok(s)
    <2>1. handler' = [handler EXCEPT ![s].pc = "commit"]
      BY <1>1 DEF call_ok
    <2>2. /\ \A t \in Slot \ {s} : handler'[t] = handler[t]
          /\ handler'[s].pc = "commit" /\ handler'[s].op = handler[s].op /\ handler'[s].seen = handler[s].seen
      BY <2>1 DEF TypeOK, HandlerType
    <2>3. handler'[s] # IdleHandler
      BY <2>2 DEF IdleHandler
    <2>4. QED
      BY <1>1, <2>2, <2>3 DEF BackendStep, call_ok
  <1>2. CASE call_error(s)
    BY <1>2, AnswerStep DEF BackendStep, call_error
  <1>3. CASE commit(s)
    BY <1>3, AnswerStep DEF BackendStep, commit, store
  <1>4. CASE roll_back(s)
    BY <1>4, AnswerStep DEF BackendStep, roll_back, store
  <1>5. QED
    BY <1>1, <1>2, <1>3, <1>4 DEF Backend

\* On S3 only the call that finds the upload open does anything.
LEMMA ClosesOpen ==
  ASSUME Inv, provider = "s3", isMultipart,
         NEW s \in Slot, handler[s].pc = "provider", StoreCall(handler[s].op)
  PROVE  /\ open /\ ~open'
         /\ file = "pending" /\ handler[s].seen = "pending"
         /\ \A t \in Slot : ~Committing(t)
         /\ handler[s].op = "abort" => ~object' /\ parts' = {}
         /\ handler[s].op # "abort" => object'
  <1> USE DEF Inv
  <1>1. open
    BY DEF StoreCall, CanComplete, CanAbort
  <1>2. /\ file = "pending" /\ handler[s].seen = "pending" /\ ~object
        /\ \A t \in Slot : ~Committing(t)
    BY <1>1 DEF ClosedOnce
  <1>3. handler[s].op \in {"complete", "abort"}
    BY DEF RightOps
  <1>4. CASE handler[s].op = "complete"
    <2>1. DoComplete
      BY <1>4 DEF StoreCall
    <2>2. QED
      BY <1>1, <1>2, <1>4, <2>1 DEF DoComplete
  <1>5. CASE handler[s].op = "abort"
    <2>1. DoAbort
      BY <1>5 DEF StoreCall
    <2>2. object' = (object /\ provider # "azure") /\ parts' = {} /\ open' = FALSE
      BY <1>2, <2>1 DEF DoAbort
    <2>3. QED
      BY <1>1, <1>2, <1>5, <2>2
  <1>6. QED
    BY <1>3, <1>4, <1>5

LEMMA BackendKeepsClosedOnce ==
  ASSUME Inv, provider = "s3", isMultipart, NEW s \in Slot, Backend(s), BackendStep(s)
  PROVE  ClosedOnce'
  <1> USE DEF Inv
  <1>0. /\ handler[s].op \in {"complete", "abort"}
        /\ \A t \in Slot \ {s} : handler'[t] = handler[t]
        /\ handler'[s] = IdleHandler \/ (handler'[s].op = handler[s].op /\ handler'[s].seen = handler[s].seen)
        /\ UNCHANGED abortAcked
    BY DEF BackendStep, RightOps
  <1>1. CASE call_ok(s)
    <2>1. /\ handler[s].pc = "provider" /\ StoreCall(handler[s].op) /\ UNCHANGED file
          /\ handler' = [handler EXCEPT ![s].pc = "commit"]
      BY <1>1 DEF call_ok
    <2>2. handler'[s].pc = "commit" /\ handler'[s].op = handler[s].op /\ handler'[s].seen = handler[s].seen
      BY <2>1 DEF TypeOK, HandlerType
    <2>3. Closing(s)'
      BY <1>0, <2>1, <2>2, ClosesOpen DEF Closing, OnlyOne, Committing
    <2>4. \A t \in Slot : Committing(t)' => Closing(t)'
      BY <1>0, <2>1, <2>3, ClosesOpen DEF Committing
    <2>5. \A t \in Slot : handler'[t].pc = "ok" => file = Outcome(handler'[t].op)
      BY <1>0, <2>2 DEF ClosedOnce
    <2>6. QED
      BY <1>0, <2>1, <2>4, <2>5, ClosesOpen DEF ClosedOnce
  <1>2. ASSUME handler'[s].pc \in {"idle", "error"}, UNCHANGED file, UNCHANGED <<object, parts, open>>
        PROVE  ClosedOnce'
    <2>1. \A t \in Slot : handler'[t].pc \notin {"idle", "error"} => t # s /\ handler'[t] = handler[t]
      BY <1>0, <1>2
    <2>2. \A t \in Slot : Committing(t)' => Committing(t) /\ handler'[t] = handler[t]
      BY <2>1 DEF Committing
    <2>3. ASSUME NEW t \in Slot, Committing(t)' PROVE Closing(t)'
      BY <1>2, <2>2, <2>3 DEF ClosedOnce, Closing, OnlyOne
    <2>4. QED
      BY <1>0, <1>2, <2>1, <2>2, <2>3 DEF ClosedOnce
  <1>3. CASE call_error(s)
    <2>1. handler'[s].pc \in {"idle", "error"} /\ UNCHANGED file /\ handler[s].pc = "provider"
      BY <1>3, AnswerStep DEF call_error, IdleHandler
    <2>2. CASE StoreCall(handler[s].op)
      <3>1. \A t \in Slot : ~Committing(t)'
        BY <1>0, <2>1, <2>2, ClosesOpen DEF Committing
      <3>2. \A t \in Slot : handler'[t].pc = "ok" => file = Outcome(handler'[t].op)
        BY <1>0, <2>1 DEF ClosedOnce
      <3>3. QED
        BY <1>0, <2>1, <2>2, <3>1, <3>2, ClosesOpen DEF ClosedOnce
    <2>3. CASE UNCHANGED <<object, parts, open>>
      BY <1>2, <2>1, <2>3
    <2>4. QED
      BY <1>3, <2>2, <2>3 DEF call_error
  <1>4. CASE commit(s)
    <2>1. Committing(s) /\ UNCHANGED <<object, parts, open>>
      BY <1>4 DEF commit, Committing, store
    <2>2. Closing(s)
      BY <2>1 DEF ClosedOnce
    <2>3. file' = Outcome(handler[s].op) /\ Outcome(handler[s].op) \in {"failed", "confirmed"}
      BY <1>4, <2>2 DEF commit, Closing, Outcome
    <2>4. handler'[s].pc \in {"idle", "ok"}
      BY <1>4, AnswerStep DEF commit, IdleHandler
    <2>5. \A t \in Slot : ~Committing(t)'
      BY <1>0, <2>2, <2>4 DEF Closing, OnlyOne, Committing
    <2>6. \A t \in Slot \ {s} : handler'[t].pc # "ok"
      BY <1>0, <2>2 DEF Closing, ClosedOnce, Outcome
    <2>7. handler'[s].pc = "ok" => handler'[s].op = handler[s].op
      BY <1>0 DEF IdleHandler
    <2>8. ~abortAcked
      BY <2>2 DEF Closing, ClosedOnce
    <2>9. IF file' = "failed" THEN ~object /\ parts = {} ELSE object
      BY <1>0, <2>2, <2>3 DEF Closing, Outcome
    <2>10. QED
      BY <1>0, <2>1, <2>2, <2>3, <2>5, <2>6, <2>7, <2>8, <2>9 DEF ClosedOnce, Closing
  <1>5. CASE roll_back(s)
    <2>1. handler'[s].pc \in {"idle", "error"} /\ UNCHANGED file /\ UNCHANGED <<object, parts, open>>
      BY <1>5, AnswerStep DEF roll_back, IdleHandler, store
    <2>2. QED
      BY <1>2, <2>1
  <1>6. QED
    BY <1>1, <1>3, <1>4, <1>5 DEF Backend

LEMMA BackendKeepsStored ==
  ASSUME Inv, NEW s \in Slot, Backend(s), BackendStep(s)
  PROVE  Stored'
  <1> USE DEF Inv
  <1> SUFFICES ASSUME kind # "node", provider # "azure" \/ ~abortSent PROVE Stored'
    BY DEF Stored, BackendStep
  <1>1. object => object'
    <2>1. CASE call_ok(s) \/ call_error(s)
      <3>1. handler[s].op = "abort" => abortSent
        BY <2>1 DEF call_ok, call_error, RightOps
      <3>2. StoreCall(handler[s].op) => (object => object')
        <4>1. CASE handler[s].op = "complete"
          BY <4>1 DEF StoreCall, DoComplete
        <4>2. CASE handler[s].op = "abort"
          <5>1. provider # "azure"
            BY <3>1, <4>2
          <5>2. StoreCall(handler[s].op) => object' = (object /\ provider # "azure")
            BY <4>2 DEF StoreCall, DoAbort
          <5>3. QED
            BY <5>1, <5>2
        <4>3. QED
          BY <2>1, <4>1, <4>2 DEF call_ok, call_error, RightOps
      <3>3. QED
        BY <2>1, <3>2 DEF call_ok, call_error
    <2>2. CASE commit(s) \/ roll_back(s)
      BY <2>2 DEF commit, roll_back, store
    <2>3. QED
      BY <2>1, <2>2 DEF Backend
  <1>2. ASSUME file' = "confirmed" PROVE object'
    <2>1. CASE file = "confirmed"
      BY <1>1, <2>1 DEF Stored
    <2>2. CASE file # "confirmed"
      <3>1. commit(s) /\ Outcome(handler[s].op) = "confirmed"
        BY <1>2, <2>2 DEF Backend, call_ok, call_error, commit, roll_back
      <3>2. Committing(s) /\ handler[s].op # "abort"
        BY <3>1 DEF commit, Committing, Outcome
      <3>3. QED
        BY <1>1, <3>2 DEF Stored
    <2>3. QED
      BY <2>1, <2>2
  <1>3. ASSUME NEW t \in Slot, Committing(t)', handler'[t].op # "abort" PROVE object'
    <2>1. CASE t # s
      BY <1>1, <1>3, <2>1 DEF Stored, BackendStep, Committing
    <2>2. CASE t = s
      <3>1. handler'[s].pc = "commit" /\ handler'[s].op = handler[s].op
        BY <1>3, <2>2 DEF Committing, BackendStep, IdleHandler
      <3>2. call_ok(s)
        BY <3>1, AnswerStep DEF Backend, call_error, commit, roll_back, IdleHandler
      <3>3. handler[s].op = "complete"
        BY <1>3, <2>2, <3>1, <3>2 DEF call_ok, RightOps
      <3>4. QED
        BY <3>2, <3>3 DEF call_ok, StoreCall, DoComplete
    <2>3. QED
      BY <2>1, <2>2
  <1>4. QED
    BY <1>2, <1>3 DEF Stored

LEMMA BackendKeepsInv ==
  ASSUME Inv, TypeOK', NEW s \in Slot, Backend(s)
  PROVE  Inv'
  <1> USE DEF Inv
  <1>1. BackendStep(s)
    BY BackendSteps
  <1>2. isMultipart' <=> isMultipart
    BY <1>1 DEF BackendStep, isMultipart
  <1>3. NothingYet'
    BY <1>1 DEF BackendStep, NothingYet
  <1>4. WaitsForItsOwn'
    <2>1. CASE client.req # NoSlot
      <3>1. client.req \in Slot
        BY <2>1 DEF TypeOK, ClientType
      <3>2. CASE client.req = s
        BY <1>1, <2>1, <3>2 DEF BackendStep, WaitsForItsOwn
      <3>3. CASE client.req # s
        BY <1>1, <2>1, <3>1, <3>3 DEF BackendStep, WaitsForItsOwn
      <3>4. QED
        BY <3>2, <3>3
    <2>2. CASE client.req = NoSlot
      BY <1>1, <2>2 DEF BackendStep, WaitsForItsOwn
    <2>3. QED
      BY <2>1, <2>2
  <1>5. \A t \in Slot : handler'[t].pc # "idle" =>
          /\ handler[t].pc # "idle" /\ handler'[t].op = handler[t].op
          /\ handler'[t].pc = "provider" => handler[t].pc = "provider"
    BY <1>1 DEF BackendStep, IdleHandler
  <1>6. RightOps'
    BY <1>1, <1>2, <1>5 DEF RightOps, BackendStep
  <1>7. ClosedOnce'
    BY <1>1, <1>2, BackendKeepsClosedOnce DEF ClosedOnce, BackendStep
  <1>8. Stored'
    BY <1>1, BackendKeepsStored
  <1>9. ~abortSent => (file = "confirmed" => file' = "confirmed")
    BY DEF Backend, call_ok, call_error, commit, roll_back, RightOps, Outcome
  <1>10. StaysConfirmed'
    <2>1. \A t \in Slot : handler'[t].pc \in {"provider", "commit"} =>
            handler[t].pc \in {"provider", "commit"} /\ handler'[t].seen = handler[t].seen
      BY <1>1 DEF BackendStep, IdleHandler
    <2>2. QED
      BY <1>1, <1>9, <2>1 DEF StaysConfirmed, BackendStep
  <1>11. DoneIsConfirmed'
    <2> SUFFICES ASSUME provider = "s3" \/ ~abortSent PROVE DoneIsConfirmed'
      BY <1>1 DEF DoneIsConfirmed, BackendStep
    <2>1. CASE commit(s)
      <3>1. handler[s].pc = "commit" /\ Committing(s)
        BY <2>1 DEF commit, Committing
      <3>2. CASE abortSent
        <4>1. Closing(s)
          BY <3>1, <3>2 DEF ClosedOnce, RightOps
        <4>2. file = "pending" /\ file' = Outcome(handler[s].op)
          BY <2>1, <4>1 DEF Closing, commit, Outcome
        <4>3. QED
          BY <1>1, <1>5, <4>2 DEF DoneIsConfirmed, BackendStep, Outcome
      <3>3. CASE ~abortSent
        <4>1. handler[s].op # "abort"
          BY <3>1, <3>3 DEF RightOps
        <4>2. file' = "confirmed"
          BY <2>1, <3>1, <3>3, <4>1 DEF StaysConfirmed, commit, Outcome
        <4>3. QED
          BY <4>2 DEF DoneIsConfirmed
      <3>4. QED
        BY <3>2, <3>3
    <2>2. CASE ~commit(s)
      <3>1. UNCHANGED file
        BY <2>2 DEF Backend, call_ok, call_error, roll_back
      <3>2. handler'[s].pc # "ok"
        <4>1. CASE call_ok(s)
          BY <4>1 DEF call_ok, TypeOK, HandlerType
        <4>2. CASE call_error(s) \/ roll_back(s)
          BY <4>2, AnswerStep DEF call_error, roll_back, IdleHandler
        <4>3. QED
          BY <2>2, <4>1, <4>2 DEF Backend
      <3>3. QED
        BY <1>1, <3>1, <3>2 DEF DoneIsConfirmed, BackendStep
    <2>3. QED
      BY <2>1, <2>2
  <1>12. QED
    BY <1>3, <1>4, <1>6, <1>7, <1>8, <1>10, <1>11

LEMMA InvCorrect == Spec => []Inv
  <1>1. Init => Inv
    <2> SUFFICES ASSUME Init PROVE Inv
      OBVIOUS
    <2>1. TypeOK
      BY TypesAtStart
    <2>2. /\ client.pc = "idle" /\ client.req = NoSlot /\ row = "none" /\ file = "none"
          /\ \A s \in Slot : handler[s].pc = "idle"
          /\ ~object /\ ~open /\ late = {} /\ ~abortSent /\ ~abortAcked
      BY DEF Init, IdleClient, IdleHandler
    <2>3. QED
      BY <2>1, <2>2 DEF Inv, NothingYet, WaitsForItsOwn, RightOps, ClosedOnce, Stored,
                        StaysConfirmed, DoneIsConfirmed, Committing
  <1>2. Inv /\ [Next]_vars => Inv'
    <2> SUFFICES ASSUME Inv, [Next]_vars PROVE Inv'
      OBVIOUS
    <2>1. TypeOK'
      BY TypesStep DEF Inv
    <2>2. CASE UNCHANGED vars
      BY <2>2 DEF vars, store, Inv, TypeOK, NothingYet, WaitsForItsOwn, RightOps, ClosedOnce, Stored,
                  StaysConfirmed, DoneIsConfirmed, Committing, Closing, OnlyOne, isMultipart
    <2>3. CASE init_ok \/ init_error
      BY <2>1, <2>3, InitUploadKeepsInv
    <2>4. CASE ClientActs
      BY <2>1, <2>4, ClientSteps, ClientKeepsInv
    <2>5. CASE \E s \in Slot : Backend(s)
      BY <2>1, <2>5, BackendKeepsInv
    <2>6. QED
      BY <2>2, <2>3, <2>4, <2>5 DEF Next, Client, ClientActs
  <1>3. QED
    BY <1>1, <1>2, PTL DEF Spec

-----------------------------------------------------------------------------
(***************************************************************************)
(* The results                                                             *)
(***************************************************************************)

\* An abort that S3 and the backend acknowledged is final, for any number of
\* handlers and parts: S3 closes an upload once, and the handler whose call closed
\* it is the only one that commits (abort_upload, complete_upload).
THEOREM AbortedStaysAborted == Spec => []AbortIsFinal
  <1>1. Inv => AbortIsFinal
    BY DEF Inv, RightOps, ClosedOnce, AbortIsFinal
  <1>2. QED
    BY <1>1, InvCorrect, PTL

\* A confirmed file has its object, however many handlers of its upload overlap.
THEOREM ConfirmedIsStored == Spec => []ConfirmedHasObject
  <1>1. Inv => ConfirmedHasObject
    BY DEF Inv, Stored, ConfirmedHasObject
  <1>2. QED
    BY <1>1, InvCorrect, PTL

\* What a client shows as done is stored and confirmed and stays so, whatever
\* the handlers it gave up on still do.
THEOREM ShownDoneIsStored == Spec => []DoneIsStored
  <1>1. Inv => DoneIsStored
    BY DEF Inv, Stored, DoneIsConfirmed, DoneIsStored
  <1>2. QED
    BY <1>1, InvCorrect, PTL

-----------------------------------------------------------------------------
(***************************************************************************)
(* GcsCompose.  Any number of calls that overlap and stop anywhere, of     *)
(* uploads of any number of parts, with any limit and batch.               *)
(*                                                                         *)
(* FlattenSeq is recursive over its sequence.  What it makes is proved by  *)
(* the least counterexample (LeastElement, AllNumbers).                    *)
(***************************************************************************)

\* A set of natural numbers has a least element.
LEMMA LeastElement ==
  ASSUME NEW P \in SUBSET Nat, P # {}
  PROVE  \E x \in P : \A y \in P : x <= y
  <1> DEFINE R == OpToRel(<, Nat)
  <1>1. IsWellFoundedOn(R, Nat)
    BY NatLessThanWellFounded, Zenon
  <1>2. ASSUME NEW a \in Nat, NEW b \in Nat, a < b PROVE <<a, b>> \in R
    BY <1>2 DEF OpToRel
  <1> HIDE DEF R
  <1>3. PICK x \in P : \A y \in P : ~ (<<y, x>> \in R)
    BY <1>1, WFMin
  <1>4. ASSUME NEW y \in P PROVE x <= y
    <2>1. x \in Nat /\ y \in Nat
      OBVIOUS
    <2>2. ~ (y < x)
      BY <1>2, <1>3, <2>1, Zenon
    <2>3. QED BY <2>1, <2>2
  <1>5. QED BY <1>4

\* Induction over the natural numbers: a set with 0 and all successors is Nat.
LEMMA AllNumbers ==
  ASSUME NEW P \in SUBSET Nat, 0 \in P, \A n \in P : n + 1 \in P
  PROVE  P = Nat
  <1>1. SUFFICES ASSUME Nat \ P # {} PROVE FALSE
    OBVIOUS
  <1>2. PICK x \in Nat \ P : \A y \in Nat \ P : x <= y
    BY <1>1, LeastElement
  <1>3. x - 1 \in Nat /\ x - 1 \in P
    BY <1>2
  <1>4. QED BY <1>2, <1>3

\* f[i] is what the first i sequences of s make.
Flattens(f, s) ==
  /\ f[1] = s[1]
  /\ \A i \in 1..Len(s) : i > 1 => f[i] = f[i - 1] \o s[i]

\* FlattenSeq is what its recursion says: it has a solution, since any number
\* of steps of it has.
LEMMA FlattenSeqDef ==
  ASSUME NEW S, NEW s \in Seq(S), s # <<>>
  PROVE  \E f : Flattens(f, s) /\ Gcs!FlattenSeq(s) = f[Len(s)]
  <1> DEFINE Step(f, n) == [i \in 1..n |-> IF i = 1 THEN s[i] ELSE f[i - 1] \o s[i]]
             P == {n \in Nat : \E f : f = Step(f, n)}
  <1>1. 0 \in P
    <2>1. \E f : f = Step(f, 0)
      <3>1. <<>> = Step(<<>>, 0) OBVIOUS
      <3>2. QED BY <3>1
    <2>2. QED BY <2>1
  <1>2. ASSUME NEW n \in P PROVE n + 1 \in P
    <2>1. PICK f : f = Step(f, n)
      BY <1>2
    <2> DEFINE g == [i \in 1..(n + 1) |-> IF i = n + 1 THEN IF i = 1 THEN s[i] ELSE f[i - 1] \o s[i]
                                          ELSE f[i]]
    <2>2. ASSUME NEW i \in 1..(n + 1)
          PROVE  g[i] = IF i = 1 THEN s[i] ELSE g[i - 1] \o s[i]
      <3>1. CASE i = n + 1
        BY <3>1
      <3>2. CASE i # n + 1
        <4>1. i \in 1..n /\ g[i] = f[i] /\ (i # 1 => g[i - 1] = f[i - 1])
          BY <3>2
        <4>2. f[i] = IF i = 1 THEN s[i] ELSE f[i - 1] \o s[i]
          BY <2>1, <4>1
        <4>3. QED BY <4>1, <4>2
      <3>3. QED BY <3>1, <3>2
    <2>3. g = Step(g, n + 1)
      BY <2>2
    <2> HIDE DEF g
    <2>4. \E h : h = Step(h, n + 1) BY <2>3
    <2>5. n + 1 \in Nat OBVIOUS
    <2>6. QED BY <2>4, <2>5, Zenon
  <1>3. Len(s) \in Nat /\ Len(s) > 0
    OBVIOUS
  <1>4. Len(s) \in P
    <2> HIDE DEF P
    <2>1. P \subseteq Nat BY DEF P
    <2>2. QED BY <1>1, <1>2, <1>3, <2>1, AllNumbers
  <1> DEFINE f == CHOOSE f : f = Step(f, Len(s))
  <1>5. f = Step(f, Len(s))
    BY <1>4
  <1>6. Gcs!FlattenSeq(s) = f[Len(s)]
    BY <1>3 DEF Gcs!FlattenSeq
  <1> HIDE DEF f
  <1>7. Flattens(f, s)
    <2>1. \A i \in 1..Len(s) : f[i] = IF i = 1 THEN s[i] ELSE f[i - 1] \o s[i]
      BY <1>5
    <2>2. 1 \in 1..Len(s) BY <1>3
    <2>3. \A i \in 1..Len(s) : i > 1 => i # 1 OBVIOUS
    <2>4. QED BY <2>1, <2>2, <2>3, Zenon DEF Flattens
  <1>8. QED BY <1>6, <1>7

\* What is flattened consists of what the sequences consist of.
LEMMA FlattenSeqType ==
  ASSUME NEW S, NEW s \in Seq(Seq(S))
  PROVE  Gcs!FlattenSeq(s) \in Seq(S)
  <1>1. CASE s = <<>>
    <2>1. Gcs!FlattenSeq(s) = s BY <1>1 DEF Gcs!FlattenSeq
    <2>2. s \in Seq(S) BY <1>1
    <2>3. QED BY <2>1, <2>2, Zenon
  <1>2. CASE s # <<>>
    <2>1. PICK f : Flattens(f, s) /\ Gcs!FlattenSeq(s) = f[Len(s)]
      BY <1>2, FlattenSeqDef
    <2>2. Len(s) \in Nat /\ Len(s) > 0 /\ \A i \in 1..Len(s) : s[i] \in Seq(S)
      BY <1>2
    <2> DEFINE P == {n \in Nat : n \in 1..Len(s) => f[n] \in Seq(S)}
    <2>3. 0 \in P
      OBVIOUS
    <2>4. ASSUME NEW n \in P PROVE n + 1 \in P
      <3>1. SUFFICES ASSUME n + 1 \in 1..Len(s) PROVE f[n + 1] \in Seq(S)
        OBVIOUS
      <3>2. CASE n = 0
        BY <2>1, <2>2, <3>1, <3>2 DEF Flattens
      <3>3. CASE n # 0
        <4>1. n \in 1..Len(s) /\ n + 1 > 1 /\ (n + 1) - 1 = n
          BY <3>1, <3>3
        <4>2. f[n + 1] = f[n] \o s[n + 1]
          BY <2>1, <3>1, <4>1 DEF Flattens
        <4>3. f[n] \in Seq(S) /\ s[n + 1] \in Seq(S)
          BY <2>2, <3>1, <4>1
        <4>4. QED BY <4>2, <4>3
      <3>4. QED BY <3>2, <3>3
    <2>5. P = Nat
      <3>1. P \subseteq Nat OBVIOUS
      <3> HIDE DEF P
      <3>2. QED BY <2>3, <2>4, <3>1, AllNumbers
    <2>6. Len(s) \in P
      <3> HIDE DEF P
      <3>1. QED BY <2>2, <2>5
    <2>7. f[Len(s)] \in Seq(S)
      <3>1. Len(s) \in 1..Len(s) BY <2>2
      <3>2. QED BY <2>6, <3>1, Zenon
    <2>8. QED BY <2>1, <2>7, Zenon
  <1>3. QED BY <1>1, <1>2

\* The parts 1 to n in order.
Upto(n) == [i \in 1..n |-> i]

\* One part more.
LEMMA UptoNext ==
  ASSUME NEW n \in Nat, NEW m \in Nat
  PROVE  Upto(n + m) \o <<n + (m + 1)>> = Upto(n + (m + 1))
  <1>1. Upto(n + m) \in Seq(Nat) /\ Len(Upto(n + m)) = n + m
    BY DEF Upto
  <1>2. Upto(n + (m + 1)) \in Seq(Nat) /\ Len(Upto(n + (m + 1))) = n + (m + 1)
    BY DEF Upto
  <1> DEFINE t == Upto(n + m) \o <<n + (m + 1)>>
  <1>3. t \in Seq(Nat) /\ Len(t) = n + (m + 1)
    BY <1>1
  <1>4. ASSUME NEW i \in 1..(n + (m + 1)) PROVE t[i] = Upto(n + (m + 1))[i]
    BY <1>1 DEF Upto
  <1> HIDE DEF t
  <1>5. t = Upto(n + (m + 1))
    BY <1>2, <1>3, <1>4, SeqEqual
  <1>6. QED BY <1>5 DEF t

\* Parts that follow each other make the parts in order.
LEMMA PartsInOrder ==
  ASSUME NEW s \in Seq(Seq(Nat)), s # <<>>, NEW o \in Nat,
         s[1] = Upto(o + 1), \A i \in 1..Len(s) : i > 1 => s[i] = <<o + i>>
  PROVE  Gcs!FlattenSeq(s) = Upto(o + Len(s))
  <1>1. PICK f : Flattens(f, s) /\ Gcs!FlattenSeq(s) = f[Len(s)]
    BY FlattenSeqDef
  <1>2. Len(s) \in Nat /\ Len(s) > 0
    OBVIOUS
  <1> DEFINE P == {n \in Nat : n \in 1..Len(s) => f[n] = Upto(o + n)}
  <1>3. 0 \in P
    OBVIOUS
  <1>4. ASSUME NEW n \in P PROVE n + 1 \in P
    <2>1. SUFFICES ASSUME n + 1 \in 1..Len(s) PROVE f[n + 1] = Upto(o + (n + 1))
      OBVIOUS
    <2>2. CASE n = 0
      <3>1. f[1] = Upto(o + 1) BY <1>1 DEF Flattens
      <3>2. QED BY <2>2, <3>1
    <2>3. CASE n # 0
      <3>1. n \in 1..Len(s) /\ n + 1 > 1 /\ (n + 1) - 1 = n
        BY <2>1, <2>3
      <3>2. f[n + 1] = f[n] \o s[n + 1]
        BY <1>1, <2>1, <3>1 DEF Flattens
      <3>3. f[n] = Upto(o + n) /\ s[n + 1] = <<o + (n + 1)>>
        BY <2>1, <3>1
      <3>4. Upto(o + n) \o <<o + (n + 1)>> = Upto(o + (n + 1))
        BY UptoNext
      <3>5. QED BY <3>2, <3>3, <3>4, Zenon
    <2>4. QED BY <2>2, <2>3
  <1>5. P = Nat
    <2>1. P \subseteq Nat OBVIOUS
    <2> HIDE DEF P
    <2>2. QED BY <1>3, <1>4, <2>1, AllNumbers
  <1>6. f[Len(s)] = Upto(o + Len(s))
    <2>1. Len(s) \in P
      <3> HIDE DEF P
      <3>1. QED BY <1>2, <1>5
    <2>2. Len(s) \in 1..Len(s)
      BY <1>2
    <2>3. QED BY <2>1, <2>2, Zenon
  <1>7. QED BY <1>1, <1>6

\* How many parts j temporary objects stand for, but for the first of the next.
Off(j) == j * (Batch - 1)

\* Off is a natural number, grows by Batch - 1 and is never less than j.
LEMMA OffNext ==
  ASSUME NEW j \in Nat
  PROVE  /\ Off(j) \in Nat /\ Off(j + 1) = Off(j) + (Batch - 1)
         /\ Off(0) = 0 /\ Off(j) >= j
  <1>1. Batch \in Nat /\ Batch >= 2
    BY ComposeAssumption DEF Gcs!ComposeAssumption
  <1> DEFINE b == Batch - 1
  <1>2. b \in Nat /\ b >= 1
    BY <1>1
  <1> HIDE DEF b
  <1>3. j * b \in Nat /\ (j + 1) * b = j * b + b /\ 0 * b = 0 /\ j * b >= j
    BY <1>2
  <1>4. QED BY <1>3 DEF Off, b

\* Off is monotone, by induction over the difference.
LEMMA OffGrows ==
  ASSUME NEW i \in Nat, NEW j \in Nat, i <= j
  PROVE  Off(i) <= Off(j)
  <1> DEFINE P == {n \in Nat : Off(i) <= Off(i + n)}
  <1>1. 0 \in P
    BY OffNext
  <1>2. ASSUME NEW n \in P PROVE n + 1 \in P
    <2>1. i + n \in Nat /\ i + (n + 1) = (i + n) + 1
      OBVIOUS
    <2>2. Off((i + n) + 1) = Off(i + n) + (Batch - 1) /\ Off(i) \in Nat /\ Off(i + n) \in Nat
      BY <2>1, OffNext
    <2>3. Batch \in Nat /\ Batch >= 2
      BY ComposeAssumption DEF Gcs!ComposeAssumption
    <2>4. Off(i) <= Off(i + n)
      OBVIOUS
    <2>5. Off(i) <= Off(i + (n + 1))
      BY <2>1, <2>2, <2>3, <2>4
    <2>6. QED BY <2>5
  <1>3. P = Nat
    <2>1. P \subseteq Nat OBVIOUS
    <2> HIDE DEF P
    <2>2. QED BY <1>1, <1>2, <2>1, AllNumbers
  <1>4. j - i \in P /\ i + (j - i) = j
    <2>1. j - i \in Nat OBVIOUS
    <2> HIDE DEF P
    <2>2. QED BY <1>3, <2>1
  <1>5. QED BY <1>4

\* The keys differ, and each is the destination, a part or a temporary object.
LEMMA KeyFacts ==
  /\ \A n, m : Gcs!Part(n) # Gcs!Temp(m)
  /\ \A n, m : Gcs!Part(n) = Gcs!Part(m) => n = m
  /\ \A n, m : Gcs!Temp(n) = Gcs!Temp(m) => n = m
  /\ \A n : Gcs!Part(n) # Gcs!Dest /\ Gcs!Temp(n) # Gcs!Dest
  /\ Gcs!Dest \in Gcs!Key
  /\ \A n \in 1..MaxParts : Gcs!Part(n) \in Gcs!Key
  /\ \A n \in 0..MaxParts : Gcs!Temp(n) \in Gcs!Key
  /\ \A k \in Gcs!Key \ {Gcs!Dest} : \/ \E n \in 1..MaxParts : k = Gcs!Part(n)
                                     \/ \E n \in 0..MaxParts : k = Gcs!Temp(n)
  BY DEF Gcs!Part, Gcs!Temp, Gcs!Dest, Gcs!Key

\* Whether a key is that of a part, and which keys are.
IsPart(k) == k[1] = "part"

LEMMA IsPartFacts == (\A n : IsPart(Gcs!Part(n))) /\ (\A n : ~ IsPart(Gcs!Temp(n)))
  BY DEF IsPart, Gcs!Part, Gcs!Temp

\* Source i of a call that has made j temporary objects: the last of these, and
\* behind it the parts that are in none.
KeyAt(j, i) == IF i = 1 /\ j > 0 THEN Gcs!Temp(j - 1) ELSE Gcs!Part(Off(j) + i)

\* A call of complete with j temporary objects, of an upload of n parts.
Composing(c, j, n) ==
  /\ c = [op |-> "compose", keys |-> [i \in 1..(n - Off(j)) |-> KeyAt(j, i)],
          temps |-> [i \in 1..j |-> Gcs!Temp(i - 1)]]
  /\ j > 0 => n - Off(j - 1) > Limit

\* What a call of complete that deletes has still got on its list.
CleansUp(c) ==
  /\ \A k \in Gcs!Key \ {Gcs!Dest} : Gcs!Exists(k) => \E i \in DOMAIN c.keys : c.keys[i] = k
  /\ \A i, l \in DOMAIN c.keys : i < l /\ IsPart(c.keys[l]) => IsPart(c.keys[i])
  /\ (\E i \in DOMAIN c.keys : IsPart(c.keys[i])) =>
       \A n \in 0..MaxParts : size - Off(n) > Limit => \E i \in DOMAIN c.keys : c.keys[i] = Gcs!Temp(n)

\* A call that deletes.  A call of complete does so only with the object there.
Deleting(c) ==
  /\ c \in [op : {"delete"}, keys : Seq(Gcs!Key \ {Gcs!Dest}), complete : BOOLEAN]
  /\ c.complete => Gcs!Exists(Gcs!Dest) /\ (puts = 0 => CleansUp(c))

\* What a call of a handler is.
CallFits(c) == c = Gcs!Idle \/ (\E j \in Nat : Composing(c, j, size)) \/ Deleting(c)

\* A part's object is the part; temporary object n is there only if the upload
\* needs it, and it is all parts up to the end of its batch.
ObjectsFit ==
  /\ \A n \in 1..MaxParts : Gcs!Exists(Gcs!Part(n)) => n <= size /\ bucket[Gcs!Part(n)] = <<n>>
  /\ \A n \in 0..MaxParts : Gcs!Exists(Gcs!Temp(n)) =>
       size - Off(n) > Limit /\ bucket[Gcs!Temp(n)] = Upto(Off(n + 1) + 1)

\* The calls of all handlers.
CallsFit == DOMAIN call = Handler /\ \A h \in Handler : CallFits(call[h])

\* The types but for the calls.
Numbers ==
  /\ size \in 1..MaxParts /\ bucket \in [Gcs!Key -> Seq(1..MaxParts)]
  /\ answered \in BOOLEAN /\ widest \in 0..Limit
  /\ calls \in 0..MaxCalls /\ puts \in 0..MaxPuts

\* The inductive invariant of complete_multipart_upload and abort_multipart_upload.
UploadsInv == Numbers /\ ObjectsFit /\ CallsFit /\ ObjectIsWhole /\ NothingIsLeft

\* The numbers of a call that composes: something is left to compose, and the
\* temporary objects it has made are those that more than Limit sources need.
LEMMA ComposingNumbers ==
  ASSUME NEW n \in 1..MaxParts, NEW j \in Nat, NEW c, Composing(c, j, n)
  PROVE  /\ Off(j) \in Nat /\ Off(j) < n /\ j <= MaxParts
         /\ j > 0 => n - Off(j) >= 2
         /\ \A m \in Nat : m < j => n - Off(m) > Limit
         /\ \A m \in Nat : m >= j => n - Off(m) <= n - Off(j)
  <1>1. /\ Batch \in Nat /\ Batch >= 2 /\ Limit \in Nat /\ Limit >= Batch /\ MaxParts \in Nat
        /\ j > 0 => n - Off(j - 1) > Limit
    BY ComposeAssumption DEF Gcs!ComposeAssumption, Composing
  <1>2. Off(j) \in Nat /\ Off(j) >= j /\ Off(0) = 0
    BY OffNext
  <1>3. ASSUME j > 0 PROVE n - Off(j) >= 2 /\ j - 1 \in Nat /\ Off(j - 1) \in Nat
    <2>1. j - 1 \in Nat /\ (j - 1) + 1 = j BY <1>3
    <2>2. Off(j - 1) \in Nat /\ Off((j - 1) + 1) = Off(j - 1) + (Batch - 1) BY <2>1, OffNext
    <2>3. Off(j) = Off(j - 1) + (Batch - 1) BY <2>1, <2>2
    <2>4. n - Off(j) >= 2 BY <1>1, <1>3, <2>2, <2>3
    <2>5. QED BY <2>1, <2>2, <2>4
  <1>4. Off(j) < n
    <2>1. CASE j = 0 BY <1>2, <2>1
    <2>2. CASE j > 0 BY <1>2, <1>3, <2>2
    <2>3. QED BY <2>1, <2>2
  <1>5. ASSUME NEW m \in Nat, m < j PROVE n - Off(m) > Limit
    <2>1. Off(m) <= Off(j - 1) /\ Off(m) \in Nat
      <3>1. m <= j - 1 /\ j - 1 \in Nat BY <1>5
      <3>2. QED BY <3>1, OffGrows, OffNext
    <2>2. j > 0 BY <1>5
    <2>3. QED BY <1>1, <1>3, <2>1, <2>2
  <1>6. ASSUME NEW m \in Nat, m >= j PROVE n - Off(m) <= n - Off(j)
    BY <1>2, <1>6, OffGrows, OffNext
  <1>7. j <= MaxParts
    BY <1>1, <1>2, <1>4
  <1>8. QED BY <1>2, <1>3, <1>4, <1>5, <1>6, <1>7

\* Its keys are keys.
LEMMA ComposingKeys ==
  ASSUME NEW n \in 1..MaxParts, NEW j \in Nat, NEW c, Composing(c, j, n)
  PROVE  /\ c.op = "compose" /\ c.keys \in Seq(Gcs!Key) /\ Len(c.keys) = n - Off(j)
         /\ \A i \in 1..(n - Off(j)) : c.keys[i] = KeyAt(j, i)
         /\ c.temps \in Seq(Gcs!Key) /\ Len(c.temps) = j
         /\ \A i \in 1..j : c.temps[i] = Gcs!Temp(i - 1)
  <1>1. MaxParts \in Nat
    BY ComposeAssumption DEF Gcs!ComposeAssumption
  <1>2. Off(j) \in Nat /\ n - Off(j) \in Nat /\ j <= MaxParts
    BY ComposingNumbers
  <1>3. ASSUME NEW i \in 1..(n - Off(j)) PROVE KeyAt(j, i) \in Gcs!Key
    <2>1. CASE i = 1 /\ j > 0
      <3>1. j - 1 \in 0..MaxParts BY <1>1, <1>2, <2>1
      <3>2. QED BY <2>1, <3>1, KeyFacts DEF KeyAt
    <2>2. CASE ~ (i = 1 /\ j > 0)
      <3>1. Off(j) + i \in 1..MaxParts BY <1>1, <1>2
      <3>2. QED BY <2>2, <3>1, KeyFacts DEF KeyAt
    <2>3. QED BY <2>1, <2>2
  <1>4. ASSUME NEW i \in 1..j PROVE Gcs!Temp(i - 1) \in Gcs!Key
    <2>1. i - 1 \in 0..MaxParts BY <1>1, <1>2
    <2>2. QED BY <2>1, KeyFacts
  <1> DEFINE ks == [i \in 1..(n - Off(j)) |-> KeyAt(j, i)]
             ts == [i \in 1..j |-> Gcs!Temp(i - 1)]
  <1>5. ks \in Seq(Gcs!Key) /\ Len(ks) = n - Off(j) /\ \A i \in 1..(n - Off(j)) : ks[i] = KeyAt(j, i)
    BY <1>2, <1>3
  <1>6. ts \in Seq(Gcs!Key) /\ Len(ts) = j /\ \A i \in 1..j : ts[i] = Gcs!Temp(i - 1)
    BY <1>4
  <1>7. c = [op |-> "compose", keys |-> ks, temps |-> ts]
    BY DEF Composing
  <1> HIDE DEF ks, ts
  <1>8. c.op = "compose" /\ c.keys = ks /\ c.temps = ts
    BY <1>7
  <1>9. QED BY <1>5, <1>6, <1>8

\* The sources of its next compose are the first of its keys; there is a part
\* among them, and if they exist, they make the parts from 1 on.
LEMMA NextSources ==
  ASSUME UploadsInv, NEW j \in Nat, NEW c, Composing(c, j, size),
         \A i \in DOMAIN Gcs!Sources(c.keys) : Gcs!Exists(Gcs!Sources(c.keys)[i])
  PROVE  LET m == IF Gcs!MustBatch(c.keys) THEN Batch ELSE size - Off(j)
         IN /\ Gcs!MustBatch(c.keys) <=> size - Off(j) > Limit
            /\ m \in 1..Limit /\ m <= size - Off(j) /\ Len(Gcs!Sources(c.keys)) = m
            /\ \E n \in 1..MaxParts : Gcs!Exists(Gcs!Part(n))
            /\ Gcs!Composed(Gcs!Sources(c.keys)) = Upto(Off(j) + m)
  <1> DEFINE m == IF Gcs!MustBatch(c.keys) THEN Batch ELSE size - Off(j)
             src == Gcs!Sources(c.keys)
  <1>1. /\ Batch \in Nat /\ Batch >= 2 /\ Limit \in Nat /\ Limit >= Batch /\ MaxParts \in Nat
        /\ size \in 1..MaxParts
    BY ComposeAssumption DEF Gcs!ComposeAssumption, UploadsInv, Numbers
  <1>2. /\ Off(j) \in Nat /\ Off(j) < size /\ j <= MaxParts
        /\ j > 0 => size - Off(j) >= 2
    BY <1>1, ComposingNumbers
  <1>3. /\ c.keys \in Seq(Gcs!Key) /\ Len(c.keys) = size - Off(j)
        /\ \A i \in 1..(size - Off(j)) : c.keys[i] = KeyAt(j, i)
    BY <1>1, ComposingKeys
  <1>4. Gcs!MustBatch(c.keys) <=> size - Off(j) > Limit
    BY <1>3 DEF Gcs!MustBatch
  <1>5. m \in 1..Limit /\ m <= size - Off(j) /\ (j > 0 => m >= 2)
    BY <1>1, <1>2, <1>4
  <1>6. src \in Seq(Gcs!Key) /\ Len(src) = m /\ \A i \in 1..m : src[i] = KeyAt(j, i)
    <2>1. CASE Gcs!MustBatch(c.keys)
      BY <1>1, <1>3, <1>4, <2>1 DEF Gcs!Sources
    <2>2. CASE ~ Gcs!MustBatch(c.keys)
      BY <1>3, <2>2 DEF Gcs!Sources
    <2>3. QED BY <2>1, <2>2
  <1> HIDE DEF m, src
  <1>7. \A i \in 1..m : Gcs!Exists(KeyAt(j, i))
    <2>1. \A i \in DOMAIN src : Gcs!Exists(src[i])
      BY DEF src
    <2>2. DOMAIN src = 1..m
      BY <1>5, <1>6
    <2>3. QED BY <1>6, <2>1, <2>2
  <1>8. ASSUME NEW i \in 1..m, i # 1 \/ j = 0
        PROVE  /\ KeyAt(j, i) = Gcs!Part(Off(j) + i) /\ Off(j) + i \in 1..MaxParts
               /\ bucket[KeyAt(j, i)] = <<Off(j) + i>>
    <2>1. KeyAt(j, i) = Gcs!Part(Off(j) + i)
      BY <1>8 DEF KeyAt
    <2>2. Off(j) + i \in 1..MaxParts
      BY <1>1, <1>2, <1>5
    <2>3. Gcs!Exists(Gcs!Part(Off(j) + i))
      BY <1>7, <2>1
    <2>4. bucket[Gcs!Part(Off(j) + i)] = <<Off(j) + i>>
      BY <2>2, <2>3 DEF UploadsInv, ObjectsFit
    <2>5. QED BY <2>1, <2>2, <2>4
  <1>9. \E n \in 1..MaxParts : Gcs!Exists(Gcs!Part(n))
    <2>1. PICK i \in 1..m : i # 1 \/ j = 0
      <3>1. CASE j = 0 BY <1>1, <1>5, <3>1
      <3>2. CASE j > 0
        <4>1. 2 \in 1..m BY <1>1, <1>5, <3>2
        <4>2. QED BY <4>1
      <3>3. QED BY <3>1, <3>2
    <2>2. Off(j) + i \in 1..MaxParts /\ Gcs!Exists(Gcs!Part(Off(j) + i))
      BY <1>7, <1>8, <2>1
    <2>3. QED BY <2>2
  <1> DEFINE s == [i \in DOMAIN src |-> bucket[src[i]]]
  <1>10. DOMAIN src = 1..m /\ m \in Nat /\ m >= 1
    BY <1>1, <1>5, <1>6
  <1>11. \A i \in 1..m : s[i] = bucket[KeyAt(j, i)]
    BY <1>6, <1>10
  <1>12. s[1] = Upto(Off(j) + 1)
    <2>1. 1 \in 1..m BY <1>10
    <2>2. CASE j = 0
      <3>1. s[1] = <<1>>
        <4>1. Off(0) = 0 /\ Off(j) + 1 = 1 BY <2>2, OffNext
        <4>2. bucket[KeyAt(j, 1)] = <<Off(j) + 1>> BY <1>8, <2>1, <2>2
        <4>3. QED BY <1>11, <2>1, <4>1, <4>2
      <3>2. Upto(1) = <<1>> BY DEF Upto
      <3>3. Off(j) + 1 = 1 BY <2>2, OffNext
      <3>4. QED BY <3>1, <3>2, <3>3
    <2>3. CASE j > 0
      <3>1. KeyAt(j, 1) = Gcs!Temp(j - 1) BY <2>3 DEF KeyAt
      <3>2. j - 1 \in 0..MaxParts /\ (j - 1) + 1 = j BY <1>1, <1>2, <2>3
      <3>3. Gcs!Exists(Gcs!Temp(j - 1)) BY <1>7, <2>1, <3>1
      <3>4. bucket[Gcs!Temp(j - 1)] = Upto(Off((j - 1) + 1) + 1)
        BY <3>2, <3>3 DEF UploadsInv, ObjectsFit
      <3>5. QED BY <1>11, <2>1, <3>1, <3>2, <3>4
    <2>4. QED BY <2>2, <2>3
  <1>13. \A i \in 1..m : i > 1 => s[i] = <<Off(j) + i>>
    BY <1>8, <1>11
  <1>14. s \in Seq(Seq(Nat)) /\ Len(s) = m /\ s # <<>>
    <2>1. \A i \in 1..m : s[i] \in Seq(Nat)
      <3>1. Upto(Off(j) + 1) \in Seq(Nat) BY <1>2 DEF Upto
      <3>2. ASSUME NEW i \in 1..m PROVE s[i] \in Seq(Nat)
        <4>1. CASE i = 1 BY <1>12, <3>1, <4>1
        <4>2. CASE i # 1
          <5>1. i > 1 /\ Off(j) + i \in Nat BY <1>2, <4>2
          <5>2. <<Off(j) + i>> \in Seq(Nat) BY <5>1
          <5>3. QED BY <1>13, <5>1, <5>2
        <4>3. QED BY <4>1, <4>2
      <3>3. QED BY <3>2
    <2>2. s = [i \in 1..m |-> s[i]] BY <1>10
    <2> HIDE DEF s
    <2>3. s \in Seq(Seq(Nat)) /\ Len(s) = m BY <1>10, <2>1, <2>2
    <2>4. QED BY <1>10, <2>3
  <1>15. Gcs!FlattenSeq(s) = Upto(Off(j) + m)
    <2> HIDE DEF s
    <2>1. QED BY <1>2, <1>12, <1>13, <1>14, PartsInOrder
  <1>16. Gcs!Composed(src) = Upto(Off(j) + m)
    BY <1>15 DEF Gcs!Composed
  <1>17. QED BY <1>4, <1>5, <1>6, <1>9, <1>16 DEF m, src

\* What a step must not do to the calls that are not its own: take the object
\* away or, as long as no part is PUT again, make any object but a temporary
\* object while there is a part.
Harmless ==
  /\ size' = size
  /\ Gcs!Exists(Gcs!Dest) => Gcs!Exists(Gcs!Dest)'
  /\ puts' = 0 => /\ puts = 0
                  /\ \A k \in Gcs!Key \ {Gcs!Dest} :
                       Gcs!Exists(k)' => \/ Gcs!Exists(k)
                                         \/ /\ \E n \in 1..MaxParts : Gcs!Exists(Gcs!Part(n))
                                            /\ \E n \in 0..MaxParts : k = Gcs!Temp(n) /\ size - Off(n) > Limit

\* Such a step keeps what a call of another handler is to do.
LEMMA StaysFit ==
  ASSUME Harmless, NEW g, CallFits(call[g]), call'[g] = call[g]
  PROVE  CallFits(call[g])'
  <1>1. size' = size
    BY DEF Harmless
  <1>2. CASE call[g] = Gcs!Idle
    <2>1. call'[g] = Gcs!Idle BY <1>2
    <2>2. QED BY <2>1 DEF CallFits, Gcs!Idle
  <1>3. CASE \E j \in Nat : Composing(call[g], j, size)
    <2>1. PICK j \in Nat : Composing(call[g], j, size) BY <1>3
    <2>2. Composing(call'[g], j, size') BY <1>1, <2>1
    <2>3. \E i \in Nat : Composing(call'[g], i, size') BY <2>2
    <2>4. QED BY <2>3 DEF CallFits, Composing, KeyAt, Off, Gcs!Part, Gcs!Temp
  <1>4. CASE Deleting(call[g])
    <2> DEFINE c == call[g]
    <2>1. /\ c \in [op : {"delete"}, keys : Seq(Gcs!Key \ {Gcs!Dest}), complete : BOOLEAN]
          /\ c.complete => Gcs!Exists(Gcs!Dest) /\ (puts = 0 => CleansUp(c))
      BY <1>4 DEF Deleting
    <2>2. ASSUME c.complete, puts' = 0 PROVE CleansUp(c)'
      <3>1. puts = 0 BY <2>2 DEF Harmless
      <3>2. CleansUp(c) BY <2>1, <2>2, <3>1
      <3>3. ASSUME NEW k \in Gcs!Key \ {Gcs!Dest}, Gcs!Exists(k)'
            PROVE  \E i \in DOMAIN c.keys : c.keys[i] = k
        <4>1. CASE Gcs!Exists(k) BY <3>2, <4>1 DEF CleansUp
        <4>2. CASE ~ Gcs!Exists(k)
          <5>1. PICK n \in 1..MaxParts : Gcs!Exists(Gcs!Part(n))
            BY <2>2, <3>3, <4>2 DEF Harmless
          <5>2. PICK m \in 0..MaxParts : k = Gcs!Temp(m) /\ size - Off(m) > Limit
            BY <2>2, <3>3, <4>2 DEF Harmless
          <5>3. PICK i \in DOMAIN c.keys : c.keys[i] = Gcs!Part(n)
            BY <3>2, <5>1, KeyFacts DEF CleansUp
          <5>4. \E l \in DOMAIN c.keys : IsPart(c.keys[l])
            BY <5>3, IsPartFacts
          <5>5. QED BY <3>2, <5>2, <5>4 DEF CleansUp
        <4>3. QED BY <4>1, <4>2
      <3>4. \A i, l \in DOMAIN c.keys : i < l /\ IsPart(c.keys[l]) => IsPart(c.keys[i])
        BY <3>2 DEF CleansUp
      <3>5. (\E i \in DOMAIN c.keys : IsPart(c.keys[i])) =>
              \A n \in 0..MaxParts : size - Off(n) > Limit => \E i \in DOMAIN c.keys : c.keys[i] = Gcs!Temp(n)
        BY <3>2 DEF CleansUp
      <3>6. c' = c OBVIOUS
      <3> HIDE DEF c
      <3>7. QED BY <1>1, <3>3, <3>4, <3>5, <3>6 DEF CleansUp, Gcs!Key, Gcs!Dest, Gcs!Part, Gcs!Temp, IsPart, Off
    <2>3. c.complete => Gcs!Exists(Gcs!Dest)'
      BY <2>1 DEF Harmless
    <2>4. c' = c OBVIOUS
    <2> HIDE DEF c
    <2>5. Deleting(c)'
      BY <2>1, <2>2, <2>3, <2>4 DEF Deleting
    <2>6. CallFits(c)'
      BY <2>5 DEF CallFits
    <2>7. QED BY <2>6 DEF c
  <1>5. QED BY <1>2, <1>3, <1>4 DEF CallFits

\* So the calls fit after a step of one handler, if its own call does.
LEMMA OneCall ==
  ASSUME CallsFit, Harmless, NEW h \in Handler, DOMAIN call' = Handler,
         \A g \in Handler \ {h} : call'[g] = call[g], CallFits(call[h])'
  PROVE  CallsFit'
  <1>1. ASSUME NEW g \in Handler PROVE CallFits(call[g])'
    <2>1. CASE g = h BY <2>1
    <2>2. CASE g # h BY <2>2, StaysFit DEF CallsFit
    <2>3. QED BY <2>1, <2>2
  <1>2. QED BY <1>1 DEF CallsFit

\* The type of what calls hold.
LEMMA CallTypes ==
  ASSUME size \in 1..MaxParts, CallsFit, NEW h \in Handler
  PROVE  \/ call[h] = Gcs!Idle
         \/ call[h].op \in {"compose", "delete"} /\ call[h].keys \in Seq(Gcs!Key)
  <1>1. CASE \E j \in Nat : Composing(call[h], j, size)
    BY <1>1, ComposingKeys
  <1>2. CASE Deleting(call[h])
    <2>1. call[h].op = "delete" /\ call[h].keys \in Seq(Gcs!Key \ {Gcs!Dest})
      BY <1>2 DEF Deleting
    <2>2. QED BY <2>1
  <1>3. QED BY <1>1, <1>2 DEF CallsFit, CallFits

\* A call that begins: the bucket and the counters but that of the calls stay.
LEMMA BeginFits ==
  ASSUME UploadsInv, NEW h \in Handler, NEW c, Gcs!Begin(h, c),
         (\E j \in Nat : Composing(c, j, size)) \/ (Deleting(c) /\ ~ c.complete)
  PROVE  UploadsInv'
  <1>1. /\ calls' = calls + 1 /\ calls < MaxCalls
        /\ call' = [call EXCEPT ![h] = c] /\ DOMAIN call = Handler
        /\ UNCHANGED <<size, bucket, answered, widest, puts>>
    BY DEF Gcs!Begin, UploadsInv, CallsFit
  <1>2. Harmless
    BY <1>1 DEF Harmless, Gcs!Exists, Gcs!Key, Gcs!Dest, Gcs!Absent, Gcs!Part, Gcs!Temp
  <1>3. DOMAIN call' = Handler /\ call'[h] = c /\ \A g \in Handler \ {h} : call'[g] = call[g]
    BY <1>1
  <1>4. CallFits(call[h])'
    <2>1. CASE \E j \in Nat : Composing(c, j, size)
      <3>1. \E j \in Nat : Composing(call'[h], j, size') BY <1>1, <1>3, <2>1
      <3>2. QED BY <3>1 DEF CallFits, Composing, KeyAt, Off, Gcs!Part, Gcs!Temp
    <2>2. CASE Deleting(c) /\ ~ c.complete
      <3>1. Deleting(call[h])' BY <1>3, <2>2 DEF Deleting, Gcs!Key, Gcs!Dest, Gcs!Part, Gcs!Temp
      <3>2. QED BY <3>1 DEF CallFits
    <2>3. QED BY <2>1, <2>2
  <1>5. CallsFit'
    BY <1>2, <1>3, <1>4, OneCall DEF UploadsInv
  <1>6. Numbers'
    BY <1>1, ComposeAssumption DEF UploadsInv, Numbers, Gcs!ComposeAssumption, Gcs!Key, Gcs!Dest, Gcs!Part, Gcs!Temp
  <1>7. ObjectsFit' /\ ObjectIsWhole' /\ NothingIsLeft'
    BY <1>1 DEF UploadsInv, ObjectsFit, ObjectIsWhole, NothingIsLeft, Gcs!ObjectIsWhole, Gcs!NothingIsLeft,
         Gcs!Exists, Gcs!Key, Gcs!Dest, Gcs!Absent, Gcs!Part, Gcs!Temp, Upto, Off
  <1>8. QED BY <1>5, <1>6, <1>7 DEF UploadsInv

\* complete begins with the keys of all parts and no temporary object.
LEMMA complete_multipart_uploadFits ==
  ASSUME UploadsInv, NEW h \in Handler, Gcs!complete_multipart_upload(h)
  PROVE  UploadsInv'
  <1> DEFINE c == [op |-> "compose", keys |-> Gcs!PartKeys, temps |-> <<>>]
  <1>1. size \in 1..MaxParts
    BY DEF UploadsInv, Numbers
  <1>2. Composing(c, 0, size)
    <2>1. Off(0) = 0 BY OffNext
    <2>2. Gcs!PartKeys = [i \in 1..(size - Off(0)) |-> KeyAt(0, i)]
      <3>1. size - Off(0) = size BY <1>1, <2>1
      <3>2. \A i \in 1..size : KeyAt(0, i) = Gcs!Part(i) BY <2>1 DEF KeyAt
      <3>3. QED BY <3>1, <3>2 DEF Gcs!PartKeys
    <2>3. <<>> = [i \in 1..0 |-> Gcs!Temp(i - 1)]
      OBVIOUS
    <2>4. QED BY <2>2, <2>3 DEF Composing
  <1>3. Gcs!Begin(h, c)
    BY DEF Gcs!complete_multipart_upload
  <1>4. \E j \in Nat : Composing(c, j, size)
    BY <1>2
  <1> HIDE DEF c
  <1>5. QED BY <1>3, <1>4, BeginFits

\* abort begins with the keys of the parts that it lists.
LEMMA abort_multipart_uploadFits ==
  ASSUME UploadsInv, NEW h \in Handler, Gcs!abort_multipart_upload(h)
  PROVE  UploadsInv'
  <1> DEFINE c == [op |-> "delete", complete |-> FALSE, keys |-> Gcs!Listed]
             s == [n \in 1..size |-> IF Gcs!Exists(Gcs!Part(n)) THEN <<Gcs!Part(n)>> ELSE <<>>]
  <1>1. size \in 1..MaxParts /\ MaxParts \in Nat
    BY ComposeAssumption DEF Gcs!ComposeAssumption, UploadsInv, Numbers
  <1>2. s \in Seq(Seq(Gcs!Key \ {Gcs!Dest}))
    <2>1. \A n \in 1..size : Gcs!Part(n) \in Gcs!Key \ {Gcs!Dest}
      BY <1>1, KeyFacts
    <2>2. \A k \in Gcs!Key \ {Gcs!Dest} : <<k>> \in Seq(Gcs!Key \ {Gcs!Dest})
      OBVIOUS
    <2>3. <<>> \in Seq(Gcs!Key \ {Gcs!Dest})
      OBVIOUS
    <2>4. \A n \in 1..size : s[n] \in Seq(Gcs!Key \ {Gcs!Dest})
      BY <2>1, <2>2, <2>3
    <2>5. s = [n \in 1..size |-> s[n]]
      OBVIOUS
    <2> HIDE DEF s
    <2>6. QED BY <1>1, <2>4, <2>5
  <1>3. Gcs!Listed \in Seq(Gcs!Key \ {Gcs!Dest})
    <2>1. Gcs!Listed = Gcs!FlattenSeq(s) BY DEF Gcs!Listed
    <2> HIDE DEF s
    <2>2. QED BY <1>2, <2>1, FlattenSeqType
  <1>4. Deleting(c) /\ ~ c.complete
    BY <1>3 DEF Deleting
  <1>5. Gcs!Begin(h, c)
    BY DEF Gcs!abort_multipart_upload
  <1> HIDE DEF c
  <1>6. QED BY <1>4, <1>5, BeginFits

\* A call that ends: an error of a compose, or stop.
LEMMA EndFits ==
  ASSUME UploadsInv, NEW h \in Handler, call' = [call EXCEPT ![h] = Gcs!Idle],
         UNCHANGED <<size, bucket, answered, widest, calls, puts>>
  PROVE  UploadsInv'
  <1>1. DOMAIN call = Handler
    BY DEF UploadsInv, CallsFit
  <1>2. Harmless
    BY DEF Harmless, Gcs!Exists, Gcs!Key, Gcs!Dest, Gcs!Absent, Gcs!Part, Gcs!Temp
  <1>3. DOMAIN call' = Handler /\ call'[h] = Gcs!Idle /\ \A g \in Handler \ {h} : call'[g] = call[g]
    BY <1>1
  <1>4. CallFits(call[h])'
    BY <1>3 DEF CallFits, Gcs!Idle
  <1>5. CallsFit'
    BY <1>2, <1>3, <1>4, OneCall DEF UploadsInv
  <1>6. Numbers'
    BY DEF UploadsInv, Numbers, Gcs!Key, Gcs!Dest, Gcs!Part, Gcs!Temp
  <1>7. ObjectsFit' /\ ObjectIsWhole' /\ NothingIsLeft'
    BY DEF UploadsInv, ObjectsFit, ObjectIsWhole, NothingIsLeft, Gcs!ObjectIsWhole, Gcs!NothingIsLeft,
         Gcs!Exists, Gcs!Key, Gcs!Dest, Gcs!Absent, Gcs!Part, Gcs!Temp, Upto, Off
  <1>8. QED BY <1>5, <1>6, <1>7 DEF UploadsInv

\* A call returns only when its list is empty; if it was one of complete and no
\* part was PUT again, then nothing that it was to delete is there.
LEMMA returnFits ==
  ASSUME UploadsInv, NEW h \in Handler, Gcs!return(h)
  PROVE  UploadsInv'
  <1>1. /\ call[h].op = "delete" /\ call[h].keys = <<>>
        /\ call' = [call EXCEPT ![h] = Gcs!Idle] /\ answered' = (answered \/ call[h].complete)
        /\ UNCHANGED <<size, bucket, widest, calls, puts>> /\ DOMAIN call = Handler
    BY DEF Gcs!return, UploadsInv, CallsFit
  <1>2. Deleting(call[h])
    <2>1. CallFits(call[h]) BY DEF UploadsInv, CallsFit
    <2>2. call[h] # Gcs!Idle BY <1>1 DEF Gcs!Idle
    <2>3. ~ \E j \in Nat : Composing(call[h], j, size) BY <1>1 DEF Composing
    <2>4. QED BY <2>1, <2>2, <2>3 DEF CallFits
  <1>3. answered \in BOOLEAN /\ call[h].complete \in BOOLEAN
    BY <1>2 DEF UploadsInv, Numbers, Deleting
  <1>4. ASSUME call[h].complete
        PROVE  /\ Gcs!Exists(Gcs!Dest)
               /\ puts = 0 => \A k \in Gcs!Key \ {Gcs!Dest} : ~ Gcs!Exists(k)
    BY <1>1, <1>2, <1>4 DEF Deleting, CleansUp
  <1>5. Harmless
    BY <1>1 DEF Harmless, Gcs!Exists, Gcs!Key, Gcs!Dest, Gcs!Absent, Gcs!Part, Gcs!Temp
  <1>6. DOMAIN call' = Handler /\ call'[h] = Gcs!Idle /\ \A g \in Handler \ {h} : call'[g] = call[g]
    BY <1>1
  <1>7. CallFits(call[h])'
    BY <1>6 DEF CallFits, Gcs!Idle
  <1>8. CallsFit'
    BY <1>5, <1>6, <1>7, OneCall DEF UploadsInv
  <1>9. Numbers'
    BY <1>1, <1>3 DEF UploadsInv, Numbers, Gcs!Key, Gcs!Dest, Gcs!Part, Gcs!Temp
  <1>10. ObjectsFit'
    BY <1>1 DEF UploadsInv, ObjectsFit, Gcs!Exists, Gcs!Absent, Gcs!Part, Gcs!Temp, Upto, Off
  <1>11. ObjectIsWhole' /\ NothingIsLeft'
    BY <1>1, <1>4 DEF UploadsInv, ObjectIsWhole, NothingIsLeft, Gcs!ObjectIsWhole, Gcs!NothingIsLeft,
         Gcs!Exists, Gcs!Key, Gcs!Dest, Gcs!Absent, Gcs!Part, Gcs!Temp
  <1>12. QED BY <1>8, <1>9, <1>10, <1>11 DEF UploadsInv

\* A PUT writes the part that its key names, and ends the promise that nothing
\* is left.
LEMMA putFits ==
  ASSUME UploadsInv, NEW n \in 1..size, Gcs!put(n)
  PROVE  UploadsInv'
  <1>1. /\ puts < MaxPuts /\ puts' = puts + 1
        /\ bucket' = [bucket EXCEPT ![Gcs!Part(n)] = <<n>>]
        /\ UNCHANGED <<size, call, answered, widest, calls>>
    BY DEF Gcs!put
  <1>2. /\ size \in 1..MaxParts /\ bucket \in [Gcs!Key -> Seq(1..MaxParts)]
        /\ MaxParts \in Nat /\ puts \in Nat /\ MaxPuts \in Nat
    BY ComposeAssumption DEF Gcs!ComposeAssumption, UploadsInv, Numbers
  <1>3. Gcs!Part(n) \in Gcs!Key /\ Gcs!Part(n) # Gcs!Dest /\ n \in 1..MaxParts
    BY <1>2, KeyFacts
  <1>4. /\ bucket'[Gcs!Part(n)] = <<n>> /\ \A k \in Gcs!Key : k # Gcs!Part(n) => bucket'[k] = bucket[k]
    BY <1>1, <1>2, <1>3
  <1>5. puts' # 0
    BY <1>1, <1>2
  <1>6. bucket'[Gcs!Dest] = bucket[Gcs!Dest]
    BY <1>3, <1>4, KeyFacts
  <1>7. \A g \in Handler : CallFits(call[g])'
    <2>1. Harmless
      BY <1>1, <1>5, <1>6 DEF Harmless, Gcs!Exists, Gcs!Dest, Gcs!Absent
    <2>2. QED BY <1>1, <2>1, StaysFit DEF UploadsInv, CallsFit
  <1>8. CallsFit'
    BY <1>1, <1>7 DEF UploadsInv, CallsFit
  <1>9. Numbers'
    <2>1. bucket' \in [Gcs!Key -> Seq(1..MaxParts)]
      <3>1. <<n>> \in Seq(1..MaxParts) BY <1>3
      <3>2. QED BY <1>1, <1>2, <3>1
    <2>2. puts' \in 0..MaxPuts
      BY <1>1, <1>2
    <2>3. QED BY <1>1, <2>1, <2>2 DEF UploadsInv, Numbers, Gcs!Key, Gcs!Dest, Gcs!Part, Gcs!Temp
  <1>10. ObjectsFit'
    <2>1. ASSUME NEW m \in 1..MaxParts, bucket'[Gcs!Part(m)] # <<>>
          PROVE  m <= size /\ bucket'[Gcs!Part(m)] = <<m>>
      <3>1. CASE m = n BY <1>2, <1>4, <3>1
      <3>2. CASE m # n
        <4>1. bucket'[Gcs!Part(m)] = bucket[Gcs!Part(m)] BY <1>4, <3>2, KeyFacts
        <4>2. QED BY <2>1, <4>1 DEF UploadsInv, ObjectsFit, Gcs!Exists, Gcs!Absent
      <3>3. QED BY <3>1, <3>2
    <2>2. ASSUME NEW m \in 0..MaxParts, bucket'[Gcs!Temp(m)] # <<>>
          PROVE  size - Off(m) > Limit /\ bucket'[Gcs!Temp(m)] = Upto(Off(m + 1) + 1)
      <3>1. bucket'[Gcs!Temp(m)] = bucket[Gcs!Temp(m)] BY <1>4, KeyFacts
      <3>2. QED BY <2>2, <3>1 DEF UploadsInv, ObjectsFit, Gcs!Exists, Gcs!Absent
    <2>3. QED BY <1>1, <2>1, <2>2 DEF ObjectsFit, Gcs!Exists, Gcs!Absent, Gcs!Part, Gcs!Temp, Off, Upto
  <1>11. ObjectIsWhole' /\ NothingIsLeft'
    <2>1. ObjectIsWhole'
      BY <1>1, <1>6 DEF UploadsInv, ObjectIsWhole, Gcs!ObjectIsWhole, Gcs!Exists, Gcs!Absent, Gcs!Dest
    <2>2. NothingIsLeft'
      BY <1>5 DEF NothingIsLeft, Gcs!NothingIsLeft
    <2>3. QED BY <2>1, <2>2
  <1>12. QED BY <1>8, <1>9, <1>10, <1>11 DEF UploadsInv

\* One object is deleted, and never the destination.  The parts come first on the
\* list, so that no compose can succeed once a temporary object was deleted.
LEMMA delete_keyFits ==
  ASSUME UploadsInv, NEW h \in Handler, Gcs!delete_key(h)
  PROVE  UploadsInv'
  <1> DEFINE c == call[h]
             k0 == Head(c.keys)
             d == [c EXCEPT !.keys = Tail(c.keys)]
  <1>1. /\ c.op = "delete" /\ c.keys # <<>> /\ DOMAIN call = Handler
        /\ bucket' = [bucket EXCEPT ![k0] = Gcs!Absent]
        /\ call' = [call EXCEPT ![h] = d]
        /\ UNCHANGED <<size, answered, widest, calls, puts>>
    BY DEF Gcs!delete_key, UploadsInv, CallsFit
  <1>2. Deleting(c)
    <2>1. CallFits(c) BY DEF UploadsInv, CallsFit
    <2>2. c # Gcs!Idle BY <1>1 DEF Gcs!Idle
    <2>3. ~ \E j \in Nat : Composing(c, j, size) BY <1>1 DEF Composing
    <2>4. QED BY <2>1, <2>2, <2>3 DEF CallFits
  <1>3. /\ c \in [op : {"delete"}, keys : Seq(Gcs!Key \ {Gcs!Dest}), complete : BOOLEAN]
        /\ bucket \in [Gcs!Key -> Seq(1..MaxParts)]
    BY <1>2 DEF Deleting, UploadsInv, Numbers
  <1>4. k0 = c.keys[1] /\ k0 \in Gcs!Key /\ k0 # Gcs!Dest
    BY <1>1, <1>3
  <1>5. bucket'[k0] = <<>> /\ \A k \in Gcs!Key : k # k0 => bucket'[k] = bucket[k]
    BY <1>1, <1>3, <1>4 DEF Gcs!Absent
  <1>6. bucket'[Gcs!Dest] = bucket[Gcs!Dest]
    BY <1>4, <1>5, KeyFacts
  <1>7. \A k \in Gcs!Key : bucket'[k] # <<>> => k # k0 /\ bucket[k] # <<>> /\ bucket'[k] = bucket[k]
    BY <1>5
  <1>8. Harmless
    BY <1>1, <1>6, <1>7 DEF Harmless, Gcs!Exists, Gcs!Absent, Gcs!Dest, Gcs!Key, Gcs!Part, Gcs!Temp
  <1>9. /\ d \in [op : {"delete"}, keys : Seq(Gcs!Key \ {Gcs!Dest}), complete : BOOLEAN]
        /\ d.keys = Tail(c.keys) /\ d.complete = c.complete
    <2>1. Tail(c.keys) \in Seq(Gcs!Key \ {Gcs!Dest})
      <3> DEFINE ks == c.keys
                 K == Gcs!Key \ {Gcs!Dest}
      <3>1. ks \in Seq(K) /\ ks # <<>> BY <1>1, <1>3
      <3> HIDE DEF ks, K
      <3>2. Tail(ks) \in Seq(K) BY <3>1
      <3>3. QED BY <3>2 DEF ks, K
    <2> HIDE DEF c
    <2>2. QED BY <1>3, <2>1
  <1>10. /\ Len(c.keys) \in Nat /\ Len(c.keys) >= 1 /\ DOMAIN c.keys = 1..Len(c.keys)
         /\ DOMAIN d.keys = 1..(Len(c.keys) - 1)
         /\ \A i \in 1..(Len(c.keys) - 1) : d.keys[i] = c.keys[i + 1]
    <2> DEFINE ks == c.keys
               K == Gcs!Key \ {Gcs!Dest}
    <2>1. ks \in Seq(K) /\ ks # <<>> /\ d.keys = Tail(ks)
      BY <1>1, <1>3, <1>9
    <2> HIDE DEF ks, K, d
    <2>2. /\ Len(ks) \in Nat /\ Len(ks) >= 1 /\ DOMAIN ks = 1..Len(ks)
          /\ DOMAIN Tail(ks) = 1..(Len(ks) - 1)
          /\ \A i \in 1..(Len(ks) - 1) : Tail(ks)[i] = ks[i + 1]
      BY <2>1
    <2>3. QED BY <2>1, <2>2 DEF ks
  <1>11. ASSUME CleansUp(c)
         PROVE  /\ \A k \in Gcs!Key \ {Gcs!Dest} : bucket'[k] # <<>> => \E i \in DOMAIN d.keys : d.keys[i] = k
                /\ \A i, l \in DOMAIN d.keys : i < l /\ IsPart(d.keys[l]) => IsPart(d.keys[i])
                /\ (\E i \in DOMAIN d.keys : IsPart(d.keys[i])) =>
                     \A n \in 0..MaxParts : size - Off(n) > Limit =>
                       \E i \in DOMAIN d.keys : d.keys[i] = Gcs!Temp(n)
    <2>1. ASSUME NEW i \in DOMAIN c.keys, c.keys[i] # k0
          PROVE  \E l \in DOMAIN d.keys : d.keys[l] = c.keys[i]
      <3>1. i # 1 BY <1>4, <2>1
      <3>2. i - 1 \in DOMAIN d.keys /\ (i - 1) + 1 = i BY <1>10, <3>1
      <3>3. d.keys[i - 1] = c.keys[i] BY <1>10, <3>2
      <3>4. QED BY <3>2, <3>3
    <2>2. ASSUME NEW k \in Gcs!Key \ {Gcs!Dest}, bucket'[k] # <<>>
          PROVE  \E i \in DOMAIN d.keys : d.keys[i] = k
      <3>1. bucket[k] # <<>> /\ k # k0 BY <1>7, <2>2
      <3>2. PICK i \in DOMAIN c.keys : c.keys[i] = k
        BY <1>11, <3>1 DEF CleansUp, Gcs!Exists, Gcs!Absent
      <3>3. QED BY <2>1, <3>1, <3>2
    <2>3. ASSUME NEW i \in DOMAIN d.keys, NEW l \in DOMAIN d.keys, i < l, IsPart(d.keys[l])
          PROVE  IsPart(d.keys[i])
      <3>1. i + 1 \in DOMAIN c.keys /\ l + 1 \in DOMAIN c.keys /\ i + 1 < l + 1
        BY <1>10, <2>3
      <3>2. d.keys[i] = c.keys[i + 1] /\ d.keys[l] = c.keys[l + 1]
        BY <1>10
      <3>3. QED BY <1>11, <2>3, <3>1, <3>2 DEF CleansUp
    <2>4. ASSUME NEW i \in DOMAIN d.keys, IsPart(d.keys[i]), NEW n \in 0..MaxParts, size - Off(n) > Limit
          PROVE  \E l \in DOMAIN d.keys : d.keys[l] = Gcs!Temp(n)
      <3>1. i + 1 \in DOMAIN c.keys /\ 1 \in DOMAIN c.keys /\ 1 < i + 1 /\ d.keys[i] = c.keys[i + 1]
        BY <1>10
      <3>2. IsPart(c.keys[i + 1]) BY <2>4, <3>1
      <3>3. IsPart(k0) BY <1>4, <1>11, <3>1, <3>2 DEF CleansUp
      <3>4. PICK l \in DOMAIN c.keys : c.keys[l] = Gcs!Temp(n)
        BY <1>11, <2>4, <3>1, <3>2 DEF CleansUp
      <3>5. Gcs!Temp(n) # k0 BY <3>3, IsPartFacts
      <3>6. QED BY <2>1, <3>4, <3>5
    <2>5. QED BY <2>2, <2>3, <2>4
  <1>12. DOMAIN call' = Handler /\ call'[h] = d /\ \A g \in Handler \ {h} : call'[g] = call[g]
    BY <1>1
  <1>13. d.complete => bucket'[Gcs!Dest] # <<>> /\ (puts = 0 => CleansUp(c))
    BY <1>2, <1>6, <1>9 DEF Deleting, Gcs!Exists, Gcs!Absent
  <1>14. CallFits(call[h])'
    <2> HIDE DEF d, c, k0
    <2>1. ASSUME d.complete, puts' = 0 PROVE CleansUp(call[h])'
      <3>1. CleansUp(c) /\ size' = size /\ call'[h] = d
        BY <1>1, <1>12, <1>13, <2>1
      <3>2. /\ \A k \in Gcs!Key \ {Gcs!Dest} : bucket'[k] # <<>> => \E i \in DOMAIN d.keys : d.keys[i] = k
            /\ \A i, l \in DOMAIN d.keys : i < l /\ IsPart(d.keys[l]) => IsPart(d.keys[i])
            /\ (\E i \in DOMAIN d.keys : IsPart(d.keys[i])) =>
                 \A n \in 0..MaxParts : size - Off(n) > Limit =>
                   \E i \in DOMAIN d.keys : d.keys[i] = Gcs!Temp(n)
        BY <1>11, <3>1
      <3>3. QED BY <3>1, <3>2
                DEF CleansUp, Gcs!Exists, Gcs!Absent, Gcs!Key, Gcs!Dest, Gcs!Part, Gcs!Temp, IsPart, Off
    <2>2. Deleting(call[h])'
      BY <1>1, <1>9, <1>12, <1>13, <2>1 DEF Deleting, Gcs!Exists, Gcs!Absent, Gcs!Key, Gcs!Dest, Gcs!Part,
           Gcs!Temp
    <2>3. QED BY <2>2 DEF CallFits
  <1>15. CallsFit'
    BY <1>8, <1>12, <1>14, OneCall DEF UploadsInv
  <1>16. Numbers'
    <2>1. bucket' \in [Gcs!Key -> Seq(1..MaxParts)]
      BY <1>1, <1>3 DEF Gcs!Absent
    <2>2. QED BY <1>1, <2>1 DEF UploadsInv, Numbers, Gcs!Key, Gcs!Dest, Gcs!Part, Gcs!Temp
  <1>17. ObjectsFit'
    <2>1. \A n \in 1..MaxParts : Gcs!Part(n) \in Gcs!Key
      BY KeyFacts
    <2>2. \A n \in 0..MaxParts : Gcs!Temp(n) \in Gcs!Key
      BY KeyFacts
    <2>3. ASSUME NEW n \in 1..MaxParts, bucket'[Gcs!Part(n)] # <<>>
          PROVE  n <= size /\ bucket'[Gcs!Part(n)] = <<n>>
      BY <1>7, <2>1, <2>3 DEF UploadsInv, ObjectsFit, Gcs!Exists, Gcs!Absent
    <2>4. ASSUME NEW n \in 0..MaxParts, bucket'[Gcs!Temp(n)] # <<>>
          PROVE  size - Off(n) > Limit /\ bucket'[Gcs!Temp(n)] = Upto(Off(n + 1) + 1)
      BY <1>7, <2>2, <2>4 DEF UploadsInv, ObjectsFit, Gcs!Exists, Gcs!Absent
    <2>5. QED BY <1>1, <2>3, <2>4 DEF ObjectsFit, Gcs!Exists, Gcs!Absent, Gcs!Part, Gcs!Temp, Off, Upto
  <1>18. ObjectIsWhole' /\ NothingIsLeft'
    BY <1>1, <1>6, <1>7 DEF UploadsInv, ObjectIsWhole, NothingIsLeft, Gcs!ObjectIsWhole, Gcs!NothingIsLeft,
         Gcs!Exists, Gcs!Absent, Gcs!Dest, Gcs!Key, Gcs!Part, Gcs!Temp
  <1>19. QED BY <1>15, <1>16, <1>17, <1>18 DEF UploadsInv

\* The state of a call that composes.
LEMMA ComposingCall ==
  ASSUME UploadsInv, NEW h \in Handler, call[h].op = "compose"
  PROVE  \E j \in Nat : Composing(call[h], j, size)
  <1>1. CallFits(call[h]) BY DEF UploadsInv, CallsFit
  <1>2. call[h] # Gcs!Idle BY DEF Gcs!Idle
  <1>3. ~ Deleting(call[h]) BY DEF Deleting
  <1>4. QED BY <1>1, <1>2, <1>3 DEF CallFits

\* A batch is composed: the call goes on with one temporary object more.
LEMMA BatchGoesOn ==
  ASSUME NEW n \in 1..MaxParts, NEW j \in Nat, NEW c, Composing(c, j, n), n - Off(j) > Limit
  PROVE  LET temp == Gcs!Temp(Len(c.temps))
         IN /\ temp = Gcs!Temp(j) /\ j \in 0..MaxParts
            /\ Composing([c EXCEPT !.keys = Gcs!Rest(c.keys, temp), !.temps = Append(c.temps, temp)], j + 1, n)
  <1>1. /\ Batch \in Nat /\ Batch >= 2 /\ Limit \in Nat /\ Limit >= Batch /\ MaxParts \in Nat
    BY ComposeAssumption DEF Gcs!ComposeAssumption
  <1>2. /\ c.keys \in Seq(Gcs!Key) /\ Len(c.keys) = n - Off(j)
        /\ \A i \in 1..(n - Off(j)) : c.keys[i] = KeyAt(j, i)
        /\ c.temps \in Seq(Gcs!Key) /\ Len(c.temps) = j
        /\ \A i \in 1..j : c.temps[i] = Gcs!Temp(i - 1)
    BY ComposingKeys
  <1>3. Off(j) \in Nat /\ Off(j + 1) = Off(j) + (Batch - 1) /\ j <= MaxParts
    BY OffNext, ComposingNumbers
  <1> DEFINE temp == Gcs!Temp(j)
             ks == Gcs!Rest(c.keys, temp)
             ts == Append(c.temps, temp)
  <1>4. temp \in Gcs!Key /\ j \in 0..MaxParts
    BY <1>1, <1>3, KeyFacts
  <1>5. ks = [i \in 1..(n - Off(j + 1)) |-> KeyAt(j + 1, i)]
    <2> DEFINE tail == SubSeq(c.keys, Batch + 1, Len(c.keys))
    <2>1. /\ tail \in Seq(Gcs!Key) /\ Len(tail) = n - Off(j) - Batch
          /\ \A i \in 1..(n - Off(j) - Batch) : tail[i] = c.keys[Batch + i]
      <3> DEFINE all == c.keys
      <3>1. /\ all \in Seq(Gcs!Key) /\ Len(all) \in Nat /\ Batch + 1 \in 1..(Len(all) + 1)
            /\ tail = SubSeq(all, Batch + 1, Len(all)) /\ Len(all) = n - Off(j)
        BY <1>1, <1>2, <1>3
      <3> HIDE DEF all, tail
      <3> DEFINE from == Batch + 1
                 to == Len(all)
      <3>2. from \in Int /\ to \in Int /\ \A i \in from..to : all[i] \in Gcs!Key
        BY <1>1, <3>1
      <3>3. from <= to + 1 /\ to - from + 1 = to - Batch
        BY <1>1, <3>1
      <3> HIDE DEF from, to
      <3>4. /\ SubSeq(all, from, to) \in Seq(Gcs!Key)
            /\ Len(SubSeq(all, from, to)) = IF from <= to THEN to - from + 1 ELSE 0
            /\ \A i \in 1..(to - from + 1) : SubSeq(all, from, to)[i] = all[from + i - 1]
        BY <3>2, SubSeqProperties
      <3>5. tail \in Seq(Gcs!Key) /\ Len(tail) = to - from + 1
        BY <3>1, <3>2, <3>3, <3>4 DEF from, to
      <3>6. ASSUME NEW i \in 1..(to - Batch) PROVE tail[i] = all[Batch + i]
        <4>1. i \in 1..(to - from + 1) /\ from + i - 1 = Batch + i
          BY <1>1, <3>2, <3>3 DEF from
        <4>2. tail = SubSeq(all, from, to) BY <3>1 DEF from, to
        <4>3. QED BY <3>4, <4>1, <4>2, Zenon
      <3>7. QED BY <3>1, <3>3, <3>5, <3>6 DEF all, to
    <2>2. ks = <<temp>> \o tail
      BY DEF Gcs!Rest
    <2> HIDE DEF tail, temp, ks
    <2>3. ks \in Seq(Gcs!Key) /\ Len(ks) = 1 + (n - Off(j) - Batch) /\ ks[1] = temp
      BY <1>4, <2>1, <2>2
    <2>4. \A i \in 2..(n - Off(j + 1)) : ks[i] = tail[i - 1]
      BY <1>1, <1>3, <1>4, <2>1, <2>2
    <2>5. n - Off(j + 1) = 1 + (n - Off(j) - Batch) /\ n - Off(j + 1) \in Nat
      BY <1>1, <1>3
    <2>6. ASSUME NEW i \in 1..(n - Off(j + 1)) PROVE ks[i] = KeyAt(j + 1, i)
      <3>1. CASE i = 1
        <4>1. j + 1 > 0 /\ (j + 1) - 1 = j OBVIOUS
        <4>2. KeyAt(j + 1, i) = temp BY <3>1, <4>1 DEF KeyAt, temp
        <4>3. QED BY <2>3, <3>1, <4>2
      <3>2. CASE i # 1
        <4>1. i \in 2..(n - Off(j + 1)) /\ i - 1 \in 1..(n - Off(j) - Batch)
          BY <1>1, <1>3, <2>5, <3>2
        <4>2. ks[i] = c.keys[Batch + (i - 1)] BY <2>1, <2>4, <4>1
        <4>3. /\ Batch + (i - 1) \in 1..(n - Off(j)) /\ Batch + (i - 1) # 1
              /\ Off(j) + (Batch + (i - 1)) = Off(j + 1) + i
          BY <1>1, <1>3, <4>1
        <4>4. KeyAt(j, Batch + (i - 1)) = Gcs!Part(Off(j + 1) + i)
          BY <4>3 DEF KeyAt
        <4>5. KeyAt(j + 1, i) = Gcs!Part(Off(j + 1) + i)
          BY <3>2 DEF KeyAt
        <4>6. QED BY <1>2, <4>2, <4>3, <4>4, <4>5
      <3>3. QED BY <3>1, <3>2
    <2>7. ks = [i \in 1..(n - Off(j + 1)) |-> ks[i]]
      BY <2>3, <2>5
    <2>8. QED BY <2>6, <2>7
  <1>6. ts = [i \in 1..(j + 1) |-> Gcs!Temp(i - 1)]
    <2> HIDE DEF temp
    <2>1. ts \in Seq(Gcs!Key) /\ Len(ts) = j + 1
      BY <1>2, <1>4
    <2>2. ASSUME NEW i \in 1..(j + 1) PROVE ts[i] = Gcs!Temp(i - 1)
      <3>1. CASE i = j + 1
        <4>1. ts[i] = temp BY <1>2, <1>4, <3>1
        <4>2. i - 1 = j BY <3>1
        <4>3. QED BY <4>1, <4>2 DEF temp
      <3>2. CASE i # j + 1
        <4>1. i \in 1..j BY <3>2
        <4>2. ts[i] = c.temps[i] BY <1>2, <1>4, <4>1
        <4>3. QED BY <1>2, <4>1, <4>2
      <3>3. QED BY <3>1, <3>2
    <2>3. ts = [i \in 1..(j + 1) |-> ts[i]]
      <3> HIDE DEF ts
      <3>1. QED BY <2>1
    <2>4. QED BY <2>2, <2>3
  <1>7. (j + 1) - 1 = j
    OBVIOUS
  <1> DEFINE d == [c EXCEPT !.keys = ks, !.temps = ts]
  <1>8. d = [op |-> "compose", keys |-> ks, temps |-> ts]
    <2> DEFINE ks0 == [i \in 1..(n - Off(j)) |-> KeyAt(j, i)]
               ts0 == [i \in 1..j |-> Gcs!Temp(i - 1)]
    <2>1. c = [op |-> "compose", keys |-> ks0, temps |-> ts0]
      BY DEF Composing
    <2> HIDE DEF ks, ts, ks0, ts0
    <2>2. d \in [op : {"compose"}, keys : {ks}, temps : {ts}]
      BY <2>1
    <2> HIDE DEF d
    <2>3. QED BY <2>2
  <1> HIDE DEF ks, ts
  <1>9. Composing(d, j + 1, n)
    <2> HIDE DEF d
    <2>1. QED BY <1>5, <1>6, <1>7, <1>8 DEF Composing
  <1>10. temp = Gcs!Temp(Len(c.temps))
    BY <1>2
  <1>11. QED BY <1>4, <1>9, <1>10 DEF ks, ts

\* What the bucket holds after a compose, in the terms of the lemmas.
LEMMA ComposedObjects ==
  ASSUME UploadsInv, NEW dest \in Gcs!Key, NEW v \in Seq(1..MaxParts), v # <<>>,
         bucket' = [bucket EXCEPT ![dest] = v], size' = size,
         \/ dest = Gcs!Dest /\ v = Upto(size)
         \/ \E j \in 0..MaxParts : dest = Gcs!Temp(j) /\ size - Off(j) > Limit /\ v = Upto(Off(j + 1) + 1)
  PROVE  /\ bucket' \in [Gcs!Key -> Seq(1..MaxParts)] /\ ObjectsFit'
         /\ bucket'[dest] = v /\ \A k \in Gcs!Key : k # dest => bucket'[k] = bucket[k]
         /\ bucket'[Gcs!Dest] # <<>> => bucket'[Gcs!Dest] = Upto(size)
         /\ bucket[Gcs!Dest] # <<>> => bucket'[Gcs!Dest] # <<>>
  <1>1. bucket \in [Gcs!Key -> Seq(1..MaxParts)] /\ ObjectsFit
    BY DEF UploadsInv, Numbers
  <1>2. bucket'[dest] = v /\ \A k \in Gcs!Key : k # dest => bucket'[k] = bucket[k]
    BY <1>1
  <1>3. bucket' \in [Gcs!Key -> Seq(1..MaxParts)]
    BY <1>1
  <1>4. ASSUME NEW n \in 1..MaxParts, bucket'[Gcs!Part(n)] # <<>>
        PROVE  n <= size /\ bucket'[Gcs!Part(n)] = <<n>>
    <2>1. Gcs!Part(n) \in Gcs!Key /\ Gcs!Part(n) # dest BY KeyFacts
    <2>2. QED BY <1>1, <1>2, <1>4, <2>1 DEF ObjectsFit, Gcs!Exists, Gcs!Absent
  <1>5. ASSUME NEW n \in 0..MaxParts, bucket'[Gcs!Temp(n)] # <<>>
        PROVE  size - Off(n) > Limit /\ bucket'[Gcs!Temp(n)] = Upto(Off(n + 1) + 1)
    <2>1. Gcs!Temp(n) \in Gcs!Key BY KeyFacts
    <2>2. CASE Gcs!Temp(n) = dest
      <3>1. dest # Gcs!Dest BY <2>2, KeyFacts
      <3>2. PICK j \in 0..MaxParts : dest = Gcs!Temp(j) /\ size - Off(j) > Limit /\ v = Upto(Off(j + 1) + 1)
        BY <3>1
      <3>3. j = n BY <2>2, <3>2, KeyFacts
      <3>4. QED BY <1>2, <2>2, <3>2, <3>3
    <2>3. CASE Gcs!Temp(n) # dest
      BY <1>1, <1>2, <1>5, <2>1, <2>3 DEF ObjectsFit, Gcs!Exists, Gcs!Absent
    <2>4. QED BY <2>2, <2>3
  <1>6. ObjectsFit'
    BY <1>4, <1>5 DEF ObjectsFit, Gcs!Exists, Gcs!Absent, Gcs!Part, Gcs!Temp, Off, Upto
  <1>7. bucket[Gcs!Dest] # <<>> => bucket[Gcs!Dest] = Upto(size)
    BY DEF UploadsInv, ObjectIsWhole, Gcs!ObjectIsWhole, Gcs!Exists, Gcs!Absent, Upto
  <1>8. bucket'[Gcs!Dest] # <<>> => bucket'[Gcs!Dest] = Upto(size)
    <2>1. CASE dest = Gcs!Dest BY <1>2, <2>1, KeyFacts
    <2>2. CASE dest # Gcs!Dest BY <1>2, <1>7, <2>2, KeyFacts
    <2>3. QED BY <2>1, <2>2
  <1>9. bucket[Gcs!Dest] # <<>> => bucket'[Gcs!Dest] # <<>>
    BY <1>2, KeyFacts
  <1>10. QED BY <1>2, <1>3, <1>6, <1>8, <1>9

\* The list of what a call deletes after its last compose has all that is there.
LEMMA CleanupHasAll ==
  ASSUME UploadsInv, NEW j \in Nat, NEW c, Composing(c, j, size), ~ (size - Off(j) > Limit)
  PROVE  LET d == [op |-> "delete", keys |-> Gcs!Cleanup(c.temps), complete |-> TRUE]
         IN d.keys \in Seq(Gcs!Key \ {Gcs!Dest}) /\ CleansUp(d)
  <1> DEFINE ks == Gcs!Cleanup(c.temps)
  <1>1. size \in 1..MaxParts /\ MaxParts \in Nat /\ Limit \in Nat
    BY ComposeAssumption DEF UploadsInv, Numbers, Gcs!ComposeAssumption
  <1>2. /\ c.temps \in Seq(Gcs!Key) /\ Len(c.temps) = j /\ \A i \in 1..j : c.temps[i] = Gcs!Temp(i - 1)
        /\ j <= MaxParts /\ Off(j) \in Nat
    BY <1>1, ComposingKeys, ComposingNumbers
  <1>3. /\ Gcs!PartKeys \in Seq(Gcs!Key) /\ Len(Gcs!PartKeys) = size
        /\ \A i \in 1..size : Gcs!PartKeys[i] = Gcs!Part(i)
    <2>1. \A i \in 1..size : Gcs!Part(i) \in Gcs!Key BY <1>1, KeyFacts
    <2>2. QED BY <1>1, <2>1 DEF Gcs!PartKeys
  <1>4. /\ ks \in Seq(Gcs!Key) /\ Len(ks) = size + j
        /\ \A i \in 1..size : ks[i] = Gcs!Part(i)
        /\ \A i \in 1..j : ks[size + i] = Gcs!Temp(i - 1)
    <2> DEFINE ts == c.temps
    <2>1. ks = Gcs!PartKeys \o ts BY DEF Gcs!Cleanup
    <2>2. ts \in Seq(Gcs!Key) /\ Len(ts) = j /\ \A i \in 1..j : ts[i] = Gcs!Temp(i - 1)
      BY <1>2
    <2> HIDE DEF ks, ts
    <2>3. /\ ks \in Seq(Gcs!Key) /\ Len(ks) = size + j
          /\ \A i \in 1..size : ks[i] = Gcs!PartKeys[i]
          /\ \A i \in 1..j : ks[size + i] = ts[i]
      <3> DEFINE ps == Gcs!PartKeys
      <3>1. ks = ps \o ts /\ ps \in Seq(Gcs!Key) /\ Len(ps) = size
        BY <1>3, <2>1
      <3> HIDE DEF ps
      <3>2. /\ ks \in Seq(Gcs!Key) /\ Len(ks) = size + j
            /\ \A i \in 1..(size + j) : ks[i] = IF i <= size THEN ps[i] ELSE ts[i - size]
        BY <2>2, <3>1, ConcatProperties
      <3>3. \A i \in 1..size : ks[i] = ps[i]
        BY <1>1, <3>2
      <3>4. ASSUME NEW i \in 1..j PROVE ks[size + i] = ts[i]
        <4>1. size + i \in 1..(size + j) /\ ~ (size + i <= size) /\ (size + i) - size = i
          BY <1>1
        <4>2. QED BY <3>2, <4>1
      <3>5. QED BY <3>2, <3>3, <3>4 DEF ps
    <2>4. QED BY <1>3, <2>2, <2>3
  <1> HIDE DEF ks
  <1>5. DOMAIN ks = 1..(size + j)
    BY <1>4
  <1>6. ASSUME NEW i \in 1..(size + j), i > size
        PROVE  ks[i] = Gcs!Temp((i - size) - 1)
    <2>1. i - size \in 1..j /\ size + (i - size) = i BY <1>1, <1>6
    <2>2. QED BY <1>4, <2>1
  <1>7. ASSUME NEW n \in 0..MaxParts, size - Off(n) > Limit
        PROVE  \E i \in DOMAIN ks : ks[i] = Gcs!Temp(n)
    <2>1. n < j
      <3>1. n >= j => size - Off(n) <= size - Off(j) BY <1>1, ComposingNumbers
      <3>2. Off(n) \in Nat BY OffNext
      <3>3. QED BY <1>1, <1>2, <1>7, <3>1, <3>2
    <2>2. n + 1 \in 1..j /\ (n + 1) - 1 = n BY <2>1
    <2>3. ks[size + (n + 1)] = Gcs!Temp(n) BY <1>4, <2>2
    <2>4. size + (n + 1) \in DOMAIN ks BY <1>1, <1>5, <2>2
    <2>5. QED BY <2>3, <2>4
  <1>8. \A i, l \in DOMAIN ks : i < l /\ IsPart(ks[l]) => IsPart(ks[i])
    <2>1. SUFFICES ASSUME NEW i \in DOMAIN ks, NEW l \in DOMAIN ks, i < l, IsPart(ks[l])
                   PROVE  IsPart(ks[i])
      OBVIOUS
    <2>2. ~ (l > size)
      BY <1>5, <1>6, <2>1, IsPartFacts
    <2>3. i \in 1..size BY <1>1, <1>5, <2>1, <2>2
    <2>4. QED BY <1>4, <2>3, IsPartFacts
  <1>9. ASSUME NEW k \in Gcs!Key \ {Gcs!Dest}, Gcs!Exists(k)
        PROVE  \E i \in DOMAIN ks : ks[i] = k
    <2>1. CASE \E n \in 1..MaxParts : k = Gcs!Part(n)
      <3>1. PICK n \in 1..MaxParts : k = Gcs!Part(n) BY <2>1
      <3>2. n \in 1..size BY <1>1, <1>9, <3>1 DEF UploadsInv, ObjectsFit
      <3>3. n \in DOMAIN ks /\ ks[n] = k BY <1>1, <1>4, <1>5, <3>1, <3>2
      <3>4. QED BY <3>3
    <2>2. CASE \E n \in 0..MaxParts : k = Gcs!Temp(n)
      <3>1. PICK n \in 0..MaxParts : k = Gcs!Temp(n) BY <2>2
      <3>2. size - Off(n) > Limit BY <1>9, <3>1 DEF UploadsInv, ObjectsFit
      <3>3. QED BY <1>7, <3>1, <3>2
    <2>3. QED BY <2>1, <2>2, KeyFacts
  <1>10. ks \in Seq(Gcs!Key \ {Gcs!Dest})
    <2>1. ASSUME NEW i \in 1..(size + j) PROVE ks[i] \in Gcs!Key \ {Gcs!Dest}
      <3>1. ks[i] \in Gcs!Key BY <1>4, <1>5
      <3>2. ks[i] # Gcs!Dest
        <4>1. CASE i > size BY <1>6, <4>1, KeyFacts
        <4>2. CASE ~ (i > size)
          <5>1. i \in 1..size BY <1>1, <4>2
          <5>2. QED BY <1>4, <5>1, KeyFacts
        <4>3. QED BY <4>1, <4>2
      <3>3. QED BY <3>1, <3>2
    <2>2. QED BY <1>4, <1>5, <2>1
  <1> DEFINE d == [op |-> "delete", keys |-> ks, complete |-> TRUE]
  <1>11. d.keys = ks
    OBVIOUS
  <1> HIDE DEF d
  <1>12. CleansUp(d)
    BY <1>7, <1>8, <1>9, <1>11 DEF CleansUp
  <1>13. QED BY <1>10, <1>12 DEF d, ks

\* A compose needs a part.  It makes the next temporary object, which whoever
\* still has a part to delete also has to delete, or all parts in order.
LEMMA composeFits ==
  ASSUME UploadsInv, NEW h \in Handler, Gcs!compose(h)
  PROVE  UploadsInv'
  <1> DEFINE c == call[h]
             src == Gcs!Sources(c.keys)
             temp == Gcs!Temp(Len(c.temps))
             batch == [c EXCEPT !.keys = Gcs!Rest(c.keys, temp), !.temps = Append(c.temps, temp)]
             last == [op |-> "delete", keys |-> Gcs!Cleanup(c.temps), complete |-> TRUE]
  <1>1. /\ c.op = "compose" /\ DOMAIN call = Handler
        /\ \A i \in DOMAIN src : Gcs!Exists(src[i])
        /\ bucket' = [bucket EXCEPT ![IF Gcs!MustBatch(c.keys) THEN temp ELSE Gcs!Dest] = Gcs!Composed(src)]
        /\ widest' = IF Len(src) > widest THEN Len(src) ELSE widest
        /\ call' = [call EXCEPT ![h] = IF Gcs!MustBatch(c.keys) THEN batch ELSE last]
        /\ UNCHANGED <<size, answered, calls, puts>>
    BY DEF Gcs!compose, UploadsInv, CallsFit
  <1>2. /\ size \in 1..MaxParts /\ MaxParts \in Nat /\ Limit \in Nat /\ Batch \in Nat
        /\ widest \in 0..Limit
    BY ComposeAssumption DEF Gcs!ComposeAssumption, UploadsInv, Numbers
  <1>3. PICK j \in Nat : Composing(c, j, size)
    BY <1>1, ComposingCall
  <1> DEFINE m == IF Gcs!MustBatch(c.keys) THEN Batch ELSE size - Off(j)
  <1> HIDE DEF c, src, batch, last
  <1>4. /\ Gcs!MustBatch(c.keys) <=> size - Off(j) > Limit
        /\ m \in 1..Limit /\ m <= size - Off(j) /\ Len(src) = m
        /\ \E n \in 1..MaxParts : Gcs!Exists(Gcs!Part(n))
        /\ Gcs!Composed(src) = Upto(Off(j) + m)
    <2>1. \A i \in DOMAIN Gcs!Sources(c.keys) : Gcs!Exists(Gcs!Sources(c.keys)[i])
      BY <1>1 DEF src
    <2>2. QED BY <1>3, <2>1, NextSources DEF src
  <1>5. Off(j) \in Nat /\ Off(j) < size /\ Off(j + 1) = Off(j) + (Batch - 1)
    BY <1>2, <1>3, ComposingNumbers, OffNext
  <1>6. Upto(Off(j) + m) \in Seq(1..MaxParts) /\ Upto(Off(j) + m) # <<>>
    <2>1. Off(j) + m \in 1..MaxParts BY <1>2, <1>4, <1>5
    <2>2. \A n \in 1..MaxParts : Upto(n) \in Seq(1..MaxParts) /\ Len(Upto(n)) = n BY <1>2 DEF Upto
    <2>3. QED BY <2>1, <2>2
  <1>7. ~ (answered /\ puts = 0)
    BY <1>4, KeyFacts DEF UploadsInv, NothingIsLeft, Gcs!NothingIsLeft
  <1>8. widest' \in 0..Limit
    BY <1>1, <1>2, <1>4
  <1>9. CASE Gcs!MustBatch(c.keys)
    <2>1. size - Off(j) > Limit /\ m = Batch /\ Off(j) + m = Off(j + 1) + 1
      BY <1>2, <1>4, <1>5, <1>9
    <2>2. temp = Gcs!Temp(j) /\ j \in 0..MaxParts /\ Composing(batch, j + 1, size)
      BY <1>2, <1>3, <2>1, BatchGoesOn DEF batch
    <2>3. temp \in Gcs!Key /\ temp # Gcs!Dest
      BY <2>2, KeyFacts
    <2> HIDE DEF temp, m
    <2>4. /\ bucket' = [bucket EXCEPT ![temp] = Upto(Off(j) + m)] /\ call' = [call EXCEPT ![h] = batch]
          /\ size' = size
      BY <1>1, <1>4, <1>9
    <2>5. /\ bucket' \in [Gcs!Key -> Seq(1..MaxParts)] /\ ObjectsFit'
          /\ \A k \in Gcs!Key : k # temp => bucket'[k] = bucket[k]
          /\ bucket'[Gcs!Dest] # <<>> => bucket'[Gcs!Dest] = Upto(size)
      BY <1>6, <2>1, <2>2, <2>3, <2>4, ComposedObjects
    <2>6. bucket'[Gcs!Dest] = bucket[Gcs!Dest]
      BY <2>3, <2>5, KeyFacts
    <2>7. Harmless
      <3>1. ASSUME NEW k \in Gcs!Key \ {Gcs!Dest}, bucket'[k] # <<>>
            PROVE  bucket[k] # <<>> \/ \E n \in 0..MaxParts : k = Gcs!Temp(n) /\ size - Off(n) > Limit
        BY <2>1, <2>2, <2>5, <3>1
      <3>2. QED BY <1>1, <1>4, <2>6, <3>1 DEF Harmless, Gcs!Exists, Gcs!Absent, Gcs!Dest, Gcs!Key, Gcs!Part, Gcs!Temp
    <2>8. DOMAIN call' = Handler /\ call'[h] = batch /\ \A g \in Handler \ {h} : call'[g] = call[g]
      BY <1>1, <2>4
    <2>9. CallFits(call[h])'
      <3>1. Composing(call'[h], j + 1, size') BY <2>2, <2>4, <2>8
      <3>2. \E i \in Nat : Composing(call'[h], i, size') BY <3>1
      <3>3. QED BY <3>2 DEF CallFits, Composing, KeyAt, Off, Gcs!Part, Gcs!Temp
    <2>10. CallsFit'
      BY <2>7, <2>8, <2>9, OneCall DEF UploadsInv
    <2>11. Numbers'
      BY <1>1, <1>8, <2>5 DEF UploadsInv, Numbers, Gcs!Key, Gcs!Dest, Gcs!Part, Gcs!Temp
    <2>12. ObjectIsWhole'
      BY <1>1, <2>6 DEF UploadsInv, ObjectIsWhole, Gcs!ObjectIsWhole, Gcs!Exists, Gcs!Absent, Gcs!Dest
    <2>13. NothingIsLeft'
      BY <1>1, <1>7 DEF NothingIsLeft, Gcs!NothingIsLeft
    <2>14. QED BY <2>5, <2>10, <2>11, <2>12, <2>13 DEF UploadsInv
  <1>10. CASE ~ Gcs!MustBatch(c.keys)
    <2>1. ~ (size - Off(j) > Limit) /\ Off(j) + m = size
      BY <1>2, <1>4, <1>5, <1>10
    <2>2. last.keys \in Seq(Gcs!Key \ {Gcs!Dest}) /\ CleansUp(last)
      BY <1>3, <2>1, CleanupHasAll DEF last
    <2> HIDE DEF m
    <2>3. /\ bucket' = [bucket EXCEPT ![Gcs!Dest] = Upto(size)] /\ call' = [call EXCEPT ![h] = last]
          /\ size' = size
      BY <1>1, <1>4, <1>10, <2>1
    <2>4. Upto(size) \in Seq(1..MaxParts) /\ Upto(size) # <<>>
      BY <1>6, <2>1
    <2>5. /\ bucket' \in [Gcs!Key -> Seq(1..MaxParts)] /\ ObjectsFit' /\ bucket'[Gcs!Dest] = Upto(size)
          /\ \A k \in Gcs!Key : k # Gcs!Dest => bucket'[k] = bucket[k]
      BY <2>3, <2>4, KeyFacts, ComposedObjects
    <2>6. bucket'[Gcs!Dest] # <<>>
      BY <2>4, <2>5
    <2>7. Harmless
      BY <1>1, <2>5, <2>6 DEF Harmless, Gcs!Exists, Gcs!Absent, Gcs!Dest, Gcs!Key, Gcs!Part, Gcs!Temp
    <2>8. DOMAIN call' = Handler /\ call'[h] = last /\ \A g \in Handler \ {h} : call'[g] = call[g]
      BY <1>1, <2>3
    <2>9. CleansUp(call[h])'
      <3>1. \A k \in Gcs!Key \ {Gcs!Dest} : bucket'[k] = bucket[k] BY <2>5
      <3>2. QED BY <2>2, <2>3, <2>8, <3>1
                DEF CleansUp, Gcs!Exists, Gcs!Absent, Gcs!Dest, Gcs!Key, Gcs!Part, Gcs!Temp, IsPart, Off
    <2>10. CallFits(call[h])'
      <3>1. last \in [op : {"delete"}, keys : Seq(Gcs!Key \ {Gcs!Dest}), complete : BOOLEAN]
        BY <2>2 DEF last
      <3>2. Deleting(call[h])'
        BY <2>6, <2>8, <2>9, <3>1 DEF Deleting, Gcs!Exists, Gcs!Absent, Gcs!Dest, Gcs!Key, Gcs!Part, Gcs!Temp
      <3>3. QED BY <3>2 DEF CallFits
    <2>11. CallsFit'
      BY <2>7, <2>8, <2>10, OneCall DEF UploadsInv
    <2>12. Numbers'
      BY <1>1, <1>8, <2>5 DEF UploadsInv, Numbers, Gcs!Key, Gcs!Dest, Gcs!Part, Gcs!Temp
    <2>13. ObjectIsWhole'
      BY <1>1, <2>5, <2>6 DEF ObjectIsWhole, Gcs!ObjectIsWhole, Gcs!Exists, Gcs!Absent, Gcs!Dest, Upto
    <2>14. NothingIsLeft'
      BY <1>1, <1>7 DEF NothingIsLeft, Gcs!NothingIsLeft
    <2>15. QED BY <2>5, <2>11, <2>12, <2>13, <2>14 DEF UploadsInv
  <1>11. QED BY <1>9, <1>10

\* It holds when the client has uploaded the parts.
LEMMA UploadsInit == Gcs!Init => UploadsInv
  <1> SUFFICES ASSUME Gcs!Init PROVE UploadsInv
    OBVIOUS
  <1>1. /\ size \in 1..MaxParts /\ MaxParts \in Nat /\ Limit \in Nat /\ MaxCalls \in Nat /\ MaxPuts \in Nat
        /\ bucket = [k \in Gcs!Key |-> IF k \in {Gcs!Part(n) : n \in 1..size} THEN <<k[2]>> ELSE Gcs!Absent]
        /\ call = [g \in Handler |-> Gcs!Idle] /\ answered = FALSE /\ widest = 0 /\ calls = 0 /\ puts = 0
    BY ComposeAssumption DEF Gcs!ComposeAssumption, Gcs!Init
  <1>2. ASSUME NEW n \in 1..MaxParts
        PROVE  bucket[Gcs!Part(n)] = IF n \in 1..size THEN <<n>> ELSE <<>>
    <2>1. Gcs!Part(n) \in Gcs!Key /\ Gcs!Part(n)[2] = n
      BY KeyFacts DEF Gcs!Part
    <2>2. Gcs!Part(n) \in {Gcs!Part(i) : i \in 1..size} <=> n \in 1..size
      BY KeyFacts
    <2>3. QED BY <1>1, <2>1, <2>2 DEF Gcs!Absent
  <1>3. ASSUME NEW k \in Gcs!Key, \A n \in 1..MaxParts : k # Gcs!Part(n)
        PROVE  bucket[k] = <<>>
    BY <1>1, <1>3 DEF Gcs!Absent
  <1>4. \A n \in 0..MaxParts : bucket[Gcs!Temp(n)] = <<>>
    BY <1>3, KeyFacts
  <1>5. bucket[Gcs!Dest] = <<>>
    BY <1>3, KeyFacts
  <1>6. bucket \in [Gcs!Key -> Seq(1..MaxParts)]
    <2>1. ASSUME NEW k \in Gcs!Key PROVE bucket[k] \in Seq(1..MaxParts)
      <3>1. CASE \E n \in 1..MaxParts : k = Gcs!Part(n)
        <4>1. PICK n \in 1..MaxParts : k = Gcs!Part(n) BY <3>1
        <4>2. <<n>> \in Seq(1..MaxParts) /\ <<>> \in Seq(1..MaxParts) OBVIOUS
        <4>3. QED BY <1>2, <4>1, <4>2
      <3>2. CASE ~ \E n \in 1..MaxParts : k = Gcs!Part(n)
        <4>1. bucket[k] = <<>> BY <1>3, <3>2
        <4>2. QED BY <4>1
      <3>3. QED BY <3>1, <3>2
    <2>2. bucket = [k \in Gcs!Key |-> bucket[k]] BY <1>1
    <2>3. QED BY <2>1, <2>2
  <1>7. Numbers
    <2>1. 0 \in 0..Limit /\ 0 \in 0..MaxCalls /\ 0 \in 0..MaxPuts BY <1>1
    <2>2. /\ size \in 1..MaxParts /\ answered \in BOOLEAN /\ widest \in 0..Limit
          /\ calls \in 0..MaxCalls /\ puts \in 0..MaxPuts
      BY <1>1, <2>1
    <2>3. QED BY <1>6, <2>2 DEF Numbers
  <1>8. ObjectsFit
    <2>1. ASSUME NEW n \in 1..MaxParts, bucket[Gcs!Part(n)] # <<>>
          PROVE  n <= size /\ bucket[Gcs!Part(n)] = <<n>>
      <3>1. n \in 1..size BY <1>2, <2>1
      <3>2. bucket[Gcs!Part(n)] = <<n>> BY <1>2, <3>1
      <3>3. n <= size BY <1>7, <3>1 DEF Numbers
      <3>4. QED BY <3>2, <3>3
    <2>2. QED BY <1>4, <2>1 DEF ObjectsFit, Gcs!Exists, Gcs!Absent
  <1>9. CallsFit
    BY <1>1 DEF CallsFit, CallFits
  <1>10. ObjectIsWhole /\ NothingIsLeft
    BY <1>1, <1>5 DEF ObjectIsWhole, NothingIsLeft, Gcs!ObjectIsWhole, Gcs!NothingIsLeft, Gcs!Exists, Gcs!Absent
  <1>11. QED BY <1>7, <1>8, <1>9, <1>10 DEF UploadsInv

\* Every step of a call or of the client keeps it.
LEMMA UploadsNext == UploadsInv /\ [Gcs!Next]_Gcs!vars => UploadsInv'
  <1> SUFFICES ASSUME UploadsInv, [Gcs!Next]_Gcs!vars PROVE UploadsInv'
    OBVIOUS
  <1>1. ASSUME NEW h \in Handler, Gcs!Complete(h) PROVE UploadsInv'
    <2>1. CASE Gcs!complete_multipart_upload(h) BY <2>1, complete_multipart_uploadFits
    <2>2. CASE Gcs!compose(h) BY <2>2, composeFits
    <2>3. CASE Gcs!compose_error(h) BY <2>3, EndFits DEF Gcs!compose_error
    <2>4. QED BY <1>1, <2>1, <2>2, <2>3 DEF Gcs!Complete
  <1>2. ASSUME NEW h \in Handler, Gcs!Delete(h) PROVE UploadsInv'
    <2>1. CASE Gcs!abort_multipart_upload(h) BY <2>1, abort_multipart_uploadFits
    <2>2. CASE Gcs!delete_key(h) BY <2>2, delete_keyFits
    <2>3. CASE Gcs!return(h) BY <2>3, returnFits
    <2>4. QED BY <1>2, <2>1, <2>2, <2>3 DEF Gcs!Delete
  <1>3. ASSUME NEW h \in Handler, Gcs!stop(h) PROVE UploadsInv'
    BY <1>3, EndFits DEF Gcs!stop
  <1>4. ASSUME NEW n \in 1..size, Gcs!put(n) PROVE UploadsInv'
    BY <1>4, putFits
  <1>5. CASE UNCHANGED Gcs!vars
    <2>1. UNCHANGED <<size, bucket, call, answered, widest, calls, puts>>
      BY <1>5 DEF Gcs!vars
    <2>2. \A g \in Handler : CallFits(call[g])'
      <3>1. Harmless BY <2>1 DEF Harmless, Gcs!Exists, Gcs!Absent, Gcs!Dest, Gcs!Key, Gcs!Part, Gcs!Temp
      <3>2. QED BY <2>1, <3>1, StaysFit DEF UploadsInv, CallsFit
    <2>3. CallsFit' BY <2>1, <2>2 DEF UploadsInv, CallsFit
    <2>4. Numbers' BY <2>1 DEF UploadsInv, Numbers, Gcs!Key, Gcs!Dest, Gcs!Part, Gcs!Temp
    <2>5. ObjectsFit' /\ ObjectIsWhole' /\ NothingIsLeft'
      BY <2>1 DEF UploadsInv, ObjectsFit, ObjectIsWhole, NothingIsLeft, Gcs!ObjectIsWhole, Gcs!NothingIsLeft,
           Gcs!Exists, Gcs!Key, Gcs!Dest, Gcs!Absent, Gcs!Part, Gcs!Temp, Upto, Off
    <2>6. QED BY <2>3, <2>4, <2>5 DEF UploadsInv
  <1>6. QED BY <1>1, <1>2, <1>3, <1>4, <1>5 DEF Gcs!Next

\* The inductive invariant holds of the calls of the GCS provider.
THEOREM UploadsInvariant == Gcs!Spec => []UploadsInv
  BY UploadsInit, UploadsNext, PTL DEF Gcs!Spec

\* Every variable has its type, and no compose of complete_multipart_upload has
\* more sources than GCS takes, for any number of parts.
THEOREM ComposeTypes == Gcs!Spec => []ComposeTypeOK
  <1>1. UploadsInv => ComposeTypeOK
    BY CallTypes DEF UploadsInv, Numbers, ComposeTypeOK, Gcs!TypeOK
  <1>2. QED BY <1>1, UploadsInvariant, PTL

\* The object that complete_multipart_upload composes is never anything but all
\* parts in order, and is there once a call has returned, whatever overlaps.
THEOREM ComposedObjectIsWhole == Gcs!Spec => []ObjectIsWhole
  <1>1. UploadsInv => ObjectIsWhole
    BY DEF UploadsInv
  <1>2. QED BY <1>1, UploadsInvariant, PTL

\* Once complete_multipart_upload has returned, no part and no temporary object
\* is left or comes back, unless the client PUTs a part again.
THEOREM NothingIsLeftBehind == Gcs!Spec => []NothingIsLeft
  <1>1. UploadsInv => NothingIsLeft
    BY DEF UploadsInv
  <1>2. QED BY <1>1, UploadsInvariant, PTL

=============================================================================
