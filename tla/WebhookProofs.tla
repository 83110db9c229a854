---------------------------- MODULE WebhookProofs ----------------------------
(***************************************************************************)
(* Proofs about webhook delivery, for any number of messages, webhooks,    *)
(* concurrent handlers, administrative changes and faults.                 *)
(***************************************************************************)
EXTENDS WebhookDelivery, FiniteSetTheorems, TLAPS

\* A task at work belongs to a handler that gathers a stored message.
LEMMA TaskShape ==
  ASSUME TypeOK, NEW r \in Handler, NEW h \in Hook, task[r][h].pc # "none"
  PROVE  /\ handler[r].pc = "gather" /\ handler[r].msg \in Message
         /\ handler[r].msg \in stored /\ task[r][h] \in TaskType
  BY DEF TypeOK

\* What the steps of a task do to it.
LEMMA TaskFields ==
  ASSUME TypeOK, NEW r \in Handler, NEW h \in Hook
  PROVE  /\ \A ok \in BOOLEAN : post(r, h, ok) =>
              /\ task[r][h].pc = "post" /\ task'[r][h].pc = "record"
              /\ task'[r][h].attempt = task[r][h].attempt
              /\ task'[r][h].status = IF ok THEN "success" ELSE "failed"
         /\ record(r, h) =>
              /\ task[r][h].pc = "record" /\ task[r][h].status \in {"success", "failed"}
              /\ task'[r][h].pc = AfterAttempt(task[r][h])
              /\ task'[r][h].attempt = task[r][h].attempt
         /\ record_error(r, h) =>
              task[r][h].pc = "record" /\ task'[r][h].pc = "done"
         /\ wake(r, h) =>
              /\ task[r][h].pc = "sleep" /\ task'[r][h].pc = "post"
              /\ task'[r][h].attempt = task[r][h].attempt + 1
  <1> DEFINE t == task[r][h]
  <1>1. task \in [Handler -> [Hook -> TaskType]] /\ t \in TaskType
    BY DEF TypeOK
  <1>2. ASSUME NEW new, task' = [task EXCEPT ![r][h] = new]
        PROVE  task'[r][h] = new
    BY <1>1, <1>2
  <1>3. ASSUME NEW ok \in BOOLEAN, post(r, h, ok)
        PROVE  t.pc = "post" /\ task'[r][h] = [t EXCEPT !.pc = "record",
                                              !.status = IF ok THEN "success" ELSE "failed"]
    <2>1. t.pc = "post" /\ task' = [task EXCEPT ![r][h] = [t EXCEPT !.pc = "record",
                                              !.status = IF ok THEN "success" ELSE "failed"]]
      BY <1>3 DEF post
    <2>2. QED
      BY <1>1, <2>1
  <1>4. ASSUME record(r, h)
        PROVE  /\ t.pc = "record" /\ t.status \in {"success", "failed"}
               /\ task'[r][h] = [t EXCEPT !.pc = AfterAttempt(t)]
    <2>1. t.pc = "record" /\ task' = [task EXCEPT ![r][h] = [t EXCEPT !.pc = AfterAttempt(t)]]
      BY <1>4 DEF record
    <2>2. t.status # "pending"
      BY <2>1 DEF TypeOK
    <2>3. QED
      BY <1>1, <1>2, <2>1, <2>2 DEF TaskType
  <1>5. ASSUME record_error(r, h)
        PROVE  t.pc = "record" /\ task'[r][h] = [t EXCEPT !.pc = "done"]
    BY <1>2, <1>5 DEF record_error
  <1>6. ASSUME wake(r, h)
        PROVE  t.pc = "sleep" /\ task'[r][h] = [t EXCEPT !.pc = "post", !.attempt = t.attempt + 1]
    <2>1. t.pc = "sleep" /\ task' = [task EXCEPT ![r][h] = [t EXCEPT !.pc = "post",
                                                            !.attempt = t.attempt + 1]]
      BY <1>6 DEF wake
    <2>2. QED
      BY <1>1, <2>1
  <1> HIDE DEF t
  <1>7. QED
    BY <1>1, <1>3, <1>4, <1>5, <1>6 DEF TaskType, t

\* The steps that write rows, acks and the table of webhooks.
LEMMA Writers ==
  ASSUME [Next]_vars
  PROVE  /\ UNCHANGED rows \/ \E r \in Handler, h \in Hook : record(r, h)
         /\ UNCHANGED acked \/ \E r \in Handler : ack(r)
         /\ \/ UNCHANGED <<hook, stored, steady>>
            \/ \E h \in Hook : create(h) \/ update(h) \/ delete(h)
            \/ \E m \in Message : store(m)
  <1>1. ASSUME NEW h \in Hook, create(h) \/ update(h) \/ delete(h)
        PROVE  UNCHANGED <<rows, acked>>
    BY <1>1 DEF create, update, delete, Administer
  <1>2. ASSUME NEW m \in Message, store(m)
        PROVE  UNCHANGED <<rows, acked>>
    BY <1>2 DEF store
  <1>3. ASSUME NEW r \in Handler, NEW m \in Message, deliver(r, m) \/ redeliver(r, m)
        PROVE  UNCHANGED <<rows, acked, hook, stored, steady>>
    BY <1>3 DEF deliver, redeliver, StartHandler
  <1>4. ASSUME NEW r \in Handler, NEW h \in Hook, TaskStep(r, h)
        PROVE  /\ UNCHANGED rows \/ record(r, h)
               /\ UNCHANGED <<acked, hook, stored, steady>>
    BY <1>4 DEF TaskStep, post, record, record_error, wake
  <1>5. ASSUME NEW r \in Handler, list_active(r) \/ lose_handler(r)
        PROVE  UNCHANGED <<rows, acked, hook, stored, steady>>
    BY <1>5 DEF list_active, lose_handler
  <1>6. ASSUME NEW r \in Handler, ack(r)
        PROVE  UNCHANGED <<rows, hook, stored, steady>>
    BY <1>6 DEF ack
  <1>7. UNCHANGED vars => UNCHANGED <<rows, acked, hook, stored, steady>>
    BY DEF vars
  <1>8. CASE Admin \/ Store \/ Deliver \/ Redeliver
    BY <1>1, <1>2, <1>3, <1>8 DEF Admin, Store, Deliver, Redeliver
  <1>9. CASE \E r \in Handler : HandlerStep(r) \/ lose_handler(r)
    BY <1>4, <1>5, <1>6, <1>9 DEF HandlerStep
  <1>10. QED
    BY <1>7, <1>8, <1>9 DEF Next

\* A handler that ends has no tasks left.
LEMMA EndType ==
  ASSUME TypeOK, NEW r \in Handler, EndHandler(r)
  PROVE  /\ handler' \in [Handler -> [pc : {"idle", "start", "gather"}, msg : Message]]
         /\ task' \in [Handler -> [Hook -> TaskType]]
         /\ \A q \in Handler : handler'[q].pc # "idle" => handler'[q] = handler[q]
         /\ \A q \in Handler, h \in Hook : task'[q][h].pc # "none" =>
              task'[q][h] = task[q][h] /\ handler'[q] = handler[q]
  <1>1. IdleHandler \in [pc : {"idle", "start", "gather"}, msg : Message]
    BY WebhookAssumption DEF IdleHandler
  <1>2. NoTasks \in [Hook -> TaskType] /\ \A h \in Hook : NoTasks[h].pc = "none"
    BY DEF NoTasks, IdleTask, TaskType
  <1>3. IdleHandler.pc = "idle"
    BY DEF IdleHandler
  <1>4. QED
    BY <1>1, <1>2, <1>3 DEF EndHandler, TypeOK

\* A step of a task keeps the types if the new task has its type.
LEMMA TaskType1 ==
  ASSUME TypeOK, NEW r \in Handler, NEW h \in Hook, NEW t \in TaskType,
         task[r][h].pc # "none", t.pc = "record" => t.status # "pending",
         task' = [task EXCEPT ![r][h] = t],
         UNCHANGED <<hook, stored, acked, steady, handler, admin, faults>>,
         rows' \in [Message -> [Hook -> Seq(RowType)]],
         posted' \in [Message -> [Hook -> [n : Nat, ok : BOOLEAN]]]
  PROVE  TypeOK'
  <1>1. task' \in [Handler -> [Hook -> TaskType]]
    BY DEF TypeOK
  <1>2. \A q \in Handler, g \in Hook : task'[q][g] = IF q = r /\ g = h THEN t ELSE task[q][g]
    BY DEF TypeOK
  <1>3. QED
    BY <1>1, <1>2 DEF TypeOK

\* A task that gives up is done; a task that wakes starts its next attempt.
LEMMA ErrorOrWake ==
  ASSUME TypeOK, NEW r \in Handler, NEW h \in Hook, record_error(r, h) \/ wake(r, h)
  PROVE  \E t \in {[task[r][h] EXCEPT !.pc = "done"],
                   [task[r][h] EXCEPT !.pc = "post", !.attempt = @ + 1]} :
           task' = [task EXCEPT ![r][h] = t]
  <1>1. CASE record_error(r, h)
    <2>1. task' = [task EXCEPT ![r][h] = [task[r][h] EXCEPT !.pc = "done"]]
      BY <1>1 DEF record_error
    <2>2. QED
      BY <2>1
  <1>2. CASE wake(r, h)
    <2> DEFINE t == [task[r][h] EXCEPT !.pc = "post", !.attempt = @ + 1]
    <2>1. task[r][h] \in TaskType
      BY DEF TypeOK
    <2>2. t = [[task[r][h] EXCEPT !.pc = "post"] EXCEPT !.attempt = task[r][h].attempt + 1]
      BY <2>1 DEF TaskType
    <2>3. task' = [task EXCEPT ![r][h] = t]
      BY <1>2, <2>1, <2>2 DEF wake, TypeOK, TaskType
    <2>4. QED
      BY <2>3
  <1>3. QED
    BY <1>1, <1>2

\* Every step keeps the type invariant.
LEMMA TypeStep ==
  ASSUME TypeOK, [Next]_vars
  PROVE  TypeOK'
  <1>1. CASE UNCHANGED vars
    BY <1>1 DEF vars, TypeOK
  <1>2. ASSUME NEW h \in Hook, create(h) \/ update(h) \/ delete(h)
        PROVE  TypeOK'
    <2>1. PICK new \in HookType : Administer(h, new)
      BY <1>2 DEF create, update, delete, NoHook, HookType
    <2>2. /\ hook' \in [Hook -> HookType] /\ steady' \in [Message -> SUBSET Hook]
          /\ admin' \in Nat
          /\ UNCHANGED <<stored, acked, handler, task, rows, posted, faults>>
      BY <2>1 DEF Administer, TypeOK
    <2>3. QED
      BY <2>2 DEF TypeOK
  <1>3. ASSUME NEW m \in Message, store(m)
        PROVE  TypeOK'
    <2>1. Listed(m) \subseteq Hook
      BY DEF Listed
    <2>2. QED
      BY <1>3, <2>1 DEF store, TypeOK
  <1>4. ASSUME NEW r \in Handler, NEW m \in Message, deliver(r, m) \/ redeliver(r, m)
        PROVE  TypeOK'
    <2>1. /\ handler[r].pc = "idle" /\ m \in stored
          /\ handler' = [handler EXCEPT ![r] = [pc |-> "start", msg |-> m]]
          /\ faults' \in Nat
          /\ UNCHANGED <<hook, stored, acked, steady, task, rows, posted, admin>>
      BY <1>4 DEF deliver, redeliver, StartHandler, TypeOK
    <2>2. QED
      BY <2>1 DEF TypeOK
  <1>5. ASSUME NEW r \in Handler, list_active(r)
        PROVE  TypeOK'
    <2> DEFINE new == [h \in Hook |-> IF h \in Listed(handler[r].msg)
                                      THEN [pc |-> "post", attempt |-> 1, status |-> "pending"]
                                      ELSE IdleTask]
    <2>1. /\ new \in [Hook -> TaskType]
          /\ \A h \in Hook : new[h].pc # "record"
      BY DEF TaskType, IdleTask
    <2>2. /\ handler[r].pc = "start"
          /\ handler' = [handler EXCEPT ![r].pc = "gather"]
          /\ task' = [task EXCEPT ![r] = new]
          /\ UNCHANGED <<hook, stored, acked, steady, rows, posted, admin, faults>>
      BY <1>5 DEF list_active
    <2>3. /\ handler' \in [Handler -> [pc : {"idle", "start", "gather"}, msg : Message]]
          /\ task' \in [Handler -> [Hook -> TaskType]]
      <3>1. handler' \in [Handler -> [pc : {"idle", "start", "gather"}, msg : Message]]
        <4>1. handler \in [Handler -> [pc : {"idle", "start", "gather"}, msg : Message]]
          BY DEF TypeOK
        <4>2. [handler[r] EXCEPT !.pc = "gather"] \in
                [pc : {"idle", "start", "gather"}, msg : Message]
          BY <4>1
        <4>3. handler' = [handler EXCEPT ![r] = [handler[r] EXCEPT !.pc = "gather"]]
          BY <2>2
        <4>4. QED
          BY <4>1, <4>2, <4>3
      <3>2. task' \in [Handler -> [Hook -> TaskType]]
        BY <2>1, <2>2 DEF TypeOK
      <3>3. QED
        BY <3>1, <3>2
    <2>4. \A q \in Handler : /\ handler'[q].msg = handler[q].msg
                             /\ handler'[q].pc = IF q = r THEN "gather" ELSE handler[q].pc
                             /\ task'[q] = IF q = r THEN new ELSE task[q]
      BY <2>2 DEF TypeOK
    <2>5. QED
      BY <2>1, <2>2, <2>3, <2>4 DEF TypeOK
  <1>6. ASSUME NEW r \in Handler, ack(r) \/ lose_handler(r)
        PROVE  TypeOK'
    <2>1. /\ EndHandler(r) /\ handler[r].pc # "idle"
          /\ acked' \subseteq acked \cup {handler[r].msg} /\ acked \subseteq acked'
          /\ faults' \in Nat
          /\ UNCHANGED <<hook, stored, steady, rows, posted, admin>>
      BY <1>6 DEF ack, lose_handler, TypeOK
    <2>2. acked' \subseteq stored
      BY <2>1 DEF TypeOK
    <2>6. \A q \in Handler : handler'[q].pc # "idle" => handler'[q].msg \in stored
      BY <2>1, EndType DEF TypeOK
    <2>7. \A q \in Handler, h \in Hook : task'[q][h].pc # "none" =>
            task'[q][h] = task[q][h] /\ handler'[q] = handler[q]
      BY <2>1, EndType
    <2>3. ASSUME NEW q \in Handler, NEW h \in Hook, task'[q][h].pc # "none"
          PROVE  /\ handler'[q].pc = "gather"
                 /\ task'[q][h].pc = "record" => task'[q][h].status # "pending"
      <3>1. task'[q][h] = task[q][h] /\ handler'[q] = handler[q]
        BY <2>3, <2>7
      <3>2. task[q][h].pc # "none"
        BY <2>3, <3>1
      <3>3. QED
        BY <3>1, <3>2 DEF TypeOK
    <2>4. /\ handler' \in [Handler -> [pc : {"idle", "start", "gather"}, msg : Message]]
          /\ task' \in [Handler -> [Hook -> TaskType]]
      BY <2>1, EndType
    <2>5. QED
      BY <2>1, <2>2, <2>3, <2>4, <2>6 DEF TypeOK
  <1>7. ASSUME NEW r \in Handler, NEW h \in Hook, NEW ok \in BOOLEAN, post(r, h, ok)
        PROVE  TypeOK'
    <2> DEFINE t == [task[r][h] EXCEPT !.pc = "record",
                                       !.status = IF ok THEN "success" ELSE "failed"]
    <2>1. task[r][h].pc = "post" /\ task[r][h] \in TaskType /\ handler[r].msg \in Message
      BY <1>7, TaskShape DEF post
    <2>2. t \in TaskType /\ t.status # "pending"
      BY <2>1 DEF TaskType
    <2>3. /\ task' = [task EXCEPT ![r][h] = t]
          /\ posted' \in [Message -> [Hook -> [n : Nat, ok : BOOLEAN]]]
          /\ UNCHANGED <<hook, stored, acked, steady, handler, rows, admin, faults>>
      <3> DEFINE m == handler[r].msg
                 p == [n |-> posted[m][h].n + 1, ok |-> posted[m][h].ok \/ ok]
      <3>1. posted' = [posted EXCEPT ![m][h] = p]
        BY <1>7 DEF post
      <3>2. p \in [n : Nat, ok : BOOLEAN]
        <4>1. posted[m][h] \in [n : Nat, ok : BOOLEAN]
          BY <2>1 DEF TypeOK
        <4>2. posted[m][h].n + 1 \in Nat
          BY <4>1
        <4>3. (posted[m][h].ok \/ ok) \in BOOLEAN
          OBVIOUS
        <4>4. QED
          BY <4>2, <4>3
      <3> HIDE DEF p
      <3>3. posted' \in [Message -> [Hook -> [n : Nat, ok : BOOLEAN]]]
        BY <2>1, <3>1, <3>2 DEF TypeOK
      <3>4. task' = [task EXCEPT ![r][h] = t]
        BY <1>7 DEF post, TypeOK
      <3>5. QED
        BY <1>7, <3>3, <3>4 DEF post
    <2>4. rows' \in [Message -> [Hook -> Seq(RowType)]]
      BY <2>3 DEF TypeOK
    <2>5. QED
      BY <2>1, <2>2, <2>3, <2>4, TaskType1
  <1>8. ASSUME NEW r \in Handler, NEW h \in Hook, record(r, h)
        PROVE  TypeOK'
    <2> DEFINE t == [task[r][h] EXCEPT !.pc = AfterAttempt(task[r][h])]
               w == [attempt |-> task[r][h].attempt, status |-> task[r][h].status]
    <2>1. /\ task[r][h].pc = "record" /\ task[r][h] \in TaskType /\ handler[r].msg \in Message
          /\ task[r][h].status # "pending"
      BY <1>8, TaskShape DEF record, TypeOK
    <2>2. t \in TaskType /\ t.pc # "record" /\ w \in RowType
      BY <2>1 DEF TaskType, RowType, AfterAttempt
    <2>3. /\ task' = [task EXCEPT ![r][h] = t]
          /\ rows' = [rows EXCEPT ![handler[r].msg][h] = Append(@, w)]
          /\ UNCHANGED <<hook, stored, acked, steady, handler, posted, admin, faults>>
      BY <1>8 DEF record
    <2>4. rows' \in [Message -> [Hook -> Seq(RowType)]]
      BY <2>1, <2>2, <2>3 DEF TypeOK
    <2>5. QED
      BY <2>1, <2>2, <2>3, <2>4, TaskType1 DEF TypeOK
  <1>9. ASSUME NEW r \in Handler, NEW h \in Hook, record_error(r, h) \/ wake(r, h)
        PROVE  TypeOK'
    <2>1. task[r][h].pc # "none" /\ task[r][h] \in TaskType
      BY <1>9, TaskShape DEF record_error, wake
    <2>2. PICK t \in {[task[r][h] EXCEPT !.pc = "done"],
                      [task[r][h] EXCEPT !.pc = "post", !.attempt = @ + 1]} :
            task' = [task EXCEPT ![r][h] = t]
      BY <1>9, ErrorOrWake
    <2>3. t \in TaskType /\ t.pc # "record"
      <3>1. CASE t = [task[r][h] EXCEPT !.pc = "done"]
        BY <2>1, <3>1 DEF TaskType
      <3>2. CASE t = [task[r][h] EXCEPT !.pc = "post", !.attempt = @ + 1]
        <4>1. task[r][h].attempt + 1 \in Nat
          BY <2>1 DEF TaskType
        <4>2. t = [pc |-> "post", attempt |-> task[r][h].attempt + 1, status |-> task[r][h].status]
          BY <2>1, <3>2 DEF TaskType
        <4>3. QED
          BY <2>1, <4>1, <4>2 DEF TaskType
      <3>3. QED
        BY <3>1, <3>2
    <2>4. UNCHANGED <<hook, stored, acked, steady, handler, rows, posted, admin, faults>>
      BY <1>9 DEF record_error, wake
    <2>5. /\ rows' \in [Message -> [Hook -> Seq(RowType)]]
          /\ posted' \in [Message -> [Hook -> [n : Nat, ok : BOOLEAN]]]
      BY <2>4 DEF TypeOK
    <2>6. QED
      BY <2>1, <2>2, <2>3, <2>4, <2>5, TaskType1
  <1>10. QED
    BY <1>1, <1>2, <1>3, <1>4, <1>5, <1>6, <1>7, <1>8, <1>9
       DEF Next, Admin, Store, Deliver, Redeliver, HandlerStep, TaskStep

\* The variables have their types at the start.
LEMMA WebhookInit == Init => TypeOK
  <1>1. IdleHandler \in [pc : {"idle", "start", "gather"}, msg : Message]
    BY WebhookAssumption DEF IdleHandler
  <1>2. IdleHandler.pc = "idle"
    BY DEF IdleHandler
  <1>3. QED
    BY <1>1, <1>2, WebhookAssumption
       DEF Init, TypeOK, NoHook, HookType, NoTasks, IdleTask, TaskType

\* Type correctness.
THEOREM WebhookTypeCorrect == Spec => []TypeOK
  <1>1. Init => TypeOK
    BY WebhookInit
  <1>2. TypeOK /\ [Next]_vars => TypeOK'
    BY TypeStep
  <1>3. QED
    BY <1>1, <1>2, PTL DEF Spec

(***************************************************************************)
(* No subscriber is passed over.  A POST whose row is still to be written  *)
(* is pending.  The rows and the pending ones are never more than the      *)
(* POSTs, and an attempt that was given up leaves them fewer for ever.     *)
(***************************************************************************)

Pending(hd, tk, m, h) == {r \in Handler : /\ hd[r].pc = "gather" /\ hd[r].msg = m
                                          /\ tk[r][h].pc = "record"}

Written(rw, hd, tk, m, h) == Len(rw[m][h]) + Cardinality(Pending(hd, tk, m, h))

\* Settled, in a form that the rows of other attempts do not undo: p is what the
\* endpoint has seen, w the rows written and pending.
Settles(p, w) ==
  \/ p.ok
  \/ p.n >= MAX_ATTEMPTS
  \/ Unreliable /\ p.n > w

\* What a task has done for its webhook.
Fine(t, p, w) ==
  /\ t.pc = "post" => p.n + 1 >= t.attempt
  /\ t.pc \in {"record", "sleep"} => p.n >= t.attempt
  /\ t.pc = "record" /\ t.status = "success" => p.ok
  /\ t.pc = "done" => Settles(p, w)

RowsWritten == \A m \in Message, h \in Hook : Written(rows, handler, task, m, h) <= posted[m][h].n

TasksFine == \A r \in Handler, h \in Hook :
               task[r][h].pc # "none" =>
                 Fine(task[r][h], posted[handler[r].msg][h],
                      Written(rows, handler, task, handler[r].msg, h))

SteadyListed == \A m \in Message : steady[m] \subseteq Listed(m)

TasksCover == \A r \in Handler : handler[r].pc = "gather" =>
                \A h \in steady[handler[r].msg] : task[r][h].pc # "none"

AckedStays == \A m \in acked : \A h \in steady[m] :
                Settles(posted[m][h], Written(rows, handler, task, m, h))

AckInv == RowsWritten /\ TasksFine /\ SteadyListed /\ TasksCover /\ AckedStays

\* One more element counts at most one more.
LEMMA AddedOne ==
  ASSUME NEW S, NEW x, IsFiniteSet(S)
  PROVE  Cardinality(S \cup {x}) <= Cardinality(S) + 1
  <1>1. Cardinality(S) \in Nat
    BY FS_CardinalityType
  <1>2. CASE x \in S
    BY <1>1, <1>2, FS_AddElement
  <1>3. CASE x \notin S
    <2>1. Cardinality(S \cup {x}) = IF x \in S THEN Cardinality(S) ELSE Cardinality(S)+1
      BY FS_AddElement, Zenon
    <2>2. QED
      BY <1>1, <1>3, <2>1
  <1>4. QED
    BY <1>2, <1>3

\* One element fewer counts one less.
LEMMA RemovedOne ==
  ASSUME NEW S, NEW x \in S, IsFiniteSet(S)
  PROVE  Cardinality(S \ {x}) = Cardinality(S) - 1
  <1>1. Cardinality(S \ {x}) = IF x \in S THEN Cardinality(S)-1 ELSE Cardinality(S)
    BY FS_RemoveElement, Zenon
  <1>2. QED
    BY <1>1

\* Counts are natural numbers.
LEMMA PendingFinite ==
  ASSUME NEW m \in Message, NEW h \in Hook
  PROVE  /\ IsFiniteSet(Pending(handler, task, m, h))
         /\ Cardinality(Pending(handler, task, m, h)) \in Nat
         /\ IsFiniteSet(Pending(handler', task', m, h))
         /\ Cardinality(Pending(handler', task', m, h)) \in Nat
  <1>1. /\ Pending(handler, task, m, h) \subseteq Handler
        /\ Pending(handler', task', m, h) \subseteq Handler
    BY DEF Pending
  <1>2. QED
    BY <1>1, WebhookAssumption, FS_Subset, FS_CardinalityType

LEMMA WrittenNat ==
  ASSUME TypeOK, TypeOK', NEW m \in Message, NEW h \in Hook
  PROVE  /\ Written(rows, handler, task, m, h) \in Nat
         /\ Written(rows', handler', task', m, h) \in Nat
         /\ Len(rows[m][h]) \in Nat /\ Len(rows'[m][h]) \in Nat
         /\ posted[m][h].n \in Nat /\ posted'[m][h].n \in Nat
         /\ posted[m][h].ok \in BOOLEAN /\ posted'[m][h].ok \in BOOLEAN
  <1>1. Len(rows[m][h]) \in Nat /\ Len(rows'[m][h]) \in Nat
    BY DEF TypeOK
  <1>2. posted[m][h] \in [n : Nat, ok : BOOLEAN] /\ posted'[m][h] \in [n : Nat, ok : BOOLEAN]
    BY DEF TypeOK
  <1>3. /\ posted[m][h].n \in Nat /\ posted'[m][h].n \in Nat
        /\ posted[m][h].ok \in BOOLEAN /\ posted'[m][h].ok \in BOOLEAN
    BY <1>2
  <1>4. Written(rows, handler, task, m, h) \in Nat /\ Written(rows', handler', task', m, h) \in Nat
    <2>1. /\ Cardinality(Pending(handler, task, m, h)) \in Nat
          /\ Cardinality(Pending(handler', task', m, h)) \in Nat
      BY PendingFinite
    <2>2. Written(rows, handler, task, m, h) \in Nat
      BY <1>1, <2>1 DEF Written
    <2>3. Written(rows', handler', task', m, h) \in Nat
      BY <1>1, <2>1 DEF Written
    <2>4. QED
      BY <2>2, <2>3
  <1>5. QED
    BY <1>1, <1>3, <1>4

\* Fewer pending rows.
LEMMA PendingFalls ==
  ASSUME NEW m \in Message, NEW h \in Hook,
         Pending(handler', task', m, h) \subseteq Pending(handler, task, m, h),
         UNCHANGED rows, TypeOK, TypeOK'
  PROVE  Written(rows', handler', task', m, h) <= Written(rows, handler, task, m, h)
  BY PendingFinite, FS_Subset, WrittenNat DEF Written

\* What a step may do to the POSTs and the rows of a webhook: POSTs and rows are
\* added, and a row is written or pending only for a POST.
Advances(m, h) ==
  /\ posted[m][h].ok => posted'[m][h].ok
  /\ posted[m][h].n <= posted'[m][h].n
  /\ Written(rows', handler', task', m, h) + posted[m][h].n <=
       Written(rows, handler, task, m, h) + posted'[m][h].n

\* A step of one task, seen by the other webhooks and messages.
LEMMA OtherCells ==
  ASSUME TypeOK, NEW r \in Handler, NEW h \in Hook, NEW t, UNCHANGED handler,
         task' = [task EXCEPT ![r][h] = t], NEW m \in Message, NEW g \in Hook,
         m # handler[r].msg \/ g # h
  PROVE  Pending(handler', task', m, g) = Pending(handler, task, m, g)
  <1>1. \A q \in Handler, k \in Hook : task'[q][k] = IF q = r /\ k = h THEN t ELSE task[q][k]
    BY DEF TypeOK
  <1>2. QED
    BY <1>1 DEF Pending

\* A step of one task, seen by its own webhook and message.
LEMMA OwnCell ==
  ASSUME TypeOK, NEW r \in Handler, NEW h \in Hook, NEW t, UNCHANGED handler,
         task' = [task EXCEPT ![r][h] = t], task[r][h].pc # "none"
  PROVE  Pending(handler', task', handler[r].msg, h) =
           IF t.pc = "record" THEN Pending(handler, task, handler[r].msg, h) \cup {r}
           ELSE Pending(handler, task, handler[r].msg, h) \ {r}
  <1>1. \A q \in Handler, k \in Hook : task'[q][k] = IF q = r /\ k = h THEN t ELSE task[q][k]
    BY DEF TypeOK
  <1>2. handler[r].pc = "gather"
    BY DEF TypeOK
  <1>3. QED
    BY <1>1, <1>2 DEF Pending

LEMMA CellStep ==
  ASSUME TypeOK, TypeOK', [Next]_vars, NEW m \in Message, NEW g \in Hook
  PROVE  Advances(m, g)
  <1>0. /\ Written(rows, handler, task, m, g) \in Nat
        /\ Written(rows', handler', task', m, g) \in Nat
        /\ posted[m][g].n \in Nat /\ posted'[m][g].n \in Nat
    BY WrittenNat
  <1>1. CASE /\ UNCHANGED <<rows, posted>>
             /\ Pending(handler', task', m, g) \subseteq Pending(handler, task, m, g)
    BY <1>0, <1>1, PendingFalls DEF Advances
  <1>2. CASE UNCHANGED vars
    <2>1. Pending(handler', task', m, g) = Pending(handler, task, m, g)
      BY <1>2 DEF vars, Pending
    <2>2. QED
      BY <1>1, <1>2, <2>1 DEF vars
  <1>3. CASE Admin \/ Store
    <2>1. UNCHANGED <<rows, posted, handler, task>>
      BY <1>3 DEF Admin, Store, create, update, delete, Administer, store
    <2>2. QED
      BY <1>1, <2>1 DEF Pending
  <1>4. ASSUME NEW r \in Handler, NEW k \in Message, deliver(r, k) \/ redeliver(r, k)
        PROVE  Advances(m, g)
    <2>1. /\ UNCHANGED <<rows, posted, task>>
          /\ handler' = [handler EXCEPT ![r] = [pc |-> "start", msg |-> k]]
      BY <1>4 DEF deliver, redeliver, StartHandler
    <2>2. \A q \in Handler : handler'[q].pc = "gather" => handler'[q] = handler[q]
      BY <2>1 DEF TypeOK
    <2>3. QED
      BY <1>1, <2>1, <2>2 DEF Pending
  <1>5. ASSUME NEW r \in Handler, list_active(r)
        PROVE  Advances(m, g)
    <2>1. UNCHANGED <<rows, posted>>
      BY <1>5 DEF list_active
    <2>2. \A q \in Handler : q # r => handler'[q] = handler[q] /\ task'[q] = task[q]
      BY <1>5 DEF list_active, TypeOK
    <2>3. task'[r][g].pc # "record"
      BY <1>5 DEF list_active, TypeOK, IdleTask
    <2>4. QED
      BY <1>1, <2>1, <2>2, <2>3 DEF Pending
  <1>6. ASSUME NEW r \in Handler, ack(r) \/ lose_handler(r)
        PROVE  Advances(m, g)
    <2>1. UNCHANGED <<rows, posted>> /\ EndHandler(r)
      BY <1>6 DEF ack, lose_handler
    <2>2. \A q \in Handler : task'[q][g].pc # "none" =>
            task'[q][g] = task[q][g] /\ handler'[q] = handler[q]
      BY <2>1, EndType
    <2>3. Pending(handler', task', m, g) \subseteq Pending(handler, task, m, g)
      BY <2>2 DEF Pending
    <2>4. QED
      BY <1>1, <2>1, <2>3
  <1>7. ASSUME NEW r \in Handler, NEW h \in Hook, NEW ok \in BOOLEAN, post(r, h, ok)
        PROVE  Advances(m, g)
    <2> DEFINE t == [task[r][h] EXCEPT !.pc = "record",
                                       !.status = IF ok THEN "success" ELSE "failed"]
    <2>1. /\ task[r][h].pc = "post" /\ task[r][h] \in TaskType /\ handler[r].msg \in Message
          /\ UNCHANGED <<handler, rows>>
      BY <1>7, TaskShape DEF post
    <2>2. task' = [task EXCEPT ![r][h] = t] /\ t.pc = "record"
      <3>1. task' = [task EXCEPT ![r][h] = t]
        BY <1>7 DEF post
      <3>2. t.pc = "record"
        BY <2>1 DEF TaskType
      <3>3. QED
        BY <3>1, <3>2
    <2>3. posted' = [posted EXCEPT ![handler[r].msg][h] = [n |-> @.n + 1, ok |-> @.ok \/ ok]]
      BY <1>7 DEF post
    <2>4. CASE m = handler[r].msg /\ g = h
      <3>1. /\ posted'[m][g].n = posted[m][g].n + 1
            /\ posted[m][g].ok => posted'[m][g].ok
        BY <2>1, <2>3, <2>4 DEF TypeOK
      <3>2. Pending(handler', task', m, g) = Pending(handler, task, m, g) \cup {r}
        <4> HIDE DEF t
        <4>1. QED
          BY <2>1, <2>2, <2>4, OwnCell
      <3>3. Cardinality(Pending(handler', task', m, g)) <=
              Cardinality(Pending(handler, task, m, g)) + 1
        <4>1. /\ IsFiniteSet(Pending(handler, task, m, g))
              /\ Cardinality(Pending(handler, task, m, g)) \in Nat
          BY PendingFinite
        <4>2. Cardinality(Pending(handler, task, m, g) \cup {r}) <=
                Cardinality(Pending(handler, task, m, g)) + 1
          BY <4>1, AddedOne
        <4>3. QED
          BY <3>2, <4>2
      <3>4. Written(rows', handler', task', m, g) <= Written(rows, handler, task, m, g) + 1
        <4>1. rows' = rows
          BY <2>1
        <4>2. /\ Cardinality(Pending(handler, task, m, g)) \in Nat
              /\ Cardinality(Pending(handler', task', m, g)) \in Nat
              /\ Len(rows[m][g]) \in Nat
          BY PendingFinite, WrittenNat
        <4>3. /\ Written(rows, handler, task, m, g) =
                   Len(rows[m][g]) + Cardinality(Pending(handler, task, m, g))
              /\ Written(rows', handler', task', m, g) =
                   Len(rows[m][g]) + Cardinality(Pending(handler', task', m, g))
          BY <4>1 DEF Written
        <4>4. \A a, b, c \in Nat : b <= c + 1 => a + b <= a + c + 1
          OBVIOUS
        <4>5. Len(rows[m][g]) + Cardinality(Pending(handler', task', m, g)) <=
                Len(rows[m][g]) + Cardinality(Pending(handler, task, m, g)) + 1
          BY <3>3, <4>2, <4>4
        <4>6. QED
          BY <4>3, <4>5
      <3>5. QED
        BY <1>0, <3>1, <3>4 DEF Advances
    <2>5. CASE m # handler[r].msg \/ g # h
      <3>1. posted'[m][g] = posted[m][g]
        BY <2>1, <2>3, <2>5 DEF TypeOK
      <3>2. Pending(handler', task', m, g) = Pending(handler, task, m, g)
        BY <2>1, <2>2, <2>5, OtherCells
      <3>3. Written(rows', handler', task', m, g) = Written(rows, handler, task, m, g)
        BY <2>1, <3>2 DEF Written
      <3>4. QED
        BY <1>0, <3>1, <3>3 DEF Advances
    <2>6. QED
      BY <2>4, <2>5
  <1>8. ASSUME NEW r \in Handler, NEW h \in Hook, record(r, h)
        PROVE  Advances(m, g)
    <2> DEFINE t == [task[r][h] EXCEPT !.pc = AfterAttempt(task[r][h])]
               w == [attempt |-> task[r][h].attempt, status |-> task[r][h].status]
    <2>1. /\ task[r][h].pc = "record" /\ task[r][h] \in TaskType /\ handler[r].msg \in Message
          /\ task[r][h].status # "pending" /\ UNCHANGED <<handler, posted>>
          /\ handler[r].pc = "gather"
      BY <1>8, TaskShape DEF record, TypeOK
    <2>2. /\ task' = [task EXCEPT ![r][h] = t] /\ t.pc # "record"
          /\ rows' = [rows EXCEPT ![handler[r].msg][h] = Append(@, w)]
      BY <1>8, <2>1 DEF record, TaskType, AfterAttempt
    <2>3. w \in RowType
      BY <2>1 DEF TaskType, RowType
    <2>4. CASE m = handler[r].msg /\ g = h
      <3>1. rows'[m][g] = Append(rows[m][g], w) /\ rows[m][g] \in Seq(RowType)
        BY <2>1, <2>2, <2>4 DEF TypeOK
      <3>2. Len(rows'[m][g]) = Len(rows[m][g]) + 1
        BY <2>3, <3>1
      <3>3. /\ Pending(handler', task', m, g) = Pending(handler, task, m, g) \ {r}
            /\ r \in Pending(handler, task, m, g)
        <4>1. r \in Pending(handler, task, m, g)
          BY <2>1, <2>4 DEF Pending
        <4> HIDE DEF t
        <4>2. QED
          BY <4>1, <2>1, <2>2, <2>4, OwnCell
      <3>4. Cardinality(Pending(handler', task', m, g)) =
              Cardinality(Pending(handler, task, m, g)) - 1
        <4>1. IsFiniteSet(Pending(handler, task, m, g))
          BY PendingFinite
        <4>2. QED
          BY <3>3, <4>1, RemovedOne
      <3>5. Written(rows', handler', task', m, g) = Written(rows, handler, task, m, g)
        BY <3>2, <3>4, PendingFinite DEF Written
      <3>6. QED
        BY <1>0, <2>1, <3>5 DEF Advances
    <2>5. CASE m # handler[r].msg \/ g # h
      <3>1. rows'[m][g] = rows[m][g]
        BY <2>1, <2>2, <2>5 DEF TypeOK
      <3>2. Pending(handler', task', m, g) = Pending(handler, task, m, g)
        BY <2>1, <2>2, <2>5, OtherCells
      <3>3. Written(rows', handler', task', m, g) = Written(rows, handler, task, m, g)
        BY <3>1, <3>2 DEF Written
      <3>4. QED
        BY <1>0, <2>1, <3>3 DEF Advances
    <2>6. QED
      BY <2>4, <2>5
  <1>9. ASSUME NEW r \in Handler, NEW h \in Hook, record_error(r, h) \/ wake(r, h)
        PROVE  Advances(m, g)
    <2>1. /\ task[r][h].pc # "none" /\ task[r][h] \in TaskType
          /\ UNCHANGED <<handler, rows, posted>>
      BY <1>9, TaskShape DEF record_error, wake
    <2>2. PICK t \in {[task[r][h] EXCEPT !.pc = "done"],
                      [task[r][h] EXCEPT !.pc = "post", !.attempt = @ + 1]} :
            task' = [task EXCEPT ![r][h] = t]
      BY <1>9, ErrorOrWake
    <2>3. t.pc # "record"
      BY <2>1 DEF TaskType
    <2>4. Pending(handler', task', m, g) \subseteq Pending(handler, task, m, g)
      <3>1. \A q \in Handler : task'[q][g] = IF q = r /\ g = h THEN t ELSE task[q][g]
        BY <2>2 DEF TypeOK
      <3>2. QED
        BY <2>1, <2>3, <3>1 DEF Pending
    <2>5. QED
      BY <1>1, <2>1, <2>4
  <1>10. QED
    BY <1>2, <1>3, <1>4, <1>5, <1>6, <1>7, <1>8, <1>9
       DEF Next, Deliver, Redeliver, HandlerStep, TaskStep

\* What is settled stays settled.
LEMMA SettledStays ==
  ASSUME TypeOK, TypeOK', [Next]_vars, NEW m \in Message, NEW h \in Hook,
         Settles(posted[m][h], Written(rows, handler, task, m, h))
  PROVE  Settles(posted'[m][h], Written(rows', handler', task', m, h))
  <1>1. Advances(m, h)
    BY CellStep
  <1>2. /\ Written(rows, handler, task, m, h) \in Nat
        /\ Written(rows', handler', task', m, h) \in Nat
        /\ posted[m][h].n \in Nat /\ posted'[m][h].n \in Nat
    BY WrittenNat
  <1>3. QED
    BY <1>1, <1>2 DEF Advances, Settles, MAX_ATTEMPTS

\* What a task has done stays done.
LEMMA FineStays ==
  ASSUME TypeOK, TypeOK', [Next]_vars, NEW m \in Message, NEW h \in Hook, NEW t \in TaskType,
         Fine(t, posted[m][h], Written(rows, handler, task, m, h))
  PROVE  Fine(t, posted'[m][h], Written(rows', handler', task', m, h))
  <1>1. Advances(m, h)
    BY CellStep
  <1>2. /\ posted[m][h].n \in Nat /\ posted'[m][h].n \in Nat /\ t.attempt \in Nat
    BY WrittenNat DEF TaskType
  <1>3. t.pc = "done" => Settles(posted'[m][h], Written(rows', handler', task', m, h))
    BY SettledStays DEF Fine
  <1>4. QED
    BY <1>1, <1>2, <1>3 DEF Advances, Fine

\* Listings of a stored message can only lose webhooks.
LEMMA SteadyStep ==
  ASSUME TypeOK, SteadyListed, [Next]_vars
  PROVE  SteadyListed' /\ \A m \in stored : steady'[m] \subseteq steady[m]
  <1>1. ASSUME NEW h \in Hook, create(h) \/ update(h) \/ delete(h)
        PROVE  SteadyListed' /\ \A m \in stored : steady'[m] \subseteq steady[m]
    <2>1. PICK new \in HookType : Administer(h, new)
      BY <1>1 DEF create, update, delete, NoHook, HookType
    <2>2. \A m \in Message : steady'[m] \subseteq steady[m]
      BY <2>1 DEF Administer, TypeOK
    <2>3. ASSUME NEW m \in Message, NEW g \in steady'[m]
          PROVE  g \in Hook /\ hook'[g].exists /\ hook'[g].active
                 /\ event_matches(hook'[g].events, TypeOf[m])
      <3>1. CASE g = h
        BY <2>1, <2>3, <3>1 DEF Administer, TypeOK
      <3>2. CASE g # h
        <4>1. g \in Listed(m) /\ hook'[g] = hook[g]
          BY <2>1, <2>2, <2>3, <3>2 DEF SteadyListed, Administer, TypeOK
        <4>2. QED
          BY <4>1 DEF Listed
      <3>3. QED
        BY <3>1, <3>2
    <2>4. SteadyListed'
      BY <2>3 DEF SteadyListed, Listed
    <2>5. QED
      BY <2>2, <2>4 DEF TypeOK
  <1>2. ASSUME NEW k \in Message, store(k)
        PROVE  SteadyListed' /\ \A m \in stored : steady'[m] \subseteq steady[m]
    BY <1>2 DEF store, SteadyListed, Listed, TypeOK
  <1>3. CASE UNCHANGED <<hook, steady>>
    BY <1>3 DEF SteadyListed, Listed
  <1>4. QED
    BY <1>1, <1>2, <1>3, Writers

\* A step of a task changes that task alone.
LEMMA TaskSteps ==
  ASSUME NEW r \in Handler, NEW h \in Hook, TaskStep(r, h)
  PROVE  \E t : task' = [task EXCEPT ![r][h] = t]
  <1>1. ASSUME NEW ok \in BOOLEAN, post(r, h, ok)
        PROVE  task' = [task EXCEPT ![r][h] =
                 [task[r][h] EXCEPT !.pc = "record",
                                    !.status = IF ok THEN "success" ELSE "failed"]]
    BY <1>1 DEF post
  <1>2. ASSUME record(r, h)
        PROVE  task' = [task EXCEPT ![r][h] =
                 [task[r][h] EXCEPT !.pc = AfterAttempt(task[r][h])]]
    BY <1>2 DEF record
  <1>3. ASSUME record_error(r, h)
        PROVE  task' = [task EXCEPT ![r][h] = [task[r][h] EXCEPT !.pc = "done"]]
    BY <1>3 DEF record_error
  <1>4. ASSUME wake(r, h)
        PROVE  task' = [task EXCEPT ![r][h] =
                 [task[r][h] EXCEPT !.pc = "post", !.attempt = @ + 1]]
    BY <1>4 DEF wake
  <1>5. QED
    BY <1>1, <1>2, <1>3, <1>4 DEF TaskStep

\* Every step keeps what the tasks have done.
LEMMA TasksFineStep ==
  ASSUME TypeOK, TypeOK', RowsWritten, TasksFine, [Next]_vars
  PROVE  TasksFine'
  <1> DEFINE W(m, h) == Written(rows, handler, task, m, h)
             W2(m, h) == Written(rows', handler', task', m, h)
             Kept(q, g) == /\ task[q][g].pc # "none" /\ task'[q][g] = task[q][g]
                           /\ handler'[q].msg = handler[q].msg
             Fine2(q, g) == Fine(task'[q][g], posted'[handler'[q].msg][g], W2(handler'[q].msg, g))
  <1> SUFFICES ASSUME NEW q \in Handler, NEW g \in Hook, task'[q][g].pc # "none"
               PROVE  Fine2(q, g)
    BY DEF TasksFine
  <1>0. /\ handler[q].msg \in Message /\ handler'[q].msg \in Message
        /\ task[q][g] \in TaskType /\ task'[q][g] \in TaskType
    BY DEF TypeOK
  <1>1. CASE Kept(q, g)
    <2>1. Fine(task[q][g], posted[handler[q].msg][g], W(handler[q].msg, g))
      BY <1>1 DEF TasksFine
    <2>2. Fine(task[q][g], posted'[handler[q].msg][g], W2(handler[q].msg, g))
      BY <1>0, <2>1, FineStays
    <2>3. QED
      BY <1>1, <2>2
  <1>2. CASE UNCHANGED <<handler, task>>
    BY <1>1, <1>2
  <1>3. ASSUME NEW r \in Handler, NEW k \in Message, deliver(r, k) \/ redeliver(r, k)
        PROVE  Fine2(q, g)
    <2>1. /\ handler[r].pc = "idle" /\ UNCHANGED task
          /\ handler' = [handler EXCEPT ![r] = [pc |-> "start", msg |-> k]]
      BY <1>3 DEF deliver, redeliver, StartHandler
    <2>2. q # r
      BY <2>1 DEF TypeOK
    <2>3. QED
      BY <1>1, <2>1, <2>2 DEF TypeOK
  <1>4. ASSUME NEW r \in Handler, list_active(r)
        PROVE  Fine2(q, g)
    <2>1. CASE q # r
      BY <1>1, <1>4, <2>1 DEF list_active, TypeOK
    <2>2. CASE q = r
      <3>1. task'[q][g] = [pc |-> "post", attempt |-> 1, status |-> "pending"]
        BY <1>4, <2>2 DEF list_active, TypeOK, IdleTask
      <3>2. posted'[handler'[q].msg][g].n \in Nat
        BY <1>0, WrittenNat
      <3>3. QED
        BY <3>1, <3>2 DEF Fine
    <2>3. QED
      BY <2>1, <2>2
  <1>5. ASSUME NEW r \in Handler, ack(r) \/ lose_handler(r)
        PROVE  Fine2(q, g)
    <2>1. EndHandler(r)
      BY <1>5 DEF ack, lose_handler
    <2>2. task'[q][g] = task[q][g] /\ handler'[q] = handler[q]
      BY <2>1, EndType
    <2>3. QED
      BY <1>1, <2>2
  <1>6. ASSUME NEW r \in Handler, NEW h \in Hook, TaskStep(r, h)
        PROVE  Fine2(q, g)
    <2>1. /\ UNCHANGED handler /\ task[r][h].pc \in {"post", "record", "sleep"}
          /\ \A p \in Handler, f \in Hook : p # r \/ f # h => task'[p][f] = task[p][f]
      <3>1. UNCHANGED handler /\ task[r][h].pc \in {"post", "record", "sleep"}
        BY <1>6 DEF TaskStep, post, record, record_error, wake
      <3>2. \E t : task' = [task EXCEPT ![r][h] = t]
        BY <1>6, TaskSteps
      <3>3. QED
        BY <3>1, <3>2 DEF TypeOK
    <2>2. CASE q # r \/ g # h
      BY <1>1, <2>1, <2>2
    <2>3. CASE q = r /\ g = h
      <3> DEFINE m == handler[r].msg
      <3>1. Fine(task[r][h], posted[m][h], W(m, h)) /\ W(m, h) <= posted[m][h].n
        BY <1>0, <2>1, <2>3 DEF TasksFine, RowsWritten
      <3>2. /\ posted[m][h].n \in Nat /\ posted'[m][h].n \in Nat
            /\ posted[m][h].ok \in BOOLEAN /\ posted'[m][h].ok \in BOOLEAN
            /\ W(m, h) \in Nat /\ W2(m, h) \in Nat
        BY <1>0, <2>3, WrittenNat
      <3>3. SUFFICES Fine(task'[r][h], posted'[m][h], W2(m, h))
        BY <2>1, <2>3
      <3>4. ASSUME NEW ok \in BOOLEAN, post(r, h, ok)
            PROVE  Fine(task'[r][h], posted'[m][h], W2(m, h))
        <4>1. /\ task'[r][h].pc = "record" /\ task'[r][h].attempt = task[r][h].attempt
              /\ task'[r][h].status = IF ok THEN "success" ELSE "failed"
              /\ task[r][h].pc = "post"
          BY <2>3, <3>4, TaskFields
        <4>2. posted'[m][h].n = posted[m][h].n + 1 /\ (ok => posted'[m][h].ok)
          <5> DEFINE p == [n |-> posted[m][h].n + 1, ok |-> posted[m][h].ok \/ ok]
          <5>1. posted' = [posted EXCEPT ![m][h] = p]
            BY <3>4 DEF post
          <5>2. posted \in [Message -> [Hook -> [n : Nat, ok : BOOLEAN]]] /\ m \in Message
            BY <1>0, <2>3 DEF TypeOK
          <5> HIDE DEF m, p
          <5>3. posted'[m][h] = p
            BY <5>1, <5>2
          <5>4. QED
            BY <5>3 DEF p
        <4>3. posted[m][h].n + 1 >= task[r][h].attempt
          BY <3>1, <4>1 DEF Fine
        <4>4. posted'[m][h].n >= task'[r][h].attempt
          BY <4>1, <4>2, <4>3
        <4>5. task'[r][h].status = "success" => posted'[m][h].ok
          BY <4>1, <4>2
        <4>6. QED
          BY <4>1, <4>4, <4>5 DEF Fine
      <3>5. CASE record(r, h)
        <4>1. /\ task'[r][h].pc = AfterAttempt(task[r][h])
              /\ task'[r][h].attempt = task[r][h].attempt
              /\ task[r][h].pc = "record" /\ UNCHANGED posted
          BY <2>3, <3>5, TaskFields DEF record
        <4>2. /\ posted[m][h].n >= task[r][h].attempt
              /\ task[r][h].status = "success" => posted[m][h].ok
          BY <3>1, <4>1 DEF Fine
        <4>3. task[r][h].attempt \in Nat
          BY <1>0, <2>3 DEF TaskType
        <4>4. QED
          BY <3>2, <4>1, <4>2, <4>3 DEF Fine, AfterAttempt, Settles, MAX_ATTEMPTS
      <3>6. CASE record_error(r, h)
        <4>1. /\ task'[r][h].pc = "done" /\ task[r][h].pc = "record" /\ Unreliable
              /\ task' = [task EXCEPT ![r][h] = [task[r][h] EXCEPT !.pc = "done"]]
              /\ UNCHANGED <<handler, rows, posted>>
          BY <1>0, <2>3, <3>6 DEF record_error, TypeOK, TaskType
        <4>2. /\ Pending(handler', task', m, h) = Pending(handler, task, m, h) \ {r}
              /\ r \in Pending(handler, task, m, h)
          <5>1. \A p \in Handler : task'[p][h].pc = IF p = r THEN "done" ELSE task[p][h].pc
            BY <1>0, <2>1, <2>3, <4>1
          <5>2. handler[r].pc = "gather"
            BY <4>1 DEF TypeOK
          <5>3. QED
            BY <4>1, <5>1, <5>2 DEF Pending
        <4>3. /\ Cardinality(Pending(handler', task', m, h)) =
                    Cardinality(Pending(handler, task, m, h)) - 1
              /\ Cardinality(Pending(handler, task, m, h)) \in Nat
          <5>1. /\ IsFiniteSet(Pending(handler, task, m, h))
                /\ Cardinality(Pending(handler, task, m, h)) \in Nat
            BY <1>0, <2>3, PendingFinite
          <5>2. Cardinality(Pending(handler, task, m, h) \ {r}) =
                  Cardinality(Pending(handler, task, m, h)) - 1
            BY <4>2, <5>1, RemovedOne
          <5>3. QED
            BY <4>2, <5>1, <5>2
        <4>4. Len(rows[m][h]) \in Nat
          BY <1>0, <2>3, WrittenNat
        <4>5. W2(m, h) = W(m, h) - 1
          <5>1. rows' = rows
            BY <4>1
          <5>2. QED
            <6>1. W2(m, h) = Len(rows[m][h]) + Cardinality(Pending(handler', task', m, h))
              BY <5>1 DEF Written
            <6>2. W(m, h) = Len(rows[m][h]) + Cardinality(Pending(handler, task, m, h))
              BY DEF Written
            <6> HIDE DEF W, W2, m
            <6>3. QED
              BY <4>3, <4>4, <6>1, <6>2
        <4>6. QED
          BY <3>1, <3>2, <4>1, <4>5 DEF Fine, Settles
      <3>7. CASE wake(r, h)
        <4>1. /\ task'[r][h].pc = "post" /\ task'[r][h].attempt = task[r][h].attempt + 1
              /\ task[r][h].pc = "sleep" /\ UNCHANGED posted
          BY <2>3, <3>7, TaskFields DEF wake
        <4>2. QED
          BY <3>1, <3>2, <4>1, <1>0, <2>3 DEF Fine, TaskType
      <3>8. QED
        BY <1>6, <3>4, <3>5, <3>6, <3>7 DEF TaskStep
    <2>4. QED
      BY <2>2, <2>3
  <1>7. Admin \/ Store \/ UNCHANGED vars => UNCHANGED <<handler, task>>
    BY DEF Admin, Store, create, update, delete, Administer, store, vars
  <1>8. QED
    BY <1>2, <1>3, <1>4, <1>5, <1>6, <1>7 DEF Next, Deliver, Redeliver, HandlerStep

\* Every step keeps the invariant about acks.
LEMMA AckStep ==
  ASSUME TypeOK, TypeOK', AckInv, [Next]_vars
  PROVE  AckInv'
  <1>1. RowsWritten'
    <2>1. ASSUME NEW m \in Message, NEW h \in Hook
          PROVE  Written(rows', handler', task', m, h) <= posted'[m][h].n
      <3>1. Advances(m, h)
        BY CellStep
      <3>2. /\ Written(rows, handler, task, m, h) \in Nat
            /\ Written(rows', handler', task', m, h) \in Nat
            /\ posted[m][h].n \in Nat /\ posted'[m][h].n \in Nat
        BY WrittenNat
      <3>3. Written(rows, handler, task, m, h) <= posted[m][h].n
        BY DEF AckInv, RowsWritten
      <3>4. QED
        BY <3>1, <3>2, <3>3 DEF Advances
    <2>2. QED
      BY <2>1 DEF RowsWritten
  <1>2. TasksFine'
    BY TasksFineStep DEF AckInv
  <1>3. SteadyListed' /\ \A m \in stored : steady'[m] \subseteq steady[m]
    BY SteadyStep DEF AckInv
  <1>4. TasksCover'
    <2> SUFFICES ASSUME NEW q \in Handler, handler'[q].pc = "gather",
                        NEW g \in steady'[handler'[q].msg]
                 PROVE  task'[q][g].pc # "none"
      BY DEF TasksCover
    <2>0. /\ handler'[q].msg \in Message /\ g \in Hook
      BY DEF TypeOK
    <2>1. ASSUME handler'[q] = handler[q], task[q][g].pc # "none" => task'[q][g].pc # "none"
          PROVE  task'[q][g].pc # "none"
      <3>1. handler[q].pc = "gather" /\ handler[q].msg \in stored
        BY <2>1 DEF TypeOK
      <3>2. g \in steady[handler[q].msg]
        BY <1>3, <2>1, <3>1
      <3>3. QED
        BY <2>1, <3>1, <3>2 DEF AckInv, TasksCover
    <2>2. CASE UNCHANGED <<handler, task>>
      BY <2>1, <2>2
    <2>3. ASSUME NEW r \in Handler, NEW k \in Message, deliver(r, k) \/ redeliver(r, k)
          PROVE  task'[q][g].pc # "none"
      <3>1. /\ UNCHANGED task
            /\ handler' = [handler EXCEPT ![r] = [pc |-> "start", msg |-> k]]
        BY <2>3 DEF deliver, redeliver, StartHandler
      <3>2. handler'[q] = handler[q]
        BY <3>1 DEF TypeOK
      <3>3. QED
        BY <2>1, <3>1, <3>2
    <2>4. ASSUME NEW r \in Handler, list_active(r)
          PROVE  task'[q][g].pc # "none"
      <3>1. CASE q # r
        BY <2>1, <2>4, <3>1 DEF list_active, TypeOK
      <3>2. CASE q = r
        <4>1. handler'[q].msg = handler[q].msg /\ UNCHANGED steady
          BY <2>4, <3>2 DEF list_active, TypeOK
        <4>2. g \in Listed(handler[q].msg)
          BY <2>0, <4>1 DEF AckInv, SteadyListed
        <4>3. QED
          BY <2>0, <2>4, <3>2, <4>2 DEF list_active, TypeOK
      <3>3. QED
        BY <3>1, <3>2
    <2>5. ASSUME NEW r \in Handler, ack(r) \/ lose_handler(r)
          PROVE  task'[q][g].pc # "none"
      <3>1. EndHandler(r)
        BY <2>5 DEF ack, lose_handler
      <3>2. q # r /\ handler'[q] = handler[q] /\ task'[q] = task[q]
        BY <3>1 DEF EndHandler, IdleHandler, TypeOK
      <3>3. QED
        BY <2>1, <3>2
    <2>6. ASSUME NEW r \in Handler, NEW h \in Hook, TaskStep(r, h)
          PROVE  task'[q][g].pc # "none"
      <3>1. UNCHANGED handler
        BY <2>6 DEF TaskStep, post, record, record_error, wake
      <3>2. task[q][g].pc # "none" => task'[q][g].pc # "none"
        <4>1. ASSUME q = r, g = h
              PROVE  task'[q][g].pc \in {"post", "record", "sleep", "done"}
          <5>0. task[r][h] \in TaskType
            BY DEF TypeOK
          <5>1. ASSUME NEW ok \in BOOLEAN, post(r, h, ok)
                PROVE  task'[r][h].pc = "record"
            BY <5>1, TaskFields
          <5>2. CASE record(r, h)
            BY <5>2, <4>1, TaskFields DEF AfterAttempt
          <5>3. CASE record_error(r, h)
            BY <5>3, <4>1, TaskFields
          <5>4. CASE wake(r, h)
            BY <5>4, <4>1, TaskFields
          <5>5. QED
            BY <2>6, <4>1, <5>1, <5>2, <5>3, <5>4 DEF TaskStep
        <4>2. ASSUME q # r \/ g # h
              PROVE  task'[q][g] = task[q][g]
          <5>1. PICK t : task' = [task EXCEPT ![r][h] = t]
            BY <2>6, TaskSteps
          <5>2. QED
            BY <2>0, <4>2, <5>1 DEF TypeOK
        <4>3. QED
          BY <4>1, <4>2
      <3>3. QED
        BY <2>1, <3>1, <3>2
    <2>7. Admin \/ Store \/ UNCHANGED vars => UNCHANGED <<handler, task>>
      BY DEF Admin, Store, create, update, delete, Administer, store, vars
    <2>8. QED
      BY <2>2, <2>3, <2>4, <2>5, <2>6, <2>7 DEF Next, Deliver, Redeliver, HandlerStep
  <1>5. AckedStays'
    <2> SUFFICES ASSUME NEW m \in acked', NEW h \in steady'[m]
                 PROVE  Settles(posted'[m][h], Written(rows', handler', task', m, h))
      BY DEF AckedStays
    <2>0. m \in Message /\ h \in Hook
      BY DEF TypeOK
    <2>1. CASE m \in acked
      <3>1. h \in steady[m]
        BY <1>3, <2>1 DEF TypeOK
      <3>2. QED
        BY <2>0, <2>1, <3>1, SettledStays DEF AckInv, AckedStays
    <2>2. CASE m \notin acked
      <3>1. PICK r \in Handler : ack(r) /\ m = handler[r].msg
        BY <2>2, Writers DEF ack
      <3>2. h \in steady[m] /\ task[r][h].pc \in {"none", "done"} /\ handler[r].pc = "gather"
        BY <2>0, <3>1 DEF ack
      <3>3. task[r][h].pc = "done"
        BY <3>1, <3>2 DEF AckInv, TasksCover
      <3>4. Settles(posted[m][h], Written(rows, handler, task, m, h))
        BY <2>0, <3>1, <3>3 DEF AckInv, TasksFine, Fine
      <3>5. QED
        BY <2>0, <3>4, SettledStays
    <2>3. QED
      BY <2>1, <2>2
  <1>6. QED
    BY <1>1, <1>2, <1>3, <1>4, <1>5 DEF AckInv

\* The invariant holds at the start.
LEMMA AckInit ==
  ASSUME Init, TypeOK
  PROVE  AckInv
  <1>1. \A r \in Handler, h \in Hook : task[r][h].pc = "none"
    BY DEF Init, NoTasks, IdleTask
  <1>2. RowsWritten
    <2>1. ASSUME NEW m \in Message, NEW h \in Hook
          PROVE  Written(rows, handler, task, m, h) <= posted[m][h].n
      <3>1. Pending(handler, task, m, h) = {}
        BY <1>1 DEF Pending
      <3>2. Len(rows[m][h]) = 0 /\ posted[m][h].n = 0
        BY DEF Init
      <3>3. Cardinality(Pending(handler, task, m, h)) = 0
        BY <3>1, FS_EmptySet
      <3>4. QED
        BY <3>2, <3>3 DEF Written
    <2>2. QED
      BY <2>1 DEF RowsWritten
  <1>3. TasksFine
    BY <1>1 DEF TasksFine
  <1>4. SteadyListed /\ AckedStays
    BY DEF Init, SteadyListed, AckedStays
  <1>5. \A r \in Handler : handler[r].pc # "gather"
    BY DEF Init, IdleHandler
  <1>6. QED
    BY <1>2, <1>3, <1>4, <1>5 DEF AckInv, TasksCover

\* No subscriber is passed over, whatever the number of handlers and faults.
THEOREM NoSubscriberPassedOver == Spec => []AckedSettled
  <1>1. Init => AckInv
    <2>1. Init => TypeOK
      BY WebhookInit
    <2>2. QED
      BY <2>1, AckInit
  <1>2. TypeOK /\ TypeOK' /\ AckInv /\ [Next]_vars => AckInv'
    BY AckStep
  <1>3. TypeOK /\ AckInv => AckedSettled
    <2> SUFFICES ASSUME TypeOK, AckInv, NEW m \in acked, NEW h \in steady[m]
                 PROVE  Settled(m, h)
      BY DEF AckedSettled
    <2>0. m \in Message /\ h \in Hook
      BY DEF TypeOK
    <2>1. Settles(posted[m][h], Written(rows, handler, task, m, h))
      BY DEF AckInv, AckedStays
    <2>2. Cardinality(Pending(handler, task, m, h)) \in Nat
      BY <2>0, PendingFinite
    <2>3. Len(rows[m][h]) \in Nat /\ posted[m][h].n \in Nat
      BY <2>0 DEF TypeOK
    <2>4. QED
      BY <2>1, <2>2, <2>3 DEF Settles, Settled, Written
  <1>4. QED
    BY <1>1, <1>2, <1>3, WebhookTypeCorrect, PTL DEF Spec

(***************************************************************************)
(* Attempts have no gaps.  The rows of a webhook only grow, and a task     *)
(* that is about to make attempt k > 1, or sleeps before it, has a row of  *)
(* its failed attempt k - 1.                                               *)
(***************************************************************************)

Failed(n) == [attempt |-> n, status |-> "failed"]

Follows(t, s) ==
  /\ t.pc \in {"post", "record"} /\ t.attempt > 1 =>
       \E j \in DOMAIN s : s[j] = Failed(t.attempt - 1)
  /\ t.pc = "sleep" => \E j \in DOMAIN s : s[j] = Failed(t.attempt)

TasksFollow == \A r \in Handler, h \in Hook :
                 task[r][h].pc # "none" => Follows(task[r][h], rows[handler[r].msg][h])

GapInv == TasksFollow /\ AttemptsGapFree

Appended(s, s2, w) ==
  /\ Len(s) \in Nat /\ DOMAIN s = 1..Len(s) /\ DOMAIN s2 = 1..(Len(s) + 1)
  /\ \A i \in 1..Len(s) : s2[i] = s[i]
  /\ s2[Len(s) + 1] = w

\* The row that a step of a task writes is the last one.
LEMMA RecordRow ==
  ASSUME TypeOK, NEW r \in Handler, NEW h \in Hook, record(r, h),
         NEW m, m = handler[r].msg
  PROVE  Appended(rows[m][h], rows'[m][h],
                  [attempt |-> task[r][h].attempt, status |-> task[r][h].status])
  <1> DEFINE s == rows[m][h]
             w == [attempt |-> task[r][h].attempt, status |-> task[r][h].status]
  <1>1. /\ task[r][h].pc = "record" /\ task[r][h] \in TaskType /\ m \in Message
        /\ task[r][h].status # "pending" /\ s \in Seq(RowType)
    BY TaskShape DEF record, TypeOK
  <1>2. w \in RowType
    BY <1>1 DEF TaskType, RowType
  <1>3. rows' = [rows EXCEPT ![m][h] = Append(s, w)]
    BY DEF record
  <1>4. rows'[m][h] = Append(s, w)
    BY <1>1, <1>3 DEF TypeOK
  <1> HIDE DEF s, w
  <1>5. /\ Len(s) \in Nat /\ DOMAIN s = 1..Len(s)
        /\ DOMAIN Append(s, w) = 1..(Len(s) + 1)
        /\ \A i \in 1..Len(s) : Append(s, w)[i] = s[i]
        /\ Append(s, w)[Len(s) + 1] = w
    BY <1>1, <1>2
  <1>6. QED
    BY <1>4, <1>5 DEF s, w, Appended

\* It writes no other webhook's rows.
LEMMA OtherRows ==
  ASSUME TypeOK, NEW r \in Handler, NEW h \in Hook, record(r, h),
         NEW m \in Message, NEW g \in Hook, m # handler[r].msg \/ g # h
  PROVE  rows'[m][g] = rows[m][g]
  <1>1. rows' = [rows EXCEPT ![handler[r].msg][h] =
                   Append(@, [attempt |-> task[r][h].attempt, status |-> task[r][h].status])]
    BY DEF record
  <1>2. QED
    BY <1>1 DEF TypeOK

\* Rows are never changed or removed.
LEMMA RowsGrow ==
  ASSUME TypeOK, [Next]_vars, NEW m \in Message, NEW h \in Hook
  PROVE  \A i \in DOMAIN rows[m][h] : i \in DOMAIN rows'[m][h] /\ rows'[m][h][i] = rows[m][h][i]
  <1>1. CASE UNCHANGED rows
    BY <1>1
  <1>2. ASSUME NEW r \in Handler, NEW g \in Hook, record(r, g)
        PROVE  \A i \in DOMAIN rows[m][h] :
                 i \in DOMAIN rows'[m][h] /\ rows'[m][h][i] = rows[m][h][i]
    <2>1. CASE m = handler[r].msg /\ h = g
      <3>1. Appended(rows[m][h], rows'[m][h],
                     [attempt |-> task[r][h].attempt, status |-> task[r][h].status])
        BY <1>2, <2>1, RecordRow
      <3>2. QED
        BY <3>1 DEF Appended
    <2>2. CASE m # handler[r].msg \/ h # g
      BY <1>2, <2>2, OtherRows
    <2>3. QED
      BY <2>1, <2>2
  <1>3. QED
    BY <1>1, <1>2, Writers

\* Every step keeps the rows behind each task.
LEMMA TasksFollowStep ==
  ASSUME TypeOK, TypeOK', TasksFollow, [Next]_vars
  PROVE  TasksFollow'
  <1> DEFINE Follows2(q, g) == Follows(task'[q][g], rows'[handler'[q].msg][g])
  <1> SUFFICES ASSUME NEW q \in Handler, NEW g \in Hook, task'[q][g].pc # "none"
               PROVE  Follows2(q, g)
    BY DEF TasksFollow
  <1>0. /\ handler[q].msg \in Message /\ handler'[q].msg \in Message
        /\ task[q][g] \in TaskType /\ task'[q][g] \in TaskType
    BY DEF TypeOK
  <1>1. ASSUME task[q][g].pc # "none", task'[q][g] = task[q][g],
               handler'[q].msg = handler[q].msg
        PROVE  Follows2(q, g)
    <2>1. Follows(task[q][g], rows[handler[q].msg][g])
      BY <1>1 DEF TasksFollow
    <2>2. \A i \in DOMAIN rows[handler[q].msg][g] :
            /\ i \in DOMAIN rows'[handler[q].msg][g]
            /\ rows'[handler[q].msg][g][i] = rows[handler[q].msg][g][i]
      BY <1>0, RowsGrow
    <2>3. QED
      BY <1>1, <2>1, <2>2 DEF Follows
  <1>2. CASE UNCHANGED <<handler, task>>
    BY <1>1, <1>2
  <1>3. ASSUME NEW r \in Handler, NEW k \in Message, deliver(r, k) \/ redeliver(r, k)
        PROVE  Follows2(q, g)
    <2>1. /\ handler[r].pc = "idle" /\ UNCHANGED task
          /\ handler' = [handler EXCEPT ![r] = [pc |-> "start", msg |-> k]]
      BY <1>3 DEF deliver, redeliver, StartHandler
    <2>2. q # r
      BY <2>1 DEF TypeOK
    <2>3. QED
      BY <1>1, <2>1, <2>2 DEF TypeOK
  <1>4. ASSUME NEW r \in Handler, list_active(r)
        PROVE  Follows2(q, g)
    <2>1. CASE q # r
      BY <1>1, <1>4, <2>1 DEF list_active, TypeOK
    <2>2. CASE q = r
      <3>1. task'[q][g] = [pc |-> "post", attempt |-> 1, status |-> "pending"]
        BY <1>4, <2>2 DEF list_active, TypeOK, IdleTask
      <3>2. QED
        BY <3>1 DEF Follows
    <2>3. QED
      BY <2>1, <2>2
  <1>5. ASSUME NEW r \in Handler, ack(r) \/ lose_handler(r)
        PROVE  Follows2(q, g)
    <2>1. EndHandler(r)
      BY <1>5 DEF ack, lose_handler
    <2>2. task'[q][g] = task[q][g] /\ handler'[q] = handler[q]
      BY <2>1, EndType
    <2>3. QED
      BY <1>1, <2>2
  <1>6. ASSUME NEW r \in Handler, NEW h \in Hook, TaskStep(r, h)
        PROVE  Follows2(q, g)
    <2>1. UNCHANGED handler /\ task[r][h].pc \in {"post", "record", "sleep"}
      BY <1>6 DEF TaskStep, post, record, record_error, wake
    <2>2. CASE q # r \/ g # h
      <3>1. PICK t : task' = [task EXCEPT ![r][h] = t]
        BY <1>6, TaskSteps
      <3>2. task'[q][g] = task[q][g]
        BY <2>2, <3>1 DEF TypeOK
      <3>3. QED
        BY <1>1, <2>1, <3>2
    <2>3. CASE q = r /\ g = h
      <3> DEFINE s == rows[handler[r].msg][h]
                 s2 == rows'[handler[r].msg][h]
                 t == task[r][h]
      <3>1. Follows(t, s)
        BY <2>1, <2>3 DEF TasksFollow
      <3>2. t \in TaskType /\ t.attempt \in Nat
        BY <1>0, <2>3 DEF TaskType
      <3>3. SUFFICES Follows(task'[r][h], s2)
        BY <2>1, <2>3
      <3>4. ASSUME NEW ok \in BOOLEAN, post(r, h, ok)
            PROVE  Follows(task'[r][h], s2)
        <4>1. /\ task'[r][h].pc = "record" /\ task'[r][h].attempt = t.attempt
              /\ t.pc = "post" /\ s2 = s
          BY <3>4, TaskFields DEF post
        <4>2. QED
          BY <3>1, <4>1 DEF Follows
      <3>5. CASE record(r, h)
        <4>1. /\ task'[r][h].pc = AfterAttempt(t) /\ task'[r][h].attempt = t.attempt
              /\ t.pc = "record" /\ t.status \in {"success", "failed"}
          BY <3>5, TaskFields
        <4>2. Appended(s, s2, [attempt |-> t.attempt, status |-> t.status])
          BY <3>5, RecordRow
        <4>3. AfterAttempt(t) \in {"done", "sleep"}
              /\ (AfterAttempt(t) = "sleep" => t.status = "failed")
          BY <4>1 DEF AfterAttempt
        <4>4. CASE AfterAttempt(t) = "done"
          BY <4>1, <4>4 DEF Follows
        <4>5. CASE AfterAttempt(t) = "sleep"
          <5> DEFINE k == Len(s) + 1
          <5>1. k \in DOMAIN s2 /\ s2[k] = [attempt |-> t.attempt, status |-> t.status]
            BY <4>2 DEF Appended
          <5>2. s2[k] = Failed(t.attempt)
            BY <4>3, <4>5, <5>1 DEF Failed
          <5>3. QED
            BY <4>1, <4>5, <5>1, <5>2 DEF Follows
        <4>6. QED
          BY <4>3, <4>4, <4>5
      <3>6. CASE record_error(r, h)
        <4>1. task'[r][h].pc = "done"
          BY <3>6, TaskFields
        <4>2. QED
          BY <4>1 DEF Follows
      <3>7. CASE wake(r, h)
        <4>1. /\ task'[r][h].pc = "post" /\ task'[r][h].attempt = t.attempt + 1
              /\ t.pc = "sleep" /\ s2 = s
          BY <3>7, TaskFields DEF wake
        <4>2. QED
          BY <3>1, <3>2, <4>1 DEF Follows
      <3>8. QED
        BY <1>6, <3>4, <3>5, <3>6, <3>7 DEF TaskStep
    <2>4. QED
      BY <2>2, <2>3
  <1>7. Admin \/ Store \/ UNCHANGED vars => UNCHANGED <<handler, task>>
    BY DEF Admin, Store, create, update, delete, Administer, store, vars
  <1>8. QED
    BY <1>2, <1>3, <1>4, <1>5, <1>6, <1>7 DEF Next, Deliver, Redeliver, HandlerStep

\* Every step keeps the rows without gaps.
LEMMA GapStep ==
  ASSUME TypeOK, TasksFollow, AttemptsGapFree, [Next]_vars
  PROVE  AttemptsGapFree'
  <1>1. CASE UNCHANGED rows
    BY <1>1 DEF AttemptsGapFree
  <1>2. ASSUME NEW r \in Handler, NEW h \in Hook, record(r, h)
        PROVE  AttemptsGapFree'
    <2> SUFFICES ASSUME NEW m \in Message, NEW g \in Hook, NEW i \in DOMAIN rows'[m][g],
                        rows'[m][g][i].attempt > 1
                 PROVE  \E j \in 1..(i - 1) : rows'[m][g][j] = Failed(rows'[m][g][i].attempt - 1)
      BY DEF AttemptsGapFree, Failed
    <2>1. CASE m # handler[r].msg \/ g # h
      <3>1. rows'[m][g] = rows[m][g]
        BY <1>2, <2>1, OtherRows
      <3>2. QED
        BY <3>1 DEF AttemptsGapFree, Failed
    <2>2. CASE m = handler[r].msg /\ g = h
      <3> DEFINE s == rows[m][g]
                 s2 == rows'[m][g]
      <3>1. /\ Len(s) \in Nat /\ DOMAIN s = 1..Len(s) /\ DOMAIN s2 = 1..(Len(s) + 1)
            /\ \A j \in 1..Len(s) : s2[j] = s[j]
            /\ s2[Len(s) + 1] = [attempt |-> task[r][h].attempt, status |-> task[r][h].status]
        <4>1. Appended(s, s2, [attempt |-> task[r][h].attempt, status |-> task[r][h].status])
          BY <1>2, <2>2, RecordRow
        <4>2. QED
          BY <4>1 DEF Appended
      <3>2. i \in 1..(Len(s) + 1)
        BY <3>1
      <3>3. CASE i <= Len(s)
        <4>1. i \in DOMAIN s /\ s2[i] = s[i]
          BY <3>1, <3>2, <3>3
        <4>2. PICK j \in 1..(i - 1) : s[j] = Failed(s[i].attempt - 1)
          BY <4>1 DEF AttemptsGapFree, Failed
        <4>3. s2[j] = s[j]
          BY <3>1, <3>2, <3>3, <4>2
        <4>4. QED
          BY <4>1, <4>2, <4>3
      <3>4. CASE i = Len(s) + 1
        <4>1. s2[i].attempt = task[r][h].attempt
          BY <3>1, <3>4
        <4>2. task[r][h].pc = "record"
          BY <1>2 DEF record
        <4>3. PICK j \in DOMAIN s : s[j] = Failed(task[r][h].attempt - 1)
          BY <2>2, <4>1, <4>2 DEF TasksFollow, Follows
        <4>4. j \in 1..(i - 1) /\ s2[j] = s[j]
          BY <3>1, <3>4, <4>3
        <4>5. QED
          BY <4>1, <4>3, <4>4
      <3>5. QED
        BY <3>1, <3>2, <3>3, <3>4
    <2>3. QED
      BY <2>1, <2>2
  <1>3. QED
    BY <1>1, <1>2, Writers

\* "Retries produce additional rows with incrementing attempt_count", whatever
\* the number of handlers that interleave.
THEOREM AttemptsHaveNoGaps == Spec => []AttemptsGapFree
  <1>1. Init => GapInv
    <2>1. ASSUME Init, NEW r \in Handler, NEW h \in Hook
          PROVE  task[r][h].pc = "none"
      BY <2>1 DEF Init, NoTasks, IdleTask
    <2>2. QED
      BY <2>1 DEF Init, GapInv, TasksFollow, AttemptsGapFree
  <1>2. TypeOK /\ TypeOK' /\ GapInv /\ [Next]_vars => GapInv'
    BY TasksFollowStep, GapStep DEF GapInv
  <1>3. GapInv => AttemptsGapFree
    BY DEF GapInv
  <1>4. QED
    BY <1>1, <1>2, <1>3, WebhookTypeCorrect, PTL DEF Spec


(***************************************************************************)
(* POSTs are bounded.  An attempt that a handler at work may still make is *)
(* a pair of its slot and a number.  The POSTs a webhook has seen, the     *)
(* attempts its handlers have left, and the attempts of a handler that the *)
(* message still waits for never exceed MAX_ATTEMPTS for the first         *)
(* delivery and for each fault.                                            *)
(***************************************************************************)

\* Attempt k is still ahead of task t, which may not have been started yet.
Ahead(t, k) == t.pc = "none" \/ k > t.attempt \/ (t.pc = "post" /\ k = t.attempt)

Left(hd, tk, m, h) ==
  {c \in Handler \X (1..MAX_ATTEMPTS) :
     hd[c[1]].pc # "idle" /\ hd[c[1]].msg = m /\ Ahead(tk[c[1]][h], c[2])}

Unstarted(m) == IF m \in acked \/ Held(m) THEN 0 ELSE MAX_ATTEMPTS

TasksBounded ==
  \A r \in Handler, h \in Hook :
    /\ task[r][h].pc # "none" => task[r][h].attempt \in 1..MAX_ATTEMPTS
    /\ task[r][h].pc = "sleep" => task[r][h].attempt < MAX_ATTEMPTS

WithinBudget(m, h) ==
  posted[m][h].n + Cardinality(Left(handler, task, m, h)) + Unstarted(m)
    <= MAX_ATTEMPTS * (1 + faults)

PostInv == TasksBounded /\ \A m \in Message, h \in Hook : WithinBudget(m, h)

\* The attempts that are left for a message and a hook are finitely many.
LEMMA LeftFinite ==
  ASSUME NEW m \in Message, NEW h \in Hook
  PROVE  /\ IsFiniteSet(Left(handler, task, m, h))
         /\ Cardinality(Left(handler, task, m, h)) \in Nat
         /\ IsFiniteSet(Left(handler', task', m, h))
         /\ Cardinality(Left(handler', task', m, h)) \in Nat
  <1>1. IsFiniteSet(1..MAX_ATTEMPTS)
    <2>1. 1 \in Int /\ 3 \in Int
      OBVIOUS
    <2>2. IsFiniteSet(1..3)
      BY <2>1, FS_Interval
    <2>3. QED
      BY <2>2 DEF MAX_ATTEMPTS
  <1>2. IsFiniteSet(Handler \X (1..MAX_ATTEMPTS))
    BY <1>1, WebhookAssumption, FS_Product
  <1>3. /\ Left(handler, task, m, h) \subseteq Handler \X (1..MAX_ATTEMPTS)
        /\ Left(handler', task', m, h) \subseteq Handler \X (1..MAX_ATTEMPTS)
    BY DEF Left
  <1>4. QED
    BY <1>2, <1>3, FS_Subset, FS_CardinalityType

\* What is compared in a step is a number.
LEMMA BudgetNat ==
  ASSUME TypeOK, TypeOK', NEW m \in Message, NEW h \in Hook
  PROVE  /\ posted[m][h].n \in Nat /\ posted'[m][h].n \in Nat
         /\ faults \in Nat /\ faults' \in Nat
         /\ Unstarted(m) \in {0, 3} /\ Unstarted(m)' \in {0, 3}
  <1>1. posted[m][h].n \in Nat /\ posted'[m][h].n \in Nat
    BY WrittenNat
  <1>2. faults \in Nat /\ faults' \in Nat
    BY DEF TypeOK
  <1>3. Unstarted(m) \in {0, 3} /\ Unstarted(m)' \in {0, 3}
    BY DEF Unstarted, MAX_ATTEMPTS
  <1>4. QED
    BY <1>1, <1>2, <1>3

\* The arithmetic of the budget: three attempts for each delivery.
LEMMA Triples ==
  /\ \A x, y \in Nat : x <= y => 3 * (1 + x) <= 3 * (1 + y)
  /\ \A x \in Nat : 3 * (1 + (x + 1)) = 3 * (1 + x) + 3
  /\ \A x \in Nat : 3 * (1 + x) \in Nat
  OBVIOUS

\* A step that makes no POST, starts no handler for m and leaves it no more
\* attempts keeps the budget.
LEMMA NothingSpent ==
  ASSUME TypeOK, TypeOK', NEW m \in Message, NEW h \in Hook, WithinBudget(m, h),
         posted'[m][h].n = posted[m][h].n,
         Left(handler', task', m, h) \subseteq Left(handler, task, m, h),
         \/ Unstarted(m)' <= Unstarted(m) /\ faults' >= faults
         \/ faults' = faults + 1
  PROVE  WithinBudget(m, h)'
  <1> DEFINE a == Cardinality(Left(handler, task, m, h))
             b == Cardinality(Left(handler', task', m, h))
             p == posted[m][h].n
             u == Unstarted(m)
             v == Unstarted(m)'
  <1>1. a \in Nat /\ b \in Nat /\ b <= a
    BY LeftFinite, FS_Subset
  <1>2. p \in Nat /\ u \in {0, 3} /\ v \in {0, 3} /\ faults \in Nat /\ faults' \in Nat
    BY BudgetNat
  <1>3. p + a + u <= 3 * (1 + faults)
    BY DEF WithinBudget, MAX_ATTEMPTS
  <1>4. (v <= u /\ faults' >= faults) \/ faults' = faults + 1
    OBVIOUS
  <1>5. SUFFICES p + b + v <= 3 * (1 + faults')
    BY DEF WithinBudget, MAX_ATTEMPTS
  <1> DEFINE x == 3 * (1 + faults)
             y == 3 * (1 + faults')
  <1>6. /\ x \in Nat /\ y \in Nat
        /\ faults' >= faults => x <= y
        /\ faults' = faults + 1 => y = x + 3
    BY <1>2, Triples
  <1> HIDE DEF a, b, p, u, v, x, y
  <1>7. SUFFICES p + b + v <= y
    BY DEF y
  <1>8. p + a + u <= x
    BY <1>3 DEF x
  <1>9. CASE v <= u /\ faults' >= faults
    BY <1>1, <1>2, <1>6, <1>8, <1>9
  <1>10. CASE faults' = faults + 1
    BY <1>1, <1>2, <1>6, <1>8, <1>10
  <1>11. QED
    BY <1>4, <1>9, <1>10

\* A handler that is started takes the attempts that m waited for, or those of a
\* fault.
LEMMA HandlerStarted ==
  ASSUME TypeOK, TypeOK', NEW m \in Message, NEW h \in Hook, WithinBudget(m, h),
         NEW r \in Handler, deliver(r, m) \/ redeliver(r, m)
  PROVE  WithinBudget(m, h)'
  <1> DEFINE A == Left(handler, task, m, h)
             B == Left(handler', task', m, h)
             a == Cardinality(A)
             b == Cardinality(B)
             p == posted[m][h].n
  <1>1. /\ handler[r].pc = "idle" /\ m \in stored \ acked
        /\ handler' = [handler EXCEPT ![r] = [pc |-> "start", msg |-> m]]
        /\ UNCHANGED <<acked, task, posted>>
    BY DEF deliver, redeliver, StartHandler
  <1>2. a \in Nat /\ b \in Nat /\ IsFiniteSet(A) /\ IsFiniteSet(B)
    BY LeftFinite
  <1>3. p \in Nat /\ faults \in Nat /\ faults' \in Nat
    BY BudgetNat
  <1>4. b <= a + 3
    <2>1. /\ handler'[r].pc = "start" /\ handler'[r].msg = m
          /\ \A q \in Handler : q # r => handler'[q] = handler[q]
      BY <1>1 DEF TypeOK
    <2>2. B \subseteq ((A \cup {<<r, 1>>}) \cup {<<r, 2>>}) \cup {<<r, 3>>}
      <3> SUFFICES ASSUME NEW c \in B, c[1] # r
                   PROVE  c \in A
        BY DEF Left, MAX_ATTEMPTS
      <3>1. c \in Handler \X (1..MAX_ATTEMPTS)
        BY DEF Left
      <3>2. handler'[c[1]] = handler[c[1]] /\ task'[c[1]][h] = task[c[1]][h]
        BY <1>1, <2>1, <3>1
      <3>3. QED
        BY <3>1, <3>2 DEF Left
    <2> HIDE DEF A, B
    <2>3. /\ IsFiniteSet(A \cup {<<r, 1>>}) /\ IsFiniteSet((A \cup {<<r, 1>>}) \cup {<<r, 2>>})
          /\ IsFiniteSet(((A \cup {<<r, 1>>}) \cup {<<r, 2>>}) \cup {<<r, 3>>})
      <3>1. IsFiniteSet(A \cup {<<r, 1>>})
        BY <1>2, FS_AddElement
      <3>2. IsFiniteSet((A \cup {<<r, 1>>}) \cup {<<r, 2>>})
        BY <3>1, FS_AddElement
      <3>3. IsFiniteSet(((A \cup {<<r, 1>>}) \cup {<<r, 2>>}) \cup {<<r, 3>>})
        BY <3>2, FS_AddElement
      <3>4. QED
        BY <3>1, <3>2, <3>3
    <2> DEFINE n1 == Cardinality(A \cup {<<r, 1>>})
               n2 == Cardinality((A \cup {<<r, 1>>}) \cup {<<r, 2>>})
               n3 == Cardinality(((A \cup {<<r, 1>>}) \cup {<<r, 2>>}) \cup {<<r, 3>>})
    <2>4. n1 \in Nat /\ n2 \in Nat /\ n3 \in Nat
      BY <2>3, FS_CardinalityType
    <2>5. n1 <= a + 1
      BY <1>2, AddedOne
    <2>6. n2 <= n1 + 1
      BY <2>3, AddedOne
    <2>7. n3 <= n2 + 1
      BY <2>3, AddedOne
    <2>8. b <= n3
      BY <2>2, <2>3, FS_Subset
    <2> HIDE DEF n1, n2, n3, a, b
    <2>9. QED
      BY <1>2, <2>4, <2>5, <2>6, <2>7, <2>8
  <1>5. Unstarted(m)' = 0
    <2>1. handler'[r].pc = "start" /\ handler'[r].msg = m
      BY <1>1 DEF TypeOK
    <2>2. QED
      BY <2>1 DEF Unstarted, Held
  <1>6. \/ Unstarted(m) = 3 /\ faults' = faults
        \/ Unstarted(m) = 0 /\ faults' = faults + 1
    BY <1>1 DEF deliver, redeliver, Unstarted, MAX_ATTEMPTS
  <1>7. p + a + Unstarted(m) <= 3 * (1 + faults)
    BY DEF WithinBudget, MAX_ATTEMPTS
  <1>8. SUFFICES p + b + Unstarted(m)' <= 3 * (1 + faults')
    BY <1>1 DEF WithinBudget, MAX_ATTEMPTS
  <1> HIDE DEF a, b, p
  <1>9. CASE Unstarted(m) = 3 /\ faults' = faults
    BY <1>2, <1>3, <1>4, <1>5, <1>7, <1>9
  <1>10. CASE Unstarted(m) = 0 /\ faults' = faults + 1
    <2>1. 3 * (1 + faults') = 3 * (1 + faults) + 3
      BY <1>3, <1>10, Triples
    <2>2. QED
      BY <1>2, <1>3, <1>4, <1>5, <1>7, <1>10, <2>1
  <1>11. QED
    BY <1>6, <1>9, <1>10

\* A POST uses up the attempt it makes.
LEMMA PostMade ==
  ASSUME TypeOK, TypeOK', TasksBounded, NEW m \in Message, NEW h \in Hook, WithinBudget(m, h),
         NEW r \in Handler, NEW ok \in BOOLEAN, post(r, h, ok), handler[r].msg = m
  PROVE  WithinBudget(m, h)'
  <1> DEFINE A == Left(handler, task, m, h)
             B == Left(handler', task', m, h)
             c == <<r, task[r][h].attempt>>
             a == Cardinality(A)
             b == Cardinality(B)
             p == posted[m][h].n
             u == Unstarted(m)
             x == 3 * (1 + faults)
  <1>1. /\ task[r][h].pc = "post" /\ task'[r][h].pc = "record"
        /\ task'[r][h].attempt = task[r][h].attempt
    BY TaskFields
  <1>2. /\ UNCHANGED <<handler, acked, faults>>
        /\ \A q \in Handler : q # r => task'[q] = task[q]
    BY DEF post, TypeOK
  <1>3. posted'[m][h].n = p + 1
    <2>1. posted' = [posted EXCEPT ![m][h] = [n |-> p + 1, ok |-> posted[m][h].ok \/ ok]]
      BY DEF post
    <2>2. posted \in [Message -> [Hook -> [n : Nat, ok : BOOLEAN]]]
      BY DEF TypeOK
    <2>3. posted'[m][h] = [n |-> p + 1, ok |-> posted[m][h].ok \/ ok]
      BY <2>1, <2>2
    <2>4. QED
      BY <2>3
  <1>4. task[r][h].attempt \in 1..MAX_ATTEMPTS /\ handler[r].pc = "gather"
    <2>1. task[r][h].pc # "none"
      BY <1>1
    <2>2. QED
      BY <2>1, TaskShape DEF TasksBounded
  <1>5. c \in A
    <2>1. c \in Handler \X (1..MAX_ATTEMPTS) /\ c[1] = r /\ c[2] = task[r][h].attempt
      BY <1>4
    <2>2. Ahead(task[r][h], task[r][h].attempt)
      BY <1>1 DEF Ahead
    <2> HIDE DEF c
    <2>3. QED
      BY <1>4, <2>1, <2>2 DEF Left
  <1>6. B \subseteq A \ {c}
    <2> SUFFICES ASSUME NEW d \in B
                 PROVE  d \in A /\ d # c
      OBVIOUS
    <2>1. /\ d \in Handler \X (1..MAX_ATTEMPTS)
          /\ handler[d[1]].pc # "idle" /\ handler[d[1]].msg = m
          /\ Ahead(task'[d[1]][h], d[2])
      BY <1>2 DEF Left
    <2>2. CASE d[1] # r
      <3>1. task'[d[1]][h] = task[d[1]][h]
        BY <1>2, <2>1, <2>2
      <3>2. QED
        BY <2>1, <2>2, <3>1 DEF Left
    <2>3. CASE d[1] = r
      <3>1. d[2] > task[r][h].attempt /\ d[2] \in 1..MAX_ATTEMPTS
        BY <1>1, <2>1, <2>3 DEF Ahead
      <3>2. Ahead(task[r][h], d[2])
        BY <3>1 DEF Ahead
      <3>3. d \in A
        BY <2>1, <2>3, <3>2 DEF Left
      <3>4. d[2] # task[r][h].attempt
        BY <1>4, <3>1
      <3>5. QED
        BY <3>3, <3>4
    <2>4. QED
      BY <2>2, <2>3
  <1> HIDE DEF A, B, c
  <1>7. a \in Nat /\ b \in Nat /\ b <= a - 1
    <2>1. IsFiniteSet(A) /\ IsFiniteSet(A \ {c}) /\ a \in Nat /\ b \in Nat
      BY LeftFinite, FS_Subset DEF A, B
    <2>2. Cardinality(A \ {c}) = a - 1
      BY <1>5, <2>1, RemovedOne
    <2>3. b <= Cardinality(A \ {c})
      BY <1>6, <2>1, FS_Subset
    <2>4. QED
      BY <2>1, <2>2, <2>3
  <1>8. p \in Nat /\ u \in {0, 3} /\ x \in Nat
    BY BudgetNat, Triples
  <1>9. Unstarted(m)' = u
    BY <1>2 DEF Unstarted, Held
  <1>10. p + a + u <= x
    BY DEF WithinBudget, MAX_ATTEMPTS, A
  <1>11. (p + 1) + b + u <= x
    <2> HIDE DEF a, b, p, u, x
    <2>1. QED
      BY <1>7, <1>8, <1>10
  <1>12. QED
    BY <1>2, <1>3, <1>9, <1>11 DEF WithinBudget, MAX_ATTEMPTS, B

\* A task makes at most MAX_ATTEMPTS attempts.
LEMMA TasksBoundedStep ==
  ASSUME TypeOK, TypeOK', TasksBounded, [Next]_vars
  PROVE  TasksBounded'
  <1> DEFINE Bounded(t) == /\ t.pc # "none" => t.attempt \in 1..MAX_ATTEMPTS
                           /\ t.pc = "sleep" => t.attempt < MAX_ATTEMPTS
  <1> SUFFICES ASSUME NEW q \in Handler, NEW g \in Hook
               PROVE  Bounded(task'[q][g])
    BY DEF TasksBounded
  <1>0. Bounded(task[q][g]) /\ task[q][g] \in TaskType
    BY DEF TasksBounded, TypeOK
  <1>1. CASE UNCHANGED task
    BY <1>0, <1>1
  <1>2. ASSUME NEW r \in Handler, list_active(r)
        PROVE  Bounded(task'[q][g])
    <2>1. task'[q][g] = task[q][g] \/ task'[q][g].pc = "none"
          \/ (task'[q][g].pc = "post" /\ task'[q][g].attempt = 1)
      BY <1>2 DEF list_active, TypeOK, IdleTask
    <2>2. QED
      BY <1>0, <2>1 DEF MAX_ATTEMPTS
  <1>3. ASSUME NEW r \in Handler, ack(r) \/ lose_handler(r)
        PROVE  Bounded(task'[q][g])
    <2>1. task'[q][g] = task[q][g] \/ task'[q][g].pc = "none"
      BY <1>3, EndType DEF ack, lose_handler
    <2>2. QED
      BY <1>0, <2>1
  <1>4. ASSUME NEW r \in Handler, NEW h \in Hook, TaskStep(r, h)
        PROVE  Bounded(task'[q][g])
    <2>1. CASE q # r \/ g # h
      <3>1. PICK t : task' = [task EXCEPT ![r][h] = t]
        BY <1>4, TaskSteps
      <3>2. task'[q][g] = task[q][g]
        BY <2>1, <3>1 DEF TypeOK
      <3>3. QED
        BY <1>0, <3>2
    <2>2. CASE q = r /\ g = h
      <3>1. ASSUME NEW ok \in BOOLEAN, post(r, h, ok)
            PROVE  Bounded(task'[q][g])
        <4>1. /\ task[q][g].pc = "post" /\ task'[q][g].pc = "record"
              /\ task'[q][g].attempt = task[q][g].attempt
          BY <2>2, <3>1, TaskFields
        <4>2. QED
          BY <1>0, <4>1
      <3>2. CASE record(r, h)
        <4>1. /\ task[q][g].pc = "record" /\ task'[q][g].pc = AfterAttempt(task[q][g])
              /\ task'[q][g].attempt = task[q][g].attempt
          BY <2>2, <3>2, TaskFields
        <4>2. task'[q][g].pc = "sleep" => ~(task[q][g].attempt >= MAX_ATTEMPTS)
          BY <4>1 DEF AfterAttempt
        <4>3. QED
          BY <1>0, <4>1, <4>2 DEF MAX_ATTEMPTS
      <3>3. CASE record_error(r, h)
        <4>1. task[q][g].pc = "record" /\ task'[q][g] = [task[q][g] EXCEPT !.pc = "done"]
          BY <2>2, <3>3 DEF record_error, TypeOK
        <4>2. /\ task'[q][g].pc = "done"
              /\ task'[q][g].attempt = task[q][g].attempt
          BY <1>0, <4>1 DEF TaskType
        <4>3. QED
          BY <1>0, <4>1, <4>2
      <3>4. CASE wake(r, h)
        <4>1. /\ task[q][g].pc = "sleep" /\ task'[q][g].pc = "post"
              /\ task'[q][g].attempt = task[q][g].attempt + 1
          BY <2>2, <3>4, TaskFields
        <4>2. task[q][g].attempt \in 1..MAX_ATTEMPTS /\ task[q][g].attempt < MAX_ATTEMPTS
          BY <1>0, <4>1
        <4>3. task[q][g].attempt + 1 \in 1..MAX_ATTEMPTS
          BY <4>2 DEF MAX_ATTEMPTS
        <4>4. QED
          BY <4>1, <4>3
      <3>5. QED
        BY <1>4, <3>1, <3>2, <3>3, <3>4 DEF TaskStep
    <2>3. QED
      BY <2>1, <2>2
  <1>5. Admin \/ Store \/ UNCHANGED vars => UNCHANGED task
    BY DEF Admin, Store, create, update, delete, Administer, store, vars
  <1>6. Deliver \/ Redeliver => UNCHANGED task
    BY DEF Deliver, Redeliver, deliver, redeliver, StartHandler
  <1> HIDE DEF Bounded
  <1>7. CASE \E r \in Handler : HandlerStep(r) \/ lose_handler(r)
    BY <1>2, <1>3, <1>4, <1>7 DEF HandlerStep
  <1>8. QED
    BY <1>1, <1>5, <1>6, <1>7 DEF Next

\* Every other step leaves the webhooks of m no more attempts.
LEMMA BudgetStep ==
  ASSUME TypeOK, TypeOK', TasksBounded, NEW m \in Message, NEW h \in Hook, WithinBudget(m, h),
         [Next]_vars
  PROVE  WithinBudget(m, h)'
  <1> DEFINE Kept == Left(handler', task', m, h) \subseteq Left(handler, task, m, h)
             Same == posted'[m][h].n = posted[m][h].n
  <1>0. \A c \in Handler \X (1..MAX_ATTEMPTS) : c[1] \in Handler /\ c[2] \in 1..MAX_ATTEMPTS
    OBVIOUS
  <1>1. ASSUME \A q \in Handler : /\ handler'[q].pc # "idle" /\ handler'[q].msg = m =>
                                       handler[q].pc # "idle" /\ handler[q].msg = m
                                  /\ handler'[q].pc # "idle" /\ handler'[q].msg = m =>
                                       \A k \in 1..MAX_ATTEMPTS : Ahead(task'[q][h], k) => Ahead(task[q][h], k)
        PROVE  Kept
    BY <1>0, <1>1 DEF Left
  <1>2. ASSUME UNCHANGED <<handler, task>>
        PROVE  Kept
    BY <1>2 DEF Left
  <1> HIDE DEF Kept
  <1>3. CASE Admin \/ Store \/ UNCHANGED vars
    <2>1. UNCHANGED <<handler, task, posted, acked, faults>>
      BY <1>3 DEF Admin, Store, create, update, delete, Administer, store, vars
    <2>2. Unstarted(m)' = Unstarted(m)
      BY <2>1 DEF Unstarted, Held
    <2>3. Kept /\ Same /\ Unstarted(m)' <= Unstarted(m) /\ faults' >= faults
      BY <1>2, <2>1, <2>2, BudgetNat
    <2>4. QED
      BY <2>3, NothingSpent DEF Kept
  <1>4. ASSUME NEW r \in Handler, NEW k \in Message, deliver(r, k) \/ redeliver(r, k)
        PROVE  WithinBudget(m, h)'
    <2>1. CASE k = m
      BY <1>4, <2>1, HandlerStarted
    <2>2. CASE k # m
      <3>1. /\ handler[r].pc = "idle" /\ UNCHANGED <<task, posted, acked>>
            /\ faults' = faults \/ faults' = faults + 1
            /\ handler' = [handler EXCEPT ![r] = [pc |-> "start", msg |-> k]]
        BY <1>4 DEF deliver, redeliver, StartHandler
      <3>2. \A q \in Handler : /\ q # r => handler'[q] = handler[q]
                               /\ q = r => handler'[q].msg = k
        BY <3>1 DEF TypeOK
      <3>3. Kept
        BY <1>1, <2>2, <3>1, <3>2
      <3>4. Unstarted(m)' = Unstarted(m)
        BY <2>2, <3>1, <3>2 DEF Unstarted, Held
      <3>5. Same /\ Unstarted(m)' <= Unstarted(m)
        BY <3>1, <3>4, BudgetNat
      <3>6. faults' >= faults
        BY <3>1, BudgetNat
      <3>7. QED
        BY <3>3, <3>5, <3>6, NothingSpent DEF Kept
    <2>3. QED
      BY <2>1, <2>2
  <1>5. ASSUME NEW r \in Handler, list_active(r)
        PROVE  WithinBudget(m, h)'
    <2>1. /\ handler[r].pc = "start"
          /\ handler' = [handler EXCEPT ![r].pc = "gather"]
          /\ UNCHANGED <<posted, acked, faults>>
          /\ \A q \in Handler : q # r => task'[q] = task[q]
      BY <1>5 DEF list_active, TypeOK
    <2>2. \A q \in Handler : /\ handler'[q].msg = handler[q].msg
                             /\ handler'[q].pc # "idle" <=> handler[q].pc # "idle"
      BY <2>1 DEF TypeOK
    <2>3. task[r][h].pc = "none"
      BY <2>1 DEF TypeOK
    <2>4. \A k \in 1..MAX_ATTEMPTS : Ahead(task[r][h], k)
      BY <2>3 DEF Ahead
    <2>5. Kept
      BY <1>1, <2>1, <2>2, <2>4
    <2>6. Unstarted(m)' = Unstarted(m)
      BY <2>1, <2>2 DEF Unstarted, Held
    <2>7. Same /\ Unstarted(m)' <= Unstarted(m) /\ faults' >= faults
      BY <2>1, <2>6, BudgetNat
    <2>8. QED
      BY <2>5, <2>7, NothingSpent DEF Kept
  <1>6. ASSUME NEW r \in Handler, ack(r) \/ lose_handler(r)
        PROVE  WithinBudget(m, h)'
    <2>1. EndHandler(r) /\ UNCHANGED posted
      BY <1>6 DEF ack, lose_handler
    <2>2. \A q \in Handler : /\ handler'[q].pc # "idle" => handler'[q] = handler[q] /\ q # r
                             /\ q # r => handler'[q] = handler[q] /\ task'[q] = task[q]
      BY <2>1 DEF EndHandler, IdleHandler, TypeOK
    <2>3. Kept
      BY <1>1, <2>2
    <2>4. CASE ack(r)
      <3>1. /\ handler[r].pc = "gather" /\ acked' = acked \cup {handler[r].msg}
            /\ UNCHANGED faults
        BY <2>4 DEF ack
      <3>2. m = handler[r].msg => m \in acked'
        BY <3>1
      <3>3. m # handler[r].msg => (Held(m) => Held(m)') /\ (m \in acked => m \in acked')
        BY <2>2, <3>1 DEF Held
      <3>4. Unstarted(m)' = 0 \/ Unstarted(m)' = Unstarted(m) \/ Unstarted(m) = 3
        BY <3>2, <3>3 DEF Unstarted, MAX_ATTEMPTS
      <3>5. Same /\ Unstarted(m)' <= Unstarted(m) /\ faults' >= faults
        BY <2>1, <3>1, <3>4, BudgetNat
      <3>6. QED
        BY <2>3, <3>5, NothingSpent DEF Kept
    <2>5. CASE lose_handler(r)
      <3>1. Same /\ faults' = faults + 1
        BY <2>1, <2>5 DEF lose_handler
      <3>2. QED
        BY <2>3, <3>1, NothingSpent DEF Kept
    <2>6. QED
      BY <1>6, <2>4, <2>5
  <1>7. ASSUME NEW r \in Handler, NEW g \in Hook, TaskStep(r, g)
        PROVE  WithinBudget(m, h)'
    <2>1. UNCHANGED <<handler, acked, faults>> /\ task[r][g].pc \in {"post", "record", "sleep"}
      BY <1>7 DEF TaskStep, post, record, record_error, wake
    <2>2. \A q \in Handler, f \in Hook : q # r \/ f # g => task'[q][f] = task[q][f]
      <3>1. PICK t : task' = [task EXCEPT ![r][g] = t]
        BY <1>7, TaskSteps
      <3>2. QED
        BY <3>1 DEF TypeOK
    <2>3. Unstarted(m)' <= Unstarted(m) /\ faults' >= faults
      <3>1. Unstarted(m)' = Unstarted(m)
        BY <2>1 DEF Unstarted, Held
      <3>2. QED
        BY <2>1, <3>1, BudgetNat
    <2>4. CASE g = h /\ handler[r].msg = m
      <3>1. ASSUME NEW ok \in BOOLEAN, post(r, g, ok)
            PROVE  WithinBudget(m, h)'
        BY <2>4, <3>1, PostMade
      <3>2. CASE record(r, g) \/ record_error(r, g)
        <4>1. /\ task[r][h].pc = "record" /\ task'[r][h].pc \in {"done", "sleep"}
              /\ task'[r][h].attempt = task[r][h].attempt
          <5>1. CASE record(r, g)
            BY <2>4, <5>1, TaskFields DEF AfterAttempt
          <5>2. CASE record_error(r, g)
            <6>1. task[r][h] \in TaskType
              BY DEF TypeOK
            <6>2. task'[r][h] = [task[r][h] EXCEPT !.pc = "done"] /\ task[r][h].pc = "record"
              BY <2>4, <5>2 DEF record_error, TypeOK
            <6>3. QED
              BY <6>1, <6>2 DEF TaskType
          <5>3. QED
            BY <3>2, <5>1, <5>2
        <4>2. \A k \in 1..MAX_ATTEMPTS : Ahead(task'[r][h], k) => Ahead(task[r][h], k)
          BY <4>1 DEF Ahead
        <4>3. Kept
          BY <1>1, <2>1, <2>2, <4>2
        <4>4. Same
          BY <3>2 DEF record, record_error
        <4>5. QED
          BY <2>3, <4>3, <4>4, NothingSpent DEF Kept
      <3>3. CASE wake(r, g)
        <4>1. /\ task[r][h].pc = "sleep" /\ task'[r][h].pc = "post"
              /\ task'[r][h].attempt = task[r][h].attempt + 1 /\ task[r][h].attempt \in Nat
          BY <2>4, <3>3, TaskFields DEF TypeOK, TaskType
        <4>2. \A k \in 1..MAX_ATTEMPTS : Ahead(task'[r][h], k) => Ahead(task[r][h], k)
          BY <4>1 DEF Ahead
        <4>3. Kept
          BY <1>1, <2>1, <2>2, <4>2
        <4>4. Same
          BY <3>3 DEF wake
        <4>5. QED
          BY <2>3, <4>3, <4>4, NothingSpent DEF Kept
      <3>4. QED
        BY <1>7, <3>1, <3>2, <3>3 DEF TaskStep
    <2>5. CASE g # h \/ handler[r].msg # m
      <3>1. Kept
        BY <1>1, <2>1, <2>2, <2>5
      <3>2. Same
        <4>1. \/ UNCHANGED posted
              \/ \E p : posted' = [posted EXCEPT ![handler[r].msg][g] = p]
          BY <1>7 DEF TaskStep, post, record, record_error, wake
        <4>2. ASSUME NEW p, posted' = [posted EXCEPT ![handler[r].msg][g] = p]
              PROVE  posted'[m][h] = posted[m][h]
          <5>1. posted \in [Message -> [Hook -> [n : Nat, ok : BOOLEAN]]]
            BY DEF TypeOK
          <5>2. QED
            BY <2>5, <4>2, <5>1
        <4>3. QED
          BY <4>1, <4>2
      <3>3. QED
        BY <2>3, <3>1, <3>2, NothingSpent DEF Kept
    <2>6. QED
      BY <2>4, <2>5
  <1>8. CASE Deliver \/ Redeliver
    BY <1>4, <1>8 DEF Deliver, Redeliver
  <1>9. CASE \E r \in Handler : HandlerStep(r) \/ lose_handler(r)
    BY <1>5, <1>6, <1>7, <1>9 DEF HandlerStep
  <1>10. QED
    BY <1>3, <1>8, <1>9 DEF Next

\* An endpoint is called at most MAX_ATTEMPTS times for the first delivery of a
\* message and for each crash, lost ack or expired ack_wait.
THEOREM PostsAreBounded == Spec => []PostsBounded
  <1>1. Init => PostInv
    <2> SUFFICES ASSUME Init
                 PROVE  PostInv
      OBVIOUS
    <2>1. TypeOK
      BY WebhookInit
    <2>2. TasksBounded
      BY DEF Init, TasksBounded, NoTasks, IdleTask
    <2>3. ASSUME NEW m \in Message, NEW h \in Hook
          PROVE  WithinBudget(m, h)
      <3>1. posted[m][h].n = 0 /\ faults = 0
        BY DEF Init
      <3>2. Left(handler, task, m, h) = {}
        BY DEF Init, Left, IdleHandler
      <3>3. Cardinality(Left(handler, task, m, h)) = 0
        BY <3>2, FS_EmptySet
      <3>4. Unstarted(m) \in {0, 3}
        BY DEF Unstarted, MAX_ATTEMPTS
      <3>5. QED
        BY <3>1, <3>3, <3>4 DEF WithinBudget, MAX_ATTEMPTS
    <2>4. QED
      BY <2>2, <2>3 DEF PostInv
  <1>2. TypeOK /\ TypeOK' /\ PostInv /\ [Next]_vars => PostInv'
    <2> SUFFICES ASSUME TypeOK, TypeOK', PostInv, [Next]_vars
                 PROVE  PostInv'
      OBVIOUS
    <2>1. TasksBounded'
      BY TasksBoundedStep DEF PostInv
    <2>2. \A m \in Message, h \in Hook : WithinBudget(m, h)'
      BY BudgetStep DEF PostInv
    <2>3. QED
      BY <2>1, <2>2 DEF PostInv
  <1>3. TypeOK /\ PostInv => PostsBounded
    <2> SUFFICES ASSUME TypeOK, PostInv, NEW m \in Message, NEW h \in Hook
                 PROVE  posted[m][h].n <= MAX_ATTEMPTS * (1 + faults)
      BY DEF PostsBounded
    <2>1. posted[m][h].n \in Nat
      BY DEF TypeOK
    <2>2. Cardinality(Left(handler, task, m, h)) \in Nat
      BY LeftFinite
    <2>3. Unstarted(m) \in {0, 3}
      BY DEF Unstarted, MAX_ATTEMPTS
    <2>4. posted[m][h].n + Cardinality(Left(handler, task, m, h)) + Unstarted(m) <= 3 * (1 + faults)
      BY DEF PostInv, WithinBudget, MAX_ATTEMPTS
    <2>5. 3 * (1 + faults) \in Nat
      BY Triples DEF TypeOK
    <2>6. QED
      BY <2>1, <2>2, <2>3, <2>4, <2>5 DEF MAX_ATTEMPTS
  <1>4. QED
    BY <1>1, <1>2, <1>3, WebhookTypeCorrect, PTL DEF Spec

=============================================================================
