-------------------------- MODULE WebhookDelivery ---------------------------
(***************************************************************************)
(* WebhookWorker and WebhookService: every file event of the stream is     *)
(* posted to the webhooks of its project, with at most _MAX_ATTEMPTS       *)
(* attempts per handler, a webhook_deliveries row per attempt, and an ack  *)
(* of the message once every webhook's task has ended.                     *)
(*                                                                         *)
(* The handler keeps the webhooks it listed while its tasks sleep between  *)
(* attempts; administrators change the table meanwhile, and JetStream      *)
(* delivers a message again when ack_wait (30 s, the default) runs out,    *)
(* which the first retry delay alone takes.                                *)
(***************************************************************************)
EXTENDS Naturals, Sequences, FiniteSets

CONSTANTS Message,     \* messages of the stream
          Type,        \* event types
          TypeOf,      \* the event type of each message
          Hook,        \* webhook ids
          Handler,     \* slots for concurrent _handle tasks
          Unreliable,  \* TRUE when the transaction that records an attempt can fail
          MaxAdmin,    \* bound on the changes administrators make
          MaxFaults    \* bound on crashes, lost acks and redeliveries

ASSUME WebhookAssumption ==
  /\ Message # {}
  /\ TypeOf \in [Message -> Type]
  /\ IsFiniteSet(Handler)
  /\ Unreliable \in BOOLEAN
  /\ MaxAdmin \in Nat
  /\ MaxFaults \in Nat

VARIABLES hook,     \* the webhooks table
          stored,   \* messages JetStream has stored
          acked,    \* messages acked by "webhook-workers"
          steady,   \* history: the webhooks that every listing since the message
                    \* was stored would have returned
          handler,  \* the _handle tasks
          task,     \* the _deliver_with_retry tasks of each handler
          rows,     \* webhook_deliveries, per message and webhook
          posted,   \* what each endpoint has seen of a message
          admin, faults

vars == <<hook, stored, acked, steady, handler, task, rows, posted, admin, faults>>

MAX_ATTEMPTS == 3

NoHook == [exists |-> FALSE, active |-> FALSE, events |-> {}]
IdleTask == [pc |-> "none", attempt |-> 0, status |-> "pending"]
IdleHandler == [pc |-> "idle", msg |-> CHOOSE m \in Message : TRUE]
NoTasks == [h \in Hook |-> IdleTask]

\* _event_matches: no list of events means all of them.
event_matches(events, t) == events = {} \/ t \in events

\* list_active_for_project, filtered by _event_matches.
Listed(m) == {h \in Hook : /\ hook[h].exists /\ hook[h].active
                           /\ event_matches(hook[h].events, TypeOf[m])}

(***************************************************************************)
(* WebhookService                                                          *)
(***************************************************************************)

\* An administrator's commit.  `steady` follows the table.
Administer(h, new) ==
  /\ admin < MaxAdmin
  /\ admin' = admin + 1
  /\ hook' = [hook EXCEPT ![h] = new]
  /\ steady' = [m \in Message |->
       IF new.exists /\ new.active /\ event_matches(new.events, TypeOf[m])
       THEN steady[m] ELSE steady[m] \ {h}]
  /\ UNCHANGED <<stored, acked, handler, task, rows, posted, faults>>

create(h) ==
  /\ ~hook[h].exists
  /\ \E a \in BOOLEAN, ev \in SUBSET Type :
       Administer(h, [exists |-> TRUE, active |-> a, events |-> ev])

update(h) ==
  /\ hook[h].exists
  /\ \E a \in BOOLEAN, ev \in SUBSET Type :
       /\ hook[h].active # a \/ hook[h].events # ev
       /\ Administer(h, [exists |-> TRUE, active |-> a, events |-> ev])

delete(h) == hook[h].exists /\ Administer(h, NoHook)

(***************************************************************************)
(* JetStream                                                               *)
(***************************************************************************)

\* The outbox relay stores an event.
store(m) ==
  /\ m \notin stored
  /\ stored' = stored \cup {m}
  /\ steady' = [steady EXCEPT ![m] = Listed(m)]
  /\ UNCHANGED <<hook, acked, handler, task, rows, posted, admin, faults>>

Held(m) == \E r \in Handler : handler[r].pc # "idle" /\ handler[r].msg = m

\* _on_message creates a task for the pushed message.
StartHandler(r, m) ==
  /\ handler[r].pc = "idle"
  /\ m \in stored \ acked
  /\ handler' = [handler EXCEPT ![r] = [pc |-> "start", msg |-> m]]
  /\ UNCHANGED <<hook, stored, acked, steady, task, rows, posted, admin>>

\* A message that no task works on: its first delivery, or one after a crash.
deliver(r, m) == ~Held(m) /\ StartHandler(r, m) /\ UNCHANGED faults

\* ack_wait ran out while a task still retries.
redeliver(r, m) ==
  /\ Held(m) /\ StartHandler(r, m)
  /\ faults < MaxFaults
  /\ faults' = faults + 1

(***************************************************************************)
(* WebhookWorker                                                           *)
(***************************************************************************)

\* Mutant: no matching webhook ends the handler without an ack.
BugListActive(r) ==
  /\ handler[r].pc = "start"
  /\ handler' = [handler EXCEPT ![r] = IF Listed(@.msg) = {} THEN IdleHandler
                                       ELSE [@ EXCEPT !.pc = "gather"]]
  /\ task' = [task EXCEPT ![r] = [h \in Hook |->
       IF h \in Listed(handler[r].msg)
       THEN [pc |-> "post", attempt |-> 1, status |-> "pending"] ELSE IdleTask]]
  /\ UNCHANGED <<hook, stored, acked, steady, rows, posted, admin, faults>>

\* _handle lists the webhooks and starts a task for each; none is acked at once.
list_active(r) ==
  /\ handler[r].pc = "start"
  /\ handler' = [handler EXCEPT ![r].pc = "gather"]
  /\ task' = [task EXCEPT ![r] = [h \in Hook |->
       IF h \in Listed(handler[r].msg)
       THEN [pc |-> "post", attempt |-> 1, status |-> "pending"] ELSE IdleTask]]
  /\ UNCHANGED <<hook, stored, acked, steady, rows, posted, admin, faults>>

\* One POST and the endpoint's answer; an exception counts as a failure.
post(r, h, ok) ==
  LET m == handler[r].msg IN
  /\ task[r][h].pc = "post"
  /\ task' = [task EXCEPT ![r][h].pc = "record",
                          ![r][h].status = IF ok THEN "success" ELSE "failed"]
  /\ posted' = [posted EXCEPT ![m][h] = [n |-> @.n + 1, ok |-> @.ok \/ ok]]
  /\ UNCHANGED <<hook, stored, acked, steady, handler, rows, admin, faults>>

\* Mutant: the comparison that lets a fourth attempt happen.
BugAfterAttempt(t) == IF t.status = "success" \/ t.attempt > MAX_ATTEMPTS THEN "done" ELSE "sleep"

\* What the loop does after an attempt was recorded.
AfterAttempt(t) == IF t.status = "success" \/ t.attempt >= MAX_ATTEMPTS THEN "done" ELSE "sleep"

\* create_delivery and its commit.
record(r, h) ==
  LET m == handler[r].msg
      t == task[r][h]
  IN
  /\ t.pc = "record"
  /\ rows' = [rows EXCEPT ![m][h] =
                Append(@, [attempt |-> t.attempt, status |-> t.status])]
  /\ task' = [task EXCEPT ![r][h].pc = AfterAttempt(t)]
  /\ UNCHANGED <<hook, stored, acked, steady, handler, posted, admin, faults>>

\* The transaction of create_delivery fails: the task ends with an exception
\* that gather(return_exceptions=True) drops.
record_error(r, h) ==
  /\ Unreliable
  /\ task[r][h].pc = "record"
  /\ task' = [task EXCEPT ![r][h].pc = "done"]
  /\ UNCHANGED <<hook, stored, acked, steady, handler, rows, posted, admin, faults>>

\* Mutant: the attempt is counted at the sleep and at the loop.
BugWake(r, h) ==
  /\ task[r][h].pc = "sleep"
  /\ task' = [task EXCEPT ![r][h].pc = "post", ![r][h].attempt = @ + 2]
  /\ UNCHANGED <<hook, stored, acked, steady, handler, rows, posted, admin, faults>>

\* The retry delay has passed.
wake(r, h) ==
  /\ task[r][h].pc = "sleep"
  /\ task' = [task EXCEPT ![r][h].pc = "post", ![r][h].attempt = @ + 1]
  /\ UNCHANGED <<hook, stored, acked, steady, handler, rows, posted, admin, faults>>

\* The handler and its tasks are gone.
EndHandler(r) ==
  /\ handler' = [handler EXCEPT ![r] = IdleHandler]
  /\ task' = [task EXCEPT ![r] = NoTasks]

\* Mutant: the ack does not wait for the tasks.
BugAck(r) ==
  /\ handler[r].pc = "gather"
  /\ acked' = acked \cup {handler[r].msg}
  /\ EndHandler(r)
  /\ UNCHANGED <<hook, stored, steady, rows, posted, admin, faults>>

\* Every task has ended (or there was none): the message is acked.
ack(r) ==
  /\ handler[r].pc = "gather"
  /\ \A h \in Hook : task[r][h].pc \in {"none", "done"}
  /\ acked' = acked \cup {handler[r].msg}
  /\ EndHandler(r)
  /\ UNCHANGED <<hook, stored, steady, rows, posted, admin, faults>>

\* The worker stops without waiting for handlers, crashes, or listing or acking
\* raises (then nak): JetStream keeps the message.
lose_handler(r) ==
  /\ handler[r].pc # "idle"
  /\ faults < MaxFaults
  /\ faults' = faults + 1
  /\ EndHandler(r)
  /\ UNCHANGED <<hook, stored, acked, steady, rows, posted, admin>>

-----------------------------------------------------------------------------

Init ==
  /\ hook = [h \in Hook |-> NoHook]
  /\ stored = {}
  /\ acked = {}
  /\ steady = [m \in Message |-> {}]
  /\ handler = [r \in Handler |-> IdleHandler]
  /\ task = [r \in Handler |-> NoTasks]
  /\ rows = [m \in Message |-> [h \in Hook |-> <<>>]]
  /\ posted = [m \in Message |-> [h \in Hook |-> [n |-> 0, ok |-> FALSE]]]
  /\ admin = 0
  /\ faults = 0

Admin == \E h \in Hook : create(h) \/ update(h) \/ delete(h)
Store == \E m \in Message : store(m)
Deliver == \E r \in Handler, m \in Message : deliver(r, m)
Redeliver == \E r \in Handler, m \in Message : redeliver(r, m)

TaskStep(r, h) ==
  \/ \E ok \in BOOLEAN : post(r, h, ok)
  \/ record(r, h)
  \/ record_error(r, h)
  \/ wake(r, h)

HandlerStep(r) == list_active(r) \/ ack(r) \/ \E h \in Hook : TaskStep(r, h)

Next ==
  \/ Admin
  \/ Store
  \/ Deliver
  \/ Redeliver
  \/ \E r \in Handler : HandlerStep(r) \/ lose_handler(r)

Spec == Init /\ [][Next]_vars

\* JetStream redelivers what is not acked, and the event loop runs every task
\* that can continue (sleeps and requests have time limits).
FairSpec ==
  /\ Spec
  /\ WF_vars(Deliver)
  /\ \A r \in Handler : WF_vars(HandlerStep(r))

-----------------------------------------------------------------------------
(***************************************************************************)
(* Properties                                                              *)
(***************************************************************************)

HookType == [exists : BOOLEAN, active : BOOLEAN, events : SUBSET Type]
TaskType == [pc : {"none", "post", "record", "sleep", "done"},
             attempt : Nat, status : {"pending", "success", "failed"}]
RowType == [attempt : Nat, status : {"success", "failed"}]

\* Every variable has its type; a handler at work holds a stored message, and
\* only a handler that gathers has tasks.
TypeOK ==
  /\ hook \in [Hook -> HookType]
  /\ stored \subseteq Message
  /\ acked \subseteq stored
  /\ steady \in [Message -> SUBSET Hook]
  /\ handler \in [Handler -> [pc : {"idle", "start", "gather"}, msg : Message]]
  /\ \A r \in Handler : handler[r].pc # "idle" => handler[r].msg \in stored
  /\ task \in [Handler -> [Hook -> TaskType]]
  /\ \A r \in Handler, h \in Hook : task[r][h].pc # "none" => handler[r].pc = "gather"
  /\ \A r \in Handler, h \in Hook : task[r][h].pc = "record" => task[r][h].status # "pending"
  /\ rows \in [Message -> [Hook -> Seq(RowType)]]
  /\ posted \in [Message -> [Hook -> [n : Nat, ok : BOOLEAN]]]
  /\ admin \in Nat
  /\ faults \in Nat

\* The endpoint accepted the event, or was tried as often as it should be, or the
\* row of one of its attempts is missing: record_error gave the webhook up.
Settled(m, h) ==
  \/ posted[m][h].ok
  \/ posted[m][h].n >= MAX_ATTEMPTS
  \/ Unreliable /\ posted[m][h].n > Len(rows[m][h])

\* No subscriber is passed over: when a message is acked, a webhook that was
\* active and subscribed to its type from the moment it was stored has accepted
\* it or failed three times, whatever handlers crashed, ran twice or slept while
\* other webhooks changed.  When recording an attempt can fail, a webhook may also
\* be given up after a POST that left no row, and never before one.
AckedSettled == \A m \in acked : \A h \in steady[m] : Settled(m, h)

\* "Retries produce additional rows with incrementing attempt_count": even when
\* the rows of two handlers of a message interleave, attempt k > 1 comes after a
\* recorded failure of attempt k - 1.
AttemptsGapFree ==
  \A m \in Message, h \in Hook : \A i \in DOMAIN rows[m][h] :
    rows[m][h][i].attempt > 1 =>
      \E j \in 1..(i - 1) : rows[m][h][j] = [attempt |-> rows[m][h][i].attempt - 1,
                                             status |-> "failed"]

\* An endpoint is called at most three times per delivery of the message: once,
\* and once more for every crash, lost ack or expired ack_wait.
PostsBounded ==
  \A m \in Message, h \in Hook : posted[m][h].n <= MAX_ATTEMPTS * (1 + faults)

\* Every stored message is acked in the end, although handlers crash, messages
\* are delivered twice and endpoints fail.
EveryMessageAcked == \A m \in Message : m \in stored ~> m \in acked

\* The worker's module docstring: after three failures no further retries occur.
AtMostThreePosts == \A m \in Message, h \in Hook : posted[m][h].n <= MAX_ATTEMPTS

=============================================================================
