------------------------------- MODULE Outbox -------------------------------
(***************************************************************************)
(* The transactional outbox: rows of outbox_messages written in the        *)
(* transaction of a handler, and OutboxWorker replicas that publish them   *)
(* to JetStream in batches under SELECT ... FOR UPDATE SKIP LOCKED.        *)
(*                                                                         *)
(* A worker's cycle is one database transaction: it locks a batch,         *)
(* publishes the rows one by one, oldest first, and commits published_at   *)
(* for all of them.  Any exception, and a crash, rolls the marks back and  *)
(* releases the locks; what JetStream has stored stays stored.             *)
(***************************************************************************)
EXTENDS Naturals, Sequences, FiniteSets

CONSTANTS Event,      \* ids of outbox rows
          Worker,     \* OutboxWorker replicas that a deployment may run
          BatchSize,  \* rows per cycle
          MaxFaults   \* bound on failed publishes, failed commits and crashes

ASSUME OutboxAssumption ==
  /\ IsFiniteSet(Event)
  /\ BatchSize \in Nat \ {0}
  /\ MaxFaults \in Nat

VARIABLES replicas,   \* the workers this deployment runs; no step changes it
          created,    \* created_at of each row, 0 before the row is flushed
          committed,  \* rows whose transaction has committed
          seen,       \* history: the rows committed when a row was created
          published,  \* rows with published_at set
          stream,     \* what JetStream has stored, in order
          batch,      \* the rows each worker has locked in its open transaction
          sent,       \* the rows of the batch that js.publish has acknowledged
          faults

vars == <<replicas, created, committed, seen, published, stream, batch, sent, faults>>

Stored == {stream[i] : i \in DOMAIN stream}

(***************************************************************************)
(* Producers                                                               *)
(***************************************************************************)

\* TransactionalOutboxPublisher.publish: the row is flushed with a timestamp
\* taken from the clock, and is invisible to others until commit_event.
publish(e) ==
  /\ created[e] = 0
  /\ created' = [created EXCEPT ![e] = Cardinality({d \in Event : created[d] # 0}) + 1]
  /\ seen' = [seen EXCEPT ![e] = committed]
  /\ UNCHANGED <<replicas, committed, published, stream, batch, sent, faults>>

\* The caller's transaction commits.  One that rolls back never takes this step.
commit_event(e) ==
  /\ created[e] # 0
  /\ e \notin committed
  /\ committed' = committed \cup {e}
  /\ UNCHANGED <<replicas, created, seen, published, stream, batch, sent, faults>>

(***************************************************************************)
(* OutboxWorker                                                            *)
(***************************************************************************)

\* Mutant: the select without FOR UPDATE.
BugPollable == committed \ published

\* The rows the select may return: committed, unpublished, not locked.
Pollable == {e \in committed \ published : \A w \in Worker : e \notin batch[w]}

Older(d, e) == created[d] < created[e]

\* Mutant: polling with a cursor, only rows newer than the newest published one.
BugOldest(S, n) ==
  {B \in SUBSET S : /\ Cardinality(B) = IF Cardinality(S) < n THEN Cardinality(S) ELSE n
                    /\ \A b \in B : /\ \A e \in S \ B : Older(b, e)
                                    /\ \A p \in published : Older(p, b)}

\* ORDER BY created_at LIMIT n.
Oldest(S, n) ==
  {B \in SUBSET S : /\ Cardinality(B) = IF Cardinality(S) < n THEN Cardinality(S) ELSE n
                    /\ \A b \in B, e \in S \ B : Older(b, e)}

\* The select of _poll_and_publish.  An empty result ends the cycle.
poll(w) ==
  /\ batch[w] = {}
  /\ \E B \in Oldest(Pollable, BatchSize) : B # {} /\ batch' = [batch EXCEPT ![w] = B]
  /\ UNCHANGED <<replicas, created, committed, seen, published, stream, sent, faults>>

\* Mutant: the batch in whatever order the select returns it.
BugNextRow(w) == batch[w] \ sent[w]

\* The next row of the loop over the batch.
NextRow(w) == {e \in batch[w] \ sent[w] : \A d \in batch[w] \ sent[w] : d = e \/ Older(e, d)}

\* js.publish returns: JetStream has stored the message.
publish_row(w) ==
  /\ \E e \in NextRow(w) : /\ stream' = Append(stream, e)
                           /\ sent' = [sent EXCEPT ![w] = @ \cup {e}]
  /\ UNCHANGED <<replicas, created, committed, seen, published, batch, faults>>

\* The cycle's transaction is over: the row locks are gone.
Release(w) ==
  /\ batch' = [batch EXCEPT ![w] = {}]
  /\ sent' = [sent EXCEPT ![w] = {}]

\* The commit of the cycle: published_at for the whole batch.
commit(w) ==
  /\ batch[w] # {} /\ sent[w] = batch[w]
  /\ published' = published \cup batch[w]
  /\ Release(w)
  /\ UNCHANGED <<replicas, created, committed, seen, stream, faults>>

\* js.publish raised before the message was stored, the commit failed, or the
\* process crashed: no row of the batch is marked.
roll_back(w) ==
  /\ batch[w] # {}
  /\ faults < MaxFaults
  /\ faults' = faults + 1
  /\ Release(w)
  /\ UNCHANGED <<replicas, created, committed, seen, published, stream>>

\* js.publish raised although JetStream had stored the message (timeout).
publish_timeout(w) ==
  /\ faults < MaxFaults
  /\ faults' = faults + 1
  /\ \E e \in NextRow(w) : stream' = Append(stream, e)
  /\ Release(w)
  /\ UNCHANGED <<replicas, created, committed, seen, published>>

-----------------------------------------------------------------------------

Init ==
  /\ replicas \in (SUBSET Worker) \ {{}}
  /\ created = [e \in Event |-> 0]
  /\ committed = {}
  /\ seen = [e \in Event |-> {}]
  /\ published = {}
  /\ stream = <<>>
  /\ batch = [w \in Worker |-> {}]
  /\ sent = [w \in Worker |-> {}]
  /\ faults = 0

Producer == \E e \in Event : publish(e) \/ commit_event(e)

\* The steps of a cycle that meets no fault.
Cycle(w) == poll(w) \/ publish_row(w) \/ commit(w)

Next ==
  \/ Producer
  \/ \E w \in replicas : Cycle(w) \/ roll_back(w) \/ publish_timeout(w)

Spec == Init /\ [][Next]_vars

\* _run loops for ever and survives every exception; a replica that crashed is
\* restarted by its supervisor.
FairSpec == Spec /\ \A w \in Worker : WF_vars(w \in replicas /\ Cycle(w))

-----------------------------------------------------------------------------
(***************************************************************************)
(* Properties                                                              *)
(***************************************************************************)

\* Every variable has its type, and a worker has sent only rows it has locked.
TypeOK ==
  /\ replicas \subseteq Worker
  /\ created \in [Event -> Nat]
  /\ committed \subseteq Event
  /\ seen \in [Event -> SUBSET Event]
  /\ published \subseteq committed
  /\ stream \in Seq(Event)
  /\ batch \in [Worker -> SUBSET committed]
  /\ sent \in [Worker -> SUBSET Event]
  /\ \A w \in Worker : sent[w] \subseteq batch[w]
  /\ faults \in Nat

\* An event with published_at set has been stored: whatever fails between the
\* publishes of a batch and its commit, no row is marked that was not sent.
MarkedStored == published \subseteq Stored

\* Replicas that meet no fault store no event twice: SKIP LOCKED keeps their
\* batches apart, and a row leaves the select in the commit that unlocks it.
NoDuplicates ==
  faults = 0 => \A i, j \in DOMAIN stream : stream[i] = stream[j] => i = j

\* With one replica the stream respects causality: an event is stored only after
\* every event that was committed when it was created, although timestamps are
\* taken before commits, batches are cut short by errors, and rows are sent
\* again.  (Two replicas do not give this: each skips what the other has locked.)
CausalOrder ==
  (\E w \in Worker : replicas = {w}) =>
    \A i \in DOMAIN stream : \A d \in seen[stream[i]] :
      \E j \in 1..(i - 1) : stream[j] = d

Relay == INSTANCE EventRelay WITH delivered <- Stored

\* The outbox implements the relay: only committed events are stored, and every
\* committed event is stored eventually.
ImplementsRelay == Relay!Spec

=============================================================================
