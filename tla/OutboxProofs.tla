---------------------------- MODULE OutboxProofs ----------------------------
(***************************************************************************)
(* Proofs about the transactional outbox, for every number of events,      *)
(* replicas and faults, and every batch size.                              *)
(***************************************************************************)
EXTENDS Outbox, FiniteSetTheorems, TLAPS

\* Appending to the stream stores one more event.
LEMMA AppendStored ==
  ASSUME stream \in Seq(Event), NEW e \in Event, stream' = Append(stream, e)
  PROVE  /\ stream' \in Seq(Event)
         /\ Stored' = Stored \cup {e}
         /\ DOMAIN stream' = DOMAIN stream \cup {Len(stream) + 1}
         /\ Len(stream) + 1 \notin DOMAIN stream
         /\ stream'[Len(stream) + 1] = e
         /\ \A i \in DOMAIN stream : stream'[i] = stream[i]
  <1>1. /\ stream' \in Seq(Event)
        /\ DOMAIN stream' = DOMAIN stream \cup {Len(stream) + 1}
        /\ Len(stream) + 1 \notin DOMAIN stream
        /\ stream'[Len(stream) + 1] = e
        /\ \A i \in DOMAIN stream : stream'[i] = stream[i]
    OBVIOUS
  <1>2. QED
    BY <1>1 DEF Stored

\* A row is sent by a worker that has locked it and has not sent it yet.
LEMMA NextRowLocked ==
  ASSUME TypeOK, NEW w \in Worker, NEW e \in NextRow(w)
  PROVE  e \in batch[w] /\ e \notin sent[w] /\ e \in committed /\ e \in Event
  BY DEF TypeOK, NextRow

\* Every step keeps the type invariant.
LEMMA TypeStep ==
  ASSUME TypeOK, [Next]_vars
  PROVE  TypeOK'
  <1> USE OutboxAssumption DEF TypeOK
  <1>1. ASSUME NEW e \in Event, publish(e)
        PROVE  TypeOK'
    <2>1. Cardinality({d \in Event : created[d] # 0}) \in Nat
      BY FS_Subset, FS_CardinalityType
    <2>2. QED
      BY <1>1, <2>1 DEF publish
  <1>2. ASSUME NEW e \in Event, commit_event(e)
        PROVE  TypeOK'
    BY <1>2 DEF commit_event
  <1>3. ASSUME NEW w \in Worker, poll(w)
        PROVE  TypeOK'
    BY <1>3 DEF poll, Oldest, Pollable
  <1>4. ASSUME NEW w \in Worker, publish_row(w)
        PROVE  TypeOK'
    BY <1>4, NextRowLocked, AppendStored DEF publish_row
  <1>5. ASSUME NEW w \in Worker, commit(w)
        PROVE  TypeOK'
    BY <1>5 DEF commit, Release
  <1>6. ASSUME NEW w \in Worker, roll_back(w)
        PROVE  TypeOK'
    BY <1>6 DEF roll_back, Release
  <1>7. ASSUME NEW w \in Worker, publish_timeout(w)
        PROVE  TypeOK'
    BY <1>7, NextRowLocked, AppendStored DEF publish_timeout, Release
  <1>8. CASE UNCHANGED vars
    BY <1>8 DEF vars
  <1>9. QED
    BY <1>1, <1>2, <1>3, <1>4, <1>5, <1>6, <1>7, <1>8 DEF Next, Producer, Cycle

\* The type invariant holds initially.
LEMMA TypeInit == Init => TypeOK
  BY OutboxAssumption DEF Init, TypeOK

\* Type correctness: locked and published rows are committed rows.
THEOREM OutboxTypeCorrect == Spec => []TypeOK
  <1>1. TypeOK /\ [Next]_vars => TypeOK'
    BY TypeStep
  <1>2. QED
    BY <1>1, TypeInit, PTL DEF Spec

(***************************************************************************)
(* A row is marked only after it was stored.  The inductive invariant adds *)
(* that what a worker has sent in its open transaction is stored.          *)
(***************************************************************************)

SentStored == \A w \in Worker : sent[w] \subseteq Stored

StoreInv == MarkedStored /\ SentStored

\* The store invariant is inductive, relative to the type invariant.
LEMMA StoreStep ==
  ASSUME TypeOK, StoreInv, [Next]_vars
  PROVE  StoreInv'
  <1> USE DEF StoreInv, MarkedStored, SentStored
  <1>1. CASE Producer \/ UNCHANGED vars
    BY <1>1 DEF Producer, publish, commit_event, vars, Stored
  <1>2. ASSUME NEW w \in Worker, poll(w)
        PROVE  StoreInv'
    BY <1>2 DEF poll, Stored
  <1>3. ASSUME NEW w \in Worker, publish_row(w)
        PROVE  StoreInv'
    <2>1. PICK e \in NextRow(w) : /\ stream' = Append(stream, e)
                                  /\ sent' = [sent EXCEPT ![w] = @ \cup {e}]
      BY <1>3 DEF publish_row
    <2>2. Stored' = Stored \cup {e}
      BY <2>1, NextRowLocked, AppendStored DEF TypeOK
    <2>3. QED
      BY <1>3, <2>1, <2>2 DEF publish_row, TypeOK
  <1>4. ASSUME NEW w \in Worker, commit(w)
        PROVE  StoreInv'
    BY <1>4 DEF commit, Release, TypeOK, Stored
  <1>5. ASSUME NEW w \in Worker, roll_back(w)
        PROVE  StoreInv'
    BY <1>5 DEF roll_back, Release, TypeOK, Stored
  <1>6. ASSUME NEW w \in Worker, publish_timeout(w)
        PROVE  StoreInv'
    <2>1. PICK e \in NextRow(w) : stream' = Append(stream, e)
      BY <1>6 DEF publish_timeout
    <2>2. Stored' = Stored \cup {e}
      BY <2>1, NextRowLocked, AppendStored DEF TypeOK
    <2>3. QED
      BY <1>6, <2>2 DEF publish_timeout, Release, TypeOK
  <1>7. QED
    BY <1>1, <1>2, <1>3, <1>4, <1>5, <1>6 DEF Next, Cycle, TypeOK

\* At-least-once, the safety half: published_at is never set on an event that
\* JetStream has not stored, however publishes, commits and workers fail.
THEOREM MarkedRowsAreStored == Spec => []MarkedStored
  <1>1. Init => StoreInv
    BY DEF Init, StoreInv, MarkedStored, SentStored
  <1>2. TypeOK /\ StoreInv /\ [Next]_vars => StoreInv'
    BY StoreStep
  <1>3. StoreInv => MarkedStored
    BY DEF StoreInv
  <1>4. QED
    BY <1>1, <1>2, <1>3, OutboxTypeCorrect, PTL DEF Spec

(***************************************************************************)
(* No event is stored twice while nothing fails.  The inductive invariant: *)
(* batches are disjoint from each other and from the published rows, and   *)
(* what is stored was published or sent by a worker that holds its lock.   *)
(***************************************************************************)

LocksApart ==
  /\ \A v, w \in Worker : v # w => batch[v] \cap batch[w] = {}
  /\ \A w \in Worker : batch[w] \cap published = {}

StoredOnce ==
  faults = 0 =>
    /\ \A i, j \in DOMAIN stream : stream[i] = stream[j] => i = j
    /\ \A e \in Stored : e \in published \/ \E w \in Worker : e \in sent[w]

LockInv == LocksApart /\ StoredOnce

\* The lock invariant is inductive, relative to the type invariant.
LEMMA LockStep ==
  ASSUME TypeOK, LockInv, [Next]_vars
  PROVE  LockInv'
  <1> USE DEF LockInv, LocksApart, StoredOnce
  <1>1. CASE Producer \/ UNCHANGED vars
    BY <1>1 DEF Producer, publish, commit_event, vars, Stored
  <1>2. ASSUME NEW w \in Worker, poll(w)
        PROVE  LockInv'
    <2>1. LocksApart'
      BY <1>2 DEF poll, Oldest, Pollable, TypeOK
    <2>2. QED
      BY <1>2, <2>1 DEF poll, Stored
  <1>3. ASSUME NEW w \in Worker, publish_row(w)
        PROVE  LockInv'
    <2>1. PICK e \in NextRow(w) : /\ stream' = Append(stream, e)
                                  /\ sent' = [sent EXCEPT ![w] = @ \cup {e}]
      BY <1>3 DEF publish_row
    <2>2. e \in batch[w] /\ e \notin sent[w] /\ e \in Event
      BY NextRowLocked
    <2>3. e \notin published /\ \A v \in Worker : e \notin sent[v]
      BY <2>2 DEF TypeOK
    <2>4. faults = 0 => e \notin Stored
      BY <2>3
    <2>5. /\ Stored' = Stored \cup {e}
          /\ DOMAIN stream' = DOMAIN stream \cup {Len(stream) + 1}
          /\ stream'[Len(stream) + 1] = e
          /\ \A i \in DOMAIN stream : stream'[i] = stream[i]
      BY <2>1, <2>2, AppendStored DEF TypeOK
    <2>6. faults = 0 => \A i \in DOMAIN stream : stream[i] # e
      BY <2>4 DEF Stored
    <2>7. UNCHANGED <<published, batch, faults>>
      BY <1>3 DEF publish_row
    <2>8. \A v \in Worker : sent[v] \subseteq sent'[v]
      BY <2>1 DEF TypeOK
    <2>9. e \in sent'[w]
      BY <2>1 DEF TypeOK
    <2>10. LocksApart'
      BY <2>7
    <2>11. StoredOnce'
      BY <2>5, <2>6, <2>7, <2>8, <2>9
    <2>12. QED
      BY <2>10, <2>11
  <1>4. ASSUME NEW w \in Worker, commit(w)
        PROVE  LockInv'
    <2>1. LocksApart'
      BY <1>4 DEF commit, Release, TypeOK
    <2>2. StoredOnce'
      BY <1>4 DEF commit, Release, TypeOK, Stored
    <2>3. QED
      BY <2>1, <2>2
  <1>5. ASSUME NEW w \in Worker, roll_back(w) \/ publish_timeout(w)
        PROVE  LockInv'
    <2>1. faults' # 0
      BY <1>5 DEF roll_back, publish_timeout, TypeOK
    <2>2. published' = published /\ batch' = [batch EXCEPT ![w] = {}]
      BY <1>5 DEF roll_back, publish_timeout, Release
    <2>3. \A v \in Worker : batch'[v] \subseteq batch[v]
      BY <2>2 DEF TypeOK
    <2>4. LocksApart'
      BY <2>2, <2>3
    <2>5. QED
      BY <2>1, <2>4
  <1>6. QED
    BY <1>1, <1>2, <1>3, <1>4, <1>5 DEF Next, Cycle, TypeOK

\* FOR UPDATE SKIP LOCKED keeps any number of replicas from storing an event
\* twice as long as no publish fails and no worker crashes.
THEOREM NoDuplicateWithoutFault == Spec => []NoDuplicates
  <1>1. Init => LockInv
    BY DEF Init, LockInv, LocksApart, StoredOnce, Stored
  <1>2. TypeOK /\ LockInv /\ [Next]_vars => LockInv'
    BY LockStep
  <1>3. LockInv => NoDuplicates
    BY DEF LockInv, StoredOnce, NoDuplicates
  <1>4. QED
    BY <1>1, <1>2, <1>3, OutboxTypeCorrect, PTL DEF Spec

(***************************************************************************)
(* One replica stores events in causal order.  The inductive invariant:    *)
(* an event that a row has seen is older than the row, and a batch holds,  *)
(* with a row, every unpublished event that the row has seen.              *)
(***************************************************************************)

Flushed == {e \in Event : created[e] # 0}

\* created_at grows from row to row, and only flushed rows are committed.
ClockAhead ==
  /\ \A e \in Event : created[e] <= Cardinality(Flushed)
  /\ committed \subseteq Flushed
  /\ Stored \subseteq committed

SeenOlder == \A e \in Event : \A d \in seen[e] : d \in committed /\ Older(d, e)

OneReplica == \E w \in Worker : replicas = {w}

BatchClosed ==
  /\ \A w \in Worker \ replicas : batch[w] = {}
  /\ OneReplica =>
       \A w \in replicas : \A e \in batch[w] : \A d \in seen[e] : d \in batch[w] \cup published

CausalInv == ClockAhead /\ SeenOlder /\ BatchClosed /\ CausalOrder

\* What publishing a row of the loop does to the stream keeps the causal order.
LEMMA CausalAppend ==
  ASSUME TypeOK, StoreInv, CausalInv, NEW w \in replicas, NEW e \in NextRow(w),
         stream' = Append(stream, e), seen' = seen, replicas' = replicas
  PROVE  CausalOrder' /\ Stored' = Stored \cup {e}
  <1>1. /\ e \in batch[w] /\ e \in Event /\ w \in Worker
        /\ \A d \in batch[w] \ sent[w] : d = e \/ Older(e, d)
    BY NextRowLocked DEF TypeOK, NextRow
  <1>2. /\ Stored' = Stored \cup {e}
        /\ DOMAIN stream' = DOMAIN stream \cup {Len(stream) + 1}
        /\ stream'[Len(stream) + 1] = e
        /\ \A i \in DOMAIN stream : stream'[i] = stream[i]
    BY <1>1, AppendStored DEF TypeOK
  <1>3. SUFFICES ASSUME OneReplica, NEW i \in DOMAIN stream', NEW d \in seen[stream'[i]]
                 PROVE  \E j \in 1..(i - 1) : stream'[j] = d
    BY <1>2 DEF CausalOrder, OneReplica
  <1>4. CASE i \in DOMAIN stream
    <2>1. PICK j \in 1..(i - 1) : stream[j] = d
      BY <1>2, <1>3, <1>4 DEF CausalInv, CausalOrder, OneReplica
    <2>2. j \in DOMAIN stream
      BY <1>4 DEF TypeOK
    <2>3. QED
      BY <1>2, <2>1, <2>2
  <1>5. CASE i = Len(stream) + 1
    <2>1. d \in seen[e] /\ seen[e] \subseteq Event
      BY <1>1, <1>2, <1>3, <1>5 DEF TypeOK
    <2>2. d \in batch[w] \cup published /\ Older(d, e)
      BY <1>1, <1>3, <2>1 DEF CausalInv, BatchClosed, SeenOlder
    <2>3. d # e /\ ~ Older(e, d)
      BY <1>1, <2>1, <2>2 DEF Older, TypeOK
    <2>4. d \in Stored
      BY <1>1, <2>2, <2>3 DEF StoreInv, MarkedStored, SentStored
    <2>5. PICK j \in DOMAIN stream : stream[j] = d
      BY <2>4 DEF Stored
    <2>6. j \in 1..(i - 1)
      BY <1>5 DEF TypeOK
    <2>7. QED
      BY <1>2, <2>5, <2>6
  <1>6. QED
    BY <1>2, <1>4, <1>5

\* The causal invariant is inductive, relative to the type and store invariants.
LEMMA CausalStep ==
  ASSUME TypeOK, StoreInv, CausalInv, [Next]_vars
  PROVE  CausalInv'
  <1> USE DEF CausalInv, ClockAhead, SeenOlder, BatchClosed
  <1>1. ASSUME NEW e \in Event, publish(e)
        PROVE  CausalInv'
    <2>1. /\ created[e] = 0
          /\ created' = [created EXCEPT ![e] = Cardinality(Flushed) + 1]
          /\ seen' = [seen EXCEPT ![e] = committed]
          /\ UNCHANGED <<replicas, committed, published, stream, batch>>
      BY <1>1 DEF publish, Flushed
    <2>2. IsFiniteSet(Flushed) /\ Cardinality(Flushed) \in Nat
      BY OutboxAssumption, FS_Subset, FS_CardinalityType DEF Flushed
    <2>3. Flushed' = Flushed \cup {e} /\ e \notin Flushed
      <3>1. \A d \in Event : created'[d] # 0 <=> d = e \/ created[d] # 0
        BY <2>1, <2>2 DEF TypeOK
      <3>2. QED
        BY <2>1, <3>1 DEF Flushed
    <2>4. Cardinality(Flushed') = Cardinality(Flushed) + 1
      BY <2>2, <2>3, FS_AddElement
    <2>5. e \notin committed /\ e \notin Stored /\ Stored' = Stored
      BY <2>1 DEF Flushed, Stored
    <2>6. ClockAhead'
      BY <2>1, <2>2, <2>3, <2>4, <2>5 DEF TypeOK
    <2>7. SeenOlder'
      BY <2>1, <2>2, <2>5 DEF Older, TypeOK
    <2>8. BatchClosed'
      BY <2>1, <2>5 DEF OneReplica, TypeOK
    <2>9. CausalOrder'
      <3>1. \A i \in DOMAIN stream : stream[i] # e
        BY <2>5 DEF Stored
      <3>2. \A i \in DOMAIN stream : seen'[stream[i]] = seen[stream[i]]
        BY <2>1, <3>1 DEF TypeOK
      <3>3. QED
        BY <2>1, <3>2 DEF CausalOrder
    <2>10. QED
      BY <2>6, <2>7, <2>8, <2>9
  <1>2. ASSUME NEW e \in Event, commit_event(e)
        PROVE  CausalInv'
    BY <1>2 DEF commit_event, Flushed, Older, OneReplica, CausalOrder, Stored, TypeOK
  <1>3. ASSUME NEW w \in replicas, poll(w)
        PROVE  CausalInv'
    <2>1. /\ w \in Worker
          /\ UNCHANGED <<replicas, created, committed, seen, published, stream, sent>>
      BY <1>3 DEF poll, TypeOK
    <2>2. PICK B \in Oldest(Pollable, BatchSize) : batch' = [batch EXCEPT ![w] = B]
      BY <1>3 DEF poll
    <2>3. /\ B \subseteq Pollable
          /\ \A b \in B, e \in Pollable \ B : Older(b, e)
      BY <2>2 DEF Oldest
    <2>4. ASSUME OneReplica, NEW e \in B, NEW d \in seen[e]
          PROVE  d \in B \cup published
      <3>1. e \in Event /\ d \in Event /\ d \in committed /\ Older(d, e)
        BY <2>3, <2>4 DEF Pollable, TypeOK
      <3>2. \A v \in Worker : batch[v] = {}
        BY <1>3, <2>1, <2>4 DEF OneReplica, poll
      <3>3. d \in published \/ d \in Pollable
        BY <3>1, <3>2 DEF Pollable
      <3>4. ~ Older(e, d)
        BY <3>1 DEF Older, TypeOK
      <3>5. QED
        BY <2>3, <2>4, <3>3, <3>4
    <2>5. BatchClosed'
      BY <2>1, <2>2, <2>4 DEF OneReplica, TypeOK
    <2>6. QED
      BY <2>1, <2>5 DEF Flushed, Older, CausalOrder, Stored
  <1>4. ASSUME NEW w \in replicas, publish_row(w)
        PROVE  CausalInv'
    <2>1. /\ w \in Worker
          /\ UNCHANGED <<replicas, created, committed, seen, published, batch>>
      BY <1>4 DEF publish_row, TypeOK
    <2>2. PICK e \in NextRow(w) : stream' = Append(stream, e)
      BY <1>4 DEF publish_row
    <2>3. CausalOrder' /\ Stored' = Stored \cup {e}
      BY <2>1, <2>2, CausalAppend
    <2>4. e \in committed
      BY <2>1, <2>2, NextRowLocked
    <2>5. QED
      BY <2>1, <2>3, <2>4 DEF Flushed, Older, OneReplica
  <1>5. ASSUME NEW w \in replicas, commit(w)
        PROVE  CausalInv'
    <2>1. /\ w \in Worker
          /\ UNCHANGED <<replicas, created, committed, seen, stream>>
          /\ published' = published \cup batch[w]
          /\ batch' = [batch EXCEPT ![w] = {}]
      BY <1>5 DEF commit, Release, TypeOK
    <2>2. BatchClosed'
      BY <2>1 DEF OneReplica, TypeOK
    <2>3. QED
      BY <2>1, <2>2 DEF Flushed, Older, CausalOrder, Stored
  <1>6. ASSUME NEW w \in replicas, roll_back(w)
        PROVE  CausalInv'
    <2>1. /\ w \in Worker
          /\ UNCHANGED <<replicas, created, committed, seen, stream, published>>
          /\ batch' = [batch EXCEPT ![w] = {}]
      BY <1>6 DEF roll_back, Release, TypeOK
    <2>2. BatchClosed'
      BY <2>1 DEF OneReplica, TypeOK
    <2>3. QED
      BY <2>1, <2>2 DEF Flushed, Older, CausalOrder, Stored
  <1>7. ASSUME NEW w \in replicas, publish_timeout(w)
        PROVE  CausalInv'
    <2>1. /\ w \in Worker
          /\ UNCHANGED <<replicas, created, committed, seen, published>>
          /\ batch' = [batch EXCEPT ![w] = {}]
      BY <1>7 DEF publish_timeout, Release, TypeOK
    <2>2. PICK e \in NextRow(w) : stream' = Append(stream, e)
      BY <1>7 DEF publish_timeout
    <2>3. CausalOrder' /\ Stored' = Stored \cup {e}
      BY <2>1, <2>2, CausalAppend
    <2>4. e \in committed
      BY <2>1, <2>2, NextRowLocked
    <2>5. BatchClosed'
      BY <2>1 DEF OneReplica, TypeOK
    <2>6. QED
      BY <2>1, <2>3, <2>4, <2>5 DEF Flushed, Older
  <1>8. CASE UNCHANGED vars
    BY <1>8 DEF vars, Flushed, Older, OneReplica, CausalOrder, Stored
  <1>9. QED
    BY <1>1, <1>2, <1>3, <1>4, <1>5, <1>6, <1>7, <1>8 DEF Next, Producer, Cycle

\* A deployment with one replica stores an event only after every event that was
\* committed when it was created, for every batch size and any number of errors,
\* rollbacks and events sent again.
THEOREM OneReplicaKeepsOrder == Spec => []CausalOrder
  <1>1. ASSUME Init
        PROVE  CausalInv
    <2>1. Flushed = {} /\ Cardinality({}) = 0
      BY <1>1, FS_EmptySet DEF Init, Flushed
    <2>2. ClockAhead
      BY <1>1, <2>1 DEF Init, ClockAhead, Stored
    <2>3. QED
      BY <1>1, <2>2 DEF Init, CausalInv, SeenOlder, BatchClosed, CausalOrder
  <1>2. TypeOK /\ StoreInv /\ CausalInv /\ [Next]_vars => CausalInv'
    BY CausalStep
  <1>3. CausalInv => CausalOrder
    BY DEF CausalInv
  <1>4. Init => StoreInv
    BY DEF Init, StoreInv, MarkedStored, SentStored
  <1>5. TypeOK /\ StoreInv /\ [Next]_vars => StoreInv'
    BY StoreStep
  <1>6. QED
    BY <1>1, <1>2, <1>3, <1>4, <1>5, OutboxTypeCorrect, PTL DEF Spec

(***************************************************************************)
(* Refinement                                                              *)
(***************************************************************************)

\* A step of the outbox commits one event, stores one committed event, or is a
\* stutter of the relay.
LEMMA RelayStep ==
  ASSUME TypeOK, [Next]_vars
  PROVE  [Relay!Next]_(Relay!relayVars)
  <1> USE DEF Relay!relayVars, Relay!Next, Relay!Commit, Relay!Deliver
  <1>1. ASSUME UNCHANGED <<stream, committed>>
        PROVE  [Relay!Next]_(Relay!relayVars)
    BY <1>1 DEF Stored
  <1>2. ASSUME NEW e \in Event, commit_event(e)
        PROVE  [Relay!Next]_(Relay!relayVars)
    BY <1>2 DEF commit_event, Stored
  <1>3. ASSUME NEW w \in Worker, NEW e \in NextRow(w), stream' = Append(stream, e),
               UNCHANGED committed
        PROVE  [Relay!Next]_(Relay!relayVars)
    <2>1. e \in committed /\ e \in Event
      BY <1>3, NextRowLocked
    <2>2. Stored' = Stored \cup {e}
      BY <1>3, <2>1, AppendStored DEF TypeOK
    <2>3. QED
      BY <1>3, <2>1, <2>2
  <1>4. QED
    BY <1>1, <1>2, <1>3
       DEF Next, Producer, Cycle, publish, poll, publish_row, commit, roll_back,
           publish_timeout, vars, TypeOK

\* The outbox implements the safety part of the relay: whatever the batches,
\* locks, rollbacks and timeouts, the stream only ever gains committed events.
THEOREM OutboxImplementsRelay == Spec => Relay!SafeSpec
  <1>1. Init => Relay!Init
    BY DEF Init, Relay!Init, Stored
  <1>2. TypeOK /\ [Next]_vars => [Relay!Next]_(Relay!relayVars)
    BY RelayStep
  <1>3. QED
    BY <1>1, <1>2, OutboxTypeCorrect, PTL DEF Spec, Relay!SafeSpec

=============================================================================
