----------------------------- MODULE GcsCompose -----------------------------
(***************************************************************************)
(* complete_multipart_upload and abort_multipart_upload of the GCS         *)
(* provider.  Each part of an upload is an object of its own; GCS composes *)
(* at most Limit objects in one call, so complete first composes batches   *)
(* into temporary objects.  Every call of the store is a step.             *)
(*                                                                         *)
(* Calls overlap: a client that lost the answer to complete calls it again *)
(* or aborts, and the parts' signed URLs stay valid.                       *)
(***************************************************************************)
EXTENDS Naturals, Sequences, SequencesExt

CONSTANTS Handler,     \* calls in progress at once
          MaxParts,    \* bound: parts of the upload
          Limit,       \* 32 sources in a compose
          Batch,       \* 31 sources in a temporary object
          MaxCalls, MaxPuts

\* What the limits must be: a batch is at least two parts and fits into a compose.
ComposeAssumption ==
  /\ MaxParts \in Nat \ {0} /\ MaxCalls \in Nat /\ MaxPuts \in Nat
  /\ Batch \in Nat /\ Limit \in Nat /\ 2 <= Batch /\ Batch <= Limit

VARIABLES size,     \* parts of the upload
          store,    \* the bucket: the parts that each object is made of
          call,     \* what each call holds
          answered, \* history: the calls of complete that have returned
          widest,   \* history: the most sources of a compose
          calls, puts

vars == <<size, store, call, answered, widest, calls, puts>>

\* Keys: the destination, the parts and the temporary objects.
Dest == <<"dest", 0>>
Part(n) == <<"part", n>>
Temp(n) == <<"temp", n>>
Key == {Dest} \cup {Part(n) : n \in 1..MaxParts} \cup {Temp(n) : n \in 0..MaxParts}

Absent == <<>>
Idle == [op |-> "idle"]
Exists(k) == store[k] # Absent

\* What a compose of the sources makes.
Composed(sources) == FlattenSeq([i \in DOMAIN sources |-> store[sources[i]]])

\* The keys of the parts, in the order of their numbers.
PartKeys == [n \in 1..size |-> Part(n)]

Begin(h, c) ==
  /\ call[h] = Idle
  /\ calls < MaxCalls
  /\ calls' = calls + 1
  /\ call' = [call EXCEPT ![h] = c]
  /\ UNCHANGED <<size, store, answered, widest, puts>>

(***************************************************************************)
(* complete_multipart_upload                                               *)
(***************************************************************************)

complete_multipart_upload(h) == Begin(h, [op |-> "compose", keys |-> PartKeys, temps |-> <<>>])

\* Mutant: the loop ends one source too late.
BugMustBatch(keys) == Len(keys) > Limit + 1

MustBatch(keys) == Len(keys) > Limit

\* The sources of the next compose.
Sources(keys) == IF MustBatch(keys) THEN SubSeq(keys, 1, Batch) ELSE keys

\* Mutant: the temporary object goes behind the parts that are left.
BugRest(keys, temp) == SubSeq(keys, Batch + 1, Len(keys)) \o <<temp>>

\* The sources that are left after a batch.
Rest(keys, temp) == <<temp>> \o SubSeq(keys, Batch + 1, Len(keys))

\* Mutant: the temporary objects are deleted before the parts.
BugCleanup(temps) == temps \o PartKeys

\* The keys that are deleted after the last compose.
Cleanup(temps) == PartKeys \o temps

\* One compose: a batch into a temporary object, or all that is left into the
\* destination.
compose(h) ==
  LET c == call[h]
      sources == Sources(c.keys)
      temp == Temp(Len(c.temps))
      dest == IF MustBatch(c.keys) THEN temp ELSE Dest
  IN /\ c.op = "compose"
     /\ \A i \in DOMAIN sources : Exists(sources[i])
     /\ store' = [store EXCEPT ![dest] = Composed(sources)]
     /\ widest' = IF Len(sources) > widest THEN Len(sources) ELSE widest
     /\ call' = [call EXCEPT ![h] =
                   IF MustBatch(c.keys)
                   THEN [c EXCEPT !.keys = Rest(@, temp), !.temps = Append(@, temp)]
                   ELSE [op |-> "delete", keys |-> Cleanup(c.temps), complete |-> TRUE]]
     /\ UNCHANGED <<size, answered, calls, puts>>

\* A source is gone: the call raises and leaves its temporary objects.
compose_error(h) ==
  /\ call[h].op = "compose"
  /\ \E i \in DOMAIN Sources(call[h].keys) : ~ Exists(Sources(call[h].keys)[i])
  /\ call' = [call EXCEPT ![h] = Idle]
  /\ UNCHANGED <<size, store, answered, widest, calls, puts>>

\* _delete_keys, and the same loop of an abort: one object; it may be gone.
delete_key(h) ==
  /\ call[h].op = "delete" /\ call[h].keys # <<>>
  /\ store' = [store EXCEPT ![Head(call[h].keys)] = Absent]
  /\ call' = [call EXCEPT ![h].keys = Tail(@)]
  /\ UNCHANGED <<size, answered, widest, calls, puts>>

\* All keys are deleted: the call returns.
return(h) ==
  /\ call[h].op = "delete" /\ call[h].keys = <<>>
  /\ call' = [call EXCEPT ![h] = Idle]
  /\ answered' = (answered \/ call[h].complete)
  /\ UNCHANGED <<size, store, widest, calls, puts>>

(***************************************************************************)
(* abort_multipart_upload, and the client's requests                       *)
(***************************************************************************)

\* The parts that exist are listed; the temporary objects are not.
Listed == FlattenSeq([n \in 1..size |-> IF Exists(Part(n)) THEN <<Part(n)>> ELSE <<>>])

abort_multipart_upload(h) ==
  Begin(h, [op |-> "delete", complete |-> FALSE, keys |-> Listed])

\* A PUT of a part, once more, while its URL is valid.
put(n) ==
  /\ puts < MaxPuts
  /\ puts' = puts + 1
  /\ store' = [store EXCEPT ![Part(n)] = <<n>>]
  /\ UNCHANGED <<size, call, answered, widest, calls>>

\* A call fails at any step, or its process stops.
stop(h) ==
  /\ call[h] # Idle
  /\ call' = [call EXCEPT ![h] = Idle]
  /\ UNCHANGED <<size, store, answered, widest, calls, puts>>

-----------------------------------------------------------------------------

\* The client has uploaded every part.
Init ==
  /\ size \in 1..MaxParts
  /\ store = [k \in Key |-> IF k \in {Part(n) : n \in 1..size} THEN <<k[2]>> ELSE Absent]
  /\ call = [h \in Handler |-> Idle]
  /\ answered = FALSE
  /\ widest = 0 /\ calls = 0 /\ puts = 0

Complete(h) == complete_multipart_upload(h) \/ compose(h) \/ compose_error(h)
Delete(h) == abort_multipart_upload(h) \/ delete_key(h) \/ return(h)

Next ==
  \/ \E h \in Handler : Complete(h) \/ Delete(h) \/ stop(h)
  \/ \E n \in 1..size : put(n)

Spec == Init /\ [][Next]_vars

-----------------------------------------------------------------------------
(***************************************************************************)
(* Properties                                                              *)
(***************************************************************************)

\* Every variable has its type, and no compose has more sources than GCS takes.
TypeOK ==
  /\ size \in 1..MaxParts
  /\ store \in [Key -> Seq(1..MaxParts)]
  /\ \A h \in Handler :
       \/ call[h] = Idle
       \/ call[h].op \in {"compose", "delete"} /\ call[h].keys \in Seq(Key)
  /\ answered \in BOOLEAN
  /\ widest \in 0..Limit
  /\ calls \in 0..MaxCalls /\ puts \in 0..MaxPuts

\* Whatever objects other calls delete or write again meanwhile, the object is
\* never anything but all parts in the order of their numbers, and is there
\* once a call of complete has returned.
ObjectIsWhole ==
  /\ Exists(Dest) => store[Dest] = [n \in 1..size |-> n]
  /\ answered => Exists(Dest)

\* When a call of complete has returned, no part and no temporary object of
\* the upload is left, and none comes back, also not from another call of
\* complete that still runs, unless the client PUTs a part again.
NothingIsLeft ==
  answered /\ puts = 0 => \A k \in Key \ {Dest} : ~ Exists(k)

=============================================================================
