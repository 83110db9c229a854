----------------------------- MODULE EventRelay -----------------------------
(***************************************************************************)
(* What the transactional outbox promises, without tables, batches or      *)
(* workers: an event whose transaction commits reaches the stream, at      *)
(* least once; an event whose transaction does not commit never does.      *)
(***************************************************************************)

CONSTANT Event

VARIABLES committed,  \* events whose transaction has committed
          delivered   \* events the stream has stored at least once

relayVars == <<committed, delivered>>

Init == committed = {} /\ delivered = {}

Commit(e) ==
  /\ e \notin committed
  /\ committed' = committed \cup {e}
  /\ UNCHANGED delivered

Deliver(e) ==
  /\ e \in committed \ delivered
  /\ delivered' = delivered \cup {e}
  /\ UNCHANGED committed

Next == \E e \in Event : Commit(e) \/ Deliver(e)

SafeSpec == Init /\ [][Next]_relayVars

Spec == SafeSpec /\ \A e \in Event : WF_relayVars(Deliver(e))

=============================================================================
