----------------------------- MODULE MCConsumers -----------------------------
(***************************************************************************)
(* The two consumers of the stream for TLC: the pipeline (FileLifecycle)   *)
(* and the webhooks (WebhookDelivery), whether each one deals with all it  *)
(* is given.  They share no state, so a behaviour moves one of them.       *)
(***************************************************************************)
EXTENDS FileLifecycle, TLC

CONSTANTS f1, m1, h1, Slot
VARIABLES moves,    \* the consumer that moves
          hook, stored, ackedMessages, steady, handler, task, rows, posted, admin, hookFaults

OneFile == {f1}
NoFiles == {}
ScanOnly == {[scan |-> TRUE, versioning |-> FALSE]}

Webhooks == INSTANCE WebhookDelivery WITH
  Type <- {"file.ready", "file.deleted"}, TypeOf <- [m \in {m1} |-> "file.ready"],
  Message <- {m1}, Hook <- {h1}, Handler <- Slot, MaxAdmin <- 2, MaxFaults <- 1,
  acked <- ackedMessages, faults <- hookFaults

hookVars == <<hook, stored, ackedMessages, steady, handler, task, rows, posted, admin,
              hookFaults>>
allVars == <<moves, vars, hookVars>>

Pipeline(A) == moves = "pipeline" /\ A /\ UNCHANGED <<moves, hookVars>>
Hooks(A) == moves = "webhooks" /\ A /\ UNCHANGED <<moves, vars>>

ConsumersInit == moves \in {"pipeline", "webhooks"} /\ Init /\ Webhooks!Init

ConsumersNext == Pipeline(Next) \/ Hooks(Webhooks!Next)

\* The fairness of FileLifecycle and of WebhookDelivery.
ConsumersSpec ==
  /\ ConsumersInit /\ [][ConsumersNext]_allVars
  /\ WF_allVars(Pipeline(Relay)) /\ WF_allVars(Pipeline(Deliver))
  /\ \A r \in Run : WF_allVars(Pipeline(RunStep(r)))
  /\ WF_allVars(Hooks(Webhooks!Deliver))
  /\ \A r \in Slot : WF_allVars(Hooks(Webhooks!HandlerStep(r)))

EveryMessageAcked == Webhooks!EveryMessageAcked

==============================================================================
