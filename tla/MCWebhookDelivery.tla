------------------------- MODULE MCWebhookDelivery --------------------------
(* Model-checking instances of WebhookDelivery. *)
EXTENDS WebhookDelivery, TLC

CONSTANTS m1, h1, h2, r1, r2

OneMessage == {m1}
Types == {"file.ready", "file.deleted"}
OneType == {"file.ready"}
Ready == [m \in Message |-> "file.ready"]
OneHook == {h1}
TwoHooks == {h1, h2}
TwoHandlers == {r1, r2}
HooksAndSlots == Permutations(TwoHooks) \cup Permutations(TwoHandlers)
=============================================================================
