------------------------------ MODULE MCOutbox ------------------------------
(* Model-checking instances of Outbox. *)
EXTENDS Outbox

CONSTANTS e1, e2, e3, w1, w2

ThreeEvents == {e1, e2, e3}
TwoWorkers == {w1, w2}
=============================================================================
