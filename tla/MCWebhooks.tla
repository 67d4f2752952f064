----------------------------- MODULE MCWebhooks -----------------------------
(* A small instance of Webhooks: one endpoint, two rows, two overlapping ticks. *)
EXTENDS Webhooks, TLC

CONSTANTS e1, t1, t2, m1, resolved

(* A PATCH that deactivates an endpoint. *)
SomeEdits == {[active |-> FALSE, types |-> {resolved}]}
=============================================================================
