----------------------------- MODULE MCWebhooks -----------------------------
(***************************************************************************)
(* Deliveries to one endpoint, more of them than a pass takes.             *)
(***************************************************************************)
EXTENDS Webhooks, TLC

CONSTANT e1
OneTarget == [d \in Delivery |-> e1]
=============================================================================
