-------------------------- MODULE OutboxDelivery ---------------------------
(***************************************************************************)
(* The outbox publisher implements WebhookDelivery.  The status of an      *)
(* event is the status of its committed row: what a batch has done and not *)
(* committed does not count, what the broker has received does.            *)
(***************************************************************************)
EXTENDS Outbox

RowStatus(r) == IF r \in DOMAIN outbox THEN outbox[r].status ELSE "absent"

Delivery == INSTANCE WebhookDelivery
    WITH Events <- Rows,
         status <- [r \in Rows |-> RowStatus(r)],
         copies <- published

(* Every step of the pods, of the webhook transactions and of the faults   *)
(* is a step the promise allows, or none: rows are settled by the commit   *)
(* of the batch that locked them, never twice, never as DISPATCHED before  *)
(* the broker has the message, and no pod sends a row that another has     *)
(* settled.                                                                *)
ImplementsDelivery == Delivery!Spec
=============================================================================
