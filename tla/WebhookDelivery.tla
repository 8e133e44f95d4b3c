-------------------------- MODULE WebhookDelivery --------------------------
(***************************************************************************)
(* What the gateway promises for an event it has taken over: the event is  *)
(* sent at least once, or given up after its last attempt, and settled     *)
(* exactly once; nothing is sent before it is taken over or after it is    *)
(* settled.  How rows, locks, pods, transactions and retries bring this    *)
(* about is left to the specifications that implement this one.            *)
(***************************************************************************)
EXTENDS Naturals

CONSTANT Events

VARIABLES
    status,      \* status[e]: how far the gateway is with event e
    copies       \* copies[e]: how often e was handed to the broker

Progress == {"absent", "SCHEDULED", "DISPATCHED", "FAILED"}

TypeOK == /\ status \in [Events -> Progress]
          /\ copies \in [Events -> Nat]

Init == /\ status = [e \in Events |-> "absent"]
        /\ copies = [e \in Events |-> 0]

(* The gateway takes over event e. *)
Accept(e) ==
    /\ status[e] = "absent"
    /\ status' = [status EXCEPT ![e] = "SCHEDULED"]
    /\ UNCHANGED copies

(* The broker receives a copy of e. *)
Send(e) ==
    /\ status[e] = "SCHEDULED"
    /\ copies' = [copies EXCEPT ![e] = @ + 1]
    /\ UNCHANGED status

(* An event whose status changes was scheduled and is now dispatched, in   *)
(* which case the broker has it, or failed.                                *)
SettledWell(e) ==
    \/ status'[e] = status[e]
    \/ status[e] = "SCHEDULED" /\ status'[e] = "DISPATCHED" /\ copies[e] >= 1
    \/ status[e] = "SCHEDULED" /\ status'[e] = "FAILED"

(* Some events, those of one batch, are settled at once. *)
Settle ==
    /\ status' \in [Events -> Progress]
    /\ \A e \in Events : SettledWell(e)
    /\ UNCHANGED copies

Next == \/ \E e \in Events : Accept(e) \/ Send(e)
        \/ Settle

Spec == Init /\ [][Next]_<<status, copies>>

(* No event stays scheduled for ever. *)
Live == \A e \in Events : status[e] = "SCHEDULED" ~> status[e] # "SCHEDULED"
=============================================================================
