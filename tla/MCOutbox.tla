------------------------------ MODULE MCOutbox ------------------------------
(* Model-checking instances of Outbox. *)
EXTENDS OutboxDelivery, TLC

CONSTANTS r1, r2, d1, d2, k1

Symmetry == Permutations(Rows) \cup Permutations(Dispatchers)
=============================================================================
