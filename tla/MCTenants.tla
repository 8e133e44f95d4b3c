----------------------------- MODULE MCTenants -----------------------------
(* Model-checking instances of Tenants. *)
EXTENDS Tenants, TLC

CONSTANTS q1, q2, q3, t1, s1, s2

Symmetry == Permutations(Requests) \cup Permutations(Secrets)
=============================================================================
