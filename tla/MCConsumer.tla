----------------------------- MODULE MCConsumer -----------------------------
(* Model-checking instances of Consumer. *)
EXTENDS Consumer, TLC

CONSTANTS c1, c2

Symmetry == Permutations(Consumers)
=============================================================================
