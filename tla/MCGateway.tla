----------------------------- MODULE MCGateway -----------------------------
(* Model-checking instances of Gateway. *)
EXTENDS Gateway, TLC

CONSTANTS q1, q2, d1

(* A webhook for a commit of pull request "p", and the internal query for  *)
(* the same event.                                                         *)
Pr(commit) ==
    [kind |-> "webhook", large |-> FALSE, tenant |-> "active", signed |-> TRUE,
     event_type |-> "pull_request", parses |-> TRUE, action |-> "synchronize",
     pr |-> "p", commit |-> commit]

Query(commit) == [Pr(commit) EXCEPT !.kind = "query"]

Forged == [Pr("c1") EXCEPT !.signed = FALSE]

(* The idempotency keys of those events. *)
MCKeys == {<<"p", "synchronize", c>> : c \in {"c1", "c2"}}

OneKey == {<<"p", "synchronize", "c1">>}

MCWhitelist == {<<"pull_request", "synchronize">>}

AllDeliveries == {Pr("c1"), Pr("c2"), Query("c1"), Forged}

OneEvent == {Pr("c1"), Query("c1")}

Symmetry == Permutations(Rows)
=============================================================================
