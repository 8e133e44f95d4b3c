------------------------------ MODULE MCIngest ------------------------------
(* Model-checking instances of Ingest. *)
EXTENDS Ingest, TLC

CONSTANTS q1, q2, q3

(* A well-formed webhook for a commit of pull request "p". *)
Pr(commit) ==
    [kind |-> "webhook", large |-> FALSE, tenant |-> "active", signed |-> TRUE,
     event_type |-> "pull_request", parses |-> TRUE, action |-> "synchronize",
     pr |-> "p", commit |-> commit]

Query(commit) == [Pr(commit) EXCEPT !.kind = "query"]

(* Deliveries that a step before the idempotency check turns away.  Each   *)
(* would be admitted but for one field.                                    *)
TurnedAway ==
    {[Pr("c1") EXCEPT !.large = TRUE],
     [Pr("c1") EXCEPT !.tenant = "unknown"],
     [Pr("c1") EXCEPT !.tenant = "inactive"],
     [Pr("c1") EXCEPT !.signed = FALSE],
     [Pr("c1") EXCEPT !.parses = FALSE],
     [Pr("c1") EXCEPT !.action = "closed"]}

(* A push event: its type is not whitelisted and its body is not a PR. *)
Push == [Pr("c1") EXCEPT !.event_type = "push", !.parses = FALSE]

MCKeys == {PrHashKey(j) : j \in {Pr("c1"), Pr("c2"), [Pr("c1") EXCEPT !.action = "closed"]}}

MCWhitelist == {<<"pull_request", a>> : a \in {"opened", "synchronize", "reopened"}}

AllDeliveries == TurnedAway \cup {Push, Pr("c1"), Pr("c2"), Query("c1")}

OneEvent == {Pr("c1"), Query("c1")}

TwoCommits == {Pr("c1"), Pr("c2")}

Symmetry == Permutations(Requests)
=============================================================================
