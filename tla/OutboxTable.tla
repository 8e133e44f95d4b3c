---------------------------- MODULE OutboxTable ----------------------------
(***************************************************************************)
(* The table vcs_gateway_schema.outbox_event and the one operation the     *)
(* webhook path performs on it, OutboxRepository.schedule_event.           *)
(*                                                                         *)
(* `outbox' is the committed content of the table: a function whose domain *)
(* is the set of outbox_ids inserted so far.  `now' is the clock of the    *)
(* database.  One unit of time is 30 seconds, the debounce delay and the   *)
(* base of the retry backoff.                                              *)
(***************************************************************************)
EXTENDS Integers

CONSTANTS
    Rows,        \* outbox_ids (generated UUIDs)
    Keys,        \* pr_hash_keys
    Debounce,    \* settings.outbox_debounce_seconds, in units of time
    MaxRetries   \* the max_retries column

ASSUME TableAssumption == /\ Debounce \in Nat
                          /\ MaxRetries \in Nat \ {0}

VARIABLES
    outbox,      \* committed rows of outbox_event
    now          \* NOW()

Statuses == {"SCHEDULED", "CANCELLED", "DISPATCHED", "FAILED"}

Row == [status      : Statuses,
        pr_hash_key : Keys,
        pr_version  : Nat,
        retry_count : Nat,
        dispatch_at : Int]

(* The empty table. *)
NoRows == [r \in {} |-> 0]

(* The table `base' with the rows of `top' written over it. *)
Overlay(top, base) ==
    [r \in DOMAIN top \cup DOMAIN base |->
        IF r \in DOMAIN top THEN top[r] ELSE base[r]]

(* What INSERT INTO outbox_event stores: the columns the statement does    *)
(* not name take the defaults of the migration.                            *)
NewRow(key, version, began) ==
    [status      |-> "SCHEDULED",
     pr_hash_key |-> key,
     pr_version  |-> version,
     retry_count |-> 0,
     dispatch_at |-> began + Debounce]

(* Faulty variant of CancelPrevious: `<=' for `<'. *)
CancelSameVersion(table, key, version) ==
    [r \in DOMAIN table |->
        IF /\ table[r].pr_hash_key = key
           /\ table[r].pr_version <= version
           /\ table[r].status = "SCHEDULED"
        THEN [table[r] EXCEPT !.status = "CANCELLED"]
        ELSE table[r]]

(* UPDATE ... SET status = 'CANCELLED' for the older versions of a key.    *)
CancelPrevious(table, key, version) ==
    [r \in DOMAIN table |->
        IF /\ table[r].pr_hash_key = key
           /\ table[r].pr_version < version
           /\ table[r].status = "SCHEDULED"
        THEN [table[r] EXCEPT !.status = "CANCELLED"]
        ELSE table[r]]

(* schedule_event, run by a transaction that began at time `began' (NOW()  *)
(* is the start of the transaction): cancel, then insert row `id'.         *)
ScheduleEvent(table, id, key, version, began) ==
    Overlay([r \in {id} |-> NewRow(key, version, began)],
            CancelPrevious(table, key, version))

(* The version the webhook path passes to schedule_event: always 1.        *)
PrVersion == 1
=============================================================================
