------------------------------- MODULE Ingest -------------------------------
(***************************************************************************)
(* The webhook path: api/v1/webhooks.py, VcsGatewayService.process_webhook *)
(* and the steps it calls (tenant, signature, parsing, whitelist,          *)
(* idempotency check, persistence), and the internal check-duplicate       *)
(* endpoint, which shares the idempotency check.                           *)
(*                                                                         *)
(* Every request is a coroutine that runs from await to await: stage[r] is *)
(* the await it is suspended at.  Requests of all pods share the tables    *)
(* inbound_event and outbox_event and the Redis idempotency cache.  The    *)
(* UUIDs a request generates (correlation_id, event_id, outbox_id) are     *)
(* identified with the request itself.                                     *)
(***************************************************************************)
EXTENDS OutboxTable, FiniteSets

CONSTANTS
    Deliveries,  \* what clients may send
    Whitelist,   \* active <<event_type, action>> pairs
    PoolMax,     \* db_pool_max: connections of the asyncpg pool
    JsonCodec,   \* TRUE iff the connections encode a dict for a JSONB column
    MayFail,     \* TRUE iff statements may fail and processes may crash
    MaxTime      \* bound on the clock

VARIABLES
    stage,       \* stage[r]: the await request r is suspended at
    job,         \* job[r]: what request r carries
    result,      \* result[r]: the answer of request r
    began,       \* began[r]: NOW() in r's transaction
    inbound,     \* committed rows of inbound_event
    idem,        \* keys present in the Redis idempotency cache
    journey      \* journey[r]: the journey steps handed to _emit for r

Requests == Rows

requestVars == <<stage, job, result, began, journey>>
vars == <<outbox, now, requestVars, inbound, idem>>

Stages == {"new", "tenant", "gate", "redis", "lookup", "writeback", "refetch",
           "acquire", "insert", "commit", "mark", "done", "crashed"}

Results == {"none", "accepted", "redis_cache", "db_lookup", "db_constraint",
            "ignored", "too_large", "not_found", "inactive", "bad_signature",
            "error", "not_duplicate", "no_event"}

(* The journey steps of this service, with their statuses. *)
JourneySteps ==
    {"signature_verified", "webhook_received", "event_type_validated",
     "idempotency_checked", "outbox_scheduled"}
    \X {"completed", "in_progress", "info", "failed"}

(* A webhook delivery, or a call of check-duplicate.  `pr' stands for the  *)
(* provider, tenant, instance, repository and number of a pull request.    *)
Delivery ==
    [kind       : {"webhook", "query"},
     large      : BOOLEAN,                           \* over _MAX_BODY_BYTES
     tenant     : {"active", "inactive", "unknown"}, \* what get_webhook_secret finds
     signed     : BOOLEAN,                           \* signature or token valid
     event_type : STRING,                            \* X-GitHub-Event, X-Gitlab-Event
     parses     : BOOLEAN,                           \* body fits the PR model
     action     : STRING,
     pr         : STRING,
     commit     : STRING]

(* compute_pr_hash_key: SHA-256 of the identifying fields, taken to be     *)
(* free of collisions.                                                     *)
PrHashKey(j) == <<j.pr, j.action, j.commit>>

IsEventAllowed(j) == <<j.event_type, j.action>> \in Whitelist

ASSUME IngestAssumption ==
    /\ Deliveries \subseteq Delivery
    /\ \A j \in Deliveries : PrHashKey(j) \in Keys
    /\ PoolMax \in Nat \ {0}
    /\ JsonCodec \in BOOLEAN
    /\ MayFail \in BOOLEAN
    /\ MaxTime \in Nat

(* The job of a request that has not arrived. *)
NoJob == [kind |-> "none"]

TypeOK ==
    /\ DOMAIN outbox \subseteq Rows
    /\ outbox \in [DOMAIN outbox -> Row]
    /\ now \in Nat
    /\ stage \in [Requests -> Stages]
    /\ job \in [Requests -> Deliveries \cup {NoJob}]
    /\ result \in [Requests -> Results]
    /\ began \in [Requests -> Nat]
    /\ inbound \subseteq Requests
    /\ idem \subseteq Keys
    /\ journey \in [Requests -> SUBSET JourneySteps]

Key(r) == PrHashKey(job[r])

(* The keys with a committed inbound_event. *)
Stored == {Key(r) : r \in inbound}

(* Connections in use between two awaits, and whether one is free. *)
Connected == {r \in Requests : stage[r] \in {"insert", "commit"}}

ConnectionFree == Cardinality(Connected) < PoolMax

Init ==
    /\ outbox = NoRows
    /\ now = 0
    /\ stage = [r \in Requests |-> "new"]
    /\ job = [r \in Requests |-> NoJob]
    /\ result = [r \in Requests |-> "none"]
    /\ began = [r \in Requests |-> 0]
    /\ inbound = {}
    /\ idem = {}
    /\ journey = [r \in Requests |-> {}]

-----------------------------------------------------------------------------
(* How a step of a request ends.                                           *)

Continue(r, next) ==
    /\ stage' = [stage EXCEPT ![r] = next]
    /\ UNCHANGED result

Answer(r, answer) ==
    /\ stage' = [stage EXCEPT ![r] = "done"]
    /\ result' = [result EXCEPT ![r] = answer]

(* _emit hands steps to the journey publisher and never raises: a publish  *)
(* that fails is logged and swallowed, and the request goes on as if it    *)
(* had not.  journey records what was handed over, not what arrived.       *)
Emit(r, steps) == journey' = [journey EXCEPT ![r] = @ \cup steps]

IsWebhook(r) == job[r].kind = "webhook"

-----------------------------------------------------------------------------
(* Before the idempotency check.                                           *)

(* The endpoint is called; an oversized body is refused at once. *)
Receive(r, j) ==
    /\ stage[r] = "new"
    /\ job' = [job EXCEPT ![r] = j]
    /\ \/ j.kind = "query" /\ Continue(r, "redis")
       \/ j.kind = "webhook" /\ j.large /\ Answer(r, "too_large")
       \/ j.kind = "webhook" /\ ~j.large /\ Continue(r, "tenant")
    /\ UNCHANGED <<outbox, now, began, inbound, idem, journey>>

(* get_webhook_secret and get_event_whitelist. *)
ResolveTenant(r) ==
    /\ stage[r] = "tenant"
    /\ ConnectionFree
    /\ \/ job[r].tenant = "unknown" /\ Answer(r, "not_found")
       \/ job[r].tenant = "inactive" /\ Answer(r, "inactive")
       \/ job[r].tenant = "active" /\ Continue(r, "gate")
    /\ UNCHANGED <<outbox, now, job, began, inbound, idem, journey>>

(* Faulty variant of Gate: the signature is not checked. *)
GateUnsigned(r) ==
    /\ stage[r] = "gate"
    /\ IF job[r].parses /\ IsEventAllowed(job[r]) THEN Continue(r, "redis")
                                                 ELSE Answer(r, "ignored")
    /\ Emit(r, {<<"webhook_received", "in_progress">>})
    /\ UNCHANGED <<outbox, now, job, began, inbound, idem>>

(* _validate_signature, parse_payload, is_event_allowed, in this order and *)
(* with their journey steps.  A body that does not parse raises pydantic's *)
(* ValidationError, which no handler translates.                           *)
Gate(r) ==
    /\ stage[r] = "gate"
    /\ LET j == job[r]
           verified == {<<"signature_verified", "completed">>,
                        <<"webhook_received", "in_progress">>}
       IN  \/ /\ ~j.signed
              /\ Emit(r, {<<"signature_verified", "failed">>})
              /\ Answer(r, "bad_signature")
           \/ /\ j.signed /\ ~j.parses
              /\ Emit(r, verified)
              /\ Answer(r, "error")
           \/ /\ j.signed /\ j.parses /\ ~IsEventAllowed(j)
              /\ Emit(r, verified \cup {<<"event_type_validated", "info">>})
              /\ Answer(r, "ignored")
           \/ /\ j.signed /\ j.parses /\ IsEventAllowed(j)
              /\ Emit(r, verified)
              /\ Continue(r, "redis")
    /\ UNCHANGED <<outbox, now, job, began, inbound, idem>>

-----------------------------------------------------------------------------
(* IdempotencyChecker.check.                                               *)

(* The caller of check returns with a detection. *)
Detected(r, detection) ==
    /\ Answer(r, detection)
    /\ IF IsWebhook(r) THEN Emit(r, {<<"idempotency_checked", "info">>})
                       ELSE UNCHANGED journey

(* get_idempotency_cache: a Redis error counts as a miss. *)
ReadCache(r) ==
    /\ stage[r] = "redis"
    /\ \/ Key(r) \in idem /\ Detected(r, "redis_cache")
       \/ /\ Key(r) \notin idem \/ MayFail
          /\ Continue(r, "lookup")
          /\ UNCHANGED journey
    /\ UNCHANGED <<outbox, now, job, began, inbound, idem>>

(* get_by_pr_hash_key.  When it finds nothing, a webhook goes on to be     *)
(* persisted and a query is answered.                                      *)
Lookup(r) ==
    /\ stage[r] = "lookup"
    /\ ConnectionFree
    /\ \/ /\ Key(r) \in Stored
          /\ Continue(r, "writeback")
          /\ UNCHANGED journey
       \/ /\ Key(r) \notin Stored /\ IsWebhook(r)
          /\ Emit(r, {<<"idempotency_checked", "completed">>})
          /\ Continue(r, "acquire")
       \/ /\ Key(r) \notin Stored /\ ~IsWebhook(r)
          /\ Answer(r, "not_duplicate")
          /\ UNCHANGED journey
    /\ UNCHANGED <<outbox, now, job, began, inbound, idem>>

(* Faulty variant of WriteCache: the id is cached instead of the key. *)
WriteCacheOfId(r) == idem' = idem \cup {r}

(* set_idempotency_cache: best effort, never raises. *)
WriteCache(r) ==
    \/ idem' = idem \cup {Key(r)}
    \/ MayFail /\ UNCHANGED idem

WriteBack(r) ==
    /\ stage[r] = "writeback"
    /\ WriteCache(r)
    /\ IF IsWebhook(r) THEN Detected(r, "db_lookup")
                       ELSE Continue(r, "refetch") /\ UNCHANGED journey
    /\ UNCHANGED <<outbox, now, job, began, inbound>>

(* check_duplicate reads the event again to name it in its answer. *)
Refetch(r) ==
    /\ stage[r] = "refetch"
    /\ ConnectionFree
    /\ Answer(r, IF Key(r) \in Stored THEN "db_lookup" ELSE "no_event")
    /\ UNCHANGED <<outbox, now, job, began, inbound, idem, journey>>

(* What check_stale answers for a key and a version: whether the stored    *)
(* event of that key has a higher pr_version.  Every event is stored with  *)
(* version PrVersion.                                                      *)
CheckStale(key, pr_version) ==
    \E r \in inbound : Key(r) = key /\ PrVersion > pr_version

-----------------------------------------------------------------------------
(* WebhookPersister.persist and what follows it.                           *)

(* Faulty variant of Begin: the key is cached before it is stored. *)
BeginMarked(r) ==
    /\ stage[r] = "acquire"
    /\ ConnectionFree
    /\ began' = [began EXCEPT ![r] = now]
    /\ idem' = idem \cup {Key(r)}
    /\ Continue(r, "insert")
    /\ UNCHANGED <<outbox, now, job, inbound, journey>>

(* A connection is acquired and BEGIN executed. *)
Begin(r) ==
    /\ stage[r] = "acquire"
    /\ ConnectionFree
    /\ began' = [began EXCEPT ![r] = now]
    /\ Continue(r, "insert")
    /\ UNCHANGED <<outbox, now, job, inbound, idem, journey>>

(* A transaction that has inserted the same key and is still open: the     *)
(* unique index on pr_hash_key makes a second INSERT wait for its outcome. *)
KeyInFlight(r) ==
    \E q \in Requests \ {r} : stage[q] = "commit" /\ Key(q) = Key(r)

(* Faulty variants of Insert: a key in another transaction's hands counts  *)
(* as a duplicate at once; there is no unique index; outbox_scheduled is   *)
(* announced before the COMMIT.                                            *)
InsertNoWait(r) ==
    /\ stage[r] = "insert"
    /\ IF Key(r) \in Stored \/ KeyInFlight(r) THEN Answer(r, "db_constraint")
                                              ELSE Continue(r, "commit")
    /\ UNCHANGED <<outbox, now, job, began, inbound, idem, journey>>

InsertNotUnique(r) ==
    /\ stage[r] = "insert"
    /\ Continue(r, "commit")
    /\ UNCHANGED <<outbox, now, job, began, inbound, idem, journey>>

InsertAnnounced(r) ==
    /\ stage[r] = "insert"
    /\ Key(r) \notin Stored /\ ~KeyInFlight(r)
    /\ Emit(r, {<<"outbox_scheduled", "completed">>})
    /\ Continue(r, "commit")
    /\ UNCHANGED <<outbox, now, job, began, inbound, idem>>

(* InboundEventRepository.insert.  A committed row with the key raises     *)
(* UniqueViolationError: rollback, DuplicateError, WebhookDuplicate.       *)
(* Without a JSON codec asyncpg rejects the dict arguments (DataError).    *)
Insert(r) ==
    /\ stage[r] = "insert"
    /\ \/ ~JsonCodec /\ Answer(r, "error")
       \/ JsonCodec /\ Key(r) \in Stored /\ Answer(r, "db_constraint")
       \/ /\ JsonCodec /\ Key(r) \notin Stored /\ ~KeyInFlight(r)
          /\ Continue(r, "commit")
    /\ UNCHANGED <<outbox, now, job, began, inbound, idem, journey>>

(* Faulty variant of Store: every scheduled row of the pull request is     *)
(* cancelled, locked by a batch or not.                                    *)
StoreCancelsAll(r) ==
    LET cancelled == [q \in DOMAIN outbox |->
                        IF outbox[q].status = "SCHEDULED" /\ job[q].pr = job[r].pr
                        THEN [outbox[q] EXCEPT !.status = "CANCELLED"]
                        ELSE outbox[q]]
    IN  /\ inbound' = inbound \cup {r}
        /\ outbox' = ScheduleEvent(cancelled, r, Key(r), PrVersion, began[r])

(* The effect of schedule_event and COMMIT on the two tables. *)
Store(r) ==
    /\ inbound' = inbound \cup {r}
    /\ outbox' = ScheduleEvent(outbox, r, Key(r), PrVersion, began[r])

(* Faulty variant of Commit: schedule_event takes a second connection. *)
CommitOnSecondConnection(r) ==
    /\ stage[r] = "commit"
    /\ ConnectionFree
    /\ Store(r)
    /\ Continue(r, "mark")
    /\ UNCHANGED <<now, job, began, idem, journey>>

(* schedule_event, then COMMIT; the connection goes back to the pool. *)
Commit(r) ==
    /\ stage[r] = "commit"
    /\ Store(r)
    /\ Continue(r, "mark")
    /\ UNCHANGED <<now, job, began, idem, journey>>

(* mark_processed, the last journey step, and the 202 answer. *)
MarkProcessed(r) ==
    /\ stage[r] = "mark"
    /\ WriteCache(r)
    /\ Emit(r, {<<"outbox_scheduled", "completed">>})
    /\ Answer(r, "accepted")
    /\ UNCHANGED <<outbox, now, job, began, inbound>>

-----------------------------------------------------------------------------
(* Failures.                                                               *)

(* The COMMIT is applied but its answer is lost: the client gets a 500. *)
CommitUnknown(r) ==
    /\ MayFail
    /\ stage[r] = "commit"
    /\ Store(r)
    /\ Answer(r, "error")
    /\ UNCHANGED <<now, job, began, idem, journey>>

(* A statement fails; an open transaction rolls back.  asyncpg errors are  *)
(* not translated, so the client gets a plain 500.                         *)
DbError(r) ==
    /\ MayFail
    /\ stage[r] \in {"tenant", "lookup", "refetch", "acquire", "insert", "commit"}
    /\ Answer(r, "error")
    /\ UNCHANGED <<outbox, now, job, began, inbound, idem, journey>>

(* The process running r dies; an open transaction rolls back. *)
Crash(r) ==
    /\ MayFail
    /\ stage[r] \notin {"new", "done", "crashed"}
    /\ stage' = [stage EXCEPT ![r] = "crashed"]
    /\ UNCHANGED <<outbox, now, job, result, began, inbound, idem, journey>>

(* A cache entry reaches its TTL or is evicted. *)
Expire(k) ==
    /\ k \in idem
    /\ idem' = idem \ {k}
    /\ UNCHANGED <<outbox, now, requestVars, inbound>>

Tick ==
    /\ now < MaxTime
    /\ now' = now + 1
    /\ UNCHANGED <<outbox, requestVars, inbound, idem>>

-----------------------------------------------------------------------------
Serve(r) ==
    \/ ResolveTenant(r)
    \/ Gate(r)
    \/ ReadCache(r)
    \/ Lookup(r)
    \/ WriteBack(r)
    \/ Refetch(r)
    \/ Begin(r)
    \/ Insert(r)
    \/ Commit(r)
    \/ MarkProcessed(r)

Fault(r) == CommitUnknown(r) \/ DbError(r) \/ Crash(r)

IngestStep ==
    \/ \E r \in Requests, j \in Deliveries : Receive(r, j)
    \/ \E r \in Requests : Serve(r) \/ Fault(r)
    \/ \E k \in idem : Expire(k)

(* No request is left to serve: the server waits for the next one. *)
Idle ==
    /\ \A r \in Requests : stage[r] \in {"done", "crashed"}
    /\ UNCHANGED vars

Next == IngestStep \/ Tick \/ Idle

Spec == Init /\ [][Next]_vars

-----------------------------------------------------------------------------
(* Properties.                                                             *)

(* HTTP status of an answer: _to_response and the exception handlers. *)
HttpStatus(answer) ==
    CASE answer = "accepted" -> 202
      [] answer \in {"redis_cache", "db_lookup", "db_constraint", "ignored",
                     "not_duplicate", "no_event"} -> 200
      [] answer = "too_large" -> 413
      [] answer = "not_found" -> 404
      [] answer = "inactive" -> 403
      [] answer = "bad_signature" -> 401
      [] OTHER -> 500

(* The answers that tell a VCS provider that its pull request event is     *)
(* stored, so that it will not send it again.                              *)
Acknowledged(r) ==
    result[r] \in {"accepted", "redis_cache", "db_lookup", "db_constraint"}

(* An acknowledged event is durable: its key has a committed inbound_event *)
(* and an outbox row, whichever request stored it and whatever failed in   *)
(* between.  In particular no answer rests on a cache entry or a row of a  *)
(* transaction that rolled back, and check_duplicate never reports a       *)
(* duplicate whose event it cannot name.                                   *)
AckIsDurable ==
    \A r \in Requests :
        /\ Acknowledged(r) =>
              \E q \in inbound : /\ Key(q) = Key(r)
                                 /\ q \in DOMAIN outbox
                                 /\ outbox[q].pr_hash_key = Key(r)
                                 /\ result[r] = "accepted" => q = r
        /\ result[r] # "no_event"

(* The idempotency cache never runs ahead of the database: a cached key    *)
(* has a committed event, although the write happens outside the           *)
(* transaction and entries come and go.                                    *)
CacheSound == idem \subseteq Stored

(* However many deliveries of one event race through Redis miss, database  *)
(* miss and INSERT, one inbound_event and one outbox row result.           *)
OneEventPerKey ==
    /\ \A q, r \in inbound : Key(q) = Key(r) => q = r
    /\ \A q, r \in DOMAIN outbox :
          outbox[q].pr_hash_key = outbox[r].pr_hash_key => q = r

(* A delivery of an active tenant with a valid signature, a parsable body  *)
(* and a whitelisted event.                                                *)
Admissible(j) ==
    /\ j.tenant = "active"
    /\ j.signed
    /\ j.parses
    /\ IsEventAllowed(j)

(* Only an admissible webhook is ever stored, although the gates are       *)
(* passed long before the INSERT, at other awaits, and check-duplicate     *)
(* calls share the path between them.                                      *)
OnlyAdmittedStored ==
    \A r \in inbound : job[r].kind = "webhook" /\ Admissible(job[r])

(* The journey tells the truth: outbox_scheduled only for a committed      *)
(* event, a duplicate only for a stored key, and for every stored event    *)
(* the steps received and checked were handed to _emit.  Whether they      *)
(* reached the broker is not claimed: _emit swallows a failed publish.     *)
JourneyTruthful ==
    \A r \in Requests :
        /\ <<"outbox_scheduled", "completed">> \in journey[r]
              => r \in inbound /\ r \in DOMAIN outbox
        /\ <<"idempotency_checked", "info">> \in journey[r] => Key(r) \in Stored
        /\ r \in inbound => {<<"webhook_received", "in_progress">>,
                             <<"idempotency_checked", "completed">>}
                               \subseteq journey[r]

(* What the response matrix of the service document says of STEP 4: an     *)
(* event type that is not allowed is answered 200 (ignored).  Stated for   *)
(* deliveries that pass the steps before it.                               *)
DisallowedEventIgnored ==
    \A r \in Requests :
        (/\ stage[r] = "done"
         /\ IsWebhook(r)
         /\ ~job[r].large
         /\ job[r].tenant = "active"
         /\ job[r].signed
         /\ ~IsEventAllowed(job[r]))
        => HttpStatus(result[r]) = 200

(* What the response matrix says of STEPs 5.5 and 8: an admitted pull      *)
(* request event is answered 202, or 200 for a duplicate, unless the       *)
(* database fails.                                                         *)
AdmittedEventAcknowledged ==
    \A r \in Requests :
        (/\ stage[r] = "done"
         /\ IsWebhook(r)
         /\ ~job[r].large
         /\ Admissible(job[r]))
        => HttpStatus(result[r]) \in {200, 202}

(* What the service document says of a commit that is superseded by a new  *)
(* commit of the same pull request: its event is cancelled while it is     *)
(* debounced, and is stale for check-stale.  Stated as the weaker of the   *)
(* two: one of the ways to drop it works.                                  *)
SupersededIsDropped ==
    \A q, r \in DOMAIN outbox :
        (/\ job[q].pr = job[r].pr
         /\ job[q].commit # job[r].commit
         /\ began[q] < began[r])
        => outbox[q].status = "CANCELLED" \/ CheckStale(Key(q), PrVersion)

-----------------------------------------------------------------------------
(* The inductive invariant behind the safety properties.                   *)

(* The two tables hold the same events under the same keys; a transaction  *)
(* about to commit has a key that is neither stored nor in another         *)
(* transaction's hands; every stored key is stored once.                   *)
StorageConsistent ==
    /\ inbound = DOMAIN outbox
    /\ \A r \in inbound : /\ stage[r] \in {"mark", "done", "crashed"}
                          /\ outbox[r].pr_hash_key = Key(r)
    /\ \A r \in Requests : stage[r] = "mark" => r \in inbound
    /\ \A r \in Requests : stage[r] = "commit" => Key(r) \notin Stored
    /\ \A q, r \in Requests :
          stage[q] = "commit" /\ stage[r] = "commit" /\ Key(q) = Key(r) => q = r
    /\ \A q, r \in inbound : Key(q) = Key(r) => q = r

(* A request says, or is about to say, that its event is stored only when  *)
(* it is; an answer is final.                                              *)
EvidenceSound ==
    \A r \in Requests :
        /\ result[r] # "none" => stage[r] = "done"
        /\ stage[r] \in {"writeback", "refetch"} \/ Acknowledged(r)
              => Key(r) \in Stored
        /\ result[r] = "accepted" => r \in inbound
        /\ result[r] # "no_event"

(* What a request in stage s that carries j has shown about j. *)
Admitted(s, j) ==
    /\ s # "new" => j \in Deliveries
    /\ s \in {"tenant", "gate", "acquire", "insert", "commit", "mark"}
          => j.kind = "webhook"
    /\ s = "gate" => j.tenant = "active"
    /\ s \in {"redis", "lookup", "writeback", "refetch", "acquire", "insert",
              "commit", "mark"} /\ j.kind = "webhook" => Admissible(j)

(* A webhook past a gate has passed it. *)
AdmissionEnforced == \A r \in Requests : Admitted(stage[r], job[r])

(* The journey keeps up with the stage. *)
JourneyMatchesStage ==
    \A r \in Requests :
        /\ <<"outbox_scheduled", "completed">> \in journey[r]
              => stage[r] \in {"done", "crashed"} /\ r \in inbound
        /\ <<"idempotency_checked", "info">> \in journey[r]
              => stage[r] \in {"done", "crashed"} /\ Key(r) \in Stored
        /\ stage[r] \in {"redis", "lookup", "acquire", "insert", "commit"}
           /\ IsWebhook(r)
              => <<"webhook_received", "in_progress">> \in journey[r]
        /\ stage[r] \in {"acquire", "insert", "commit"} \/ r \in inbound
              => {<<"webhook_received", "in_progress">>,
                  <<"idempotency_checked", "completed">>} \subseteq journey[r]
=============================================================================
