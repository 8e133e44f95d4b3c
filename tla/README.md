# Verification of the VCS gateway

The VCS gateway receives pull request webhooks from GitHub and GitLab, stores
each event once, and hands it to RabbitMQ through a transactional outbox. This
directory holds TLA+ models of it, TLC configurations that check them on small
instances, and TLAPS proofs of their safety properties for every instance.

## The system

| Part | State | Operations | Hard because |
|---|---|---|---|
| Webhook path (`api/v1/webhooks.py`, `services/vcs_gateway.py`, `services/webhook_processor/`) | none of its own; each request is a coroutine | tenant, signature, parsing, whitelist, idempotency check, persist, mark | requests of all pods interleave at every await; any await may fail |
| Idempotency cache (`redis/client.py`, `idempotency_checker.py`) | keys in Redis with a TTL | read, write back, mark | written outside the transaction; errors are swallowed; entries expire |
| `inbound_event`, `outbox_event` (migrations, repositories) | rows | insert, schedule, cancel, select due, mark | one transaction on the webhook path, one per batch on the publisher |
| Outbox publisher (`db/outbox.py`) | cached AMQP channel; row locks of the batch | poll, publish, mark, retry, commit | two systems without a common transaction; several pods; crashes |
| Connection pool (`db/connection.py`) | free connections | acquire, release | requests wait for it, and for each other's keys, while holding it; a batch keeps one during its network calls |
| Tenant validation (`tenant_validator.py`, `redis/client.py`) | Redis cache of tenants | read, write back | a stale entry outlives a change of the tenant, and a slow request may renew it |
| Journey publisher (`queue/publisher.py`) | none | emit, best effort | steps are announced between awaits; the broker may not answer |
| Queue consumer (`queue/consumer.py`) | a channel; one task per delivery | start, stop, process, ack, nack | tasks outlive the channel that delivered their message; a message may never be settled |
| Lifecycle (`main.py`, `worker.py`) | outbox task, clients | start, signal, cancel, shut down | the cancellation finds the task anywhere; a failing step of the shutdown skips the rest |
| Health (`api/health.py`) | none | probe | dependencies change between its checks |
| Logging, telemetry, middleware, configuration | none of interest | | |

A webhook request commits an `inbound_event` and an `outbox_event` in one
transaction. The publisher of any pod later locks the row, sends it and marks it.
The two meet in the table `outbox_event`, in the pool and at the broker; requests meet in the two tables,
the caches and the pool. PROJECT.json lists the parts with their status, and the
hazards with the properties that cover them.

What makes the parts correct: an acknowledged event is durable; an event is stored
once however often it is delivered; only admitted deliveries are stored; the cache
and the journey never claim what the database does not hold; a row marked
DISPATCHED was sent; a row is sent only while it is due, and again only when an
outcome was lost; attempts are counted and spaced; every row is settled and every
request answered; a configuration that was changed is not used for long; a consumer
loses no message and no prefetch slot; the publisher task lives as long as the API
serves, and a signal ends the process cleanly.

## Modules

| Module | Models |
|---|---|
| `OutboxTable` | the table `outbox_event` and `schedule_event`; shared by the next two |
| `Outbox` | `OutboxPublisher` on several pods, with the broker, the row locks and the failures it meets |
| `Ingest` | `process_webhook` and `check_duplicate` as concurrent requests |
| `WebhookDelivery` | abstract: what the gateway promises for an event it has taken over |
| `OutboxDelivery` | `Outbox` as an implementation of `WebhookDelivery` |
| `Gateway` | one pod: `Ingest` and `Outbox` composed on one table, pool and broker; implements `Outbox` and `WebhookDelivery` |
| `Tenants` | `get_webhook_secret` with the tenant cache |
| `Consumer` | `BaseConsumer` with the queue it works on |
| `Lifecycle` | `lifespan` with the outbox task, `main` of the worker, and `readiness` |
| `Outbox_proofs`, `Ingest_proofs`, `OutboxDelivery_proofs`, `Tenants_proofs`, `Consumer_proofs`, `Lifecycle_proofs`, `Gateway_proofs` | theorems |
| `MCOutbox`, `MCIngest`, `MCGateway`, `MCTenants`, `MCConsumer`, `MCLifecycle` | instances for TLC |

Definitions whose comment says "faulty variant" are not part of the model: each is
a plausible mistake in the code that one of the properties must detect.

### OutboxTable

`outbox` is the committed table, a function whose domain is the set of ids inserted
so far. A time unit is 30 seconds, so that the debounce delay is 1 and the backoff
after n failures is `2^(n+1)`. `NOW()` in `schedule_event` is the start of the
transaction, hence the parameter `began`.

### Outbox

A batch is one transaction. `view[d]` holds the rows pod `d` has locked, as its
transaction sees them: `Fetch` copies them from the table, `MarkDispatched` and
`HandleFailure` change the copy, `CommitBatch` writes it back, and every failure
drops it. `chan[d]` is the cached `self._channel` and `exch[d]` the channel behind
the local variable `exchange`; they differ after a failure, because the `except`
branch drops only the first. `published[r]` counts the copies of a row that the
broker took. Outcomes of `exchange.publish` are separate actions: `Publish`,
`PublishRefused`, `PublishOnClosed`, and `ConfirmLost` (taken, but the call raises).
The channels are robust ones: a closed channel may stay closed, or the library may
reopen it at any time (`ChannelReopens`), also under a batch that still holds its
exchange. Nothing relies on the second, so no fairness is assumed for it.
`BatchFails` is any database error or a failing `_get_exchange`. A failing UPDATE
inside the `try` aborts the savepoint, so the UPDATE of the `except` branch fails
too and the error leaves both `async with` blocks: there is no other outcome to
model. `CommitUnknown` is a COMMIT that is applied but whose answer is lost. `Stop`
and `Restart` are the end of a pod and its replacement; between them the old
session may still hold its locks.

`Schedule` stands for the webhook transactions, which may have begun up to `TxLag`
earlier. `Tick` is disabled when no scheduled row lies in the future, since the
clock is observable only through `dispatch_at`.

### Ingest

`stage[r]` is the await request `r` is suspended at, when that await touches state
that others can change. The provider guard (both endpoints pass a supported
provider), parsing and hashing happen inside a stage. A delivery is a record of
what the guards test; the fields that identify a pull request are one value. The
tenant of a delivery is what `get_webhook_secret` finds; how it finds it is the
subject of `Tenants`. `check_stale` changes nothing and is the operator
`CheckStale`. `journey[r]` collects the steps handed to `_emit`, which swallows a publish that
fails: a step in `journey` may never have reached the broker, and `JourneyTruthful` speaks of what the service
announces. Nothing in the service reads it, so a step is emitted in the same action
as the await before it.

`Commit` covers `schedule_event` and COMMIT; a failure between the two INSERTs is
`DbError` in stage `commit`. A second INSERT of a key waits while another
transaction holds it uncommitted (`KeyInFlight`): a unique index of PostgreSQL does
that. A failing Redis call is a miss on reading and a no-op on writing, as the code
swallows the errors. `Expire` covers TTL and eviction.

`JsonCodec` says whether the pool's connections encode a dict for a JSONB column.
`create_pool` registers no codec, so the value for the code as it stands is FALSE,
and then no admitted event is ever stored: run `ingest_codec` shows that. All other
questions about the path would be empty under FALSE, so the other runs set TRUE,
the value under which `persist` does what it was written for. The proofs hold for
both values.

### WebhookDelivery and OutboxDelivery

`WebhookDelivery` has two variables per event: a status and the number of copies at
the broker. An event is accepted once, sent only while it is scheduled, and settled
once: as DISPATCHED if the broker has it, or as FAILED. A batch settles several
events at once. `Live` adds that no event stays scheduled for ever.
`OutboxDelivery` maps it onto the publisher: the status of an event is the status
of its committed row, the copies are `published`. `Gateway` maps it once more, with
keys instead of rows as events. What a batch has not committed
does not count, which is why a rolled back batch is no step of the abstract
specification and its repeated messages are further `Send` steps.

### Gateway

`Ingest` and `Outbox` are instantiated on the same `outbox` and `now`. `Serve` and
`Work` add what the modules do not know of each other: the stages that begin with a
database call and the polls of the publisher need a free connection of the common
pool; a batch holds its connection until it ends. A request whose step emitted a
journey event is in `emitting` until the broker answers (`EmitReturns`), without a
connection. `broker = "hung"` is a broker that neither answers nor closes anything.
`PodCrashes` ends the publisher task and every request at once. `Tick` keeps the
age of a webhook transaction below `TxLag`, the assumption `Outbox` makes.

### Tenants

One SELECT or cache read per request, and one SETEX, with the clock of Redis in
between; `Change` is the service that owns the tenant table. `Lag` bounds the time
between a request's read and its end. The code sets no such bound itself
(`_emit` may wait for the broker), so it is an assumption: the longest a request
runs. `until[t][c]` is a history variable that remembers when a configuration
ceased to be the row of the tenant.

### Consumer

`handlers` are the running `_on_message` tasks. `gen` numbers the channels of a
consumer: a task whose channel is gone can neither ack nor nack (`SettleFails`),
while the broker already delivers its message again. `Start` does one await of
`start` at a time, so that a crash may come between the declarations; aio_pika
restores the channel, the prefetch limit and the consumer in one step
(`Reconnect`). `process_message` is abstract in the code; its outcomes are free,
transient errors of a readable message bounded by `MaxTransient`. A requeued
message returns to its place in the queue, as RabbitMQ does where it can.

### Lifecycle

`StartSeq` and `StopSeq` list the awaits of `lifespan` and of the worker's `main`.
The outbox task is the control of `OutboxPublisher.run`: `created`, in a `batch`,
in its `sleep`, `closing` its channel, `ended`, or `raised`. `cancel` says whether
`outbox_task.cancel()` was called and its `CancelledError` delivered. Where it is
delivered decides what happens: in the sleep it leaves `run` at once, in a batch
it rolls back and closes the channel. `CancelOvertaken` is a rollback that fails
because the database is gone: its exception replaces `CancelledError`, `run` takes
it for an error of the batch and loops on, and `lifespan` waits for the task for
ever. `ShutdownTerminates` names this exception to the rule.
`raised` names the step of the last shutdown that raised, if one did, and `left` the
clients that were open when the process ended. `CleanShutdown` relates the two: if
nothing raised all clients were closed; a raise out of the task (its channel's
`close()`) or of Redis leaves all three, one of the AMQP connection that and the
pool, one of the pool only the pool.
A readiness probe is two awaits; `seen` records what the dependencies were while it
ran. Whether `is_closed` of a connection under repair is true depends on the
library's version, so both are allowed. `ReadinessHonest` claims what code and
documentation agree on: `ready` only if the database answered, `not_ready` only if
something was down. It says nothing of Redis, which the code does not count.

## Runs

| Run | Result | Shows |
|---|---|---|
| `outbox` | pass | two pods, two rows, a refusal or closure, two lost outcomes, clock skew: locks, retries, backoff, copies; every step is one of `WebhookDelivery`; every row is settled |
| `outbox_savepoint` | violation | a failing later row rolls back the mark of an earlier, published one |
| `outbox_channel` | violation | the rest of a batch is tried on a closed channel |
| `ingest` | pass | three requests, all kinds of deliveries, a pool of two, all failures: durability, uniqueness, cache, admission, journey |
| `ingest_push` | violation | a push event is answered 500 |
| `ingest_codec` | violation | an admitted event is answered 500 |
| `ingest_debounce` | violation | a superseded event is neither cancelled nor stale |
| `gateway` | pass | the composed pod with all failures: the webhook path is the environment `Outbox` assumes, only admitted events are sent, and every step is one of `WebhookDelivery` for the event, whichever request stored it |
| `gateway_live` | pass | if the broker does not hang for ever, events are settled, acknowledged ones are sent or given up, and requests are answered; internal queries are answered even if it does |
| `tenants` | pass | the age of a used configuration is bounded; refusals are never stale |
| `consumer` | pass | two consumers: no message lost, no slot leaked, duplicates only from lost channels, readable messages settled beside one that is requeued for ever |
| `lifecycle` | pass | the task outlives errors, nothing is used after it was closed, clean shutdown, honest probes; a signal ends the process |

The violations are disagreements between the code and its documentation;
PROJECT.json quotes both sides under "findings". Five more follow from single
lines of the code and need no run: `_emit` awaits the broker
(`services/vcs_gateway.py:263`), although the service document says "Journey
publishing never blocks webhook processing" (`docs/vcs_gateway_service.md:2706`);
nothing invalidates the tenant cache (documented at lines 2731 and 3459);
`nack(requeue=True)` is not limited (`queue/consumer.py:6` says "up to prefetch
limit"); a probe that is not ready answers HTTP 200 (documented as 503 at line
1563); and it answers ready while Redis is down (`api/health.py:29` says "only if
all dependencies are healthy").

**Bounds.** Two rows in a batch of two are the least for which an earlier and a
later row of one batch exist; two pods the least for which they compete. With
`MaxRetries` = 2, `MaxRefusals` = 1 and `MaxLosses` = 2 a row can use up its
attempts, and a failure can hit the recovery from another; larger numbers repeat
these cases, and the safety properties are proved for all of them. Three requests
allow a race of two deliveries with a third request observing it; a pool of two
makes the third wait. `MaxTime` bounds the clock of `Ingest`, where time only decides
`dispatch_at`. `Gateway` runs with two requests, which is a race for one key, and one
publisher on two connections; two attempts per row, one refusal and one loss. The
broker hangs once in `gateway_live` and never in `gateway`: a hang only disables
steps, so it can reach no state that the safety properties would not see without it.
`Tenants` has three requests, so that one may fill the cache between another
one's SELECT and SETEX and a third use the result, a TTL of 2, a `Lag` of 1 and a
clock that runs past their sum. `Consumer` has two messages, of which the unreadable
one is first in the queue, one slot for each of two consumers, and two lost channels,
so that a message that is delivered again is lost again. If unreadable messages
could fill all slots, nothing else would be delivered: this is the premise of
`ReadableSettled`. `Lifecycle` has two starts and three changes of the
dependencies: one may fail and come back while another is down. Symmetry is used
over requests and rows in the runs `ingest`, `gateway` and `tenants`, never where
a liveness property is checked.

**Fairness.** `Outbox`: weak fairness of the steps of each pod (`run` loops
forever; database calls end by `command_timeout`; AMQP calls are made without a
timeout, so that they return or raise is an assumption about aio_pika), of `Restart` (the orchestrator
replaces pods and PostgreSQL ends dead sessions) and of time. No fairness is
assumed of a particular outcome: refusals and losses are bounded, not unfair.
`Gateway`: the event loop resumes a coroutine whose await completed, and a waiter for
a connection or a key proceeds when it stays available, so each request's steps, the
steps of the publisher and time are weakly fair; the
broker may hang for ever, and the properties that need it to answer say so
(`BrokerAnswers`).
`Consumer`: weak fairness of starting, reconnecting and exiting (the orchestrator
and aio_pika), and of each message's tasks (the event loop); strong fairness of
`Deliver`, since RabbitMQ pushes the head of the queue whenever a slot is free, and
slots become free again and again. `Lifecycle`: weak fairness of the lifespan
handler, of the outbox task and of the probe; closing calls are assumed to return
or raise. Deadlock is checked in all runs;
`PollNothing`, `Idle` and `Done` are the idle steps of the servers.

## Proofs

All theorems are for arbitrary `Rows`, `Keys`, pods, deliveries and bounds, under
the assumptions stated in the modules: constants are numbers of the right kind,
every delivery has a key in `Keys`, and `BackoffAssumption`, which says that the
backoff is a natural number (the provers know nothing of `^`; TLC evaluates it).
`GatewayAssumption` repeats them for the composed pod. TLC evaluates all of them on
the instances of the runs.

*Outbox.* `TypeOK` is inductive by itself. `LockDiscipline` carries the rest: the
rows in a view are due in the committed table, no two pods hold the same row, and
a row the loop has not settled is in the view exactly as committed. It needs
`VersionsConstant` (all versions are 1, so `schedule_event` cancels nothing and
cannot change a locked row under a batch). `PublishOnlyWhenDue` follows from it at
once. For retries the strengthening is `ViewsOneAttemptAhead`: a row of a view
differs from the committed row by at most one attempt, so a commit charges at most
one; `RetryBudget` and `BackoffRespected` follow. `KeysArePermanent` says that no
step removes a row or changes its key; views must keep the keys of the rows they copy. For duplicates it is
`CopiesAccounted`: of the copies of a row at the broker, one is paid for by a record of
its delivery, committed or in the view of a live pod, and every other one by a lost outcome.

*Ingest.* `StorageConsistent` relates the two tables, and states that a transaction
about to commit has a key that is neither stored nor in another transaction's
hands; this is what the unique index contributes, and it makes `OneEventPerKey`
inductive. `EvidenceSound` says that whoever is about to report an event as stored,
or has, is right; with `CacheSound` it is inductive because stored keys stay
stored. The proof has one lemma for steps that leave the tables alone and one for
commits. `AdmissionEnforced` tracks what a request in each stage has passed, and
`JourneyMatchesStage` what it has announced. Two lemmas say what else the invariant
survives: a table whose rows change but keep their keys (`TableUpdate`), and the
death of a process with any of its requests, also one that has announced its last
step and not yet answered (`ProcessDies`).

*OutboxDelivery.* `PublisherImplementsDelivery` shows that every step of `Outbox` is
a step of `WebhookDelivery` or a stutter, from the invariants above: a commit
settles rows that were scheduled, because `LockDiscipline` ties the view to the
committed table, and settles them as DISPATCHED only if they were sent, by
`DispatchedWasPublished`; a publish finds its row scheduled for the same reason.

*Tenants.* `RecentInv` dates what is in flight: a request in stage `fill` carries a
configuration that was current when it read it, at most `Lag` ago; so a cache entry
that expires at time e was current at e - TTL - Lag; so a request that took it from
the cache carries one that was current TTL + Lag before it read it. The sum is the
bound of `StalenessBounded`. `NoStaleRefusal` needs that every cached entry is of an
active tenant.

*Consumer.* `ConsumerInv`: queues are declared before anything is consumed; only a
started consumer with an open channel holds deliveries, and each of them has a task
on that channel; a task about to ack has processed. `NothingLost` and
`SlotsAccounted` follow. `Paid` is a ledger for duplicates: the outcomes of a
message, its place in the queue and the tasks that may still decide it are together
at most one more than the lost channels.

*Lifecycle.* `LifeInv` has one group of clauses for the process and one for the
probe. `DownIsEmpty`: a process that is down has no client and no task.
`StartInOrder`: what is open during the start is what the steps before the current
one opened, and there is no task yet. `ServingIsComplete`: a
serving API has everything open and a task that runs and was not cancelled, which is
`PublisherAlive`. `StopInOrder`: clients are closed only behind the step that awaits
the task, so a task that is in a batch or closes its channel has its pool and its
connection; this is `NoUseAfterClose`. It needs that every way out of `run` other
than the cancellation leads back into its loop. `CleanShutdown` is then kept by
each step of the shutdown: `StopInOrder` says what is still open at the step that
raises, and `NotYetRaised`, that a process which has not ended has not raised. For the probe,
`ProbeSees` says that a verdict of the first check is backed by `seen` while the
second check runs; `ReadinessHonest` follows when it answers.

*Gateway.* The proof composes the others. `GatewayInv` is the invariant of
`Ingest_proofs` for the requests (`WebInv`), the one of `OutboxDelivery_proofs` with
the permanence of keys for the publisher (`PubInv`), and three clauses of its own:
open webhook transactions are at most `TxLag` old, the broker has copies of committed
rows only, and the types of the broker's state. Each half is the environment of the
other:

- *Requests for the publisher* (`StepIsPublisherStep`). A commit of a request is
  `Schedule` of `Outbox`: by `WebInv` the row is new and its key is in `Keys`, by
  `TransactionsRecent` the transaction began at most `TxLag` ago. All other steps of
  requests are invisible to `Outbox`. This gives `PublisherEnvironment`, that is
  `ImplementsOutbox`, and keeps `PubInv`.
- *The publisher for the requests* (`NextWebInv`). A batch writes rows it has locked,
  which exist, and changes no key: a `TableUpdate` of `Ingest`. A crash of the pod is
  a `ProcessDies`. So `WebInv` is kept, and `RequestsUndisturbed` holds: what `ingest`
  checks for requests alone is true while a publisher commits to the same table.
- *Events are keys* (`EndToEndDelivery`). By `WebInv` a key has at most one row, and by
  `KeysArePermanent` keeps it. So a step that `OutboxDelivery` allows for rows is one
  that `WebhookDelivery` allows for keys; that a new row is the first of its key, and
  has no copy at the broker, makes its commit an `Accept`.
- `OnlyAdmittedReachBroker` joins both: what was sent is committed, and what is
  committed was admitted.

`Gateway_proofs` instantiates the proof modules of its parts (`WebP`, `PubP`); the
first lemmas say that their definitions and those of the instances in `Gateway`
(`Web`, `Pub`) are the same, and the assumptions of the parts are discharged from
`GatewayAssumption` wherever one of their lemmas is cited.

Only model-checked: the liveness properties (`EventuallySettled`, `EventsSettled`,
`EveryRequestAnswered`, `AcknowledgedIsDelivered`, `QueriesAnswered`,
`ReadableSettled`, `ShutdownTerminates`), since the prover has neither fairness nor
ENABLED; absence of deadlock; and the value of the backoff. Every safety invariant and
every action property or refinement that a passing run checks is also a theorem.

## Not modelled

Formatting, payload contents, HMAC and SHA-256 (a delivery is signed or not; keys
do not collide), logging, telemetry, configuration, migrations other than the two
tables, `tenant_vcs_config_repository` and `redis.client.is_stale` (no caller),
the routing of `create_app`, the exception handlers for exceptions that nothing
raises, seed data. Of RabbitMQ only what the code relies on: confirms, prefetch,
redelivery, dead letters. The publisher's `self._channel = None` leaves a channel to
the library; whether it is ever closed is not settled here.
Messages are not published as persistent, and FAILED rows are not looked at again
by any code: what happens after the broker or after FAILED is outside the models.

## Plan

Modelled as planned: `OutboxTable`, `Outbox`, `Ingest`, `WebhookDelivery`,
`OutboxDelivery`, `Gateway`, `Tenants`, `Consumer`, `Lifecycle`. Proved: the safety
properties of all of them. Open, in this order:

1. The pool: that requests and batches together never use more connections than it
   has, for every instance (needs cardinalities of the sets of users).
2. Lemmas towards liveness that are safety properties: whatever a request or a batch
   waits for is held by somebody who does not wait for it in turn.
3. `Tenants` as the tenant of a delivery in `Ingest`: a refinement of `ResolveTenant`.
