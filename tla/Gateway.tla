------------------------------ MODULE Gateway ------------------------------
(***************************************************************************)
(* One pod of the gateway as main.py puts it together: the webhook path    *)
(* (Ingest) and the outbox publisher (Outbox) on one event table, one      *)
(* connection pool and one RabbitMQ connection.                            *)
(*                                                                         *)
(* The rows that webhook transactions insert are the rows the publisher    *)
(* dispatches.  A batch holds a pool connection from BEGIN to COMMIT, its  *)
(* network calls included.  A request that emits a journey step awaits the *)
(* broker; it holds no connection then.  The broker may stop answering     *)
(* without closing anything, and nothing here uses a timeout on it.        *)
(***************************************************************************)
EXTENDS Integers, FiniteSets

CONSTANTS
    Rows, Keys, Debounce, MaxRetries,                     \* see OutboxTable
    Deliveries, Whitelist, PoolMax, JsonCodec, MayFail,   \* see Ingest
    MaxTime,
    Dispatchers, NoRow, BatchSize, MaxBackoff, TxLag,     \* see Outbox
    Skew, MaxRefusals, MaxLosses,
    MaxHangs     \* bound on how often the broker stops answering

VARIABLES
    outbox, now,
    stage, job, result, began, inbound, idem, journey,
    pc, view, todo, cur, chan, exch, published, refusals, losses,
    emitting,    \* requests that await BasePublisher.publish
    broker,      \* "up", or "hung": calls neither return nor raise
    hangs        \* how often the broker has hung

Web == INSTANCE Ingest

Pub == INSTANCE Outbox

(* What Ingest, Outbox and OutboxTable assume of these constants. *)
ASSUME GatewayAssumption ==
    /\ Debounce \in Nat /\ MaxRetries \in Nat \ {0}
    /\ Deliveries \subseteq Web!Delivery
    /\ \A j \in Deliveries : Web!PrHashKey(j) \in Keys
    /\ PoolMax \in Nat \ {0}
    /\ JsonCodec \in BOOLEAN /\ MayFail \in BOOLEAN /\ MaxTime \in Nat
    /\ NoRow \notin Rows
    /\ BatchSize \in Nat \ {0}
    /\ TxLag \in Nat /\ Skew \in Nat
    /\ MaxRefusals \in Nat /\ MaxLosses \in Nat /\ MaxHangs \in Nat
    /\ \A n \in 0 .. MaxRetries : Pub!Backoff(n) \in Nat

brokerVars == <<emitting, broker, hangs>>
webVars == <<stage, job, result, began, inbound, idem, journey>>
pubVars == <<pc, view, todo, cur, chan, exch, published, refusals, losses>>
vars == <<outbox, now, webVars, pubVars, brokerVars>>

TypeOK ==
    /\ Web!TypeOK
    /\ Pub!TypeOK
    /\ emitting \subseteq Rows
    /\ broker \in {"up", "hung"}
    /\ hangs \in Nat

Init ==
    /\ Web!Init
    /\ Pub!Init
    /\ emitting = {}
    /\ broker = "up"
    /\ hangs = 0

-----------------------------------------------------------------------------
(* The connection pool.                                                    *)

(* The dispatchers that are inside `async with self._pool.acquire()'. *)
InBatch == {d \in Dispatchers : pc[d] \in {"fetched", "loop", "mark", "handle"}}

(* Faulty variant of InUse: a request keeps its connection while it emits. *)
InUseWhileEmitting ==
    Cardinality(Web!Connected) + Cardinality(InBatch) + Cardinality(emitting)

InUse == Cardinality(Web!Connected) + Cardinality(InBatch)

PoolFree == InUse < PoolMax

-----------------------------------------------------------------------------
(* Requests.                                                               *)

Running == \A d \in Dispatchers : pc[d] # "stopped"

Arrive(r, j) ==
    /\ Running
    /\ Web!Receive(r, j)
    /\ UNCHANGED <<pubVars, brokerVars>>

(* A step of a request.  The stages that begin with a database call wait   *)
(* for a connection; a request whose step emitted has to wait for the      *)
(* broker before its next one.                                             *)
Serve(r) ==
    /\ r \notin emitting
    /\ stage[r] \in {"tenant", "lookup", "refetch", "acquire"} => PoolFree
    /\ Web!Serve(r)
    /\ emitting' = IF journey'[r] = journey[r] THEN emitting ELSE emitting \cup {r}
    /\ UNCHANGED <<pubVars, broker, hangs>>

(* _emit returns: the publish of its step succeeded, or raised and was     *)
(* logged.                                                                 *)
EmitReturns(r) ==
    /\ r \in emitting
    /\ broker = "up"
    /\ emitting' = emitting \ {r}
    /\ UNCHANGED <<outbox, now, webVars, pubVars, broker, hangs>>

(* A statement fails, or the answer to a COMMIT is lost. *)
RequestFails(r) ==
    /\ r \notin emitting
    /\ Web!DbError(r) \/ Web!CommitUnknown(r)
    /\ UNCHANGED <<pubVars, brokerVars>>

Expire(k) ==
    /\ Web!Expire(k)
    /\ UNCHANGED <<pubVars, brokerVars>>

(* Answered: the handler has returned or raised. *)
Answered(r) == stage[r] = "done" /\ r \notin emitting

-----------------------------------------------------------------------------
(* The publisher.                                                          *)

(* Its database calls before a batch need a connection of the pool; its    *)
(* calls to the broker need a broker that answers.                         *)
Work(d) ==
    /\ \/ PoolFree /\ (Pub!PollNothing(d) \/ Pub!Fetch(d))
       \/ (broker = "up" \/ chan[d] = "open") /\ Pub!GetExchange(d)
       \/ /\ broker = "up"
          /\ \E r \in Rows : Pub!Publish(d, r) \/ Pub!PublishRefused(d, r)
       \/ \E r \in Rows : Pub!PublishOnClosed(d, r)
       \/ Pub!MarkDispatched(d)
       \/ Pub!HandleFailure(d)
       \/ Pub!CommitBatch(d)
    /\ UNCHANGED <<webVars, brokerVars>>

PublisherFails(d) ==
    /\ \/ \E r \in Rows : Pub!ConfirmLost(d, r)
       \/ Pub!CommitUnknown(d)
       \/ Pub!BatchFails(d)
       \/ Pub!ChannelCloses(d)
       \/ broker = "up" /\ Pub!ChannelReopens(d)
    /\ UNCHANGED <<webVars, brokerVars>>

-----------------------------------------------------------------------------
(* The pod, the broker and the clock.                                      *)

(* The process dies, with the publisher task and every request in it. *)
PodCrashes ==
    /\ \E d \in Dispatchers : Pub!Stop(d)
    /\ stage' = [r \in Rows |-> IF stage[r] = "new" \/ Answered(r) THEN stage[r]
                                ELSE "crashed"]
    /\ result' = [r \in Rows |-> IF Answered(r) THEN result[r] ELSE "none"]
    /\ emitting' = {}
    /\ UNCHANGED <<job, began, inbound, idem, journey, broker, hangs>>

PodRestarts(d) ==
    /\ Pub!Restart(d)
    /\ UNCHANGED <<webVars, brokerVars>>

BrokerHangs ==
    /\ broker = "up"
    /\ hangs < MaxHangs
    /\ hangs' = hangs + 1
    /\ broker' = "hung"
    /\ UNCHANGED <<outbox, now, webVars, pubVars, emitting>>

BrokerRecovers ==
    /\ broker = "hung"
    /\ broker' = "up"
    /\ UNCHANGED <<outbox, now, webVars, pubVars, emitting, hangs>>

(* Time passes; no webhook transaction stays open longer than TxLag. *)
Tick ==
    /\ \A r \in Web!Connected : now - began[r] < TxLag
    /\ Pub!Tick
    /\ UNCHANGED <<webVars, brokerVars>>

Next ==
    \/ \E r \in Rows, j \in Deliveries : Arrive(r, j)
    \/ \E r \in Rows : Serve(r) \/ EmitReturns(r) \/ RequestFails(r)
    \/ \E k \in idem : Expire(k)
    \/ \E d \in Dispatchers : Work(d) \/ PublisherFails(d) \/ PodRestarts(d)
    \/ PodCrashes
    \/ BrokerHangs
    \/ BrokerRecovers
    \/ Tick

Spec == Init /\ [][Next]_vars

(* The event loop resumes every coroutine whose await has completed, time  *)
(* passes and stopped pods are replaced.  Nothing is said of the broker,   *)
(* which may hang for ever.                                                *)
Fairness ==
    /\ WF_vars(Tick)
    /\ \A r \in Rows : WF_vars(Serve(r)) /\ WF_vars(EmitReturns(r))
    /\ \A d \in Dispatchers : WF_vars(Work(d)) /\ WF_vars(PodRestarts(d))

FairSpec == Spec /\ Fairness

-----------------------------------------------------------------------------
(* Properties.                                                             *)

(* The publisher meets in the gateway what Outbox assumes of its           *)
(* environment: seen through the variables of Outbox, every step of the    *)
(* pod is a step of Outbox.  In particular the rows webhook transactions   *)
(* commit are new, carry a key, began at most TxLag ago, and disturb no    *)
(* row a batch has locked.                                                 *)
ImplementsOutbox == Pub!Spec

(* The rows of one event, whichever request stored it. *)
RowsOf(k) == {r \in DOMAIN outbox : outbox[r].pr_hash_key = k}

KeyStatus(k) ==
    IF RowsOf(k) = {} THEN "absent" ELSE outbox[CHOOSE r \in RowsOf(k) : TRUE].status

KeyCopies(k) ==
    IF RowsOf(k) = {} THEN 0 ELSE published[CHOOSE r \in RowsOf(k) : TRUE]

EventDelivery == INSTANCE WebhookDelivery
    WITH Events <- Keys,
         status <- [k \in Keys |-> KeyStatus(k)],
         copies <- [k \in Keys |-> KeyCopies(k)]

(* The broker does not hang for ever. *)
BrokerAnswers == []<>(broker = "up")

(* End to end, an event is its key: however often it is delivered to the   *)
(* gateway and whatever fails, it is accepted once, sent at least once or  *)
(* given up, and settled once.                                             *)
ImplementsDelivery == EventDelivery!Spec

(* It does not stay scheduled for ever either, if the broker answers again. *)
EventsSettled == BrokerAnswers => EventDelivery!Live

(* The broker receives only events of webhooks that passed every gate and  *)
(* are stored, under the key of the request that stored them.              *)
OnlyAdmittedSent ==
    \A r \in Rows : published[r] > 0 =>
        /\ r \in inbound
        /\ job[r].kind = "webhook" /\ Web!Admissible(job[r])
        /\ outbox[r].pr_hash_key = Web!Key(r)

(* A 202, or a 200 for a duplicate, is kept: the event reaches the broker  *)
(* or uses up its attempts, although the request that was told so may be   *)
(* another than the one that stored the event, and the pod may crash in    *)
(* between.                                                                *)
AcknowledgedIsDelivered ==
    BrokerAnswers =>
        \A k \in Keys :
            (\E r \in Rows : Answered(r) /\ Web!Acknowledged(r) /\ Web!Key(r) = k)
                ~> \E q \in RowsOf(k) :
                      published[q] > 0 \/ outbox[q].status = "FAILED"

(* Every request is answered once the broker answers: requests that wait   *)
(* for a connection, for the key of another transaction or for the broker, *)
(* and the batch of the publisher, never wait on each other in a circle.   *)
EveryRequestAnswered ==
    BrokerAnswers =>
        \A r \in Rows :
            stage[r] # "new" ~> Answered(r) \/ stage[r] = "crashed"

(* A request that needs only the database is answered even while the       *)
(* broker hangs for ever: of the connections in the pool, the batch stuck  *)
(* in its network call keeps one, and the requests stuck in _emit none.    *)
QueriesAnswered ==
    Cardinality(Dispatchers) < PoolMax =>
        \A r \in Rows :
            stage[r] # "new" /\ job[r].kind = "query"
                ~> Answered(r) \/ stage[r] = "crashed"
=============================================================================
