----------------------------- MODULE Lifecycle -----------------------------
(***************************************************************************)
(* Start, shutdown and readiness of one process: the lifespan handler of   *)
(* the API (main.py) with the outbox task it owns, and main of the worker  *)
(* (worker.py), which opens and closes the same clients without a task.    *)
(*                                                                         *)
(* The database, the broker and Redis come and go.  A signal may arrive at *)
(* any time, a probe of /health/ready may run at any time while the API    *)
(* serves, and closing anything may raise.                                 *)
(***************************************************************************)
EXTENDS Naturals, Sequences

CONSTANTS
    MaxChanges, \* bound on changes of the dependencies
    MaxStarts   \* bound on how often the process is started

ASSUME LifecycleAssumption == MaxChanges \in Nat /\ MaxStarts \in Nat

Deps == {"database", "broker", "redis"}
Clients == {"pool", "amqp", "redis"}

VARIABLES
    up,        \* up[d]: dependency d answers
    kind,      \* "api" or "worker"
    phase,     \* "down", "starting", "serving", "stopping"
    step,      \* how many steps of the start, or of the shutdown, are done
    signalled, \* SIGTERM has been received
    open,      \* the clients that are open
    task,      \* the outbox task
    cancel,    \* outbox_task.cancel(): "no", "pending", "delivered"
    chan,      \* the channel cached by the outbox publisher
    raised,    \* history: the step of the last shutdown that raised, or "no"
    overtaken, \* history: an error replaced the cancellation of the task
    left,      \* history: clients not closed when the last shutdown ended
    probe,     \* the await /health/ready is suspended at, or "idle"
    checks,    \* checks[d]: what the probe found
    seen,      \* history: <<d, b>>: up[d] was b while the probe ran
    answer,    \* the last answer of the probe
    starts, changes

processVars == <<kind, phase, step, signalled, open, raised, left, starts>>
taskVars == <<task, cancel, chan>>
probeVars == <<probe, checks, seen, answer>>
vars == <<up, processVars, taskVars, overtaken, probeVars, changes>>

(* What lifespan and main await to start, and to shut down, in order. *)
StartSeq == IF kind = "api" THEN <<"pool", "amqp", "redis", "task">>
                            ELSE <<"pool", "amqp", "redis">>

(* Faulty variants of StopSeq: the clients are closed first; the pool is   *)
(* forgotten.                                                              *)
StopSeqTaskLast == IF kind = "api" THEN <<"redis", "amqp", "pool", "task">>
                                   ELSE <<"redis", "amqp", "pool">>

StopSeqNoPool == IF kind = "api" THEN <<"task", "redis", "amqp">>
                                 ELSE <<"redis", "amqp">>

StopSeq == IF kind = "api" THEN <<"task", "redis", "amqp", "pool">>
                           ELSE <<"redis", "amqp", "pool">>

(* The dependency a client connects to when it is created: the Redis       *)
(* client connects on first use.                                           *)
Needs(client) == CASE client = "pool" -> {"database"}
                   [] client = "amqp" -> {"broker"}
                   [] OTHER -> {}

NoAnswer == [status |-> "none", http |-> 0]

Answers == [status : {"ready", "not_ready"}, http : {200}] \cup {NoAnswer}

TypeOK ==
    /\ up \in [Deps -> BOOLEAN]
    /\ kind \in {"api", "worker"}
    /\ phase \in {"down", "starting", "serving", "stopping"}
    /\ step \in 0 .. 4
    /\ signalled \in BOOLEAN
    /\ open \subseteq Clients
    /\ task \in {"none", "created", "batch", "sleep", "closing", "ended", "raised"}
    /\ cancel \in {"no", "pending", "delivered"}
    /\ overtaken \in BOOLEAN
    /\ chan \in {"none", "open", "closed"}
    /\ raised \in {"no", "task"} \cup Clients
    /\ left \subseteq Clients
    /\ probe \in {"idle", "database", "redis"}
    /\ checks \in [Deps -> BOOLEAN]
    /\ seen \subseteq Deps \X BOOLEAN
    /\ answer \in Answers
    /\ starts \in Nat
    /\ changes \in Nat

Init ==
    /\ up = [d \in Deps |-> TRUE]
    /\ kind \in {"api", "worker"}
    /\ phase = "down"
    /\ step = 0
    /\ signalled = FALSE
    /\ open = {}
    /\ task = "none"
    /\ cancel = "no"
    /\ overtaken = FALSE
    /\ chan = "none"
    /\ raised = "no"
    /\ left = {}
    /\ probe = "idle"
    /\ checks = [d \in Deps |-> FALSE]
    /\ seen = {}
    /\ answer = NoAnswer
    /\ starts = 0
    /\ changes = 0

-----------------------------------------------------------------------------
(* Start.                                                                  *)

Launch ==
    /\ phase = "down"
    /\ starts < MaxStarts
    /\ starts' = starts + 1
    /\ phase' = "starting"
    /\ step' = 0
    /\ signalled' = FALSE
    /\ raised' = "no"
    /\ left' = {}
    /\ overtaken' = FALSE
    /\ UNCHANGED <<up, kind, open, taskVars, probeVars, changes>>

(* The next client is created, or the outbox task. *)
StartStep ==
    /\ phase = "starting"
    /\ step < Len(StartSeq)
    /\ LET s == StartSeq[step + 1] IN
         /\ \A d \in Needs(s) : up[d]
         /\ open' = open \cup ({s} \cap Clients)
         /\ task' = IF s = "task" THEN "created" ELSE task
    /\ IF step + 1 = Len(StartSeq)
       THEN phase' = "serving" /\ step' = 0
       ELSE phase' = phase /\ step' = step + 1
    /\ UNCHANGED <<up, kind, signalled, raised, left, starts, cancel, chan, overtaken,
                   probeVars, changes>>

(* The process is gone, and what it held. *)
ProcessEnds ==
    /\ phase' = "down"
    /\ step' = 0
    /\ open' = {}
    /\ task' = "none"
    /\ cancel' = "no"
    /\ chan' = "none"
    /\ probe' = "idle"
    /\ seen' = {}
    /\ answer' = NoAnswer
    /\ UNCHANGED <<up, kind, signalled, starts, overtaken, checks, changes>>

(* A client cannot be created: the start raises and nothing is closed. *)
StartFails ==
    /\ phase = "starting"
    /\ step < Len(StartSeq)
    /\ \E d \in Needs(StartSeq[step + 1]) : ~up[d]
    /\ ProcessEnds
    /\ UNCHANGED <<raised, left>>

(* SIGTERM.  During the start it is only noted. *)
Signal ==
    /\ phase \in {"starting", "serving"}
    /\ ~signalled
    /\ signalled' = TRUE
    /\ UNCHANGED <<up, kind, phase, step, open, raised, left, starts, taskVars, overtaken,
                   probeVars, changes>>

Killed ==
    /\ phase # "down"
    /\ ProcessEnds
    /\ UNCHANGED <<raised, left>>

-----------------------------------------------------------------------------
(* Shutdown.                                                               *)

(* The API has answered its last request, or the worker's wait returns. *)
StopBegins ==
    /\ phase = "serving"
    /\ signalled
    /\ probe = "idle"
    /\ phase' = "stopping"
    /\ step' = 0
    /\ UNCHANGED <<up, kind, signalled, open, raised, left, starts, taskVars, overtaken,
                   probeVars, changes>>

(* outbox_task.cancel(). *)
CancelTask ==
    /\ phase = "stopping"
    /\ StopSeq[step + 1] = "task"
    /\ cancel = "no"
    /\ cancel' = "pending"
    /\ UNCHANGED <<up, processVars, task, chan, overtaken, probeVars, changes>>

(* The await of a step returns: `await outbox_task' when the task has      *)
(* ended, with CancelledError suppressed, and the pool's close() when all  *)
(* its connections are released.                                           *)
Returns(s) ==
    /\ s = "task" => cancel # "no" /\ task = "ended"
    /\ s = "pool" => task # "batch"

StopStep ==
    /\ phase = "stopping"
    /\ Returns(StopSeq[step + 1])
    /\ open' = open \ {StopSeq[step + 1]}
    /\ step + 1 < Len(StopSeq)
    /\ step' = step + 1
    /\ UNCHANGED <<up, kind, phase, signalled, raised, left, starts, taskVars, overtaken,
                   probeVars, changes>>

(* The last one: the process ends. *)
StopEnds ==
    /\ phase = "stopping"
    /\ step + 1 = Len(StopSeq)
    /\ Returns(StopSeq[step + 1])
    /\ left' = open \ {StopSeq[step + 1]}
    /\ ProcessEnds
    /\ UNCHANGED raised

(* A step raises: the rest of the shutdown is skipped. *)
StopRaises ==
    /\ phase = "stopping"
    /\ StopSeq[step + 1] = "task" => cancel # "no" /\ task = "raised"
    /\ raised' = StopSeq[step + 1]
    /\ left' = open
    /\ ProcessEnds

-----------------------------------------------------------------------------
(* The outbox task: OutboxPublisher.run.                                   *)

TaskStep == UNCHANGED <<up, processVars, probeVars, changes>>

(* The task begins, or wakes up; a cancellation is raised there, outside   *)
(* the try block.                                                          *)
WakeUp ==
    /\ task \in {"created", "sleep"}
    /\ IF cancel = "pending" THEN task' = "ended" /\ cancel' = "delivered"
                             ELSE task' = "batch" /\ UNCHANGED cancel
    /\ UNCHANGED <<chan, overtaken>>
    /\ TaskStep

(* In _process_batch, _get_exchange opens a channel, or a row that could   *)
(* not be dispatched makes the publisher forget it.                        *)
BatchChannel ==
    /\ task = "batch"
    /\ cancel # "pending"
    /\ \/ chan # "open" /\ up["broker"] /\ chan' = "open"
       \/ chan # "none" /\ chan' = "none"
    /\ UNCHANGED <<task, cancel, overtaken>>
    /\ TaskStep

(* _process_batch returns. *)
BatchReturns ==
    /\ task = "batch"
    /\ cancel # "pending"
    /\ up["database"]
    /\ task' = "sleep"
    /\ UNCHANGED <<cancel, chan, overtaken>>
    /\ TaskStep

(* Faulty variant of BatchRaises: no `except Exception' in run. *)
BatchRaisesEnds ==
    /\ task = "batch"
    /\ cancel # "pending"
    /\ task' = "raised"
    /\ chan' = "none"
    /\ UNCHANGED <<cancel, overtaken>>
    /\ TaskStep

(* _process_batch raises: the channel is forgotten and the loop goes on. *)
BatchRaises ==
    /\ task = "batch"
    /\ cancel # "pending"
    /\ task' = "sleep"
    /\ chan' = "none"
    /\ UNCHANGED <<cancel, overtaken>>
    /\ TaskStep

(* Faulty variant of BatchCancelled: `except BaseException' in run.        *)
BatchCancelSwallowed ==
    /\ task = "batch"
    /\ cancel = "pending"
    /\ cancel' = "delivered"
    /\ task' = "sleep"
    /\ chan' = "none"
    /\ UNCHANGED overtaken
    /\ TaskStep

(* CancelledError in _process_batch: the transaction is rolled back, its   *)
(* connection released, and an open channel is closed.                     *)
BatchCancelled ==
    /\ task = "batch"
    /\ cancel = "pending"
    /\ cancel' = "delivered"
    /\ task' = IF chan = "open" THEN "closing" ELSE "ended"
    /\ UNCHANGED <<chan, overtaken>>
    /\ TaskStep

(* The rollback raises since the database is gone.  Its exception replaces *)
(* the CancelledError, so run takes it for an error of the batch and goes  *)
(* on: the task is not cancelled any more.                                 *)
CancelOvertaken ==
    /\ task = "batch"
    /\ cancel = "pending"
    /\ ~up["database"]
    /\ cancel' = "delivered"
    /\ overtaken' = TRUE
    /\ task' = "sleep"
    /\ chan' = "none"
    /\ TaskStep

(* self._channel.close() returns, or raises out of run. *)
ChannelClosed ==
    /\ task = "closing"
    /\ task' \in {"ended", "raised"}
    /\ chan' = "closed"
    /\ UNCHANGED <<cancel, overtaken>>
    /\ TaskStep

(* The channel dies: the broker closed it or the connection was lost. *)
ChannelDies ==
    /\ chan = "open"
    /\ task # "closing"
    /\ chan' = "closed"
    /\ UNCHANGED <<task, cancel, overtaken>>
    /\ TaskStep

-----------------------------------------------------------------------------
(* GET /health/ready, and the dependencies.                                *)

(* A probe arrives; after the signal the server accepts none. *)
Probe ==
    /\ phase = "serving" /\ kind = "api"
    /\ ~signalled
    /\ probe = "idle"
    /\ probe' = "database"
    /\ seen' = {<<d, up[d]>> : d \in Deps}
    /\ answer' = NoAnswer
    /\ UNCHANGED <<up, processVars, taskVars, overtaken, checks, changes>>

(* SELECT 1 returns or raises, and is_closed of the connection is read: a  *)
(* connection that is being restored may not count as closed.              *)
ProbeDatabase ==
    /\ probe = "database"
    /\ \E closed \in BOOLEAN :
         /\ closed => ~up["broker"]
         /\ checks' = [checks EXCEPT !["database"] = up["database"], !["broker"] = ~closed]
    /\ probe' = "redis"
    /\ UNCHANGED <<up, processVars, taskVars, overtaken, seen, answer,
                   changes>>

(* Faulty variant of AllOk: any() in place of all(). *)
AllOkAny(found) == found["database"] \/ found["broker"]

(* "degraded" counts as well: Redis does not matter. *)
AllOk(found) == found["database"] /\ found["broker"]

(* Faulty variant of ProbeRedis: a failing PING is not caught. *)
ProbeRedisUncaught ==
    /\ probe = "redis"
    /\ checks' = [checks EXCEPT !["redis"] = up["redis"]]
    /\ answer' = [status |-> IF AllOk(checks) THEN "ready" ELSE "not_ready",
                  http |-> IF up["redis"] THEN 200 ELSE 500]
    /\ probe' = "idle"
    /\ UNCHANGED <<up, processVars, taskVars, overtaken, seen, changes>>

(* PING, and the answer, always with HTTP status 200. *)
ProbeRedis ==
    /\ probe = "redis"
    /\ LET found == [checks EXCEPT !["redis"] = up["redis"]] IN
         /\ checks' = found
         /\ answer' = [status |-> IF AllOk(found) THEN "ready" ELSE "not_ready", http |-> 200]
    /\ probe' = "idle"
    /\ UNCHANGED <<up, processVars, taskVars, overtaken, seen, changes>>

(* A dependency fails or comes back. *)
Flip(d) ==
    /\ changes < MaxChanges
    /\ changes' = changes + 1
    /\ up' = [up EXCEPT ![d] = ~@]
    /\ seen' = IF probe = "idle" THEN seen ELSE seen \cup {<<d, ~up[d]>>}
    /\ UNCHANGED <<processVars, taskVars, overtaken, probe, checks, answer>>

Done ==
    /\ phase = "down" /\ starts = MaxStarts
    /\ UNCHANGED vars

Main == \/ Launch \/ StartStep \/ StartFails
        \/ StopBegins \/ CancelTask \/ StopStep \/ StopEnds \/ StopRaises

Task == \/ WakeUp \/ BatchReturns \/ BatchRaises
        \/ BatchCancelled \/ CancelOvertaken \/ ChannelClosed

Next == \/ Main \/ Task \/ BatchChannel \/ ChannelDies \/ Signal \/ Killed
        \/ Probe \/ ProbeDatabase \/ ProbeRedis
        \/ \E d \in Deps : Flip(d)
        \/ Done

Spec == Init /\ [][Next]_vars

(* The lifespan handler, the outbox task and the probe are scheduled: each *)
(* of their awaits returns or raises.                                      *)
Fairness == /\ WF_vars(Main)
            /\ WF_vars(Task)
            /\ WF_vars(ProbeDatabase \/ ProbeRedis)

FairSpec == Spec /\ Fairness

-----------------------------------------------------------------------------
(* Properties.                                                             *)

(* The outbox task outlives every error of a batch: as long as the API     *)
(* serves, rows will be polled.  Nothing else would notice its end.        *)
PublisherAlive ==
    phase = "serving" /\ kind = "api" => task \in {"created", "batch", "sleep"}

(* The task never works on a client that was closed under it, wherever the *)
(* cancellation finds it.                                                  *)
NoUseAfterClose == task \in {"batch", "closing"} => {"pool", "amqp"} \subseteq open

(* A shutdown in which nothing raises closes every client.  A raise costs  *)
(* its own client and those behind it, never one before it: a redis or     *)
(* amqp connection whose close raises takes the pool with it, and so does  *)
(* the task, whose channel close may raise out of run.                     *)
CleanShutdown ==
    left = CASE raised = "no" -> {}
             [] raised \in {"task", "redis"} -> {"redis", "amqp", "pool"}
             [] raised = "amqp" -> {"amqp", "pool"}
             [] raised = "pool" -> {"pool"}

(* A signal ends the process, also one that arrives during the start or in *)
(* the middle of a batch, unless a failing rollback has overtaken the      *)
(* cancellation: then the lifespan handler awaits the task for ever.       *)
ShutdownTerminates == signalled ~> phase = "down" \/ overtaken

(* An answer of the probe is true of the time in which it ran, although    *)
(* its checks are separate awaits and dependencies change between them:    *)
(* "ready" only if the database answered, "not_ready" only if something    *)
(* was down.                                                               *)
ReadinessHonest ==
    probe = "idle" =>
        /\ answer.status = "ready" => <<"database", TRUE>> \in seen
        /\ answer.status = "not_ready" => \E d \in Deps : <<d, FALSE>> \in seen
=============================================================================
