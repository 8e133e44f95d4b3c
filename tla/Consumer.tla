------------------------------ MODULE Consumer ------------------------------
(***************************************************************************)
(* BaseConsumer, the base class of the queue consumers: start, stop and    *)
(* _on_message, with the RabbitMQ queue it works on.                       *)
(*                                                                         *)
(* The client library runs _on_message as a task of its own for every      *)
(* delivery, so up to prefetch_count of them interleave in a process.      *)
(* When a channel dies the broker delivers its unacknowledged messages     *)
(* again, but the tasks of the old channel keep running: their ack or nack *)
(* then raises.  `gen' tells the channels of a consumer apart.             *)
(***************************************************************************)
EXTENDS Naturals, Sequences, FiniteSets

CONSTANTS
    Consumers,    \* worker processes
    Messages,     \* numbered in the order in which they are published
    Malformed,    \* the messages whose body is not JSON
    Prefetch,     \* prefetch_count
    MaxTransient, \* bound on transient errors of process_message per message
    MaxDrops      \* bound on lost channels

ASSUME ConsumerAssumption ==
    /\ Messages \subseteq Nat
    /\ Malformed \subseteq Messages
    /\ Prefetch \in Nat \ {0}
    /\ MaxTransient \in Nat
    /\ MaxDrops \in Nat

VARIABLES
    state,     \* state[c]: "down", "up", "lost" (reconnecting), "stopped"
    started,   \* started[c]: how many steps of start c has done
    gen,       \* gen[c]: number of the channel of c
    handlers,  \* the _on_message tasks
    queues,    \* the declared queues, durable
    ready,     \* messages in the queue, not delivered
    unacked,   \* unacked[c]: messages delivered on the channel of c
    dlq,       \* messages in the dead-letter queue
    published, \* history: the messages that reached the queue
    successes, \* history: how often process_message(m) has returned
    refused,   \* history: messages process_message raised a ServiceError for
    requeued,  \* history: nacks of m with requeue, up to MaxTransient
    drops      \* how many channels were lost

consumerVars == <<state, started, gen>>
brokerVars == <<queues, ready, unacked, dlq, published>>
historyVars == <<successes, refused, requeued>>
vars == <<consumerVars, handlers, brokerVars, historyVars, drops>>

(* Faulty variants of StartSteps. *)
StartStepsDlqLast == <<"channel", "qos", "queue", "consume", "dlq">>
StartStepsQosLast == <<"channel", "queue", "dlq", "consume", "qos">>

(* The awaits of start, in order. *)
StartSteps == <<"channel", "qos", "queue", "dlq", "consume">>

Done(c, step) == \E i \in 1 .. started[c] : StartSteps[i] = step

Handler == [con : Consumers, msg : Messages, gen : Nat,
            st : {"run", "ack", "reject", "requeue"}]

(* The channel that delivered h's message is still open. *)
Current(h) == state[h.con] = "up" /\ h.gen = gen[h.con]

TypeOK ==
    /\ state \in [Consumers -> {"down", "up", "lost", "stopped"}]
    /\ started \in [Consumers -> 0 .. Len(StartSteps)]
    /\ gen \in [Consumers -> Nat]
    /\ handlers \subseteq Handler
    /\ queues \subseteq {"queue", "dlq"}
    /\ ready \subseteq Messages
    /\ unacked \in [Consumers -> SUBSET Messages]
    /\ dlq \subseteq Messages
    /\ published \subseteq Messages
    /\ successes \in [Messages -> Nat]
    /\ refused \subseteq Messages
    /\ requeued \in [Messages -> Nat]
    /\ drops \in Nat

Init ==
    /\ state = [c \in Consumers |-> "down"]
    /\ started = [c \in Consumers |-> 0]
    /\ gen = [c \in Consumers |-> 0]
    /\ handlers = {}
    /\ queues = {}
    /\ ready = {}
    /\ unacked = [c \in Consumers |-> {}]
    /\ dlq = {}
    /\ published = {}
    /\ successes = [m \in Messages |-> 0]
    /\ refused = {}
    /\ requeued = [m \in Messages |-> 0]
    /\ drops = 0

-----------------------------------------------------------------------------
(* The consumer.                                                           *)

(* The next await of start returns. *)
Start(c) ==
    /\ state[c] \in {"down", "up"}
    /\ started[c] < Len(StartSteps)
    /\ state' = [state EXCEPT ![c] = "up"]
    /\ started' = [started EXCEPT ![c] = @ + 1]
    /\ queues' = queues \cup ({StartSteps[started[c] + 1]} \cap {"queue", "dlq"})
    /\ UNCHANGED <<gen, handlers, ready, unacked, dlq, published, historyVars, drops>>

(* The broker takes back what was delivered on the channel of c. *)
CloseChannel(c) ==
    /\ gen' = [gen EXCEPT ![c] = @ + 1]
    /\ ready' = ready \cup unacked[c]
    /\ unacked' = [unacked EXCEPT ![c] = {}]
    /\ drops < MaxDrops
    /\ drops' = drops + 1

(* stop: the tasks that are still running keep running. *)
Stop(c) ==
    /\ state[c] \in {"up", "lost"}
    /\ state' = [state EXCEPT ![c] = "stopped"]
    /\ CloseChannel(c)
    /\ UNCHANGED <<started, handlers, queues, dlq, published, historyVars>>

(* Faulty variants of Handle: json.loads outside the try block; every      *)
(* exception taken for a ServiceError; a ServiceError requeued.            *)
HandleParseOutsideTry(h) ==
    /\ h.st = "run"
    /\ handlers' = (handlers \ {h}) \cup
                     {[h EXCEPT !.st = IF h.msg \in Malformed THEN "raised" ELSE "ack"]}
    /\ successes' = [successes EXCEPT ![h.msg] = IF h.msg \in Malformed THEN @ ELSE @ + 1]
    /\ UNCHANGED <<consumerVars, brokerVars, refused, requeued, drops>>

HandleCatchAll(h) ==
    /\ h.st = "run"
    /\ \E st \in {"ack", "reject"} :
         /\ handlers' = (handlers \ {h}) \cup {[h EXCEPT !.st = st]}
         /\ successes' = [successes EXCEPT ![h.msg] = IF st = "ack" THEN @ + 1 ELSE @]
    /\ UNCHANGED <<consumerVars, brokerVars, refused, requeued, drops>>

HandleBusinessRequeued(h) ==
    /\ h.st = "run"
    /\ \/ /\ refused' = refused \cup {h.msg}
          /\ handlers' = (handlers \ {h}) \cup {[h EXCEPT !.st = "requeue"]}
          /\ UNCHANGED successes
       \/ /\ h.msg \notin Malformed
          /\ successes' = [successes EXCEPT ![h.msg] = @ + 1]
          /\ handlers' = (handlers \ {h}) \cup {[h EXCEPT !.st = "ack"]}
          /\ UNCHANGED refused
    /\ UNCHANGED <<consumerVars, brokerVars, requeued, drops>>

(* _on_message up to ack or nack.  A body that is not JSON raises, which   *)
(* counts as a transient error.  Otherwise process_message returns (ack),  *)
(* raises a ServiceError (reject) or anything else (requeue).              *)
Handle(h) ==
    /\ h.st = "run"
    /\ \E st \in {"ack", "reject", "requeue"} :
         /\ h.msg \in Malformed => st = "requeue"
         /\ h.msg \notin Malformed /\ st = "requeue" => requeued[h.msg] < MaxTransient
         /\ handlers' = (handlers \ {h}) \cup {[h EXCEPT !.st = st]}
         /\ successes' = IF st = "ack" THEN [successes EXCEPT ![h.msg] = @ + 1] ELSE successes
         /\ refused' = IF st = "reject" THEN refused \cup {h.msg} ELSE refused
    /\ UNCHANGED <<consumerVars, brokerVars, requeued, drops>>

(* Faulty variant of Settle: a transient error is logged and forgotten.    *)
SettleForgets(h) ==
    /\ h.st # "run"
    /\ Current(h)
    /\ handlers' = handlers \ {h}
    /\ IF h.st = "requeue"
       THEN UNCHANGED <<unacked, dlq>>
       ELSE /\ unacked' = [unacked EXCEPT ![h.con] = @ \ {h.msg}]
            /\ dlq' = IF h.st = "reject" THEN dlq \cup {h.msg} ELSE dlq
    /\ UNCHANGED <<consumerVars, queues, ready, published, historyVars, drops>>

(* ack, nack(requeue=False) or nack(requeue=True) on the open channel.  A  *)
(* dead letter for a queue that does not exist is dropped.                 *)
Settle(h) ==
    /\ h.st # "run"
    /\ Current(h)
    /\ handlers' = handlers \ {h}
    /\ unacked' = [unacked EXCEPT ![h.con] = @ \ {h.msg}]
    /\ dlq' = IF h.st = "reject" /\ "dlq" \in queues THEN dlq \cup {h.msg} ELSE dlq
    /\ IF h.st = "requeue"
       THEN /\ ready' = ready \cup {h.msg}
            /\ requeued' = [requeued EXCEPT ![h.msg] = IF @ < MaxTransient THEN @ + 1 ELSE @]
       ELSE UNCHANGED <<ready, requeued>>
    /\ UNCHANGED <<consumerVars, queues, published, successes, refused, drops>>

(* The channel is gone: ack raises, and so does the nack that follows in   *)
(* the except clause; the task ends and the broker has the message.        *)
SettleFails(h) ==
    /\ h.st # "run"
    /\ ~Current(h)
    /\ handlers' = handlers \ {h}
    /\ UNCHANGED <<consumerVars, brokerVars, historyVars, drops>>

-----------------------------------------------------------------------------
(* The broker, the connection and the process.                             *)

(* A message reaches the queue. *)
Publish(m) ==
    /\ m \notin published
    /\ \A n \in Messages : n < m => n \in published
    /\ "queue" \in queues
    /\ published' = published \cup {m}
    /\ ready' = ready \cup {m}
    /\ UNCHANGED <<consumerVars, handlers, queues, unacked, dlq, historyVars, drops>>

(* The head of the queue is delivered; a requeued message is back at its   *)
(* original position.                                                      *)
Deliver(c, m) ==
    /\ state[c] = "up"
    /\ Done(c, "consume")
    /\ m \in ready /\ \A n \in ready : m <= n
    /\ Done(c, "qos") => Cardinality(unacked[c]) < Prefetch
    /\ ready' = ready \ {m}
    /\ unacked' = [unacked EXCEPT ![c] = @ \cup {m}]
    /\ handlers' = handlers \cup {[con |-> c, msg |-> m, gen |-> gen[c], st |-> "run"]}
    /\ UNCHANGED <<consumerVars, queues, dlq, published, historyVars, drops>>

(* The connection of c is lost.  A consumer that has started is restored   *)
(* by the robust connection; otherwise start raises and the process ends.  *)
Drop(c) ==
    /\ state[c] = "up"
    /\ CloseChannel(c)
    /\ IF Done(c, "consume")
       THEN state' = [state EXCEPT ![c] = "lost"] /\ UNCHANGED started
       ELSE /\ state' = [state EXCEPT ![c] = "down"]
            /\ started' = [started EXCEPT ![c] = 0]
    /\ UNCHANGED <<handlers, queues, dlq, published, historyVars>>

Reconnect(c) ==
    /\ state[c] = "lost"
    /\ state' = [state EXCEPT ![c] = "up"]
    /\ UNCHANGED <<started, gen, handlers, brokerVars, historyVars, drops>>

(* The process of c ends after stop: its tasks end with it. *)
Exit(c) ==
    /\ state[c] = "stopped"
    /\ state' = [state EXCEPT ![c] = "down"]
    /\ started' = [started EXCEPT ![c] = 0]
    /\ handlers' = {h \in handlers : h.con # c}
    /\ UNCHANGED <<gen, brokerVars, historyVars, drops>>

(* The process of c is killed. *)
Crash(c) ==
    /\ state[c] \in {"up", "lost"}
    /\ CloseChannel(c)
    /\ state' = [state EXCEPT ![c] = "down"]
    /\ started' = [started EXCEPT ![c] = 0]
    /\ handlers' = {h \in handlers : h.con # c}
    /\ UNCHANGED <<queues, dlq, published, historyVars>>

Next ==
    \/ \E m \in Messages : Publish(m)
    \/ \E h \in handlers : Handle(h) \/ Settle(h) \/ SettleFails(h)
    \/ \E c \in Consumers, m \in Messages : Deliver(c, m)
    \/ \E c \in Consumers : \/ Start(c) \/ Stop(c) \/ Drop(c)
                            \/ Reconnect(c) \/ Exit(c) \/ Crash(c)

Spec == Init /\ [][Next]_vars

(* Processes are started again, connections restored, and every task of a  *)
(* message comes to its next await.  The broker pushes: a message that is  *)
(* at the head of the queue again and again while a slot is free is        *)
(* delivered.                                                              *)
Fairness ==
    /\ \A c \in Consumers :
          WF_vars(Start(c)) /\ WF_vars(Reconnect(c)) /\ WF_vars(Exit(c))
    /\ \A c \in Consumers, m \in Messages :
          SF_vars(Deliver(c, m))
    /\ \A m \in Messages :
          WF_vars(\E h \in handlers :
                     h.msg = m /\ (Handle(h) \/ Settle(h) \/ SettleFails(h)))

FairSpec == Spec /\ Fairness

-----------------------------------------------------------------------------
(* Properties.                                                             *)

One(b) == IF b THEN 1 ELSE 0

(* The broker still has m for the consumers. *)
Pending(m) == m \in ready \/ \E c \in Consumers : m \in unacked[c]

(* No message is lost: one that has left the queue was processed, or is in *)
(* the dead-letter queue.  start declares that queue before it consumes,   *)
(* ack comes after process_message, and what was not acknowledged when a   *)
(* channel or process ends is delivered again.                             *)
NothingLost ==
    \A m \in published : Pending(m) \/ m \in dlq \/ successes[m] > 0

(* The broker holds a delivery open only while the task that will settle   *)
(* it exists, so no prefetch slot leaks; and there are at most             *)
(* prefetch_count of them.                                                 *)
SlotsAccounted ==
    \A c \in Consumers :
       /\ Cardinality(unacked[c]) <= Prefetch
       /\ \A m \in unacked[c] : \E h \in handlers : h.con = c /\ h.msg = m /\ Current(h)

(* A message is dead-lettered only for a ServiceError, and processed more  *)
(* often than once only if channels were lost: a message whose ack raised  *)
(* is delivered again, while the first task may still be running.          *)
DuplicatesNeedDrops ==
    \A m \in Messages :
       /\ m \in dlq => m \in refused
       /\ successes[m] + One(m \in dlq) <= 1 + drops

(* Every message with a readable body is settled in the end, although the  *)
(* unreadable ones are requeued for ever, as long as these are fewer than  *)
(* the prefetch slots of all consumers.                                    *)
ReadableSettled ==
    Cardinality(Malformed) < Prefetch * Cardinality(Consumers) =>
        \A m \in Messages \ Malformed : m \in published ~> ~Pending(m)

-----------------------------------------------------------------------------
(* The inductive invariant behind the safety properties.                   *)

(* The queues are declared in the order of start, before anything is       *)
(* consumed, and stay.                                                     *)
QueuesDeclared ==
    \A c \in Consumers : /\ started[c] >= 3 => "queue" \in queues
                         /\ started[c] >= 4 => "dlq" \in queues

(* Only a started consumer with an open channel holds deliveries. *)
HoldsOnlyUp ==
    \A c \in Consumers :
       unacked[c] # {} => state[c] = "up" /\ started[c] = Len(StartSteps)

(* A task belongs to a channel that c has had; if it is the present one,   *)
(* the consumer had started.  A task that will ack has processed, one that *)
(* will reject was refused.                                                *)
TaskSound(h) ==
    /\ h.gen <= gen[h.con]
    /\ h.gen = gen[h.con] => state[h.con] = "up" /\ started[h.con] = Len(StartSteps)
    /\ h.st = "ack" => successes[h.msg] > 0
    /\ h.st = "reject" => h.msg \in refused

(* The broker is waiting for a task of its own for every delivery. *)
DeliveriesHandled ==
    \A c \in Consumers :
       \A m \in unacked[c] : \E h \in handlers : h.con = c /\ h.msg = m /\ Current(h)

PrefetchKept ==
    \A c \in Consumers : IsFiniteSet(unacked[c]) /\ Cardinality(unacked[c]) <= Prefetch

(* The tasks of m that may still process it, refuse it or give it back. *)
Undecided(m) == {h \in handlers : h.msg = m /\ h.st # "ack"}

(* Every outcome of m, and every chance of another one, is paid for: by m  *)
(* itself or by a lost channel.                                            *)
Paid(m) ==
    /\ m \in dlq => m \in refused
    /\ successes[m] + One(m \in dlq) + One(m \in ready) + One(m \notin published)
         + Cardinality(Undecided(m)) <= 1 + drops

ConsumerInv ==
    /\ QueuesDeclared
    /\ HoldsOnlyUp
    /\ \A h \in handlers : TaskSound(h)
    /\ DeliveriesHandled
    /\ PrefetchKept
    /\ NothingLost
    /\ IsFiniteSet(handlers)
    /\ \A m \in Messages : Paid(m)
=============================================================================
