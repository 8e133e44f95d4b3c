--------------------------- MODULE Consumer_proofs ---------------------------
(* No message is lost and no prefetch slot leaks, for any number of        *)
(* consumers, messages, errors and lost channels.                          *)
EXTENDS Consumer, FiniteSetTheorems, TLAPS

USE ConsumerAssumption

(* consume is the last step of start. *)
LEMMA ConsumeLast ==
    ASSUME NEW c \in Consumers, started[c] \in 0 .. Len(StartSteps)
    PROVE  /\ Len(StartSteps) = 5
           /\ Done(c, "consume") => started[c] = 5
           /\ started[c] = 5 => Done(c, "qos")
BY DEF StartSteps, Done

(* The start steps that declare a queue. *)
LEMMA DeclaringSteps ==
    /\ StartSteps[3] = "queue"
    /\ StartSteps[4] = "dlq"
BY DEF StartSteps

(* The types hold initially, and the invariant. *)
LEMMA InitInv == Init => TypeOK /\ ConsumerInv
<1>1. Init => TypeOK
  BY DEF Init, TypeOK, StartSteps
<1>2. Init => /\ QueuesDeclared /\ HoldsOnlyUp /\ \A h \in handlers : TaskSound(h)
              /\ DeliveriesHandled /\ PrefetchKept /\ NothingLost
  BY FS_EmptySet
  DEF Init, QueuesDeclared, HoldsOnlyUp, DeliveriesHandled, PrefetchKept, NothingLost
<1>3. Init => IsFiniteSet(handlers) /\ \A m \in Messages : Paid(m)
  <2> SUFFICES ASSUME Init, NEW m \in Messages PROVE Paid(m)
    BY FS_EmptySet DEF Init
  <2>1. Undecided(m) = {} /\ Cardinality({}) = 0
    BY FS_EmptySet DEF Init, Undecided
  <2>2. QED
    BY <2>1 DEF Init, Paid, One
<1>4. QED
  BY <1>1, <1>2, <1>3 DEF ConsumerInv

(* Every step keeps the types. *)
LEMMA NextTypeOK ==
    ASSUME TypeOK, [Next]_vars
    PROVE  TypeOK'
<1> USE DEF consumerVars, brokerVars, historyVars, vars
<1>1. ASSUME NEW m \in Messages, Publish(m) PROVE TypeOK'
  BY <1>1 DEF Publish, TypeOK
<1>2. ASSUME NEW h \in handlers, Handle(h) PROVE TypeOK'
  <2>1. h \in Handler /\ h.msg \in Messages
    BY DEF TypeOK, Handler
  <2>2. \A st \in {"ack", "reject", "requeue"} : [h EXCEPT !.st = st] \in Handler
    BY <2>1 DEF Handler
  <2>3. handlers' \subseteq Handler
    BY <1>2, <2>2 DEF Handle, TypeOK
  <2>4. successes' \in [Messages -> Nat]
    <3>1. successes[h.msg] \in Nat
      BY <2>1 DEF TypeOK
    <3>2. \/ successes' = successes
          \/ successes' = [successes EXCEPT ![h.msg] = successes[h.msg] + 1]
      BY <1>2 DEF Handle
    <3>3. QED
      BY <2>1, <3>1, <3>2 DEF TypeOK
  <2>5. refused' \subseteq Messages
    BY <1>2, <2>1 DEF Handle, TypeOK
  <2>6. QED
    BY <1>2, <2>3, <2>4, <2>5 DEF Handle, TypeOK
<1>3. ASSUME NEW h \in handlers, Settle(h) PROVE TypeOK'
  <2>1. h.msg \in Messages /\ h.con \in Consumers
    BY DEF TypeOK, Handler
  <2>2. unacked' \in [Consumers -> SUBSET Messages]
    BY <1>3, <2>1 DEF Settle, TypeOK
  <2>3. requeued' \in [Messages -> Nat]
    <3>1. PICK n \in Nat : n = requeued[h.msg]
      BY <2>1 DEF TypeOK
    <3>2. requeued' = requeued \/ \E k \in Nat : requeued' = [requeued EXCEPT ![h.msg] = k]
      BY <1>3, <3>1 DEF Settle
    <3>3. QED
      BY <2>1, <3>2 DEF TypeOK
  <2>4. ready' \subseteq Messages /\ dlq' \subseteq Messages /\ handlers' \subseteq Handler
    BY <1>3, <2>1 DEF Settle, TypeOK
  <2>5. QED
    BY <1>3, <2>2, <2>3, <2>4 DEF Settle, TypeOK
<1>4. ASSUME NEW h \in handlers, SettleFails(h) PROVE TypeOK'
  BY <1>4 DEF SettleFails, TypeOK
<1>5. ASSUME NEW c \in Consumers, NEW m \in Messages, Deliver(c, m) PROVE TypeOK'
  <2>1. [con |-> c, msg |-> m, gen |-> gen[c], st |-> "run"] \in Handler
    BY DEF TypeOK, Handler
  <2>2. handlers' \subseteq Handler
    BY <1>5, <2>1 DEF Deliver, TypeOK
  <2>3. unacked' \in [Consumers -> SUBSET Messages]
    BY <1>5 DEF Deliver, TypeOK
  <2>4. QED
    BY <1>5, <2>2, <2>3 DEF Deliver, TypeOK
<1>6. ASSUME NEW c \in Consumers, Start(c) PROVE TypeOK'
  <2>1. state' \in [Consumers -> {"down", "up", "lost", "stopped"}]
    BY <1>6 DEF Start, TypeOK
  <2>2. started' \in [Consumers -> 0 .. Len(StartSteps)]
    BY <1>6 DEF Start, TypeOK, StartSteps
  <2>3. queues' \subseteq {"queue", "dlq"}
    BY <1>6 DEF Start, TypeOK
  <2>4. QED
    BY <1>6, <2>1, <2>2, <2>3 DEF Start, TypeOK
<1>7. ASSUME NEW c \in Consumers, Stop(c) PROVE TypeOK'
  <2>1. gen' \in [Consumers -> Nat]
    BY <1>7 DEF Stop, CloseChannel, TypeOK
  <2>2. ready' \subseteq Messages
    BY <1>7 DEF Stop, CloseChannel, TypeOK
  <2>3. unacked' \in [Consumers -> SUBSET Messages]
    BY <1>7 DEF Stop, CloseChannel, TypeOK
  <2>4. drops' \in Nat
    BY <1>7 DEF Stop, CloseChannel, TypeOK
  <2>5. state' \in [Consumers -> {"down", "up", "lost", "stopped"}]
    BY <1>7 DEF Stop, TypeOK
  <2>6. started' \in [Consumers -> 0 .. Len(StartSteps)]
    BY <1>7, 0 \in 0 .. Len(StartSteps) DEF Stop, TypeOK, StartSteps
  <2>7. handlers' \subseteq Handler
    BY <1>7 DEF Stop, TypeOK
  <2>8. QED
    BY <1>7, <2>1, <2>2, <2>3, <2>4, <2>5, <2>6, <2>7 DEF Stop, TypeOK
<1>8. ASSUME NEW c \in Consumers, Drop(c) PROVE TypeOK'
  <2>1. gen' \in [Consumers -> Nat]
    BY <1>8 DEF Drop, CloseChannel, TypeOK
  <2>2. ready' \subseteq Messages
    BY <1>8 DEF Drop, CloseChannel, TypeOK
  <2>3. unacked' \in [Consumers -> SUBSET Messages]
    BY <1>8 DEF Drop, CloseChannel, TypeOK
  <2>4. drops' \in Nat
    BY <1>8 DEF Drop, CloseChannel, TypeOK
  <2>5. state' \in [Consumers -> {"down", "up", "lost", "stopped"}]
    BY <1>8 DEF Drop, TypeOK
  <2>6. started' \in [Consumers -> 0 .. Len(StartSteps)]
    BY <1>8, 0 \in 0 .. Len(StartSteps) DEF Drop, TypeOK, StartSteps
  <2>7. handlers' \subseteq Handler
    BY <1>8 DEF Drop, TypeOK
  <2>8. QED
    BY <1>8, <2>1, <2>2, <2>3, <2>4, <2>5, <2>6, <2>7 DEF Drop, TypeOK
<1>9. ASSUME NEW c \in Consumers, Reconnect(c) PROVE TypeOK'
  <2>1. state' \in [Consumers -> {"down", "up", "lost", "stopped"}]
    BY <1>9 DEF Reconnect, TypeOK
  <2>2. QED
    BY <1>9, <2>1 DEF Reconnect, TypeOK
<1>10. ASSUME NEW c \in Consumers, Exit(c) PROVE TypeOK'
  <2>1. state' \in [Consumers -> {"down", "up", "lost", "stopped"}]
    BY <1>10 DEF Exit, TypeOK
  <2>2. started' \in [Consumers -> 0 .. Len(StartSteps)]
    BY <1>10, 0 \in 0 .. Len(StartSteps) DEF Exit, TypeOK, StartSteps
  <2>3. handlers' \subseteq Handler
    BY <1>10 DEF Exit, TypeOK
  <2>4. QED
    BY <1>10, <2>1, <2>2, <2>3 DEF Exit, TypeOK
<1>11. ASSUME NEW c \in Consumers, Crash(c) PROVE TypeOK'
  <2>1. gen' \in [Consumers -> Nat]
    BY <1>11 DEF Crash, CloseChannel, TypeOK
  <2>2. ready' \subseteq Messages
    BY <1>11 DEF Crash, CloseChannel, TypeOK
  <2>3. unacked' \in [Consumers -> SUBSET Messages]
    BY <1>11 DEF Crash, CloseChannel, TypeOK
  <2>4. drops' \in Nat
    BY <1>11 DEF Crash, CloseChannel, TypeOK
  <2>5. state' \in [Consumers -> {"down", "up", "lost", "stopped"}]
    BY <1>11 DEF Crash, TypeOK
  <2>6. started' \in [Consumers -> 0 .. Len(StartSteps)]
    BY <1>11, 0 \in 0 .. Len(StartSteps) DEF Crash, TypeOK, StartSteps
  <2>7. handlers' \subseteq Handler
    BY <1>11 DEF Crash, TypeOK
  <2>8. QED
    BY <1>11, <2>1, <2>2, <2>3, <2>4, <2>5, <2>6, <2>7 DEF Crash, TypeOK
<1>12. CASE UNCHANGED vars
  BY <1>12 DEF TypeOK
<1>13. QED
  BY <1>1, <1>2, <1>3, <1>4, <1>5, <1>6, <1>7, <1>8, <1>9, <1>10, <1>11, <1>12 DEF Next

(* Queues are declared in order and never removed. *)
LEMMA NextQueues ==
    ASSUME TypeOK, QueuesDeclared, [Next]_vars
    PROVE  QueuesDeclared'
<1> USE DEF consumerVars, brokerVars, historyVars, vars
<1>1. ASSUME NEW m \in Messages, Publish(m) PROVE QueuesDeclared'
  BY <1>1 DEF Publish, QueuesDeclared, TypeOK
<1>2. ASSUME NEW h \in handlers, Handle(h) PROVE QueuesDeclared'
  BY <1>2 DEF Handle, QueuesDeclared, TypeOK
<1>3. ASSUME NEW h \in handlers, Settle(h) PROVE QueuesDeclared'
  BY <1>3 DEF Settle, QueuesDeclared, TypeOK
<1>4. ASSUME NEW h \in handlers, SettleFails(h) PROVE QueuesDeclared'
  BY <1>4 DEF SettleFails, QueuesDeclared, TypeOK
<1>5. ASSUME NEW c \in Consumers, NEW m \in Messages, Deliver(c, m) PROVE QueuesDeclared'
  BY <1>5 DEF Deliver, QueuesDeclared, TypeOK
<1>6. ASSUME NEW c \in Consumers, Start(c) PROVE QueuesDeclared'
  <2>1. queues \subseteq queues'
    BY <1>6 DEF Start
  <2>2. ASSUME NEW d \in Consumers, d # c
        PROVE  /\ started'[d] >= 3 => "queue" \in queues'
               /\ started'[d] >= 4 => "dlq" \in queues'
    BY <1>6, <2>1, <2>2 DEF Start, QueuesDeclared, TypeOK
  <2>3. started'[c] = started[c] + 1 /\ started[c] \in 0 .. 4
    <3>1. started[c] \in 0 .. Len(StartSteps) /\ Len(StartSteps) = 5
      BY ConsumeLast DEF TypeOK
    <3>2. QED
      BY <1>6, <3>1 DEF Start, TypeOK
  <2>4. ASSUME started[c] = 2 PROVE "queue" \in queues'
    <3>1. StartSteps[started[c] + 1] = "queue"
      BY <2>4, DeclaringSteps
    <3>2. QED
      BY <1>6, <3>1 DEF Start
  <2>5. ASSUME started[c] = 3 PROVE "dlq" \in queues'
    <3>1. StartSteps[started[c] + 1] = "dlq"
      BY <2>5, DeclaringSteps
    <3>2. QED
      BY <1>6, <3>1 DEF Start
  <2>6. /\ started[c] >= 3 => "queue" \in queues'
        /\ started[c] >= 4 => "dlq" \in queues'
    BY <2>1 DEF QueuesDeclared
  <2>7. /\ started'[c] >= 3 => "queue" \in queues'
        /\ started'[c] >= 4 => "dlq" \in queues'
    BY <2>3, <2>4, <2>5, <2>6
  <2>8. QED
    BY <2>2, <2>7 DEF QueuesDeclared
<1>7. ASSUME NEW c \in Consumers, Stop(c) PROVE QueuesDeclared'
  BY <1>7 DEF Stop, QueuesDeclared, TypeOK
<1>8. ASSUME NEW c \in Consumers, Drop(c) PROVE QueuesDeclared'
  <2>1. queues' = queues /\ \A d \in Consumers : started'[d] = started[d] \/ started'[d] = 0
    BY <1>8 DEF Drop, TypeOK
  <2>2. QED
    BY <2>1 DEF QueuesDeclared
<1>9. ASSUME NEW c \in Consumers, Reconnect(c) PROVE QueuesDeclared'
  BY <1>9 DEF Reconnect, QueuesDeclared, TypeOK
<1>10. ASSUME NEW c \in Consumers, Exit(c) PROVE QueuesDeclared'
  BY <1>10 DEF Exit, QueuesDeclared, TypeOK
<1>11. ASSUME NEW c \in Consumers, Crash(c) PROVE QueuesDeclared'
  BY <1>11 DEF Crash, QueuesDeclared, TypeOK
<1>12. CASE UNCHANGED vars
  BY <1>12 DEF QueuesDeclared, TypeOK
<1>13. QED
  BY <1>1, <1>2, <1>3, <1>4, <1>5, <1>6, <1>7, <1>8, <1>9, <1>10, <1>11, <1>12 DEF Next

(* A consumer without an open channel holds no deliveries. *)
LEMMA NextHolds ==
    ASSUME TypeOK, HoldsOnlyUp, [Next]_vars
    PROVE  HoldsOnlyUp'
<1> USE DEF consumerVars, brokerVars, historyVars, vars
<1>1. ASSUME NEW m \in Messages, Publish(m) PROVE HoldsOnlyUp'
  BY <1>1 DEF Publish, HoldsOnlyUp
<1>2. ASSUME NEW h \in handlers, Handle(h) PROVE HoldsOnlyUp'
  BY <1>2 DEF Handle, HoldsOnlyUp
<1>3. ASSUME NEW h \in handlers, Settle(h) PROVE HoldsOnlyUp'
  <2>1. \A d \in Consumers : unacked'[d] \subseteq unacked[d]
    BY <1>3 DEF Settle, TypeOK
  <2>2. state' = state /\ started' = started
    BY <1>3 DEF Settle
  <2>3. QED
    BY <2>1, <2>2 DEF HoldsOnlyUp
<1>4. ASSUME NEW h \in handlers, SettleFails(h) PROVE HoldsOnlyUp'
  BY <1>4 DEF SettleFails, HoldsOnlyUp
<1>5. ASSUME NEW c \in Consumers, NEW m \in Messages, Deliver(c, m) PROVE HoldsOnlyUp'
  <2>1. state[c] = "up" /\ started[c] = Len(StartSteps)
    BY <1>5, ConsumeLast DEF Deliver, TypeOK
  <2>2. \A d \in Consumers \ {c} : unacked'[d] = unacked[d]
    BY <1>5 DEF Deliver, TypeOK
  <2>3. state' = state /\ started' = started
    BY <1>5 DEF Deliver
  <2>4. QED
    BY <2>1, <2>2, <2>3 DEF HoldsOnlyUp
<1>6. ASSUME NEW c \in Consumers, Start(c) PROVE HoldsOnlyUp'
  <2>1. unacked[c] = {}
    <3>1. started[c] # Len(StartSteps)
      BY <1>6, ConsumeLast DEF Start, TypeOK
    <3>2. QED
      BY <3>1 DEF HoldsOnlyUp
  <2>2. unacked' = unacked /\ \A d \in Consumers \ {c} : /\ state'[d] = state[d]
                                                       /\ started'[d] = started[d]
    BY <1>6 DEF Start, TypeOK
  <2>3. QED
    BY <2>1, <2>2 DEF HoldsOnlyUp
<1>7. ASSUME NEW c \in Consumers, Stop(c) PROVE HoldsOnlyUp'
  <2>1. unacked'[c] = {} /\ \A d \in Consumers \ {c} : /\ unacked'[d] = unacked[d]
                                                     /\ state'[d] = state[d]
                                                     /\ started'[d] = started[d]
    BY <1>7 DEF Stop, CloseChannel, TypeOK
  <2>2. QED
    BY <2>1 DEF HoldsOnlyUp
<1>8. ASSUME NEW c \in Consumers, Drop(c) PROVE HoldsOnlyUp'
  <2>1. unacked'[c] = {} /\ \A d \in Consumers \ {c} : /\ unacked'[d] = unacked[d]
                                                     /\ state'[d] = state[d]
                                                     /\ started'[d] = started[d]
    BY <1>8 DEF Drop, CloseChannel, TypeOK
  <2>2. QED
    BY <2>1 DEF HoldsOnlyUp
<1>9. ASSUME NEW c \in Consumers, Reconnect(c) PROVE HoldsOnlyUp'
  <2>1. unacked[c] = {}
    BY <1>9 DEF Reconnect, HoldsOnlyUp, TypeOK
  <2>2. unacked' = unacked /\ started' = started /\ \A d \in Consumers \ {c} : state'[d] = state[d]
    BY <1>9 DEF Reconnect, TypeOK
  <2>3. QED
    BY <2>1, <2>2 DEF HoldsOnlyUp
<1>10. ASSUME NEW c \in Consumers, Exit(c) PROVE HoldsOnlyUp'
  <2>1. unacked[c] = {}
    BY <1>10 DEF Exit, HoldsOnlyUp, TypeOK
  <2>2. unacked' = unacked /\ \A d \in Consumers \ {c} : /\ state'[d] = state[d]
                                                       /\ started'[d] = started[d]
    BY <1>10 DEF Exit, TypeOK
  <2>3. QED
    BY <2>1, <2>2 DEF HoldsOnlyUp
<1>11. ASSUME NEW c \in Consumers, Crash(c) PROVE HoldsOnlyUp'
  <2>1. unacked'[c] = {} /\ \A d \in Consumers \ {c} : /\ unacked'[d] = unacked[d]
                                                     /\ state'[d] = state[d]
                                                     /\ started'[d] = started[d]
    BY <1>11 DEF Crash, CloseChannel, TypeOK
  <2>2. QED
    BY <2>1 DEF HoldsOnlyUp
<1>12. CASE UNCHANGED vars
  BY <1>12 DEF HoldsOnlyUp
<1>13. QED
  BY <1>1, <1>2, <1>3, <1>4, <1>5, <1>6, <1>7, <1>8, <1>9, <1>10, <1>11, <1>12 DEF Next

(* What is known of a task stays true while it exists. *)
LEMMA NextTasks ==
    ASSUME TypeOK, \A h \in handlers : TaskSound(h), [Next]_vars
    PROVE  \A k \in handlers' : TaskSound(k)'
<1> USE DEF consumerVars, brokerVars, historyVars, vars
<1>1. ASSUME NEW m \in Messages, Publish(m) PROVE \A k \in handlers' : TaskSound(k)'
  <2>1. SUFFICES ASSUME NEW k \in handlers' PROVE TaskSound(k)'
    OBVIOUS
  <2>2. k \in handlers /\ TaskSound(k)
    BY <1>1, <2>1 DEF Publish
  <2>3. QED
    BY <1>1, <2>2 DEF Publish, TaskSound
<1>2. ASSUME NEW h \in handlers, Handle(h) PROVE \A k \in handlers' : TaskSound(k)'
  <2>1. SUFFICES ASSUME NEW k \in handlers' PROVE TaskSound(k)'
    OBVIOUS
  <2>2. h \in Handler /\ h.msg \in Messages /\ successes[h.msg] \in Nat /\ TaskSound(h)
    BY DEF TypeOK, Handler
  <2>3. state' = state /\ gen' = gen /\ started' = started
    BY <1>2 DEF Handle
  <2>4. PICK st \in {"ack", "reject", "requeue"} :
          /\ handlers' = (handlers \ {h}) \cup {[h EXCEPT !.st = st]}
          /\ successes' = IF st = "ack" THEN [successes EXCEPT ![h.msg] = successes[h.msg] + 1]
                                        ELSE successes
          /\ refused' = IF st = "reject" THEN refused \cup {h.msg} ELSE refused
    BY <1>2 DEF Handle
  <2>5. CASE k \in handlers
    <3>1. TaskSound(k) /\ k.msg \in Messages /\ successes[k.msg] \in Nat
      BY <2>5 DEF TypeOK, Handler
    <3>2. successes[k.msg] > 0 => successes'[k.msg] > 0
      BY <2>2, <2>4, <3>1 DEF TypeOK
    <3>3. k.msg \in refused => k.msg \in refused'
      BY <2>4
    <3>4. QED
      BY <2>3, <3>1, <3>2, <3>3 DEF TaskSound
  <2>6. CASE k = [h EXCEPT !.st = st]
    <3>1. k.con = h.con /\ k.msg = h.msg /\ k.gen = h.gen /\ k.st = st
      BY <2>2, <2>6 DEF Handler
    <3>2. st = "ack" => successes'[h.msg] > 0
      BY <2>2, <2>4 DEF TypeOK
    <3>3. st = "reject" => h.msg \in refused'
      BY <2>4
    <3>4. QED
      BY <2>2, <2>3, <3>1, <3>2, <3>3 DEF TaskSound
  <2>7. QED
    BY <2>1, <2>4, <2>5, <2>6
<1>3. ASSUME NEW h \in handlers, Settle(h) PROVE \A k \in handlers' : TaskSound(k)'
  <2>1. SUFFICES ASSUME NEW k \in handlers' PROVE TaskSound(k)'
    OBVIOUS
  <2>2. k \in handlers /\ TaskSound(k)
    BY <1>3, <2>1 DEF Settle
  <2>3. QED
    BY <1>3, <2>2 DEF Settle, TaskSound
<1>4. ASSUME NEW h \in handlers, SettleFails(h) PROVE \A k \in handlers' : TaskSound(k)'
  <2>1. SUFFICES ASSUME NEW k \in handlers' PROVE TaskSound(k)'
    OBVIOUS
  <2>2. k \in handlers /\ TaskSound(k)
    BY <1>4, <2>1 DEF SettleFails
  <2>3. QED
    BY <1>4, <2>2 DEF SettleFails, TaskSound
<1>5. ASSUME NEW c \in Consumers, NEW m \in Messages, Deliver(c, m) PROVE \A k \in handlers' : TaskSound(k)'
  <2>1. SUFFICES ASSUME NEW k \in handlers' PROVE TaskSound(k)'
    OBVIOUS
  <2>2. /\ state' = state /\ gen' = gen /\ started' = started
        /\ successes' = successes /\ refused' = refused
    BY <1>5 DEF Deliver
  <2>3. CASE k \in handlers
    <3>1. TaskSound(k)
      BY <2>3
    <3>2. QED
      BY <2>2, <3>1 DEF TaskSound
  <2>4. CASE k = [con |-> c, msg |-> m, gen |-> gen[c], st |-> "run"]
    <3>1. state[c] = "up" /\ started[c] = Len(StartSteps) /\ gen[c] \in Nat
      BY <1>5, ConsumeLast DEF Deliver, TypeOK
    <3>2. k.con = c /\ k.gen = gen[c] /\ k.st = "run"
      BY <2>4
    <3>3. QED
      BY <2>2, <3>1, <3>2 DEF TaskSound
  <2>5. QED
    BY <1>5, <2>1, <2>3, <2>4 DEF Deliver
<1>6. ASSUME NEW c \in Consumers, Start(c) PROVE \A k \in handlers' : TaskSound(k)'
  <2>1. SUFFICES ASSUME NEW k \in handlers' PROVE TaskSound(k)'
    OBVIOUS
  <2>2. k \in handlers /\ TaskSound(k)
    BY <1>6, <2>1 DEF Start
  <2>3. k.con \in Consumers
    BY <2>2 DEF TypeOK, Handler
  <2>4. k.con = c => k.gen # gen[k.con]
    BY <1>6, <2>1, <2>2, <2>3 DEF Start, TaskSound, TypeOK
  <2>5. k.con # c => state'[k.con] = state[k.con] /\ started'[k.con] = started[k.con]
    BY <1>6, <2>3 DEF Start, TypeOK
  <2>6. successes' = successes /\ refused' = refused /\ gen' = gen
    BY <1>6 DEF Start
  <2>7. QED
    BY <2>2, <2>4, <2>5, <2>6 DEF TaskSound
<1>7. ASSUME NEW c \in Consumers, Stop(c) PROVE \A k \in handlers' : TaskSound(k)'
  <2>1. SUFFICES ASSUME NEW k \in handlers' PROVE TaskSound(k)'
    OBVIOUS
  <2>2. k \in handlers /\ TaskSound(k)
    BY <1>7, <2>1 DEF Stop
  <2>3. k.con \in Consumers /\ k.gen \in Nat /\ gen[k.con] \in Nat
    BY <2>2 DEF TypeOK, Handler
  <2>4. k.con = c => gen'[k.con] = gen[k.con] + 1
    BY <1>7, <2>3 DEF Stop, CloseChannel, TypeOK
  <2>5. k.con # c => /\ gen'[k.con] = gen[k.con] /\ state'[k.con] = state[k.con]
                     /\ started'[k.con] = started[k.con]
    BY <1>7, <2>3 DEF Stop, CloseChannel, TypeOK
  <2>6. successes' = successes /\ refused' = refused
    BY <1>7 DEF Stop
  <2>7. QED
    BY <2>2, <2>3, <2>4, <2>5, <2>6 DEF TaskSound
<1>8. ASSUME NEW c \in Consumers, Drop(c) PROVE \A k \in handlers' : TaskSound(k)'
  <2>1. SUFFICES ASSUME NEW k \in handlers' PROVE TaskSound(k)'
    OBVIOUS
  <2>2. k \in handlers /\ TaskSound(k)
    BY <1>8, <2>1 DEF Drop
  <2>3. k.con \in Consumers /\ k.gen \in Nat /\ gen[k.con] \in Nat
    BY <2>2 DEF TypeOK, Handler
  <2>4. k.con = c => gen'[k.con] = gen[k.con] + 1
    BY <1>8, <2>3 DEF Drop, CloseChannel, TypeOK
  <2>5. k.con # c => /\ gen'[k.con] = gen[k.con] /\ state'[k.con] = state[k.con]
                     /\ started'[k.con] = started[k.con]
    BY <1>8, <2>3 DEF Drop, CloseChannel, TypeOK
  <2>6. successes' = successes /\ refused' = refused
    BY <1>8 DEF Drop
  <2>7. QED
    BY <2>2, <2>3, <2>4, <2>5, <2>6 DEF TaskSound
<1>9. ASSUME NEW c \in Consumers, Reconnect(c) PROVE \A k \in handlers' : TaskSound(k)'
  <2>1. SUFFICES ASSUME NEW k \in handlers' PROVE TaskSound(k)'
    OBVIOUS
  <2>2. k \in handlers /\ TaskSound(k)
    BY <1>9, <2>1 DEF Reconnect
  <2>3. k.con \in Consumers
    BY <2>2 DEF TypeOK, Handler
  <2>4. k.con = c => k.gen # gen[k.con]
    BY <1>9, <2>1, <2>2, <2>3 DEF Reconnect, TaskSound, TypeOK
  <2>5. k.con # c => state'[k.con] = state[k.con] /\ started'[k.con] = started[k.con]
    BY <1>9, <2>3 DEF Reconnect, TypeOK
  <2>6. successes' = successes /\ refused' = refused /\ gen' = gen
    BY <1>9 DEF Reconnect
  <2>7. QED
    BY <2>2, <2>4, <2>5, <2>6 DEF TaskSound
<1>10. ASSUME NEW c \in Consumers, Exit(c) PROVE \A k \in handlers' : TaskSound(k)'
  <2>1. SUFFICES ASSUME NEW k \in handlers' PROVE TaskSound(k)'
    OBVIOUS
  <2>2. k \in handlers /\ TaskSound(k)
    BY <1>10, <2>1 DEF Exit
  <2>3. k.con \in Consumers
    BY <2>2 DEF TypeOK, Handler
  <2>4. k.con = c => k.gen # gen[k.con]
    BY <1>10, <2>1, <2>2, <2>3 DEF Exit, TaskSound, TypeOK
  <2>5. k.con # c => state'[k.con] = state[k.con] /\ started'[k.con] = started[k.con]
    BY <1>10, <2>3 DEF Exit, TypeOK
  <2>6. successes' = successes /\ refused' = refused /\ gen' = gen
    BY <1>10 DEF Exit
  <2>7. QED
    BY <2>2, <2>4, <2>5, <2>6 DEF TaskSound
<1>11. ASSUME NEW c \in Consumers, Crash(c) PROVE \A k \in handlers' : TaskSound(k)'
  <2>1. SUFFICES ASSUME NEW k \in handlers' PROVE TaskSound(k)'
    OBVIOUS
  <2>2. k \in handlers /\ TaskSound(k)
    BY <1>11, <2>1 DEF Crash
  <2>3. k.con \in Consumers /\ k.gen \in Nat /\ gen[k.con] \in Nat
    BY <2>2 DEF TypeOK, Handler
  <2>4. k.con = c => gen'[k.con] = gen[k.con] + 1
    BY <1>11, <2>3 DEF Crash, CloseChannel, TypeOK
  <2>5. k.con # c => /\ gen'[k.con] = gen[k.con] /\ state'[k.con] = state[k.con]
                     /\ started'[k.con] = started[k.con]
    BY <1>11, <2>3 DEF Crash, CloseChannel, TypeOK
  <2>6. successes' = successes /\ refused' = refused
    BY <1>11 DEF Crash
  <2>7. QED
    BY <2>2, <2>3, <2>4, <2>5, <2>6 DEF TaskSound
<1>12. CASE UNCHANGED vars
  <2>1. SUFFICES ASSUME NEW k \in handlers' PROVE TaskSound(k)'
    OBVIOUS
  <2>2. k \in handlers /\ TaskSound(k)
    BY <1>12, <2>1
  <2>3. QED
    BY <1>12, <2>2 DEF TaskSound
<1>13. QED
  BY <1>1, <1>2, <1>3, <1>4, <1>5, <1>6, <1>7, <1>8, <1>9, <1>10, <1>11, <1>12 DEF Next

(* Every delivery keeps its task until it is settled. *)
LEMMA NextDeliveries ==
    ASSUME TypeOK, HoldsOnlyUp, DeliveriesHandled, [Next]_vars
    PROVE  DeliveriesHandled'
<1> USE DEF consumerVars, brokerVars, historyVars, vars
<1>1. ASSUME NEW m \in Messages, Publish(m) PROVE DeliveriesHandled'
  <2>1. \A k \in handlers : k \in handlers' /\ (Current(k) => Current(k)')
    BY <1>1 DEF Publish, Current
  <2>2. QED
    BY <1>1, <2>1 DEF Publish, DeliveriesHandled
<1>2. ASSUME NEW h \in handlers, Handle(h) PROVE DeliveriesHandled'
  <2>1. h \in Handler
    BY DEF TypeOK
  <2>2. PICK st \in {"ack", "reject", "requeue"} :
          handlers' = (handlers \ {h}) \cup {[h EXCEPT !.st = st]}
    BY <1>2 DEF Handle
  <2>3. DEFINE g == [h EXCEPT !.st = st]
  <2>4. g \in handlers' /\ g.con = h.con /\ g.msg = h.msg /\ g.gen = h.gen
    BY <2>1, <2>2 DEF Handler
  <2>5. state' = state /\ gen' = gen /\ unacked' = unacked
    BY <1>2 DEF Handle
  <2>6. SUFFICES ASSUME NEW d \in Consumers, NEW m \in unacked[d]
                 PROVE  \E k \in handlers' : k.con = d /\ k.msg = m /\ Current(k)'
    BY <2>5 DEF DeliveriesHandled
  <2>7. PICK k \in handlers : k.con = d /\ k.msg = m /\ Current(k)
    BY DEF DeliveriesHandled
  <2>8. CASE k = h
    <3>1. g.con = d /\ g.msg = m /\ Current(g)'
      BY <2>4, <2>5, <2>7, <2>8 DEF Current
    <3>2. QED
      BY <2>4, <3>1
  <2>9. CASE k # h
    BY <2>2, <2>5, <2>7, <2>9 DEF Current
  <2>10. QED
    BY <2>8, <2>9
<1>3. ASSUME NEW h \in handlers, Settle(h) PROVE DeliveriesHandled'
  <2>1. h.con \in Consumers
    BY DEF TypeOK, Handler
  <2>2. SUFFICES ASSUME NEW d \in Consumers, NEW m \in unacked'[d]
                 PROVE  \E k \in handlers' : k.con = d /\ k.msg = m /\ Current(k)'
    BY DEF DeliveriesHandled
  <2>3. m \in unacked[d] /\ ~(d = h.con /\ m = h.msg)
    BY <1>3, <2>1, <2>2 DEF Settle, TypeOK
  <2>4. PICK k \in handlers : k.con = d /\ k.msg = m /\ Current(k)
    BY <2>3 DEF DeliveriesHandled
  <2>5. k \in handlers' /\ Current(k)'
    BY <1>3, <2>3, <2>4 DEF Settle, Current
  <2>6. QED
    BY <2>4, <2>5
<1>4. ASSUME NEW h \in handlers, SettleFails(h) PROVE DeliveriesHandled'
  <2>1. \A k \in handlers : Current(k) => k \in handlers' /\ Current(k)'
    BY <1>4 DEF SettleFails, Current
  <2>2. QED
    BY <1>4, <2>1 DEF SettleFails, DeliveriesHandled
<1>5. ASSUME NEW c \in Consumers, NEW m \in Messages, Deliver(c, m) PROVE DeliveriesHandled'
  <2>1. PICK g \in handlers' : g = [con |-> c, msg |-> m, gen |-> gen[c], st |-> "run"]
    BY <1>5 DEF Deliver
  <2>2. g.con = c /\ g.msg = m /\ Current(g)'
    BY <1>5, <2>1 DEF Deliver, Current
  <2>3. SUFFICES ASSUME NEW d \in Consumers, NEW n \in unacked'[d]
                 PROVE  \E k \in handlers' : k.con = d /\ k.msg = n /\ Current(k)'
    BY DEF DeliveriesHandled
  <2>4. n \in unacked[d] \/ (d = c /\ n = m)
    BY <1>5, <2>3 DEF Deliver, TypeOK
  <2>5. CASE n \in unacked[d]
    <3>1. PICK k \in handlers : k.con = d /\ k.msg = n /\ Current(k)
      BY <2>5 DEF DeliveriesHandled
    <3>2. k \in handlers' /\ Current(k)'
      BY <1>5, <3>1 DEF Deliver, Current
    <3>3. QED
      BY <3>1, <3>2
  <2>6. CASE d = c /\ n = m
    BY <2>2, <2>6
  <2>7. QED
    BY <2>4, <2>5, <2>6
<1>6. ASSUME NEW c \in Consumers, Start(c) PROVE DeliveriesHandled'
  <2>1. unacked' = unacked /\ gen' = gen /\ handlers' = handlers
    BY <1>6 DEF Start
  <2>2. \A d \in Consumers : state[d] = "up" => state'[d] = "up"
    BY <1>6 DEF Start, TypeOK
  <2>3. \A k \in handlers : k.con \in Consumers
    BY DEF TypeOK, Handler
  <2>4. QED
    BY <2>1, <2>2, <2>3 DEF DeliveriesHandled, Current
<1>7. ASSUME NEW c \in Consumers, Stop(c) PROVE DeliveriesHandled'
  <2>1. /\ unacked'[c] = {}
        /\ \A d \in Consumers \ {c} : /\ unacked'[d] = unacked[d] /\ gen'[d] = gen[d]
                                     /\ state'[d] = state[d]
    BY <1>7 DEF Stop, CloseChannel, TypeOK
  <2>2. \A k \in handlers : k.con # c => k \in handlers'
    BY <1>7 DEF Stop
  <2>3. QED
    BY <2>1, <2>2 DEF DeliveriesHandled, Current
<1>8. ASSUME NEW c \in Consumers, Drop(c) PROVE DeliveriesHandled'
  <2>1. /\ unacked'[c] = {}
        /\ \A d \in Consumers \ {c} : /\ unacked'[d] = unacked[d] /\ gen'[d] = gen[d]
                                     /\ state'[d] = state[d]
    BY <1>8 DEF Drop, CloseChannel, TypeOK
  <2>2. \A k \in handlers : k.con # c => k \in handlers'
    BY <1>8 DEF Drop
  <2>3. QED
    BY <2>1, <2>2 DEF DeliveriesHandled, Current
<1>9. ASSUME NEW c \in Consumers, Reconnect(c) PROVE DeliveriesHandled'
  <2>1. unacked' = unacked /\ gen' = gen /\ handlers' = handlers
    BY <1>9 DEF Reconnect
  <2>2. \A d \in Consumers : state[d] = "up" => state'[d] = "up"
    BY <1>9 DEF Reconnect, TypeOK
  <2>3. \A k \in handlers : k.con \in Consumers
    BY DEF TypeOK, Handler
  <2>4. QED
    BY <2>1, <2>2, <2>3 DEF DeliveriesHandled, Current
<1>10. ASSUME NEW c \in Consumers, Exit(c) PROVE DeliveriesHandled'
  <2>1. unacked' = unacked /\ gen' = gen /\ unacked[c] = {}
    BY <1>10 DEF Exit, HoldsOnlyUp
  <2>2. \A k \in handlers : k.con # c => k \in handlers'
    BY <1>10 DEF Exit
  <2>3. \A d \in Consumers \ {c} : state'[d] = state[d]
    BY <1>10 DEF Exit, TypeOK
  <2>4. QED
    BY <2>1, <2>2, <2>3 DEF DeliveriesHandled, Current
<1>11. ASSUME NEW c \in Consumers, Crash(c) PROVE DeliveriesHandled'
  <2>1. /\ unacked'[c] = {}
        /\ \A d \in Consumers \ {c} : /\ unacked'[d] = unacked[d] /\ gen'[d] = gen[d]
                                     /\ state'[d] = state[d]
    BY <1>11 DEF Crash, CloseChannel, TypeOK
  <2>2. \A k \in handlers : k.con # c => k \in handlers'
    BY <1>11 DEF Crash
  <2>3. QED
    BY <2>1, <2>2 DEF DeliveriesHandled, Current
<1>12. CASE UNCHANGED vars
  BY <1>12 DEF DeliveriesHandled, Current
<1>13. QED
  BY <1>1, <1>2, <1>3, <1>4, <1>5, <1>6, <1>7, <1>8, <1>9, <1>10, <1>11, <1>12 DEF Next

(* set_qos comes before consume, so there are never too many deliveries. *)
LEMMA NextPrefetch ==
    ASSUME TypeOK, PrefetchKept, [Next]_vars
    PROVE  PrefetchKept'
<1> USE DEF consumerVars, brokerVars, historyVars, vars
<1>1. ASSUME NEW m \in Messages, Publish(m) PROVE PrefetchKept'
  BY <1>1 DEF Publish, PrefetchKept
<1>2. ASSUME NEW h \in handlers, Handle(h) PROVE PrefetchKept'
  BY <1>2 DEF Handle, PrefetchKept
<1>3. ASSUME NEW h \in handlers, Settle(h) PROVE PrefetchKept'
  <2>1. h.con \in Consumers
    BY DEF TypeOK, Handler
  <2>2. /\ unacked'[h.con] = unacked[h.con] \ {h.msg}
        /\ \A d \in Consumers \ {h.con} : unacked'[d] = unacked[d]
    BY <1>3, <2>1 DEF Settle, TypeOK
  <2>3. IsFiniteSet(unacked[h.con]) /\ Cardinality(unacked[h.con]) <= Prefetch
    BY <2>1 DEF PrefetchKept
  <2>4. Cardinality(unacked[h.con]) \in Nat
    BY <2>3, FS_CardinalityType
  <2>5. IsFiniteSet(unacked'[h.con]) /\ Cardinality(unacked'[h.con]) <= Prefetch
    <3>1. /\ IsFiniteSet(unacked[h.con] \ {h.msg})
          /\ Cardinality(unacked[h.con] \ {h.msg}) =
               IF h.msg \in unacked[h.con] THEN Cardinality(unacked[h.con]) - 1
                                           ELSE Cardinality(unacked[h.con])
      BY <2>3, FS_RemoveElement
    <3>2. Cardinality(unacked[h.con] \ {h.msg}) <= Prefetch
      BY <2>3, <2>4, <3>1
    <3>3. QED
      BY <2>2, <3>1, <3>2
  <2>6. QED
    BY <2>2, <2>5 DEF PrefetchKept
<1>4. ASSUME NEW h \in handlers, SettleFails(h) PROVE PrefetchKept'
  BY <1>4 DEF SettleFails, PrefetchKept
<1>5. ASSUME NEW c \in Consumers, NEW m \in Messages, Deliver(c, m) PROVE PrefetchKept'
  <2>1. /\ unacked'[c] = unacked[c] \cup {m}
        /\ \A d \in Consumers \ {c} : unacked'[d] = unacked[d]
    BY <1>5 DEF Deliver, TypeOK
  <2>2. Done(c, "qos")
    BY <1>5, ConsumeLast DEF Deliver, TypeOK
  <2>3. Cardinality(unacked[c]) < Prefetch /\ IsFiniteSet(unacked[c])
    BY <1>5, <2>2 DEF Deliver, PrefetchKept
  <2>4. Cardinality(unacked[c]) \in Nat
    BY <2>3, FS_CardinalityType
  <2>5. IsFiniteSet(unacked'[c]) /\ Cardinality(unacked'[c]) <= Prefetch
    <3>1. /\ IsFiniteSet(unacked[c] \cup {m})
          /\ Cardinality(unacked[c] \cup {m}) =
               IF m \in unacked[c] THEN Cardinality(unacked[c])
                                   ELSE Cardinality(unacked[c]) + 1
      BY <2>3, FS_AddElement
    <3>2. Cardinality(unacked[c] \cup {m}) <= Prefetch
      BY <2>3, <2>4, <3>1
    <3>3. QED
      BY <2>1, <3>1, <3>2
  <2>6. QED
    BY <2>1, <2>5 DEF PrefetchKept
<1>6. ASSUME NEW c \in Consumers, Start(c) PROVE PrefetchKept'
  BY <1>6 DEF Start, PrefetchKept
<1>7. ASSUME NEW c \in Consumers, Stop(c) PROVE PrefetchKept'
  <2>1. unacked'[c] = {} /\ \A d \in Consumers \ {c} : unacked'[d] = unacked[d]
    BY <1>7 DEF Stop, CloseChannel, TypeOK
  <2>2. IsFiniteSet({}) /\ Cardinality({}) <= Prefetch
    BY FS_EmptySet
  <2>3. QED
    BY <2>1, <2>2 DEF PrefetchKept
<1>8. ASSUME NEW c \in Consumers, Drop(c) PROVE PrefetchKept'
  <2>1. unacked'[c] = {} /\ \A d \in Consumers \ {c} : unacked'[d] = unacked[d]
    BY <1>8 DEF Drop, CloseChannel, TypeOK
  <2>2. IsFiniteSet({}) /\ Cardinality({}) <= Prefetch
    BY FS_EmptySet
  <2>3. QED
    BY <2>1, <2>2 DEF PrefetchKept
<1>9. ASSUME NEW c \in Consumers, Reconnect(c) PROVE PrefetchKept'
  BY <1>9 DEF Reconnect, PrefetchKept
<1>10. ASSUME NEW c \in Consumers, Exit(c) PROVE PrefetchKept'
  BY <1>10 DEF Exit, PrefetchKept
<1>11. ASSUME NEW c \in Consumers, Crash(c) PROVE PrefetchKept'
  <2>1. unacked'[c] = {} /\ \A d \in Consumers \ {c} : unacked'[d] = unacked[d]
    BY <1>11 DEF Crash, CloseChannel, TypeOK
  <2>2. IsFiniteSet({}) /\ Cardinality({}) <= Prefetch
    BY FS_EmptySet
  <2>3. QED
    BY <2>1, <2>2 DEF PrefetchKept
<1>12. CASE UNCHANGED vars
  BY <1>12 DEF PrefetchKept
<1>13. QED
  BY <1>1, <1>2, <1>3, <1>4, <1>5, <1>6, <1>7, <1>8, <1>9, <1>10, <1>11, <1>12 DEF Next

(* A message leaves the queue only processed or for the dead-letter queue. *)
LEMMA NextNothingLost ==
    ASSUME TypeOK, QueuesDeclared, NothingLost, \A h \in handlers : TaskSound(h), [Next]_vars
    PROVE  NothingLost'
<1> USE DEF consumerVars, brokerVars, historyVars, vars
<1>1. ASSUME NEW m \in Messages, Publish(m) PROVE NothingLost'
  <2>1. \A n \in Messages : Pending(n) => Pending(n)'
    BY <1>1 DEF Publish, Pending
  <2>2. Pending(m)'
    BY <1>1 DEF Publish, Pending
  <2>3. published' = published \cup {m} /\ dlq' = dlq /\ successes' = successes
    BY <1>1 DEF Publish
  <2>4. QED
    BY <2>1, <2>2, <2>3 DEF NothingLost, TypeOK
<1>2. ASSUME NEW h \in handlers, Handle(h) PROVE NothingLost'
  <2>1. h.msg \in Messages
    BY DEF TypeOK, Handler
  <2>2. UNCHANGED <<ready, unacked, dlq, published>>
    BY <1>2 DEF Handle
  <2>3. \/ successes' = successes
        \/ successes' = [successes EXCEPT ![h.msg] = successes[h.msg] + 1]
    BY <1>2 DEF Handle
  <2>4. ASSUME NEW n \in Messages, successes[n] > 0 PROVE successes'[n] > 0
    <3>1. successes[n] \in Nat /\ successes[h.msg] \in Nat
      BY <2>1 DEF TypeOK
    <3>2. successes'[n] = successes[n] \/ successes'[n] = successes[n] + 1
      BY <2>1, <2>3 DEF TypeOK
    <3>3. QED
      BY <2>4, <3>1, <3>2
  <2>5. QED
    BY <2>2, <2>4 DEF NothingLost, Pending, TypeOK
<1>3. ASSUME NEW h \in handlers, Settle(h) PROVE NothingLost'
  <2>1. h.msg \in Messages /\ h.con \in Consumers /\ TaskSound(h) /\ h \in Handler
    BY DEF TypeOK, Handler
  <2>2. /\ unacked' = [unacked EXCEPT ![h.con] = unacked[h.con] \ {h.msg}]
        /\ ready \subseteq ready' /\ dlq \subseteq dlq'
        /\ published' = published /\ successes' = successes
    BY <1>3 DEF Settle
  <2>3. \A n \in Messages : n # h.msg /\ Pending(n) => Pending(n)'
    BY <2>1, <2>2 DEF Pending, TypeOK
  <2>4. Pending(h.msg)' \/ h.msg \in dlq' \/ successes'[h.msg] > 0
    <3>1. h.st \in {"ack", "reject", "requeue"}
      BY <1>3, <2>1 DEF Settle, Handler
    <3>2. CASE h.st = "ack"
      BY <2>1, <2>2, <3>2 DEF TaskSound
    <3>3. CASE h.st = "requeue"
      <4>1. h.msg \in ready'
        BY <1>3, <3>3 DEF Settle
      <4>2. QED
        BY <4>1 DEF Pending
    <3>4. CASE h.st = "reject"
      <4>1. started[h.con] = 5
        BY <1>3, <2>1, ConsumeLast DEF Settle, TaskSound, Current, TypeOK
      <4>2. "dlq" \in queues
        BY <2>1, <4>1 DEF QueuesDeclared
      <4>3. QED
        BY <1>3, <3>4, <4>2 DEF Settle
    <3>5. QED
      BY <3>1, <3>2, <3>3, <3>4
  <2>5. QED
    BY <2>2, <2>3, <2>4 DEF NothingLost, TypeOK
<1>4. ASSUME NEW h \in handlers, SettleFails(h) PROVE NothingLost'
  BY <1>4 DEF SettleFails, NothingLost, Pending
<1>5. ASSUME NEW c \in Consumers, NEW m \in Messages, Deliver(c, m) PROVE NothingLost'
  <2>1. \A n \in Messages : Pending(n) => Pending(n)'
    BY <1>5 DEF Deliver, Pending, TypeOK
  <2>2. published' = published /\ dlq' = dlq /\ successes' = successes
    BY <1>5 DEF Deliver
  <2>3. QED
    BY <2>1, <2>2 DEF NothingLost, TypeOK
<1>6. ASSUME NEW c \in Consumers, Start(c) PROVE NothingLost'
  BY <1>6 DEF Start, NothingLost, Pending
<1>7. ASSUME NEW c \in Consumers, Stop(c) PROVE NothingLost'
  <2>1. \A m \in Messages : Pending(m) => Pending(m)'
    <3>1. /\ ready' = ready \cup unacked[c]
          /\ \A d \in Consumers \ {c} : unacked'[d] = unacked[d]
      BY <1>7 DEF Stop, CloseChannel, TypeOK
    <3>2. QED
      BY <3>1 DEF Pending
  <2>2. published' = published /\ dlq' = dlq /\ successes' = successes
    BY <1>7 DEF Stop
  <2>3. QED
    BY <2>1, <2>2 DEF NothingLost, TypeOK
<1>8. ASSUME NEW c \in Consumers, Drop(c) PROVE NothingLost'
  <2>1. \A m \in Messages : Pending(m) => Pending(m)'
    <3>1. /\ ready' = ready \cup unacked[c]
          /\ \A d \in Consumers \ {c} : unacked'[d] = unacked[d]
      BY <1>8 DEF Drop, CloseChannel, TypeOK
    <3>2. QED
      BY <3>1 DEF Pending
  <2>2. published' = published /\ dlq' = dlq /\ successes' = successes
    BY <1>8 DEF Drop
  <2>3. QED
    BY <2>1, <2>2 DEF NothingLost, TypeOK
<1>9. ASSUME NEW c \in Consumers, Reconnect(c) PROVE NothingLost'
  BY <1>9 DEF Reconnect, NothingLost, Pending
<1>10. ASSUME NEW c \in Consumers, Exit(c) PROVE NothingLost'
  BY <1>10 DEF Exit, NothingLost, Pending
<1>11. ASSUME NEW c \in Consumers, Crash(c) PROVE NothingLost'
  <2>1. \A m \in Messages : Pending(m) => Pending(m)'
    <3>1. /\ ready' = ready \cup unacked[c]
          /\ \A d \in Consumers \ {c} : unacked'[d] = unacked[d]
      BY <1>11 DEF Crash, CloseChannel, TypeOK
    <3>2. QED
      BY <3>1 DEF Pending
  <2>2. published' = published /\ dlq' = dlq /\ successes' = successes
    BY <1>11 DEF Crash
  <2>3. QED
    BY <2>1, <2>2 DEF NothingLost, TypeOK
<1>12. CASE UNCHANGED vars
  BY <1>12 DEF NothingLost, Pending
<1>13. QED
  BY <1>1, <1>2, <1>3, <1>4, <1>5, <1>6, <1>7, <1>8, <1>9, <1>10, <1>11, <1>12 DEF Next

(* There are finitely many tasks at any time. *)
LEMMA NextFinite ==
    ASSUME IsFiniteSet(handlers), [Next]_vars
    PROVE  IsFiniteSet(handlers')
<1> USE DEF consumerVars, brokerVars, historyVars, vars
<1>1. ASSUME NEW m \in Messages, Publish(m) PROVE IsFiniteSet(handlers')
  <2>1. handlers' \subseteq handlers
    BY <1>1 DEF Publish
  <2>2. QED
    BY <2>1, FS_Subset
<1>2. ASSUME NEW h \in handlers, Handle(h) PROVE IsFiniteSet(handlers')
  <2>1. PICK g : handlers' = (handlers \ {h}) \cup {g}
    BY <1>2 DEF Handle
  <2>2. IsFiniteSet(handlers \ {h})
    BY FS_RemoveElement
  <2>3. QED
    BY <2>1, <2>2, FS_AddElement
<1>3. ASSUME NEW h \in handlers, Settle(h) PROVE IsFiniteSet(handlers')
  <2>1. handlers' \subseteq handlers
    BY <1>3 DEF Settle
  <2>2. QED
    BY <2>1, FS_Subset
<1>4. ASSUME NEW h \in handlers, SettleFails(h) PROVE IsFiniteSet(handlers')
  <2>1. handlers' \subseteq handlers
    BY <1>4 DEF SettleFails
  <2>2. QED
    BY <2>1, FS_Subset
<1>5. ASSUME NEW c \in Consumers, NEW m \in Messages, Deliver(c, m) PROVE IsFiniteSet(handlers')
  <2>1. \A S, x : IsFiniteSet(S) => IsFiniteSet(S \cup {x})
    BY FS_AddElement
  <2>2. QED
    BY <1>5, <2>1 DEF Deliver
<1>6. ASSUME NEW c \in Consumers, Start(c) PROVE IsFiniteSet(handlers')
  <2>1. handlers' \subseteq handlers
    BY <1>6 DEF Start
  <2>2. QED
    BY <2>1, FS_Subset
<1>7. ASSUME NEW c \in Consumers, Stop(c) PROVE IsFiniteSet(handlers')
  <2>1. handlers' \subseteq handlers
    BY <1>7 DEF Stop
  <2>2. QED
    BY <2>1, FS_Subset
<1>8. ASSUME NEW c \in Consumers, Drop(c) PROVE IsFiniteSet(handlers')
  <2>1. handlers' \subseteq handlers
    BY <1>8 DEF Drop
  <2>2. QED
    BY <2>1, FS_Subset
<1>9. ASSUME NEW c \in Consumers, Reconnect(c) PROVE IsFiniteSet(handlers')
  <2>1. handlers' \subseteq handlers
    BY <1>9 DEF Reconnect
  <2>2. QED
    BY <2>1, FS_Subset
<1>10. ASSUME NEW c \in Consumers, Exit(c) PROVE IsFiniteSet(handlers')
  <2>1. handlers' \subseteq handlers
    BY <1>10 DEF Exit
  <2>2. QED
    BY <2>1, FS_Subset
<1>11. ASSUME NEW c \in Consumers, Crash(c) PROVE IsFiniteSet(handlers')
  <2>1. handlers' \subseteq handlers
    BY <1>11 DEF Crash
  <2>2. QED
    BY <2>1, FS_Subset
<1>12. CASE UNCHANGED vars
  <2>1. handlers' \subseteq handlers
    BY <1>12
  <2>2. QED
    BY <2>1, FS_Subset
<1>13. QED
  BY <1>1, <1>2, <1>3, <1>4, <1>5, <1>6, <1>7, <1>8, <1>9, <1>10, <1>11, <1>12 DEF Next

(* Undecided tasks can be counted. *)
LEMMA UndecidedCount ==
    ASSUME IsFiniteSet(handlers), NEW x
    PROVE  IsFiniteSet(Undecided(x)) /\ Cardinality(Undecided(x)) \in Nat
<1>1. Undecided(x) \in SUBSET handlers
  BY DEF Undecided
<1>2. IsFiniteSet(Undecided(x))
  BY <1>1, FS_Subset
<1>3. QED
  BY <1>2, FS_CardinalityType

(* Counting when tasks end. *)
LEMMA FewerCount ==
    ASSUME NEW S, NEW T, IsFiniteSet(S), T \subseteq S
    PROVE  Cardinality(T) <= Cardinality(S) /\ Cardinality(T) \in Nat
<1>1. IsFiniteSet(T) /\ Cardinality(T) <= Cardinality(S)
  BY FS_Subset
<1>2. QED
  BY <1>1, FS_CardinalityType

(* A step that at most ends tasks, and may lose a channel. *)
LEMMA QuietPaid ==
    ASSUME TypeOK, TypeOK', IsFiniteSet(handlers), NEW x \in Messages, Paid(x),
           handlers' \subseteq handlers,
           UNCHANGED <<successes, dlq, published, refused>>,
           (ready' = ready /\ drops' = drops) \/ drops' = drops + 1
    PROVE  Paid(x)'
<1>1. IsFiniteSet(Undecided(x)) /\ Cardinality(Undecided(x)) \in Nat
  BY UndecidedCount
<1>2. Undecided(x)' \subseteq Undecided(x)
  BY DEF Undecided
<1>3. PICK n \in Nat : n = Cardinality(Undecided(x)') /\ n <= Cardinality(Undecided(x))
  BY <1>1, <1>2, FewerCount
<1>4. successes[x] \in Nat /\ drops \in Nat
  BY DEF TypeOK
<1>5. successes[x] + One(x \in dlq) + One(x \in ready') + One(x \notin published) + n
        <= 1 + drops'
  BY <1>1, <1>3, <1>4 DEF Paid, One
<1>6. QED
  BY <1>3, <1>5 DEF Paid, One

(* Every chance of a further outcome costs m itself or a lost channel. *)
LEMMA NextPaid ==
    ASSUME TypeOK, TypeOK', IsFiniteSet(handlers), \A h \in handlers : TaskSound(h),
           NEW x \in Messages, Paid(x), [Next]_vars
    PROVE  Paid(x)'
<1> USE DEF consumerVars, brokerVars, historyVars, vars
<1>1. ASSUME NEW m \in Messages, Publish(m) PROVE Paid(x)'
  <2>1. CASE x # m
    <3>1. Undecided(x)' = Undecided(x)
      BY <1>1 DEF Publish, Undecided
    <3>2. /\ successes'[x] = successes[x] /\ (x \in dlq' <=> x \in dlq)
          /\ (x \in ready' <=> x \in ready) /\ (x \in published' <=> x \in published)
          /\ (x \in refused => x \in refused') /\ drops' = drops
      BY <1>1, <2>1 DEF Publish
    <3>3. QED
      BY <3>1, <3>2 DEF Paid, One
  <2>2. CASE x = m
    <3>1. PICK n \in Nat : n = Cardinality(Undecided(x))
      BY UndecidedCount
    <3>2. Undecided(x)' = Undecided(x)
      BY <1>1 DEF Publish, Undecided
    <3>3. UNCHANGED <<successes, dlq, drops, refused>> /\ x \notin published /\ x \in published'
      BY <1>1, <2>2 DEF Publish
    <3>4. successes[x] \in Nat /\ drops \in Nat
      BY DEF TypeOK
    <3>5. successes[x] + One(x \in dlq) + One(x \in ready) + 1 + n <= 1 + drops
      BY <3>1, <3>3 DEF Paid, One
    <3>6. successes[x] + One(x \in dlq) + One(x \in ready') + 0 + n <= 1 + drops
      BY <3>1, <3>4, <3>5 DEF One
    <3>7. QED
      BY <3>1, <3>2, <3>3, <3>6 DEF Paid, One
  <2>3. QED
    BY <2>1, <2>2
<1>2. ASSUME NEW h \in handlers, Handle(h) PROVE Paid(x)'
  <2>1. h \in Handler /\ h.msg \in Messages
    BY DEF TypeOK, Handler
  <2>2. PICK st \in {"ack", "reject", "requeue"} :
          /\ handlers' = (handlers \ {h}) \cup {[h EXCEPT !.st = st]}
          /\ successes' = IF st = "ack" THEN [successes EXCEPT ![h.msg] = successes[h.msg] + 1]
                                        ELSE successes
    BY <1>2 DEF Handle
  <2>3. UNCHANGED <<dlq, ready, published, drops>> /\ refused \subseteq refused'
    BY <1>2 DEF Handle
  <2>4. PICK g : /\ g = [h EXCEPT !.st = st] /\ g.msg = h.msg /\ g.st = st
                 /\ handlers' = (handlers \ {h}) \cup {g}
    BY <2>1, <2>2 DEF Handler
  <2>5. CASE x # h.msg
    <3>1. Undecided(x)' = Undecided(x)
      BY <2>4, <2>5 DEF Undecided
    <3>2. successes'[x] = successes[x]
      BY <2>1, <2>2, <2>5 DEF TypeOK
    <3>3. QED
      BY <2>3, <3>1, <3>2 DEF Paid
  <2>6. CASE x = h.msg
    <3>1. IsFiniteSet(Undecided(x)) /\ h \in Undecided(x)
      BY <1>2, <2>6, UndecidedCount DEF Handle, Undecided
    <3>2. PICK n \in Nat : n = Cardinality(Undecided(x))
      BY UndecidedCount
    <3>3. /\ IsFiniteSet(Undecided(x) \ {h}) /\ Cardinality(Undecided(x) \ {h}) = n - 1
      BY <3>1, <3>2, FS_RemoveElement
    <3>4. Cardinality(Undecided(x) \ {h}) \in Nat
      BY <3>3, FS_CardinalityType
    <3>5. successes[x] \in Nat /\ drops \in Nat
      BY DEF TypeOK
    <3>6. successes[x] + One(x \in dlq) + One(x \in ready) + One(x \notin published) + n
            <= 1 + drops
      BY <3>2 DEF Paid
    <3>7. CASE st = "ack"
      <4>1. Undecided(x)' = Undecided(x) \ {h}
        BY <2>4, <2>6, <3>7 DEF Undecided
      <4>2. successes'[x] = successes[x] + 1
        BY <2>1, <2>2, <2>6, <3>7 DEF TypeOK
      <4>3. successes[x] + 1 + One(x \in dlq) + One(x \in ready) + One(x \notin published)
              + (n - 1) <= 1 + drops
        BY <3>2, <3>5, <3>6 DEF One
      <4>4. QED
        BY <2>3, <3>3, <4>1, <4>2, <4>3 DEF Paid
    <3>8. CASE st # "ack"
      <4>1. Undecided(x)' = (Undecided(x) \ {h}) \cup {g}
        BY <2>4, <2>6, <3>8 DEF Undecided
      <4>2. successes' = successes
        BY <2>2, <3>8
      <4>3. PICK k \in Nat : k = Cardinality(Undecided(x)') /\ k <= n
        <5>1. \/ Cardinality((Undecided(x) \ {h}) \cup {g}) = n - 1
              \/ Cardinality((Undecided(x) \ {h}) \cup {g}) = n - 1 + 1
          BY <3>3, FS_AddElement
        <5>2. QED
          BY <3>2, <3>3, <3>4, <4>1, <5>1
      <4>4. successes[x] + One(x \in dlq) + One(x \in ready) + One(x \notin published) + k
              <= 1 + drops
        BY <3>2, <3>5, <3>6, <4>3 DEF One
      <4>5. QED
        BY <2>3, <4>2, <4>3, <4>4 DEF Paid
    <3>9. QED
      BY <3>7, <3>8
  <2>7. QED
    BY <2>5, <2>6
<1>3. ASSUME NEW h \in handlers, Settle(h) PROVE Paid(x)'
  <2>1. h \in Handler /\ h.msg \in Messages /\ TaskSound(h)
    BY DEF TypeOK, Handler
  <2>2. UNCHANGED <<successes, refused, published, drops>> /\ handlers' = handlers \ {h}
    BY <1>3 DEF Settle
  <2>3. CASE x # h.msg
    <3>1. Undecided(x)' = Undecided(x)
      BY <2>2, <2>3 DEF Undecided
    <3>2. (x \in dlq' <=> x \in dlq) /\ (x \in ready' <=> x \in ready)
      BY <1>3, <2>3 DEF Settle
    <3>3. QED
      BY <2>2, <3>1, <3>2 DEF Paid, One
  <2>4. CASE x = h.msg /\ h.st = "ack"
    <3>1. Undecided(x)' = Undecided(x)
      BY <2>2, <2>4 DEF Undecided
    <3>2. UNCHANGED <<dlq, ready>>
      BY <1>3, <2>4 DEF Settle
    <3>3. QED
      BY <2>2, <3>1, <3>2 DEF Paid
  <2>5. CASE x = h.msg /\ h.st # "ack"
    <3>1. IsFiniteSet(Undecided(x)) /\ h \in Undecided(x)
      BY <2>5, UndecidedCount DEF Undecided
    <3>2. PICK n \in Nat : n = Cardinality(Undecided(x))
      BY UndecidedCount
    <3>3. Cardinality(Undecided(x) \ {h}) = n - 1
      BY <3>1, <3>2, FS_RemoveElement
    <3>4. Undecided(x)' = Undecided(x) \ {h}
      BY <2>2 DEF Undecided
    <3>5. successes[x] \in Nat /\ drops \in Nat
      BY DEF TypeOK
    <3>6. successes[x] + One(x \in dlq) + One(x \in ready) + One(x \notin published) + n
            <= 1 + drops
      BY <3>2 DEF Paid
    <3>7. ready' = ready \/ dlq' = dlq
      BY <1>3 DEF Settle
    <3>8. x \in dlq' => x \in refused
      BY <1>3, <2>1, <2>5 DEF Settle, TaskSound, Paid
    <3>9. One(x \in dlq') + One(x \in ready') <= One(x \in dlq) + One(x \in ready) + 1
      BY <3>7 DEF One
    <3>10. successes[x] + One(x \in dlq') + One(x \in ready') + One(x \notin published)
             + (n - 1) <= 1 + drops
      BY <3>2, <3>5, <3>6, <3>9 DEF One
    <3>11. QED
      BY <2>2, <3>3, <3>4, <3>8, <3>10 DEF Paid
  <2>6. QED
    BY <2>3, <2>4, <2>5
<1>4. ASSUME NEW h \in handlers, SettleFails(h) PROVE Paid(x)'
  <2>1. handlers' \subseteq handlers
    BY <1>4 DEF SettleFails
  <2>2. UNCHANGED <<successes, dlq, published, refused, ready, drops>>
    BY <1>4 DEF SettleFails
  <2>3. QED
    BY <2>1, <2>2, QuietPaid
<1>5. ASSUME NEW c \in Consumers, NEW m \in Messages, Deliver(c, m) PROVE Paid(x)'
  <2>1. UNCHANGED <<successes, refused, published, drops, dlq>> /\ ready' = ready \ {m}
    BY <1>5 DEF Deliver
  <2>2. PICK g : g.msg = m /\ g.st = "run" /\ handlers' = handlers \cup {g}
    BY <1>5 DEF Deliver
  <2>3. CASE x # m
    <3>1. Undecided(x)' = Undecided(x)
      BY <2>2, <2>3 DEF Undecided
    <3>2. QED
      BY <2>1, <2>3, <3>1 DEF Paid, One
  <2>4. CASE x = m
    <3>1. Undecided(x)' = Undecided(x) \cup {g}
      BY <2>2, <2>4 DEF Undecided
    <3>2. PICK n \in Nat : n = Cardinality(Undecided(x))
      BY UndecidedCount
    <3>3. \/ Cardinality(Undecided(x) \cup {g}) = n
          \/ Cardinality(Undecided(x) \cup {g}) = n + 1
      BY <3>2, UndecidedCount, FS_AddElement
    <3>4. PICK k \in Nat : k = Cardinality(Undecided(x)') /\ k <= n + 1
      BY <3>1, <3>2, <3>3
    <3>5. successes[x] \in Nat /\ drops \in Nat
      BY DEF TypeOK
    <3>6. x \in ready /\ x \notin ready'
      BY <1>5, <2>1, <2>4 DEF Deliver
    <3>7. successes[x] + One(x \in dlq) + 1 + One(x \notin published) + n <= 1 + drops
      BY <3>2, <3>6 DEF Paid, One
    <3>8. successes[x] + One(x \in dlq) + 0 + One(x \notin published) + k <= 1 + drops
      BY <3>2, <3>4, <3>5, <3>7 DEF One
    <3>9. QED
      BY <2>1, <3>4, <3>6, <3>8 DEF Paid, One
  <2>5. QED
    BY <2>3, <2>4
<1>6. ASSUME NEW c \in Consumers, Start(c) PROVE Paid(x)'
  <2>1. handlers' \subseteq handlers
    BY <1>6 DEF Start
  <2>2. UNCHANGED <<successes, dlq, published, refused, ready, drops>>
    BY <1>6 DEF Start
  <2>3. QED
    BY <2>1, <2>2, QuietPaid
<1>7. ASSUME NEW c \in Consumers, Stop(c) PROVE Paid(x)'
  <2>1. handlers' \subseteq handlers
    BY <1>7 DEF Stop
  <2>2. UNCHANGED <<successes, dlq, published, refused>> /\ drops' = drops + 1
    BY <1>7 DEF Stop, CloseChannel
  <2>3. QED
    BY <2>1, <2>2, QuietPaid
<1>8. ASSUME NEW c \in Consumers, Drop(c) PROVE Paid(x)'
  <2>1. handlers' \subseteq handlers
    BY <1>8 DEF Drop
  <2>2. UNCHANGED <<successes, dlq, published, refused>> /\ drops' = drops + 1
    BY <1>8 DEF Drop, CloseChannel
  <2>3. QED
    BY <2>1, <2>2, QuietPaid
<1>9. ASSUME NEW c \in Consumers, Reconnect(c) PROVE Paid(x)'
  <2>1. handlers' \subseteq handlers
    BY <1>9 DEF Reconnect
  <2>2. UNCHANGED <<successes, dlq, published, refused, ready, drops>>
    BY <1>9 DEF Reconnect
  <2>3. QED
    BY <2>1, <2>2, QuietPaid
<1>10. ASSUME NEW c \in Consumers, Exit(c) PROVE Paid(x)'
  <2>1. handlers' \subseteq handlers
    BY <1>10 DEF Exit
  <2>2. UNCHANGED <<successes, dlq, published, refused, ready, drops>>
    BY <1>10 DEF Exit
  <2>3. QED
    BY <2>1, <2>2, QuietPaid
<1>11. ASSUME NEW c \in Consumers, Crash(c) PROVE Paid(x)'
  <2>1. handlers' \subseteq handlers
    BY <1>11 DEF Crash
  <2>2. UNCHANGED <<successes, dlq, published, refused>> /\ drops' = drops + 1
    BY <1>11 DEF Crash, CloseChannel
  <2>3. QED
    BY <2>1, <2>2, QuietPaid
<1>12. CASE UNCHANGED vars
  <2>1. Undecided(x)' = Undecided(x)
    BY <1>12 DEF Undecided
  <2>2. QED
    BY <1>12, <2>1 DEF Paid
<1>13. QED
  BY <1>1, <1>2, <1>3, <1>4, <1>5, <1>6, <1>7, <1>8, <1>9, <1>10, <1>11, <1>12 DEF Next

(* The types and the invariant hold in every reachable state. *)
LEMMA Invariants == Spec => [](TypeOK /\ ConsumerInv)
<1>1. Init => TypeOK /\ ConsumerInv
  BY InitInv
<1>2. TypeOK /\ ConsumerInv /\ [Next]_vars => (TypeOK /\ ConsumerInv)'
  <2>1. SUFFICES ASSUME TypeOK, ConsumerInv, [Next]_vars PROVE TypeOK' /\ ConsumerInv'
    OBVIOUS
  <2>2. /\ QueuesDeclared /\ HoldsOnlyUp /\ \A h \in handlers : TaskSound(h)
        /\ DeliveriesHandled /\ PrefetchKept /\ NothingLost
        /\ IsFiniteSet(handlers) /\ \A x \in Messages : Paid(x)
    BY <2>1 DEF ConsumerInv
  <2>3. TypeOK' /\ QueuesDeclared' /\ HoldsOnlyUp'
    BY <2>1, <2>2, NextTypeOK, NextQueues, NextHolds
  <2>4. \A k \in handlers' : TaskSound(k)'
    BY <2>1, <2>2, NextTasks
  <2>5. DeliveriesHandled' /\ PrefetchKept' /\ NothingLost'
    BY <2>1, <2>2, NextDeliveries, NextPrefetch, NextNothingLost
  <2>6. IsFiniteSet(handlers)'
    BY <2>1, <2>2, NextFinite
  <2>7. \A x \in Messages : Paid(x)'
    BY <2>1, <2>2, <2>3, NextPaid
  <2>8. QED
    BY <2>3, <2>4, <2>5, <2>6, <2>7 DEF ConsumerInv
<1>3. QED
  BY <1>1, <1>2, PTL DEF Spec

(* Every variable of the consumer and its queue keeps its type. *)
THEOREM TypeCorrect == Spec => []TypeOK
BY Invariants, PTL

(* No message is lost by BaseConsumer, whatever process_message raises and *)
(* whenever channels and processes end: what has left the queue was        *)
(* processed or is in the dead-letter queue.                               *)
THEOREM NoMessageLost == Spec => []NothingLost
<1>1. ConsumerInv => NothingLost
  BY DEF ConsumerInv
<1>2. QED
  BY <1>1, Invariants, PTL

(* No prefetch slot leaks: every delivery the broker waits for has a live  *)
(* task on the channel it came from, and there are at most prefetch_count. *)
THEOREM NoSlotLeaks == Spec => []SlotsAccounted
<1>1. ConsumerInv => SlotsAccounted
  BY DEF ConsumerInv, PrefetchKept, DeliveriesHandled, SlotsAccounted
<1>2. QED
  BY <1>1, Invariants, PTL

(* A message is processed twice, or processed and dead-lettered, only if   *)
(* a channel was lost for it: each lost channel pays for one more outcome. *)
THEOREM DuplicatesArePaid == Spec => []DuplicatesNeedDrops
<1>1. ASSUME TypeOK, ConsumerInv PROVE DuplicatesNeedDrops
  <2>1. SUFFICES ASSUME NEW m \in Messages
                 PROVE  /\ m \in dlq => m \in refused
                        /\ successes[m] + One(m \in dlq) <= 1 + drops
    BY DEF DuplicatesNeedDrops
  <2>2. Paid(m) /\ IsFiniteSet(handlers)
    BY <1>1 DEF ConsumerInv
  <2>3. PICK n \in Nat : n = Cardinality(Undecided(m))
    BY <2>2, UndecidedCount
  <2>4. successes[m] \in Nat /\ drops \in Nat
    BY <1>1 DEF TypeOK
  <2>5. QED
    BY <2>2, <2>3, <2>4 DEF Paid, One
<1>2. QED
  BY <1>1, Invariants, PTL
=============================================================================
