------------------------- MODULE Lifecycle_proofs --------------------------
(* The safety properties of Lifecycle hold for any number of starts and of *)
(* changes of the dependencies.                                            *)
EXTENDS Lifecycle, TLAPS

USE LifecycleAssumption

-----------------------------------------------------------------------------
(* The inductive invariant.                                                *)

(* How many awaits of the start, and of the shutdown, there are. *)
StartLength == IF kind = "api" THEN 4 ELSE 3

(* The clients the shutdown has closed so far. *)
Closed == IF kind = "api" THEN step - 1 ELSE step

(* Nothing is left of a process that has ended. *)
DownIsEmpty ==
    phase = "down" => /\ open = {} /\ task = "none" /\ cancel = "no"
                      /\ probe = "idle"

(* While it starts, a process holds the clients created so far. *)
StartInOrder ==
    phase = "starting" =>
        /\ step < StartLength
        /\ task = "none" /\ cancel = "no" /\ probe = "idle"
        /\ "pool" \in open <=> step >= 1
        /\ "amqp" \in open <=> step >= 2
        /\ "redis" \in open <=> step >= 3

(* While it serves, all clients are open and the task of the API is in its *)
(* loop.                                                                   *)
ServingIsComplete ==
    phase = "serving" =>
        /\ open = Clients
        /\ cancel = "no"
        /\ task \in IF kind = "api" THEN {"created", "batch", "sleep"} ELSE {"none"}

(* While it stops, the clients not yet closed are open; none is closed     *)
(* before the task has ended, and the task leaves its loop only by the     *)
(* cancellation.                                                           *)
StopInOrder ==
    phase = "stopping" =>
        /\ step < StartLength
        /\ probe = "idle"
        /\ "redis" \in open <=> Closed <= 0
        /\ "amqp" \in open <=> Closed <= 1
        /\ "pool" \in open
        /\ kind = "worker" => task = "none" /\ cancel = "no"
        /\ kind = "api" /\ step = 0 =>
              \/ task \in {"created", "batch", "sleep"}
              \/ task \in {"closing", "ended", "raised"} /\ cancel = "delivered"
        /\ kind = "api" /\ step > 0 => task = "ended"

(* While a probe runs, it has seen every dependency as it is, and found    *)
(* only what it has seen.                                                  *)
ProbeSees ==
    /\ probe # "idle" => \A d \in Deps : <<d, up[d]>> \in seen
    /\ probe = "redis" =>
          /\ <<"database", checks["database"]>> \in seen
          /\ ~checks["broker"] => <<"broker", FALSE>> \in seen

ProcessInv == DownIsEmpty /\ StartInOrder /\ ServingIsComplete /\ StopInOrder

ProbeInv == ProbeSees /\ ReadinessHonest

(* Nothing has raised in a process that has not ended: a raise ends it.    *)
NotYetRaised == phase # "down" => raised = "no"

ShutdownInv == NotYetRaised /\ CleanShutdown

LifeInv == TypeOK /\ ProcessInv /\ ProbeInv /\ ShutdownInv

-----------------------------------------------------------------------------
(* Lemmas.                                                                 *)

(* The awaits of a start, one by one. *)
LEMMA StartSeqSteps ==
    ASSUME TypeOK
    PROVE  /\ Len(StartSeq) = StartLength
           /\ StartSeq[1] = "pool"
           /\ StartSeq[2] = "amqp"
           /\ StartSeq[3] = "redis"
           /\ kind = "api" => StartSeq[4] = "task"
BY DEF TypeOK, StartSeq, StartLength

(* The awaits of a shutdown, one by one. *)
LEMMA StopSeqSteps ==
    ASSUME TypeOK
    PROVE  /\ Len(StopSeq) = StartLength
           /\ kind = "api" => /\ StopSeq[1] = "task"
                              /\ StopSeq[2] = "redis"
                              /\ StopSeq[3] = "amqp"
                              /\ StopSeq[4] = "pool"
           /\ kind = "worker" => /\ StopSeq[1] = "redis"
                                 /\ StopSeq[2] = "amqp"
                                 /\ StopSeq[3] = "pool"
BY DEF TypeOK, StopSeq, StartLength

(* What the end of the process leaves. *)
LEMMA EndKeepsInv ==
    ASSUME LifeInv, ProcessEnds, raised' \in {"no", "task"} \cup Clients,
           left' \subseteq Clients, CleanShutdown'
    PROVE  LifeInv'
<1>1. TypeOK'
  BY DEF LifeInv, TypeOK, ProcessEnds, Answers
<1>2. ProcessInv'
  BY DEF ProcessEnds, ProcessInv, DownIsEmpty, StartInOrder, ServingIsComplete,
         StopInOrder
<1>3. ProbeInv'
  BY DEF ProcessEnds, ProbeInv, ProbeSees, ReadinessHonest, NoAnswer
<1>4. QED
  BY <1>1, <1>2, <1>3 DEF LifeInv, ShutdownInv, NotYetRaised, ProcessEnds

(* The readiness probe does not look at the process. *)
LEMMA ProbeFrame ==
    ASSUME ProbeInv, UNCHANGED <<up, probeVars>>
    PROVE  ProbeInv'
BY DEF ProbeInv, ProbeSees, ReadinessHonest, probeVars

(* Nor does the process look at the dependencies. *)
LEMMA ProcessFrame ==
    ASSUME ProcessInv, UNCHANGED <<processVars, task, cancel, probe>>
    PROVE  ProcessInv' /\ ShutdownInv' = ShutdownInv
BY DEF ProcessInv, DownIsEmpty, StartInOrder, ServingIsComplete, StopInOrder,
       processVars, ShutdownInv, NotYetRaised, CleanShutdown, StartLength, Closed

-----------------------------------------------------------------------------
(* Init and Next.                                                          *)

(* The invariant holds initially. *)
LEMMA InitLifeInv == Init => LifeInv
<1> SUFFICES ASSUME Init PROVE LifeInv
  OBVIOUS
<1>1. 0 \in Nat /\ 0 \in 0 .. 4
  OBVIOUS
<1>2. TypeOK
  BY <1>1, Zenon DEF Init, TypeOK, Answers
<1>3. ProcessInv
  BY DEF Init, ProcessInv, DownIsEmpty, StartInOrder, ServingIsComplete, StopInOrder
<1>4. ProbeInv /\ ShutdownInv
  BY DEF Init, ProbeInv, ProbeSees, ShutdownInv, NotYetRaised, CleanShutdown,
         ReadinessHonest, NoAnswer
<1>5. QED
  BY <1>2, <1>3, <1>4 DEF LifeInv

(* The start of the process. *)
LEMMA LaunchKeepsInv == ASSUME LifeInv, Launch PROVE LifeInv'
<1>0. starts' \in Nat /\ step' \in 0 .. 4
  BY DEF LifeInv, TypeOK, Launch
<1>1. TypeOK'
  BY <1>0, Zenon DEF LifeInv, TypeOK, Launch, taskVars, probeVars
<1>2. ProcessInv'
  BY DEF LifeInv, TypeOK, Launch, taskVars, probeVars, ProcessInv, DownIsEmpty,
         StartInOrder, ServingIsComplete, StopInOrder, StartLength
<1>3. ProbeInv' /\ ShutdownInv'
  BY ProbeFrame DEF LifeInv, Launch, ShutdownInv, NotYetRaised, CleanShutdown
<1>4. QED
  BY <1>1, <1>2, <1>3 DEF LifeInv

LEMMA StartStepKeepsInv == ASSUME LifeInv, StartStep PROVE LifeInv'
<1>0. /\ TypeOK /\ phase = "starting" /\ StartInOrder /\ step < StartLength
      /\ step \in 0 .. 3
  BY DEF LifeInv, ProcessInv, StartInOrder, StartStep, TypeOK, StartLength
<1> DEFINE s == StartSeq[step + 1]
<1>1. /\ Len(StartSeq) = StartLength
      /\ step = 0 => s = "pool"
      /\ step = 1 => s = "amqp"
      /\ step = 2 => s = "redis"
      /\ step = 3 => s = "task" /\ kind = "api"
  BY <1>0, StartSeqSteps DEF StartLength, TypeOK
<1>2. /\ open' = open \cup ({s} \cap Clients)
      /\ task' = IF s = "task" THEN "created" ELSE task
      /\ IF step + 1 = StartLength THEN phase' = "serving" /\ step' = 0
                                   ELSE phase' = phase /\ step' = step + 1
      /\ UNCHANGED <<kind, cancel, probe, up, probeVars, raised, left>>
  BY <1>1 DEF StartStep, probeVars
<1> HIDE DEF s
<1>3. TypeOK'
  <2>1. open' \subseteq Clients /\ task' \in {task, "created"}
    BY <1>0, <1>2 DEF TypeOK
  <2>2. step' \in 0 .. 4 /\ phase' \in {"starting", "serving"}
    BY <1>0, <1>2
  <2>3. QED
    BY <1>0, <2>1, <2>2 DEF TypeOK, StartStep, probeVars
<1>4. ProcessInv'
  <2> USE DEF ProcessInv, DownIsEmpty, StartInOrder, ServingIsComplete, StopInOrder
  <2>1. /\ "pool" \in open'
        /\ step = 0 => "amqp" \notin open' /\ "redis" \notin open'
        /\ step = 1 => "amqp" \in open' /\ "redis" \notin open'
        /\ step >= 2 => "amqp" \in open' /\ "redis" \in open'
    <3>1. s \in {"pool", "amqp", "redis", "task"}
      BY <1>0, <1>1
    <3>2. \A c \in Clients : c \in open' <=> c \in open \/ c = s
      BY <1>2
    <3>3. /\ "pool" \in open <=> step >= 1
          /\ "amqp" \in open <=> step >= 2
          /\ "redis" \in open <=> step >= 3
      BY <1>0
    <3>4. {"pool", "amqp", "redis"} \subseteq Clients
      BY DEF Clients
    <3>5. QED
      BY <1>0, <1>1, <3>1, <3>2, <3>3, <3>4
  <2>2. CASE step + 1 < StartLength
    <3>1. phase' = "starting" /\ step' = step + 1 /\ task' = "none"
          /\ cancel' = "no" /\ probe' = "idle" /\ StartLength' = StartLength
      BY <1>0, <1>1, <1>2, <2>2 DEF StartLength
    <3>2. QED
      BY <1>0, <2>1, <2>2, <3>1
  <2>3. CASE step + 1 = StartLength
    <3>1. phase' = "serving" /\ cancel' = "no" /\ step >= 2
          /\ task' = IF kind = "api" THEN "created" ELSE "none"
      BY <1>0, <1>1, <1>2, <2>3 DEF StartLength, TypeOK
    <3>2. open' = Clients
      BY <1>0, <1>2, <2>1, <3>1 DEF TypeOK, Clients
    <3>3. QED
      BY <1>2, <3>1, <3>2
  <2>4. QED
    BY <1>0, <2>2, <2>3 DEF StartLength
<1>5. ProbeInv' /\ ShutdownInv'
  BY <1>0, <1>2, ProbeFrame DEF LifeInv, ShutdownInv, NotYetRaised, CleanShutdown
<1>6. QED
  BY <1>3, <1>4, <1>5 DEF LifeInv

(* The shutdown: up to its last await. *)
LEMMA StopBeginsKeepsInv == ASSUME LifeInv, StopBegins PROVE LifeInv'
<1>1. TypeOK'
  BY DEF LifeInv, TypeOK, StopBegins, taskVars, probeVars
<1>2. ProcessInv'
  BY DEF LifeInv, TypeOK, StopBegins, taskVars, probeVars, ProcessInv, DownIsEmpty,
         StartInOrder, ServingIsComplete, StopInOrder, StartLength, Closed, Clients
<1>3. ProbeInv' /\ ShutdownInv'
  BY ProbeFrame DEF LifeInv, StopBegins, ShutdownInv, NotYetRaised, CleanShutdown
<1>4. QED
  BY <1>1, <1>2, <1>3 DEF LifeInv

LEMMA CancelTaskKeepsInv == ASSUME LifeInv, CancelTask PROVE LifeInv'
<1>0. /\ TypeOK /\ phase = "stopping" /\ StopInOrder /\ step \in 0 .. 3
      /\ step < StartLength
  BY DEF LifeInv, ProcessInv, StopInOrder, CancelTask, TypeOK, StartLength
<1>1. kind = "api" /\ step = 0
  BY <1>0, StopSeqSteps DEF CancelTask, TypeOK, StartLength
<1>2. TypeOK'
  BY DEF LifeInv, TypeOK, CancelTask, processVars, probeVars
<1>3. ProcessInv'
  BY <1>0, <1>1 DEF CancelTask, processVars, probeVars, ProcessInv, DownIsEmpty,
         StartInOrder, ServingIsComplete, StopInOrder, StartLength, Closed
<1>4. ProbeInv' /\ ShutdownInv'
  BY ProbeFrame DEF LifeInv, CancelTask, ShutdownInv, NotYetRaised, CleanShutdown,
                     processVars
<1>5. QED
  BY <1>2, <1>3, <1>4 DEF LifeInv

LEMMA StopStepKeepsInv == ASSUME LifeInv, StopStep PROVE LifeInv'
<1>0. /\ TypeOK /\ phase = "stopping" /\ StopInOrder /\ step \in 0 .. 3
      /\ step < StartLength
  BY DEF LifeInv, ProcessInv, StopInOrder, StopStep, TypeOK, StartLength
<1> DEFINE s == StopSeq[step + 1]
<1>1. /\ step + 1 < StartLength
      /\ kind = "api" => /\ step = 0 => s = "task" /\ task = "ended"
                         /\ step = 1 => s = "redis"
                         /\ step = 2 => s = "amqp"
      /\ kind = "worker" => /\ step = 0 => s = "redis"
                            /\ step = 1 => s = "amqp"
  <2>1. step + 1 < StartLength
    BY <1>0, StopSeqSteps DEF StopStep
  <2>2. s = "task" => task = "ended"
    BY DEF StopStep, Returns
  <2>3. QED
    BY <1>0, <2>1, <2>2, StopSeqSteps
<1>2. /\ open' = open \ {s} /\ step' = step + 1
      /\ UNCHANGED <<kind, phase, task, cancel, probe, up, probeVars, raised, left>>
  BY DEF StopStep, probeVars, taskVars
<1> HIDE DEF s
<1>3. TypeOK'
  <2>1. open' \subseteq Clients /\ step' \in 0 .. 4
    BY <1>0, <1>2 DEF TypeOK
  <2>2. QED
    BY <1>0, <2>1 DEF TypeOK, StopStep, probeVars, taskVars
<1>4. ProcessInv'
  BY <1>0, <1>1, <1>2 DEF TypeOK, ProcessInv, DownIsEmpty, StartInOrder,
     ServingIsComplete, StopInOrder, StartLength, Closed
<1>5. ProbeInv' /\ ShutdownInv'
  BY <1>2, ProbeFrame DEF LifeInv, ShutdownInv, NotYetRaised, CleanShutdown
<1>6. QED
  BY <1>3, <1>4, <1>5 DEF LifeInv

(* The last await closes the pool, the only client that is still open. *)
LEMMA StopEndsKeepsInv == ASSUME LifeInv, StopEnds PROVE LifeInv'
<1>0. /\ TypeOK /\ phase = "stopping" /\ StopInOrder /\ step \in 0 .. 3
  BY DEF LifeInv, ProcessInv, StopInOrder, StopEnds, TypeOK, StartLength
<1>1. step + 1 = StartLength /\ StopSeq[step + 1] = "pool"
  BY <1>0, StopSeqSteps DEF StopEnds, StartLength, TypeOK
<1>2. open = {"pool"}
  <2>1. Closed = 2
    BY <1>0, <1>1 DEF Closed, StartLength
  <2>2. "redis" \notin open /\ "amqp" \notin open /\ "pool" \in open
    BY <1>0, <2>1 DEF StopInOrder
  <2>3. QED
    BY <1>0, <2>2 DEF TypeOK, Clients
<1>3. left' = {} /\ raised' = "no"
  BY <1>0, <1>1, <1>2 DEF StopEnds, LifeInv, ShutdownInv, NotYetRaised
<1>4. CleanShutdown'
  BY <1>3 DEF CleanShutdown
<1>5. QED
  BY <1>3, <1>4, EndKeepsInv DEF StopEnds

(* A raise leaves open what the shutdown had not closed before it. *)
LEMMA StopRaisesKeepsInv == ASSUME LifeInv, StopRaises PROVE LifeInv'
<1>0. /\ TypeOK /\ StopInOrder /\ phase = "stopping" /\ step \in 0 .. 3
      /\ step < StartLength
  BY DEF LifeInv, ProcessInv, StopInOrder, StopRaises, TypeOK, StartLength
<1>1. /\ raised' = "task" => kind = "api" /\ step = 0
      /\ raised' = "redis" => Closed = 0
      /\ raised' = "amqp" => Closed = 1
      /\ raised' = "pool" => Closed = 2
      /\ raised' \in {"task", "redis", "amqp", "pool"}
  BY <1>0, StopSeqSteps DEF StopRaises, TypeOK, StartLength, Closed
<1>2. /\ left' = open /\ open \subseteq Clients /\ "pool" \in open
      /\ "redis" \in open <=> Closed <= 0
      /\ "amqp" \in open <=> Closed <= 1
  BY <1>0 DEF StopRaises, StopInOrder, TypeOK
<1>3. CleanShutdown'
  <2>1. CASE raised' \in {"task", "redis"}
    <3>1. "redis" \in open /\ "amqp" \in open
      BY <1>0, <1>1, <1>2, <2>1 DEF Closed
    <3>2. left' = {"redis", "amqp", "pool"}
      BY <1>2, <3>1, Zenon DEF Clients
    <3>3. QED
      BY <2>1, <3>2 DEF CleanShutdown
  <2>2. CASE raised' = "amqp"
    <3>1. "redis" \notin open /\ "amqp" \in open
      BY <1>1, <1>2, <2>2
    <3>2. left' = {"amqp", "pool"}
      BY <1>2, <3>1, Zenon DEF Clients
    <3>3. QED
      BY <2>2, <3>2 DEF CleanShutdown
  <2>3. CASE raised' = "pool"
    <3>1. "redis" \notin open /\ "amqp" \notin open
      BY <1>1, <1>2, <2>3
    <3>2. left' = {"pool"}
      BY <1>2, <3>1, Zenon DEF Clients
    <3>3. QED
      BY <2>3, <3>2 DEF CleanShutdown
  <2>4. QED
    BY <1>1, <2>1, <2>2, <2>3
<1>4. QED
  BY <1>1, <1>2, <1>3, EndKeepsInv DEF StopRaises, Clients

(* The end of the process without a shutdown. *)
LEMMA AbortKeepsInv == ASSUME LifeInv, StartFails \/ Killed PROVE LifeInv'
<1>1. ProcessEnds /\ UNCHANGED <<raised, left>>
  BY DEF StartFails, Killed
<1>2. CleanShutdown'
  BY <1>1 DEF LifeInv, ShutdownInv, CleanShutdown
<1>3. QED
  BY <1>1, <1>2, EndKeepsInv DEF LifeInv, TypeOK

LEMMA SignalKeepsInv == ASSUME LifeInv, Signal PROVE LifeInv'
<1>1. TypeOK'
  BY DEF LifeInv, TypeOK, Signal, taskVars, probeVars
<1>2. ProcessInv'
  BY DEF LifeInv, Signal, taskVars, probeVars, ProcessInv, DownIsEmpty,
         StartInOrder, ServingIsComplete, StopInOrder, StartLength, Closed
<1>3. ProbeInv' /\ ShutdownInv'
  BY ProbeFrame DEF LifeInv, Signal, ShutdownInv, NotYetRaised, CleanShutdown
<1>4. QED
  BY <1>1, <1>2, <1>3 DEF LifeInv

(* The outbox task exists only in the API, and leaves its loop only when   *)
(* its cancellation has been delivered.                                    *)
LEMMA TaskKeepsInv ==
    ASSUME LifeInv, Task \/ BatchChannel \/ ChannelDies
    PROVE  LifeInv'
<1> USE DEF Task, WakeUp, BatchReturns, BatchRaises, BatchCancelled, CancelOvertaken,
            ChannelClosed, BatchChannel, ChannelDies, TaskStep, processVars, probeVars
<1>1. TypeOK'
  BY DEF LifeInv, TypeOK
<1>2. /\ UNCHANGED <<kind, phase, step, open, probe, up, raised, left>>
      /\ \/ task' = task /\ cancel' = cancel
         \/ /\ task \in {"created", "batch", "sleep"}
            /\ task' \in {"batch", "sleep"} /\ cancel # "pending" /\ cancel' = cancel
         \/ /\ task \in {"created", "batch", "sleep"} /\ cancel = "pending"
            /\ task' \in {"ended", "closing", "sleep"} /\ cancel' = "delivered"
         \/ task = "closing" /\ task' \in {"ended", "raised"} /\ cancel' = cancel
  OBVIOUS
<1>3. ProcessInv'
  BY <1>2 DEF LifeInv, TypeOK, ProcessInv, DownIsEmpty, StartInOrder,
     ServingIsComplete, StopInOrder, StartLength, Closed
<1>4. ProbeInv' /\ ShutdownInv'
  BY <1>2, ProbeFrame DEF LifeInv, ShutdownInv, NotYetRaised, CleanShutdown
<1>5. QED
  BY <1>1, <1>3, <1>4 DEF LifeInv

(* The readiness probe. *)
LEMMA ProbeKeepsInv ==
    ASSUME LifeInv, Probe \/ ProbeDatabase \/ ProbeRedis
    PROVE  LifeInv'
<1>0. TypeOK /\ ProbeInv /\ ProcessInv
  BY DEF LifeInv
<1>1. phase = "serving"
  BY <1>0 DEF Probe, ProbeDatabase, ProbeRedis, TypeOK, ProcessInv, DownIsEmpty,
     StartInOrder, StopInOrder
<1>2. ProcessInv' /\ ShutdownInv'
  BY <1>1 DEF LifeInv, Probe, ProbeDatabase, ProbeRedis, processVars, taskVars,
     ProcessInv, DownIsEmpty, StartInOrder, ServingIsComplete, StopInOrder,
     ShutdownInv, NotYetRaised, CleanShutdown
<1>3. CASE Probe
  <2>1. TypeOK'
    BY <1>0, <1>3 DEF TypeOK, Probe, processVars, taskVars, Answers
  <2>2. ProbeInv'
    BY <1>0, <1>3 DEF Probe, ProbeInv, ProbeSees, ReadinessHonest
  <2>3. QED
    BY <1>2, <2>1, <2>2 DEF LifeInv
<1>4. CASE ProbeDatabase
  <2>1. PICK closed \in BOOLEAN :
           /\ closed => ~up["broker"]
           /\ checks' = [checks EXCEPT !["database"] = up["database"],
                                       !["broker"] = ~closed]
    BY <1>4 DEF ProbeDatabase
  <2>2. /\ checks' \in [Deps -> BOOLEAN]
        /\ checks'["database"] = up["database"]
        /\ checks'["broker"] = ~closed
    BY <1>0, <2>1 DEF TypeOK, Deps
  <2>3. TypeOK'
    BY <1>0, <1>4, <2>2 DEF TypeOK, ProbeDatabase, processVars, taskVars
  <2>4. ~checks'["broker"] => up["broker"] = FALSE
    BY <1>0, <2>1, <2>2 DEF TypeOK, Deps
  <2>5. ProbeInv'
    BY <1>0, <1>4, <2>2, <2>4 DEF ProbeDatabase, ProbeInv, ProbeSees,
       ReadinessHonest, Deps
  <2>6. QED
    BY <1>2, <2>3, <2>5 DEF LifeInv
<1>5. CASE ProbeRedis
  <2>1. /\ checks' = [checks EXCEPT !["redis"] = up["redis"]]
        /\ checks' \in [Deps -> BOOLEAN]
        /\ checks'["database"] = checks["database"]
        /\ checks'["broker"] = checks["broker"]
    BY <1>0, <1>5 DEF ProbeRedis, TypeOK, Deps
  <2>2. answer' = [status |-> IF checks["database"] /\ checks["broker"]
                              THEN "ready" ELSE "not_ready", http |-> 200]
    BY <1>5, <2>1 DEF ProbeRedis, AllOk
  <2>3. TypeOK'
    BY <1>0, <1>5, <2>1, <2>2 DEF TypeOK, ProbeRedis, processVars, taskVars, Answers
  <2>4. /\ checks["database"] => <<"database", TRUE>> \in seen
        /\ ~checks["database"] => <<"database", FALSE>> \in seen
        /\ ~checks["broker"] => <<"broker", FALSE>> \in seen
    BY <1>0, <1>5 DEF ProbeRedis, ProbeInv, ProbeSees, TypeOK, Deps
  <2>5. ProbeInv'
    <3>1. /\ probe' = "idle" /\ seen' = seen
          /\ answer'.status = IF checks["database"] /\ checks["broker"]
                              THEN "ready" ELSE "not_ready"
      BY <1>5, <2>2 DEF ProbeRedis
    <3>2. QED
      BY <2>4, <3>1 DEF ProbeInv, ProbeSees, ReadinessHonest, Deps
  <2>6. QED
    BY <1>2, <2>3, <2>5 DEF LifeInv
<1>6. QED
  BY <1>3, <1>4, <1>5

(* A dependency changes: a probe that runs sees the change. *)
LEMMA FlipKeepsInv == ASSUME LifeInv, NEW d \in Deps, Flip(d) PROVE LifeInv'
<1>0. TypeOK /\ ProbeInv
  BY DEF LifeInv
<1>1. up' \in [Deps -> BOOLEAN] /\ up'[d] = ~up[d]
      /\ \A e \in Deps \ {d} : up'[e] = up[e]
  BY <1>0 DEF Flip, TypeOK
<1>a. changes' \in Nat
  BY <1>0 DEF TypeOK, Flip
<1>b. seen' \subseteq Deps \X BOOLEAN
  <2>1. <<d, ~up[d]>> \in Deps \X BOOLEAN
    OBVIOUS
  <2>2. QED
    BY <1>0, <2>1, Zenon DEF TypeOK, Flip
<1>2. TypeOK'
  <2>1. UNCHANGED <<kind, phase, step, signalled, open, raised, left, starts, task,
                    cancel, chan, overtaken, probe, checks, answer>>
    BY DEF Flip, processVars, taskVars
  <2>2. QED
    BY <1>0, <1>1, <1>a, <1>b, <2>1 DEF TypeOK
<1>3. ProcessInv' /\ ShutdownInv'
  BY ProcessFrame DEF LifeInv, Flip, taskVars
<1>4. ProbeInv'
  BY <1>0, <1>1 DEF Flip, ProbeInv, ProbeSees, ReadinessHonest
<1>5. QED
  BY <1>2, <1>3, <1>4 DEF LifeInv

(* Every step keeps the invariant. *)
LEMMA NextLifeInv == LifeInv /\ [Next]_vars => LifeInv'
<1> SUFFICES ASSUME LifeInv, [Next]_vars PROVE LifeInv'
  OBVIOUS
<1>1. CASE UNCHANGED vars
  <2>1. TypeOK'
    BY <1>1 DEF LifeInv, TypeOK, vars, processVars, taskVars, probeVars
  <2>2. ProcessInv' /\ ShutdownInv' /\ ProbeInv'
    BY <1>1, ProcessFrame, ProbeFrame DEF LifeInv, vars, taskVars, probeVars
  <2>3. QED
    BY <2>1, <2>2 DEF LifeInv
<1>2. QED
  BY <1>1, LaunchKeepsInv, StartStepKeepsInv, StopBeginsKeepsInv, CancelTaskKeepsInv,
     StopStepKeepsInv, StopEndsKeepsInv, StopRaisesKeepsInv, AbortKeepsInv,
     SignalKeepsInv, TaskKeepsInv, ProbeKeepsInv, FlipKeepsInv
     DEF Next, Main, Done

-----------------------------------------------------------------------------
(* Theorems.                                                               *)

(* Every variable keeps its type. *)
THEOREM TypeCorrect == Spec => []TypeOK
<1>1. LifeInv => TypeOK
  BY DEF LifeInv
<1>2. QED
  BY <1>1, InitLifeInv, NextLifeInv, PTL DEF Spec

(* As long as the API serves, its outbox task is in its loop.              *)
THEOREM PublisherStaysAlive == Spec => []PublisherAlive
<1>1. ASSUME LifeInv PROVE PublisherAlive
  BY <1>1 DEF LifeInv, ProcessInv, ServingIsComplete, PublisherAlive
<1>2. QED
  BY <1>1, InitLifeInv, NextLifeInv, PTL DEF Spec

(* No client is closed under the outbox task, wherever its cancellation    *)
(* finds it.                                                               *)
THEOREM ClientsOutliveTask == Spec => []NoUseAfterClose
<1>1. ASSUME LifeInv PROVE NoUseAfterClose
  BY <1>1 DEF LifeInv, TypeOK, ProcessInv, DownIsEmpty, StartInOrder,
     ServingIsComplete, StopInOrder, NoUseAfterClose, Closed, Clients, StartLength
<1>2. QED
  BY <1>1, InitLifeInv, NextLifeInv, PTL DEF Spec

(* A shutdown in which nothing raises closes every client; one that raises *)
(* leaves the client whose close() raised and those after it, and never    *)
(* one before it.                                                          *)
THEOREM ShutdownIsClean == Spec => []CleanShutdown
<1>1. LifeInv => CleanShutdown
  BY DEF LifeInv, ShutdownInv
<1>2. QED
  BY <1>1, InitLifeInv, NextLifeInv, PTL DEF Spec

(* However the dependencies change between its checks, the probe answers   *)
(* "ready" only if the database answered while it ran, and "not_ready"     *)
(* only if some dependency was down while it ran.                          *)
THEOREM ReadinessIsHonest == Spec => []ReadinessHonest
<1>1. LifeInv => ReadinessHonest
  BY DEF LifeInv, ProbeInv
<1>2. QED
  BY <1>1, InitLifeInv, NextLifeInv, PTL DEF Spec
=============================================================================
