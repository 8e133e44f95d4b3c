--------------------------- MODULE Ingest_proofs ---------------------------
(* Proofs about Ingest, for any number of requests, deliveries and failures. *)
EXTENDS Ingest, TLAPS

USE TableAssumption, IngestAssumption

-----------------------------------------------------------------------------
(* What schedule_event does to the table. *)
LEMMA ScheduleEventRows ==
    ASSUME TypeOK, NEW r \in Rows, NEW k \in Keys, NEW t \in Nat
    PROVE  LET new == ScheduleEvent(outbox, r, k, PrVersion, t)
           IN  /\ DOMAIN new = DOMAIN outbox \cup {r}
               /\ new \in [DOMAIN new -> Row]
               /\ new[r].pr_hash_key = k
               /\ \A q \in DOMAIN outbox \ {r} :
                     new[q].pr_hash_key = outbox[q].pr_hash_key
<1> DEFINE top == [i \in {r} |-> NewRow(k, PrVersion, t)]
           base == CancelPrevious(outbox, k, PrVersion)
           new == Overlay(top, base)
<1>1. /\ NewRow(k, PrVersion, t) \in Row
      /\ NewRow(k, PrVersion, t).pr_hash_key = k
  BY DEF NewRow, Row, Statuses, PrVersion
<1>2. /\ DOMAIN base = DOMAIN outbox
      /\ \A q \in DOMAIN outbox : /\ base[q] \in Row
                                  /\ base[q].pr_hash_key = outbox[q].pr_hash_key
  <2>1. \A q \in DOMAIN outbox : outbox[q] \in Row
    BY DEF TypeOK
  <2>2. \A row \in Row :
          LET new_row == [row EXCEPT !.status = "CANCELLED"]
          IN  new_row \in Row /\ new_row.pr_hash_key = row.pr_hash_key
    BY DEF Row, Statuses
  <2>3. QED
    BY <2>1, <2>2 DEF CancelPrevious
<1>3. DOMAIN top = {r} /\ top[r] = NewRow(k, PrVersion, t)
  OBVIOUS
<1> HIDE DEF top, base
<1>4. /\ DOMAIN new = DOMAIN outbox \cup {r}
      /\ \A q \in DOMAIN new : new[q] = IF q = r THEN top[r] ELSE base[q]
      /\ new = [q \in DOMAIN new |-> new[q]]
  BY <1>2, <1>3 DEF Overlay
<1>5. \A q \in DOMAIN new : new[q] \in Row
  BY <1>1, <1>2, <1>3, <1>4
<1> HIDE DEF new
<1>6. new \in [DOMAIN new -> Row]
  BY <1>4, <1>5
<1>7. new = ScheduleEvent(outbox, r, k, PrVersion, t)
  BY DEF ScheduleEvent, new, top, base
<1>8. /\ new[r].pr_hash_key = k
      /\ \A q \in DOMAIN outbox \ {r} : new[q].pr_hash_key = outbox[q].pr_hash_key
  BY <1>1, <1>2, <1>3, <1>4
<1>9. QED
  BY <1>4, <1>6, <1>7, <1>8

-----------------------------------------------------------------------------
(* Types.                                                                  *)

(* Requests that are past "new" carry a delivery, whose key is a key. *)
Arrived == \A r \in Requests : stage[r] # "new" => job[r] \in Deliveries

TypeInv == TypeOK /\ Arrived

(* The types hold initially. *)
LEMMA InitTypeInv == Init => TypeInv
BY DEF Init, TypeInv, TypeOK, Arrived, NoRows, Stages, Results, Requests

(* A request that has arrived has a key of Keys. *)
LEMMA KeyType ==
    ASSUME TypeInv, NEW r \in Requests, stage[r] # "new"
    PROVE  Key(r) \in Keys
BY DEF TypeInv, Arrived, Key

(* What a committed webhook transaction does to the two tables. *)
LEMMA StoreEffect ==
    ASSUME TypeInv, NEW r \in Requests, stage[r] = "commit", Store(r)
    PROVE  /\ inbound' = inbound \cup {r}
           /\ DOMAIN outbox' = DOMAIN outbox \cup {r}
           /\ outbox' \in [DOMAIN outbox' -> Row]
           /\ outbox'[r].pr_hash_key = Key(r)
           /\ \A q \in DOMAIN outbox \ {r} :
                 outbox'[q].pr_hash_key = outbox[q].pr_hash_key
<1>1. Key(r) \in Keys
  BY KeyType
<1>2. TypeOK /\ began[r] \in Nat
  BY DEF TypeInv, TypeOK
<1>3. outbox' = ScheduleEvent(outbox, r, Key(r), PrVersion, began[r])
  BY DEF Store
<1>4. r \in Rows
  BY DEF Requests
<1>5. QED
  BY <1>1, <1>2, <1>3, <1>4, ScheduleEventRows DEF Store

(* The sets of journey steps that requests emit. *)
Steps == SUBSET JourneySteps

(* The literal sets passed to Emit are sets of journey steps. *)
LEMMA StepSets ==
    /\ {<<"signature_verified", "failed">>} \in Steps
    /\ {<<"idempotency_checked", "info">>} \in Steps
    /\ {<<"idempotency_checked", "completed">>} \in Steps
    /\ {<<"outbox_scheduled", "completed">>} \in Steps
    /\ {<<"signature_verified", "completed">>,
        <<"webhook_received", "in_progress">>} \in Steps
    /\ {<<"signature_verified", "completed">>, <<"webhook_received", "in_progress">>}
          \cup {<<"event_type_validated", "info">>} \in Steps
BY DEF Steps, JourneySteps

(* Emitting keeps the journey well typed. *)
LEMMA EmitType ==
    ASSUME TypeOK, NEW r \in Requests, NEW s \in Steps, Emit(r, s)
    PROVE  journey' \in [Requests -> Steps]
BY DEF TypeOK, Emit, Steps

(* Every step keeps the types. *)
LEMMA NextTypeInv == TypeInv /\ [Next]_vars => TypeInv'
<1> SUFFICES ASSUME TypeInv, [Next]_vars PROVE TypeInv'
  OBVIOUS
<1> USE DEF requestVars, vars
<1>0. TypeOK /\ journey \in [Requests -> Steps]
  BY DEF TypeInv, TypeOK, Steps
<1>1. ASSUME NEW r \in Requests, NEW j \in Deliveries, Receive(r, j) PROVE TypeInv'
  BY <1>1 DEF Receive, Answer, Continue, TypeInv, Arrived, TypeOK, Stages, Results
<1>2. ASSUME NEW r \in Requests, ResolveTenant(r) PROVE TypeInv'
  BY <1>2 DEF ResolveTenant, Answer, Continue, TypeInv, Arrived, TypeOK, Stages, Results
<1>3. ASSUME NEW r \in Requests, Gate(r) PROVE TypeInv'
  <2>1. journey' \in [Requests -> Steps]
    BY <1>3, <1>0, EmitType, StepSets DEF Gate
  <2>2. QED
    BY <1>3, <2>1, KeyType DEF Gate, Answer, Continue, TypeInv, Arrived, TypeOK,
       Steps, Stages, Results
<1>4. ASSUME NEW r \in Requests, ReadCache(r) PROVE TypeInv'
  <2>1. journey' \in [Requests -> Steps]
    BY <1>4, <1>0, EmitType, StepSets DEF ReadCache, Detected
  <2>2. QED
    BY <1>4, <2>1, KeyType DEF ReadCache, Detected, Answer, Continue, TypeInv,
       Arrived, TypeOK, Steps, Stages, Results
<1>5. ASSUME NEW r \in Requests, Lookup(r) PROVE TypeInv'
  <2>1. journey' \in [Requests -> Steps]
    BY <1>5, <1>0, EmitType, StepSets DEF Lookup
  <2>2. QED
    BY <1>5, <2>1, KeyType DEF Lookup, Answer, Continue, TypeInv, Arrived, TypeOK,
       Steps, Stages, Results
<1>6. ASSUME NEW r \in Requests, WriteBack(r) PROVE TypeInv'
  <2>1. journey' \in [Requests -> Steps]
    BY <1>6, <1>0, EmitType, StepSets DEF WriteBack, Detected
  <2>2. QED
    BY <1>6, <2>1, KeyType DEF WriteBack, Detected, WriteCache, Answer, Continue,
       TypeInv, Arrived, TypeOK, Steps, Stages, Results
<1>7. ASSUME NEW r \in Requests, Refetch(r) PROVE TypeInv'
  BY <1>7 DEF Refetch, Answer, TypeInv, Arrived, TypeOK, Stages, Results
<1>8. ASSUME NEW r \in Requests, Begin(r) PROVE TypeInv'
  BY <1>8 DEF Begin, Continue, TypeInv, Arrived, TypeOK, Stages, Results
<1>9. ASSUME NEW r \in Requests, Insert(r) PROVE TypeInv'
  BY <1>9 DEF Insert, Answer, Continue, TypeInv, Arrived, TypeOK, Stages, Results
<1>10. ASSUME NEW r \in Requests, Commit(r) PROVE TypeInv'
  <2>1. stage[r] = "commit" /\ Store(r)
    BY <1>10 DEF Commit
  <2>2. DOMAIN outbox' \subseteq Rows /\ outbox' \in [DOMAIN outbox' -> Row]
    BY <1>0, <2>1, StoreEffect DEF TypeOK, Requests
  <2>3. inbound' \subseteq Requests
    BY <1>0, <2>1 DEF Store, TypeOK
  <2>4. QED
    BY <1>10, <2>2, <2>3 DEF Commit, Continue, TypeInv, Arrived, TypeOK, Stages, Results
<1>11. ASSUME NEW r \in Requests, MarkProcessed(r) PROVE TypeInv'
  <2>1. journey' \in [Requests -> Steps]
    BY <1>11, <1>0, EmitType, StepSets DEF MarkProcessed
  <2>2. QED
    BY <1>11, <2>1, KeyType DEF MarkProcessed, WriteCache, Answer, TypeInv, Arrived,
       TypeOK, Steps, Stages, Results
<1>12. ASSUME NEW r \in Requests, CommitUnknown(r) PROVE TypeInv'
  <2>1. stage[r] = "commit" /\ Store(r)
    BY <1>12 DEF CommitUnknown
  <2>2. DOMAIN outbox' \subseteq Rows /\ outbox' \in [DOMAIN outbox' -> Row]
    BY <1>0, <2>1, StoreEffect DEF TypeOK, Requests
  <2>3. inbound' \subseteq Requests
    BY <1>0, <2>1 DEF Store, TypeOK
  <2>4. QED
    BY <1>12, <2>2, <2>3 DEF CommitUnknown, Answer, TypeInv, Arrived, TypeOK, Stages, Results
<1>13. ASSUME NEW r \in Requests, DbError(r) PROVE TypeInv'
  BY <1>13 DEF DbError, Answer, TypeInv, Arrived, TypeOK, Stages, Results
<1>14. ASSUME NEW r \in Requests, Crash(r) PROVE TypeInv'
  BY <1>14 DEF Crash, TypeInv, Arrived, TypeOK, Stages, Results
<1>15. ASSUME NEW k \in idem, Expire(k) PROVE TypeInv'
  BY <1>15 DEF Expire, TypeInv, Arrived, TypeOK
<1>16. CASE Tick
  BY <1>16 DEF Tick, TypeInv, Arrived, TypeOK
<1>17. CASE UNCHANGED vars
  BY <1>17 DEF TypeInv, Arrived, TypeOK
<1>18. QED
  BY <1>1, <1>2, <1>3, <1>4, <1>5, <1>6, <1>7, <1>8, <1>9, <1>10, <1>11, <1>12,
     <1>13, <1>14, <1>15, <1>16, <1>17 DEF Next, IngestStep, Serve, Fault, Idle

(* Every variable of the webhook path keeps its type: in particular the    *)
(* rows schedule_event writes are rows of outbox_event, and the cache only *)
(* ever holds pr_hash_keys.                                                *)
THEOREM TypeCorrect == Spec => []TypeOK
<1>1. TypeInv => TypeOK
  BY DEF TypeInv
<1>2. QED
  BY <1>1, InitTypeInv, NextTypeInv, PTL DEF Spec

-----------------------------------------------------------------------------
(* Storage: the two tables, the cache and what requests say about them.    *)

StoreInv ==
    /\ TypeInv
    /\ StorageConsistent
    /\ EvidenceSound
    /\ CacheSound

(* The empty tables and the empty cache agree. *)
LEMMA InitStoreInv == Init => StoreInv
<1> SUFFICES ASSUME Init PROVE StoreInv
  OBVIOUS
<1>1. TypeInv
  BY InitTypeInv
<1>2. StorageConsistent
  BY DEF Init, StorageConsistent, NoRows, Requests
<1>3. EvidenceSound
  BY DEF Init, EvidenceSound, Acknowledged, Requests
<1>4. CacheSound
  BY DEF Init, CacheSound
<1>5. QED
  BY <1>1, <1>2, <1>3, <1>4 DEF StoreInv

(* A step of request r that leaves the two tables alone: what it may do    *)
(* to r's stage and result is limited by what is stored.                   *)
QuietStep(r) ==
    /\ inbound' = inbound
    /\ outbox' = outbox
    /\ \A q \in Requests \ {r} : /\ stage'[q] = stage[q]
                                 /\ job'[q] = job[q]
                                 /\ result'[q] = result[q]
    /\ stage[r] # "new" => job'[r] = job[r]
    /\ r \in inbound => stage'[r] \in {"mark", "done", "crashed"}
    /\ stage'[r] # "mark" \/ stage[r] = "mark"
    /\ stage'[r] = "commit" =>
          /\ job'[r] = job[r]
          /\ Key(r) \notin Stored
          /\ ~KeyInFlight(r)

(* What r's stage and result say after the step is true. *)
HonestStep(r) ==
    /\ stage'[r] \in {"writeback", "refetch"} => Key(r)' \in Stored'
    /\ Acknowledged(r)' => Key(r)' \in Stored'
    /\ result'[r] = "accepted" => r \in inbound'
    /\ result'[r] # "no_event"
    /\ result'[r] # "none" => stage'[r] = "done"
    /\ \A k \in idem' \ idem : k \in Stored'

(* Stored keys stay stored. *)
LEMMA StoredGrows ==
    ASSUME inbound \subseteq inbound', \A q \in inbound : job'[q] = job[q]
    PROVE  Stored \subseteq Stored'
BY DEF Stored, Key

(* A quiet step stores nothing and forgets nothing. *)
LEMMA QuietStored ==
    ASSUME StoreInv, NEW r \in Requests, QuietStep(r)
    PROVE  Stored' = Stored
<1>1. \A q \in inbound : job'[q] = job[q]
  BY DEF StoreInv, TypeInv, TypeOK, StorageConsistent, QuietStep
<1>2. QED
  BY <1>1 DEF Stored, Key, QuietStep

(* A quiet step keeps the tables and the open transactions apart. *)
LEMMA QuietKeepsStorage ==
    ASSUME StoreInv, NEW r \in Requests, QuietStep(r)
    PROVE  StorageConsistent'
<1>0. inbound \subseteq Requests
  BY DEF StoreInv, TypeInv, TypeOK
<1>1. \A q \in inbound : Key(q)' = Key(q)
  BY <1>0 DEF StoreInv, StorageConsistent, QuietStep, Key
<1>2. \A q \in Requests : stage'[q] = "commit" => Key(q)' = Key(q)
  BY DEF StoreInv, StorageConsistent, QuietStep, Key
<1>3. Stored' = Stored
  BY QuietStored
<1>4. \A q \in Requests \ {r} : stage'[q] = stage[q]
  BY DEF QuietStep
<1>5. inbound' = inbound /\ outbox' = outbox
  BY DEF QuietStep
<1> USE DEF StorageConsistent
<1>6. StorageConsistent!1'
  BY <1>5 DEF StoreInv
<1>7. StorageConsistent!2'
  BY <1>0, <1>1, <1>4, <1>5 DEF StoreInv, QuietStep
<1>8. StorageConsistent!3'
  BY <1>4, <1>5 DEF StoreInv, QuietStep
<1>9. StorageConsistent!4'
  BY <1>2, <1>3, <1>4 DEF StoreInv, QuietStep
<1>10. StorageConsistent!5'
  BY <1>2, <1>4 DEF StoreInv, QuietStep, KeyInFlight
<1>11. StorageConsistent!6'
  BY <1>1, <1>5 DEF StoreInv
<1>12. QED
  BY <1>6, <1>7, <1>8, <1>9, <1>10, <1>11

(* An honest step of r keeps everybody's claims true. *)
LEMMA HonestKeepsEvidence ==
    ASSUME StoreInv, NEW r \in Requests, HonestStep(r),
           Stored \subseteq Stored', inbound \subseteq inbound',
           \A q \in Requests \ {r} : /\ stage'[q] = stage[q]
                                     /\ job'[q] = job[q]
                                     /\ result'[q] = result[q]
    PROVE  EvidenceSound' /\ CacheSound'
<1>1. CacheSound'
  BY DEF StoreInv, CacheSound, HonestStep
<1>2. ASSUME NEW q \in Requests, q # r
      PROVE  /\ stage'[q] \in {"writeback", "refetch"} \/ Acknowledged(q)'
                   => Key(q)' \in Stored'
             /\ result'[q] = "accepted" => q \in inbound'
             /\ result'[q] # "no_event"
             /\ result'[q] # "none" => stage'[q] = "done"
  BY <1>2 DEF StoreInv, EvidenceSound, Acknowledged, Key
<1>3. /\ stage'[r] \in {"writeback", "refetch"} \/ Acknowledged(r)'
            => Key(r)' \in Stored'
      /\ result'[r] = "accepted" => r \in inbound'
      /\ result'[r] # "no_event"
      /\ result'[r] # "none" => stage'[r] = "done"
  BY DEF HonestStep
<1>4. QED
  BY <1>1, <1>2, <1>3 DEF EvidenceSound

(* The two together keep StoreInv. *)
LEMMA QuietKeepsStoreInv ==
    ASSUME StoreInv, TypeInv', NEW r \in Requests, QuietStep(r), HonestStep(r)
    PROVE  StoreInv'
<1>1. StorageConsistent'
  BY QuietKeepsStorage
<1>2. Stored' = Stored
  BY QuietStored
<1>3. EvidenceSound' /\ CacheSound'
  BY <1>2, HonestKeepsEvidence DEF QuietStep
<1>4. QED
  BY <1>1, <1>3 DEF StoreInv

(* A commit adds r, whose key was in no other hands. *)
LEMMA StoreKeepsStoreInv ==
    ASSUME StoreInv, TypeInv', NEW r \in Requests, stage[r] = "commit", Store(r),
           UNCHANGED <<job, idem>>, NEW s \in {"mark", "done"},
           stage' = [stage EXCEPT ![r] = s],
           NEW a \in {"none", "error"}, s = "mark" => a = "none",
           result' = [result EXCEPT ![r] = a]
    PROVE  StoreInv'
<1>0. TypeOK /\ TypeInv /\ inbound \subseteq Requests
  BY DEF StoreInv, TypeInv, TypeOK
<1>1. /\ inbound' = inbound \cup {r}
      /\ DOMAIN outbox' = DOMAIN outbox \cup {r}
      /\ outbox'[r].pr_hash_key = Key(r)
      /\ \A q \in DOMAIN outbox \ {r} :
            outbox'[q].pr_hash_key = outbox[q].pr_hash_key
  BY <1>0, StoreEffect
<1>2. /\ \A q \in Requests : Key(q)' = Key(q)
      /\ stage'[r] = s
      /\ \A q \in Requests \ {r} : stage'[q] = stage[q] /\ result'[q] = result[q]
  BY <1>0 DEF Key, TypeOK
<1>3. r \notin inbound /\ Key(r) \notin Stored
  BY DEF StoreInv, StorageConsistent
<1>4. Stored' = Stored \cup {Key(r)}
  BY <1>0, <1>1, <1>2 DEF Stored
<1>5. \A q \in inbound : Key(q) # Key(r)
  BY <1>3 DEF Stored
<1>6. StorageConsistent'
  <2> USE DEF StorageConsistent
  <2>1. StorageConsistent!1'
    BY <1>1 DEF StoreInv
  <2>2. StorageConsistent!2'
    BY <1>0, <1>1, <1>2, <1>3 DEF StoreInv
  <2>3. StorageConsistent!3'
    BY <1>1, <1>2 DEF StoreInv
  <2>4. StorageConsistent!4'
    BY <1>2, <1>4 DEF StoreInv
  <2>5. StorageConsistent!5'
    BY <1>2 DEF StoreInv
  <2>6. StorageConsistent!6'
    BY <1>0, <1>1, <1>2, <1>5 DEF StoreInv
  <2>7. QED
    BY <2>1, <2>2, <2>3, <2>4, <2>5, <2>6
<1>7. HonestStep(r)
  <2>1. Key(r)' \in Stored' /\ r \in inbound' /\ stage'[r] = s /\ result'[r] = a
    BY <1>0, <1>1, <1>2, <1>4 DEF TypeOK
  <2>2. QED
    BY <2>1 DEF HonestStep
<1>8. EvidenceSound' /\ CacheSound'
  BY <1>1, <1>2, <1>4, <1>7, HonestKeepsEvidence
<1>9. QED
  BY <1>6, <1>8 DEF StoreInv

(* Every step keeps StoreInv: one case per action. *)
LEMMA NextStoreInv == StoreInv /\ [Next]_vars => StoreInv'
<1> SUFFICES ASSUME StoreInv, [Next]_vars PROVE StoreInv'
  OBVIOUS
<1> USE DEF requestVars, vars
<1>a. TypeInv' /\ TypeOK /\ inbound \subseteq Requests
  BY NextTypeInv DEF StoreInv, TypeInv, TypeOK
<1>b. \A r \in Requests : r \in inbound => stage[r] \in {"mark", "done", "crashed"}
  BY DEF StoreInv, StorageConsistent
<1>c. \A r \in Requests : /\ Acknowledged(r) => Key(r) \in Stored
                          /\ result[r] = "accepted" => r \in inbound
                          /\ result[r] # "no_event"
                          /\ stage[r] \in {"writeback", "refetch"} => Key(r) \in Stored
                          /\ stage[r] = "mark" => r \in inbound
                          /\ result[r] # "none" => stage[r] = "done"
  BY DEF StoreInv, EvidenceSound, StorageConsistent
<1>d. (\A r \in inbound : Key(r) \in Stored) /\ idem \subseteq Stored
  BY DEF Stored, StoreInv, CacheSound
<1>1. ASSUME NEW r \in Requests, NEW j \in Deliveries, Receive(r, j) PROVE StoreInv'
  <2>1. QuietStep(r)
    BY <1>a, <1>b, <1>1 DEF Receive, Answer, Continue, QuietStep, TypeOK
  <2>2. Stored' = Stored
    BY <2>1, QuietStored
  <2>3. HonestStep(r)
    BY <1>a, <1>c, <1>d, <1>1, <2>1, <2>2 DEF Receive, Answer, Continue, HonestStep,
       QuietStep, Acknowledged, Key, TypeOK
  <2>4. QED
    BY <1>a, <2>1, <2>3, QuietKeepsStoreInv
<1>2. ASSUME NEW r \in Requests, ResolveTenant(r) PROVE StoreInv'
  <2>1. QuietStep(r)
    BY <1>a, <1>b, <1>2 DEF ResolveTenant, Answer, Continue, QuietStep, TypeOK
  <2>2. Stored' = Stored
    BY <2>1, QuietStored
  <2>3. HonestStep(r)
    BY <1>a, <1>c, <1>d, <1>2, <2>1, <2>2 DEF ResolveTenant, Answer, Continue,
       HonestStep, QuietStep, Acknowledged, Key, TypeOK
  <2>4. QED
    BY <1>a, <2>1, <2>3, QuietKeepsStoreInv
<1>3. ASSUME NEW r \in Requests, Gate(r) PROVE StoreInv'
  <2>1. QuietStep(r)
    BY <1>a, <1>b, <1>3 DEF Gate, Answer, Continue, QuietStep, TypeOK
  <2>2. Stored' = Stored
    BY <2>1, QuietStored
  <2>3. HonestStep(r)
    BY <1>a, <1>c, <1>d, <1>3, <2>1, <2>2 DEF Gate, Answer, Continue, HonestStep,
       QuietStep, Acknowledged, Key, TypeOK
  <2>4. QED
    BY <1>a, <2>1, <2>3, QuietKeepsStoreInv
<1>4. ASSUME NEW r \in Requests, ReadCache(r) PROVE StoreInv'
  <2>1. QuietStep(r)
    BY <1>a, <1>b, <1>4 DEF ReadCache, Detected, Answer, Continue, QuietStep, TypeOK
  <2>2. Stored' = Stored
    BY <2>1, QuietStored
  <2>3. HonestStep(r)
    BY <1>a, <1>c, <1>d, <1>4, <2>1, <2>2 DEF ReadCache, Detected, Answer, Continue,
       HonestStep, QuietStep, Acknowledged, Key, TypeOK
  <2>4. QED
    BY <1>a, <2>1, <2>3, QuietKeepsStoreInv
<1>5. ASSUME NEW r \in Requests, Lookup(r) PROVE StoreInv'
  <2>1. QuietStep(r)
    BY <1>a, <1>b, <1>5 DEF Lookup, Answer, Continue, QuietStep, TypeOK
  <2>2. Stored' = Stored
    BY <2>1, QuietStored
  <2>3. HonestStep(r)
    BY <1>a, <1>c, <1>d, <1>5, <2>1, <2>2 DEF Lookup, Answer, Continue, HonestStep,
       QuietStep, Acknowledged, Key, TypeOK
  <2>4. QED
    BY <1>a, <2>1, <2>3, QuietKeepsStoreInv
<1>6. ASSUME NEW r \in Requests, WriteBack(r) PROVE StoreInv'
  <2>1. QuietStep(r)
    BY <1>a, <1>b, <1>6 DEF WriteBack, Detected, WriteCache, Answer, Continue, QuietStep, TypeOK
  <2>2. Stored' = Stored
    BY <2>1, QuietStored
  <2>3. HonestStep(r)
    BY <1>a, <1>c, <1>d, <1>6, <2>1, <2>2 DEF WriteBack, Detected, WriteCache,
       Answer, Continue, HonestStep, QuietStep, Acknowledged, Key, TypeOK
  <2>4. QED
    BY <1>a, <2>1, <2>3, QuietKeepsStoreInv
<1>7. ASSUME NEW r \in Requests, Refetch(r) PROVE StoreInv'
  <2>1. QuietStep(r)
    BY <1>a, <1>b, <1>7 DEF Refetch, Answer, QuietStep, TypeOK
  <2>2. Stored' = Stored
    BY <2>1, QuietStored
  <2>3. HonestStep(r)
    BY <1>a, <1>c, <1>d, <1>7, <2>1, <2>2 DEF Refetch, Answer, HonestStep, QuietStep,
       Acknowledged, Key, TypeOK
  <2>4. QED
    BY <1>a, <2>1, <2>3, QuietKeepsStoreInv
<1>8. ASSUME NEW r \in Requests, Begin(r) PROVE StoreInv'
  <2>1. QuietStep(r)
    BY <1>a, <1>b, <1>8 DEF Begin, Continue, QuietStep, TypeOK
  <2>2. Stored' = Stored
    BY <2>1, QuietStored
  <2>3. HonestStep(r)
    BY <1>a, <1>c, <1>d, <1>8, <2>1, <2>2 DEF Begin, Continue, HonestStep, QuietStep,
       Acknowledged, Key, TypeOK
  <2>4. QED
    BY <1>a, <2>1, <2>3, QuietKeepsStoreInv
<1>9. ASSUME NEW r \in Requests, Insert(r) PROVE StoreInv'
  <2>1. QuietStep(r)
    BY <1>a, <1>b, <1>9 DEF Insert, Answer, Continue, QuietStep, TypeOK
  <2>2. Stored' = Stored
    BY <2>1, QuietStored
  <2>3. HonestStep(r)
    BY <1>a, <1>c, <1>d, <1>9, <2>1, <2>2 DEF Insert, Answer, Continue, HonestStep,
       QuietStep, Acknowledged, Key, TypeOK
  <2>4. QED
    BY <1>a, <2>1, <2>3, QuietKeepsStoreInv
<1>10. ASSUME NEW r \in Requests, Commit(r) PROVE StoreInv'
  <2>1. stage[r] = "commit" /\ Store(r) /\ UNCHANGED <<job, idem>>
    BY <1>10 DEF Commit
  <2>2. /\ stage' = [stage EXCEPT ![r] = "mark"]
        /\ result' = [result EXCEPT ![r] = "none"]
    BY <1>a, <1>c, <1>10 DEF Commit, Continue, TypeOK
  <2>3. QED
    BY <1>a, <2>1, <2>2, StoreKeepsStoreInv
<1>11. ASSUME NEW r \in Requests, MarkProcessed(r) PROVE StoreInv'
  <2>1. QuietStep(r)
    BY <1>a, <1>b, <1>11 DEF MarkProcessed, WriteCache, Answer, QuietStep, TypeOK
  <2>2. Stored' = Stored
    BY <2>1, QuietStored
  <2>3. HonestStep(r)
    BY <1>a, <1>c, <1>d, <1>11, <2>1, <2>2 DEF MarkProcessed, WriteCache, Answer,
       HonestStep, QuietStep, Acknowledged, Key, TypeOK
  <2>4. QED
    BY <1>a, <2>1, <2>3, QuietKeepsStoreInv
<1>12. ASSUME NEW r \in Requests, CommitUnknown(r) PROVE StoreInv'
  <2>1. stage[r] = "commit" /\ Store(r) /\ UNCHANGED <<job, idem>>
    BY <1>12 DEF CommitUnknown
  <2>2. /\ stage' = [stage EXCEPT ![r] = "done"]
        /\ result' = [result EXCEPT ![r] = "error"]
    BY <1>a, <1>c, <1>12 DEF CommitUnknown, Answer, TypeOK
  <2>3. QED
    BY <1>a, <2>1, <2>2, StoreKeepsStoreInv
<1>13. ASSUME NEW r \in Requests, DbError(r) PROVE StoreInv'
  <2>1. QuietStep(r)
    BY <1>a, <1>b, <1>13 DEF DbError, Answer, QuietStep, TypeOK
  <2>2. Stored' = Stored
    BY <2>1, QuietStored
  <2>3. HonestStep(r)
    BY <1>a, <1>c, <1>d, <1>13, <2>1, <2>2 DEF DbError, Answer, HonestStep,
       QuietStep, Acknowledged, Key, TypeOK
  <2>4. QED
    BY <1>a, <2>1, <2>3, QuietKeepsStoreInv
<1>14. ASSUME NEW r \in Requests, Crash(r) PROVE StoreInv'
  <2>1. QuietStep(r)
    BY <1>a, <1>b, <1>14 DEF Crash, QuietStep, TypeOK
  <2>2. Stored' = Stored
    BY <2>1, QuietStored
  <2>3. HonestStep(r)
    BY <1>a, <1>c, <1>d, <1>14, <2>1, <2>2 DEF Crash, HonestStep, QuietStep,
       Acknowledged, Key, TypeOK
  <2>4. QED
    BY <1>a, <2>1, <2>3, QuietKeepsStoreInv
<1>15. ASSUME NEW k \in idem, Expire(k) PROVE StoreInv'
  BY <1>a, <1>15 DEF Expire, StoreInv, StorageConsistent, EvidenceSound, CacheSound,
     Acknowledged, Stored, Key
<1>16. CASE Tick
  BY <1>a, <1>16 DEF Tick, StoreInv, StorageConsistent, EvidenceSound, CacheSound,
     Acknowledged, Stored, Key
<1>17. CASE UNCHANGED vars
  BY <1>a, <1>17 DEF StoreInv, StorageConsistent, EvidenceSound, CacheSound,
     Acknowledged, Stored, Key
<1>18. QED
  BY <1>1, <1>2, <1>3, <1>4, <1>5, <1>6, <1>7, <1>8, <1>9, <1>10, <1>11, <1>12,
     <1>13, <1>14, <1>15, <1>16, <1>17 DEF Next, IngestStep, Serve, Fault, Idle

(* The idempotency cache never runs ahead of the database: what            *)
(* set_idempotency_cache writes outside the transaction, and what expires  *)
(* or fails in between, never leaves a cached key without a committed      *)
(* event.                                                                  *)
THEOREM CacheIsSound == Spec => []CacheSound
<1>1. StoreInv => CacheSound
  BY DEF StoreInv
<1>2. QED
  BY <1>1, InitStoreInv, NextStoreInv, PTL DEF Spec

(* Concurrent deliveries of one event leave one inbound_event and one      *)
(* outbox row, for any number of requests and any pool size.               *)
THEOREM EventsAreUnique == Spec => []OneEventPerKey
<1>1. ASSUME StoreInv PROVE OneEventPerKey
  BY <1>1 DEF StoreInv, StorageConsistent, OneEventPerKey
<1>2. QED
  BY <1>1, InitStoreInv, NextStoreInv, PTL DEF Spec

(* What StoreInv says of the answers given so far. *)
LEMMA StoreInvDurable == ASSUME StoreInv PROVE AckIsDurable
<1>1. ASSUME NEW r \in Requests, Acknowledged(r)
      PROVE  \E q \in inbound : /\ Key(q) = Key(r)
                                /\ q \in DOMAIN outbox
                                /\ outbox[q].pr_hash_key = Key(r)
                                /\ result[r] = "accepted" => q = r
  <2>1. /\ inbound = DOMAIN outbox
        /\ \A q \in inbound : outbox[q].pr_hash_key = Key(q)
    BY DEF StoreInv, StorageConsistent
  <2>2. CASE result[r] = "accepted"
    BY <2>1, <2>2 DEF StoreInv, EvidenceSound
  <2>3. CASE result[r] # "accepted"
    <3>1. Key(r) \in Stored
      BY <1>1 DEF StoreInv, EvidenceSound
    <3>2. PICK q \in inbound : Key(q) = Key(r)
      BY <3>1 DEF Stored
    <3>3. QED
      BY <2>1, <2>3, <3>2
  <2>4. QED
    BY <2>2, <2>3
<1>2. \A r \in Requests : result[r] # "no_event"
  BY DEF StoreInv, EvidenceSound
<1>3. QED
  BY <1>1, <1>2 DEF AckIsDurable

(* Whatever process_webhook acknowledges to the provider is committed, in  *)
(* both tables, and stays committed.                                       *)
THEOREM AcknowledgedEventsAreDurable == Spec => []AckIsDurable
<1>1. StoreInv => AckIsDurable
  BY StoreInvDurable
<1>2. QED
  BY <1>1, InitStoreInv, NextStoreInv, PTL DEF Spec

-----------------------------------------------------------------------------
(* Admission.                                                              *)

AdmissionInv ==
    /\ StoreInv
    /\ AdmissionEnforced
    /\ OnlyAdmittedStored

(* Nothing has been admitted initially. *)
LEMMA InitAdmissionInv == Init => AdmissionInv
BY InitStoreInv DEF Init, AdmissionInv, AdmissionEnforced, Admitted, OnlyAdmittedStored, Requests

(* A step of r keeps admission if it does so for r. *)
LEMMA AdmittedStep ==
    ASSUME AdmissionEnforced, NEW r \in Requests,
           \A q \in Requests \ {r} : stage'[q] = stage[q] /\ job'[q] = job[q],
           Admitted(stage'[r], job'[r])
    PROVE  AdmissionEnforced'
BY DEF AdmissionEnforced

(* Every step keeps AdmissionInv: one case per action. *)
LEMMA NextAdmissionInv == AdmissionInv /\ [Next]_vars => AdmissionInv'
<1> SUFFICES ASSUME AdmissionInv, [Next]_vars PROVE AdmissionInv'
  OBVIOUS
<1>a. StoreInv' /\ AdmissionEnforced
  BY NextStoreInv DEF AdmissionInv
<1>b. TypeOK /\ inbound \subseteq Requests
  BY DEF AdmissionInv, StoreInv, TypeInv, TypeOK
<1>c. \A r \in Requests : Admitted(stage[r], job[r])
  BY DEF AdmissionInv, AdmissionEnforced
<1>d. ASSUME inbound' = inbound, \A q \in inbound : job'[q] = job[q]
      PROVE  OnlyAdmittedStored'
  BY <1>d DEF AdmissionInv, OnlyAdmittedStored
<1>e. \A r \in inbound : stage[r] # "new"
  BY DEF AdmissionInv, StoreInv, StorageConsistent
<1> USE DEF requestVars, vars
<1>1. ASSUME NEW r \in Requests, NEW j \in Deliveries, Receive(r, j) PROVE AdmissionInv'
  <2>1. \A q \in Requests \ {r} : stage'[q] = stage[q] /\ job'[q] = job[q]
    BY <1>b, <1>1 DEF Receive, Answer, Continue, TypeOK
  <2>2. Admitted(stage'[r], job'[r])
    BY <1>b, <1>c, <1>1 DEF Receive, Answer, Continue, Admitted, Admissible, TypeOK
  <2>3. OnlyAdmittedStored'
    BY <1>b, <1>d, <1>e, <1>1 DEF Receive, Answer, Continue, TypeOK
  <2>4. QED
    BY <1>a, <2>1, <2>2, <2>3, AdmittedStep DEF AdmissionInv
<1>2. ASSUME NEW r \in Requests, ResolveTenant(r) PROVE AdmissionInv'
  <2>1. \A q \in Requests \ {r} : stage'[q] = stage[q] /\ job'[q] = job[q]
    BY <1>b, <1>2 DEF ResolveTenant, Answer, Continue, TypeOK
  <2>2. Admitted(stage'[r], job'[r])
    BY <1>b, <1>c, <1>2 DEF ResolveTenant, Answer, Continue, Admitted, Admissible, TypeOK
  <2>3. OnlyAdmittedStored'
    BY <1>b, <1>d, <1>e, <1>2 DEF ResolveTenant, Answer, Continue, TypeOK
  <2>4. QED
    BY <1>a, <2>1, <2>2, <2>3, AdmittedStep DEF AdmissionInv
<1>3. ASSUME NEW r \in Requests, Gate(r) PROVE AdmissionInv'
  <2>1. \A q \in Requests \ {r} : stage'[q] = stage[q] /\ job'[q] = job[q]
    BY <1>b, <1>3 DEF Gate, Answer, Continue, TypeOK
  <2>2. Admitted(stage'[r], job'[r])
    BY <1>b, <1>c, <1>3 DEF Gate, Answer, Continue, Admitted, Admissible, TypeOK
  <2>3. OnlyAdmittedStored'
    BY <1>b, <1>d, <1>e, <1>3 DEF Gate, Answer, Continue, TypeOK
  <2>4. QED
    BY <1>a, <2>1, <2>2, <2>3, AdmittedStep DEF AdmissionInv
<1>4. ASSUME NEW r \in Requests, ReadCache(r) PROVE AdmissionInv'
  <2>1. \A q \in Requests \ {r} : stage'[q] = stage[q] /\ job'[q] = job[q]
    BY <1>b, <1>4 DEF ReadCache, Detected, Answer, Continue, TypeOK
  <2>2. Admitted(stage'[r], job'[r])
    BY <1>b, <1>c, <1>4 DEF ReadCache, Detected, Answer, Continue, Admitted, Admissible, TypeOK
  <2>3. OnlyAdmittedStored'
    BY <1>b, <1>d, <1>e, <1>4 DEF ReadCache, Detected, Answer, Continue, TypeOK
  <2>4. QED
    BY <1>a, <2>1, <2>2, <2>3, AdmittedStep DEF AdmissionInv
<1>5. ASSUME NEW r \in Requests, Lookup(r) PROVE AdmissionInv'
  <2>1. \A q \in Requests \ {r} : stage'[q] = stage[q] /\ job'[q] = job[q]
    BY <1>b, <1>5 DEF Lookup, Answer, Continue, TypeOK
  <2>2. Admitted(stage'[r], job'[r])
    BY <1>b, <1>c, <1>5 DEF Lookup, Answer, Continue, IsWebhook, Admitted, Admissible, TypeOK
  <2>3. OnlyAdmittedStored'
    BY <1>b, <1>d, <1>e, <1>5 DEF Lookup, Answer, Continue, TypeOK
  <2>4. QED
    BY <1>a, <2>1, <2>2, <2>3, AdmittedStep DEF AdmissionInv
<1>6. ASSUME NEW r \in Requests, WriteBack(r) PROVE AdmissionInv'
  <2>1. \A q \in Requests \ {r} : stage'[q] = stage[q] /\ job'[q] = job[q]
    BY <1>b, <1>6 DEF WriteBack, Detected, WriteCache, Answer, Continue, TypeOK
  <2>2. Admitted(stage'[r], job'[r])
    BY <1>b, <1>c, <1>6 DEF WriteBack, Detected, WriteCache, Answer, Continue,
       IsWebhook, Admitted, Admissible, TypeOK
  <2>3. OnlyAdmittedStored'
    BY <1>b, <1>d, <1>e, <1>6 DEF WriteBack, Detected, WriteCache, Answer, Continue, TypeOK
  <2>4. QED
    BY <1>a, <2>1, <2>2, <2>3, AdmittedStep DEF AdmissionInv
<1>7. ASSUME NEW r \in Requests, Refetch(r) PROVE AdmissionInv'
  <2>1. \A q \in Requests \ {r} : stage'[q] = stage[q] /\ job'[q] = job[q]
    BY <1>b, <1>7 DEF Refetch, Answer, TypeOK
  <2>2. Admitted(stage'[r], job'[r])
    BY <1>b, <1>c, <1>7 DEF Refetch, Answer, Admitted, Admissible, TypeOK
  <2>3. OnlyAdmittedStored'
    BY <1>b, <1>d, <1>e, <1>7 DEF Refetch, Answer, TypeOK
  <2>4. QED
    BY <1>a, <2>1, <2>2, <2>3, AdmittedStep DEF AdmissionInv
<1>8. ASSUME NEW r \in Requests, Begin(r) PROVE AdmissionInv'
  <2>1. \A q \in Requests \ {r} : stage'[q] = stage[q] /\ job'[q] = job[q]
    BY <1>b, <1>8 DEF Begin, Continue, TypeOK
  <2>2. Admitted(stage'[r], job'[r])
    BY <1>b, <1>c, <1>8 DEF Begin, Continue, Admitted, Admissible, TypeOK
  <2>3. OnlyAdmittedStored'
    BY <1>b, <1>d, <1>e, <1>8 DEF Begin, Continue, TypeOK
  <2>4. QED
    BY <1>a, <2>1, <2>2, <2>3, AdmittedStep DEF AdmissionInv
<1>9. ASSUME NEW r \in Requests, Insert(r) PROVE AdmissionInv'
  <2>1. \A q \in Requests \ {r} : stage'[q] = stage[q] /\ job'[q] = job[q]
    BY <1>b, <1>9 DEF Insert, Answer, Continue, TypeOK
  <2>2. Admitted(stage'[r], job'[r])
    BY <1>b, <1>c, <1>9 DEF Insert, Answer, Continue, Admitted, Admissible, TypeOK
  <2>3. OnlyAdmittedStored'
    BY <1>b, <1>d, <1>e, <1>9 DEF Insert, Answer, Continue, TypeOK
  <2>4. QED
    BY <1>a, <2>1, <2>2, <2>3, AdmittedStep DEF AdmissionInv
<1>10. ASSUME NEW r \in Requests, Commit(r) PROVE AdmissionInv'
  <2>1. \A q \in Requests \ {r} : stage'[q] = stage[q] /\ job'[q] = job[q]
    BY <1>b, <1>10 DEF Commit, Continue, TypeOK
  <2>2. Admitted(stage'[r], job'[r])
    BY <1>b, <1>c, <1>10 DEF Commit, Continue, Admitted, Admissible, TypeOK
  <2>3. OnlyAdmittedStored'
    BY <1>b, <1>c, <1>10 DEF Commit, Store, Admitted, AdmissionInv, OnlyAdmittedStored
  <2>4. QED
    BY <1>a, <2>1, <2>2, <2>3, AdmittedStep DEF AdmissionInv
<1>11. ASSUME NEW r \in Requests, MarkProcessed(r) PROVE AdmissionInv'
  <2>1. \A q \in Requests \ {r} : stage'[q] = stage[q] /\ job'[q] = job[q]
    BY <1>b, <1>11 DEF MarkProcessed, WriteCache, Answer, TypeOK
  <2>2. Admitted(stage'[r], job'[r])
    BY <1>b, <1>c, <1>11 DEF MarkProcessed, WriteCache, Answer, Admitted, Admissible, TypeOK
  <2>3. OnlyAdmittedStored'
    BY <1>b, <1>d, <1>e, <1>11 DEF MarkProcessed, WriteCache, Answer, TypeOK
  <2>4. QED
    BY <1>a, <2>1, <2>2, <2>3, AdmittedStep DEF AdmissionInv
<1>12. ASSUME NEW r \in Requests, CommitUnknown(r) PROVE AdmissionInv'
  <2>1. \A q \in Requests \ {r} : stage'[q] = stage[q] /\ job'[q] = job[q]
    BY <1>b, <1>12 DEF CommitUnknown, Answer, TypeOK
  <2>2. Admitted(stage'[r], job'[r])
    BY <1>b, <1>c, <1>12 DEF CommitUnknown, Answer, Admitted, Admissible, TypeOK
  <2>3. OnlyAdmittedStored'
    BY <1>b, <1>c, <1>12 DEF CommitUnknown, Store, Admitted, AdmissionInv, OnlyAdmittedStored
  <2>4. QED
    BY <1>a, <2>1, <2>2, <2>3, AdmittedStep DEF AdmissionInv
<1>13. ASSUME NEW r \in Requests, DbError(r) PROVE AdmissionInv'
  <2>1. \A q \in Requests \ {r} : stage'[q] = stage[q] /\ job'[q] = job[q]
    BY <1>b, <1>13 DEF DbError, Answer, TypeOK
  <2>2. Admitted(stage'[r], job'[r])
    BY <1>b, <1>c, <1>13 DEF DbError, Answer, Admitted, Admissible, TypeOK
  <2>3. OnlyAdmittedStored'
    BY <1>b, <1>d, <1>e, <1>13 DEF DbError, Answer, TypeOK
  <2>4. QED
    BY <1>a, <2>1, <2>2, <2>3, AdmittedStep DEF AdmissionInv
<1>14. ASSUME NEW r \in Requests, Crash(r) PROVE AdmissionInv'
  <2>1. \A q \in Requests \ {r} : stage'[q] = stage[q] /\ job'[q] = job[q]
    BY <1>b, <1>14 DEF Crash, TypeOK
  <2>2. Admitted(stage'[r], job'[r])
    BY <1>b, <1>c, <1>14 DEF Crash, Admitted, Admissible, TypeOK
  <2>3. OnlyAdmittedStored'
    BY <1>b, <1>d, <1>e, <1>14 DEF Crash, TypeOK
  <2>4. QED
    BY <1>a, <2>1, <2>2, <2>3, AdmittedStep DEF AdmissionInv
<1>15. CASE UNCHANGED <<stage, job, inbound>>
  BY <1>a, <1>d, <1>15 DEF AdmissionInv, AdmissionEnforced
<1>16. QED
  BY <1>1, <1>2, <1>3, <1>4, <1>5, <1>6, <1>7, <1>8, <1>9, <1>10, <1>11, <1>12,
     <1>13, <1>14, <1>15 DEF Next, IngestStep, Serve, Fault, Expire, Tick, Idle

(* No interleaving of awaits lets process_webhook store a delivery that    *)
(* failed the tenant, signature, parsing or whitelist step.                *)
THEOREM OnlyAdmittedIsStored == Spec => []OnlyAdmittedStored
<1>1. AdmissionInv => OnlyAdmittedStored
  BY DEF AdmissionInv
<1>2. QED
  BY <1>1, InitAdmissionInv, NextAdmissionInv, PTL DEF Spec

-----------------------------------------------------------------------------
(* The journey.                                                            *)

JourneyInv ==
    /\ AdmissionInv
    /\ JourneyMatchesStage

received  == <<"webhook_received", "in_progress">>
checked   == <<"idempotency_checked", "completed">>
duplicate == <<"idempotency_checked", "info">>
scheduled == <<"outbox_scheduled", "completed">>

(* JourneyMatchesStage for one request, as far as its own state goes:      *)
(* stage s, journey y, whether it is a webhook, whether its key is stored  *)
(* and whether it stored it.                                               *)
Matches(s, y, webhook, known, mine) ==
    /\ scheduled \in y => s \in {"done", "crashed"} /\ mine
    /\ duplicate \in y => s \in {"done", "crashed"} /\ known
    /\ s \in {"redis", "lookup", "acquire", "insert", "commit"} /\ webhook
          => received \in y
    /\ s \in {"acquire", "insert", "commit"} \/ mine => {received, checked} \subseteq y

(* Inbound rows stay, with the delivery they came from. *)
LEMMA StoredStable ==
    ASSUME StoreInv, [Next]_vars
    PROVE  inbound \subseteq inbound' /\ \A q \in inbound : job'[q] = job[q]
<1>1. job \in [Requests -> Deliveries \cup {NoJob}] /\ inbound \subseteq Requests
  BY DEF StoreInv, TypeInv, TypeOK
<1>2. \A q \in inbound : stage[q] # "new"
  BY DEF StoreInv, StorageConsistent
<1>3. inbound \subseteq inbound'
  BY DEF Next, IngestStep, Receive, Serve, Fault, ResolveTenant, Gate, ReadCache, Lookup,
         WriteBack, Refetch, Begin, Insert, Commit, MarkProcessed, CommitUnknown, DbError,
         Crash, Expire, Tick, Idle, Store, vars, requestVars
<1>4. CASE \E r \in Requests, j \in Deliveries : Receive(r, j)
  BY <1>1, <1>2, <1>3, <1>4 DEF Receive
<1>5. CASE job' = job
  BY <1>3, <1>5
<1>6. QED
  BY <1>4, <1>5 DEF Next, IngestStep, Serve, Fault, ResolveTenant, Gate, ReadCache, Lookup,
         WriteBack, Refetch, Begin, Insert, Commit, MarkProcessed, CommitUnknown, DbError,
         Crash, Expire, Tick, Idle, vars, requestVars

(* Matches is JourneyMatchesStage for one request. *)
LEMMA MatchesUnfolds ==
    JourneyMatchesStage <=>
        \A r \in Requests :
            Matches(stage[r], journey[r], IsWebhook(r), Key(r) \in Stored, r \in inbound)
BY DEF JourneyMatchesStage, Matches, received, checked, duplicate, scheduled

(* All journeys are empty initially. *)
LEMMA InitJourneyInv == Init => JourneyInv
BY InitAdmissionInv DEF Init, JourneyInv, JourneyMatchesStage, Requests

(* Only request r moves, and what is stored stays stored. *)
LEMMA MatchesStep ==
    ASSUME JourneyMatchesStage, NEW r \in Requests,
           \A q \in Requests \ {r} : /\ stage'[q] = stage[q]
                                     /\ job'[q] = job[q]
                                     /\ journey'[q] = journey[q]
                                     /\ q \in inbound' <=> q \in inbound,
           Stored \subseteq Stored',
           Matches(stage'[r], journey'[r], IsWebhook(r)', Key(r)' \in Stored', r \in inbound')
    PROVE  JourneyMatchesStage'
<1>1. ASSUME NEW q \in Requests, q # r
      PROVE  Matches(stage'[q], journey'[q], IsWebhook(q)', Key(q)' \in Stored', q \in inbound')
  <2>1. Matches(stage[q], journey[q], IsWebhook(q), Key(q) \in Stored, q \in inbound)
    BY MatchesUnfolds
  <2>2. QED
    BY <1>1, <2>1 DEF Matches, IsWebhook, Key
<1>2. \A q \in Requests :
        Matches(stage'[q], journey'[q], IsWebhook(q)', Key(q)' \in Stored', q \in inbound')
  BY <1>1
<1>3. QED
  BY <1>2 DEF JourneyMatchesStage, Matches, received, checked, duplicate, scheduled

(* Every step keeps JourneyInv: one case per action. *)
LEMMA NextJourneyInv == JourneyInv /\ [Next]_vars => JourneyInv'
<1> SUFFICES ASSUME JourneyInv, [Next]_vars PROVE JourneyInv'
  OBVIOUS
<1> USE DEF requestVars, vars
<1>a. AdmissionInv' /\ JourneyMatchesStage /\ AdmissionInv
  BY NextAdmissionInv DEF JourneyInv
<1>b. TypeOK /\ inbound \subseteq Requests
  BY <1>a DEF AdmissionInv, StoreInv, TypeInv, TypeOK
<1>c. /\ \A r \in inbound : stage[r] \in {"mark", "done", "crashed"} /\ Key(r) \in Stored
      /\ idem \subseteq Stored
      /\ \A r \in Requests : /\ stage[r] = "mark" => r \in inbound
                             /\ stage[r] = "writeback" => Key(r) \in Stored
  BY <1>a DEF AdmissionInv, StoreInv, StorageConsistent, EvidenceSound, CacheSound, Stored
<1>d. \A r \in Requests : stage[r] \in {"tenant", "gate", "acquire", "insert", "commit", "mark"}
                             => IsWebhook(r)
  BY <1>a DEF AdmissionInv, AdmissionEnforced, Admitted, IsWebhook
<1>e. \A r \in Requests :
        Matches(stage[r], journey[r], IsWebhook(r), Key(r) \in Stored, r \in inbound)
  BY <1>a, MatchesUnfolds
<1>f. Stored \subseteq Stored'
  <2>1. inbound \subseteq inbound' /\ \A q \in inbound : job'[q] = job[q]
    BY <1>a, StoredStable DEF AdmissionInv
  <2>2. QED
    BY <2>1, StoredGrows
<1>1. ASSUME NEW r \in Requests, NEW j \in Deliveries, Receive(r, j) PROVE JourneyInv'
  <2>1. \A q \in Requests \ {r} : /\ stage'[q] = stage[q]
                                  /\ job'[q] = job[q]
                                  /\ journey'[q] = journey[q]
                                  /\ q \in inbound' <=> q \in inbound
    BY <1>b, <1>1 DEF Receive, Answer, Continue, TypeOK
  <2>2. Matches(stage'[r], journey'[r], IsWebhook(r)', Key(r)' \in Stored', r \in inbound')
    BY <1>b, <1>c, <1>d, <1>e, <1>f, <1>1 DEF Receive, Answer, Continue, IsWebhook,
       Key, Matches, received, checked, duplicate, scheduled, TypeOK
  <2>3. QED
    BY <1>a, <1>f, <2>1, <2>2, MatchesStep DEF JourneyInv
<1>2. ASSUME NEW r \in Requests, ResolveTenant(r) PROVE JourneyInv'
  <2>1. \A q \in Requests \ {r} : /\ stage'[q] = stage[q]
                                  /\ job'[q] = job[q]
                                  /\ journey'[q] = journey[q]
                                  /\ q \in inbound' <=> q \in inbound
    BY <1>b, <1>2 DEF ResolveTenant, Answer, Continue, TypeOK
  <2>2. Matches(stage'[r], journey'[r], IsWebhook(r)', Key(r)' \in Stored', r \in inbound')
    BY <1>b, <1>c, <1>d, <1>e, <1>f, <1>2 DEF ResolveTenant, Answer, Continue,
       IsWebhook, Key, Matches, received, checked, duplicate, scheduled, TypeOK
  <2>3. QED
    BY <1>a, <1>f, <2>1, <2>2, MatchesStep DEF JourneyInv
<1>3. ASSUME NEW r \in Requests, Gate(r) PROVE JourneyInv'
  <2>1. \A q \in Requests \ {r} : /\ stage'[q] = stage[q]
                                  /\ job'[q] = job[q]
                                  /\ journey'[q] = journey[q]
                                  /\ q \in inbound' <=> q \in inbound
    BY <1>b, <1>3 DEF Gate, Emit, Answer, Continue, TypeOK
  <2>2. Matches(stage'[r], journey'[r], IsWebhook(r)', Key(r)' \in Stored', r \in inbound')
    BY <1>b, <1>c, <1>d, <1>e, <1>f, <1>3 DEF Gate, Emit, Answer, Continue,
       IsWebhook, Key, Matches, received, checked, duplicate, scheduled, TypeOK
  <2>3. QED
    BY <1>a, <1>f, <2>1, <2>2, MatchesStep DEF JourneyInv
<1>4. ASSUME NEW r \in Requests, ReadCache(r) PROVE JourneyInv'
  <2>1. \A q \in Requests \ {r} : /\ stage'[q] = stage[q]
                                  /\ job'[q] = job[q]
                                  /\ journey'[q] = journey[q]
                                  /\ q \in inbound' <=> q \in inbound
    BY <1>b, <1>4 DEF ReadCache, Detected, Emit, Answer, Continue, TypeOK
  <2>2. Matches(stage'[r], journey'[r], IsWebhook(r)', Key(r)' \in Stored', r \in inbound')
    BY <1>b, <1>c, <1>d, <1>e, <1>f, <1>4 DEF ReadCache, Detected, Emit, Answer,
       Continue, IsWebhook, Key, Matches, received, checked, duplicate, scheduled,
       TypeOK
  <2>3. QED
    BY <1>a, <1>f, <2>1, <2>2, MatchesStep DEF JourneyInv
<1>5. ASSUME NEW r \in Requests, Lookup(r) PROVE JourneyInv'
  <2>1. \A q \in Requests \ {r} : /\ stage'[q] = stage[q]
                                  /\ job'[q] = job[q]
                                  /\ journey'[q] = journey[q]
                                  /\ q \in inbound' <=> q \in inbound
    BY <1>b, <1>5 DEF Lookup, Emit, Answer, Continue, TypeOK
  <2>2. Matches(stage'[r], journey'[r], IsWebhook(r)', Key(r)' \in Stored', r \in inbound')
    BY <1>b, <1>c, <1>d, <1>e, <1>f, <1>5 DEF Lookup, Emit, Answer, Continue,
       IsWebhook, Key, Matches, received, checked, duplicate, scheduled, TypeOK
  <2>3. QED
    BY <1>a, <1>f, <2>1, <2>2, MatchesStep DEF JourneyInv
<1>6. ASSUME NEW r \in Requests, WriteBack(r) PROVE JourneyInv'
  <2>1. \A q \in Requests \ {r} : /\ stage'[q] = stage[q]
                                  /\ job'[q] = job[q]
                                  /\ journey'[q] = journey[q]
                                  /\ q \in inbound' <=> q \in inbound
    BY <1>b, <1>6 DEF WriteBack, Detected, WriteCache, Emit, Answer, Continue, TypeOK
  <2>2. Matches(stage'[r], journey'[r], IsWebhook(r)', Key(r)' \in Stored', r \in inbound')
    BY <1>b, <1>c, <1>d, <1>e, <1>f, <1>6 DEF WriteBack, Detected, WriteCache, Emit,
       Answer, Continue, IsWebhook, Key, Matches, received, checked, duplicate,
       scheduled, TypeOK
  <2>3. QED
    BY <1>a, <1>f, <2>1, <2>2, MatchesStep DEF JourneyInv
<1>7. ASSUME NEW r \in Requests, Refetch(r) PROVE JourneyInv'
  <2>1. \A q \in Requests \ {r} : /\ stage'[q] = stage[q]
                                  /\ job'[q] = job[q]
                                  /\ journey'[q] = journey[q]
                                  /\ q \in inbound' <=> q \in inbound
    BY <1>b, <1>7 DEF Refetch, Answer, TypeOK
  <2>2. Matches(stage'[r], journey'[r], IsWebhook(r)', Key(r)' \in Stored', r \in inbound')
    BY <1>b, <1>c, <1>d, <1>e, <1>f, <1>7 DEF Refetch, Answer, IsWebhook, Key,
       Matches, received, checked, duplicate, scheduled, TypeOK
  <2>3. QED
    BY <1>a, <1>f, <2>1, <2>2, MatchesStep DEF JourneyInv
<1>8. ASSUME NEW r \in Requests, Begin(r) PROVE JourneyInv'
  <2>1. \A q \in Requests \ {r} : /\ stage'[q] = stage[q]
                                  /\ job'[q] = job[q]
                                  /\ journey'[q] = journey[q]
                                  /\ q \in inbound' <=> q \in inbound
    BY <1>b, <1>8 DEF Begin, Continue, TypeOK
  <2>2. Matches(stage'[r], journey'[r], IsWebhook(r)', Key(r)' \in Stored', r \in inbound')
    BY <1>b, <1>c, <1>d, <1>e, <1>f, <1>8 DEF Begin, Continue, IsWebhook, Key,
       Matches, received, checked, duplicate, scheduled, TypeOK
  <2>3. QED
    BY <1>a, <1>f, <2>1, <2>2, MatchesStep DEF JourneyInv
<1>9. ASSUME NEW r \in Requests, Insert(r) PROVE JourneyInv'
  <2>1. \A q \in Requests \ {r} : /\ stage'[q] = stage[q]
                                  /\ job'[q] = job[q]
                                  /\ journey'[q] = journey[q]
                                  /\ q \in inbound' <=> q \in inbound
    BY <1>b, <1>9 DEF Insert, Answer, Continue, TypeOK
  <2>2. Matches(stage'[r], journey'[r], IsWebhook(r)', Key(r)' \in Stored', r \in inbound')
    BY <1>b, <1>c, <1>d, <1>e, <1>f, <1>9 DEF Insert, Answer, Continue, IsWebhook,
       Key, Matches, received, checked, duplicate, scheduled, TypeOK
  <2>3. QED
    BY <1>a, <1>f, <2>1, <2>2, MatchesStep DEF JourneyInv
<1>10. ASSUME NEW r \in Requests, Commit(r) PROVE JourneyInv'
  <2>1. \A q \in Requests \ {r} : /\ stage'[q] = stage[q]
                                  /\ job'[q] = job[q]
                                  /\ journey'[q] = journey[q]
                                  /\ q \in inbound' <=> q \in inbound
    BY <1>b, <1>10 DEF Commit, Continue, Store, TypeOK
  <2>2. Matches(stage'[r], journey'[r], IsWebhook(r)', Key(r)' \in Stored', r \in inbound')
    BY <1>b, <1>c, <1>d, <1>e, <1>f, <1>10 DEF Commit, Continue, Store, IsWebhook,
       Key, Matches, received, checked, duplicate, scheduled, TypeOK
  <2>3. QED
    BY <1>a, <1>f, <2>1, <2>2, MatchesStep DEF JourneyInv
<1>11. ASSUME NEW r \in Requests, MarkProcessed(r) PROVE JourneyInv'
  <2>1. \A q \in Requests \ {r} : /\ stage'[q] = stage[q]
                                  /\ job'[q] = job[q]
                                  /\ journey'[q] = journey[q]
                                  /\ q \in inbound' <=> q \in inbound
    BY <1>b, <1>11 DEF MarkProcessed, WriteCache, Emit, Answer, TypeOK
  <2>2. Matches(stage'[r], journey'[r], IsWebhook(r)', Key(r)' \in Stored', r \in inbound')
    BY <1>b, <1>c, <1>d, <1>e, <1>f, <1>11 DEF MarkProcessed, WriteCache, Emit,
       Answer, IsWebhook, Key, Matches, received, checked, duplicate, scheduled,
       TypeOK
  <2>3. QED
    BY <1>a, <1>f, <2>1, <2>2, MatchesStep DEF JourneyInv
<1>12. ASSUME NEW r \in Requests, CommitUnknown(r) PROVE JourneyInv'
  <2>1. \A q \in Requests \ {r} : /\ stage'[q] = stage[q]
                                  /\ job'[q] = job[q]
                                  /\ journey'[q] = journey[q]
                                  /\ q \in inbound' <=> q \in inbound
    BY <1>b, <1>12 DEF CommitUnknown, Answer, Store, TypeOK
  <2>2. Matches(stage'[r], journey'[r], IsWebhook(r)', Key(r)' \in Stored', r \in inbound')
    BY <1>b, <1>c, <1>d, <1>e, <1>f, <1>12 DEF CommitUnknown, Answer, Store,
       IsWebhook, Key, Matches, received, checked, duplicate, scheduled, TypeOK
  <2>3. QED
    BY <1>a, <1>f, <2>1, <2>2, MatchesStep DEF JourneyInv
<1>13. ASSUME NEW r \in Requests, DbError(r) PROVE JourneyInv'
  <2>1. \A q \in Requests \ {r} : /\ stage'[q] = stage[q]
                                  /\ job'[q] = job[q]
                                  /\ journey'[q] = journey[q]
                                  /\ q \in inbound' <=> q \in inbound
    BY <1>b, <1>13 DEF DbError, Answer, TypeOK
  <2>2. Matches(stage'[r], journey'[r], IsWebhook(r)', Key(r)' \in Stored', r \in inbound')
    BY <1>b, <1>c, <1>d, <1>e, <1>f, <1>13 DEF DbError, Answer, IsWebhook, Key,
       Matches, received, checked, duplicate, scheduled, TypeOK
  <2>3. QED
    BY <1>a, <1>f, <2>1, <2>2, MatchesStep DEF JourneyInv
<1>14. ASSUME NEW r \in Requests, Crash(r) PROVE JourneyInv'
  <2>1. \A q \in Requests \ {r} : /\ stage'[q] = stage[q]
                                  /\ job'[q] = job[q]
                                  /\ journey'[q] = journey[q]
                                  /\ q \in inbound' <=> q \in inbound
    BY <1>b, <1>14 DEF Crash, TypeOK
  <2>2. Matches(stage'[r], journey'[r], IsWebhook(r)', Key(r)' \in Stored', r \in inbound')
    BY <1>b, <1>c, <1>d, <1>e, <1>f, <1>14 DEF Crash, IsWebhook, Key, Matches,
       received, checked, duplicate, scheduled, TypeOK
  <2>3. QED
    BY <1>a, <1>f, <2>1, <2>2, MatchesStep DEF JourneyInv
<1>15. CASE UNCHANGED <<requestVars, inbound>>
  BY <1>a, <1>15 DEF JourneyInv, JourneyMatchesStage, Stored, Key, IsWebhook
<1>16. QED
  BY <1>1, <1>2, <1>3, <1>4, <1>5, <1>6, <1>7, <1>8, <1>9, <1>10, <1>11, <1>12,
     <1>13, <1>14, <1>15 DEF Next, IngestStep, Serve, Fault, Expire, Tick, Idle

(* What JourneyInv says of the journeys so far. *)
LEMMA JourneyInvTruthful == ASSUME JourneyInv PROVE JourneyTruthful
<1>1. inbound \subseteq Requests /\ inbound = DOMAIN outbox
  BY DEF JourneyInv, AdmissionInv, StoreInv, TypeInv, TypeOK, StorageConsistent
<1>2. QED
  BY <1>1 DEF JourneyInv, JourneyMatchesStage, JourneyTruthful

(* The journey a user follows never reports an event as scheduled or as a  *)
(* duplicate before the database holds it, and leaves out no step of a     *)
(* stored event.                                                           *)
THEOREM JourneyIsTruthful == Spec => []JourneyTruthful
<1>1. JourneyInv => JourneyTruthful
  BY JourneyInvTruthful
<1>2. QED
  BY <1>1, InitJourneyInv, NextJourneyInv, PTL DEF Spec

-----------------------------------------------------------------------------
(* What the rest of the pod does to the requests.                          *)

(* Another component writes columns of the table, or time passes. *)
TableUpdate ==
    /\ now' \in Nat
    /\ DOMAIN outbox' = DOMAIN outbox
    /\ outbox' \in [DOMAIN outbox' -> Row]
    /\ \A r \in DOMAIN outbox : outbox'[r].pr_hash_key = outbox[r].pr_hash_key
    /\ UNCHANGED <<requestVars, inbound, idem>>

(* The process dies and takes requests with it, some after their last step *)
(* and before their answer is sent.                                        *)
ProcessDies ==
    /\ stage' \in [Requests -> Stages] /\ result' \in [Requests -> Results]
    /\ \A r \in Requests :
          \/ stage'[r] = stage[r] /\ result'[r] = result[r]
          \/ stage[r] # "new" /\ stage'[r] = "crashed" /\ result'[r] = "none"
    /\ UNCHANGED <<outbox, now, job, began, inbound, idem, journey>>

(* The requests rely only on the rows of the table and on their keys. *)
LEMMA TableUpdateKeepsInv == ASSUME JourneyInv, TableUpdate PROVE JourneyInv'
<1> USE DEF TableUpdate, requestVars
<1>1. TypeInv'
  BY DEF JourneyInv, AdmissionInv, StoreInv, TypeInv, TypeOK, Arrived
<1>2. StorageConsistent'
  BY DEF JourneyInv, AdmissionInv, StoreInv, StorageConsistent, Stored, Key
<1>3. EvidenceSound' /\ CacheSound'
  BY DEF JourneyInv, AdmissionInv, StoreInv, EvidenceSound, CacheSound, Acknowledged,
         Stored, Key
<1>4. AdmissionEnforced' /\ OnlyAdmittedStored'
  BY DEF JourneyInv, AdmissionInv, AdmissionEnforced, OnlyAdmittedStored
<1>5. JourneyMatchesStage'
  BY DEF JourneyInv, JourneyMatchesStage, Stored, Key, IsWebhook
<1>6. QED
  BY <1>1, <1>2, <1>3, <1>4, <1>5 DEF JourneyInv, AdmissionInv, StoreInv

(* A request that died asks for nothing and claims nothing. *)
LEMMA ProcessDiesKeepsInv == ASSUME JourneyInv, ProcessDies PROVE JourneyInv'
<1> USE DEF ProcessDies
<1>1. TypeInv'
  BY DEF JourneyInv, AdmissionInv, StoreInv, TypeInv, TypeOK, Arrived
<1>0. inbound \subseteq Requests
  BY DEF JourneyInv, AdmissionInv, StoreInv, TypeInv, TypeOK
<1>2. StorageConsistent'
  BY <1>0 DEF JourneyInv, AdmissionInv, StoreInv, StorageConsistent, Stored, Key
<1>3. EvidenceSound' /\ CacheSound'
  BY DEF JourneyInv, AdmissionInv, StoreInv, EvidenceSound, CacheSound, Acknowledged,
         Stored, Key
<1>4. AdmissionEnforced' /\ OnlyAdmittedStored'
  BY DEF JourneyInv, AdmissionInv, AdmissionEnforced, OnlyAdmittedStored, Admitted
<1>5. JourneyMatchesStage'
  BY DEF JourneyInv, JourneyMatchesStage, Stored, Key, IsWebhook
<1>6. QED
  BY <1>1, <1>2, <1>3, <1>4, <1>5 DEF JourneyInv, AdmissionInv, StoreInv
=============================================================================
