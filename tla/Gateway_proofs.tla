--------------------------- MODULE Gateway_proofs ---------------------------
(***************************************************************************)
(* The pod as a whole, for any number of requests, rows and failures: the  *)
(* publisher in it is the one of Outbox, the requests keep what Ingest     *)
(* promises although the publisher writes their table, and an event is     *)
(* delivered as WebhookDelivery says.                                      *)
(*                                                                         *)
(* The inductive invariants of the components are taken over from their    *)
(* proofs.  What is proved here is that no step of one component breaks    *)
(* the invariant of the other.                                             *)
(***************************************************************************)
EXTENDS Gateway, TLAPS

WebP == INSTANCE Ingest_proofs

PubP == INSTANCE OutboxDelivery_proofs

-----------------------------------------------------------------------------
(* The components.                                                         *)

(* The proofs of Outbox speak of the publisher of Gateway. *)
LEMMA SamePublisherSteps ==
    [Pub!Next]_(Pub!vars) <=> [PubP!Next]_(PubP!vars)
BY Zenon
   DEF Pub!Next, PubP!Next, Pub!Schedule, PubP!Schedule, Pub!Tick, PubP!Tick,
       Pub!Dispatch, PubP!Dispatch, Pub!Work, PubP!Work, Pub!Fault, PubP!Fault,
       Pub!PollNothing, PubP!PollNothing, Pub!Fetch, PubP!Fetch, Pub!GetExchange,
       PubP!GetExchange, Pub!Publish, PubP!Publish, Pub!PublishRefused,
       PubP!PublishRefused, Pub!PublishOnClosed, PubP!PublishOnClosed,
       Pub!ConfirmLost, PubP!ConfirmLost, Pub!MarkDispatched, PubP!MarkDispatched,
       Pub!HandleFailure, PubP!HandleFailure, Pub!CommitBatch, PubP!CommitBatch,
       Pub!CommitUnknown, PubP!CommitUnknown, Pub!BatchFails, PubP!BatchFails,
       Pub!ChannelCloses, PubP!ChannelCloses, Pub!ChannelReopens, PubP!ChannelReopens,
       Pub!Stop, PubP!Stop, Pub!Restart, PubP!Restart,
       Pub!ScheduleEvent, PubP!ScheduleEvent, Pub!Overlay,
       PubP!Overlay, Pub!NewRow, PubP!NewRow, Pub!CancelPrevious,
       PubP!CancelPrevious, Pub!PrVersion, PubP!PrVersion, Pub!Held, PubP!Held,
       Pub!Locked, PubP!Locked, Pub!Due, PubP!Due, Pub!SelectDue, PubP!SelectDue,
       Pub!NextRows, PubP!NextRows, Pub!TakeRow, PubP!TakeRow, Pub!AfterFailure,
       PubP!AfterFailure, Pub!Backoff, PubP!Backoff, Pub!EndBatch, PubP!EndBatch,
       Pub!BatchDone, PubP!BatchDone, Pub!NoRows, PubP!NoRows, Pub!Cardinality,
       PubP!Cardinality, Pub!vars, PubP!vars, Pub!dispatchVars, PubP!dispatchVars

LEMMA SamePublisherStates ==
    /\ Pub!Init <=> PubP!Init
    /\ Pub!TypeOK <=> PubP!TypeOK
    /\ Pub!DispatchedWasPublished <=> PubP!DispatchedWasPublished
    /\ Pub!DuplicatesOnlyFromLosses <=> PubP!DuplicatesOnlyFromLosses
    /\ Pub!RetryBudget <=> PubP!RetryBudget
BY Zenon
   DEF Pub!Init, PubP!Init, Pub!TypeOK, PubP!TypeOK, Pub!DispatchedWasPublished,
       PubP!DispatchedWasPublished, Pub!DuplicatesOnlyFromLosses,
       PubP!DuplicatesOnlyFromLosses, Pub!RetryBudget, PubP!RetryBudget,
       Pub!NoRows, PubP!NoRows, Pub!Stages, PubP!Stages, Pub!ChannelStates,
       PubP!ChannelStates, Pub!Row, PubP!Row, Pub!Statuses, PubP!Statuses

(* The proofs of Ingest speak of the requests of Gateway. *)
LEMMA SameRequestSteps ==
    ASSUME NEW r \in Rows
    PROVE  (Web!Serve(r) \/ Web!DbError(r) \/ Web!CommitUnknown(r))
              <=> (WebP!Serve(r) \/ WebP!DbError(r) \/ WebP!CommitUnknown(r))
BY Zenon
   DEF Web!Serve, WebP!Serve, Web!ResolveTenant, WebP!ResolveTenant, Web!Gate, WebP!Gate,
       Web!ReadCache, WebP!ReadCache, Web!Lookup, WebP!Lookup, Web!WriteBack,
       WebP!WriteBack, Web!Refetch, WebP!Refetch, Web!Begin, WebP!Begin,
       Web!Insert, WebP!Insert, Web!Commit, WebP!Commit, Web!MarkProcessed,
       WebP!MarkProcessed, Web!CommitUnknown, WebP!CommitUnknown, Web!DbError,
       WebP!DbError, Web!Continue, WebP!Continue, Web!Answer, WebP!Answer,
       Web!Emit, WebP!Emit, Web!Detected, WebP!Detected, Web!IsWebhook,
       WebP!IsWebhook, Web!IsEventAllowed, WebP!IsEventAllowed, Web!WriteCache,
       WebP!WriteCache, Web!Store, WebP!Store, Web!KeyInFlight, WebP!KeyInFlight,
       Web!ScheduleEvent, WebP!ScheduleEvent, Web!Overlay, WebP!Overlay,
       Web!NewRow, WebP!NewRow, Web!CancelPrevious, WebP!CancelPrevious,
       Web!PrVersion, WebP!PrVersion, Web!PrHashKey, WebP!PrHashKey, Web!Key,
       WebP!Key, Web!Stored, WebP!Stored, Web!Requests, WebP!Requests,
       Web!Connected, WebP!Connected, Web!ConnectionFree, WebP!ConnectionFree,
       Web!Cardinality, WebP!Cardinality

LEMMA SameArrivals ==
    ASSUME NEW r \in Rows, NEW j \in Deliveries
    PROVE  Web!Receive(r, j) <=> WebP!Receive(r, j)
BY Zenon
   DEF Web!Receive, WebP!Receive, Web!Continue, WebP!Continue, Web!Answer, WebP!Answer

LEMMA SameRequestStates ==
    /\ Web!Init <=> WebP!Init
    /\ Web!TypeOK <=> WebP!TypeOK
    /\ Web!AckIsDurable <=> WebP!AckIsDurable
    /\ Web!CacheSound <=> WebP!CacheSound
    /\ Web!OneEventPerKey <=> WebP!OneEventPerKey
    /\ Web!JourneyTruthful <=> WebP!JourneyTruthful
BY Zenon
   DEF Web!Init, WebP!Init, Web!TypeOK, WebP!TypeOK, Web!AckIsDurable, WebP!AckIsDurable,
       Web!CacheSound, WebP!CacheSound, Web!OneEventPerKey, WebP!OneEventPerKey,
       Web!JourneyTruthful, WebP!JourneyTruthful, Web!Acknowledged,
       WebP!Acknowledged, Web!NoRows, WebP!NoRows, Web!NoJob, WebP!NoJob,
       Web!Requests, WebP!Requests, Web!Stages, WebP!Stages, Web!Results,
       WebP!Results, Web!JourneySteps, WebP!JourneySteps, Web!Row, WebP!Row,
       Web!Statuses, WebP!Statuses, Web!Key, WebP!Key, Web!PrHashKey,
       WebP!PrHashKey, Web!Stored, WebP!Stored

-----------------------------------------------------------------------------
(* The inductive invariant.                                                *)

(* What the proofs of the components need. *)
WebInv == WebP!JourneyInv

PubInv == PubP!RefinementInv /\ PubP!KeyInv

(* A transaction of a request began at most TxLag ago. *)
TransactionsRecent ==
    \A r \in Web!Connected : began[r] <= now /\ now - began[r] <= TxLag

(* The broker has copies of committed rows only. *)
SentIsCommitted == \A r \in Rows : published[r] > 0 => r \in DOMAIN outbox

BrokerTypes ==
    /\ emitting \subseteq Rows
    /\ broker \in {"up", "hung"}
    /\ hangs \in Nat

GatewayInv ==
    /\ WebInv /\ PubInv
    /\ TransactionsRecent /\ SentIsCommitted /\ BrokerTypes

(* The proofs of Ingest, under the assumptions of Gateway. *)
LEMMA InitWebInv == Web!Init => WebInv
BY GatewayAssumption, WebP!InitJourneyInv, SameRequestStates
   DEF WebInv, Web!Delivery, WebP!Delivery, Web!PrHashKey, WebP!PrHashKey

LEMMA WebNextKeepsInv == WebInv /\ [WebP!Next]_(WebP!vars) => WebInv'
BY GatewayAssumption, WebP!NextJourneyInv
   DEF WebInv, Web!Delivery, WebP!Delivery, Web!PrHashKey, WebP!PrHashKey

LEMMA TableUpdateKeepsWebInv == ASSUME WebInv, WebP!TableUpdate PROVE WebInv'
BY GatewayAssumption, WebP!TableUpdateKeepsInv
   DEF WebInv, Web!Delivery, WebP!Delivery, Web!PrHashKey, WebP!PrHashKey

LEMMA ProcessDiesKeepsWebInv == ASSUME WebInv, WebP!ProcessDies PROVE WebInv'
BY GatewayAssumption, WebP!ProcessDiesKeepsInv
   DEF WebInv, Web!Delivery, WebP!Delivery, Web!PrHashKey, WebP!PrHashKey

(* The proofs of Outbox, under the assumptions of Gateway. *)
LEMMA InitPubInv == Pub!Init => PubInv
<1>1. PubP!Init => PubP!RefinementInv
  BY GatewayAssumption, PubP!InitRefinementInv DEF Pub!Backoff, PubP!Backoff
<1>2. PubP!Init => PubP!KeyInv
  BY GatewayAssumption, PubP!InitKeyInv DEF Pub!Backoff, PubP!Backoff
<1>3. QED
  BY <1>1, <1>2, SamePublisherStates DEF PubInv

LEMMA PubNextKeepsInv ==
    ASSUME PubInv, [Pub!Next]_(Pub!vars)
    PROVE  PubInv' /\ PubP!RowsKeepKeys /\ PubP!AllowedStep
<1>1. [PubP!Next]_(PubP!vars)
  BY SamePublisherSteps
<1>2. PubP!RefinementInv'
  BY <1>1, GatewayAssumption, PubP!NextRefinementInv DEF PubInv, Pub!Backoff, PubP!Backoff
<1>3. PubP!KeyInv' /\ PubP!RowsKeepKeys
  BY <1>1, GatewayAssumption, PubP!NextKeyInv DEF PubInv, Pub!Backoff, PubP!Backoff
<1>4. PubP!AllowedStep
  BY <1>1, <1>2, GatewayAssumption, PubP!StepIsAllowed DEF PubInv, Pub!Backoff, PubP!Backoff
<1>5. QED
  BY <1>2, <1>3, <1>4 DEF PubInv

(* What WebInv says of the state of Gateway. *)
LEMMA WebFacts ==
    ASSUME WebInv
    PROVE  /\ Web!TypeOK
           /\ inbound = DOMAIN outbox
           /\ \A r \in inbound : /\ outbox[r].pr_hash_key = Web!Key(r)
                                 /\ job[r].kind = "webhook" /\ Web!Admissible(job[r])
           /\ \A q, r \in inbound : Web!Key(q) = Web!Key(r) => q = r
           /\ \A r \in Rows : stage[r] = "commit" =>
                 r \notin inbound /\ Web!Key(r) \in Keys
           /\ \A r \in Rows : result[r] # "none" => stage[r] = "done"
<1> USE DEF WebInv, WebP!JourneyInv, WebP!AdmissionInv, WebP!StoreInv
<1>1. Web!TypeOK
  BY SameRequestStates DEF WebP!TypeInv
<1>2. /\ inbound = DOMAIN outbox
      /\ \A r \in inbound : /\ outbox[r].pr_hash_key = Web!Key(r)
                            /\ stage[r] # "commit"
      /\ \A q, r \in inbound : Web!Key(q) = Web!Key(r) => q = r
  BY DEF WebP!StorageConsistent, WebP!Key, WebP!PrHashKey, Web!Key, Web!PrHashKey
<1>3. \A r \in inbound : job[r].kind = "webhook" /\ Web!Admissible(job[r])
  BY DEF WebP!OnlyAdmittedStored, WebP!Admissible, WebP!IsEventAllowed,
         Web!Admissible, Web!IsEventAllowed
<1>4. \A r \in Rows : stage[r] = "commit" => Web!Key(r) \in Keys
  BY GatewayAssumption DEF WebP!TypeInv, WebP!Arrived, WebP!Requests, Web!Key
<1>5. \A r \in Rows : result[r] # "none" => stage[r] = "done"
  BY DEF WebP!EvidenceSound, WebP!Requests
<1>6. QED
  BY <1>1, <1>2, <1>3, <1>4, <1>5

(* What PubInv says of it. *)
LEMMA PubFacts ==
    ASSUME PubInv
    PROVE  /\ Pub!TypeOK
           /\ \A d \in Dispatchers : Pub!Held(d) \subseteq DOMAIN outbox
<1>1. Pub!TypeOK
  BY SamePublisherStates DEF PubInv, PubP!KeyInv, PubP!LockInv
<1>2. \A d \in Dispatchers : Pub!Held(d) \subseteq DOMAIN outbox
  BY DEF PubInv, PubP!KeyInv, PubP!LockInv, PubP!LockDiscipline, PubP!Due, PubP!Held,
         Pub!Held
<1>3. QED
  BY <1>1, <1>2

-----------------------------------------------------------------------------
(* What the steps of Gateway are for the components.                       *)

(* A step of a request commits its event or leaves the table alone.        *)
LEMMA RequestEffects ==
    ASSUME Web!TypeOK, NEW r \in Rows,
           Web!Serve(r) \/ Web!DbError(r) \/ Web!CommitUnknown(r)
    PROVE  /\ UNCHANGED now
           /\ \/ UNCHANGED outbox
              \/ stage[r] = "commit" /\ Web!Store(r)
           /\ \A q \in Rows \ {r} : stage'[q] = stage[q] /\ began'[q] = began[q]
           /\ stage'[r] \in {"insert", "commit"} =>
                 \/ began'[r] = now
                 \/ stage[r] = "insert" /\ began'[r] = began[r]
<1> USE DEF Web!TypeOK, Web!Requests, Web!Continue, Web!Answer
<1>1. CASE Web!ResolveTenant(r)
  BY <1>1 DEF Web!ResolveTenant
<1>2. CASE Web!Gate(r)
  BY <1>2 DEF Web!Gate
<1>3. CASE Web!ReadCache(r)
  BY <1>3 DEF Web!ReadCache, Web!Detected
<1>4. CASE Web!Lookup(r)
  BY <1>4 DEF Web!Lookup
<1>5. CASE Web!WriteBack(r)
  BY <1>5 DEF Web!WriteBack, Web!Detected
<1>6. CASE Web!Refetch(r)
  BY <1>6 DEF Web!Refetch
<1>7. CASE Web!Begin(r)
  BY <1>7 DEF Web!Begin
<1>8. CASE Web!Insert(r)
  BY <1>8 DEF Web!Insert
<1>9. CASE Web!Commit(r)
  BY <1>9 DEF Web!Commit
<1>10. CASE Web!MarkProcessed(r)
  BY <1>10 DEF Web!MarkProcessed
<1>11. CASE Web!CommitUnknown(r)
  BY <1>11 DEF Web!CommitUnknown
<1>12. CASE Web!DbError(r)
  BY <1>12 DEF Web!DbError
<1>13. QED
  BY <1>1, <1>2, <1>3, <1>4, <1>5, <1>6, <1>7, <1>8, <1>9, <1>10, <1>11, <1>12
     DEF Web!Serve

(* The transaction of a request commits a row as Outbox expects it: a new  *)
(* row, with a key, of a transaction that began at most TxLag ago.         *)
LEMMA StoreIsSchedule ==
    ASSUME WebInv, TransactionsRecent, NEW r \in Rows,
           stage[r] = "commit", Web!Store(r), UNCHANGED <<now, pubVars>>
    PROVE  \E q \in Rows, k \in Keys : Pub!Schedule(q, k)
<1>1. /\ Web!TypeOK
      /\ r \notin DOMAIN outbox
      /\ Web!Key(r) \in Keys
  BY WebFacts
<1>2. began[r] \in 0 .. now /\ now - began[r] <= TxLag
  BY <1>1 DEF TransactionsRecent, Web!Connected, Web!Requests, Web!TypeOK
<1>3. outbox' = Pub!ScheduleEvent(outbox, r, Web!Key(r), Pub!PrVersion, began[r])
  BY Zenon
     DEF Web!Store, Web!ScheduleEvent, Pub!ScheduleEvent, Web!Overlay, Pub!Overlay,
         Web!NewRow, Pub!NewRow, Web!CancelPrevious, Pub!CancelPrevious,
         Web!PrVersion, Pub!PrVersion
<1>4. Pub!Schedule(r, Web!Key(r))
  BY <1>1, <1>2, <1>3 DEF Pub!Schedule, Pub!dispatchVars, pubVars
<1>5. QED
  BY <1>1, <1>4

(* A step of a request is a step of Outbox. *)
LEMMA RequestIsPublisherStep ==
    ASSUME WebInv, TransactionsRecent, NEW r \in Rows,
           Web!Serve(r) \/ Web!DbError(r) \/ Web!CommitUnknown(r),
           UNCHANGED pubVars
    PROVE  [Pub!Next]_(Pub!vars)
<1>1. /\ UNCHANGED now
      /\ UNCHANGED outbox \/ (stage[r] = "commit" /\ Web!Store(r))
  <2>1. Web!TypeOK
    BY WebFacts
  <2>2. QED
    BY <2>1, RequestEffects
<1>2. CASE UNCHANGED outbox
  BY <1>1, <1>2 DEF Pub!vars, Pub!dispatchVars, pubVars
<1>3. CASE stage[r] = "commit" /\ Web!Store(r)
  BY <1>1, <1>3, StoreIsSchedule DEF Pub!Next, pubVars
<1>4. QED
  BY <1>1, <1>2, <1>3

(* Every step of the pod is a step of Outbox. *)
LEMMA StepIsPublisherStep ==
    ASSUME WebInv, TransactionsRecent, [Next]_vars
    PROVE  [Pub!Next]_(Pub!vars)
<1> USE DEF pubVars, Pub!vars, Pub!dispatchVars
<1>1. ASSUME NEW r \in Rows, NEW j \in Deliveries, Arrive(r, j)
      PROVE  UNCHANGED Pub!vars
  BY <1>1 DEF Arrive, Web!Receive
<1>2. ASSUME NEW r \in Rows, Serve(r) \/ RequestFails(r)
      PROVE  [Pub!Next]_(Pub!vars)
  BY <1>2, RequestIsPublisherStep DEF Serve, RequestFails
<1>3. ASSUME NEW r \in Rows, EmitReturns(r) PROVE UNCHANGED Pub!vars
  BY <1>3 DEF EmitReturns
<1>4. ASSUME NEW k \in idem, Expire(k) PROVE UNCHANGED Pub!vars
  BY <1>4 DEF Expire, Web!Expire
<1>5. ASSUME NEW d \in Dispatchers, Work(d) \/ PublisherFails(d) \/ PodRestarts(d)
      PROVE  Pub!Next
  BY <1>5, Zenon DEF Work, PublisherFails, PodRestarts, Pub!Next, Pub!Dispatch, Pub!Work,
                     Pub!Fault
<1>6. CASE PodCrashes
  BY <1>6 DEF PodCrashes, Pub!Next, Pub!Dispatch, Pub!Fault
<1>7. CASE BrokerHangs \/ BrokerRecovers
  BY <1>7 DEF BrokerHangs, BrokerRecovers
<1>8. CASE Tick
  BY <1>8 DEF Tick, Pub!Next
<1>9. CASE UNCHANGED vars
  BY <1>9 DEF vars
<1>10. QED
  BY <1>1, <1>2, <1>3, <1>4, <1>5, <1>6, <1>7, <1>8, <1>9 DEF Next

-----------------------------------------------------------------------------
(* The requests keep their invariant.                                      *)

(* Every step of the publisher leaves the rows of the table and their keys *)
(* as the requests stored them.                                            *)
LEMMA DispatchKeepsTable ==
    ASSUME PubInv, [Pub!Next]_(Pub!vars),
           UNCHANGED outbox \/ \E d \in Dispatchers : outbox' = Pub!Overlay(view[d], outbox),
           UNCHANGED webVars
    PROVE  WebP!TableUpdate
<1>1. PubInv' /\ PubP!RowsKeepKeys
  BY PubNextKeepsInv
<1>2. \A d \in Dispatchers : Pub!Held(d) \subseteq DOMAIN outbox
  BY PubFacts
<1>3. DOMAIN outbox' = DOMAIN outbox
  BY <1>2 DEF Pub!Overlay, Pub!Held
<1>4. now' \in Nat /\ outbox' \in [DOMAIN outbox' -> WebP!Row]
  BY <1>1 DEF PubInv, PubP!KeyInv, PubP!LockInv, PubP!TypeOK, PubP!Row, PubP!Statuses,
              WebP!Row, WebP!Statuses
<1>5. \A r \in DOMAIN outbox : outbox'[r].pr_hash_key = outbox[r].pr_hash_key
  BY <1>1 DEF PubP!RowsKeepKeys
<1>6. QED
  BY <1>3, <1>4, <1>5 DEF WebP!TableUpdate, WebP!requestVars, webVars

(* A crash of the pod is the death of the process for its requests. *)
LEMMA CrashIsProcessDies == ASSUME WebInv, PodCrashes PROVE WebP!ProcessDies
<1>1. Web!TypeOK /\ \A r \in Rows : result[r] # "none" => stage[r] = "done"
  BY WebFacts
<1>2. UNCHANGED <<outbox, now, job, began, inbound, idem, journey>>
  BY DEF PodCrashes, Pub!Stop
<1>3. /\ stage' \in [Rows -> WebP!Stages]
      /\ result' \in [Rows -> WebP!Results]
  BY <1>1 DEF PodCrashes, Web!TypeOK, Web!Requests, Web!Stages, Web!Results,
              WebP!Stages, WebP!Results
<1>4. ASSUME NEW r \in Rows
      PROVE  \/ stage'[r] = stage[r] /\ result'[r] = result[r]
             \/ stage[r] # "new" /\ stage'[r] = "crashed" /\ result'[r] = "none"
  BY <1>1 DEF PodCrashes, Answered
<1>5. QED
  BY <1>2, <1>3, <1>4 DEF WebP!ProcessDies, WebP!Requests

(* The steps of the requests are steps of Ingest. *)
LEMMA RequestIsWebStep ==
    ASSUME \/ \E r \in Rows, j \in Deliveries : Arrive(r, j)
           \/ \E r \in Rows : Serve(r) \/ RequestFails(r)
           \/ \E k \in idem : Expire(k)
    PROVE  WebP!Next
<1>1. ASSUME NEW r \in Rows, NEW j \in Deliveries, Arrive(r, j) PROVE WebP!Receive(r, j)
  BY <1>1, SameArrivals DEF Arrive
<1>2. ASSUME NEW r \in Rows, Serve(r) \/ RequestFails(r)
      PROVE  WebP!Serve(r) \/ WebP!Fault(r)
  BY <1>2, SameRequestSteps DEF Serve, RequestFails, WebP!Fault
<1>3. ASSUME NEW k \in idem, Expire(k) PROVE WebP!Expire(k)
  BY <1>3 DEF Expire, Web!Expire, Web!requestVars, WebP!Expire, WebP!requestVars
<1>4. QED
  BY <1>1, <1>2, <1>3 DEF WebP!Next, WebP!IngestStep, WebP!Requests

(* The steps of the publisher, the broker and the clock, for the table. *)
LEMMA OtherStepsUpdate ==
    ASSUME \/ \E d \in Dispatchers : Work(d) \/ PublisherFails(d) \/ PodRestarts(d)
           \/ \E r \in Rows : EmitReturns(r)
           \/ BrokerHangs \/ BrokerRecovers \/ Tick \/ UNCHANGED vars
    PROVE  /\ UNCHANGED webVars
           /\ UNCHANGED now \/ Tick
           /\ \/ UNCHANGED outbox
              \/ \E d \in Dispatchers : outbox' = Pub!Overlay(view[d], outbox)
<1>1. ASSUME NEW d \in Dispatchers, Work(d)
      PROVE  /\ UNCHANGED <<webVars, now>>
             /\ UNCHANGED outbox \/ outbox' = Pub!Overlay(view[d], outbox)
  BY <1>1 DEF Work, Pub!PollNothing, Pub!Fetch, Pub!GetExchange, Pub!Publish,
              Pub!PublishRefused, Pub!PublishOnClosed, Pub!MarkDispatched,
              Pub!HandleFailure, Pub!CommitBatch, Pub!vars
<1>2. ASSUME NEW d \in Dispatchers, PublisherFails(d) \/ PodRestarts(d)
      PROVE  /\ UNCHANGED <<webVars, now>>
             /\ UNCHANGED outbox \/ outbox' = Pub!Overlay(view[d], outbox)
  BY <1>2 DEF PublisherFails, PodRestarts, Pub!ConfirmLost, Pub!CommitUnknown,
              Pub!BatchFails, Pub!ChannelCloses, Pub!ChannelReopens, Pub!Restart,
              Pub!EndBatch
<1>3. CASE (\E r \in Rows : EmitReturns(r)) \/ BrokerHangs \/ BrokerRecovers \/ Tick
           \/ UNCHANGED vars
  BY <1>3 DEF EmitReturns, BrokerHangs, BrokerRecovers, Tick, Pub!Tick, vars
<1>4. QED
  BY <1>1, <1>2, <1>3

(* Every step of the pod keeps the invariant of the requests. *)
LEMMA NextWebInv ==
    ASSUME WebInv, PubInv, [Pub!Next]_(Pub!vars), [Next]_vars
    PROVE  WebInv'
<1>1. CASE \/ \E r \in Rows, j \in Deliveries : Arrive(r, j)
           \/ \E r \in Rows : Serve(r) \/ RequestFails(r)
           \/ \E k \in idem : Expire(k)
  BY <1>1, RequestIsWebStep, WebNextKeepsInv
<1>2. CASE PodCrashes
  BY <1>2, CrashIsProcessDies, ProcessDiesKeepsWebInv
<1>3. CASE \/ \E d \in Dispatchers : Work(d) \/ PublisherFails(d) \/ PodRestarts(d)
           \/ \E r \in Rows : EmitReturns(r)
           \/ BrokerHangs \/ BrokerRecovers \/ Tick \/ UNCHANGED vars
  BY <1>3, OtherStepsUpdate, DispatchKeepsTable, TableUpdateKeepsWebInv
<1>4. QED
  BY <1>1, <1>2, <1>3 DEF Next

-----------------------------------------------------------------------------
(* The rest of the invariant.                                              *)

(* No transaction of a request outlives TxLag: Tick waits for it. *)
LEMMA NextTransactionsRecent ==
    ASSUME WebInv, TransactionsRecent, [Next]_vars
    PROVE  TransactionsRecent'
<1>0. Web!TypeOK
  BY WebFacts
<1> USE <1>0 DEF TransactionsRecent, Web!Connected, Web!Requests, Web!TypeOK
<1>1. ASSUME NEW r \in Rows, NEW j \in Deliveries, Arrive(r, j) PROVE TransactionsRecent'
  BY <1>1 DEF Arrive, Web!Receive, Web!Continue, Web!Answer
<1>2. ASSUME NEW r \in Rows, Serve(r) \/ RequestFails(r) PROVE TransactionsRecent'
  <2>1. Web!Serve(r) \/ Web!DbError(r) \/ Web!CommitUnknown(r)
    BY <1>2 DEF Serve, RequestFails
  <2>2. /\ UNCHANGED now
        /\ \A q \in Rows \ {r} : stage'[q] = stage[q] /\ began'[q] = began[q]
        /\ stage'[r] \in {"insert", "commit"} =>
              \/ began'[r] = now
              \/ stage[r] = "insert" /\ began'[r] = began[r]
    BY <2>1, RequestEffects
  <2>3. QED
    BY <2>2, GatewayAssumption
<1>3. ASSUME NEW k \in idem, Expire(k) PROVE TransactionsRecent'
  BY <1>3 DEF Expire, Web!Expire, Web!requestVars
<1>4. CASE PodCrashes
  BY <1>4 DEF PodCrashes, Answered
<1>5. CASE \/ \E d \in Dispatchers : Work(d) \/ PublisherFails(d) \/ PodRestarts(d)
           \/ \E r \in Rows : EmitReturns(r)
           \/ BrokerHangs \/ BrokerRecovers \/ Tick \/ UNCHANGED vars
  <2>1. UNCHANGED webVars /\ (UNCHANGED now \/ Tick)
    BY <1>5, OtherStepsUpdate
  <2>2. CASE UNCHANGED now
    BY <2>1, <2>2 DEF webVars
  <2>3. CASE Tick
    BY <2>1, <2>3, GatewayAssumption DEF webVars, Tick, Pub!Tick
  <2>4. QED
    BY <2>1, <2>2, <2>3
<1>6. QED
  BY <1>1, <1>2, <1>3, <1>4, <1>5 DEF Next

(* A batch publishes committed rows only, and no row is ever deleted. *)
LEMMA NextSentIsCommitted ==
    ASSUME PubInv, SentIsCommitted, [Pub!Next]_(Pub!vars)
    PROVE  SentIsCommitted'
<1>1. PubP!RowsKeepKeys /\ PubP!AllowedStep
  BY PubNextKeepsInv
<1>2. DOMAIN outbox \subseteq DOMAIN outbox'
  BY <1>1 DEF PubP!RowsKeepKeys
<1>3. CASE UNCHANGED published
  BY <1>2, <1>3 DEF SentIsCommitted
<1>4. ASSUME NEW r \in Rows, PubP!Delivery!Send(r) PROVE SentIsCommitted'
  <2>1. r \in DOMAIN outbox
    BY <1>4 DEF PubP!Delivery!Send, PubP!RowStatus
  <2>2. published' = [published EXCEPT ![r] = @ + 1]
    BY <1>4 DEF PubP!Delivery!Send
  <2>3. \A q \in Rows : q # r => published'[q] = published[q]
    BY <2>2, PubFacts DEF Pub!TypeOK
  <2>4. QED
    BY <1>2, <2>1, <2>3 DEF SentIsCommitted
<1>5. QED
  BY <1>1, <1>3, <1>4
     DEF PubP!AllowedStep, PubP!Delivery!Next, PubP!Delivery!Accept, PubP!Delivery!Settle

(* The state of the broker keeps its type. *)
LEMMA NextBrokerTypes == ASSUME BrokerTypes, [Next]_vars PROVE BrokerTypes'
BY DEF BrokerTypes, Next, vars, brokerVars, Arrive, Serve, EmitReturns, RequestFails,
       Expire, Work, PublisherFails, PodCrashes, PodRestarts, BrokerHangs,
       BrokerRecovers, Tick

(* The invariant holds initially and is kept. *)
LEMMA InitGatewayInv == Init => GatewayInv
<1> SUFFICES ASSUME Init PROVE GatewayInv
  OBVIOUS
<1>1. WebInv /\ PubInv
  BY InitWebInv, InitPubInv DEF Init
<1>2. TransactionsRecent
  BY DEF Init, Web!Init, TransactionsRecent, Web!Connected, Web!Requests
<1>3. SentIsCommitted /\ BrokerTypes
  BY DEF Init, Pub!Init, SentIsCommitted, BrokerTypes
<1>4. QED
  BY <1>1, <1>2, <1>3 DEF GatewayInv

LEMMA NextGatewayInv == GatewayInv /\ [Next]_vars => GatewayInv'
<1> SUFFICES ASSUME GatewayInv, [Next]_vars PROVE GatewayInv'
  OBVIOUS
<1>1. [Pub!Next]_(Pub!vars)
  BY StepIsPublisherStep DEF GatewayInv
<1>2. WebInv'
  BY <1>1, NextWebInv DEF GatewayInv
<1>3. PubInv'
  BY <1>1, PubNextKeepsInv DEF GatewayInv
<1>4. TransactionsRecent'
  BY NextTransactionsRecent DEF GatewayInv
<1>5. SentIsCommitted'
  BY <1>1, NextSentIsCommitted DEF GatewayInv
<1>6. BrokerTypes'
  BY NextBrokerTypes DEF GatewayInv
<1>7. QED
  BY <1>2, <1>3, <1>4, <1>5, <1>6 DEF GatewayInv

(* What follows from it in a state. *)
LEMMA GatewayInvTypes == GatewayInv => TypeOK
BY WebFacts, PubFacts DEF GatewayInv, BrokerTypes, TypeOK

LEMMA GatewayInvAdmitted == GatewayInv => OnlyAdmittedSent
BY WebFacts DEF GatewayInv, SentIsCommitted, OnlyAdmittedSent

-----------------------------------------------------------------------------
(* The theorems.                                                           *)

(* The invariant holds in every state the pod reaches. *)
LEMMA GatewayCorrect == Spec => []GatewayInv
BY InitGatewayInv, NextGatewayInv, PTL DEF Spec

(* Every variable of the pod keeps its type: the requests, the publisher   *)
(* and the broker connection that main.py puts together never leave one    *)
(* another in a state the other does not expect.                           *)
THEOREM TypeCorrect == Spec => []TypeOK
BY GatewayCorrect, GatewayInvTypes, PTL

(* The broker receives only stored events of webhooks that passed the      *)
(* tenant, signature, parser and whitelist gates of process_webhook, under *)
(* their own key: retries, duplicate deliveries and crashes between the    *)
(* gates, the transaction and the batch that publishes notwithstanding.    *)
THEOREM OnlyAdmittedReachBroker == Spec => []OnlyAdmittedSent
BY GatewayCorrect, GatewayInvAdmitted, PTL

(* Every step of the pod is a step of Outbox: webhook transactions are the *)
(* environment the publisher was verified against.                         *)
THEOREM PublisherEnvironment == Spec => ImplementsOutbox
<1>1. Init => Pub!Init
  BY DEF Init
<1>2. GatewayInv /\ [Next]_vars => [Pub!Next]_(Pub!vars)
  BY StepIsPublisherStep DEF GatewayInv
<1>3. QED
  BY <1>1, <1>2, GatewayCorrect, PTL DEF Spec, ImplementsOutbox, Pub!Spec

-----------------------------------------------------------------------------
(* Events are keys.                                                        *)

(* A key has at most one row, whose state is the state of the event.       *)
KeyHasRow(k, r) ==
    /\ RowsOf(k) = {r}
    /\ KeyStatus(k) = outbox[r].status
    /\ KeyCopies(k) = published[r]

KeyHasNone(k) == RowsOf(k) = {} /\ KeyStatus(k) = "absent" /\ KeyCopies(k) = 0

KeysWellDefined ==
    /\ DOMAIN outbox \subseteq Rows
    /\ \A r \in DOMAIN outbox : outbox[r].pr_hash_key \in Keys
    /\ \A r \in DOMAIN outbox : KeyHasRow(outbox[r].pr_hash_key, r)
    /\ \A k \in Keys : KeyHasNone(k) \/ \E r \in DOMAIN outbox : outbox[r].pr_hash_key = k

LEMMA WebInvKeys == WebInv => KeysWellDefined
<1> SUFFICES ASSUME WebInv PROVE KeysWellDefined
  OBVIOUS
<1>1. /\ DOMAIN outbox \subseteq Rows
      /\ \A r \in DOMAIN outbox : outbox[r].pr_hash_key \in Keys
  BY WebFacts DEF Web!TypeOK, Web!Row
<1>2. \A q, r \in DOMAIN outbox :
         outbox[q].pr_hash_key = outbox[r].pr_hash_key => q = r
  BY WebFacts
<1>3. ASSUME NEW r \in DOMAIN outbox PROVE KeyHasRow(outbox[r].pr_hash_key, r)
  <2> DEFINE k == outbox[r].pr_hash_key
  <2>1. RowsOf(k) = {r}
    BY <1>2 DEF RowsOf
  <2>2. (CHOOSE q \in RowsOf(k) : TRUE) = r
    BY <2>1
  <2>3. RowsOf(k) # {}
    BY <2>1
  <2>4. QED
    BY <2>1, <2>2, <2>3 DEF KeyHasRow, KeyStatus, KeyCopies
<1>4. ASSUME NEW k \in Keys
      PROVE  KeyHasNone(k) \/ \E r \in DOMAIN outbox : outbox[r].pr_hash_key = k
  BY DEF KeyHasNone, RowsOf, KeyStatus, KeyCopies
<1>5. QED
  BY <1>1, <1>3, <1>4 DEF KeysWellDefined

(* A step that stores no row leaves every event with its row. *)
LEMMA KeysKeepRows ==
    ASSUME KeysWellDefined, KeysWellDefined', PubP!RowsKeepKeys,
           DOMAIN outbox' = DOMAIN outbox, NEW k \in Keys
    PROVE  \/ KeyHasNone(k) /\ KeyHasNone(k)'
           \/ \E r \in DOMAIN outbox : KeyHasRow(k, r) /\ KeyHasRow(k, r)'
<1>1. CASE \E r \in DOMAIN outbox : outbox[r].pr_hash_key = k
  BY <1>1 DEF KeysWellDefined, PubP!RowsKeepKeys
<1>2. CASE \A r \in DOMAIN outbox : outbox[r].pr_hash_key # k
  BY <1>2 DEF KeysWellDefined, PubP!RowsKeepKeys
<1>3. QED
  BY <1>1, <1>2

(* The state WebhookDelivery sees. *)
EventStatus == [k \in Keys |-> KeyStatus(k)]
EventCopies == [k \in Keys |-> KeyCopies(k)]

(* A step that changes the state of no row changes that of no event. *)
LEMMA StutterOfKeys ==
    ASSUME KeysWellDefined, KeysWellDefined', PubP!RowsKeepKeys,
           Pub!TypeOK, Pub!TypeOK',
           UNCHANGED <<[r \in Rows |-> PubP!RowStatus(r)], published>>
    PROVE  UNCHANGED <<EventStatus, EventCopies>>
<1>1. \A r \in Rows : PubP!RowStatus(r)' = PubP!RowStatus(r)
  OBVIOUS
<1>2. DOMAIN outbox' = DOMAIN outbox
  BY <1>1 DEF PubP!RowStatus, Pub!TypeOK, Pub!Row, Pub!Statuses
<1>3. \A r \in DOMAIN outbox : outbox'[r].status = outbox[r].status
  BY <1>1, <1>2 DEF PubP!RowStatus, KeysWellDefined
<1>4. \A k \in Keys : KeyStatus(k)' = KeyStatus(k) /\ KeyCopies(k)' = KeyCopies(k)
  BY <1>2, <1>3, KeysKeepRows DEF KeyHasNone, KeyHasRow
<1>5. QED
  BY <1>4 DEF EventStatus, EventCopies

(* The commit of a batch settles events as it settles their rows. *)
LEMMA SettleOfKeys ==
    ASSUME KeysWellDefined, KeysWellDefined', PubP!RowsKeepKeys,
           Pub!TypeOK, Pub!TypeOK', PubP!Delivery!Settle
    PROVE  EventDelivery!Settle
<1>1. /\ \A r \in Rows : \/ PubP!RowStatus(r)' = PubP!RowStatus(r)
                          \/ /\ PubP!RowStatus(r) = "SCHEDULED"
                             /\ PubP!RowStatus(r)' = "DISPATCHED"
                             /\ published[r] >= 1
                          \/ /\ PubP!RowStatus(r) = "SCHEDULED"
                             /\ PubP!RowStatus(r)' = "FAILED"
      /\ \A r \in Rows : PubP!RowStatus(r)' \in EventDelivery!Progress
      /\ UNCHANGED published
  BY DEF PubP!Delivery!Settle, PubP!Delivery!SettledWell, PubP!Delivery!Progress,
         EventDelivery!Progress
<1>2. DOMAIN outbox' = DOMAIN outbox
  BY <1>1 DEF PubP!RowStatus, Pub!TypeOK, Pub!Row, Pub!Statuses
<1>3. ASSUME NEW k \in Keys
      PROVE  /\ \/ KeyStatus(k)' = KeyStatus(k)
                \/ /\ KeyStatus(k) = "SCHEDULED" /\ KeyStatus(k)' = "DISPATCHED"
                   /\ KeyCopies(k) >= 1
                \/ KeyStatus(k) = "SCHEDULED" /\ KeyStatus(k)' = "FAILED"
             /\ KeyStatus(k)' \in EventDelivery!Progress
             /\ KeyCopies(k)' = KeyCopies(k)
  <2>1. CASE KeyHasNone(k) /\ KeyHasNone(k)'
    BY <2>1 DEF KeyHasNone, EventDelivery!Progress
  <2>2. ASSUME NEW r \in DOMAIN outbox, KeyHasRow(k, r), KeyHasRow(k, r)'
        PROVE  /\ KeyStatus(k) = PubP!RowStatus(r)
               /\ KeyStatus(k)' = PubP!RowStatus(r)'
               /\ KeyCopies(k) = published[r]
               /\ KeyCopies(k)' = published[r]
               /\ r \in Rows
    BY <1>1, <1>2, <2>2 DEF KeyHasRow, PubP!RowStatus, KeysWellDefined
  <2>3. QED
    BY <1>1, <1>2, <2>1, <2>2, KeysKeepRows
<1>4. /\ EventStatus' \in [Keys -> EventDelivery!Progress]
      /\ UNCHANGED EventCopies
  BY <1>3 DEF EventStatus, EventCopies
<1>5. \A k \in Keys : EventDelivery!SettledWell(k)
  BY <1>3 DEF EventDelivery!SettledWell
<1>6. QED
  BY <1>4, <1>5 DEF EventDelivery!Settle, EventStatus, EventCopies

(* Publishing a row sends its event. *)
LEMMA SendOfKeys ==
    ASSUME KeysWellDefined, KeysWellDefined', PubP!RowsKeepKeys,
           Pub!TypeOK, Pub!TypeOK', NEW r \in Rows, PubP!Delivery!Send(r)
    PROVE  \E k \in Keys : EventDelivery!Send(k)
<1> DEFINE key == outbox[r].pr_hash_key
<1>1. /\ PubP!RowStatus(r) = "SCHEDULED"
      /\ \A q \in Rows : PubP!RowStatus(q)' = PubP!RowStatus(q)
      /\ published' = [published EXCEPT ![r] = @ + 1]
  BY DEF PubP!Delivery!Send
<1>2. DOMAIN outbox' = DOMAIN outbox /\ r \in DOMAIN outbox
  BY <1>1 DEF PubP!RowStatus, Pub!TypeOK, Pub!Row, Pub!Statuses
<1>3. \A q \in DOMAIN outbox : outbox'[q].status = outbox[q].status
  BY <1>1, <1>2 DEF PubP!RowStatus, KeysWellDefined
<1>4. \A q \in Rows : published'[q] = IF q = r THEN published[r] + 1 ELSE published[q]
  BY <1>1 DEF Pub!TypeOK
<1>5. key \in Keys /\ KeyStatus(key) = "SCHEDULED"
  BY <1>1, <1>2 DEF KeysWellDefined, KeyHasRow, PubP!RowStatus
<1>6. ASSUME NEW k \in Keys
      PROVE  /\ KeyStatus(k)' = KeyStatus(k)
             /\ KeyCopies(k)' = IF k = key THEN KeyCopies(k) + 1 ELSE KeyCopies(k)
  <2>1. CASE KeyHasNone(k) /\ KeyHasNone(k)'
    BY <1>2, <2>1 DEF KeyHasNone, RowsOf
  <2>2. ASSUME NEW q \in DOMAIN outbox, KeyHasRow(k, q), KeyHasRow(k, q)'
        PROVE  /\ KeyStatus(k)' = KeyStatus(k)
               /\ KeyCopies(k)' = IF k = key THEN KeyCopies(k) + 1 ELSE KeyCopies(k)
    <3>1. (k = key) <=> (q = r)
      BY <1>2, <2>2 DEF KeyHasRow, RowsOf
    <3>2. QED
      BY <1>3, <1>4, <2>2, <3>1 DEF KeyHasRow, KeysWellDefined
  <2>3. QED
    BY <1>2, <2>1, <2>2, KeysKeepRows
<1>7. EventDelivery!Send(key)
  <2>1. [k \in Keys |-> KeyStatus(k)][key] = "SCHEDULED"
    BY <1>5
  <2>2. UNCHANGED [k \in Keys |-> KeyStatus(k)]
    BY <1>6
  <2>3. [k \in Keys |-> KeyCopies(k)]'
           = [[k \in Keys |-> KeyCopies(k)] EXCEPT ![key] = @ + 1]
    BY <1>5, <1>6
  <2>4. QED
    BY <2>1, <2>2, <2>3 DEF EventDelivery!Send
<1>8. QED
  BY <1>5, <1>7

(* Storing a row accepts its event, which had none before. *)
LEMMA AcceptOfKeys ==
    ASSUME KeysWellDefined, KeysWellDefined', PubP!RowsKeepKeys, SentIsCommitted,
           Pub!TypeOK, Pub!TypeOK', NEW r \in Rows, PubP!Delivery!Accept(r)
    PROVE  \E k \in Keys : EventDelivery!Accept(k)
<1>1. /\ PubP!RowStatus(r) = "absent"
      /\ PubP!RowStatus(r)' = "SCHEDULED"
      /\ \A q \in Rows \ {r} : PubP!RowStatus(q)' = PubP!RowStatus(q)
      /\ UNCHANGED published
  BY DEF PubP!Delivery!Accept
<1>2. /\ r \notin DOMAIN outbox
      /\ DOMAIN outbox' = DOMAIN outbox \cup {r}
  BY <1>1 DEF PubP!RowStatus, Pub!TypeOK, Pub!Row, Pub!Statuses
<1>3. /\ \A q \in DOMAIN outbox : outbox'[q].status = outbox[q].status
      /\ outbox'[r].status = "SCHEDULED"
      /\ published'[r] = 0
  BY <1>1, <1>2 DEF PubP!RowStatus, KeysWellDefined, SentIsCommitted, Pub!TypeOK
<1>k. PICK key \in Keys : key = outbox'[r].pr_hash_key
  BY <1>2 DEF KeysWellDefined
<1>4. KeyHasRow(key, r)'
  BY <1>k, <1>2 DEF KeysWellDefined
<1>5. KeyHasNone(key)
  <2>1. \A q \in DOMAIN outbox : outbox[q].pr_hash_key # key
    BY <1>2, <1>4 DEF KeyHasRow, RowsOf, PubP!RowsKeepKeys
  <2>2. QED
    BY <1>4, <2>1 DEF KeysWellDefined
<1>6. ASSUME NEW k \in Keys, k # key
      PROVE  KeyStatus(k)' = KeyStatus(k) /\ KeyCopies(k)' = KeyCopies(k)
  <2>1. ASSUME NEW q \in DOMAIN outbox, outbox[q].pr_hash_key = k
        PROVE  KeyHasRow(k, q) /\ KeyHasRow(k, q)'
    BY <1>2, <2>1 DEF KeysWellDefined, PubP!RowsKeepKeys
  <2>2. CASE \A q \in DOMAIN outbox : outbox[q].pr_hash_key # k
    <3>1. \A q \in DOMAIN outbox' : outbox'[q].pr_hash_key # k
      BY <1>k, <1>2, <1>6, <2>2 DEF PubP!RowsKeepKeys
    <3>2. KeyHasNone(k) /\ KeyHasNone(k)'
      BY <2>2, <3>1 DEF KeysWellDefined
    <3>3. QED
      BY <3>2 DEF KeyHasNone
  <2>3. QED
    BY <1>1, <1>3, <2>1, <2>2 DEF KeyHasRow
<1>7. EventDelivery!Accept(key)
  <2>1. [k \in Keys |-> KeyStatus(k)][key] = "absent"
    BY <1>4, <1>5 DEF KeyHasNone
  <2>2. KeyStatus(key)' = "SCHEDULED" /\ KeyCopies(key)' = KeyCopies(key)
    BY <1>3, <1>4, <1>5 DEF KeyHasNone, KeyHasRow
  <2>3. [k \in Keys |-> KeyStatus(k)]'
           = [[k \in Keys |-> KeyStatus(k)] EXCEPT ![key] = "SCHEDULED"]
    BY <1>4, <1>6, <2>2
  <2>4. UNCHANGED [k \in Keys |-> KeyCopies(k)]
    BY <1>6, <2>2
  <2>5. QED
    BY <2>1, <2>3, <2>4 DEF EventDelivery!Accept
<1>8. QED
  BY <1>4, <1>7

(* Every step of the pod is a step of WebhookDelivery, or none. *)
LEMMA StepDelivers ==
    ASSUME GatewayInv, GatewayInv', [Next]_vars, KeysWellDefined, KeysWellDefined'
    PROVE  [EventDelivery!Next]_<<EventStatus, EventCopies>>
<1>1. [Pub!Next]_(Pub!vars)
  BY StepIsPublisherStep DEF GatewayInv
<1>2. PubP!RowsKeepKeys /\ PubP!AllowedStep
  BY <1>1, PubNextKeepsInv DEF GatewayInv
<1>3. Pub!TypeOK /\ Pub!TypeOK'
  BY GatewayInvTypes, PTL DEF TypeOK
<1>4. SentIsCommitted
  BY DEF GatewayInv
<1>5. CASE UNCHANGED <<[r \in Rows |-> PubP!RowStatus(r)], published>>
  BY <1>2, <1>3, <1>5, StutterOfKeys
<1>6. CASE PubP!Delivery!Settle
  BY <1>2, <1>3, <1>6, SettleOfKeys DEF EventDelivery!Next
<1>7. ASSUME NEW r \in Rows, PubP!Delivery!Send(r) PROVE EventDelivery!Next
  BY <1>2, <1>3, <1>7, SendOfKeys DEF EventDelivery!Next
<1>8. ASSUME NEW r \in Rows, PubP!Delivery!Accept(r) PROVE EventDelivery!Next
  BY <1>2, <1>3, <1>4, <1>8, AcceptOfKeys DEF EventDelivery!Next
<1>9. QED
  BY <1>2, <1>5, <1>6, <1>7, <1>8 DEF PubP!AllowedStep, PubP!Delivery!Next

(* End to end, the pod delivers as WebhookDelivery promises: an event is   *)
(* accepted once however many webhooks carry it, sent only between its     *)
(* commit and its settlement, and marked DISPATCHED only after the broker  *)
(* has it.                                                                 *)
THEOREM EndToEndDelivery == Spec => ImplementsDelivery
<1>1. Init => EventDelivery!Init
  BY DEF Init, Pub!Init, Pub!NoRows, EventDelivery!Init, RowsOf, KeyStatus, KeyCopies
<1>2. GatewayInv => KeysWellDefined
  BY WebInvKeys DEF GatewayInv
<1>3. /\ GatewayInv /\ KeysWellDefined
      /\ (GatewayInv /\ KeysWellDefined)'
      /\ [Next]_vars
      => [EventDelivery!Next]_<<EventStatus, EventCopies>>
  BY StepDelivers
<1>4. QED
  BY <1>1, <1>2, <1>3, GatewayCorrect, PTL
     DEF Spec, ImplementsDelivery, EventDelivery!Spec, EventStatus, EventCopies

-----------------------------------------------------------------------------
(* What the requests and the publisher keep of their own guarantees.       *)

(* What the components promise of a state follows from the invariant. *)
LEMMA GatewayInvRequests ==
    GatewayInv => /\ Web!AckIsDurable /\ Web!CacheSound
                  /\ Web!OneEventPerKey /\ Web!JourneyTruthful
<1> SUFFICES ASSUME GatewayInv
             PROVE  /\ WebP!AckIsDurable /\ WebP!CacheSound
                    /\ WebP!OneEventPerKey /\ WebP!JourneyTruthful
  BY SameRequestStates
<1>1. WebP!JourneyInv /\ WebP!StoreInv
  BY DEF GatewayInv, WebInv, WebP!JourneyInv, WebP!AdmissionInv
<1>2. WebP!AckIsDurable /\ WebP!JourneyTruthful
  BY <1>1, GatewayAssumption, WebP!StoreInvDurable, WebP!JourneyInvTruthful
     DEF Web!Delivery, WebP!Delivery, Web!PrHashKey, WebP!PrHashKey
<1>3. WebP!CacheSound
  BY <1>1 DEF WebP!StoreInv
<1>4. WebP!OneEventPerKey
  BY <1>1 DEF WebP!StoreInv, WebP!StorageConsistent, WebP!OneEventPerKey
<1>5. QED
  BY <1>2, <1>3, <1>4

LEMMA GatewayInvPublisher ==
    GatewayInv => /\ Pub!DispatchedWasPublished /\ Pub!DuplicatesOnlyFromLosses
                  /\ Pub!RetryBudget
BY SamePublisherStates
   DEF GatewayInv, PubInv, PubP!RefinementInv, PubP!RetryInv, PubP!CopiesInv,
       PubP!CopiesAccounted, PubP!DuplicatesOnlyFromLosses

(* The webhook path keeps its guarantees while the publisher of the same   *)
(* pod commits to its table: an acknowledged event is durable, the cache   *)
(* never runs ahead of the database, racing deliveries of one event store  *)
(* one row, and the journey tells the truth.                               *)
THEOREM RequestsUndisturbed ==
    Spec => [](/\ Web!AckIsDurable /\ Web!CacheSound
               /\ Web!OneEventPerKey /\ Web!JourneyTruthful)
BY GatewayCorrect, GatewayInvRequests, PTL

(* The publisher keeps its guarantees while webhook transactions add rows: *)
(* a DISPATCHED row has reached the broker, a duplicate is paid for by a   *)
(* lost outcome, and no row exceeds or falls short of its retry budget.    *)
THEOREM PublisherUndisturbed ==
    Spec => [](/\ Pub!DispatchedWasPublished /\ Pub!DuplicatesOnlyFromLosses
               /\ Pub!RetryBudget)
BY GatewayCorrect, GatewayInvPublisher, PTL

(* Also in time: whatever the requests and the broker do, no row is sent   *)
(* before its debounce delay or backoff is over, or after it was settled,  *)
(* and a retry waits a full backoff, up to the clock skew of the pod.      *)
THEOREM PublisherInTime == Spec => Pub!PublishOnlyWhenDue /\ Pub!BackoffRespected
<1>1. ASSUME GatewayInv, [Next]_vars
      PROVE  /\ [PubP!OnlyDueSent]_(PubP!vars)
             /\ [\A r \in DOMAIN outbox : PubP!BacksOff(r)]_(PubP!vars)
  <2>1. [PubP!Next]_(PubP!vars)
    BY <1>1, StepIsPublisherStep, SamePublisherSteps DEF GatewayInv
  <2>2. PubP!LockInv /\ PubP!RetryInv
    BY <1>1 DEF GatewayInv, PubInv, PubP!RefinementInv, PubP!RetryInv
  <2>3. [PubP!OnlyDueSent]_(PubP!vars)
    BY <2>1, <2>2, GatewayAssumption, PubP!NextSendsDue DEF Pub!Backoff, PubP!Backoff
  <2>4. [\A r \in DOMAIN outbox : PubP!BacksOff(r)]_(PubP!vars)
    BY <2>1, <2>2, GatewayAssumption, PubP!NextBacksOff DEF Pub!Backoff, PubP!Backoff
  <2>5. QED
    BY <2>3, <2>4
<1>2. ASSUME [PubP!OnlyDueSent]_(PubP!vars)
      PROVE  [\A r \in Rows : published'[r] # published[r] => r \in Pub!Due]_(Pub!vars)
  BY <1>2, Zenon DEF PubP!OnlyDueSent, PubP!Due, Pub!Due, PubP!vars, Pub!vars,
     PubP!dispatchVars, Pub!dispatchVars
<1>3. ASSUME [\A r \in DOMAIN outbox : PubP!BacksOff(r)]_(PubP!vars)
      PROVE  [\A r \in DOMAIN outbox :
                 LET old == outbox[r]
                     new == outbox'[r]
                 IN  new.status = "SCHEDULED" /\ new # old =>
                        /\ new.retry_count = old.retry_count + 1
                        /\ new.dispatch_at + Skew
                              >= old.dispatch_at + Pub!Backoff(old.retry_count)]_(Pub!vars)
  BY <1>3, Zenon DEF PubP!BacksOff, PubP!Backoff, Pub!Backoff, PubP!vars, Pub!vars,
     PubP!dispatchVars, Pub!dispatchVars
<1>4. QED
  BY <1>1, <1>2, <1>3, GatewayCorrect, PTL
     DEF Spec, Pub!PublishOnlyWhenDue, Pub!BackoffRespected
=============================================================================
