----------------------- MODULE OutboxDelivery_proofs -----------------------
(* The outbox publisher implements WebhookDelivery, for any rows and pods. *)
EXTENDS OutboxDelivery, Outbox_proofs

(* What a step of the publisher must be for WebhookDelivery to allow it. *)
AllowedStep == Delivery!Next \/ UNCHANGED <<[r \in Rows |-> RowStatus(r)], published>>

(* No committed row is CANCELLED, so every status has a counterpart. *)
NoneCancelled == \A r \in DOMAIN outbox : outbox[r].status # "CANCELLED"

RefinementInv == RetryInv /\ CopiesInv /\ NoneCancelled

(* The steps that change the committed table: a webhook transaction and    *)
(* the commit of a batch.                                                  *)
LEMMA TableChanges ==
    ASSUME [Next]_vars, outbox' # outbox
    PROVE  /\ UNCHANGED published
           /\ \/ \E r \in Rows, k \in Keys : Schedule(r, k)
              \/ \E d \in Dispatchers : outbox' = Overlay(view[d], outbox)
BY DEF vars, dispatchVars, Next, Dispatch, Work, Fault, Tick, PollNothing, Fetch,
       GetExchange, Publish, PublishRefused, PublishOnClosed, ConfirmLost,
       MarkDispatched, HandleFailure, CommitBatch, CommitUnknown, BatchFails,
       ChannelCloses, ChannelReopens, Stop, Restart, Schedule

(* A commit changes only scheduled rows, and settles those it does not     *)
(* leave scheduled.                                                        *)
LEMMA CommitSettles ==
    ASSUME RetryInv, NEW d \in Dispatchers, outbox' = Overlay(view[d], outbox)
    PROVE  /\ DOMAIN outbox' = DOMAIN outbox
           /\ \A r \in DOMAIN outbox :
                 \/ outbox'[r] = outbox[r]
                 \/ /\ outbox[r].status = "SCHEDULED"
                    /\ outbox'[r].status \in {"SCHEDULED", "DISPATCHED", "FAILED"}
<1>0. TypeOK /\ LockDiscipline /\ ViewsOneAttemptAhead
  BY DEF RetryInv, LockInv
<1>1. Held(d) \subseteq Due /\ Due \subseteq DOMAIN outbox
  BY <1>0 DEF LockDiscipline, Due
<1>2. /\ DOMAIN outbox' = DOMAIN outbox
      /\ \A r \in Held(d) : outbox'[r] = view[d][r]
      /\ \A r \in DOMAIN outbox \ Held(d) : outbox'[r] = outbox[r]
  BY <1>1, CommitWritesView
<1>3. ASSUME NEW r \in Held(d)
      PROVE  \/ outbox'[r] = outbox[r]
             \/ /\ outbox[r].status = "SCHEDULED"
                /\ outbox'[r].status \in {"SCHEDULED", "DISPATCHED", "FAILED"}
  <2>1. OneAttempt(outbox[r], outbox'[r]) /\ outbox[r].status = "SCHEDULED"
    BY <1>0, <1>1, <1>2 DEF ViewsOneAttemptAhead, Due
  <2>2. QED
    BY <2>1 DEF OneAttempt
<1>4. QED
  BY <1>2, <1>3

(* Every step keeps NoneCancelled. *)
LEMMA NextNoneCancelled ==
    ASSUME RefinementInv, [Next]_vars
    PROVE  NoneCancelled'
<1>0. TypeOK /\ VersionsConstant /\ RetryInv
  BY DEF RefinementInv, RetryInv, LockInv
<1>1. CASE outbox' = outbox
  BY <1>1 DEF RefinementInv, NoneCancelled
<1>2. ASSUME NEW r \in Rows, NEW k \in Keys, Schedule(r, k) PROVE NoneCancelled'
  BY <1>0, <1>2, ScheduleKeepsRows DEF RefinementInv, NoneCancelled
<1>3. ASSUME NEW d \in Dispatchers, outbox' = Overlay(view[d], outbox) PROVE NoneCancelled'
  BY <1>0, <1>3, CommitSettles DEF RefinementInv, NoneCancelled
<1>4. QED
  BY <1>1, <1>2, <1>3, TableChanges

(* The invariant holds initially and is kept. *)
LEMMA InitRefinementInv == Init => RefinementInv
BY InitRetryInv, InitCopiesInv DEF RefinementInv, NoneCancelled, Init, NoRows

LEMMA NextRefinementInv == RefinementInv /\ [Next]_vars => RefinementInv'
<1> SUFFICES ASSUME RefinementInv, [Next]_vars PROVE RefinementInv'
  OBVIOUS
<1>1. RetryInv' /\ CopiesInv'
  BY NextRetryInv, NextCopiesInv DEF RefinementInv
<1>2. NoneCancelled'
  BY NextNoneCancelled
<1>3. QED
  BY <1>1, <1>2 DEF RefinementInv

(* A webhook transaction is the acceptance of its event. *)
LEMMA ScheduleIsAccept ==
    ASSUME RefinementInv, NEW r \in Rows, NEW k \in Keys, Schedule(r, k)
    PROVE  Delivery!Accept(r)
<1>0. TypeOK /\ VersionsConstant
  BY DEF RefinementInv, RetryInv, LockInv
<1>1. /\ r \notin DOMAIN outbox
      /\ DOMAIN outbox' = DOMAIN outbox \cup {r}
      /\ \A q \in DOMAIN outbox : outbox'[q] = outbox[q]
      /\ outbox'[r].status = "SCHEDULED"
  BY <1>0, ScheduleKeepsRows
<1>2. RowStatus(r) = "absent"
  BY <1>1 DEF RowStatus
<1>3. [q \in Rows |-> RowStatus(q)]'
         = [[q \in Rows |-> RowStatus(q)] EXCEPT ![r] = "SCHEDULED"]
  BY <1>1 DEF RowStatus
<1>4. UNCHANGED published
  BY DEF Schedule
<1>5. QED
  BY <1>2, <1>3, <1>4 DEF Delivery!Accept

(* The commit of a batch settles the events of its rows. *)
LEMMA CommitIsSettle ==
    ASSUME RefinementInv, RefinementInv', NEW d \in Dispatchers,
           outbox' = Overlay(view[d], outbox), UNCHANGED published
    PROVE  Delivery!Settle
<1>0. /\ RetryInv /\ NoneCancelled /\ NoneCancelled'
      /\ TypeOK /\ TypeOK' /\ DispatchedWasPublished'
  BY DEF RefinementInv, RetryInv, LockInv, CopiesInv
<1>1. /\ DOMAIN outbox' = DOMAIN outbox
      /\ \A r \in DOMAIN outbox :
            \/ outbox'[r] = outbox[r]
            \/ /\ outbox[r].status = "SCHEDULED"
               /\ outbox'[r].status \in {"SCHEDULED", "DISPATCHED", "FAILED"}
  BY <1>0, CommitSettles
<1>2. ASSUME NEW r \in Rows
      PROVE  \/ RowStatus(r)' = RowStatus(r)
             \/ /\ RowStatus(r) = "SCHEDULED" /\ RowStatus(r)' = "DISPATCHED"
                /\ published[r] >= 1
             \/ RowStatus(r) = "SCHEDULED" /\ RowStatus(r)' = "FAILED"
  <2>1. CASE r \notin DOMAIN outbox
    BY <1>1, <2>1 DEF RowStatus
  <2>2. CASE r \in DOMAIN outbox
    <3>1. RowStatus(r) = outbox[r].status /\ RowStatus(r)' = outbox'[r].status
      BY <1>1, <2>2 DEF RowStatus
    <3>2. outbox'[r].status = "DISPATCHED" => published[r] >= 1
      BY <1>0, <1>1, <2>2 DEF DispatchedWasPublished
    <3>3. QED
      BY <1>1, <2>2, <3>1, <3>2
  <2>3. QED
    BY <2>1, <2>2
<1>3. ASSUME NEW r \in Rows
      PROVE  RowStatus(r)' \in {"absent", "SCHEDULED", "DISPATCHED", "FAILED"}
  BY <1>0 DEF RowStatus, TypeOK, Row, Statuses, NoneCancelled
<1>4. \A r \in Rows : Delivery!SettledWell(r)
  BY <1>2 DEF Delivery!SettledWell
<1>5. [r \in Rows |-> RowStatus(r)]' \in [Rows -> Delivery!Progress]
  BY <1>3 DEF Delivery!Progress
<1>6. QED
  BY <1>4, <1>5 DEF Delivery!Settle

(* A copy that reaches the broker is one the promise allows. *)
LEMMA PublishIsSend ==
    ASSUME RefinementInv, NEW d \in Dispatchers, NEW r \in Rows,
           Publish(d, r) \/ ConfirmLost(d, r)
    PROVE  Delivery!Send(r)
<1>0. TypeOK /\ LockDiscipline
  BY DEF RefinementInv, RetryInv, LockInv
<1>1. /\ pc[d] = "loop" /\ r \in todo[d]
      /\ published' = [published EXCEPT ![r] = @ + 1] /\ outbox' = outbox
  BY DEF Publish, ConfirmLost, TakeRow, NextRows
<1>2. r \in Due
  BY <1>0, <1>1, UnsettledNotRecorded
<1>3. RowStatus(r) = "SCHEDULED"
  BY <1>2 DEF Due, RowStatus
<1>4. UNCHANGED [q \in Rows |-> RowStatus(q)]
  BY <1>1 DEF RowStatus
<1>5. QED
  BY <1>1, <1>3, <1>4 DEF Delivery!Send

(* Every step is a step of the promise or changes nothing it speaks of. *)
LEMMA StepIsAllowed ==
    ASSUME RefinementInv, RefinementInv', [Next]_vars
    PROVE  AllowedStep
<1>1. ASSUME NEW r \in Rows, NEW k \in Keys, Schedule(r, k) PROVE AllowedStep
  BY <1>1, ScheduleIsAccept DEF AllowedStep, Delivery!Next
<1>2. ASSUME NEW d \in Dispatchers, outbox' = Overlay(view[d], outbox),
             UNCHANGED published
      PROVE  AllowedStep
  BY <1>2, CommitIsSettle DEF AllowedStep, Delivery!Next
<1>3. ASSUME NEW d \in Dispatchers, NEW r \in Rows, Publish(d, r) \/ ConfirmLost(d, r)
      PROVE  AllowedStep
  BY <1>3, PublishIsSend DEF AllowedStep, Delivery!Next
<1>4. CASE outbox' = outbox /\ published' = published
  <2>1. UNCHANGED <<[r \in Rows |-> RowStatus(r)], published>>
    BY <1>4 DEF RowStatus
  <2>2. QED
    BY <2>1 DEF AllowedStep
<1>5. ASSUME outbox' = outbox, published' # published
      PROVE  \E d \in Dispatchers, r \in Rows : Publish(d, r) \/ ConfirmLost(d, r)
  BY <1>5 DEF vars, dispatchVars, Next, Dispatch, Work, Fault, Tick, PollNothing, Fetch,
       GetExchange, PublishRefused, PublishOnClosed, MarkDispatched, HandleFailure,
       CommitBatch, CommitUnknown, BatchFails, ChannelCloses, ChannelReopens, Stop,
       Restart, Schedule
<1>6. QED
  BY <1>1, <1>2, <1>3, <1>4, <1>5, TableChanges

(* The publisher of any number of pods implements WebhookDelivery: an      *)
(* accepted event is sent at least once or given up, settled once, and     *)
(* never sent after it is settled.                                         *)
THEOREM PublisherImplementsDelivery == Spec => ImplementsDelivery
<1>1. Init => Delivery!Init
  BY DEF Init, Delivery!Init, RowStatus, NoRows
<1>2. RefinementInv /\ RefinementInv' /\ [Next]_vars
         => [Delivery!Next]_<<[r \in Rows |-> RowStatus(r)], published>>
  BY StepIsAllowed DEF AllowedStep
<1>3. QED
  BY InitRefinementInv, NextRefinementInv, <1>1, <1>2, PTL
     DEF Spec, ImplementsDelivery, Delivery!Spec
=============================================================================
