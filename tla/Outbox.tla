------------------------------- MODULE Outbox -------------------------------
(***************************************************************************)
(* OutboxPublisher: the background task of every gateway pod that polls    *)
(* outbox_event, publishes the due rows to RabbitMQ and records the        *)
(* outcome (db/outbox.py).                                                 *)
(*                                                                         *)
(* A dispatcher d works in one database transaction per batch.  view[d]    *)
(* holds the rows d has locked, as its own transaction sees them; the      *)
(* committed table is `outbox'.  A rollback discards view[d], a commit     *)
(* writes it over `outbox'.  published[r] counts the copies of row r that  *)
(* reached the broker.                                                     *)
(***************************************************************************)
EXTENDS OutboxTable, FiniteSets

CONSTANTS
    Dispatchers, \* one OutboxPublisher task per pod
    NoRow,       \* the value of cur[d] outside the body of the loop
    BatchSize,   \* batch_size
    MaxBackoff,  \* _MAX_BACKOFF_SECONDS, in units of time
    TxLag,       \* longest time a webhook transaction takes to commit
    Skew,        \* bound on |pod clock - database clock|
    MaxRefusals, \* bound on broker refusals and channel closures
    MaxLosses    \* bound on failures that lose the outcome of a step

VARIABLES
    pc,          \* pc[d]: where d is in run / _process_batch
    view,        \* view[d]: rows locked by d's transaction, as d sees them
    todo,        \* todo[d]: rows of the batch the for loop has not reached
    cur,         \* cur[d]: the row the loop body is working on
    chan,        \* chan[d]: state of the cached self._channel
    exch,        \* exch[d]: state of the channel of the local `exchange'
    published,   \* published[r]: copies of row r accepted by the broker
    refusals,    \* how many refusals have happened
    losses       \* how many outcome-losing failures have happened

dispatchVars == <<pc, view, todo, cur, chan, exch>>
vars == <<outbox, now, dispatchVars, published, refusals, losses>>

Stages == {"sleep", "fetched", "loop", "mark", "handle", "stopped"}
ChannelStates == {"none", "open", "closed"}

(* min(30 * 2 ** (retry_count + 1), _MAX_BACKOFF_SECONDS). *)
Backoff(retry_count) ==
    LET b == 2 ^ (retry_count + 1) IN IF b <= MaxBackoff THEN b ELSE MaxBackoff

ASSUME OutboxAssumption ==
    /\ NoRow \notin Rows
    /\ BatchSize \in Nat \ {0}
    /\ TxLag \in Nat
    /\ Skew \in Nat
    /\ MaxRefusals \in Nat
    /\ MaxLosses \in Nat

ASSUME BackoffAssumption == \A n \in 0 .. MaxRetries : Backoff(n) \in Nat

TypeOK ==
    /\ DOMAIN outbox \subseteq Rows
    /\ outbox \in [DOMAIN outbox -> Row]
    /\ now \in Nat
    /\ pc \in [Dispatchers -> Stages]
    /\ DOMAIN view = Dispatchers
    /\ \A d \in Dispatchers : /\ DOMAIN view[d] \subseteq Rows
                              /\ view[d] \in [DOMAIN view[d] -> Row]
    /\ todo \in [Dispatchers -> SUBSET Rows]
    /\ cur \in [Dispatchers -> Rows \cup {NoRow}]
    /\ chan \in [Dispatchers -> ChannelStates]
    /\ exch \in [Dispatchers -> ChannelStates]
    /\ published \in [Rows -> Nat]
    /\ refusals \in Nat
    /\ losses \in Nat

Held(d) == DOMAIN view[d]

Locked == UNION {Held(d) : d \in Dispatchers}

Init ==
    /\ outbox = NoRows
    /\ now = 0
    /\ pc = [d \in Dispatchers |-> "sleep"]
    /\ view = [d \in Dispatchers |-> NoRows]
    /\ todo = [d \in Dispatchers |-> {}]
    /\ cur = [d \in Dispatchers |-> NoRow]
    /\ chan = [d \in Dispatchers |-> "none"]
    /\ exch = [d \in Dispatchers |-> "none"]
    /\ published = [r \in Rows |-> 0]
    /\ refusals = 0
    /\ losses = 0

-----------------------------------------------------------------------------
(* The environment of the publisher: webhook transactions and the clock.   *)

(* A webhook transaction that began at most TxLag ago commits its row.     *)
Schedule(r, k) ==
    /\ r \notin DOMAIN outbox
    /\ \E began \in 0 .. now :
          /\ now - began <= TxLag
          /\ outbox' = ScheduleEvent(outbox, r, k, PrVersion, began)
    /\ UNCHANGED <<now, dispatchVars, published, refusals, losses>>

(* Time passes.  It is only observed through dispatch_at, so the clock     *)
(* stands still once no scheduled row is in the future.                    *)
Tick ==
    /\ \E r \in DOMAIN outbox : /\ outbox[r].status = "SCHEDULED"
                                /\ outbox[r].dispatch_at > now
    /\ now' = now + 1
    /\ UNCHANGED <<outbox, dispatchVars, published, refusals, losses>>

-----------------------------------------------------------------------------
(* One batch: _process_batch.                                              *)

Due == {r \in DOMAIN outbox : /\ outbox[r].status = "SCHEDULED"
                              /\ outbox[r].dispatch_at <= now}

(* Faulty variant of SelectDue: SKIP LOCKED is missing. *)
SelectDueLockedToo ==
    {S \in SUBSET Due : \/ Cardinality(S) = BatchSize
                        \/ S = Due /\ Cardinality(S) < BatchSize}

(* Faulty variant of SelectDue: dispatch_at <= NOW() is missing. *)
SelectDueTooEarly ==
    LET free == {r \in DOMAIN outbox : outbox[r].status = "SCHEDULED"} \ Locked IN
    {S \in SUBSET free : \/ Cardinality(S) = BatchSize
                         \/ S = free /\ Cardinality(S) < BatchSize}

(* The row sets SELECT ... ORDER BY dispatch_at LIMIT batch_size FOR       *)
(* UPDATE SKIP LOCKED may return.                                          *)
SelectDue ==
    LET free == Due \ Locked IN
    {S \in SUBSET free :
        /\ \/ Cardinality(S) = BatchSize
           \/ S = free /\ Cardinality(S) < BatchSize
        /\ \A r \in S, q \in free \ S :
              outbox[r].dispatch_at <= outbox[q].dispatch_at}

(* BEGIN and SELECT find nothing due: _process_batch returns. *)
PollNothing(d) ==
    /\ pc[d] = "sleep"
    /\ {} \in SelectDue
    /\ UNCHANGED vars

(* BEGIN and SELECT lock the rows of a batch. *)
Fetch(d) ==
    /\ pc[d] = "sleep"
    /\ \E S \in SelectDue \ {{}} :
          /\ view' = [view EXCEPT ![d] = [r \in S |-> outbox[r]]]
          /\ todo' = [todo EXCEPT ![d] = S]
    /\ pc' = [pc EXCEPT ![d] = "fetched"]
    /\ UNCHANGED <<outbox, now, cur, chan, exch, published, refusals, losses>>

(* _get_exchange: reuse the cached channel, or open a new one when there   *)
(* is none or it is closed.                                                *)
GetExchange(d) ==
    /\ pc[d] = "fetched"
    /\ chan' = [chan EXCEPT ![d] = "open"]
    /\ exch' = [exch EXCEPT ![d] = "open"]
    /\ pc' = [pc EXCEPT ![d] = "loop"]
    /\ UNCHANGED <<outbox, now, view, todo, cur, published, refusals, losses>>

(* The rows the for loop may take next: the rows come in dispatch_at order. *)
NextRows(d) ==
    {r \in todo[d] : \A q \in todo[d] :
        view[d][r].dispatch_at <= view[d][q].dispatch_at}

(* The loop takes row r and its body continues at `stage'. *)
TakeRow(d, r, stage) ==
    /\ pc[d] = "loop"
    /\ r \in NextRows(d)
    /\ todo' = [todo EXCEPT ![d] = @ \ {r}]
    /\ cur' = [cur EXCEPT ![d] = r]
    /\ pc' = [pc EXCEPT ![d] = stage]

(* exchange.publish returns: the broker has confirmed the message. *)
Publish(d, r) ==
    /\ TakeRow(d, r, "mark")
    /\ exch[d] = "open"
    /\ published' = [published EXCEPT ![r] = @ + 1]
    /\ UNCHANGED <<outbox, now, view, chan, exch, refusals, losses>>

(* Faulty variant of PublishRefused: the error is swallowed. *)
PublishRefusalIgnored(d, r) ==
    /\ TakeRow(d, r, "mark")
    /\ exch[d] = "open"
    /\ refusals < MaxRefusals
    /\ refusals' = refusals + 1
    /\ UNCHANGED <<outbox, now, view, chan, exch, published, losses>>

(* exchange.publish raises because the broker refused the message. *)
PublishRefused(d, r) ==
    /\ TakeRow(d, r, "handle")
    /\ exch[d] = "open"
    /\ refusals < MaxRefusals
    /\ refusals' = refusals + 1
    /\ UNCHANGED <<outbox, now, view, chan, exch, published, losses>>

(* exchange.publish raises because its channel is closed. *)
PublishOnClosed(d, r) ==
    /\ TakeRow(d, r, "handle")
    /\ exch[d] = "closed"
    /\ UNCHANGED <<outbox, now, view, chan, exch, published, refusals, losses>>

(* The broker takes the message, but the channel dies before the confirm:  *)
(* exchange.publish raises although the message was accepted.              *)
ConfirmLost(d, r) ==
    /\ TakeRow(d, r, "handle")
    /\ exch[d] = "open"
    /\ losses < MaxLosses
    /\ losses' = losses + 1
    /\ published' = [published EXCEPT ![r] = @ + 1]
    /\ exch' = [exch EXCEPT ![d] = "closed"]
    /\ chan' = [chan EXCEPT ![d] = IF @ = "open" THEN "closed" ELSE @]
    /\ UNCHANGED <<outbox, now, view, refusals>>

(* Faulty variant of MarkDispatched: the UPDATE matches no row. *)
MarkNothing(d) ==
    /\ pc[d] = "mark"
    /\ cur' = [cur EXCEPT ![d] = NoRow]
    /\ pc' = [pc EXCEPT ![d] = "loop"]
    /\ UNCHANGED <<outbox, now, view, todo, chan, exch, published, refusals, losses>>

(* _MARK_DISPATCHED, and the release of the row's savepoint. *)
MarkDispatched(d) ==
    /\ pc[d] = "mark"
    /\ view' = [view EXCEPT ![d][cur[d]].status = "DISPATCHED"]
    /\ cur' = [cur EXCEPT ![d] = NoRow]
    /\ pc' = [pc EXCEPT ![d] = "loop"]
    /\ UNCHANGED <<outbox, now, todo, chan, exch, published, refusals, losses>>

(* Faulty variants of AfterFailure: a status outside the CHECK constraint, *)
(* an off-by-one in the retry limit, a retry without backoff.              *)
AfterFailureBadStatus(row) ==
    {[row EXCEPT !.status = "RETRYING", !.retry_count = @ + 1]}

AfterFailureOneTooMany(row) ==
    IF row.retry_count + 1 > MaxRetries
    THEN {[row EXCEPT !.status = "FAILED", !.retry_count = @ + 1]}
    ELSE {[row EXCEPT !.retry_count = @ + 1,
                      !.dispatch_at = now + Backoff(row.retry_count)]}

AfterFailureNoBackoff(row) ==
    IF row.retry_count + 1 >= MaxRetries
    THEN {[row EXCEPT !.status = "FAILED", !.retry_count = @ + 1]}
    ELSE {[row EXCEPT !.retry_count = @ + 1, !.dispatch_at = now]}

(* The row after a failed attempt: FAILED when it was the last one,        *)
(* otherwise due again after the backoff, counted from the pod's clock.    *)
AfterFailure(row) ==
    IF row.retry_count + 1 >= MaxRetries
    THEN {[row EXCEPT !.status = "FAILED", !.retry_count = @ + 1]}
    ELSE {[row EXCEPT !.retry_count = @ + 1,
                      !.dispatch_at = clock + Backoff(row.retry_count)] :
             clock \in now - Skew .. now + Skew}

(* The except branch.  The cached channel is dropped; the local `exchange' *)
(* of this batch is not.                                                   *)
HandleFailure(d) ==
    /\ pc[d] = "handle"
    /\ \E row \in AfterFailure(view[d][cur[d]]) :
          view' = [view EXCEPT ![d][cur[d]] = row]
    /\ cur' = [cur EXCEPT ![d] = NoRow]
    /\ chan' = [chan EXCEPT ![d] = "none"]
    /\ pc' = [pc EXCEPT ![d] = "loop"]
    /\ UNCHANGED <<outbox, now, todo, exch, published, refusals, losses>>

(* Faulty variant of EndBatch: the locks are not released. *)
EndBatchLocksKept(d) ==
    /\ todo' = [todo EXCEPT ![d] = {}]
    /\ cur' = [cur EXCEPT ![d] = NoRow]
    /\ exch' = [exch EXCEPT ![d] = "none"]
    /\ pc' = [pc EXCEPT ![d] = "sleep"]
    /\ UNCHANGED view

(* The transaction of d ends and d goes back to sleep. *)
EndBatch(d) ==
    /\ view' = [view EXCEPT ![d] = NoRows]
    /\ todo' = [todo EXCEPT ![d] = {}]
    /\ cur' = [cur EXCEPT ![d] = NoRow]
    /\ exch' = [exch EXCEPT ![d] = "none"]
    /\ pc' = [pc EXCEPT ![d] = "sleep"]

BatchDone(d) == pc[d] = "loop" /\ todo[d] = {}

(* COMMIT of the outer transaction. *)
CommitBatch(d) ==
    /\ BatchDone(d)
    /\ outbox' = Overlay(view[d], outbox)
    /\ EndBatch(d)
    /\ UNCHANGED <<now, chan, published, refusals, losses>>

(* The COMMIT is applied but its answer is lost: run's `except Exception'. *)
CommitUnknown(d) ==
    /\ BatchDone(d)
    /\ losses < MaxLosses
    /\ losses' = losses + 1
    /\ outbox' = Overlay(view[d], outbox)
    /\ EndBatch(d)
    /\ chan' = [chan EXCEPT ![d] = "none"]
    /\ UNCHANGED <<now, published, refusals>>

(* A statement, a savepoint, the COMMIT or _get_exchange fails.  A failed  *)
(* statement aborts the row's savepoint, so the statement of the except    *)
(* branch fails as well; the error leaves both `async with', the outer     *)
(* transaction rolls back, and run resets the channel.                     *)
BatchFails(d) ==
    /\ pc[d] \in {"fetched", "loop", "mark", "handle"}
    /\ losses < MaxLosses
    /\ losses' = losses + 1
    /\ EndBatch(d)
    /\ chan' = [chan EXCEPT ![d] = "none"]
    /\ UNCHANGED <<outbox, now, published, refusals>>

-----------------------------------------------------------------------------
(* The channel and the process.                                            *)

(* The channel that d uses is closed by the broker. *)
ChannelCloses(d) ==
    /\ pc[d] # "stopped"
    /\ "open" \in {chan[d], exch[d]}
    /\ refusals < MaxRefusals
    /\ refusals' = refusals + 1
    /\ exch' = [exch EXCEPT ![d] = IF @ = "open" THEN "closed" ELSE @]
    /\ chan' = [chan EXCEPT ![d] = IF @ = "open" THEN "closed" ELSE @]
    /\ UNCHANGED <<outbox, now, pc, view, todo, cur, published, losses>>

(* The channel is a robust one: when only the connection is lost, aio_pika *)
(* may reopen it by itself, also for a batch that holds its exchange.      *)
ChannelReopens(d) ==
    /\ pc[d] # "stopped"
    /\ "closed" \in {chan[d], exch[d]}
    /\ exch' = [exch EXCEPT ![d] = IF @ = "closed" THEN "open" ELSE @]
    /\ chan' = [chan EXCEPT ![d] = IF @ = "closed" THEN "open" ELSE @]
    /\ UNCHANGED <<outbox, now, pc, view, todo, cur, published, refusals, losses>>

(* The pod crashes or is shut down (CancelledError).  Its session, and so  *)
(* its row locks, may outlive it.                                          *)
Stop(d) ==
    /\ pc[d] # "stopped"
    /\ losses < MaxLosses
    /\ losses' = losses + 1
    /\ pc' = [pc EXCEPT ![d] = "stopped"]
    /\ UNCHANGED <<outbox, now, view, todo, cur, chan, exch, published, refusals>>

(* The database has ended the old session and rolled it back, and a new    *)
(* pod starts.                                                             *)
Restart(d) ==
    /\ pc[d] = "stopped"
    /\ EndBatch(d)
    /\ chan' = [chan EXCEPT ![d] = "none"]
    /\ UNCHANGED <<outbox, now, published, refusals, losses>>

-----------------------------------------------------------------------------
(* The steps d takes when nothing goes wrong, refusals included. *)
Work(d) ==
    \/ PollNothing(d)
    \/ Fetch(d)
    \/ GetExchange(d)
    \/ \E r \in Rows : \/ Publish(d, r)
                       \/ PublishRefused(d, r)
                       \/ PublishOnClosed(d, r)
    \/ MarkDispatched(d)
    \/ HandleFailure(d)
    \/ CommitBatch(d)

Fault(d) ==
    \/ \E r \in Rows : ConfirmLost(d, r)
    \/ CommitUnknown(d)
    \/ BatchFails(d)
    \/ ChannelCloses(d)
    \/ ChannelReopens(d)
    \/ Stop(d)

Dispatch == \E d \in Dispatchers : Work(d) \/ Fault(d) \/ Restart(d)

Next ==
    \/ \E r \in Rows, k \in Keys : Schedule(r, k)
    \/ Tick
    \/ Dispatch

Spec == Init /\ [][Next]_vars

(* run loops forever and every await in it returns or raises; stopped pods *)
(* are replaced; time passes.                                              *)
Fairness ==
    /\ WF_vars(Tick)
    /\ \A d \in Dispatchers : WF_vars(Work(d)) /\ WF_vars(Restart(d))

FairSpec == Spec /\ Fairness
-----------------------------------------------------------------------------
(* Properties.                                                             *)

(* The broker receives a copy of a row only while the committed row is     *)
(* SCHEDULED and its dispatch_at has passed, whichever pod sends it and    *)
(* however old that pod's view of the table is: the row locks of           *)
(* _SELECT_DUE are held until the batch commits.                           *)
PublishOnlyWhenDue ==
    [][\A r \in Rows : published'[r] # published[r] => r \in Due]_vars

(* A row committed as DISPATCHED has reached the broker: _process_batch    *)
(* marks a row only after exchange.publish returned, and no rollback,      *)
(* crash or competing pod leaves the mark without the message.             *)
DispatchedWasPublished ==
    \A r \in DOMAIN outbox :
        outbox[r].status = "DISPATCHED" => published[r] >= 1

(* The broker sees a row more than once only because an outcome was lost   *)
(* (confirm, commit, or process): each such failure costs at most one      *)
(* extra copy of a row, and without one delivery is at most once even with *)
(* several pods polling the same table.                                    *)
DuplicatesOnlyFromLosses == \A r \in Rows : published[r] <= 1 + losses

(* retry_count and status agree with max_retries: a row waiting for a      *)
(* retry has attempts left, a FAILED row has used exactly all of them.     *)
(* A lost update between two pods, or a row charged twice in one batch,    *)
(* would break it.                                                         *)
RetryBudget ==
    \A r \in DOMAIN outbox :
        /\ outbox[r].status \in {"SCHEDULED", "DISPATCHED"}
              => outbox[r].retry_count < MaxRetries
        /\ outbox[r].status = "FAILED" => outbox[r].retry_count = MaxRetries

(* A row that goes back to SCHEDULED after a failed attempt becomes due    *)
(* a full backoff after the dispatch_at it had, up to the clock skew of    *)
(* the pod, and has been charged exactly one attempt.                      *)
BackoffRespected ==
    [][\A r \in DOMAIN outbox :
          LET old == outbox[r]
              new == outbox'[r]
          IN  new.status = "SCHEDULED" /\ new # old =>
                 /\ new.retry_count = old.retry_count + 1
                 /\ new.dispatch_at + Skew
                       >= old.dispatch_at + Backoff(old.retry_count)]_vars

(* Every scheduled row is settled: it is dispatched, or it fails after its *)
(* last attempt.  No row is starved by the batch order, left behind a dead *)
(* pod's lock, or forgotten after a rollback.                              *)
Settled(r) == r \in DOMAIN outbox /\ outbox[r].status # "SCHEDULED"

EventuallySettled ==
    \A r \in Rows : r \in DOMAIN outbox ~> Settled(r)

(* What the comment on the per-row savepoint says: the status update of a  *)
(* row that was published is committed even if a later row of the same     *)
(* batch fails.                                                            *)
SavepointKeepsEarlierRows ==
    [][\A d \in Dispatchers : \A r \in Held(d) :
          /\ view[d][r].status = "DISPATCHED"
          /\ pc[d] \in {"mark", "handle"}
          /\ pc'[d] = "sleep"
          => outbox'[r].status = "DISPATCHED"]_vars

(* What the docstring of OutboxPublisher says: a channel that was closed   *)
(* is acquired again.  So once a failure has dropped the cached channel,   *)
(* no later row of the batch is tried on the closed one.                   *)
ClosedChannelReacquired ==
    [][\A d \in Dispatchers, r \in Rows :
          PublishOnClosed(d, r) => chan[d] # "none"]_vars

-----------------------------------------------------------------------------
(* The inductive invariant behind the safety properties.                   *)

(* What a batch may rely on between its awaits: the rows it has locked are *)
(* due in the committed table and locked by no other pod; a row the loop   *)
(* has not settled is in the view exactly as committed; the row in the     *)
(* loop body is locked and no longer in the rest of the batch.             *)
LockDiscipline ==
    /\ \A d \in Dispatchers : Held(d) \subseteq Due
    /\ \A d, e \in Dispatchers : d # e => Held(d) \cap Held(e) = {}
    /\ \A d \in Dispatchers :
          /\ todo[d] \subseteq Held(d)
          /\ \A r \in todo[d] : view[d][r] = outbox[r]
    /\ \A d \in Dispatchers : pc[d] \in {"mark", "handle"} =>
          /\ cur[d] \in Held(d) \ todo[d]
          /\ view[d][cur[d]] = outbox[cur[d]]
    /\ \A d \in Dispatchers : pc[d] = "sleep" => Held(d) = {}

(* Every row has the version the webhook path writes, so schedule_event    *)
(* cancels nothing.                                                        *)
VersionsConstant ==
    /\ \A r \in DOMAIN outbox : outbox[r].pr_version = PrVersion
    /\ \A d \in Dispatchers : \A r \in Held(d) :
          view[d][r].pr_version = PrVersion

(* A row of a view is at most one attempt ahead of the committed row. *)
OneAttempt(old, new) ==
    \/ new = old
    \/ /\ new.status = "DISPATCHED"
       /\ new.retry_count = old.retry_count
    \/ /\ new.status = "FAILED"
       /\ new.retry_count = MaxRetries
    \/ /\ new.status = "SCHEDULED"
       /\ new.retry_count = old.retry_count + 1
       /\ new.retry_count < MaxRetries
       /\ new.dispatch_at + Skew >= old.dispatch_at + Backoff(old.retry_count)

ViewsOneAttemptAhead ==
    \A d \in Dispatchers : \A r \in Held(d) : OneAttempt(outbox[r], view[d][r])

(* d has sent row r in the current batch and knows it. *)
Sent(d, r) ==
    \/ r \in Held(d) /\ view[d][r].status = "DISPATCHED"
    \/ pc[d] = "mark" /\ cur[d] = r

(* Some record of the delivery of r is committed, or will be unless an     *)
(* outcome is lost.                                                        *)
Recorded(r) ==
    \/ r \in DOMAIN outbox /\ outbox[r].status = "DISPATCHED"
    \/ \E d \in Dispatchers : pc[d] # "stopped" /\ Sent(d, r)

(* Every copy of a row at the broker is paid for: one by the record of its *)
(* delivery, each other one by a lost outcome.                             *)
CopiesAccounted ==
    \A r \in Rows :
        /\ published[r] <= 1 + losses
        /\ ~Recorded(r) => published[r] <= losses
        /\ \A d \in Dispatchers : Sent(d, r) => published[r] >= 1
=============================================================================
