--------------------------- MODULE Outbox_proofs ---------------------------
(* Proofs about Outbox, for any number of rows, dispatchers and failures. *)
EXTENDS Outbox, TLAPS

(* Overlay at a glance: its domain and its values. *)
LEMMA OverlayDomain ==
    ASSUME NEW f, NEW g
    PROVE  DOMAIN Overlay(f, g) = DOMAIN f \cup DOMAIN g
BY DEF Overlay

(* A row of the overlay comes from the top if it is there. *)
LEMMA OverlayValue ==
    ASSUME NEW f, NEW g, NEW r \in DOMAIN f \cup DOMAIN g
    PROVE  Overlay(f, g)[r] = IF r \in DOMAIN f THEN f[r] ELSE g[r]
BY DEF Overlay

USE TableAssumption, OutboxAssumption

(* The types hold initially. *)
LEMMA InitTypeOK == Init => TypeOK
BY DEF Init, TypeOK, NoRows, Stages, ChannelStates

(* The end of a batch leaves well-typed variables. *)
LEMMA EndBatchType ==
    ASSUME TypeOK, NEW d \in Dispatchers, EndBatch(d)
    PROVE  /\ pc' \in [Dispatchers -> Stages]
           /\ DOMAIN view' = Dispatchers
           /\ \A e \in Dispatchers : /\ DOMAIN view'[e] \subseteq Rows
                                     /\ view'[e] \in [DOMAIN view'[e] -> Row]
           /\ todo' \in [Dispatchers -> SUBSET Rows]
           /\ cur' \in [Dispatchers -> Rows \cup {NoRow}]
           /\ exch' \in [Dispatchers -> ChannelStates]
BY DEF EndBatch, TypeOK, NoRows, Stages, ChannelStates

(* Writing rows over a table, and scheduling into it, give a table. *)
LEMMA OverlayType ==
    ASSUME NEW f, NEW g,
           DOMAIN f \subseteq Rows, f \in [DOMAIN f -> Row],
           DOMAIN g \subseteq Rows, g \in [DOMAIN g -> Row]
    PROVE  /\ DOMAIN Overlay(f, g) \subseteq Rows
           /\ Overlay(f, g) \in [DOMAIN Overlay(f, g) -> Row]
BY DEF Overlay

(* schedule_event leaves a well-typed table. *)
LEMMA ScheduleEventType ==
    ASSUME TypeOK, NEW r \in Rows, NEW k \in Keys, NEW t \in 0 .. now
    PROVE  LET new == ScheduleEvent(outbox, r, k, PrVersion, t)
           IN  DOMAIN new \subseteq Rows /\ new \in [DOMAIN new -> Row]
<1> DEFINE top == [i \in {r} |-> NewRow(k, PrVersion, t)]
           base == CancelPrevious(outbox, k, PrVersion)
<1>1. DOMAIN top \subseteq Rows /\ top \in [DOMAIN top -> Row]
  BY DEF NewRow, Row, Statuses, TypeOK, PrVersion
<1>2. DOMAIN base \subseteq Rows /\ base \in [DOMAIN base -> Row]
  <2>1. DOMAIN outbox \subseteq Rows /\ \A q \in DOMAIN outbox : outbox[q] \in Row
    BY DEF TypeOK
  <2>2. \A row \in Row : [row EXCEPT !.status = "CANCELLED"] \in Row
    BY DEF Row, Statuses
  <2>3. QED
    BY <2>1, <2>2 DEF CancelPrevious
<1> HIDE DEF top, base
<1>3. QED
  BY <1>1, <1>2, OverlayType DEF ScheduleEvent, top, base

(* What AfterFailure makes of a row. *)
LEMMA AfterFailureFields ==
    ASSUME TypeOK, NEW old \in Row, NEW new \in AfterFailure(old)
    PROVE  /\ new \in Row
           /\ new.pr_version = old.pr_version
           /\ new.pr_hash_key = old.pr_hash_key
           /\ new.retry_count = old.retry_count + 1
           /\ \/ /\ old.retry_count + 1 >= MaxRetries
                 /\ new.status = "FAILED"
              \/ /\ old.retry_count + 1 < MaxRetries
                 /\ new.status = old.status
                 /\ new.dispatch_at + Skew >= now + Backoff(old.retry_count)
<1>1. PICK n \in Nat : n = old.retry_count + 1
  BY DEF Row
<1>2. CASE n >= MaxRetries
  <2>1. new = [old EXCEPT !.status = "FAILED", !.retry_count = n]
    BY <1>1, <1>2 DEF AfterFailure
  <2>2. new \in Row
    BY <2>1 DEF Row, Statuses
  <2>3. new.retry_count = n /\ new.status = "FAILED"
        /\ new.pr_version = old.pr_version /\ new.pr_hash_key = old.pr_hash_key
    BY <2>1 DEF Row
  <2>4. QED
    BY <1>1, <1>2, <2>2, <2>3
<1>3. CASE ~(n >= MaxRetries)
  <2>1. PICK clock \in now - Skew .. now + Skew :
           new = [old EXCEPT !.retry_count = n,
                             !.dispatch_at = clock + Backoff(old.retry_count)]
    BY <1>1, <1>3 DEF AfterFailure
  <2>2. Backoff(old.retry_count) \in Nat
    BY <1>1, <1>3, BackoffAssumption DEF Row
  <2>3. PICK t \in Int : t = clock + Backoff(old.retry_count)
    BY <2>2 DEF TypeOK
  <2>4. new = [old EXCEPT !.retry_count = n, !.dispatch_at = t]
    BY <2>1, <2>3
  <2>5. new \in Row
    BY <2>4 DEF Row, Statuses
  <2>6. t + Skew >= now + Backoff(old.retry_count)
    BY <2>2, <2>3 DEF TypeOK
  <2>7. new.dispatch_at = t /\ new.retry_count = n /\ new.status = old.status
        /\ new.pr_version = old.pr_version /\ new.pr_hash_key = old.pr_hash_key
    BY <2>4 DEF Row
  <2>8. QED
    BY <1>1, <1>3, <2>5, <2>6, <2>7 DEF Row
<1>4. QED
  BY <1>2, <1>3

(* Writing a row into a view keeps the views well typed. *)
LEMMA WriteViewType ==
    ASSUME TypeOK, NEW d \in Dispatchers, NEW q, NEW row,
           q \in Held(d) => row \in Row,
           view' = [view EXCEPT ![d] = [view[d] EXCEPT ![q] = row]]
    PROVE  /\ DOMAIN view' = Dispatchers
           /\ \A e \in Dispatchers : /\ DOMAIN view'[e] \subseteq Rows
                                     /\ view'[e] \in [DOMAIN view'[e] -> Row]
<1>1. DOMAIN view' = Dispatchers
  BY DEF TypeOK
<1>2. ASSUME NEW e \in Dispatchers, e # d PROVE view'[e] = view[e]
  BY <1>2 DEF TypeOK
<1>3. /\ DOMAIN view'[d] = Held(d)
      /\ \A r \in Held(d) : view'[d][r] = IF r = q THEN row ELSE view[d][r]
      /\ view'[d] = [r \in Held(d) |-> view'[d][r]]
  BY DEF TypeOK, Held
<1>4. \A r \in Held(d) : view[d][r] \in Row
  BY DEF TypeOK, Held
<1>5. view'[d] \in [DOMAIN view'[d] -> Row]
  BY <1>3, <1>4
<1>6. QED
  BY <1>1, <1>2, <1>3, <1>5 DEF TypeOK, Held

(* TypeOK is inductive. *)
LEMMA NextTypeOK == TypeOK /\ [Next]_vars => TypeOK'
<1> SUFFICES ASSUME TypeOK, [Next]_vars PROVE TypeOK'
  OBVIOUS
<1> USE DEF dispatchVars, vars
<1>1. ASSUME NEW r \in Rows, NEW k \in Keys, Schedule(r, k) PROVE TypeOK'
  BY <1>1, ScheduleEventType DEF Schedule, TypeOK
<1>2. CASE Tick
  BY <1>2 DEF Tick, TypeOK
<1>3. ASSUME NEW d \in Dispatchers, Fetch(d) PROVE TypeOK'
  BY <1>3 DEF Fetch, SelectDue, Due, TypeOK, Stages
<1>4. ASSUME NEW d \in Dispatchers, GetExchange(d) PROVE TypeOK'
  BY <1>4 DEF GetExchange, TypeOK, Stages, ChannelStates
<1>5. ASSUME NEW d \in Dispatchers, NEW r \in Rows, Publish(d, r) PROVE TypeOK'
  BY <1>5 DEF Publish, TakeRow, TypeOK, Stages
<1>6. ASSUME NEW d \in Dispatchers, NEW r \in Rows, PublishRefused(d, r) PROVE TypeOK'
  BY <1>6 DEF PublishRefused, TakeRow, TypeOK, Stages
<1>6a. ASSUME NEW d \in Dispatchers, NEW r \in Rows, PublishOnClosed(d, r) PROVE TypeOK'
  BY <1>6a DEF PublishOnClosed, TakeRow, TypeOK, Stages
<1>7. ASSUME NEW d \in Dispatchers, NEW r \in Rows, ConfirmLost(d, r) PROVE TypeOK'
  BY <1>7 DEF ConfirmLost, TakeRow, TypeOK, Stages, ChannelStates
<1>8. ASSUME NEW d \in Dispatchers, MarkDispatched(d) PROVE TypeOK'
  <2> DEFINE row == [view[d][cur[d]] EXCEPT !.status = "DISPATCHED"]
  <2>1. cur[d] \in Held(d) => row \in Row
    BY DEF TypeOK, Held, Row, Statuses
  <2>2. view' = [view EXCEPT ![d] = [view[d] EXCEPT ![cur[d]] = row]]
    BY <1>8 DEF MarkDispatched
  <2> HIDE DEF row
  <2>3. QED
    BY <1>8, <2>1, <2>2, WriteViewType DEF MarkDispatched, TypeOK, Stages
<1>9. ASSUME NEW d \in Dispatchers, HandleFailure(d) PROVE TypeOK'
  <2>1. PICK row \in AfterFailure(view[d][cur[d]]) :
           view' = [view EXCEPT ![d] = [view[d] EXCEPT ![cur[d]] = row]]
    BY <1>9 DEF HandleFailure
  <2>2. cur[d] \in Held(d) => row \in Row
    BY <2>1, AfterFailureFields DEF TypeOK, Held
  <2>3. QED
    BY <1>9, <2>1, <2>2, WriteViewType DEF HandleFailure, TypeOK, Stages, ChannelStates
<1>10. ASSUME NEW d \in Dispatchers, CommitBatch(d) PROVE TypeOK'
  <2>1. DOMAIN outbox' \subseteq Rows /\ outbox' \in [DOMAIN outbox' -> Row]
    BY <1>10, OverlayType DEF CommitBatch, TypeOK
  <2>2. EndBatch(d)
    BY <1>10 DEF CommitBatch
  <2>3. QED
    BY <1>10, <2>1, <2>2, EndBatchType DEF CommitBatch, TypeOK
<1>10a. ASSUME NEW d \in Dispatchers, CommitUnknown(d) PROVE TypeOK'
  <2>1. DOMAIN outbox' \subseteq Rows /\ outbox' \in [DOMAIN outbox' -> Row]
    BY <1>10a, OverlayType DEF CommitUnknown, TypeOK
  <2>2. EndBatch(d)
    BY <1>10a DEF CommitUnknown
  <2>3. QED
    BY <1>10a, <2>1, <2>2, EndBatchType DEF CommitUnknown, TypeOK, ChannelStates
<1>11. ASSUME NEW d \in Dispatchers, BatchFails(d) PROVE TypeOK'
  <2>1. EndBatch(d)
    BY <1>11 DEF BatchFails
  <2>2. QED
    BY <1>11, <2>1, EndBatchType DEF BatchFails, TypeOK, ChannelStates
<1>11a. ASSUME NEW d \in Dispatchers, Restart(d) PROVE TypeOK'
  <2>1. EndBatch(d)
    BY <1>11a DEF Restart
  <2>2. QED
    BY <1>11a, <2>1, EndBatchType DEF Restart, TypeOK, ChannelStates
<1>12. ASSUME NEW d \in Dispatchers, ChannelCloses(d) PROVE TypeOK'
  BY <1>12 DEF ChannelCloses, TypeOK, ChannelStates
<1>12a. ASSUME NEW d \in Dispatchers, ChannelReopens(d) PROVE TypeOK'
  BY <1>12a DEF ChannelReopens, TypeOK, ChannelStates
<1>13. ASSUME NEW d \in Dispatchers, Stop(d) PROVE TypeOK'
  BY <1>13 DEF Stop, TypeOK, Stages
<1>14. CASE UNCHANGED vars
  BY <1>14 DEF TypeOK
<1>15. QED
  BY <1>1, <1>2, <1>3, <1>4, <1>5, <1>6, <1>6a, <1>7, <1>8, <1>9, <1>10,
     <1>10a, <1>11, <1>11a, <1>12, <1>12a, <1>13, <1>14
     DEF Next, Dispatch, Work, Fault, PollNothing

(* The variables keep their types under every interleaving of pods,        *)
(* failures and restarts; in particular a batch never writes a row that is *)
(* not a row of the table.                                                 *)
THEOREM TypeCorrect == Spec => []TypeOK
BY InitTypeOK, NextTypeOK, PTL DEF Spec

-----------------------------------------------------------------------------
(* Row locks.                                                              *)

LockInv == TypeOK /\ LockDiscipline /\ VersionsConstant

(* schedule_event adds a row and leaves the others as they are: no row has *)
(* an older version for it to cancel.                                      *)
LEMMA ScheduleKeepsRows ==
    ASSUME TypeOK, VersionsConstant, NEW r \in Rows, NEW k \in Keys, Schedule(r, k)
    PROVE  /\ r \notin DOMAIN outbox
           /\ DOMAIN outbox' = DOMAIN outbox \cup {r}
           /\ \A q \in DOMAIN outbox : outbox'[q] = outbox[q]
           /\ outbox'[r].status = "SCHEDULED"
           /\ outbox'[r].pr_version = PrVersion
           /\ outbox'[r].retry_count = 0
<1>1. r \notin DOMAIN outbox
  BY DEF Schedule
<1>2. PICK t \in 0 .. now : outbox' = ScheduleEvent(outbox, r, k, PrVersion, t)
  BY DEF Schedule
<1> DEFINE top == [i \in {r} |-> NewRow(k, PrVersion, t)]
           base == CancelPrevious(outbox, k, PrVersion)
<1>3. /\ DOMAIN base = DOMAIN outbox
      /\ \A q \in DOMAIN outbox : base[q] = outbox[q]
  BY DEF CancelPrevious, VersionsConstant, PrVersion
<1>4. DOMAIN top = {r} /\ top[r] = NewRow(k, PrVersion, t)
  OBVIOUS
<1>5. outbox' = Overlay(top, base)
  BY <1>2 DEF ScheduleEvent
<1> HIDE DEF top, base
<1>6. /\ DOMAIN outbox' = DOMAIN outbox \cup {r}
      /\ \A q \in DOMAIN outbox : outbox'[q] = outbox[q]
      /\ outbox'[r] = NewRow(k, PrVersion, t)
  BY <1>1, <1>3, <1>4, <1>5 DEF Overlay
<1>7. QED
  BY <1>1, <1>6 DEF NewRow

(* The effect of a commit on the committed table. *)
LEMMA CommitWritesView ==
    ASSUME NEW d \in Dispatchers, Held(d) \subseteq DOMAIN outbox,
           outbox' = Overlay(view[d], outbox)
    PROVE  /\ DOMAIN outbox' = DOMAIN outbox
           /\ \A r \in Held(d) : outbox'[r] = view[d][r]
           /\ \A r \in DOMAIN outbox \ Held(d) : outbox'[r] = outbox[r]
BY DEF Overlay, Held

(* After its transaction has ended a dispatcher holds nothing. *)
LEMMA EndBatchReleases ==
    ASSUME TypeOK, NEW d \in Dispatchers, EndBatch(d)
    PROVE  /\ DOMAIN view'[d] = {}
           /\ todo'[d] = {}
           /\ pc'[d] = "sleep"
           /\ \A e \in Dispatchers \ {d} : /\ view'[e] = view[e]
                                           /\ todo'[e] = todo[e]
                                           /\ cur'[e] = cur[e]
                                           /\ pc'[e] = pc[e]
BY DEF EndBatch, TypeOK, NoRows

(* Writing row q into d's view touches nothing else. *)
LEMMA WriteViewFields ==
    ASSUME TypeOK, NEW d \in Dispatchers, NEW q, NEW row,
           view' = [view EXCEPT ![d] = [view[d] EXCEPT ![q] = row]]
    PROVE  /\ \A e \in Dispatchers : DOMAIN view'[e] = DOMAIN view[e]
           /\ \A e \in Dispatchers \ {d} : view'[e] = view[e]
           /\ \A r \in Held(d) \ {q} : view'[d][r] = view[d][r]
           /\ q \in Held(d) => view'[d][q] = row
BY DEF TypeOK, Held

(* Nothing is locked initially. *)
LEMMA InitLockInv == Init => LockInv
BY InitTypeOK DEF Init, LockInv, LockDiscipline, VersionsConstant, Held, Due, NoRows

(* What MarkDispatched and HandleFailure have in common: the loop body     *)
(* ends by writing `row' for the row it worked on.                         *)
SettleRow(d, row) ==
    /\ pc[d] \in {"mark", "handle"}
    /\ pc' = [pc EXCEPT ![d] = "loop"]
    /\ view' = [view EXCEPT ![d] = [view[d] EXCEPT ![cur[d]] = row]]
    /\ cur' = [cur EXCEPT ![d] = NoRow]
    /\ UNCHANGED <<outbox, now, todo, published, losses>>

(* MarkDispatched settles the current row. *)
LEMMA MarkSettles ==
    ASSUME TypeOK, LockDiscipline, NEW d \in Dispatchers, MarkDispatched(d)
    PROVE  \E row \in Row :
              /\ SettleRow(d, row)
              /\ pc[d] = "mark"
              /\ row.pr_version = view[d][cur[d]].pr_version
              /\ row.pr_hash_key = view[d][cur[d]].pr_hash_key
              /\ row.status = "DISPATCHED"
              /\ row.retry_count = view[d][cur[d]].retry_count
<1> DEFINE row == [view[d][cur[d]] EXCEPT !.status = "DISPATCHED"]
<1>1. view[d][cur[d]] \in Row
  BY DEF MarkDispatched, LockDiscipline, TypeOK, Held
<1>2. /\ row \in Row
      /\ row.pr_version = view[d][cur[d]].pr_version
      /\ row.pr_hash_key = view[d][cur[d]].pr_hash_key
      /\ row.status = "DISPATCHED"
      /\ row.retry_count = view[d][cur[d]].retry_count
  BY <1>1 DEF Row, Statuses
<1>3. SettleRow(d, row) /\ pc[d] = "mark"
  BY DEF MarkDispatched, SettleRow
<1> HIDE DEF row
<1>4. QED
  BY <1>2, <1>3

(* HandleFailure settles the current row. *)
LEMMA HandleSettles ==
    ASSUME TypeOK, LockDiscipline, NEW d \in Dispatchers, HandleFailure(d)
    PROVE  \E row \in AfterFailure(view[d][cur[d]]) :
              /\ SettleRow(d, row)
              /\ pc[d] = "handle"
              /\ view[d][cur[d]] \in Row
<1>1. view[d][cur[d]] \in Row
  BY DEF HandleFailure, LockDiscipline, TypeOK, Held
<1>2. PICK row \in AfterFailure(view[d][cur[d]]) :
         view' = [view EXCEPT ![d] = [view[d] EXCEPT ![cur[d]] = row]]
  BY DEF HandleFailure
<1>3. SettleRow(d, row) /\ pc[d] = "handle"
  BY <1>2 DEF HandleFailure, SettleRow
<1>4. QED
  BY <1>1, <1>2, <1>3

(* Every step keeps LockInv: one case per action. *)
LEMMA NextLockInv == LockInv /\ [Next]_vars => LockInv'
<1> SUFFICES ASSUME LockInv, [Next]_vars PROVE LockDiscipline' /\ VersionsConstant'
  BY NextTypeOK DEF LockInv
<1>0. TypeOK /\ TypeOK' /\ LockDiscipline /\ VersionsConstant
  BY NextTypeOK DEF LockInv
<1> USE <1>0 DEF dispatchVars, vars
<1>1. ASSUME NEW r \in Rows, NEW k \in Keys, Schedule(r, k)
      PROVE  LockDiscipline' /\ VersionsConstant'
  <2>1. UNCHANGED <<now, view, todo, cur, pc>>
    BY <1>1 DEF Schedule
  <2>2. \A d \in Dispatchers : Held(d) \subseteq DOMAIN outbox
    BY DEF LockDiscipline, Due
  <2>3. /\ DOMAIN outbox' = DOMAIN outbox \cup {r}
        /\ \A q \in DOMAIN outbox : outbox'[q] = outbox[q]
        /\ outbox'[r].pr_version = PrVersion
    BY <1>1, ScheduleKeepsRows
  <2>4. LockDiscipline'
    BY <2>1, <2>2, <2>3 DEF LockDiscipline, Held, Due
  <2>5. VersionsConstant'
    BY <2>1, <2>3 DEF VersionsConstant, Held
  <2>6. QED
    BY <2>4, <2>5
<1>2. CASE Tick
  BY <1>2 DEF Tick, LockDiscipline, VersionsConstant, Held, Due, TypeOK, Row
<1>3. ASSUME NEW d \in Dispatchers, Fetch(d) PROVE LockDiscipline' /\ VersionsConstant'
  <2>1. PICK S \in SelectDue : /\ view' = [view EXCEPT ![d] = [r \in S |-> outbox[r]]]
                               /\ todo' = [todo EXCEPT ![d] = S]
    BY <1>3 DEF Fetch
  <2>2. S \subseteq Due /\ \A e \in Dispatchers : S \cap Held(e) = {}
    BY <2>1 DEF SelectDue, Locked
  <2>3. /\ DOMAIN view'[d] = S
        /\ \A r \in S : view'[d][r] = outbox[r]
        /\ \A e \in Dispatchers \ {d} : view'[e] = view[e]
    BY <2>1 DEF TypeOK
  <2>4. /\ UNCHANGED <<outbox, now, cur>>
        /\ pc'[d] = "fetched"
        /\ todo'[d] = S
        /\ \A e \in Dispatchers \ {d} : pc'[e] = pc[e] /\ todo'[e] = todo[e]
    BY <1>3, <2>1 DEF Fetch, TypeOK
  <2>5. LockDiscipline'
    <3>1. \A e \in Dispatchers : Held(e)' \subseteq Due'
      BY <2>2, <2>3, <2>4 DEF LockDiscipline, Held, Due
    <3>2. \A e, f \in Dispatchers : e # f => Held(e)' \cap Held(f)' = {}
      BY <2>2, <2>3 DEF LockDiscipline, Held
    <3>3. \A e \in Dispatchers : /\ todo'[e] \subseteq Held(e)'
                                 /\ \A r \in todo'[e] : view'[e][r] = outbox'[r]
      BY <2>3, <2>4 DEF LockDiscipline, Held
    <3>4. \A e \in Dispatchers : pc'[e] \in {"mark", "handle"} =>
             /\ cur'[e] \in Held(e)' \ todo'[e]
             /\ view'[e][cur'[e]] = outbox'[cur'[e]]
      BY <2>3, <2>4 DEF LockDiscipline, Held
    <3>5. \A e \in Dispatchers : pc'[e] = "sleep" => Held(e)' = {}
      BY <2>3, <2>4 DEF LockDiscipline, Held
    <3>6. QED
      BY <3>1, <3>2, <3>3, <3>4, <3>5 DEF LockDiscipline
  <2>6. VersionsConstant'
    BY <2>2, <2>3, <2>4 DEF VersionsConstant, Held, Due
  <2>7. QED
    BY <2>5, <2>6
<1>4. ASSUME NEW d \in Dispatchers, GetExchange(d) PROVE LockDiscipline' /\ VersionsConstant'
  BY <1>4 DEF GetExchange, LockDiscipline, VersionsConstant, Held, Due, TypeOK
<1>5. ASSUME NEW d \in Dispatchers, NEW r \in Rows,
             NEW stage \in {"mark", "handle"}, TakeRow(d, r, stage),
             UNCHANGED <<outbox, now, view>>
      PROVE  LockDiscipline' /\ VersionsConstant'
  <2>1. r \in todo[d]
    BY <1>5 DEF TakeRow, NextRows
  <2>2. r \in Held(d) /\ view[d][r] = outbox[r]
    BY <2>1 DEF LockDiscipline
  <2>3. /\ todo'[d] = todo[d] \ {r} /\ cur'[d] = r /\ pc'[d] = stage
        /\ \A e \in Dispatchers \ {d} : /\ todo'[e] = todo[e]
                                        /\ cur'[e] = cur[e]
                                        /\ pc'[e] = pc[e]
    BY <1>5 DEF TakeRow, TypeOK
  <2>4. QED
    BY <1>5, <2>2, <2>3 DEF LockDiscipline, VersionsConstant, Held, Due
<1>6. ASSUME NEW d \in Dispatchers, NEW row, SettleRow(d, row),
             row.pr_version = view[d][cur[d]].pr_version
      PROVE  LockDiscipline' /\ VersionsConstant'
  <2>1. cur[d] \in Held(d) \ todo[d]
    BY <1>6 DEF LockDiscipline, SettleRow
  <2>2. /\ \A e \in Dispatchers : DOMAIN view'[e] = DOMAIN view[e]
        /\ \A e \in Dispatchers \ {d} : view'[e] = view[e]
        /\ \A r \in Held(d) \ {cur[d]} : view'[d][r] = view[d][r]
        /\ view'[d][cur[d]] = row
    BY <1>6, <2>1, WriteViewFields DEF SettleRow
  <2>3. /\ pc'[d] = "loop"
        /\ \A e \in Dispatchers \ {d} : pc'[e] = pc[e] /\ cur'[e] = cur[e]
    BY <1>6 DEF TypeOK, SettleRow
  <2>4. LockDiscipline'
    BY <1>6, <2>1, <2>2, <2>3 DEF LockDiscipline, Held, Due, SettleRow
  <2>5. VersionsConstant'
    BY <1>6, <2>1, <2>2 DEF VersionsConstant, Held, SettleRow
  <2>6. QED
    BY <2>4, <2>5
<1>7. ASSUME NEW d \in Dispatchers, EndBatch(d), UNCHANGED <<outbox, now>>
      PROVE  LockDiscipline' /\ VersionsConstant'
  BY <1>7, EndBatchReleases DEF LockDiscipline, VersionsConstant, Held, Due
<1>8. ASSUME NEW d \in Dispatchers, EndBatch(d), UNCHANGED now,
             outbox' = Overlay(view[d], outbox)
      PROVE  LockDiscipline' /\ VersionsConstant'
  <2>1. Held(d) \subseteq DOMAIN outbox
    BY DEF LockDiscipline, Due
  <2>2. /\ DOMAIN outbox' = DOMAIN outbox
        /\ \A r \in Held(d) : outbox'[r] = view[d][r]
        /\ \A r \in DOMAIN outbox \ Held(d) : outbox'[r] = outbox[r]
    BY <1>8, <2>1, CommitWritesView
  <2>3. \A e \in Dispatchers \ {d} : \A r \in Held(e) :
           r \in DOMAIN outbox /\ outbox'[r] = outbox[r]
    BY <2>2 DEF LockDiscipline, Due
  <2>4. LockDiscipline'
    BY <1>8, <2>2, <2>3, EndBatchReleases DEF LockDiscipline, Held, Due
  <2>5. VersionsConstant'
    BY <1>8, <2>1, <2>2, EndBatchReleases DEF VersionsConstant, Held
  <2>6. QED
    BY <2>4, <2>5
<1>9. ASSUME NEW d \in Dispatchers, ChannelCloses(d) \/ ChannelReopens(d)
      PROVE  LockDiscipline' /\ VersionsConstant'
  BY <1>9 DEF ChannelCloses, ChannelReopens, LockDiscipline, VersionsConstant, Held, Due
<1>10. ASSUME NEW d \in Dispatchers, Stop(d) PROVE LockDiscipline' /\ VersionsConstant'
  BY <1>10 DEF Stop, LockDiscipline, VersionsConstant, Held, Due, TypeOK
<1>11. CASE UNCHANGED vars
  BY <1>11 DEF LockDiscipline, VersionsConstant, Held, Due
<1>12. ASSUME NEW d \in Dispatchers, MarkDispatched(d) PROVE LockDiscipline' /\ VersionsConstant'
  BY <1>6, <1>12, MarkSettles
<1>13. ASSUME NEW d \in Dispatchers, HandleFailure(d) PROVE LockDiscipline' /\ VersionsConstant'
  BY <1>6, <1>13, HandleSettles, AfterFailureFields
<1>14. ASSUME NEW d \in Dispatchers, Work(d) PROVE LockDiscipline' /\ VersionsConstant'
  BY <1>3, <1>4, <1>5, <1>8, <1>11, <1>12, <1>13, <1>14
     DEF Work, PollNothing, Publish, PublishRefused, PublishOnClosed, CommitBatch
<1>15. ASSUME NEW d \in Dispatchers, Fault(d) \/ Restart(d)
       PROVE  LockDiscipline' /\ VersionsConstant'
  BY <1>5, <1>7, <1>8, <1>9, <1>10, <1>15
     DEF Fault, ConfirmLost, CommitUnknown, BatchFails, Restart
<1>16. QED
  BY <1>1, <1>2, <1>11, <1>14, <1>15 DEF Next, Dispatch

(* Every pod works on rows that are due and that it alone has locked, and  *)
(* sees them as they are committed until it settles them, whatever other   *)
(* pods, failures and restarts do: what FOR UPDATE SKIP LOCKED and one     *)
(* transaction per batch are there for.                                    *)
THEOREM RowsAreLocked == Spec => []LockDiscipline
<1>1. LockInv => LockDiscipline
  BY DEF LockInv
<1>2. QED
  BY InitLockInv, NextLockInv, <1>1, PTL DEF Spec

-----------------------------------------------------------------------------
(* Retries.                                                                *)

RetryInv == LockInv /\ ViewsOneAttemptAhead /\ RetryBudget

(* The row the loop body writes is one attempt ahead of the committed one. *)
LEMMA SettleOneAttempt ==
    ASSUME TypeOK, LockDiscipline, RetryBudget, NEW d \in Dispatchers,
           MarkDispatched(d) \/ HandleFailure(d)
    PROVE  \E row : SettleRow(d, row) /\ OneAttempt(outbox[cur[d]], row)
<1> DEFINE old == view[d][cur[d]]
<1>1. pc[d] \in {"mark", "handle"}
  BY DEF MarkDispatched, HandleFailure
<1>2. /\ old = outbox[cur[d]]
      /\ cur[d] \in DOMAIN outbox
      /\ old \in Row
      /\ old.status = "SCHEDULED"
      /\ old.dispatch_at <= now
  BY <1>1 DEF LockDiscipline, Held, Due, TypeOK
<1>3. old.retry_count < MaxRetries
  BY <1>2 DEF RetryBudget
<1> HIDE DEF old
<1>4. CASE MarkDispatched(d)
  BY <1>2, <1>4, MarkSettles DEF OneAttempt, old
<1>5. CASE HandleFailure(d)
  <2>1. PICK row \in AfterFailure(old) : SettleRow(d, row)
    BY <1>5, HandleSettles DEF old
  <2>2. /\ row.retry_count = old.retry_count + 1
        /\ \/ /\ old.retry_count + 1 >= MaxRetries
              /\ row.status = "FAILED"
           \/ /\ old.retry_count + 1 < MaxRetries
              /\ row.status = old.status
              /\ row.dispatch_at + Skew >= now + Backoff(old.retry_count)
        /\ row \in Row
    BY <1>2, <2>1, AfterFailureFields
  <2>3. old.retry_count \in Nat /\ old.dispatch_at \in Int /\ row.dispatch_at \in Int
    BY <1>2, <2>2 DEF Row
  <2>4. Backoff(old.retry_count) \in Nat
    BY <1>3, <2>3, BackoffAssumption
  <2>5. OneAttempt(old, row)
    <3>1. CASE old.retry_count + 1 >= MaxRetries
      BY <1>3, <2>2, <2>3, <3>1 DEF OneAttempt
    <3>2. CASE old.retry_count + 1 < MaxRetries
      <4>1. row.dispatch_at + Skew >= old.dispatch_at + Backoff(old.retry_count)
        BY <1>2, <2>2, <2>3, <2>4, <3>2 DEF TypeOK
      <4>2. QED
        BY <1>2, <2>2, <2>3, <3>2, <4>1 DEF OneAttempt
    <3>3. QED
      BY <2>3, <3>1, <3>2
  <2>6. QED
    BY <1>2, <2>1, <2>5
<1>6. QED
  BY <1>4, <1>5

(* There are no rows to retry initially. *)
LEMMA InitRetryInv == Init => RetryInv
BY InitLockInv DEF Init, RetryInv, ViewsOneAttemptAhead, RetryBudget, Held, NoRows

(* Every step keeps RetryInv: one case per action. *)
LEMMA NextRetryInv == RetryInv /\ [Next]_vars => RetryInv'
<1> SUFFICES ASSUME RetryInv, [Next]_vars PROVE ViewsOneAttemptAhead' /\ RetryBudget'
  BY NextLockInv DEF RetryInv
<1>0. /\ TypeOK /\ LockDiscipline /\ VersionsConstant
      /\ TypeOK' /\ LockDiscipline'
      /\ ViewsOneAttemptAhead /\ RetryBudget
  BY NextLockInv DEF RetryInv, LockInv
<1> USE <1>0 DEF dispatchVars, vars
<1>1. ASSUME NEW r \in Rows, NEW k \in Keys, Schedule(r, k)
      PROVE  ViewsOneAttemptAhead' /\ RetryBudget'
  <2>1. UNCHANGED view /\ \A d \in Dispatchers : Held(d) \subseteq DOMAIN outbox
    BY <1>1 DEF Schedule, LockDiscipline, Due
  <2>2. /\ DOMAIN outbox' = DOMAIN outbox \cup {r}
        /\ \A q \in DOMAIN outbox : outbox'[q] = outbox[q]
        /\ outbox'[r].status = "SCHEDULED"
        /\ outbox'[r].retry_count = 0
    BY <1>1, ScheduleKeepsRows
  <2>3. ViewsOneAttemptAhead'
    BY <2>1, <2>2 DEF ViewsOneAttemptAhead, Held
  <2>4. RetryBudget'
    BY <2>2 DEF RetryBudget
  <2>5. QED
    BY <2>3, <2>4
<1>2. ASSUME UNCHANGED <<outbox, view>> PROVE ViewsOneAttemptAhead' /\ RetryBudget'
  BY <1>2 DEF ViewsOneAttemptAhead, RetryBudget, Held
<1>3. ASSUME NEW d \in Dispatchers, Fetch(d) PROVE ViewsOneAttemptAhead' /\ RetryBudget'
  <2>1. PICK S \in SelectDue : view' = [view EXCEPT ![d] = [r \in S |-> outbox[r]]]
    BY <1>3 DEF Fetch
  <2>2. /\ DOMAIN view'[d] = S
        /\ \A r \in S : view'[d][r] = outbox[r]
        /\ \A e \in Dispatchers \ {d} : view'[e] = view[e]
    BY <2>1 DEF TypeOK
  <2>3. UNCHANGED outbox
    BY <1>3 DEF Fetch
  <2>4. QED
    BY <2>2, <2>3 DEF ViewsOneAttemptAhead, RetryBudget, Held, OneAttempt
<1>4. ASSUME NEW d \in Dispatchers, MarkDispatched(d) \/ HandleFailure(d)
      PROVE  ViewsOneAttemptAhead' /\ RetryBudget'
  <2>1. PICK row : SettleRow(d, row) /\ OneAttempt(outbox[cur[d]], row)
    BY <1>4, SettleOneAttempt
  <2>2. UNCHANGED outbox /\ cur[d] \in Held(d)
    BY <2>1 DEF SettleRow, LockDiscipline
  <2>3. /\ \A e \in Dispatchers : DOMAIN view'[e] = DOMAIN view[e]
        /\ \A e \in Dispatchers \ {d} : view'[e] = view[e]
        /\ \A r \in Held(d) \ {cur[d]} : view'[d][r] = view[d][r]
        /\ view'[d][cur[d]] = row
    BY <2>1, <2>2, WriteViewFields DEF SettleRow
  <2>4. QED
    BY <2>1, <2>2, <2>3 DEF ViewsOneAttemptAhead, RetryBudget, Held
<1>5. ASSUME NEW d \in Dispatchers, EndBatch(d), UNCHANGED outbox
      PROVE  ViewsOneAttemptAhead' /\ RetryBudget'
  BY <1>5, EndBatchReleases DEF ViewsOneAttemptAhead, RetryBudget, Held
<1>6. ASSUME NEW d \in Dispatchers, EndBatch(d), outbox' = Overlay(view[d], outbox)
      PROVE  ViewsOneAttemptAhead' /\ RetryBudget'
  <2>1. Held(d) \subseteq DOMAIN outbox
    BY DEF LockDiscipline, Due
  <2>2. /\ DOMAIN outbox' = DOMAIN outbox
        /\ \A r \in Held(d) : outbox'[r] = view[d][r]
        /\ \A r \in DOMAIN outbox \ Held(d) : outbox'[r] = outbox[r]
    BY <1>6, <2>1, CommitWritesView
  <2>3. \A e \in Dispatchers \ {d} : \A r \in Held(e) : outbox'[r] = outbox[r]
    BY <2>2 DEF LockDiscipline, Due
  <2>4. ViewsOneAttemptAhead'
    BY <1>6, <2>3, EndBatchReleases DEF ViewsOneAttemptAhead, Held
  <2>5. ASSUME NEW r \in Held(d)
        PROVE  /\ view[d][r].status \in {"SCHEDULED", "DISPATCHED"}
                     => view[d][r].retry_count < MaxRetries
               /\ view[d][r].status = "FAILED" => view[d][r].retry_count = MaxRetries
    <3>1. OneAttempt(outbox[r], view[d][r])
      BY DEF ViewsOneAttemptAhead
    <3>2. outbox[r].status = "SCHEDULED" /\ outbox[r].retry_count < MaxRetries
      BY <2>1 DEF LockDiscipline, Due, RetryBudget
    <3>3. QED
      BY <3>1, <3>2 DEF OneAttempt
  <2>6. RetryBudget'
    BY <2>2, <2>5 DEF RetryBudget
  <2>7. QED
    BY <2>4, <2>6
<1>7. CASE Tick
  BY <1>2, <1>7 DEF Tick
<1>8. ASSUME NEW d \in Dispatchers, Work(d) PROVE ViewsOneAttemptAhead' /\ RetryBudget'
  BY <1>2, <1>3, <1>4, <1>6, <1>8
     DEF Work, PollNothing, GetExchange, Publish, PublishRefused, PublishOnClosed, CommitBatch
<1>9. ASSUME NEW d \in Dispatchers, Fault(d) \/ Restart(d)
      PROVE  ViewsOneAttemptAhead' /\ RetryBudget'
  BY <1>2, <1>5, <1>6, <1>9
     DEF Fault, ConfirmLost, CommitUnknown, BatchFails, ChannelCloses, ChannelReopens,
         Stop, Restart
<1>10. QED
  BY <1>1, <1>2, <1>7, <1>8, <1>9 DEF Next, Dispatch

(* Whatever pods crash or compete, a row that can still be tried has       *)
(* attempts left and a FAILED row has used all max_retries of them.        *)
THEOREM RetriesAreBounded == Spec => []RetryBudget
<1>1. RetryInv => RetryBudget
  BY DEF RetryInv
<1>2. QED
  BY InitRetryInv, NextRetryInv, <1>1, PTL DEF Spec

-----------------------------------------------------------------------------
(* Copies at the broker.                                                   *)

CopiesInv == LockInv /\ CopiesAccounted /\ DispatchedWasPublished

(* A row the loop may take is due and has no recorded delivery. *)
LEMMA UnsettledNotRecorded ==
    ASSUME TypeOK, LockDiscipline, NEW d \in Dispatchers, NEW r \in todo[d],
           pc[d] = "loop"
    PROVE  r \in Due /\ ~Recorded(r)
<1>1. r \in Held(d) /\ r \in Due /\ view[d][r] = outbox[r]
  BY DEF LockDiscipline
<1>2. outbox[r].status = "SCHEDULED"
  BY <1>1 DEF Due
<1>3. ASSUME NEW e \in Dispatchers, Sent(e, r), pc[e] # "stopped" PROVE FALSE
  <2>1. CASE e = d
    BY <1>1, <1>2, <1>3, <2>1 DEF Sent
  <2>2. CASE e # d
    <3>1. r \notin Held(e)
      BY <1>1, <2>2 DEF LockDiscipline
    <3>2. QED
      BY <1>3, <3>1 DEF Sent, LockDiscipline
  <2>3. QED
    BY <2>1, <2>2
<1>4. QED
  BY <1>1, <1>2, <1>3 DEF Recorded

(* A step that sends nothing keeps the account if it forgets no record, or *)
(* if it is itself a loss.                                                 *)
LEMMA AccountKept ==
    ASSUME TypeOK, TypeOK', CopiesAccounted, UNCHANGED published,
           \A d \in Dispatchers, r \in Rows : Sent(d, r)' => Sent(d, r),
           \/ losses' = losses /\ \A r \in Rows : Recorded(r) => Recorded(r)'
           \/ losses' = losses + 1
    PROVE  CopiesAccounted'
<1> SUFFICES ASSUME NEW r \in Rows
             PROVE  /\ published'[r] <= 1 + losses'
                    /\ ~Recorded(r)' => published'[r] <= losses'
                    /\ \A d \in Dispatchers : Sent(d, r)' => published'[r] >= 1
  BY DEF CopiesAccounted
<1>1. /\ published'[r] = published[r]
      /\ published[r] \in Nat /\ losses \in Nat
      /\ published[r] <= 1 + losses
      /\ ~Recorded(r) => published[r] <= losses
      /\ \A d \in Dispatchers : Sent(d, r) => published[r] >= 1
  BY DEF CopiesAccounted, TypeOK
<1>2. \A d \in Dispatchers : Sent(d, r)' => published'[r] >= 1
  BY <1>1
<1>3. \/ losses' = losses /\ (Recorded(r) => Recorded(r)')
      \/ losses' = losses + 1
  OBVIOUS
<1> HIDE DEF Recorded
<1>4. QED
  BY <1>1, <1>2, <1>3

(* Nothing has been sent initially. *)
LEMMA InitCopiesInv == Init => CopiesInv
BY InitLockInv DEF Init, CopiesInv, CopiesAccounted, DispatchedWasPublished, Sent,
                   Held, NoRows

(* The message of row r is sent: r had no record, so its account has room. *)
LEMMA SendAccounted ==
    ASSUME LockInv, LockInv', CopiesAccounted, NEW d \in Dispatchers, NEW r \in Rows,
           NEW stage \in {"mark", "handle"}, TakeRow(d, r, stage),
           UNCHANGED <<outbox, now, view>>,
           published' = [published EXCEPT ![r] = @ + 1],
           losses' = IF stage = "mark" THEN losses ELSE losses + 1
    PROVE  CopiesAccounted'
<1>0. TypeOK /\ LockDiscipline /\ TypeOK'
  BY DEF LockInv
<1>1. pc[d] = "loop" /\ r \in todo[d]
  BY DEF TakeRow, NextRows
<1>2. r \in Due /\ ~Recorded(r)
  BY <1>0, <1>1, UnsettledNotRecorded
<1>3. /\ published[r] \in Nat /\ losses \in Nat /\ losses' \in Nat
      /\ published[r] <= losses
      /\ published'[r] = published[r] + 1
  BY <1>0, <1>2 DEF CopiesAccounted, TypeOK
<1>4. /\ pc'[d] = stage /\ cur'[d] = r
      /\ \A e \in Dispatchers \ {d} : pc'[e] = pc[e] /\ cur'[e] = cur[e]
  BY <1>0 DEF TakeRow, TypeOK
<1>5. CASE stage = "mark"
  <2>1. Recorded(r)'
    BY <1>4, <1>5 DEF Recorded, Sent
  <2>2. published'[r] <= 1 + losses' /\ published'[r] >= 1
    BY <1>3, <1>5
  <2>3. ASSUME NEW q \in Rows, q # r
        PROVE  /\ published'[q] <= 1 + losses'
               /\ ~Recorded(q)' => published'[q] <= losses'
               /\ \A e \in Dispatchers : Sent(e, q)' => published'[q] >= 1
    <3>1. published'[q] = published[q] /\ losses' = losses
      BY <1>0, <1>5, <2>3 DEF TypeOK
    <3>2. \A e \in Dispatchers : Sent(e, q)' <=> Sent(e, q)
      BY <1>1, <1>4, <1>5, <2>3 DEF Sent, Held
    <3>3. \A e \in Dispatchers : pc[e] # "stopped" <=> pc'[e] # "stopped"
      BY <1>1, <1>4, <1>5
    <3>4. Recorded(q)' <=> Recorded(q)
      BY <3>2, <3>3 DEF Recorded
    <3>5. QED
      BY <3>1, <3>2, <3>4 DEF CopiesAccounted
  <2>4. QED
    BY <2>1, <2>2, <2>3 DEF CopiesAccounted
<1>6. CASE stage = "handle"
  <2>1. losses' = losses + 1
    BY <1>6
  <2>2. \A e \in Dispatchers, q \in Rows : Sent(e, q)' => Sent(e, q)
    BY <1>1, <1>4, <1>6 DEF Sent, Held
  <2>3. \A q \in Rows : published'[q] <= losses' /\ published'[q] >= published[q]
    <3>1. ASSUME NEW q \in Rows, q # r
          PROVE  published'[q] <= losses' /\ published'[q] >= published[q]
      <4>1. published'[q] = published[q] /\ published[q] \in Nat /\ published[q] <= 1 + losses
        BY <1>0, <3>1 DEF TypeOK, CopiesAccounted
      <4>2. QED
        BY <1>3, <2>1, <4>1
    <3>2. QED
      BY <1>3, <2>1, <3>1
  <2>4. ASSUME NEW q \in Rows
        PROVE  /\ published'[q] <= 1 + losses'
               /\ \A e \in Dispatchers : Sent(e, q)' => published'[q] >= 1
    <3>1. published[q] \in Nat /\ published'[q] \in Nat /\ losses' \in Nat
      BY <1>0 DEF TypeOK
    <3>2. \A e \in Dispatchers : Sent(e, q) => published[q] >= 1
      BY DEF CopiesAccounted
    <3>3. QED
      BY <2>2, <2>3, <3>1, <3>2
  <2>5. QED
    BY <2>3, <2>4 DEF CopiesAccounted
<1>7. QED
  BY <1>5, <1>6

(* The commit of a batch turns the delivery records of its view into       *)
(* committed ones.                                                         *)
LEMMA CommitRecords ==
    ASSUME TypeOK, LockDiscipline, CopiesAccounted, DispatchedWasPublished,
           NEW d \in Dispatchers, pc[d] = "loop", EndBatch(d),
           outbox' = Overlay(view[d], outbox), UNCHANGED published
    PROVE  /\ \A e \in Dispatchers, r \in Rows : Sent(e, r)' => Sent(e, r)
           /\ \A r \in Rows : Recorded(r) => Recorded(r)'
           /\ DispatchedWasPublished'
<1>1. Held(d) \subseteq DOMAIN outbox
  BY DEF LockDiscipline, Due
<1>2. /\ DOMAIN outbox' = DOMAIN outbox
      /\ \A r \in Held(d) : outbox'[r] = view[d][r]
      /\ \A r \in DOMAIN outbox \ Held(d) : outbox'[r] = outbox[r]
  BY <1>1, CommitWritesView
<1>3. /\ DOMAIN view'[d] = {} /\ pc'[d] = "sleep"
      /\ \A e \in Dispatchers \ {d} : view'[e] = view[e] /\ cur'[e] = cur[e] /\ pc'[e] = pc[e]
  BY EndBatchReleases
<1>4. \A e \in Dispatchers, r \in Rows : Sent(e, r)' => Sent(e, r)
  BY <1>3 DEF Sent, Held
<1>5. ASSUME NEW r \in Rows, Recorded(r) PROVE Recorded(r)'
  <2>1. CASE r \in DOMAIN outbox /\ outbox[r].status = "DISPATCHED"
    <3>1. r \notin Held(d)
      BY <2>1 DEF LockDiscipline, Due
    <3>2. QED
      BY <1>2, <2>1, <3>1 DEF Recorded
  <2>2. ASSUME NEW e \in Dispatchers, pc[e] # "stopped", Sent(e, r) PROVE Recorded(r)'
    <3>1. CASE e = d
      BY <1>1, <1>2, <2>2, <3>1 DEF Recorded, Sent
    <3>2. CASE e # d
      BY <1>3, <2>2, <3>2 DEF Recorded, Sent, Held
    <3>3. QED
      BY <3>1, <3>2
  <2>3. QED
    BY <1>5, <2>1, <2>2 DEF Recorded
<1>6. ASSUME NEW r \in DOMAIN outbox', outbox'[r].status = "DISPATCHED"
      PROVE  published'[r] >= 1
  <2>1. r \in Rows /\ r \in DOMAIN outbox
    BY <1>2 DEF TypeOK
  <2>2. CASE r \in Held(d)
    BY <1>2, <1>6, <2>1, <2>2 DEF CopiesAccounted, Sent
  <2>3. CASE r \notin Held(d)
    BY <1>2, <1>6, <2>1, <2>3 DEF DispatchedWasPublished
  <2>4. QED
    BY <2>2, <2>3
<1>7. QED
  BY <1>4, <1>5, <1>6 DEF DispatchedWasPublished

(* Every step keeps CopiesInv: one case per action. *)
LEMMA NextCopiesInv == CopiesInv /\ [Next]_vars => CopiesInv'
<1> SUFFICES ASSUME CopiesInv, [Next]_vars PROVE CopiesAccounted' /\ DispatchedWasPublished'
  BY NextLockInv DEF CopiesInv
<1>0. /\ LockInv /\ LockInv' /\ TypeOK /\ TypeOK' /\ LockDiscipline /\ VersionsConstant
      /\ CopiesAccounted /\ DispatchedWasPublished
  BY NextLockInv DEF CopiesInv, LockInv
<1> DEFINE Goal == CopiesAccounted' /\ DispatchedWasPublished'
<1> USE <1>0 DEF dispatchVars, vars
(* Steps that keep the committed table: only the account is at stake. *)
<1>1. ASSUME UNCHANGED outbox, \A r \in Rows : published'[r] >= published[r]
      PROVE  DispatchedWasPublished'
  <2>1. ASSUME NEW r \in DOMAIN outbox, outbox[r].status = "DISPATCHED"
        PROVE  published'[r] >= 1
    <3>1. r \in Rows /\ published[r] \in Nat /\ published'[r] \in Nat
      BY DEF TypeOK
    <3>2. published[r] >= 1
      BY <2>1 DEF DispatchedWasPublished
    <3>3. QED
      BY <1>1, <3>1, <3>2
  <2>2. QED
    BY <1>1, <2>1 DEF DispatchedWasPublished
<1>2. ASSUME UNCHANGED <<outbox, published>> PROVE DispatchedWasPublished'
  BY <1>2 DEF DispatchedWasPublished
<1>3. ASSUME NEW r \in Rows, NEW k \in Keys, Schedule(r, k) PROVE Goal
  <2>1. UNCHANGED <<view, cur, pc, published, losses>>
    BY <1>3 DEF Schedule
  <2>2. /\ r \notin DOMAIN outbox
        /\ DOMAIN outbox' = DOMAIN outbox \cup {r}
        /\ \A q \in DOMAIN outbox : outbox'[q] = outbox[q]
        /\ outbox'[r].status = "SCHEDULED"
    BY <1>3, ScheduleKeepsRows
  <2>3. \A d \in Dispatchers, q \in Rows : Sent(d, q)' <=> Sent(d, q)
    BY <2>1 DEF Sent, Held
  <2>4. \A q \in Rows : Recorded(q) => Recorded(q)'
    BY <2>1, <2>2, <2>3 DEF Recorded
  <2>5. CopiesAccounted'
    BY <2>1, <2>3, <2>4, AccountKept
  <2>6. DispatchedWasPublished'
    BY <2>1, <2>2 DEF DispatchedWasPublished
  <2>7. QED
    BY <2>5, <2>6
<1>4. ASSUME NEW d \in Dispatchers, Fetch(d) PROVE Goal
  <2>1. PICK S \in SelectDue : view' = [view EXCEPT ![d] = [r \in S |-> outbox[r]]]
    BY <1>4 DEF Fetch
  <2>2. /\ DOMAIN view'[d] = S
        /\ \A r \in S : view'[d][r] = outbox[r] /\ outbox[r].status = "SCHEDULED"
        /\ \A e \in Dispatchers \ {d} : view'[e] = view[e]
    BY <2>1 DEF TypeOK, SelectDue, Due
  <2>3. /\ UNCHANGED <<outbox, cur, published, losses>>
        /\ pc[d] = "sleep" /\ pc'[d] = "fetched"
        /\ \A e \in Dispatchers \ {d} : pc'[e] = pc[e]
    BY <1>4 DEF Fetch, TypeOK
  <2>4. Held(d) = {}
    BY <2>3 DEF LockDiscipline
  <2>5. \A e \in Dispatchers, r \in Rows : Sent(e, r)' <=> Sent(e, r)
    BY <2>2, <2>3, <2>4 DEF Sent, Held
  <2>6. \A r \in Rows : Recorded(r) => Recorded(r)'
    BY <2>3, <2>5 DEF Recorded
  <2>7. QED
    BY <1>2, <2>3, <2>5, <2>6, AccountKept
(* Steps that move d without touching rows or cur. *)
<1>5. ASSUME NEW d \in Dispatchers, NEW s, pc' = [pc EXCEPT ![d] = s],
             pc[d] \in {"fetched", "loop"}, s \in {"loop", "handle"},
             UNCHANGED <<outbox, view, published, losses>>,
             \A e \in Dispatchers \ {d} : cur'[e] = cur[e]
      PROVE  Goal
  <2>1. pc'[d] = s /\ \A e \in Dispatchers \ {d} : pc'[e] = pc[e]
    BY <1>5 DEF TypeOK
  <2>2. \A e \in Dispatchers, r \in Rows : Sent(e, r)' <=> Sent(e, r)
    BY <1>5, <2>1 DEF Sent, Held
  <2>3. \A r \in Rows : Recorded(r) => Recorded(r)'
    BY <1>5, <2>1, <2>2 DEF Recorded
  <2>4. QED
    BY <1>2, <1>5, <2>2, <2>3, AccountKept
<1>6. ASSUME NEW d \in Dispatchers, NEW row, SettleRow(d, row),
             row.status = "DISPATCHED" <=> pc[d] = "mark"
      PROVE  Goal
  <2>1. cur[d] \in Held(d) /\ pc[d] \in {"mark", "handle"} /\ outbox[cur[d]].status = "SCHEDULED"
        /\ view[d][cur[d]] = outbox[cur[d]]
    BY <1>6 DEF LockDiscipline, SettleRow, Due
  <2>2. /\ \A e \in Dispatchers : DOMAIN view'[e] = DOMAIN view[e]
        /\ \A e \in Dispatchers \ {d} : view'[e] = view[e]
        /\ \A r \in Held(d) \ {cur[d]} : view'[d][r] = view[d][r]
        /\ view'[d][cur[d]] = row
    BY <1>6, <2>1, WriteViewFields DEF SettleRow
  <2>3. /\ UNCHANGED <<outbox, published, losses>>
        /\ pc'[d] = "loop"
        /\ \A e \in Dispatchers \ {d} : pc'[e] = pc[e] /\ cur'[e] = cur[e]
    BY <1>6 DEF SettleRow, TypeOK
  <2>4. \A r \in Rows : Sent(d, r)' <=> Sent(d, r)
    BY <1>6, <2>1, <2>2, <2>3 DEF Sent, Held
  <2>5. \A e \in Dispatchers, r \in Rows : Sent(e, r)' <=> Sent(e, r)
    BY <2>2, <2>3, <2>4 DEF Sent, Held
  <2>6. \A r \in Rows : Recorded(r) => Recorded(r)'
    BY <2>1, <2>3, <2>5 DEF Recorded
  <2>7. QED
    BY <1>2, <2>3, <2>5, <2>6, AccountKept
<1>7. ASSUME NEW d \in Dispatchers, EndBatch(d), UNCHANGED <<outbox, published>>,
             losses' = losses + 1 \/ (losses' = losses /\ pc[d] = "stopped")
      PROVE  Goal
  <2>1. /\ DOMAIN view'[d] = {} /\ pc'[d] = "sleep"
        /\ \A e \in Dispatchers \ {d} : view'[e] = view[e] /\ cur'[e] = cur[e] /\ pc'[e] = pc[e]
    BY <1>7, EndBatchReleases
  <2>2. \A e \in Dispatchers, r \in Rows : Sent(e, r)' => Sent(e, r)
    BY <2>1 DEF Sent, Held
  <2>3. ASSUME pc[d] = "stopped", NEW r \in Rows, Recorded(r) PROVE Recorded(r)'
    BY <1>7, <2>1, <2>3 DEF Recorded, Sent, Held
  <2>4. QED
    BY <1>2, <1>7, <2>2, <2>3, AccountKept
<1>8. ASSUME NEW d \in Dispatchers, Stop(d) PROVE Goal
  <2>1. \A e \in Dispatchers, r \in Rows : Sent(e, r)' => Sent(e, r)
    BY <1>8 DEF Stop, Sent, Held, TypeOK
  <2>2. QED
    BY <1>2, <1>8, <2>1, AccountKept DEF Stop
<1>9. ASSUME UNCHANGED <<outbox, view, pc, cur, published, losses>> PROVE Goal
  <2>1. \A e \in Dispatchers, r \in Rows : Sent(e, r)' <=> Sent(e, r)
    BY <1>9 DEF Sent, Held
  <2>2. \A r \in Rows : Recorded(r) => Recorded(r)'
    BY <1>9, <2>1 DEF Recorded
  <2>3. QED
    BY <1>2, <1>9, <2>1, <2>2, AccountKept
<1>10. ASSUME NEW d \in Dispatchers, NEW r \in Rows, Publish(d, r) PROVE Goal
  <2>1. CopiesAccounted'
    BY <1>10, SendAccounted DEF Publish
  <2>2. \A q \in Rows : published'[q] >= published[q]
    BY <1>10 DEF Publish, TypeOK
  <2>3. QED
    BY <1>1, <1>10, <2>1, <2>2 DEF Publish
<1>11. ASSUME NEW d \in Dispatchers, NEW r \in Rows, ConfirmLost(d, r) PROVE Goal
  <2>1. CopiesAccounted'
    BY <1>11, SendAccounted DEF ConfirmLost
  <2>2. \A q \in Rows : published'[q] >= published[q]
    BY <1>11 DEF ConfirmLost, TypeOK
  <2>3. QED
    BY <1>1, <1>11, <2>1, <2>2 DEF ConfirmLost
<1>12. ASSUME NEW d \in Dispatchers, NEW r \in Rows,
              PublishRefused(d, r) \/ PublishOnClosed(d, r)
       PROVE  Goal
  <2>1. /\ pc' = [pc EXCEPT ![d] = "handle"] /\ pc[d] = "loop"
        /\ UNCHANGED <<outbox, view, published, losses>>
        /\ \A e \in Dispatchers \ {d} : cur'[e] = cur[e]
    BY <1>12 DEF PublishRefused, PublishOnClosed, TakeRow, TypeOK
  <2>2. QED
    BY <1>5, <2>1
<1>13. ASSUME NEW d \in Dispatchers, GetExchange(d) PROVE Goal
  <2>1. /\ pc' = [pc EXCEPT ![d] = "loop"] /\ pc[d] = "fetched"
        /\ UNCHANGED <<outbox, view, published, losses>>
        /\ \A e \in Dispatchers \ {d} : cur'[e] = cur[e]
    BY <1>13 DEF GetExchange
  <2>2. QED
    BY <1>5, <2>1
<1>14. ASSUME NEW d \in Dispatchers, MarkDispatched(d) PROVE Goal
  BY <1>6, <1>14, MarkSettles
<1>15. ASSUME NEW d \in Dispatchers, HandleFailure(d) PROVE Goal
  <2>1. PICK row \in AfterFailure(view[d][cur[d]]) :
           SettleRow(d, row) /\ pc[d] = "handle" /\ view[d][cur[d]] \in Row
    BY <1>15, HandleSettles
  <2>2. view[d][cur[d]].status = "SCHEDULED"
    BY <2>1 DEF LockDiscipline, Due
  <2>3. row.status # "DISPATCHED"
    BY <2>1, <2>2, AfterFailureFields
  <2>4. QED
    BY <1>6, <2>1, <2>3
<1>16. ASSUME NEW d \in Dispatchers, CommitBatch(d) PROVE Goal
  <2>1. /\ EndBatch(d) /\ pc[d] = "loop" /\ outbox' = Overlay(view[d], outbox)
        /\ UNCHANGED published /\ losses' = losses
    BY <1>16 DEF CommitBatch, BatchDone
  <2>2. QED
    BY <2>1, CommitRecords, AccountKept
<1>17. ASSUME NEW d \in Dispatchers, CommitUnknown(d) PROVE Goal
  <2>1. /\ EndBatch(d) /\ pc[d] = "loop" /\ outbox' = Overlay(view[d], outbox)
        /\ UNCHANGED published /\ losses' = losses + 1
    BY <1>17 DEF CommitUnknown, BatchDone
  <2>2. QED
    BY <2>1, CommitRecords, AccountKept
<1>18. ASSUME NEW d \in Dispatchers, BatchFails(d) \/ Restart(d) PROVE Goal
  <2>1. /\ EndBatch(d) /\ UNCHANGED <<outbox, published>>
        /\ losses' = losses + 1 \/ (losses' = losses /\ pc[d] = "stopped")
    BY <1>18 DEF BatchFails, Restart
  <2>2. QED
    BY <1>7, <2>1
<1>19. ASSUME NEW d \in Dispatchers, ChannelCloses(d) \/ ChannelReopens(d) PROVE Goal
  BY <1>9, <1>19 DEF ChannelCloses, ChannelReopens
<1>20. ASSUME Tick \/ UNCHANGED vars PROVE Goal
  <2>1. UNCHANGED <<outbox, view, pc, cur, published, losses>>
    BY <1>20 DEF Tick
  <2>2. QED
    BY <1>9, <2>1
<1> HIDE DEF Goal
<1>21. ASSUME NEW d \in Dispatchers, Work(d) PROVE Goal
  BY <1>4, <1>10, <1>12, <1>13, <1>14, <1>15, <1>16, <1>20, <1>21 DEF Work, PollNothing
<1>22. ASSUME NEW d \in Dispatchers, Fault(d) \/ Restart(d) PROVE Goal
  BY <1>8, <1>11, <1>17, <1>18, <1>19, <1>22 DEF Fault
<1>23. Goal
  BY <1>3, <1>20, <1>21, <1>22 DEF Next, Dispatch
<1>24. QED
  BY <1>23 DEF Goal

(* A row committed as DISPATCHED has reached the broker. *)
THEOREM DispatchIsTruthful == Spec => []DispatchedWasPublished
<1>1. CopiesInv => DispatchedWasPublished
  BY DEF CopiesInv
<1>2. QED
  BY InitCopiesInv, NextCopiesInv, <1>1, PTL DEF Spec

(* A row reaches the broker more than once only through lost outcomes: at  *)
(* most one extra copy each, for any number of pods and rows.              *)
THEOREM DuplicatesAreAccounted == Spec => []DuplicatesOnlyFromLosses
<1>1. CopiesInv => DuplicatesOnlyFromLosses
  BY DEF CopiesInv, CopiesAccounted, DuplicatesOnlyFromLosses
<1>2. QED
  BY InitCopiesInv, NextCopiesInv, <1>1, PTL DEF Spec

(* A message is sent only for a row that is due. *)
OnlyDueSent == \A r \in Rows : published'[r] # published[r] => r \in Due

(* A row that is scheduled again is one attempt further and a backoff later. *)
BacksOff(r) ==
    LET old == outbox[r]
        new == outbox'[r]
    IN  new.status = "SCHEDULED" /\ new # old =>
           /\ new.retry_count = old.retry_count + 1
           /\ new.dispatch_at + Skew
                 >= old.dispatch_at + Backoff(old.retry_count)

(* The loop publishes a row it has locked and not settled. *)
LEMMA NextSendsDue == ASSUME LockInv, [Next]_vars PROVE [OnlyDueSent]_vars
<1> SUFFICES ASSUME NEW r \in Rows, published'[r] # published[r]
             PROVE  r \in Due
  BY DEF OnlyDueSent
<1> USE DEF vars, dispatchVars, LockInv
<1>1. PICK d \in Dispatchers, q \in Rows : Publish(d, q) \/ ConfirmLost(d, q)
  BY DEF Next, Dispatch, Work, Fault, Schedule, Tick, PollNothing, Fetch,
     GetExchange, PublishRefused, PublishOnClosed, MarkDispatched, HandleFailure,
     CommitBatch, CommitUnknown, BatchFails, ChannelCloses, ChannelReopens, Stop, Restart
<1>2. q = r /\ q \in todo[d] /\ pc[d] = "loop"
  BY <1>1 DEF Publish, ConfirmLost, TakeRow, NextRows, TypeOK
<1>3. QED
  BY <1>2, UnsettledNotRecorded

(* Only the commit of a batch changes a committed row. *)
LEMMA NextBacksOff ==
    ASSUME RetryInv, [Next]_vars
    PROVE  [\A r \in DOMAIN outbox : BacksOff(r)]_vars
<1> SUFFICES ASSUME NEW r \in DOMAIN outbox, outbox'[r] # outbox[r]
             PROVE  BacksOff(r)
  BY DEF BacksOff
<1>0. TypeOK /\ LockDiscipline /\ VersionsConstant /\ ViewsOneAttemptAhead
  BY DEF RetryInv, LockInv
<1> USE DEF vars, dispatchVars
<1>1. CASE \E q \in Rows, k \in Keys : Schedule(q, k)
  BY <1>0, <1>1, ScheduleKeepsRows
<1>2. CASE \E d \in Dispatchers : outbox' = Overlay(view[d], outbox)
  <2>1. PICK d \in Dispatchers : outbox' = Overlay(view[d], outbox)
    BY <1>2
  <2>2. Held(d) \subseteq DOMAIN outbox
    BY <1>0 DEF LockDiscipline, Due
  <2>3. r \in Held(d) /\ outbox'[r] = view[d][r]
    BY <2>1, <2>2, CommitWritesView
  <2>4. OneAttempt(outbox[r], outbox'[r]) /\ outbox[r].status = "SCHEDULED"
    BY <1>0, <2>3 DEF ViewsOneAttemptAhead, LockDiscipline, Due
  <2>5. QED
    BY <2>4 DEF OneAttempt, BacksOff
<1>3. \/ \E q \in Rows, k \in Keys : Schedule(q, k)
      \/ \E d \in Dispatchers : outbox' = Overlay(view[d], outbox)
  BY DEF Next, Dispatch, Work, Fault, Tick, PollNothing, Fetch, GetExchange,
     Publish, PublishRefused, PublishOnClosed, ConfirmLost, MarkDispatched,
     HandleFailure, CommitBatch, CommitUnknown, BatchFails, ChannelCloses,
     ChannelReopens, Stop, Restart
<1>4. QED
  BY <1>1, <1>2, <1>3

(* A message leaves for the broker only while its row is committed as      *)
(* SCHEDULED and due.                                                      *)
THEOREM PublishesOnlyDueRows == Spec => PublishOnlyWhenDue
<1>1. LockInv /\ [Next]_vars => [OnlyDueSent]_vars
  BY NextSendsDue
<1>2. QED
  BY InitLockInv, NextLockInv, <1>1, PTL DEF Spec, PublishOnlyWhenDue, OnlyDueSent

(* Every committed retry is one attempt further and at least a backoff     *)
(* later than the row it replaces, up to the clock skew of the pod.        *)
THEOREM RetriesBackOff == Spec => BackoffRespected
<1>1. RetryInv /\ [Next]_vars => [\A r \in DOMAIN outbox : BacksOff(r)]_vars
  BY NextBacksOff
<1>2. QED
  BY InitRetryInv, NextRetryInv, <1>1, PTL DEF Spec, BackoffRespected, BacksOff

-----------------------------------------------------------------------------
(* Keys.                                                                   *)

(* A locked row has the key of the committed row. *)
ViewsKeepKeys ==
    \A d \in Dispatchers : \A r \in Held(d) :
        view[d][r].pr_hash_key = outbox[r].pr_hash_key

(* No committed row disappears or gets another key. *)
RowsKeepKeys ==
    \A r \in DOMAIN outbox :
        r \in DOMAIN outbox' /\ outbox'[r].pr_hash_key = outbox[r].pr_hash_key

KeyInv == LockInv /\ ViewsKeepKeys

(* No row is locked initially. *)
LEMMA InitKeyInv == Init => KeyInv
BY InitLockInv DEF Init, KeyInv, ViewsKeepKeys, Held, NoRows

(* Every step keeps KeyInv and the keys of the rows: one case per action.  *)
LEMMA NextKeyInv == KeyInv /\ [Next]_vars => KeyInv' /\ RowsKeepKeys
<1> SUFFICES ASSUME KeyInv, [Next]_vars PROVE ViewsKeepKeys' /\ RowsKeepKeys
  BY NextLockInv DEF KeyInv
<1>0. /\ TypeOK /\ LockDiscipline /\ VersionsConstant /\ ViewsKeepKeys
      /\ \A d \in Dispatchers : Held(d) \subseteq DOMAIN outbox
  BY DEF KeyInv, LockInv, LockDiscipline, Due
<1> USE <1>0 DEF dispatchVars, vars
<1> DEFINE Goal == ViewsKeepKeys' /\ RowsKeepKeys
<1>1. CASE UNCHANGED <<outbox, view>>
  BY <1>1 DEF ViewsKeepKeys, RowsKeepKeys, Held
<1>2. ASSUME NEW r \in Rows, NEW k \in Keys, Schedule(r, k) PROVE Goal
  <2>1. view' = view
    BY <1>2 DEF Schedule
  <2>2. /\ DOMAIN outbox' = DOMAIN outbox \cup {r}
        /\ \A q \in DOMAIN outbox : outbox'[q] = outbox[q]
    BY <1>2, ScheduleKeepsRows
  <2>3. QED
    BY <2>1, <2>2 DEF ViewsKeepKeys, RowsKeepKeys, Held
<1>3. ASSUME NEW d \in Dispatchers, Fetch(d) PROVE Goal
  <2>1. PICK S \in SelectDue : view' = [view EXCEPT ![d] = [r \in S |-> outbox[r]]]
    BY <1>3 DEF Fetch
  <2>2. /\ DOMAIN view'[d] = S
        /\ \A r \in S : view'[d][r] = outbox[r]
        /\ \A e \in Dispatchers \ {d} : view'[e] = view[e]
    BY <2>1 DEF TypeOK
  <2>3. outbox' = outbox
    BY <1>3 DEF Fetch
  <2>4. QED
    BY <2>2, <2>3 DEF ViewsKeepKeys, RowsKeepKeys, Held
<1>4. ASSUME NEW d \in Dispatchers, NEW row, SettleRow(d, row),
             row.pr_hash_key = view[d][cur[d]].pr_hash_key
      PROVE  Goal
  <2>1. cur[d] \in Held(d)
    BY <1>4 DEF LockDiscipline, SettleRow
  <2>2. /\ \A e \in Dispatchers : DOMAIN view'[e] = DOMAIN view[e]
        /\ \A e \in Dispatchers \ {d} : view'[e] = view[e]
        /\ \A r \in Held(d) \ {cur[d]} : view'[d][r] = view[d][r]
        /\ view'[d][cur[d]] = row
    BY <1>4, <2>1, WriteViewFields DEF SettleRow
  <2>3. outbox' = outbox
    BY <1>4 DEF SettleRow
  <2>4. QED
    BY <1>4, <2>1, <2>2, <2>3 DEF ViewsKeepKeys, RowsKeepKeys, Held
<1>5. ASSUME NEW d \in Dispatchers, EndBatch(d), UNCHANGED outbox PROVE Goal
  BY <1>5, EndBatchReleases DEF ViewsKeepKeys, RowsKeepKeys, Held
<1>6. ASSUME NEW d \in Dispatchers, EndBatch(d), outbox' = Overlay(view[d], outbox)
      PROVE  Goal
  <2>1. /\ DOMAIN outbox' = DOMAIN outbox
        /\ \A r \in Held(d) : outbox'[r] = view[d][r]
        /\ \A r \in DOMAIN outbox \ Held(d) : outbox'[r] = outbox[r]
    BY <1>6, CommitWritesView
  <2>2. RowsKeepKeys
    BY <2>1 DEF RowsKeepKeys, ViewsKeepKeys
  <2>3. ViewsKeepKeys'
    BY <1>6, <2>2, EndBatchReleases DEF RowsKeepKeys, ViewsKeepKeys, Held
  <2>4. QED
    BY <2>2, <2>3
<1>7. ASSUME NEW d \in Dispatchers, MarkDispatched(d) PROVE Goal
  BY <1>4, <1>7, MarkSettles
<1>8. ASSUME NEW d \in Dispatchers, HandleFailure(d) PROVE Goal
  BY <1>4, <1>8, HandleSettles, AfterFailureFields
<1>9. ASSUME NEW d \in Dispatchers, Work(d) PROVE Goal
  BY <1>1, <1>3, <1>6, <1>7, <1>8, <1>9
     DEF Work, PollNothing, GetExchange, Publish, PublishRefused, PublishOnClosed,
         CommitBatch
<1>10. ASSUME NEW d \in Dispatchers, Fault(d) \/ Restart(d) PROVE Goal
  BY <1>1, <1>5, <1>6, <1>10
     DEF Fault, ConfirmLost, CommitUnknown, BatchFails, ChannelCloses, ChannelReopens,
         Stop, Restart
<1>11. CASE Tick
  BY <1>1, <1>11 DEF Tick
<1>12. QED
  BY <1>1, <1>2, <1>9, <1>10, <1>11 DEF Next, Dispatch

(* An outbox row is never deleted and stays the row of its event: no       *)
(* commit of a batch, however old its view, writes another key.            *)
THEOREM KeysArePermanent == Spec => [][RowsKeepKeys]_vars
BY InitKeyInv, NextKeyInv, PTL DEF Spec
=============================================================================
