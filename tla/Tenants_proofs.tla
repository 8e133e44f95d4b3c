--------------------------- MODULE Tenants_proofs ---------------------------
(* Staleness of the tenant cache, for any requests, tenants and times. *)
EXTENDS Tenants, TLAPS

USE TenantsAssumption

(* The types hold initially. *)
LEMMA InitTypeOK == Init => TypeOK
BY DEF Init, TypeOK, Stages, Results, Never

(* The end of a request leaves well-typed variables. *)
LEMMA AnswerType ==
    ASSUME TypeOK, NEW r \in Requests, NEW outcome \in Results, Answer(r, outcome)
    PROVE  /\ stage' \in [Requests -> Stages]
           /\ result' \in [Requests -> Results]
           /\ row' \in [Requests -> Config \cup {None}]
           /\ since' \in [Requests -> Int]
           /\ arrived' \in [Requests -> Int]
BY DEF TypeOK, Answer, Stages

(* So does going on with a configuration. *)
LEMMA UseType ==
    ASSUME TypeOK, NEW r \in Requests, NEW c \in Config, NEW next \in Stages,
           Use(r, c, next)
    PROVE  /\ stage' \in [Requests -> Stages]
           /\ result' \in [Requests -> Results]
           /\ row' \in [Requests -> Config \cup {None}]
           /\ since' \in [Requests -> Int]
           /\ arrived' \in [Requests -> Int]
BY DEF TypeOK, Use, Continue

(* Every step keeps the types: one case per action.  A request that reads  *)
(* a configuration knows its tenant.                                       *)
LEMMA NextTypeOK ==
    ASSUME TypeOK, RecentInv, [Next]_vars
    PROVE  TypeOK'
<1> USE DEF tableVars, cacheVars, requestVars, vars
<1>1. ASSUME NEW r \in Requests, NEW t \in TenantIds, Arrive(r, t) PROVE TypeOK'
  <2>1. job' \in [Requests -> TenantIds \cup {None}]
    BY <1>1 DEF Arrive, TypeOK
  <2>2. arrived' \in [Requests -> Int]
    BY <1>1 DEF Arrive, TypeOK
  <2>3. stage' \in [Requests -> Stages]
    BY <1>1 DEF Arrive, TypeOK, Stages
  <2>4. QED
    BY <1>1, <2>1, <2>2, <2>3 DEF Arrive, TypeOK
<1>2. ASSUME NEW r \in Requests, CacheHit(r) PROVE TypeOK'
  <2>1. job[r] \in TenantIds /\ cached[job[r]] \in Config
    BY <1>2 DEF CacheHit, RecentInv, RequestRecent, TypeOK
  <2>2. "verify" \in Stages /\ "inactive" \in Results
    BY DEF Stages, Results
  <2>3. CASE Use(r, cached[job[r]], "verify")
    <3>1. /\ stage' \in [Requests -> Stages]
          /\ result' \in [Requests -> Results]
          /\ row' \in [Requests -> Config \cup {None}]
          /\ since' \in [Requests -> Int]
          /\ arrived' \in [Requests -> Int]
      BY <2>1, <2>2, <2>3, UseType
    <3>2. QED
      BY <1>2, <3>1 DEF CacheHit, TypeOK
  <2>4. CASE Answer(r, "inactive")
    <3>1. /\ stage' \in [Requests -> Stages]
          /\ result' \in [Requests -> Results]
          /\ row' \in [Requests -> Config \cup {None}]
          /\ since' \in [Requests -> Int]
          /\ arrived' \in [Requests -> Int]
      BY <2>2, <2>4, AnswerType
    <3>2. QED
      BY <1>2, <3>1 DEF CacheHit, TypeOK
  <2>5. QED
    BY <1>2, <2>3, <2>4 DEF CacheHit
<1>3. ASSUME NEW r \in Requests, CacheMiss(r) PROVE TypeOK'
  BY <1>3 DEF CacheMiss, Continue, TypeOK, Stages
<1>4. ASSUME NEW r \in Requests, Select(r) PROVE TypeOK'
  <2>1. job[r] \in TenantIds /\ tenant[job[r]] \in Config \cup {None}
    BY <1>4 DEF Select, RecentInv, RequestRecent, TypeOK
  <2>2. "fill" \in Stages /\ "inactive" \in Results /\ "not_found" \in Results
    BY DEF Stages, Results
  <2>3. CASE tenant[job[r]] \in Config /\ Use(r, tenant[job[r]], "fill")
    <3>1. /\ stage' \in [Requests -> Stages]
          /\ result' \in [Requests -> Results]
          /\ row' \in [Requests -> Config \cup {None}]
          /\ since' \in [Requests -> Int]
          /\ arrived' \in [Requests -> Int]
      BY <2>2, <2>3, UseType
    <3>2. QED
      BY <1>4, <3>1 DEF Select, TypeOK
  <2>4. ASSUME NEW outcome \in Results, Answer(r, outcome) PROVE TypeOK'
    <3>1. /\ stage' \in [Requests -> Stages]
          /\ result' \in [Requests -> Results]
          /\ row' \in [Requests -> Config \cup {None}]
          /\ since' \in [Requests -> Int]
          /\ arrived' \in [Requests -> Int]
      BY <2>4, AnswerType
    <3>2. QED
      BY <1>4, <3>1 DEF Select, TypeOK
  <2>5. QED
    BY <1>4, <2>1, <2>2, <2>3, <2>4 DEF Select
<1>5. ASSUME NEW r \in Requests, Fill(r) PROVE TypeOK'
  <2>1. job[r] \in TenantIds /\ row[r] \in Config
    BY <1>5 DEF Fill, RecentInv, RequestRecent, CarriesRecent
  <2>2. cached' \in [TenantIds -> Config \cup {None}]
    BY <1>5, <2>1 DEF Fill, TypeOK
  <2>3. expires' \in [TenantIds -> Int]
    BY <1>5, <2>1 DEF Fill, TypeOK
  <2>4. stage' \in [Requests -> Stages]
    BY <1>5 DEF Fill, Continue, TypeOK, Stages
  <2>5. QED
    BY <1>5, <2>2, <2>3, <2>4 DEF Fill, Continue, TypeOK
<1>6. ASSUME NEW r \in Requests, Verify(r) PROVE TypeOK'
  <2>1. "checked" \in Results
    BY DEF Results
  <2>2. /\ stage' \in [Requests -> Stages]
        /\ result' \in [Requests -> Results]
        /\ row' \in [Requests -> Config \cup {None}]
        /\ since' \in [Requests -> Int]
        /\ arrived' \in [Requests -> Int]
    BY <1>6, <2>1, AnswerType DEF Verify
  <2>3. QED
    BY <1>6, <2>2 DEF Verify, TypeOK
<1>7. ASSUME NEW t \in TenantIds, NEW c \in Config \cup {None}, Change(t, c) PROVE TypeOK'
  <2>1. tenant' \in [TenantIds -> Config \cup {None}]
    BY <1>7 DEF Change, TypeOK
  <2>2. [until[t] EXCEPT ![tenant[t]] = now] \in [Config \cup {None} -> Int]
    BY DEF TypeOK
  <2>3. until' \in [TenantIds -> [Config \cup {None} -> Int]]
    BY <1>7, <2>2 DEF Change, TypeOK
  <2>4. changes' \in Nat
    BY <1>7 DEF Change, TypeOK
  <2>5. QED
    BY <1>7, <2>1, <2>3, <2>4 DEF Change, TypeOK
<1>8. ASSUME NEW t \in TenantIds, Evict(t) PROVE TypeOK'
  <2>1. cached' \in [TenantIds -> Config \cup {None}]
    BY <1>8 DEF Evict, TypeOK
  <2>2. QED
    BY <1>8, <2>1 DEF Evict, TypeOK
<1>9. CASE Tick
  <2>1. now' \in Nat
    BY <1>9 DEF Tick, TypeOK
  <2>2. UNCHANGED <<tenant, changes, until, cached, expires, stage, job, row, since,
                    result, arrived>>
    BY <1>9 DEF Tick
  <2>3. QED
    BY <2>1, <2>2 DEF TypeOK
<1>10. CASE UNCHANGED vars
  BY <1>10 DEF TypeOK
<1>11. QED
  BY <1>1, <1>2, <1>3, <1>4, <1>5, <1>6, <1>7, <1>8, <1>9, <1>10 DEF Next, Idle

-----------------------------------------------------------------------------
(* What a step may do to the history of the table: a configuration that    *)
(* was current at some moment since `time' still was.                      *)
TableStep ==
    \A u \in TenantIds, d \in Config \cup {None}, time \in Int :
       time <= now /\ (d = tenant[u] \/ until[u][d] >= time) =>
           (d = tenant'[u] \/ until'[u][d] >= time)

(* Every step is such: a change notes when the old row ceased to be.       *)
LEMMA EveryTableStep ==
    ASSUME TypeOK, [Next]_vars
    PROVE  TableStep
<1>1. CASE UNCHANGED tableVars
  BY <1>1 DEF TableStep, tableVars
<1>2. ASSUME NEW t \in TenantIds, NEW c \in Config \cup {None}, Change(t, c)
      PROVE  TableStep
  <2> SUFFICES ASSUME NEW u \in TenantIds, NEW d \in Config \cup {None}, NEW time \in Int,
                      time <= now, d = tenant[u] \/ until[u][d] >= time
               PROVE  d = tenant'[u] \/ until'[u][d] >= time
    BY DEF TableStep
  <2>1. CASE u # t
    BY <1>2, <2>1 DEF Change, TypeOK
  <2>2. CASE u = t /\ d = tenant[t]
    <3>1. until'[t][tenant[t]] = now
      BY <1>2 DEF Change, TypeOK
    <3>2. QED
      BY <2>2, <3>1
  <2>3. CASE u = t /\ d # tenant[t]
    <3>1. until'[t][d] = until[t][d]
      BY <1>2, <2>3 DEF Change, TypeOK
    <3>2. QED
      BY <2>3, <3>1
  <2>4. QED
    BY <2>1, <2>2, <2>3
<1>3. QED
  BY <1>1, <1>2
  DEF Next, vars, Arrive, CacheHit, CacheMiss, Select, Fill, Verify, Evict, Tick, Idle

(* A cache entry that a step leaves, or removes, stays recent. *)
LEMMA EntryKept ==
    ASSUME TypeOK, TypeOK', TableStep, NEW t \in TenantIds, EntryRecent(t),
           cached'[t] = cached[t] \/ cached'[t] = None,
           expires'[t] = expires[t], now' >= now
    PROVE  EntryRecent(t)'
<1> SUFFICES ASSUME cached'[t] # None PROVE EntryRecent(t)'
  BY DEF EntryRecent
<1>1. cached'[t] = cached[t] /\ cached[t] # None /\ cached[t] \in Config
  BY DEF TypeOK
<1>2. PICK time \in Int : time = expires[t] - TTL - Lag
  BY DEF TypeOK
<1>3. time <= now
  BY <1>1, <1>2 DEF EntryRecent, TypeOK
<1>4. cached[t] = tenant'[t] \/ until'[t][cached[t]] >= time
  BY <1>1, <1>2, <1>3 DEF TableStep, EntryRecent, CurrentSince
<1>5. cached'[t].is_active /\ expires'[t] <= now' + TTL
  BY <1>1 DEF EntryRecent, TypeOK
<1>6. QED
  BY <1>1, <1>2, <1>4, <1>5 DEF EntryRecent, CurrentSince

(* What a request carries stays recent while the request does not move and *)
(* the time it may take is not over.                                       *)
LEMMA CarriesKept ==
    ASSUME TypeOK, TypeOK', TableStep, NEW r \in Requests, NEW age \in Nat,
           job[r] \in TenantIds, CarriesRecent(r, age),
           job'[r] = job[r], row'[r] = row[r], since'[r] = since[r],
           now' >= now, now' - since[r] <= Lag
    PROVE  CarriesRecent(r, age)'
<1>1. PICK time \in Int : time = since[r] - age
  BY DEF TypeOK
<1>2. time <= now
  BY <1>1 DEF CarriesRecent, TypeOK
<1>3. row[r] = tenant'[job[r]] \/ until'[job[r]][row[r]] >= time
  BY <1>1, <1>2 DEF TableStep, CarriesRecent, CurrentSince
<1>4. since'[r] <= now' /\ now' - since'[r] <= Lag
  BY DEF CarriesRecent, TypeOK
<1>5. row'[r] \in Config /\ row'[r].is_active
  BY DEF CarriesRecent
<1>6. QED
  BY <1>1, <1>3, <1>4, <1>5 DEF CarriesRecent, CurrentSince

(* So does a request that takes no step. *)
LEMMA RequestKept ==
    ASSUME TypeOK, TypeOK', TableStep, NEW r \in Requests, RequestRecent(r),
           stage'[r] = stage[r], job'[r] = job[r], row'[r] = row[r],
           since'[r] = since[r], arrived'[r] = arrived[r],
           now' >= now, stage[r] \in {"fill", "verify"} => now' - since[r] <= Lag
    PROVE  RequestRecent(r)'
<1>1. stage'[r] \in {"cache", "select", "fill", "verify"} =>
         job'[r] \in TenantIds /\ arrived'[r] <= now'
  BY DEF RequestRecent, TypeOK
<1>2. ASSUME stage'[r] = "fill" PROVE CarriesRecent(r, 0)'
  <2>1. job[r] \in TenantIds /\ CarriesRecent(r, 0) /\ now' - since[r] <= Lag
    BY <1>2 DEF RequestRecent
  <2>2. 0 \in Nat
    OBVIOUS
  <2>3. QED
    BY <2>1, <2>2, CarriesKept
<1>3. ASSUME stage'[r] = "verify" PROVE CarriesRecent(r, TTL + Lag)'
  <2>1. job[r] \in TenantIds /\ CarriesRecent(r, TTL + Lag) /\ now' - since[r] <= Lag
    BY <1>3 DEF RequestRecent
  <2>2. TTL + Lag \in Nat
    OBVIOUS
  <2>3. QED
    BY <2>1, <2>2, CarriesKept
<1>4. QED
  BY <1>1, <1>2, <1>3 DEF RequestRecent

(* Every request but r is where it was. *)
OthersStay(r) ==
    /\ now' = now
    /\ \A q \in Requests \ {r} :
          /\ stage'[q] = stage[q] /\ job'[q] = job[q] /\ row'[q] = row[q]
          /\ since'[q] = since[q] /\ arrived'[q] = arrived[q]

(* A step of request r: what is left to show is about r and the cache. *)
LEMMA RequestStep ==
    ASSUME TypeOK, TypeOK', TableStep, RecentInv, NEW r \in Requests, OthersStay(r),
           \A t \in TenantIds : EntryRecent(t)', RequestRecent(r)'
    PROVE  RecentInv'
<1>1. ASSUME NEW q \in Requests, q # r PROVE RequestRecent(q)'
  <2>1. /\ stage'[q] = stage[q] /\ job'[q] = job[q] /\ row'[q] = row[q]
        /\ since'[q] = since[q] /\ arrived'[q] = arrived[q] /\ now' = now
    BY <1>1 DEF OthersStay
  <2>2. now' >= now
    BY <2>1 DEF TypeOK
  <2>3. RequestRecent(q)
    BY DEF RecentInv
  <2>4. stage[q] \in {"fill", "verify"} => now' - since[q] <= Lag
    BY <2>1, <2>3 DEF RequestRecent, CarriesRecent
  <2>5. QED
    BY <2>1, <2>2, <2>3, <2>4, RequestKept
<1>2. QED
  BY <1>1 DEF RecentInv

(* Entries of an unchanged cache stay recent. *)
LEMMA CacheKept ==
    ASSUME TypeOK, TypeOK', TableStep, RecentInv, UNCHANGED cacheVars, now' >= now,
           NEW t \in TenantIds
    PROVE  EntryRecent(t)'
<1>1. EntryRecent(t) /\ cached'[t] = cached[t] /\ expires'[t] = expires[t]
  BY DEF RecentInv, cacheVars
<1>2. QED
  BY <1>1, EntryKept

(* A request that has its answer carries nothing. *)
LEMMA AnswerRecent ==
    ASSUME TypeOK, NEW r \in Requests, NEW outcome, Answer(r, outcome)
    PROVE  RequestRecent(r)'
<1>1. stage'[r] = "done"
  BY DEF Answer, TypeOK
<1>2. QED
  BY <1>1 DEF RequestRecent

(* Only r moves when r is answered, or goes on. *)
LEMMA AnswerAlone ==
    ASSUME TypeOK, NEW r \in Requests, NEW outcome, Answer(r, outcome),
           job' = job, now' = now
    PROVE  OthersStay(r)
BY DEF Answer, OthersStay, TypeOK

LEMMA UseAlone ==
    ASSUME TypeOK, NEW r \in Requests, NEW c, NEW next, Use(r, c, next),
           job' = job, now' = now
    PROVE  OthersStay(r)
BY DEF Use, Continue, OthersStay, TypeOK

(* What a request takes from the table or the cache is recent. *)
LEMMA UseRecent ==
    ASSUME TypeOK, TypeOK', NEW r \in Requests, NEW c \in Config, NEW next, NEW age \in Nat,
           Use(r, c, next), job' = job, now' = now, UNCHANGED tableVars,
           c.is_active, CurrentSince(job[r], c, now - age)
    PROVE  CarriesRecent(r, age)' /\ stage'[r] = next /\ arrived'[r] = arrived[r]
<1>1. row'[r] = c /\ since'[r] = now /\ stage'[r] = next /\ arrived'[r] = arrived[r]
  BY DEF Use, Continue, TypeOK
<1>2. since'[r] <= now' /\ now' - since'[r] <= Lag
  BY <1>1 DEF TypeOK
<1>3. row'[r] = tenant'[job'[r]] \/ until'[job'[r]][row'[r]] >= since'[r] - age
  BY <1>1 DEF CurrentSince, tableVars
<1>4. QED
  BY <1>1, <1>2, <1>3 DEF CarriesRecent, CurrentSince

(* The inductive invariant holds initially. *)
LEMMA InitRecentInv == Init => RecentInv
BY DEF Init, RecentInv, EntryRecent, RequestRecent

(* Every step keeps it: one case per action. *)
LEMMA NextRecentInv ==
    ASSUME TypeOK, TypeOK', RecentInv, [Next]_vars
    PROVE  RecentInv'
<1>0. TableStep
  BY EveryTableStep
<1>1. ASSUME NEW r \in Requests, NEW t \in TenantIds, Arrive(r, t) PROVE RecentInv'
  <2>1. UNCHANGED cacheVars /\ now' = now /\ now' >= now
    BY <1>1 DEF Arrive, TypeOK
  <2>2. stage'[r] = "cache" /\ job'[r] \in TenantIds /\ arrived'[r] <= now'
    BY <1>1 DEF Arrive, TypeOK
  <2>3. RequestRecent(r)'
    BY <2>2 DEF RequestRecent
  <2>4. OthersStay(r)
    BY <1>1 DEF Arrive, OthersStay, TypeOK
  <2>5. \A u \in TenantIds : EntryRecent(u)'
    BY <1>0, <2>1, CacheKept
  <2>6. QED
    BY <1>0, <2>3, <2>4, <2>5, RequestStep
<1>2. ASSUME NEW r \in Requests, CacheHit(r) PROVE RecentInv'
  <2>1. UNCHANGED cacheVars /\ UNCHANGED tableVars /\ job' = job /\ now' = now /\ now' >= now
    BY <1>2 DEF CacheHit, TypeOK
  <2>2. \A u \in TenantIds : EntryRecent(u)'
    BY <1>0, <2>1, CacheKept
  <2>3. job[r] \in TenantIds /\ arrived[r] <= now
    BY <1>2 DEF CacheHit, RecentInv, RequestRecent
  <2>4. cached[job[r]] \in Config /\ cached[job[r]].is_active
    BY <1>2, <2>3 DEF CacheHit, RecentInv, EntryRecent, TypeOK
  <2>5. Use(r, cached[job[r]], "verify")
    BY <1>2, <2>4 DEF CacheHit
  <2>6. CurrentSince(job[r], cached[job[r]], now - (TTL + Lag))
    <3>1. CurrentSince(job[r], cached[job[r]], expires[job[r]] - TTL - Lag)
      BY <2>3, <2>4 DEF RecentInv, EntryRecent
    <3>2. /\ now < expires[job[r]] /\ expires[job[r]] \in Int /\ now \in Int
          /\ until[job[r]][cached[job[r]]] \in Int
      BY <1>2, <2>3, <2>4 DEF CacheHit, TypeOK
    <3>3. QED
      BY <3>1, <3>2 DEF CurrentSince
  <2>7. TTL + Lag \in Nat
    OBVIOUS
  <2>8. CarriesRecent(r, TTL + Lag)' /\ stage'[r] = "verify" /\ arrived'[r] = arrived[r]
    BY <2>1, <2>4, <2>5, <2>6, <2>7, UseRecent
  <2>9. RequestRecent(r)'
    BY <2>1, <2>3, <2>8 DEF RequestRecent
  <2>10. OthersStay(r)
    BY <2>1, <2>5, UseAlone
  <2>11. QED
    BY <1>0, <2>2, <2>9, <2>10, RequestStep
<1>3. ASSUME NEW r \in Requests, CacheMiss(r) PROVE RecentInv'
  <2>1. UNCHANGED cacheVars /\ now' = now /\ now' >= now
    BY <1>3 DEF CacheMiss, TypeOK
  <2>2. job[r] \in TenantIds /\ arrived[r] <= now
    BY <1>3 DEF CacheMiss, RecentInv, RequestRecent
  <2>3. stage'[r] = "select" /\ job'[r] = job[r] /\ arrived'[r] = arrived[r]
    BY <1>3 DEF CacheMiss, Continue, TypeOK
  <2>4. RequestRecent(r)'
    BY <2>1, <2>2, <2>3 DEF RequestRecent
  <2>5. OthersStay(r)
    BY <1>3 DEF CacheMiss, Continue, OthersStay, TypeOK
  <2>6. \A u \in TenantIds : EntryRecent(u)'
    BY <1>0, <2>1, CacheKept
  <2>7. QED
    BY <1>0, <2>4, <2>5, <2>6, RequestStep
<1>4. ASSUME NEW r \in Requests, Select(r) PROVE RecentInv'
  <2>1. UNCHANGED cacheVars /\ UNCHANGED tableVars /\ job' = job /\ now' = now /\ now' >= now
    BY <1>4 DEF Select, TypeOK
  <2>2. \A u \in TenantIds : EntryRecent(u)'
    BY <1>0, <2>1, CacheKept
  <2>3. job[r] \in TenantIds /\ arrived[r] <= now
    BY <1>4 DEF Select, RecentInv, RequestRecent
  <2>4. ASSUME NEW outcome, Answer(r, outcome) PROVE RecentInv'
    <3>1. RequestRecent(r)'
      BY <2>4, AnswerRecent
    <3>2. OthersStay(r)
      BY <2>1, <2>4, AnswerAlone
    <3>3. QED
      BY <1>0, <2>2, <3>1, <3>2, RequestStep
  <2>5. CASE /\ tenant[job[r]] # None /\ tenant[job[r]].is_active
             /\ Use(r, tenant[job[r]], "fill")
    <3>1. tenant[job[r]] \in Config
      BY <2>3, <2>5 DEF TypeOK
    <3>2. CurrentSince(job[r], tenant[job[r]], now - 0)
      BY DEF CurrentSince
    <3>3. 0 \in Nat
      OBVIOUS
    <3>4. CarriesRecent(r, 0)' /\ stage'[r] = "fill" /\ arrived'[r] = arrived[r]
      BY <2>1, <2>5, <3>1, <3>2, <3>3, UseRecent
    <3>5. RequestRecent(r)'
      BY <2>1, <2>3, <3>4 DEF RequestRecent
    <3>6. OthersStay(r)
      BY <2>1, <2>5, UseAlone
    <3>7. QED
      BY <1>0, <2>2, <3>5, <3>6, RequestStep
  <2>6. QED
    BY <1>4, <2>4, <2>5 DEF Select
<1>5. ASSUME NEW r \in Requests, Fill(r) PROVE RecentInv'
  <2>1. /\ UNCHANGED tableVars /\ job' = job /\ row' = row /\ since' = since
        /\ now' = now /\ now' >= now /\ arrived' = arrived
    BY <1>5 DEF Fill, Continue, TypeOK
  <2>2. /\ job[r] \in TenantIds /\ arrived[r] <= now /\ CarriesRecent(r, 0)
        /\ stage[r] = "fill"
    BY <1>5 DEF Fill, RecentInv, RequestRecent
  <2>3. stage'[r] = "verify"
    BY <1>5 DEF Fill, Continue, TypeOK
  <2>4. row[r] \in Config /\ since[r] \in Int /\ now \in Int /\ until[job[r]][row[r]] \in Int
    BY <2>2 DEF CarriesRecent, TypeOK
  <2>5. CarriesRecent(r, TTL + Lag)'
    BY <2>1, <2>2, <2>4 DEF CarriesRecent, CurrentSince, tableVars
  <2>6. RequestRecent(r)'
    BY <2>1, <2>2, <2>3, <2>5 DEF RequestRecent
  <2>7. OthersStay(r)
    BY <1>5, <2>1 DEF Fill, Continue, OthersStay, TypeOK
  <2>8. ASSUME NEW t \in TenantIds PROVE EntryRecent(t)'
    <3>1. CASE UNCHANGED cacheVars
      BY <1>0, <2>1, <3>1, CacheKept
    <3>2. CASE /\ cached' = [cached EXCEPT ![job[r]] = row[r]]
               /\ expires' = [expires EXCEPT ![job[r]] = now + TTL]
      <4>1. CASE t = job[r]
        <5>1. cached'[t] = row[r] /\ expires'[t] = now + TTL
          BY <3>2, <4>1 DEF TypeOK
        <5>2. CurrentSince(job[r], row[r], now - Lag)
          BY <2>2, <2>4 DEF CarriesRecent, CurrentSince
        <5>3. row[r] = tenant'[t] \/ until'[t][row[r]] >= now - Lag
          BY <2>1, <4>1, <5>2 DEF CurrentSince, tableVars
        <5>4. expires'[t] - TTL - Lag = now - Lag /\ expires'[t] <= now' + TTL
          BY <2>1, <2>4, <5>1
        <5>5. row[r].is_active
          BY <2>2 DEF CarriesRecent
        <5>6. QED
          BY <5>1, <5>3, <5>4, <5>5 DEF EntryRecent, CurrentSince
      <4>2. CASE t # job[r]
        <5>1. cached'[t] = cached[t] /\ expires'[t] = expires[t]
          BY <3>2, <4>2 DEF TypeOK
        <5>2. EntryRecent(t)
          BY DEF RecentInv
        <5>3. QED
          BY <1>0, <2>1, <5>1, <5>2, EntryKept
      <4>3. QED
        BY <4>1, <4>2
    <3>3. QED
      BY <1>5, <3>1, <3>2 DEF Fill
  <2>9. QED
    BY <1>0, <2>6, <2>7, <2>8, RequestStep
<1>6. ASSUME NEW r \in Requests, Verify(r) PROVE RecentInv'
  <2>1. UNCHANGED cacheVars /\ job' = job /\ now' = now /\ now' >= now /\ Answer(r, "checked")
    BY <1>6 DEF Verify, TypeOK
  <2>2. RequestRecent(r)'
    BY <2>1, AnswerRecent
  <2>3. OthersStay(r)
    BY <2>1, AnswerAlone
  <2>4. \A u \in TenantIds : EntryRecent(u)'
    BY <1>0, <2>1, CacheKept
  <2>5. QED
    BY <1>0, <2>2, <2>3, <2>4, RequestStep
<1>7. ASSUME UNCHANGED requestVars, now' = now \/ Tick,
             \A t \in TenantIds : cached'[t] = cached[t] \/ cached'[t] = None,
             expires' = expires
      PROVE  RecentInv'
  <2>1. now' >= now
    BY <1>7 DEF Tick, TypeOK
  <2>2. ASSUME NEW t \in TenantIds PROVE EntryRecent(t)'
    <3>1. EntryRecent(t)
      BY DEF RecentInv
    <3>2. QED
      BY <1>0, <1>7, <2>1, <3>1, EntryKept
  <2>3. ASSUME NEW r \in Requests PROVE RequestRecent(r)'
    <3>1. RequestRecent(r)
      BY DEF RecentInv
    <3>2. stage[r] \in {"fill", "verify"} => now' - since[r] <= Lag
      <4>1. CASE now' = now
        BY <3>1, <4>1 DEF RequestRecent, CarriesRecent
      <4>2. CASE Tick
        BY <4>2 DEF Tick, TypeOK
      <4>3. QED
        BY <1>7, <4>1, <4>2
    <3>3. /\ stage'[r] = stage[r] /\ job'[r] = job[r] /\ row'[r] = row[r]
          /\ since'[r] = since[r] /\ arrived'[r] = arrived[r]
      BY <1>7 DEF requestVars
    <3>4. QED
      BY <1>0, <2>1, <3>1, <3>2, <3>3, RequestKept
  <2>4. QED
    BY <2>2, <2>3 DEF RecentInv
<1>8. ASSUME NEW t \in TenantIds, NEW c \in Config \cup {None}, Change(t, c) PROVE RecentInv'
  BY <1>7, <1>8 DEF Change, cacheVars
<1>9. ASSUME NEW t \in TenantIds, Evict(t) PROVE RecentInv'
  BY <1>7, <1>9 DEF Evict, TypeOK
<1>10. CASE Tick
  BY <1>7, <1>10 DEF Tick, cacheVars
<1>11. CASE UNCHANGED vars
  BY <1>7, <1>11 DEF vars, cacheVars
<1>12. QED
  BY <1>1, <1>2, <1>3, <1>4, <1>5, <1>6, <1>8, <1>9, <1>10, <1>11 DEF Next, Idle

(* The types and the invariant, together: each is needed for the other. *)
LEMMA Invariants == Spec => [](TypeOK /\ RecentInv)
<1>1. Init => TypeOK /\ RecentInv
  BY InitTypeOK, InitRecentInv
<1>2. TypeOK /\ RecentInv /\ [Next]_vars => (TypeOK /\ RecentInv)'
  BY NextTypeOK, NextRecentInv
<1>3. QED
  BY <1>1, <1>2, PTL DEF Spec

(* Which steps give a request its outcome. *)
LEMMA WhoAnswers ==
    ASSUME TypeOK, RecentInv, [Next]_vars, NEW r \in Requests, result'[r] # result[r]
    PROVE  \/ result'[r] = "checked" /\ Verify(r)
           \/ /\ result'[r] = "not_found" /\ Select(r) /\ tenant[job[r]] = None
           \/ /\ result'[r] = "inactive" /\ Select(r)
              /\ tenant[job[r]] # None /\ ~tenant[job[r]].is_active
<1>1. ASSUME NEW q \in Requests, Select(q), result' # result
      PROVE  \/ /\ tenant[job[q]] = None
                /\ result' = [result EXCEPT ![q] = "not_found"]
             \/ /\ tenant[job[q]] # None /\ ~tenant[job[q]].is_active
                /\ result' = [result EXCEPT ![q] = "inactive"]
  BY <1>1 DEF Select, Use, Continue, Answer
<1>2. ASSUME NEW q \in Requests, Select(q)
      PROVE  \/ /\ result'[r] = "not_found" /\ Select(r) /\ tenant[job[r]] = None
             \/ /\ result'[r] = "inactive" /\ Select(r)
                /\ tenant[job[r]] # None /\ ~tenant[job[r]].is_active
  <2>1. \E v \in {"not_found", "inactive"} : result' = [result EXCEPT ![q] = v]
    BY <1>1, <1>2
  <2>2. q = r
    BY <2>1 DEF TypeOK
  <2>3. \A v : result' = [result EXCEPT ![r] = v] => result'[r] = v
    BY DEF TypeOK
  <2>4. QED
    BY <1>1, <1>2, <2>2, <2>3
<1>3. ASSUME NEW q \in Requests, Verify(q) PROVE result'[r] = "checked" /\ Verify(r)
  <2>1. result' = [result EXCEPT ![q] = "checked"]
    BY <1>3 DEF Verify, Answer
  <2>2. QED
    BY <1>3, <2>1 DEF TypeOK
<1>4. ASSUME NEW q \in Requests, CacheHit(q) PROVE FALSE
  <2>1. job[q] \in TenantIds /\ cached[job[q]] # None
    BY <1>4 DEF CacheHit, RecentInv, RequestRecent
  <2>2. cached[job[q]].is_active
    BY <2>1 DEF RecentInv, EntryRecent
  <2>3. QED
    BY <1>4, <2>2 DEF CacheHit, Use, Continue
<1>5. CASE UNCHANGED result
  BY <1>5
<1>6. QED
  BY <1>2, <1>3, <1>4, <1>5
  DEF Next, vars, requestVars, Arrive, CacheMiss, Continue, Fill, Change, Evict, Tick, Idle

(* Every variable of the model keeps its type, whatever the number of      *)
(* requests and tenants and however they interleave.                       *)
THEOREM TypeCorrect == Spec => []TypeOK
BY Invariants, PTL

(* get_webhook_secret never leads to a signature checked against a         *)
(* configuration that ceased to be current more than TTL + 2 * Lag ago,    *)
(* for every TTL and every bound Lag on the time requests take.            *)
THEOREM StalenessIsBounded == Spec => StalenessBounded
<1>1. ASSUME TypeOK, RecentInv, [Next]_vars, NEW r \in Requests,
             result'[r] # result[r], result'[r] = "checked"
      PROVE  /\ row[r] # None /\ row[r].is_active
             /\ CurrentSince(job[r], row[r], now - TTL - 2 * Lag)
  <2>1. Verify(r)
    BY <1>1, WhoAnswers
  <2>2. job[r] \in TenantIds /\ CarriesRecent(r, TTL + Lag)
    BY <1>1, <2>1 DEF Verify, RecentInv, RequestRecent
  <2>3. row[r] \in Config /\ row[r].is_active
    BY <2>2 DEF CarriesRecent
  <2>4. since[r] \in Int /\ now \in Int /\ until[job[r]][row[r]] \in Int
    BY <1>1, <2>2, <2>3 DEF TypeOK
  <2>5. CurrentSince(job[r], row[r], now - TTL - 2 * Lag)
    BY <2>2, <2>4 DEF CarriesRecent, CurrentSince
  <2>6. QED
    BY <2>3, <2>5
<1>2. TypeOK /\ RecentInv /\ [Next]_vars =>
        [\A r \in Requests :
            result'[r] # result[r] /\ result'[r] = "checked" =>
                /\ row[r] # None /\ row[r].is_active
                /\ CurrentSince(job[r], row[r], now - TTL - 2 * Lag)]_vars
  BY <1>1
<1>3. QED
  BY <1>2, Invariants, PTL DEF Spec, StalenessBounded

(* A refusal is never taken from the cache: a tenant is refused only for   *)
(* what the table said while the request was running.                      *)
THEOREM RefusalsAreCurrent == Spec => NoStaleRefusal
<1>1. ASSUME TypeOK, RecentInv, [Next]_vars, NEW r \in Requests, result'[r] # result[r]
      PROVE  /\ result'[r] = "not_found" => CurrentSince(job[r], None, arrived[r])
             /\ result'[r] = "inactive" =>
                   \E c \in Config : ~c.is_active /\ CurrentSince(job[r], c, arrived[r])
  <2>1. CASE result'[r] = "checked"
    BY <2>1
  <2>2. CASE result'[r] = "not_found" /\ tenant[job[r]] = None
    BY <2>2 DEF CurrentSince
  <2>3. CASE /\ result'[r] = "inactive" /\ Select(r)
             /\ tenant[job[r]] # None /\ ~tenant[job[r]].is_active
    <3>1. job[r] \in TenantIds
      BY <1>1, <2>3 DEF Select, RecentInv, RequestRecent
    <3>2. tenant[job[r]] \in Config
      BY <1>1, <2>3, <3>1 DEF TypeOK
    <3>3. QED
      BY <2>3, <3>2 DEF CurrentSince
  <2>4. QED
    BY <1>1, <2>1, <2>2, <2>3, WhoAnswers
<1>2. TypeOK /\ RecentInv /\ [Next]_vars =>
        [\A r \in Requests :
            result'[r] # result[r] =>
                /\ result'[r] = "not_found" => CurrentSince(job[r], None, arrived[r])
                /\ result'[r] = "inactive" =>
                      \E c \in Config :
                         ~c.is_active /\ CurrentSince(job[r], c, arrived[r])]_vars
  BY <1>1
<1>3. QED
  BY <1>2, Invariants, PTL DEF Spec, NoStaleRefusal
=============================================================================
