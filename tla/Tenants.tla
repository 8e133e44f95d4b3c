------------------------------ MODULE Tenants ------------------------------
(***************************************************************************)
(* Tenant validation: TenantValidator.get_webhook_secret with its Redis    *)
(* cache of tenant configurations, and the signature check that uses the   *)
(* secret it returns.                                                      *)
(*                                                                         *)
(* Another service changes the tenant table; nothing removes the cached    *)
(* copy then, except its TTL.  The SELECT of a request and its SETEX are   *)
(* two awaits, so a request may write a configuration to the cache that is *)
(* no longer the current one.                                              *)
(***************************************************************************)
EXTENDS Integers

CONSTANTS
    Requests,    \* webhook requests of all pods
    TenantIds,
    Secrets,     \* values of webhook_secret
    None,        \* no row, no cache entry
    TTL,         \* ttl_seconds of set_tenant_cache
    Lag,         \* bound on the time from reading a configuration to using it
    MaxTime,     \* bound on the clock
    MaxChanges   \* bound on changes of the tenant table

(* What get_webhook_secret uses of a row of shared_schema.tenant. *)
Config == [is_active : BOOLEAN, webhook_secret : Secrets]

ASSUME TenantsAssumption ==
    /\ None \notin Config \cup TenantIds
    /\ TTL \in Nat
    /\ Lag \in Nat
    /\ MaxTime \in Nat
    /\ MaxChanges \in Nat

VARIABLES
    tenant,      \* tenant[t]: the committed row of tenant t, or None
    cached,      \* cached[t]: the configuration in Redis, or None
    expires,     \* expires[t]: when that entry expires
    stage,       \* stage[r]: the await request r is suspended at
    job,         \* job[r]: the tenant r is for, or None
    row,         \* row[r]: the configuration r has read, or None
    since,       \* since[r]: when r read it
    result,      \* result[r]: the outcome of r
    now,
    changes,     \* how many changes of the tenant table have happened
    arrived,     \* history: when r arrived
    until        \* history: until[t][c]: when c last ceased to be t's row

tableVars == <<tenant, changes, until>>
cacheVars == <<cached, expires>>
requestVars == <<stage, job, row, since, result, arrived>>
vars == <<tableVars, cacheVars, requestVars, now>>

Stages == {"new", "cache", "select", "fill", "verify", "done"}

Results == {"none", "checked", "not_found", "inactive"}

(* A time too long ago to matter. *)
Never == -(TTL + 2 * Lag + 1)

TypeOK ==
    /\ tenant \in [TenantIds -> Config \cup {None}]
    /\ cached \in [TenantIds -> Config \cup {None}]
    /\ expires \in [TenantIds -> Int]
    /\ stage \in [Requests -> Stages]
    /\ job \in [Requests -> TenantIds \cup {None}]
    /\ row \in [Requests -> Config \cup {None}]
    /\ since \in [Requests -> Int]
    /\ result \in [Requests -> Results]
    /\ now \in Nat
    /\ changes \in Nat
    /\ arrived \in [Requests -> Int]
    /\ until \in [TenantIds -> [Config \cup {None} -> Int]]

Init ==
    /\ tenant \in [TenantIds -> Config \cup {None}]
    /\ cached = [t \in TenantIds |-> None]
    /\ expires = [t \in TenantIds |-> 0]
    /\ stage = [r \in Requests |-> "new"]
    /\ job = [r \in Requests |-> None]
    /\ row = [r \in Requests |-> None]
    /\ since = [r \in Requests |-> 0]
    /\ result = [r \in Requests |-> "none"]
    /\ now = 0
    /\ changes = 0
    /\ arrived = [r \in Requests |-> 0]
    /\ until = [t \in TenantIds |-> [c \in Config \cup {None} |-> Never]]

-----------------------------------------------------------------------------
(* Steps of a request.                                                     *)

Continue(r, next) ==
    /\ stage' = [stage EXCEPT ![r] = next]
    /\ UNCHANGED <<result, arrived>>

(* r has its outcome; what it had read goes with its coroutine. *)
Answer(r, outcome) ==
    /\ stage' = [stage EXCEPT ![r] = "done"]
    /\ result' = [result EXCEPT ![r] = outcome]
    /\ row' = [row EXCEPT ![r] = None]
    /\ since' = [since EXCEPT ![r] = 0]
    /\ arrived' = [arrived EXCEPT ![r] = 0]

(* r goes on with configuration c. *)
Use(r, c, next) ==
    /\ row' = [row EXCEPT ![r] = c]
    /\ since' = [since EXCEPT ![r] = now]
    /\ Continue(r, next)

Arrive(r, t) ==
    /\ stage[r] = "new"
    /\ job' = [job EXCEPT ![r] = t]
    /\ arrived' = [arrived EXCEPT ![r] = now]
    /\ stage' = [stage EXCEPT ![r] = "cache"]
    /\ UNCHANGED <<tableVars, cacheVars, row, since, result, now>>

(* get_tenant_cache finds an entry that has not expired. *)
CacheHit(r) ==
    /\ stage[r] = "cache"
    /\ cached[job[r]] # None
    /\ now < expires[job[r]]
    /\ IF cached[job[r]].is_active THEN Use(r, cached[job[r]], "verify")
                                   ELSE Answer(r, "inactive")
    /\ UNCHANGED <<tableVars, cacheVars, job, now>>

(* get_tenant_cache returns None: no entry, or Redis failed. *)
CacheMiss(r) ==
    /\ stage[r] = "cache"
    /\ Continue(r, "select")
    /\ UNCHANGED <<tableVars, cacheVars, job, row, since, now>>

(* Faulty variant of Select: inactive tenants are cached as well. *)
SelectCachesInactive(r) ==
    /\ stage[r] = "select"
    /\ LET c == tenant[job[r]] IN
          \/ c = None /\ Answer(r, "not_found") /\ UNCHANGED cacheVars
          \/ /\ c # None /\ ~c.is_active /\ Answer(r, "inactive")
             /\ cached' = [cached EXCEPT ![job[r]] = c]
             /\ expires' = [expires EXCEPT ![job[r]] = now + TTL]
          \/ c # None /\ c.is_active /\ Use(r, c, "fill") /\ UNCHANGED cacheVars
    /\ UNCHANGED <<tableVars, job, now>>

(* TenantRepository.get_by_id, and the checks on what it returns. *)
Select(r) ==
    /\ stage[r] = "select"
    /\ LET c == tenant[job[r]] IN
          \/ c = None /\ Answer(r, "not_found")
          \/ c # None /\ ~c.is_active /\ Answer(r, "inactive")
          \/ c # None /\ c.is_active /\ Use(r, c, "fill")
    /\ UNCHANGED <<tableVars, cacheVars, job, now>>

(* Faulty variants of Fill: SET without expiry; only the secret cached. *)
FillForever(r) ==
    /\ stage[r] = "fill"
    /\ cached' = [cached EXCEPT ![job[r]] = row[r]]
    /\ expires' = [expires EXCEPT ![job[r]] = MaxTime + 1]
    /\ Continue(r, "verify")
    /\ UNCHANGED <<tableVars, job, row, since, now>>

FillSecretOnly(r) ==
    /\ stage[r] = "fill"
    /\ cached' = [cached EXCEPT ![job[r]] = row[r].webhook_secret]
    /\ expires' = [expires EXCEPT ![job[r]] = now + TTL]
    /\ Continue(r, "verify")
    /\ UNCHANGED <<tableVars, job, row, since, now>>

(* set_tenant_cache: SETEX with the TTL, best effort. *)
Fill(r) ==
    /\ stage[r] = "fill"
    /\ \/ /\ cached' = [cached EXCEPT ![job[r]] = row[r]]
          /\ expires' = [expires EXCEPT ![job[r]] = now + TTL]
       \/ UNCHANGED cacheVars
    /\ Continue(r, "verify")
    /\ UNCHANGED <<tableVars, job, row, since, now>>

(* get_webhook_secret has returned; _validate_signature checks the         *)
(* delivery against the secret.                                            *)
Verify(r) ==
    /\ stage[r] = "verify"
    /\ Answer(r, "checked")
    /\ UNCHANGED <<tableVars, cacheVars, job, now>>

-----------------------------------------------------------------------------
(* The environment.                                                        *)

(* Tenant t is created, deactivated or removed, or its secret rotated. *)
Change(t, c) ==
    /\ changes < MaxChanges
    /\ changes' = changes + 1
    /\ c # tenant[t]
    /\ tenant' = [tenant EXCEPT ![t] = c]
    /\ until' = [until EXCEPT ![t] = [until[t] EXCEPT ![tenant[t]] = now]]
    /\ UNCHANGED <<cacheVars, requestVars, now>>

(* Redis evicts an entry. *)
Evict(t) ==
    /\ cached[t] # None
    /\ cached' = [cached EXCEPT ![t] = None]
    /\ UNCHANGED <<tableVars, expires, requestVars, now>>

(* Time passes; no request takes longer than Lag from a read to its end. *)
Tick ==
    /\ now < MaxTime
    /\ \A r \in Requests : stage[r] \in {"fill", "verify"} => now - since[r] < Lag
    /\ now' = now + 1
    /\ UNCHANGED <<tableVars, cacheVars, requestVars>>

Idle ==
    /\ \A r \in Requests : stage[r] = "done"
    /\ UNCHANGED vars

Next ==
    \/ \E r \in Requests, t \in TenantIds : Arrive(r, t)
    \/ \E r \in Requests : \/ CacheHit(r)
                           \/ CacheMiss(r)
                           \/ Select(r)
                           \/ Fill(r)
                           \/ Verify(r)
    \/ \E t \in TenantIds, c \in Config \cup {None} : Change(t, c)
    \/ \E t \in TenantIds : Evict(t)
    \/ Tick
    \/ Idle

Spec == Init /\ [][Next]_vars

-----------------------------------------------------------------------------
(* Properties.                                                             *)

(* c was the row of tenant t at some moment not before `time'. *)
CurrentSince(t, c, time) == c = tenant[t] \/ until[t][c] >= time

(* A signature is checked against a configuration of an active tenant that *)
(* was current at most TTL + 2 * Lag ago, whichever request put it in the  *)
(* cache, and although a slow request may overwrite a newer entry with an  *)
(* older one.  So a deactivated tenant is refused, and a rotated secret    *)
(* honoured, after that time at the latest.                                *)
StalenessBounded ==
    [][\A r \in Requests :
          result'[r] # result[r] /\ result'[r] = "checked" =>
              /\ row[r] # None /\ row[r].is_active
              /\ CurrentSince(job[r], row[r], now - TTL - 2 * Lag)]_vars

(* A tenant is refused as unknown or inactive only if it was so while the  *)
(* request was running: refusals are never cached, so a tenant that has    *)
(* been activated is served at once.                                       *)
NoStaleRefusal ==
    [][\A r \in Requests :
          result'[r] # result[r] =>
              /\ result'[r] = "not_found" => CurrentSince(job[r], None, arrived[r])
              /\ result'[r] = "inactive" =>
                    \E c \in Config :
                       ~c.is_active /\ CurrentSince(job[r], c, arrived[r])]_vars

-----------------------------------------------------------------------------
(* The inductive invariant behind the properties.                          *)

(* A cache entry is of an active tenant, expires at most a TTL from now,   *)
(* and was current when the request that wrote it read it.                 *)
EntryRecent(t) ==
    cached[t] # None =>
        /\ cached[t].is_active
        /\ expires[t] <= now + TTL
        /\ CurrentSince(t, cached[t], expires[t] - TTL - Lag)

(* A request that carries a configuration has read it at most Lag ago,     *)
(* from the table (fill) or from either place (verify).                    *)
CarriesRecent(r, age) ==
    /\ row[r] \in Config
    /\ row[r].is_active
    /\ since[r] <= now
    /\ now - since[r] <= Lag
    /\ CurrentSince(job[r], row[r], since[r] - age)

RequestRecent(r) ==
    /\ stage[r] \in {"cache", "select", "fill", "verify"} =>
          job[r] \in TenantIds /\ arrived[r] <= now
    /\ stage[r] = "fill" => CarriesRecent(r, 0)
    /\ stage[r] = "verify" => CarriesRecent(r, TTL + Lag)

RecentInv == /\ \A t \in TenantIds : EntryRecent(t)
             /\ \A r \in Requests : RequestRecent(r)
=============================================================================
