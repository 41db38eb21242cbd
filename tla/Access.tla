-------------------------------- MODULE Access ---------------------------------
(***************************************************************************)
(* The way of an HTTP request to its handler: the rate limiter, then for   *)
(* all but the public routes the tenant middleware, which resolves the API *)
(* key through a cache in memory or else the tenants table; and the public *)
(* registration of tenants.                                                *)
(*                                                                         *)
(* The cache lookup, the query and the caching of its answer are separate  *)
(* steps of concurrent requests, and time passes between them.  A slot of  *)
(* Requests serves one request after the other.  Init is a start of the    *)
(* process over whatever the table holds.                                  *)
(***************************************************************************)
EXTENDS RateLimiter

CONSTANTS
    Tenants,        \* the tenants; a key stands for the tenant it was made for
    Requests,       \* slots for the requests being served
    cacheTTL,       \* the life of a cache entry
    LookupTimeout,  \* the timeout of lookupTenant
    SelfRegistrationEnabled,
    NoEntry,        \* no cache entry
    NoTenant,       \* a request without a key
    MaxTime         \* bound: the clock stops there

tenantCacheEntry == [isActive: BOOLEAN, cachedAt: Nat]

ASSUME AccessAssumption ==
    /\ cacheTTL \in Nat /\ LookupTimeout \in Nat /\ MaxTime \in Nat
    /\ SelfRegistrationEnabled \in BOOLEAN
    /\ NoEntry \notin tenantCacheEntry
    /\ NoTenant \notin Tenants

VARIABLES
    tenants,    \* the tenants table: absent, active or inactive
    was,        \* the status before the last change of each row
    changedAt,  \* when that was
    cache,      \* the tenant cache
    req,        \* per slot: the request being served
    answer      \* the latest answer given

tenantVars == <<tenants, was, changedAt>>
accessVars == <<now, limiterVars, tenantVars, cache, req, answer>>

TenantStatuses == {"absent", "active", "inactive"}

\* A request: where it is, the tenant of its key, when its lookup began and
\* what its query saw.
Request == [pc: {"free", "register", "auth", "query", "result"},
            key: Tenants \cup {NoTenant}, since: Nat, found: TenantStatuses]

\* A slot that has just got a request which is to go on at pc, or none.
Fresh(pc, t) == [pc |-> pc, key |-> t, since |-> 0, found |-> "absent"]
Free == Fresh("free", NoTenant)

Answers == {"none", "limited", "public", "accepted", "forbidden",
            "unauthorized", "registered", "refused", "failed"}

\* Every variable has its type; no count is above the limit.
AccessTypeOK ==
    /\ LimiterTypeOK
    /\ tenants \in [Tenants -> TenantStatuses]
    /\ was \in [Tenants -> TenantStatuses]
    /\ changedAt \in [Tenants -> Nat]
    /\ cache \in [Tenants -> tenantCacheEntry \cup {NoEntry}]
    /\ req \in [Requests -> Request]
    /\ answer \in Answers

AccessInit ==
    /\ LimiterInit
    /\ tenants \in [Tenants -> TenantStatuses]
    /\ was = tenants
    /\ changedAt = [t \in Tenants |-> 0]
    /\ cache = [t \in Tenants |-> NoEntry]
    /\ req = [r \in Requests |-> Free]
    /\ answer = "none"

\* The request of slot r is answered.
Respond(r, a) == req' = [req EXCEPT ![r] = Free] /\ answer' = a

\* The request of slot r goes on.
GoesOn(r, q) == req' = [req EXCEPT ![r] = q] /\ UNCHANGED answer

--------------------------------------------------------------------------------
\* 429: the limiter ends the request.
Limited(r, ip) == allow(ip, FALSE) /\ Respond(r, "limited")

\* NewRouter's chain up to the route.  The limiter counts every request; then
\* health and metrics are answered, registration and the API go on, the latter if
\* there is a key.
Arrive(r, ip) ==
    /\ req[r] = Free
    /\ \/ Limited(r, ip)
       \/ /\ allow(ip, TRUE)
          /\ \/ Respond(r, "public")
             \/ Respond(r, "unauthorized")
             \/ GoesOn(r, Fresh("register", NoTenant))
             \/ \E t \in Tenants : GoesOn(r, Fresh("auth", t))
    /\ UNCHANGED <<now, tenantVars, cache>>

--------------------------------------------------------------------------------
(* The tenant middleware.                                                  *)

Verdict(isActive) == IF isActive THEN "accepted" ELSE "forbidden"

getFromCache(t) == cache[t] # NoEntry /\ now - cache[t].cachedAt <= cacheTTL

\* Mutant: a hit renews the entry.
CheckCacheSliding(r) ==
    LET t == req[r].key
    IN  /\ req[r].pc = "auth"
        /\ IF getFromCache(t)
           THEN /\ Respond(r, Verdict(cache[t].isActive))
                /\ cache' = [cache EXCEPT ![t].cachedAt = now]
           ELSE /\ GoesOn(r, [req[r] EXCEPT !.pc = "query", !.since = now])
                /\ UNCHANGED cache
        /\ UNCHANGED <<now, limiterVars, tenantVars>>

\* The cache first; a miss begins a lookup.
CheckCache(r) ==
    LET t == req[r].key
    IN  /\ req[r].pc = "auth"
        /\ IF getFromCache(t)
           THEN Respond(r, Verdict(cache[t].isActive))
           ELSE GoesOn(r, [req[r] EXCEPT !.pc = "query", !.since = now])
        /\ UNCHANGED <<now, limiterVars, tenantVars, cache>>

\* The database takes its snapshot.
lookupTenant(r) ==
    /\ req[r].pc = "query"
    /\ GoesOn(r, [req[r] EXCEPT !.pc = "result", !.found = tenants[req[r].key]])
    /\ UNCHANGED <<now, limiterVars, tenantVars, cache>>

setCache(t, isActive) ==
    cache' = [cache EXCEPT ![t] = [isActive |-> isActive, cachedAt |-> now]]

\* The row arrives in time and is cached, whatever another request has cached
\* meanwhile.  (Between the two the goroutine only computes: no tick.)
LookupFinds(r) ==
    LET isActive == req[r].found = "active"
    IN  /\ req[r].pc = "result"
        /\ req[r].found # "absent"
        /\ now - req[r].since <= LookupTimeout
        /\ setCache(req[r].key, isActive)
        /\ Respond(r, Verdict(isActive))
        /\ UNCHANGED <<now, limiterVars, tenantVars>>

\* There is no such key.  This is not cached.
LookupFindsNone(r) ==
    /\ req[r].pc = "result"
    /\ req[r].found = "absent"
    /\ Respond(r, "unauthorized")
    /\ UNCHANGED <<now, limiterVars, tenantVars, cache>>

\* The query fails or times out: answered as an unknown key, and not cached.
LookupFails(r) ==
    /\ req[r].pc \in {"query", "result"}
    /\ Respond(r, "unauthorized")
    /\ UNCHANGED <<now, limiterVars, tenantVars, cache>>

--------------------------------------------------------------------------------
(* The tenants table.                                                      *)

SetTenant(t, status) ==
    /\ tenants' = [tenants EXCEPT ![t] = status]
    /\ was' = [was EXCEPT ![t] = tenants[t]]
    /\ changedAt' = [changedAt EXCEPT ![t] = now]

\* The INSERT of a new tenant, active, with a new key.
insertTenant == \E t \in Tenants : tenants[t] = "absent" /\ SetTenant(t, "active")

\* Registration: refused by the flag or for its body, or failed, although a
\* failed insert may have taken effect; or a new tenant.
Register(r) ==
    /\ req[r].pc = "register"
    /\ \/ UNCHANGED tenantVars /\ Respond(r, "refused")
       \/ /\ SelfRegistrationEnabled
          /\ \/ insertTenant /\ Respond(r, "registered")
             \/ insertTenant /\ Respond(r, "failed")
             \/ UNCHANGED tenantVars /\ Respond(r, "failed")
    /\ UNCHANGED <<now, limiterVars, cache>>

\* An operator deactivates or reactivates a tenant with SQL: no code of the
\* service does, and nothing tells the cache.
OperatorUpdates(t) ==
    /\ \/ tenants[t] = "active" /\ SetTenant(t, "inactive")
       \/ tenants[t] = "inactive" /\ SetTenant(t, "active")
    /\ UNCHANGED <<now, limiterVars, cache, req, answer>>

Tick ==
    /\ now < MaxTime
    /\ now' = now + 1
    /\ UNCHANGED <<limiterVars, tenantVars, cache, req, answer>>

AccessNext ==
    \/ \E r \in Requests :
          \/ \E ip \in Addrs : Arrive(r, ip)
          \/ CheckCache(r)
          \/ lookupTenant(r)
          \/ LookupFinds(r)
          \/ LookupFindsNone(r)
          \/ LookupFails(r)
          \/ Register(r)
    \/ \E t \in Tenants : OperatorUpdates(t)
    \/ Tick

AccessSpec == AccessInit /\ [][AccessNext]_accessVars

--------------------------------------------------------------------------------
\* A request is refused with 429 only when its address had the limit's worth of
\* requests within the last minute: who keeps to the limit, or waits for the 60 s
\* of Retry-After, is served, however often it was refused before.
RefusedAtLimit ==
    [][\A r \in Requests, ip \in Addrs :
          Arrive(r, ip) /\ req'[r] = Free /\ answer' = "limited"
              => AtLimit(ip)]_accessVars

\* Whether t has the status, or had it until a change that is at most cacheTTL
\* and one lookup old: the oldest answer that may still be in use was read then.
Recently(t, status) ==
    \/ tenants[t] = status
    \/ was[t] = status /\ now - changedAt[t] <= cacheTTL + LookupTimeout

\* How stale the middleware's verdict may be, whatever the order in which slow
\* lookups overwrite each other's entries: a tenant is let in (or kept out) only
\* if it was active (inactive) at most cacheTTL and one lookup ago, and a key is
\* unknown to a query only if it was not registered when the lookup began.
VerdictsAreRecent ==
    [][\A r \in Requests :
          LET t == req[r].key
          IN  t # NoTenant /\ req'[r] = Free =>
              /\ answer' = "accepted" => Recently(t, "active")
              /\ answer' = "forbidden" => Recently(t, "inactive")
              /\ LookupFindsNone(r) => \/ tenants[t] = "absent"
                                       \/ changedAt[t] >= req[r].since]_accessVars
================================================================================
