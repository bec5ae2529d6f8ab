------------------------------ MODULE Admission ------------------------------
(* The gateway chain Builder.Build makes, up to the handler: edge handoff,   *)
(* host resolution, authentication, method guard, status gates,              *)
(* authorization, rate limit, entitlements (pf-platform/go/gw).  What runs   *)
(* inside it, idempotency, body limit and handler timeout, is module         *)
(* Idempotency; correlation ids, access log and headers are left out.        *)
(*                                                                           *)
(* Every request is a goroutine of net/http.  The resolver's and the gate's  *)
(* caches look up and fill in separate critical sections and load from the   *)
(* backing tables in between; meanwhile those tables change and invalidation *)
(* hooks run.                                                                *)
EXTENDS Integers, Sequences, FiniteSets

CONSTANTS
  Requests,
  Kinds,         \* what a request may be: route, host, credentials, addresses
  Hosts, Tenants, Ids, Modules,
  Table,         \* AuthzTable: a set of permissions
  PrincipalOf,   \* realm and credential -> principal or None (verifier, session store, service tokens)
  States,        \* states of tenants, identities and memberships
  InitState,     \* the state of each of them at the start
  InitHosts,     \* the registered hosts at the start
  Policy,        \* ratePolicy: class -> limit and window
  GateTTL, PosTTL, NegTTL,
  MaxLoad,       \* longest time between reading a backing table and filling a cache
  MaxNow,        \* bound: the clock
  MaxChanges,    \* bound: changes of the backing tables
  None

TenantKey(t) == <<"t", t>>
IdentityKey(i) == <<"i", i>>
MemberKey(i, t) == <<"m", i, t>>

GateKeys ==
  {TenantKey(t) : t \in Tenants} \cup {IdentityKey(i) : i \in Ids}
    \cup {MemberKey(i, t) : i \in Ids, t \in Tenants}

ASSUME AdmissionAssumption ==
  /\ {GateTTL, PosTTL, NegTTL, MaxLoad, MaxNow, MaxChanges} \subseteq Nat
  /\ InitState \in [GateKeys -> States]
  /\ InitHosts \in [Hosts -> Tenants \cup {None}]
  /\ None \notin Tenants \cup Hosts \cup Ids
  /\ None \notin [key : Hosts \cup GateKeys, value : Tenants \cup States \cup {None}, read : Nat]
  /\ \A c \in DOMAIN Policy : Policy[c].limit \in Nat \ {0} /\ Policy[c].window \in Nat \ {0}

\* What a request names is known, and every principal has an id.
ASSUME KindsAssumption ==
  /\ \A k \in Kinds : /\ k.host \in Hosts /\ k.header \in Tenants \cup {None}
                      /\ k.right \in BOOLEAN
                      /\ k.route.class \in DOMAIN Policy
                      /\ k.cred # None => <<k.realm, k.cred>> \in DOMAIN PrincipalOf
  /\ \A x \in DOMAIN PrincipalOf : PrincipalOf[x] # None => PrincipalOf[x].id \in Ids

VARIABLES
  now,
  byHost,     \* the tenants table: host -> tenant or None
  hostSince,  \* history: when each host last changed
  pos, neg,   \* CachedResolver: entries [id, at, read] and [at, read], or None
  state,      \* backing states of tenants, identities, memberships
  since,      \* history: when each of them last changed
  cache,      \* CachedGate: entries [state, at, read], or None
  pending,    \* state changes whose invalidation hook has not run yet
  enabled,    \* MapEntitlements: enabled (tenant, module) pairs
  changes,    \* bound: changes made so far
  hits,       \* MemLimiter: rate key -> times admitted
  log,        \* history: the admissions of the limiter
  req,        \* the kind of each request
  pc, stage,  \* its place in the chain, and which gate it is at
  tenant, principal, route,  \* its context
  got,        \* what it has loaded and not yet stored
  code,       \* its answer
  audits      \* AuditSink: the events recorded

tables == <<byHost, hostSince, state, since, pending, enabled, changes>>
caches == <<pos, neg, cache>>
limiter == <<hits, log>>
context == <<req, tenant, principal, route>>
vars == <<now, tables, caches, limiter, context, pc, stage, got, code, audits>>

\* Rate keys of the requests there may be.
Addresses == {k.peer : k \in Kinds} \cup {k.cf : k \in Kinds}

Init ==
  /\ now = 0
  /\ byHost = InitHosts /\ hostSince = [h \in Hosts |-> 0]
  /\ pos = [h \in Hosts |-> None] /\ neg = [h \in Hosts |-> None]
  /\ state = InitState /\ since = [k \in GateKeys |-> 0]
  /\ cache = [k \in GateKeys |-> None]
  /\ pending = {} /\ enabled = {} /\ changes = 0
  /\ hits = [k \in Ids \cup Addresses |-> <<>>] /\ log = {}
  /\ req = [r \in Requests |-> None]
  /\ pc = [r \in Requests |-> "new"] /\ stage = [r \in Requests |-> "none"]
  /\ tenant = [r \in Requests |-> None] /\ principal = [r \in Requests |-> None]
  /\ route = [r \in Requests |-> None]
  /\ got = [r \in Requests |-> None]
  /\ code = [r \in Requests |-> "none"]
  /\ audits = {}

-----------------------------------------------------------------------------
(* The backing tables and the invalidation hooks *)

Changed == changes < MaxChanges /\ changes' = changes + 1

\* A tenant, identity or membership changes state in the database.
SetState(k, s) ==
  /\ Changed
  /\ s # state[k]
  /\ state' = [state EXCEPT ![k] = s]
  /\ since' = [since EXCEPT ![k] = now]
  /\ pending' = pending \cup {k}
  /\ UNCHANGED <<now, byHost, hostSince, enabled, caches, limiter, context, pc, stage, got, code,
                 audits>>

\* The hook of the transition: InvalidateTenant, -Identity, -Membership.
Invalidate(k) ==
  /\ k \in pending
  /\ cache' = [cache EXCEPT ![k] = None]
  /\ pending' = pending \ {k}
  /\ UNCHANGED <<now, byHost, hostSince, state, since, enabled, changes, pos, neg, limiter, context,
                 pc, stage, got, code, audits>>

\* MapResolver.SetHost
SetHost(h, t) ==
  /\ Changed
  /\ t # byHost[h]
  /\ byHost' = [byHost EXCEPT ![h] = t]
  /\ hostSince' = [hostSince EXCEPT ![h] = now]
  /\ UNCHANGED <<now, state, since, pending, enabled, caches, limiter, context, pc, stage, got, code,
                 audits>>

\* MapEntitlements.Set
SetModule(t, m, on) ==
  /\ Changed
  /\ enabled' = IF on THEN enabled \cup {<<t, m>>} ELSE enabled \ {<<t, m>>}
  /\ enabled' # enabled
  /\ UNCHANGED <<now, byHost, hostSince, state, since, pending, caches, limiter, context, pc, stage,
                 got, code, audits>>

-----------------------------------------------------------------------------
(* Going on and answering *)

GoTo(r, label) == pc' = [pc EXCEPT ![r] = label] /\ UNCHANGED code
WriteError(r, c) == pc' = [pc EXCEPT ![r] = "answered"] /\ code' = [code EXCEPT ![r] = c]

\* A request arrives; /internal/ paths name their tenant in a header.
Send(r, k) ==
  /\ pc[r] = "new"
  /\ req' = [req EXCEPT ![r] = k]
  /\ IF k.realm # "internal"
     THEN GoTo(r, "resolve") /\ UNCHANGED tenant
     ELSE IF k.header = None
     THEN WriteError(r, "permission.denied") /\ UNCHANGED tenant
     ELSE GoTo(r, "authn") /\ tenant' = [tenant EXCEPT ![r] = k.header]
  /\ UNCHANGED <<now, tables, caches, limiter, principal, route, stage, got, audits>>

-----------------------------------------------------------------------------
(* Step 2: CachedResolver.ByHost *)

PosFresh(h) == pos[h] # None /\ now - pos[h].at < PosTTL

\* Mutant: the negative cache lives as long as the positive one.
NegFreshLong(h) == neg[h] # None /\ now - neg[h].at < PosTTL

NegFresh(h) == neg[h] # None /\ now - neg[h].at < NegTTL

\* Mutant: WithTenant is forgotten.
ResolvedUnscoped(r, id) ==
  IF id = None THEN WriteError(r, "tenant.unknown_host") /\ UNCHANGED tenant
               ELSE GoTo(r, "authn") /\ UNCHANGED tenant

\* TenantResolve goes on with what ByHost returned.
Resolved(r, id) ==
  IF id = None
  THEN WriteError(r, "tenant.unknown_host") /\ UNCHANGED tenant
  ELSE GoTo(r, "authn") /\ tenant' = [tenant EXCEPT ![r] = id]

ResolveHit(r) ==
  /\ pc[r] = "resolve"
  /\ LET h == req[r].host
     IN  \/ PosFresh(h) /\ Resolved(r, pos[h].id)
         \/ ~PosFresh(h) /\ NegFresh(h) /\ Resolved(r, None)
  /\ UNCHANGED <<now, tables, caches, limiter, req, principal, route, stage, got, audits>>

ResolveMiss(r) ==
  /\ pc[r] = "resolve"
  /\ ~PosFresh(req[r].host) /\ ~NegFresh(req[r].host)
  /\ GoTo(r, "loadhost")
  /\ UNCHANGED <<now, tables, caches, limiter, context, stage, got, audits>>

\* c.inner.ByHost: answers from the table, or fails.
LoadHost(r) ==
  /\ pc[r] = "loadhost"
  /\ \/ /\ GoTo(r, "puthost")
        /\ got' = [got EXCEPT ![r] = [key |-> req[r].host, value |-> byHost[req[r].host], read |-> now]]
     \/ WriteError(r, "gw.internal") /\ UNCHANGED got
  /\ UNCHANGED <<now, tables, caches, limiter, context, stage, audits>>

PutHost(r) ==
  /\ pc[r] = "puthost"
  /\ LET h == got[r].key
         id == got[r].value
     IN  /\ IF id # None
            THEN pos' = [pos EXCEPT ![h] = [id |-> id, at |-> now, read |-> got[r].read]] /\ UNCHANGED neg
            ELSE neg' = [neg EXCEPT ![h] = [at |-> now, read |-> got[r].read]] /\ UNCHANGED pos
         /\ Resolved(r, id)
  /\ got' = [got EXCEPT ![r] = None]
  /\ UNCHANGED <<now, tables, cache, limiter, req, principal, route, stage, audits>>

-----------------------------------------------------------------------------
(* Step 3 and the method guard *)

\* Mutant: the guard is gone.
AnyMethod(r) == TRUE

\* methodGuard
MethodAllowed(r) == req[r].right

\* Authenticator.Middleware, whose next handler is the method guard: only the
\* bearer realm lets a request without credentials through, as anonymous.
Authenticate(r) ==
  /\ pc[r] = "authn"
  /\ LET k == req[r]
         p == PrincipalOf[<<k.realm, k.cred>>]
     IN  \/ k.cred = None /\ k.realm # "bearer" /\ WriteError(r, "auth.invalid_credentials")
            /\ UNCHANGED <<principal, stage>>
         \/ k.cred # None /\ p = None /\ WriteError(r, "auth.invalid_credentials")
            /\ UNCHANGED <<principal, stage>>
         \/ /\ k.cred = None => k.realm = "bearer"
            /\ k.cred # None => p # None
            /\ principal' = [principal EXCEPT ![r] = IF k.cred = None THEN None ELSE p]
            /\ IF MethodAllowed(r)
               THEN GoTo(r, "gate") /\ stage' = [stage EXCEPT ![r] = "tenant"]
               ELSE WriteError(r, "gw.method_not_allowed") /\ UNCHANGED stage
  /\ UNCHANGED <<now, tables, caches, limiter, req, tenant, route, got, audits>>

-----------------------------------------------------------------------------
(* Step 3.5: StatusGateMW over CachedGate *)

GateKey(r) ==
  CASE stage[r] = "tenant" -> TenantKey(tenant[r])
    [] stage[r] = "identity" -> IdentityKey(principal[r].id)
    [] OTHER -> MemberKey(principal[r].id, tenant[r])

\* Mutant: an entry never expires.
Forever(k) == cache[k] # None

GateFresh(k) == cache[k] # None /\ now - cache[k].at < GateTTL

\* Whom each of the three gates turns away, given the state it sees.
GateVerdict(r, st) ==
  CASE stage[r] = "tenant" /\ st = "suspended" -> "tenant.suspended"
    [] stage[r] = "tenant" /\ st \notin {"", "active", "live", "suspended"}
         /\ req[r].route.class = "trader" -> "tenant.not_live"
    [] stage[r] = "identity" /\ st = "suspended" -> "auth.account_suspended"
    [] stage[r] = "member" /\ st = "suspended" -> "auth.membership_suspended"
    [] OTHER -> "ok"

\* The gate after this one: identities of users and staff, memberships of users.
NextStage(r) ==
  CASE stage[r] = "tenant" /\ principal[r] # None /\ principal[r].kind \in {"user", "staff"} -> "identity"
    [] stage[r] = "identity" /\ principal[r].kind = "user" -> "member"
    [] OTHER -> "past"

Judge(r, st) ==
  LET v == GateVerdict(r, st)
  IN  IF v # "ok"
      THEN WriteError(r, v) /\ UNCHANGED stage
      ELSE /\ stage' = [stage EXCEPT ![r] = NextStage(r)]
           /\ GoTo(r, IF NextStage(r) = "past" THEN "authz" ELSE "gate")

GateHit(r) ==
  /\ pc[r] = "gate"
  /\ GateFresh(GateKey(r))
  /\ Judge(r, cache[GateKey(r)].state)
  /\ UNCHANGED <<now, tables, caches, limiter, context, got, audits>>

GateMiss(r) ==
  /\ pc[r] = "gate"
  /\ ~GateFresh(GateKey(r))
  /\ GoTo(r, "load")
  /\ UNCHANGED <<now, tables, caches, limiter, context, stage, got, audits>>

\* load(), outside the lock
GateLoad(r) ==
  /\ pc[r] = "load"
  /\ GoTo(r, "put")
  /\ got' = [got EXCEPT ![r] = [key |-> GateKey(r), value |-> state[GateKey(r)], read |-> now]]
  /\ UNCHANGED <<now, tables, caches, limiter, context, stage, audits>>

GatePut(r) ==
  /\ pc[r] = "put"
  /\ cache' = [cache EXCEPT ![got[r].key] = [state |-> got[r].value, at |-> now, read |-> got[r].read]]
  /\ Judge(r, got[r].value)
  /\ got' = [got EXCEPT ![r] = None]
  /\ UNCHANGED <<now, tables, pos, neg, limiter, context, audits>>

-----------------------------------------------------------------------------
(* Steps 4 to 6 *)

\* What Authorize answers when rt is the Route in its context.
AuthzVerdict(r, rt) ==
  LET p == principal[r]
      perm == CHOOSE x \in Table : x.key = rt.key
  IN  IF rt = None \/ rt.key = None THEN "ok"
      ELSE IF \A x \in Table : x.key # rt.key THEN "permission.denied"
      ELSE IF p = None THEN "auth.invalid_credentials"
      ELSE IF perm.roles \cap p.roles = {} \/ (perm.own /\ rt.own /\ req[r].owner # p.id)
      THEN "permission.denied"
      ELSE IF perm.stepUp /\ ~p.stepped THEN "authz.step_up_required" ELSE "ok"

\* What QuotaMW answers for a Route in its context.
QuotaVerdict(r, rt) ==
  IF rt # None /\ rt.module # None /\ <<tenant[r], rt.module>> \notin enabled
  THEN "tenant.not_entitled" ELSE "ok"

\* SecurityHeaders: CF-Connecting-IP counts when the peer is a trusted proxy.
ClientIP(r) == IF req[r].trusted /\ req[r].cf # None THEN req[r].cf ELSE req[r].peer

RateKey(r) == IF principal[r] # None THEN principal[r].id ELSE ClientIP(r)

\* The times of s that are younger than the window at time t.  The clock is read
\* under the limiter's lock, so a key's hits are in the order of time, and the
\* ones the pruning loop drops are the first.
Expired(s, t, window) == {i \in DOMAIN s : t - s[i] >= window}
Younger(s, t, window) == SubSeq(s, Cardinality(Expired(s, t, window)) + 1, Len(s))

\* Mutants: a hit is dropped early; the time is counted from the wrong end.
KeptShort(k, window) == Younger(hits[k], now, window - 1)
RetryElapsed(keep, window) == now - keep[1]

\* MemLimiter.Allow: the hits of the key that are younger than the window.
Kept(k, window) == Younger(hits[k], now, window)
Fits(keep, limit) == Len(keep) < limit
RetryAfter(keep, window) == window - (now - keep[1])

\* auditWrap, around steps 4 and inwards: the answer of a sensitive action is
\* audited, whatever it is.
Answer(r, c) ==
  /\ WriteError(r, c)
  /\ audits' = IF req[r].route.audit THEN audits \cup {[req |-> r, code |-> c]} ELSE audits

Proceed(r, label) == GoTo(r, label) /\ UNCHANGED audits

Authorize(r) ==
  /\ pc[r] = "authz"
  /\ LET v == AuthzVerdict(r, route[r])
     IN  IF v = "ok" THEN Proceed(r, "limit") ELSE Answer(r, v)
  /\ UNCHANGED <<now, tables, caches, limiter, context, stage, got>>

Logged(r, ok) ==
  log' = log \cup {[req |-> r, key |-> RateKey(r), class |-> req[r].route.class, at |-> now, ok |-> ok]}

\* RateLimitMW with MemLimiter.Allow, in the class of the route.
RateLimit(r) ==
  /\ pc[r] = "limit"
  /\ LET k == RateKey(r)
         pol == Policy[req[r].route.class]
         keep == Kept(k, pol.window)
     IN  \/ /\ Fits(keep, pol.limit)
            /\ hits' = [hits EXCEPT ![k] = Append(keep, now)]
            /\ Logged(r, TRUE)
            /\ Proceed(r, "quota")
         \/ /\ ~Fits(keep, pol.limit)
            /\ hits' = [hits EXCEPT ![k] = keep]
            /\ Logged(r, FALSE)
            /\ Answer(r, "rate.limited")
  /\ UNCHANGED <<now, tables, caches, context, stage, got>>

\* QuotaMW; behind it the innermost handler of Build, which puts the route into
\* the context (too late for steps 4 and 6, which looked for it).
Quota(r) ==
  /\ pc[r] = "quota"
  /\ LET v == QuotaVerdict(r, route[r])
     IN  IF v = "ok"
         THEN Proceed(r, "handler") /\ route' = [route EXCEPT ![r] = req[r].route]
         ELSE Answer(r, v) /\ UNCHANGED route
  /\ UNCHANGED <<now, tables, caches, limiter, req, tenant, principal, stage, got>>

Handle(r) ==
  /\ pc[r] = "handler"
  /\ Answer(r, "ok")
  /\ UNCHANGED <<now, tables, caches, limiter, context, stage, got>>

\* The clock: a value loaded from a table is stored within MaxLoad.
Tick ==
  /\ now < MaxNow
  /\ \A r \in Requests : pc[r] \in {"puthost", "put"} => now - got[r].read < MaxLoad
  /\ now' = now + 1
  /\ UNCHANGED <<tables, caches, limiter, context, pc, stage, got, code,
                 audits>>

Tables ==
  \/ \E k \in GateKeys : Invalidate(k) \/ \E s \in States : SetState(k, s)
  \/ \E h \in Hosts, t \in Tenants : SetHost(h, t)
  \/ \E t \in Tenants, m \in Modules, on \in BOOLEAN : SetModule(t, m, on)

Serve(r) ==
  \/ ResolveHit(r) \/ ResolveMiss(r) \/ LoadHost(r) \/ PutHost(r)
  \/ Authenticate(r)
  \/ GateHit(r) \/ GateMiss(r) \/ GateLoad(r) \/ GatePut(r)
  \/ Authorize(r) \/ RateLimit(r) \/ Quota(r) \/ Handle(r)

Clients == \E r \in Requests, k \in Kinds : Send(r, k)

Next == Clients \/ (\E r \in Requests : Serve(r)) \/ Tables \/ Tick

Spec == Init /\ [][Next]_vars

-----------------------------------------------------------------------------
(* Properties *)

Labels == {"new", "resolve", "loadhost", "puthost", "authn", "gate", "load", "put", "authz", "limit",
           "quota", "handler", "answered"}

\* Types of all variables.
TypeOK ==
  /\ now \in 0..MaxNow /\ changes \in 0..MaxChanges
  /\ byHost \in [Hosts -> Tenants \cup {None}] /\ state \in [GateKeys -> States]
  /\ hostSince \in [Hosts -> 0..now] /\ since \in [GateKeys -> 0..now]
  /\ pending \subseteq GateKeys /\ enabled \subseteq Tenants \X Modules
  /\ \A h \in Hosts : /\ pos[h] \in {None} \cup [id : Tenants, at : 0..now, read : 0..now]
                     /\ neg[h] \in {None} \cup [at : 0..now, read : 0..now]
  /\ \A k \in GateKeys : cache[k] \in {None} \cup [state : States, at : 0..now, read : 0..now]
  /\ \A k \in DOMAIN hits : hits[k] \in Seq(0..now)
  /\ pc \in [Requests -> Labels]
  /\ stage \in [Requests -> {"none", "tenant", "identity", "member", "past"}]
  /\ \A r \in Requests :
       /\ req[r] \in Kinds \/ (req[r] = None /\ pc[r] = "new")
       /\ stage[r] # "none" => tenant[r] \in Tenants
       /\ (got[r] # None) = (pc[r] \in {"puthost", "put"})
       /\ (code[r] # "none") = (pc[r] = "answered")

\* An answer of the gate's cache that is no longer true was overtaken less than
\* GateTTL + MaxLoad ago: however fills, hooks and state changes interleave, a
\* suspension is in force for everybody after that time.
GateStaleBound ==
  \A k \in GateKeys : (GateFresh(k) /\ cache[k].state # state[k]) => now - since[k] < GateTTL + MaxLoad

\* "A newly registered host appears within negTTL", and a host that moved is
\* followed within posTTL, each up to the time of a load.
HostStaleBound ==
  \A h \in Hosts :
    /\ (PosFresh(h) /\ pos[h].id # byHost[h]) => now - hostSince[h] < PosTTL + MaxLoad
    /\ (~PosFresh(h) /\ NegFresh(h) /\ byHost[h] # None) => now - hostSince[h] < NegTTL + MaxLoad

\* The calls of the limiter for a key.
Calls(k) == {x \in log : x.key = k}
SoleClass(k, c) == \A x \in Calls(k) : x.class = c

\* "An exact sliding-window log": a caller whose requests are all of one class is
\* never admitted more often than the limit of the class in any of its windows,
\* and turned away only if the limit is used up.
ClassLimit ==
  \A k \in DOMAIN hits, c \in DOMAIN Policy : SoleClass(k, c) =>
    \A x \in Calls(k) :
      LET window == {y \in Calls(k) : y.ok /\ y.at <= x.at /\ x.at - y.at < Policy[c].window}
      IN  IF x.ok THEN Cardinality(window) <= Policy[c].limit
                  ELSE Cardinality(window) >= Policy[c].limit

\* One more request of the class of r fits once its retry time has passed.
RetryFits(r) ==
  LET k == RateKey(r)
      c == req[r].route.class
      free == now + RetryAfter(hits'[k], Policy[c].window)
  IN  SoleClass(k, c) => Fits(Younger(hits'[k], free, Policy[c].window), Policy[c].limit)

\* The retry time Allow gives a limited caller is enough (for callers of one
\* class, as above; the header rounds it down to whole seconds, the unit of now).
RetryAfterFrees ==
  [][\A r \in Requests : (RateLimit(r) /\ code'[r] = "rate.limited") => RetryFits(r)]_vars

\* Requests turned away by host, credentials, method or a gate burn no budget and
\* leave no audit event ("wrong-method probes burn nothing"; "gate/authn failures
\* are tenant/account state, not actions"); every other answer on an audited
\* route, failures included, is audited once, as it was given.
RefusalsLeaveNoTrace ==
  /\ \A x \in log : stage[x.req] = "past" /\ req[x.req].right
  /\ \A r \in Requests : pc[r] = "answered" =>
       {e.code : e \in {e \in audits : e.req = r}} =
         IF stage[r] = "past" /\ req[r].route.audit THEN {code[r]} ELSE {}

\* On well-typed states, what a request leaves behind, budget and audit event, is
\* what its answer entitles it to (RateLimit, Audit).
TracesMatchAnswers == TypeOK /\ RefusalsLeaveNoTrace

=============================================================================
