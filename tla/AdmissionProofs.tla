--------------------------- MODULE AdmissionProofs ---------------------------
(* Proofs about the admission chain, for every number of requests, tenants   *)
(* and hosts, every TTL and limit, and every interleaving of requests, loads,*)
(* fills, changes and invalidations:                                         *)
(*                                                                           *)
(*  - what the caches answer is out of date by no more than their TTL and the*)
(*    time of one load (Fresh);                                              *)
(*  - what a request leaves behind, budget and audit event, is what its      *)
(*    answer entitles it to (ChainInv);                                      *)
(*  - the limiter is an exact sliding window, and its retry time is enough   *)
(*    (LimitInv).                                                            *)
(*                                                                           *)
(* The bounds on staleness are not inductive: they speak of entries that are *)
(* in the cache and fresh, and say nothing of a value some request has read  *)
(* and not yet stored.  Fresh follows every value from the moment it is read:*)
(* if it is not true any more, what made it untrue happened after it was     *)
(* read, and it is stored within MaxLoad of that moment.                     *)
EXTENDS Admission, SequenceTheorems, FiniteSetTheorems, TLAPS

\* What the argument needs of the types.
Shaped ==
  /\ now \in Nat
  /\ DOMAIN pc = Requests /\ DOMAIN got = Requests
  /\ DOMAIN cache = GateKeys /\ DOMAIN state = GateKeys /\ since \in [GateKeys -> Nat]
  /\ DOMAIN pos = Hosts /\ DOMAIN neg = Hosts /\ DOMAIN byHost = Hosts
  /\ hostSince \in [Hosts -> Nat]

\* A cache entry was stored within MaxLoad of the moment its value was read.
Timely(e) ==
  e.at \in Nat /\ e.read \in Nat /\ e.read <= e.at /\ e.at <= now /\ e.at <= e.read + MaxLoad

GateEntries ==
  \A k \in GateKeys : cache[k] # None =>
    Timely(cache[k]) /\ (cache[k].state # state[k] => cache[k].read <= since[k])

HostEntries ==
  \A h \in Hosts :
    /\ pos[h] # None => Timely(pos[h]) /\ (pos[h].id # byHost[h] => pos[h].read <= hostSince[h])
    /\ neg[h] # None => Timely(neg[h]) /\ (byHost[h] # None => neg[h].read <= hostSince[h])

\* The same of a value that is read and not yet stored.
InFlight ==
  \A r \in Requests : pc[r] \in {"put", "puthost"} =>
    /\ got[r].read \in Nat /\ got[r].read <= now /\ now <= got[r].read + MaxLoad
    /\ (pc[r] = "put" /\ got[r].key \in GateKeys /\ got[r].value # state[got[r].key])
         => got[r].read <= since[got[r].key]
    /\ (pc[r] = "puthost" /\ got[r].key \in Hosts /\ got[r].value # byHost[got[r].key])
         => got[r].read <= hostSince[got[r].key]

Fresh == Shaped /\ GateEntries /\ HostEntries /\ InFlight

LEMMA InitFresh == Init => Fresh
  BY AdmissionAssumption DEF Init, Fresh, Shaped, GateEntries, HostEntries, InFlight

\* Steps that only move requests, and none of them to a point where it holds a
\* loaded value.
LEMMA MoveKeepsFresh ==
  ASSUME Fresh, UNCHANGED <<now, tables, caches, got>>, DOMAIN pc' = Requests,
         \A q \in Requests : pc'[q] = pc[q] \/ pc'[q] \notin {"put", "puthost"}
  PROVE  Fresh'
<1>1. Shaped'
  BY DEF Fresh, Shaped, tables, caches
<1>2. GateEntries'
  BY DEF Fresh, GateEntries, Timely, tables, caches
<1>3. HostEntries'
  BY DEF Fresh, HostEntries, Timely, tables, caches
<1>4. InFlight'
  BY DEF Fresh, InFlight, tables
<1>q. QED BY <1>1, <1>2, <1>3, <1>4 DEF Fresh

\* Answering a request, or taking it to a label where it holds nothing.
LEMMA StepMoves ==
  ASSUME Fresh, NEW r \in Requests, NEW l, l \notin {"put", "puthost"},
         pc' = [pc EXCEPT ![r] = l], UNCHANGED <<now, tables, caches, got>>
  PROVE  Fresh'
<1>1. DOMAIN pc' = Requests /\ \A q \in Requests : pc'[q] = pc[q] \/ pc'[q] \notin {"put", "puthost"}
  BY DEF Fresh, Shaped
<1>q. QED BY <1>1, MoveKeepsFresh


LEMMA RequestMoves ==
  ASSUME Fresh, NEW r \in Requests,
         \/ \E k \in Kinds : Send(r, k)
         \/ ResolveHit(r) \/ ResolveMiss(r) \/ Authenticate(r) \/ GateHit(r) \/ GateMiss(r)
         \/ Authorize(r) \/ RateLimit(r) \/ Quota(r) \/ Handle(r)
  PROVE  Fresh'
<1>1. UNCHANGED <<now, tables, caches, got>>
  BY DEF Send, ResolveHit, ResolveMiss, Authenticate, GateHit, GateMiss, Authorize, RateLimit, Quota,
         Handle, tables, caches
<1>2. \E l : l \notin {"put", "puthost"} /\ pc' = [pc EXCEPT ![r] = l]
  <2>1. CASE \E k \in Kinds : Send(r, k)
    BY <2>1, Zenon DEF Send, GoTo, WriteError
  <2>2. CASE ResolveHit(r)
    BY <2>2 DEF ResolveHit, Resolved, GoTo, WriteError
  <2>3. CASE ResolveMiss(r) \/ GateMiss(r)
    BY <2>3 DEF ResolveMiss, GateMiss, GoTo
  <2>4. CASE Authenticate(r)
    BY <2>4 DEF Authenticate, GoTo, WriteError
  <2>5. CASE GateHit(r)
    BY <2>5 DEF GateHit, Judge, GoTo, WriteError
  <2>6. CASE Authorize(r)
    BY <2>6 DEF Authorize, Answer, Proceed, GoTo, WriteError
  <2>7. CASE RateLimit(r)
    BY <2>7 DEF RateLimit, Answer, Proceed, GoTo, WriteError
  <2>8. CASE Quota(r) \/ Handle(r)
    BY <2>8 DEF Quota, Handle, Answer, Proceed, GoTo, WriteError
  <2>q. QED BY <2>1, <2>2, <2>3, <2>4, <2>5, <2>6, <2>7, <2>8
<1>q. QED BY <1>1, <1>2, StepMoves

\* A value is read: it is true at that moment.
LEMMA LoadKeepsFresh ==
  ASSUME Fresh, NEW r \in Requests, LoadHost(r) \/ GateLoad(r)
  PROVE  Fresh'
<1>1. UNCHANGED <<now, tables, caches>>
  BY DEF LoadHost, GateLoad, tables, caches
<1>2. /\ DOMAIN pc' = Requests /\ DOMAIN got' = Requests
      /\ \A q \in Requests \ {r} : pc'[q] = pc[q] /\ got'[q] = got[q]
  BY DEF Fresh, Shaped, LoadHost, GateLoad, GoTo, WriteError
<1>3. \/ pc'[r] = "answered"
      \/ pc'[r] = "put" /\ got'[r] = [key |-> GateKey(r), value |-> state[GateKey(r)], read |-> now]
      \/ pc'[r] = "puthost" /\ got'[r] = [key |-> req[r].host, value |-> byHost[req[r].host], read |-> now]
  BY DEF Fresh, Shaped, LoadHost, GateLoad, GoTo, WriteError
<1>4. Shaped' /\ GateEntries' /\ HostEntries'
  BY <1>1, <1>2 DEF Fresh, Shaped, GateEntries, HostEntries, Timely, tables, caches
<1>5. ASSUME NEW q \in Requests, pc'[q] \in {"put", "puthost"}
      PROVE  /\ got'[q].read \in Nat /\ got'[q].read <= now' /\ now' <= got'[q].read + MaxLoad
             /\ (pc'[q] = "put" /\ got'[q].key \in GateKeys /\ got'[q].value # state'[got'[q].key])
                  => got'[q].read <= since'[got'[q].key]
             /\ (pc'[q] = "puthost" /\ got'[q].key \in Hosts /\ got'[q].value # byHost'[got'[q].key])
                  => got'[q].read <= hostSince'[got'[q].key]
  <2>1. now \in Nat /\ MaxLoad \in Nat
    BY AdmissionAssumption DEF Fresh, Shaped
  <2>2. CASE q = r
    BY <1>1, <1>3, <1>5, <2>1, <2>2 DEF tables
  <2>3. CASE q # r
    BY <1>1, <1>2, <1>5, <2>3 DEF Fresh, InFlight, tables
  <2>q. QED BY <2>2, <2>3
<1>6. InFlight'
  BY <1>5 DEF InFlight
<1>q. QED BY <1>4, <1>6 DEF Fresh

\* A value is stored in the gate's cache.
LEMMA GatePutKeepsFresh ==
  ASSUME Fresh, NEW r \in Requests, GatePut(r)
  PROVE  Fresh'
<1>1. /\ UNCHANGED <<now, tables, pos, neg>>
      /\ cache' = [cache EXCEPT ![got[r].key] = [state |-> got[r].value, at |-> now, read |-> got[r].read]]
      /\ got' = [got EXCEPT ![r] = None] /\ pc[r] = "put"
  BY DEF GatePut
<1>2. \E l : l \notin {"put", "puthost"} /\ pc' = [pc EXCEPT ![r] = l]
  BY DEF GatePut, Judge, GoTo, WriteError
<1>3. Shaped' /\ HostEntries'
  BY <1>1, <1>2 DEF Fresh, Shaped, HostEntries, Timely, tables
<1>4. InFlight'
  BY <1>1, <1>2 DEF Fresh, Shaped, InFlight, tables
<1>5. GateEntries'
  <2> SUFFICES ASSUME NEW k \in GateKeys, cache'[k] # None
               PROVE  Timely(cache[k])' /\ (cache'[k].state # state'[k] => cache'[k].read <= since'[k])
    BY DEF GateEntries
  <2>1. CASE k = got[r].key
    <3>1. cache'[k] = [state |-> got[r].value, at |-> now, read |-> got[r].read]
      BY <1>1, <2>1 DEF Fresh, Shaped
    <3>2. /\ now \in Nat /\ got[r].read \in Nat /\ got[r].read <= now /\ now <= got[r].read + MaxLoad
          /\ got[r].value # state[k] => got[r].read <= since[k]
      BY <1>1, <2>1 DEF Fresh, Shaped, InFlight
    <3>q. QED BY <1>1, <3>1, <3>2 DEF Timely, tables
  <2>2. CASE k # got[r].key
    <3>1. cache'[k] = cache[k]
      BY <1>1, <2>2 DEF Fresh, Shaped
    <3>q. QED BY <1>1, <3>1 DEF Fresh, GateEntries, Timely, tables
  <2>q. QED BY <2>1, <2>2
<1>q. QED BY <1>3, <1>4, <1>5 DEF Fresh

\* A value is stored in one of the resolver's caches.
LEMMA PutHostKeepsFresh ==
  ASSUME Fresh, NEW r \in Requests, PutHost(r)
  PROVE  Fresh'
<1> DEFINE h == got[r].key
           id == got[r].value
<1>1. /\ UNCHANGED <<now, tables, cache>>
      /\ got' = [got EXCEPT ![r] = None] /\ pc[r] = "puthost"
  BY DEF PutHost
<1>2. \E l : l \notin {"put", "puthost"} /\ pc' = [pc EXCEPT ![r] = l]
  BY DEF PutHost, Resolved, GoTo, WriteError
<1>3. \/ pos' = [pos EXCEPT ![h] = [id |-> id, at |-> now, read |-> got[r].read]] /\ neg' = neg
      \/ id = None /\ neg' = [neg EXCEPT ![h] = [at |-> now, read |-> got[r].read]] /\ pos' = pos
  BY DEF PutHost
<1>4. Shaped'
  BY <1>1, <1>2, <1>3 DEF Fresh, Shaped, tables
<1>5. InFlight' /\ GateEntries'
  BY <1>1, <1>2 DEF Fresh, Shaped, InFlight, GateEntries, Timely, tables
<1>6. HostEntries'
  <2> SUFFICES ASSUME NEW g \in Hosts
               PROVE  /\ pos'[g] # None => Timely(pos[g])' /\ (pos'[g].id # byHost'[g] => pos'[g].read <= hostSince'[g])
                      /\ neg'[g] # None => Timely(neg[g])' /\ (byHost'[g] # None => neg'[g].read <= hostSince'[g])
    BY DEF HostEntries
  <2>1. CASE g = h
    <3>1. /\ now \in Nat /\ got[r].read \in Nat /\ got[r].read <= now /\ now <= got[r].read + MaxLoad
          /\ id # byHost[g] => got[r].read <= hostSince[g]
      BY <1>1, <2>1 DEF Fresh, Shaped, InFlight
    <3>2. CASE pos' = [pos EXCEPT ![h] = [id |-> id, at |-> now, read |-> got[r].read]] /\ neg' = neg
      <4>1. pos'[g] = [id |-> id, at |-> now, read |-> got[r].read] /\ neg'[g] = neg[g]
        BY <2>1, <3>2 DEF Fresh, Shaped
      <4>q. QED BY <1>1, <3>1, <4>1 DEF Fresh, HostEntries, Timely, tables
    <3>3. CASE id = None /\ neg' = [neg EXCEPT ![h] = [at |-> now, read |-> got[r].read]] /\ pos' = pos
      <4>1. neg'[g] = [at |-> now, read |-> got[r].read] /\ pos'[g] = pos[g]
        BY <2>1, <3>3 DEF Fresh, Shaped
      <4>q. QED BY <1>1, <3>1, <3>3, <4>1 DEF Fresh, HostEntries, Timely, tables
    <3>q. QED BY <1>3, <3>2, <3>3
  <2>2. CASE g # h
    <3>1. pos'[g] = pos[g] /\ neg'[g] = neg[g]
      BY <1>3, <2>2 DEF Fresh, Shaped
    <3>q. QED BY <1>1, <3>1 DEF Fresh, HostEntries, Timely, tables
  <2>q. QED BY <2>1, <2>2
<1>q. QED BY <1>4, <1>5, <1>6 DEF Fresh

\* A table changes: from then on what was read before is out of date since now.
LEMMA TablesKeepFresh ==
  ASSUME Fresh, Tables
  PROVE  Fresh'
<1>1. ASSUME NEW k \in GateKeys, NEW s \in States, SetState(k, s)
      PROVE  Fresh'
  <2>1. Shaped'
    BY <1>1 DEF Fresh, Shaped, SetState, caches
  <2>2. GateEntries' /\ HostEntries'
    BY <1>1 DEF Fresh, Shaped, GateEntries, HostEntries, Timely, SetState, caches
  <2>3. InFlight'
    BY <1>1 DEF Fresh, Shaped, InFlight, SetState
  <2>q. QED BY <2>1, <2>2, <2>3 DEF Fresh
<1>2. ASSUME NEW k \in GateKeys, Invalidate(k)
      PROVE  Fresh'
  <2>1. Shaped'
    BY <1>2 DEF Fresh, Shaped, Invalidate
  <2>2. GateEntries' /\ HostEntries'
    BY <1>2 DEF Fresh, Shaped, GateEntries, HostEntries, Timely, Invalidate
  <2>3. InFlight'
    BY <1>2 DEF Fresh, InFlight, Invalidate
  <2>q. QED BY <2>1, <2>2, <2>3 DEF Fresh
<1>3. ASSUME NEW h \in Hosts, NEW t \in Tenants, SetHost(h, t)
      PROVE  Fresh'
  <2>1. Shaped'
    BY <1>3 DEF Fresh, Shaped, SetHost, caches
  <2>2. GateEntries' /\ HostEntries'
    BY <1>3 DEF Fresh, Shaped, GateEntries, HostEntries, Timely, SetHost, caches
  <2>3. InFlight'
    BY <1>3 DEF Fresh, Shaped, InFlight, SetHost
  <2>q. QED BY <2>1, <2>2, <2>3 DEF Fresh
<1>4. ASSUME NEW t \in Tenants, NEW m \in Modules, NEW on \in BOOLEAN, SetModule(t, m, on)
      PROVE  Fresh'
  BY <1>4 DEF Fresh, Shaped, GateEntries, HostEntries, Timely, InFlight, SetModule, caches
<1>q. QED BY <1>1, <1>2, <1>3, <1>4 DEF Tables

LEMMA TickKeepsFresh ==
  ASSUME Fresh, Tick
  PROVE  Fresh'
<1>1. /\ now' = now + 1 /\ UNCHANGED <<tables, caches, pc, got>>
      /\ \A r \in Requests : pc[r] \in {"puthost", "put"} => now - got[r].read < MaxLoad
  BY DEF Tick
<1>2. MaxLoad \in Nat
  BY AdmissionAssumption
<1>3. Shaped' /\ GateEntries' /\ HostEntries'
  BY <1>1, <1>2 DEF Fresh, Shaped, GateEntries, HostEntries, Timely, tables, caches
<1>4. InFlight'
  BY <1>1, <1>2 DEF Fresh, Shaped, InFlight, tables
<1>q. QED BY <1>3, <1>4 DEF Fresh

LEMMA NextKeepsFresh ==
  ASSUME Fresh, [Next]_vars
  PROVE  Fresh'
<1>1. CASE Clients
  BY <1>1, RequestMoves DEF Clients
<1>2. ASSUME NEW r \in Requests, Serve(r)
      PROVE  Fresh'
  BY <1>2, RequestMoves, LoadKeepsFresh, GatePutKeepsFresh, PutHostKeepsFresh DEF Serve
<1>3. CASE Tables
  BY <1>3, TablesKeepFresh
<1>4. CASE Tick
  BY <1>4, TickKeepsFresh
<1>5. CASE UNCHANGED vars
  <2>1. UNCHANGED <<now, tables, caches, pc, got>>
    BY <1>5 DEF vars
  <2>q. QED BY <2>1, MoveKeepsFresh DEF Fresh, Shaped
<1>q. QED BY <1>1, <1>2, <1>3, <1>4, <1>5 DEF Next

\* A fresh entry was stored less than the TTL ago, and read at most MaxLoad
\* before that.
LEMMA FreshIsRecent == Fresh => GateStaleBound /\ HostStaleBound
<1>1. {GateTTL, PosTTL, NegTTL, MaxLoad} \subseteq Nat
  BY AdmissionAssumption
<1>2. Fresh => GateStaleBound
  BY <1>1 DEF Fresh, Shaped, GateEntries, Timely, GateStaleBound, GateFresh
<1>3. Fresh => HostStaleBound
  BY <1>1 DEF Fresh, Shaped, HostEntries, Timely, HostStaleBound, PosFresh, NegFresh
<1>q. QED BY <1>2, <1>3

\* CachedGate: whatever the interleaving, no answer of the cache is out of date by
\* more than the TTL and one load.
THEOREM GateAnswersAreRecent == Spec => []GateStaleBound
  BY InitFresh, NextKeepsFresh, FreshIsRecent, PTL DEF Spec

\* CachedResolver: the same of hosts, within negTTL for new ones.
THEOREM HostAnswersAreRecent == Spec => []HostStaleBound
  BY InitFresh, NextKeepsFresh, FreshIsRecent, PTL DEF Spec


-----------------------------------------------------------------------------
(* What a request leaves behind matches its answer.                          *)
(*                                                                           *)
(* TracesMatchAnswers speaks of requests that are answered; that it stays    *)
(* true takes knowing where in the chain a request is, what the steps outside*)
(* have put into its context, and that nobody audits twice.                  *)

\* The context of every request.
Contexts ==
  /\ DOMAIN req = Requests /\ DOMAIN tenant = Requests /\ DOMAIN principal = Requests
  /\ DOMAIN route = Requests /\ DOMAIN code = Requests

\* Each step finds in the context what the steps outside it put there.
Stations ==
  \A r \in Requests :
    /\ pc[r] \in {"new", "resolve", "loadhost", "puthost", "authn"} => stage[r] = "none"
    /\ pc[r] \in {"gate", "load", "put"} => stage[r] \in {"tenant", "identity", "member"}
    /\ pc[r] \in {"authz", "limit", "quota", "handler"} => stage[r] = "past"
    /\ pc[r] = "authn" => tenant[r] \in Tenants
    /\ stage[r] # "none" => req[r].right
    /\ stage[r] \in {"identity", "member"} => principal[r] # None
    /\ principal[r] # None => principal[r].id \in Ids

\* What a request has loaded has the type of the cache it is for.
Loads ==
  \A r \in Requests :
    /\ pc[r] = "puthost" => got[r] \in [key : Hosts, value : Tenants \cup {None}, read : 0..now]
    /\ pc[r] = "put" => got[r] \in [key : GateKeys, value : States, read : 0..now]

\* Nobody is in the audit trail before being answered.
Traces ==
  /\ \A x \in log : x.req \in Requests
  /\ \A e \in audits : e.req \in Requests /\ pc[e.req] = "answered"
  /\ RefusalsLeaveNoTrace

ChainInv == Fresh /\ TypeOK /\ Contexts /\ Stations /\ Loads /\ Traces

LEMMA InitChain == Init => ChainInv
<1> SUFFICES ASSUME Init PROVE ChainInv
  OBVIOUS
<1>1. TypeOK
  <2>1. \A k \in DOMAIN hits : hits[k] \in Seq(0..now)
    BY EmptySeq DEF Init
  <2>q. QED BY <2>1, AdmissionAssumption DEF Init, TypeOK, Labels
<1>2. Contexts /\ Stations /\ Loads /\ Traces
  BY DEF Init, Contexts, Stations, Loads, Traces, RefusalsLeaveNoTrace
<1>q. QED BY <1>1, <1>2, InitFresh DEF ChainInv

\* The step of a request r that leaves it at label l and gate s, with answer c,
\* kind k, tenant t, principal p and loaded value g, and everybody else alone.
Moves(r, l, s, c, k, t, p, g) ==
  /\ UNCHANGED <<now, tables>>
  /\ pc' = [pc EXCEPT ![r] = l] /\ stage' = [stage EXCEPT ![r] = s]
  /\ DOMAIN req' = Requests /\ DOMAIN tenant' = Requests /\ DOMAIN principal' = Requests
  /\ DOMAIN route' = Requests /\ DOMAIN code' = Requests
  /\ \A q \in Requests :
       /\ code'[q] = IF q = r THEN c ELSE code[q]
       /\ req'[q] = IF q = r THEN k ELSE req[q]
       /\ tenant'[q] = IF q = r THEN t ELSE tenant[q]
       /\ principal'[q] = IF q = r THEN p ELSE principal[q]
       /\ got'[q] = IF q = r THEN g ELSE got[q]

\* That is a place of the chain where a request may be.
Placed(l, s, c, k, t, p, g) ==
  /\ l \in Labels /\ s \in {"none", "tenant", "identity", "member", "past"} /\ k \in Kinds
  /\ (c # "none") = (l = "answered")
  /\ l = "puthost" => g \in [key : Hosts, value : Tenants \cup {None}, read : 0..now]
  /\ l = "put" => g \in [key : GateKeys, value : States, read : 0..now]
  /\ l \notin {"puthost", "put"} => g = None
  /\ l \in {"new", "resolve", "loadhost", "puthost", "authn"} => s = "none"
  /\ l \in {"gate", "load", "put"} => s \in {"tenant", "identity", "member"}
  /\ l \in {"authz", "limit", "quota", "handler"} => s = "past"
  /\ l = "authn" => t \in Tenants
  /\ s # "none" => t \in Tenants /\ k.right
  /\ s \in {"identity", "member"} => p # None
  /\ p # None => p.id \in Ids

\* What the step does to the caches and the limiter, as far as types go.
StoresTyped ==
  /\ \A h \in Hosts : /\ pos'[h] \in {None} \cup [id : Tenants, at : 0..now, read : 0..now]
                     /\ neg'[h] \in {None} \cup [at : 0..now, read : 0..now]
  /\ \A k \in GateKeys : cache'[k] \in {None} \cup [state : States, at : 0..now, read : 0..now]
  /\ \A k \in DOMAIN hits' : hits'[k] \in Seq(0..now)

\* What the step leaves behind: an audit event exactly with the answer of a
\* request past the gates on an audited route.
Leaves(r, l, s, c, k) ==
  /\ log' = log \/ \E x : log' = log \cup {x} /\ x.req = r /\ stage[r] = "past" /\ k = req[r]
  /\ stage[r] = "past" => s = "past" /\ k = req[r]
  /\ audits' = IF l = "answered" /\ s = "past" /\ k.route.audit
               THEN audits \cup {[req |-> r, code |-> c]} ELSE audits

LEMMA MovesKeepChain ==
  ASSUME ChainInv, Fresh', NEW r \in Requests, pc[r] # "answered",
         NEW l, NEW s, NEW c, NEW k, NEW t, NEW p, NEW g,
         Moves(r, l, s, c, k, t, p, g), Placed(l, s, c, k, t, p, g),
         StoresTyped, Leaves(r, l, s, c, k)
  PROVE  ChainInv'
<1>1. /\ pc \in [Requests -> Labels]
      /\ stage \in [Requests -> {"none", "tenant", "identity", "member", "past"}]
  BY DEF ChainInv, TypeOK
<1>2. \A q \in Requests : /\ pc'[q] = IF q = r THEN l ELSE pc[q]
                          /\ stage'[q] = IF q = r THEN s ELSE stage[q]
  BY <1>1 DEF Moves
<1>3. \A q \in Requests :
        /\ code'[q] = IF q = r THEN c ELSE code[q]
        /\ req'[q] = IF q = r THEN k ELSE req[q]
        /\ tenant'[q] = IF q = r THEN t ELSE tenant[q]
        /\ principal'[q] = IF q = r THEN p ELSE principal[q]
        /\ got'[q] = IF q = r THEN g ELSE got[q]
  BY DEF Moves
<1>4. now' = now /\ UNCHANGED tables
  BY DEF Moves
<1>5. (g # None) <=> (l \in {"puthost", "put"})
  <2>1. \A v \in Nat : v \in Nat
    OBVIOUS
  <2>2. now \in Nat
    BY DEF ChainInv, Fresh, Shaped
  <2>3. l \in {"puthost", "put"} => g \in [key : Hosts \cup GateKeys, value : Tenants \cup States \cup {None}, read : Nat]
    BY <2>2 DEF Placed
  <2>q. QED BY <2>3, AdmissionAssumption DEF Placed
<1>6. TypeOK'
  <2>1. /\ now' \in 0..MaxNow /\ changes' \in 0..MaxChanges
        /\ byHost' \in [Hosts -> Tenants \cup {None}] /\ state' \in [GateKeys -> States]
        /\ hostSince' \in [Hosts -> 0..now'] /\ since' \in [GateKeys -> 0..now']
        /\ pending' \subseteq GateKeys /\ enabled' \subseteq Tenants \X Modules
    BY <1>4 DEF ChainInv, TypeOK, tables
  <2>2. pc' \in [Requests -> Labels]
    BY <1>1 DEF Moves, Placed
  <2>3. stage' \in [Requests -> {"none", "tenant", "identity", "member", "past"}]
    BY <1>1 DEF Moves, Placed
  <2>4. ASSUME NEW q \in Requests
        PROVE  /\ req'[q] \in Kinds \/ (req'[q] = None /\ pc'[q] = "new")
               /\ stage'[q] # "none" => tenant'[q] \in Tenants
               /\ (got'[q] # None) = (pc'[q] \in {"puthost", "put"})
               /\ (code'[q] # "none") = (pc'[q] = "answered")
    <3>1. CASE q = r
      BY <1>2, <1>3, <1>5, <3>1 DEF Placed
    <3>2. CASE q # r
      BY <1>2, <1>3, <3>2 DEF ChainInv, TypeOK
    <3>q. QED BY <3>1, <3>2
  <2>5. /\ \A h \in Hosts : /\ pos'[h] \in {None} \cup [id : Tenants, at : 0..now', read : 0..now']
                            /\ neg'[h] \in {None} \cup [at : 0..now', read : 0..now']
        /\ \A x \in GateKeys : cache'[x] \in {None} \cup [state : States, at : 0..now', read : 0..now']
        /\ \A x \in DOMAIN hits' : hits'[x] \in Seq(0..now')
    BY <1>4 DEF StoresTyped
  <2>q. QED BY <2>1, <2>2, <2>3, <2>4, <2>5 DEF TypeOK
<1>7. Contexts'
  BY DEF Moves, Contexts
<1>8. Stations'
  <2> SUFFICES ASSUME NEW q \in Requests
               PROVE  /\ pc'[q] \in {"new", "resolve", "loadhost", "puthost", "authn"} => stage'[q] = "none"
                      /\ pc'[q] \in {"gate", "load", "put"} => stage'[q] \in {"tenant", "identity", "member"}
                      /\ pc'[q] \in {"authz", "limit", "quota", "handler"} => stage'[q] = "past"
                      /\ pc'[q] = "authn" => tenant'[q] \in Tenants
                      /\ stage'[q] # "none" => req'[q].right
                      /\ stage'[q] \in {"identity", "member"} => principal'[q] # None
                      /\ principal'[q] # None => principal'[q].id \in Ids
    BY DEF Stations
  <2>1. CASE q = r
    BY <1>2, <1>3, <2>1 DEF Placed
  <2>2. CASE q # r
    BY <1>2, <1>3, <2>2 DEF ChainInv, Stations
  <2>q. QED BY <2>1, <2>2
<1>9. Loads'
  <2> SUFFICES ASSUME NEW q \in Requests
               PROVE  /\ pc'[q] = "puthost" => got'[q] \in [key : Hosts, value : Tenants \cup {None}, read : 0..now]
                      /\ pc'[q] = "put" => got'[q] \in [key : GateKeys, value : States, read : 0..now]
    BY <1>4 DEF Loads
  <2>1. CASE q = r
    BY <1>2, <1>3, <2>1 DEF Placed
  <2>2. CASE q # r
    BY <1>2, <1>3, <2>2 DEF ChainInv, Loads
  <2>q. QED BY <2>1, <2>2
<1>10. \A e \in audits : e.req \in Requests /\ e.req # r /\ pc'[e.req] = "answered"
  BY <1>2 DEF ChainInv, Traces
<1>11. \A e \in audits' : e.req \in Requests /\ pc'[e.req] = "answered"
  BY <1>2, <1>10 DEF Leaves
<1>12. \A x \in log' : x.req \in Requests /\ stage'[x.req] = "past" /\ req'[x.req].right
  <2>1. \A x \in log : x.req \in Requests /\ stage[x.req] = "past" /\ req[x.req].right
    BY DEF ChainInv, Traces, RefusalsLeaveNoTrace
  <2>2. \A x \in log : stage'[x.req] = "past" /\ req'[x.req].right
    BY <1>2, <1>3, <2>1 DEF Leaves
  <2>3. stage[r] = "past" => s = "past" /\ k.right
    BY DEF Leaves, Placed
  <2>q. QED BY <1>2, <1>3, <2>1, <2>2, <2>3 DEF Leaves
<1>13. ASSUME NEW q \in Requests, pc'[q] = "answered"
       PROVE  {e.code : e \in {e \in audits' : e.req = q}} =
                IF stage'[q] = "past" /\ req'[q].route.audit THEN {code'[q]} ELSE {}
  <2>1. CASE q = r
    <3>1. {e \in audits : e.req = r} = {}
      BY <1>10
    <3>2. CASE s = "past" /\ k.route.audit
      <4>1. {e \in audits' : e.req = r} = {[req |-> r, code |-> c]}
        BY <1>2, <1>13, <2>1, <3>1, <3>2 DEF Leaves
      <4>2. {e.code : e \in {[req |-> r, code |-> c]}} = {c}
        OBVIOUS
      <4>3. stage'[q] = "past" /\ req'[q].route.audit /\ code'[q] = c
        BY <1>2, <1>3, <2>1, <3>2
      <4>q. QED BY <2>1, <4>1, <4>2, <4>3
    <3>3. CASE ~(s = "past" /\ k.route.audit)
      BY <1>2, <1>3, <2>1, <3>1, <3>3 DEF Leaves
    <3>q. QED BY <3>2, <3>3
  <2>2. CASE q # r
    <3>1. {e \in audits' : e.req = q} = {e \in audits : e.req = q}
      BY <2>2 DEF Leaves
    <3>2. {e.code : e \in {e \in audits : e.req = q}} =
            IF stage[q] = "past" /\ req[q].route.audit THEN {code[q]} ELSE {}
      BY <1>2, <1>13, <2>2 DEF ChainInv, Traces, RefusalsLeaveNoTrace
    <3>3. stage'[q] = stage[q] /\ req'[q] = req[q] /\ code'[q] = code[q]
      BY <1>2, <1>3, <2>2
    <3>q. QED BY <3>1, <3>2, <3>3
  <2>q. QED BY <2>1, <2>2
<1>14. Traces'
  BY <1>11, <1>12, <1>13 DEF Traces, RefusalsLeaveNoTrace
<1>q. QED BY <1>6, <1>7, <1>8, <1>9, <1>14 DEF ChainInv

\* A step that leaves the caches and the limiter alone.
LEMMA StoresKept == ChainInv /\ now' = now /\ UNCHANGED <<caches, hits>> => StoresTyped
  BY DEF ChainInv, TypeOK, StoresTyped, caches

\* The place a request is at.
LEMMA PlaceOf ==
  ASSUME ChainInv, NEW r \in Requests
  PROVE  /\ pc[r] \in Labels /\ stage[r] \in {"none", "tenant", "identity", "member", "past"}
         /\ pc[r] # "new" => req[r] \in Kinds
         /\ stage[r] # "none" => tenant[r] \in Tenants /\ req[r].right
         /\ stage[r] \in {"identity", "member"} => principal[r] # None
         /\ principal[r] # None => principal[r].id \in Ids
         /\ pc[r] \notin {"puthost", "put"} => got[r] = None
         /\ pc[r] # "answered" => code[r] = "none"
         /\ pc[r] \in {"new", "resolve", "loadhost", "puthost", "authn"} => stage[r] = "none"
         /\ pc[r] \in {"gate", "load", "put"} => stage[r] \in {"tenant", "identity", "member"}
         /\ pc[r] \in {"authz", "limit", "quota", "handler"} => stage[r] = "past"
         /\ pc[r] = "authn" => tenant[r] \in Tenants
         /\ stage = [stage EXCEPT ![r] = stage[r]]
  BY DEF ChainInv, TypeOK, Stations

LEMMA SendKeepsChain ==
  ASSUME ChainInv, Fresh', NEW r \in Requests, NEW k \in Kinds, Send(r, k)
  PROVE  ChainInv'
<1>1. pc[r] = "new" /\ UNCHANGED <<now, tables, caches, limiter, principal, route, stage, got, audits>>
  BY DEF Send
<1>2. k.header \in Tenants \cup {None}
  BY KindsAssumption
<1>3. PICK l, c, t : /\ Moves(r, l, stage[r], c, k, t, principal[r], got[r])
                     /\ \/ l = "resolve" /\ c = "none"
                        \/ l = "answered" /\ c = "permission.denied"
                        \/ l = "authn" /\ c = "none" /\ t \in Tenants
  <2>1. UNCHANGED <<now, tables>> /\ stage' = [stage EXCEPT ![r] = stage[r]]
    BY <1>1, PlaceOf
  <2>2. DOMAIN req' = Requests /\ DOMAIN principal' = Requests /\ DOMAIN route' = Requests
    BY <1>1 DEF Send, ChainInv, Contexts
  <2>3. \A q \in Requests : /\ req'[q] = IF q = r THEN k ELSE req[q]
                            /\ principal'[q] = IF q = r THEN principal[r] ELSE principal[q]
                            /\ got'[q] = IF q = r THEN got[r] ELSE got[q]
    BY <1>1 DEF Send, ChainInv, Contexts
  <2>4. code[r] = "none"
    BY <1>1, PlaceOf
  <2>5. PICK l, c, t :
          /\ pc' = [pc EXCEPT ![r] = l] /\ DOMAIN tenant' = Requests /\ DOMAIN code' = Requests
          /\ \A q \in Requests : /\ code'[q] = IF q = r THEN c ELSE code[q]
                                 /\ tenant'[q] = IF q = r THEN t ELSE tenant[q]
          /\ \/ l = "resolve" /\ c = "none"
             \/ l = "answered" /\ c = "permission.denied"
             \/ l = "authn" /\ c = "none" /\ t \in Tenants
    <3>1. CASE k.realm # "internal"
      <4>1. pc' = [pc EXCEPT ![r] = "resolve"] /\ code' = code /\ tenant' = tenant
        BY <3>1 DEF Send, GoTo
      <4>q. QED BY <2>4, <4>1 DEF ChainInv, Contexts
    <3>2. CASE k.realm = "internal" /\ k.header = None
      <4>1. /\ pc' = [pc EXCEPT ![r] = "answered"] /\ tenant' = tenant
            /\ code' = [code EXCEPT ![r] = "permission.denied"]
        BY <3>2 DEF Send, WriteError
      <4>q. QED BY <4>1 DEF ChainInv, Contexts
    <3>3. CASE k.realm = "internal" /\ k.header # None
      <4>1. /\ pc' = [pc EXCEPT ![r] = "authn"] /\ code' = code
            /\ tenant' = [tenant EXCEPT ![r] = k.header]
        BY <3>3 DEF Send, GoTo
      <4>q. QED BY <1>2, <2>4, <3>3, <4>1 DEF ChainInv, Contexts
    <3>q. QED BY <3>1, <3>2, <3>3
  <2>q. QED BY <2>1, <2>2, <2>3, <2>5 DEF Moves
<1>4. stage[r] = "none" /\ got[r] = None
  BY <1>1, PlaceOf
<1>5. principal[r] # None => principal[r].id \in Ids
  BY PlaceOf
<1>6. Placed(l, stage[r], c, k, t, principal[r], got[r])
  BY <1>3, <1>4, <1>5 DEF Placed, Labels
<1>7. Leaves(r, l, stage[r], c, k)
  BY <1>1, <1>4 DEF Leaves, limiter
<1>8. StoresTyped
  BY <1>1, StoresKept DEF limiter
<1>q. QED BY <1>1, <1>3, <1>6, <1>7, <1>8, MovesKeepChain

\* A step that leaves the request's context alone.
LEMMA StepIsMove ==
  ASSUME ChainInv, NEW r \in Requests, NEW l, NEW s, NEW c, NEW g,
         UNCHANGED <<now, tables, req, tenant, principal>>,
         DOMAIN route' = Requests,
         pc' = [pc EXCEPT ![r] = l],
         stage' = [stage EXCEPT ![r] = s] \/ (stage' = stage /\ s = stage[r]),
         code' = [code EXCEPT ![r] = c] \/ (code' = code /\ c = code[r]),
         got' = [got EXCEPT ![r] = g] \/ (got' = got /\ g = got[r])
  PROVE  Moves(r, l, s, c, req[r], tenant[r], principal[r], g)
<1>1. stage' = [stage EXCEPT ![r] = s]
  BY PlaceOf
<1>2. \A q \in Requests : /\ code'[q] = IF q = r THEN c ELSE code[q]
                          /\ got'[q] = IF q = r THEN g ELSE got[q]
  BY DEF ChainInv, Contexts, Fresh, Shaped
<1>3. DOMAIN code' = Requests
  BY DEF ChainInv, Contexts
<1>q. QED BY <1>1, <1>2, <1>3 DEF Moves, ChainInv, Contexts

\* Going on from the resolver with a tenant, or answering that there is none.
LEMMA ResolvedKeepsChain ==
  ASSUME ChainInv, Fresh', NEW r \in Requests, pc[r] \in {"resolve", "puthost"},
         NEW id \in Tenants \cup {None}, Resolved(r, id),
         UNCHANGED <<now, tables, limiter, req, principal, route, stage, audits>>,
         \A q \in Requests : got'[q] = IF q = r THEN None ELSE got[q], StoresTyped
  PROVE  ChainInv'
<1>1. PICK l, c, t :
        /\ pc' = [pc EXCEPT ![r] = l] /\ DOMAIN tenant' = Requests /\ DOMAIN code' = Requests
        /\ \A q \in Requests : /\ code'[q] = IF q = r THEN c ELSE code[q]
                               /\ tenant'[q] = IF q = r THEN t ELSE tenant[q]
        /\ \/ l = "answered" /\ c = "tenant.unknown_host"
           \/ l = "authn" /\ c = "none" /\ t \in Tenants
  <2>1. CASE id = None
    <3>1. /\ pc' = [pc EXCEPT ![r] = "answered"] /\ tenant' = tenant
          /\ code' = [code EXCEPT ![r] = "tenant.unknown_host"]
      BY <2>1 DEF Resolved, WriteError
    <3>q. QED BY <3>1 DEF ChainInv, Contexts
  <2>2. CASE id # None
    <3>1. /\ pc' = [pc EXCEPT ![r] = "authn"] /\ code' = code
          /\ tenant' = [tenant EXCEPT ![r] = id]
      BY <2>2 DEF Resolved, GoTo
    <3>2. code[r] = "none"
      BY PlaceOf
    <3>q. QED BY <2>2, <3>1, <3>2 DEF ChainInv, Contexts
  <2>q. QED BY <2>1, <2>2
<1>3. stage' = [stage EXCEPT ![r] = stage[r]]
  BY PlaceOf
<1>4. Moves(r, l, stage[r], c, req[r], t, principal[r], None)
  BY <1>1, <1>3 DEF Moves, ChainInv, Contexts
<1>5. Placed(l, stage[r], c, req[r], t, principal[r], None)
  BY <1>1, PlaceOf DEF Placed, Labels
<1>6. Leaves(r, l, stage[r], c, req[r])
  BY <1>1, PlaceOf DEF Leaves, limiter
<1>q. QED BY <1>4, <1>5, <1>6, MovesKeepChain

LEMMA ResolverKeepsChain ==
  ASSUME ChainInv, Fresh', NEW r \in Requests,
         ResolveHit(r) \/ ResolveMiss(r) \/ LoadHost(r) \/ PutHost(r)
  PROVE  ChainInv'
<1>1. ASSUME ResolveHit(r) PROVE ChainInv'
  <2>1. /\ pc[r] = "resolve"
        /\ UNCHANGED <<now, tables, caches, limiter, req, principal, route, stage, got, audits>>
    BY <1>1 DEF ResolveHit
  <2>2. req[r].host \in Hosts
    BY <2>1, PlaceOf, KindsAssumption
  <2>3. \E id \in Tenants \cup {None} : Resolved(r, id)
    <3>1. PosFresh(req[r].host) => pos[req[r].host].id \in Tenants
      BY <2>2 DEF PosFresh, ChainInv, TypeOK
    <3>q. QED BY <1>1, <3>1 DEF ResolveHit
  <2>4. StoresTyped
    BY <2>1, StoresKept DEF limiter
  <2>5. \A q \in Requests : got'[q] = IF q = r THEN None ELSE got[q]
    BY <2>1, PlaceOf
  <2>q. QED BY <2>1, <2>3, <2>4, <2>5, ResolvedKeepsChain
<1>2. ASSUME PutHost(r) PROVE ChainInv'
  <2>1. /\ pc[r] = "puthost" /\ Resolved(r, got[r].value)
        /\ UNCHANGED <<now, tables, cache, limiter, req, principal, route, stage, audits>>
        /\ got' = [got EXCEPT ![r] = None]
    BY <1>2 DEF PutHost
  <2>2. got[r] \in [key : Hosts, value : Tenants \cup {None}, read : 0..now]
    BY <2>1 DEF ChainInv, Loads
  <2>3. now \in 0..now
    BY DEF ChainInv, Fresh, Shaped
  <2>4. StoresTyped
    <3>1. \A k \in GateKeys : cache'[k] \in {None} \cup [state : States, at : 0..now, read : 0..now]
      BY <2>1 DEF ChainInv, TypeOK
    <3>2. \A k \in DOMAIN hits' : hits'[k] \in Seq(0..now)
      BY <2>1 DEF ChainInv, TypeOK, limiter
    <3>3. DOMAIN pos = Hosts /\ DOMAIN neg = Hosts
      BY DEF ChainInv, Fresh, Shaped
    <3>4. CASE got[r].value # None
      <4>1. /\ pos' = [pos EXCEPT ![got[r].key] = [id |-> got[r].value, at |-> now, read |-> got[r].read]]
            /\ neg' = neg
        BY <1>2, <3>4 DEF PutHost
      <4>2. [id |-> got[r].value, at |-> now, read |-> got[r].read] \in [id : Tenants, at : 0..now, read : 0..now]
        BY <2>2, <2>3, <3>4
      <4>3. \A h \in Hosts : pos'[h] \in {None} \cup [id : Tenants, at : 0..now, read : 0..now]
        BY <3>3, <4>1, <4>2 DEF ChainInv, TypeOK
      <4>q. QED BY <3>1, <3>2, <4>1, <4>3 DEF StoresTyped, ChainInv, TypeOK
    <3>5. CASE got[r].value = None
      <4>1. /\ neg' = [neg EXCEPT ![got[r].key] = [at |-> now, read |-> got[r].read]]
            /\ pos' = pos
        BY <1>2, <3>5 DEF PutHost
      <4>2. [at |-> now, read |-> got[r].read] \in [at : 0..now, read : 0..now]
        BY <2>2, <2>3
      <4>3. \A h \in Hosts : neg'[h] \in {None} \cup [at : 0..now, read : 0..now]
        BY <3>3, <4>1, <4>2 DEF ChainInv, TypeOK
      <4>q. QED BY <3>1, <3>2, <4>1, <4>3 DEF StoresTyped, ChainInv, TypeOK
    <3>q. QED BY <3>4, <3>5
  <2>5. got[r].value \in Tenants \cup {None}
    BY <2>2
  <2>6. \A q \in Requests : got'[q] = IF q = r THEN None ELSE got[q]
    BY <2>1 DEF ChainInv, Fresh, Shaped
  <2>q. QED BY <2>1, <2>4, <2>5, <2>6, ResolvedKeepsChain
<1>3. ASSUME ResolveMiss(r) PROVE ChainInv'
  <2>1. /\ pc[r] = "resolve" /\ pc' = [pc EXCEPT ![r] = "loadhost"] /\ code' = code
        /\ UNCHANGED <<now, tables, caches, limiter, context, stage, got, audits>>
    BY <1>3 DEF ResolveMiss, GoTo
  <2>2. Moves(r, "loadhost", stage[r], code[r], req[r], tenant[r], principal[r], got[r])
    BY <2>1, StepIsMove DEF context, ChainInv, Contexts
  <2>3. /\ Placed("loadhost", stage[r], code[r], req[r], tenant[r], principal[r], got[r])
        /\ Leaves(r, "loadhost", stage[r], code[r], req[r])
    BY <2>1, PlaceOf DEF Placed, Leaves, Labels, limiter
  <2>4. StoresTyped
    BY <2>1, StoresKept DEF limiter
  <2>q. QED BY <2>1, <2>2, <2>3, <2>4, MovesKeepChain
<1>4. ASSUME LoadHost(r) PROVE ChainInv'
  <2>1. /\ pc[r] = "loadhost"
        /\ UNCHANGED <<now, tables, caches, limiter, context, stage, audits>>
    BY <1>4 DEF LoadHost
  <2>2. PICK l, c, g :
          /\ pc' = [pc EXCEPT ![r] = l]
          /\ code' = [code EXCEPT ![r] = c] \/ (code' = code /\ c = code[r])
          /\ got' = [got EXCEPT ![r] = g] \/ (got' = got /\ g = got[r])
          /\ \/ l = "answered" /\ c = "gw.internal" /\ g = None
             \/ l = "puthost" /\ c = "none"
                /\ g = [key |-> req[r].host, value |-> byHost[req[r].host], read |-> now]
    <3>1. code[r] = "none" /\ got[r] = None
      BY <2>1, PlaceOf
    <3>2. CASE WriteError(r, "gw.internal") /\ UNCHANGED got
      BY <3>1, <3>2 DEF WriteError
    <3>3. CASE /\ GoTo(r, "puthost")
               /\ got' = [got EXCEPT ![r] = [key |-> req[r].host, value |-> byHost[req[r].host], read |-> now]]
      BY <3>1, <3>3 DEF GoTo
    <3>q. QED BY <1>4, <3>2, <3>3 DEF LoadHost
  <2>3. Moves(r, l, stage[r], c, req[r], tenant[r], principal[r], g)
    BY <2>1, <2>2, StepIsMove DEF context, ChainInv, Contexts
  <2>4. l = "puthost" => g \in [key : Hosts, value : Tenants \cup {None}, read : 0..now]
    <3>0. now \in 0..now
      BY DEF ChainInv, Fresh, Shaped
    <3>1. req[r].host \in Hosts
      BY <2>1, PlaceOf, KindsAssumption
    <3>2. byHost[req[r].host] \in Tenants \cup {None}
      BY <3>1 DEF ChainInv, TypeOK
    <3>q. QED BY <2>2, <3>0, <3>1, <3>2
  <2>5. /\ Placed(l, stage[r], c, req[r], tenant[r], principal[r], g)
        /\ Leaves(r, l, stage[r], c, req[r])
    BY <2>1, <2>2, <2>4, PlaceOf DEF Placed, Leaves, Labels, limiter
  <2>6. StoresTyped
    BY <2>1, StoresKept DEF limiter
  <2>q. QED BY <2>1, <2>3, <2>5, <2>6, MovesKeepChain
<1>q. QED BY <1>1, <1>2, <1>3, <1>4

\* A log in the order of time.
Ordered(s) == \A i, j \in DOMAIN s : i <= j => s[i] <= s[j]

LEMMA CountTo == \A b \in Nat : IsFiniteSet(1..b) /\ Cardinality(1..b) = b
  BY FS_Interval

\* kept is what pruning s at t leaves, and d its number of times dropped.
Pruned(n, s, t, window, d, kept) ==
  /\ Cardinality(Expired(s, t, window)) = d
  /\ Expired(s, t, window) = 1..d
  /\ kept \in Seq(0..n)
  /\ Len(kept) = Len(s) - d
  /\ \A i \in 1..(Len(s) - d) : kept[i] = s[d + i] /\ t - s[d + i] < window
  /\ Ordered(kept)

\* Pruning a log that is in the order of time keeps exactly its younger times,
\* in their order.
LEMMA PruningIsExact ==
  ASSUME NEW n \in Nat, NEW s \in Seq(0..n), Ordered(s), NEW t \in Nat, NEW window \in Nat
  PROVE  \E d \in 0..Len(s) : Pruned(n, s, t, window, d, Younger(s, t, window))
<1>1. Len(s) \in Nat /\ DOMAIN s = 1..Len(s) /\ \A i \in 1..Len(s) : s[i] \in 0..n
  BY LenProperties
<1> DEFINE old == Expired(s, t, window)
<1>2. old \subseteq 1..Len(s)
  BY <1>1 DEF Expired
<1>3. IsFiniteSet(old) /\ Cardinality(old) \in Nat /\ Cardinality(old) <= Len(s)
  <2>1. IsFiniteSet(1..Len(s)) /\ Cardinality(1..Len(s)) = Len(s)
    BY <1>1, CountTo
  <2>2. IsFiniteSet(old) /\ Cardinality(old) <= Cardinality(1..Len(s))
    BY <1>2, <2>1, FS_Subset
  <2>q. QED BY <2>1, <2>2, FS_CardinalityType
<1>4. PICK d \in 0..Len(s) : d = Cardinality(old)
  BY <1>1, <1>3
<1>5. \A i \in old : \A j \in 1..i : j \in old
  <2> SUFFICES ASSUME NEW i \in old, NEW j \in 1..i PROVE j \in old
    OBVIOUS
  <2>1. i \in 1..Len(s) /\ t - s[i] >= window
    BY <1>1 DEF Expired
  <2>2. j \in 1..Len(s) /\ j <= i
    BY <1>1, <2>1
  <2>3. s[j] \in 0..n /\ s[i] \in 0..n /\ s[j] <= s[i]
    BY <1>1, <2>1, <2>2 DEF Ordered
  <2>4. t - s[j] >= window
    <3>1. \A a, b \in Int : b <= a /\ t - a >= window => t - b >= window
      OBVIOUS
    <3>2. s[j] \in Int /\ s[i] \in Int
      BY <2>3
    <3>q. QED BY <2>1, <2>3, <3>1, <3>2
  <2>q. QED BY <1>1, <2>2, <2>4 DEF Expired
<1>6. \A i \in old : i <= d
  <2> SUFFICES ASSUME NEW i \in old PROVE i <= d
    OBVIOUS
  <2>1. i \in Nat \ {0}
    BY <1>1, <1>2
  <2>2. 1..i \subseteq old
    BY <1>5
  <2>3. Cardinality(1..i) = i /\ Cardinality(1..i) <= Cardinality(old)
    <3>1. Cardinality(1..i) = i
      BY <2>1, FS_Interval
    <3>q. QED BY <1>3, <2>2, <3>1, FS_Subset
  <2>q. QED BY <1>4, <2>3
<1>7. old = 1..d
  <2>1. old \subseteq 1..d
    BY <1>1, <1>2, <1>6
  <2>2. IsFiniteSet(1..d) /\ Cardinality(1..d) = d
    BY FS_Interval
  <2>q. QED BY <1>4, <2>1, <2>2, FS_Subset
<1>8. \A i \in (d + 1)..Len(s) : s[i] \in 0..n /\ t - s[i] < window
  <2> SUFFICES ASSUME NEW i \in (d + 1)..Len(s) PROVE s[i] \in 0..n /\ t - s[i] < window
    OBVIOUS
  <2>1. i \in 1..Len(s) /\ i \notin old
    BY <1>1, <1>7
  <2>q. QED BY <1>1, <2>1 DEF Expired
<1>9. PICK y : y = Younger(s, t, window)
  OBVIOUS
<1>10. y = SubSeq(s, d + 1, Len(s))
  BY <1>4, <1>9 DEF Younger
<1>11. /\ y \in Seq(0..n)
       /\ Len(y) = Len(s) - d
       /\ \A i \in 1..(Len(s) - d) : y[i] = s[d + i]
  <2>1. /\ SubSeq(s, d + 1, Len(s)) \in Seq(0..n)
        /\ Len(SubSeq(s, d + 1, Len(s))) = IF d + 1 <= Len(s) THEN Len(s) - (d + 1) + 1 ELSE 0
        /\ \A i \in 1..(Len(s) - (d + 1) + 1) : SubSeq(s, d + 1, Len(s))[i] = s[(d + 1) + i - 1]
    <3>1. d + 1 \in Int /\ Len(s) \in Int /\ \A i \in (d + 1)..Len(s) : s[i] \in 0..n
      BY <1>1, <1>8
    <3>q. QED BY <3>1, SubSeqProperties
  <2>2. \A i \in 1..(Len(s) - d) : (d + 1) + i - 1 = d + i
    BY <1>1
  <2>3. Len(SubSeq(s, d + 1, Len(s))) = Len(s) - d
    <3>1. d + 1 <= Len(s) \/ d = Len(s)
      BY <1>1, <1>4
    <3>2. CASE d + 1 <= Len(s)
      BY <1>1, <2>1, <3>2
    <3>3. CASE d = Len(s)
      BY <1>1, <2>1, <3>3
    <3>q. QED BY <3>1, <3>2, <3>3
  <2>4. Len(s) - (d + 1) + 1 = Len(s) - d
    BY <1>1
  <2>q. QED BY <1>10, <2>1, <2>2, <2>3, <2>4
<1>12. DOMAIN y = 1..(Len(s) - d)
  BY <1>11, LenProperties
<1>13. Ordered(y)
  <2> SUFFICES ASSUME NEW i \in 1..(Len(s) - d), NEW j \in 1..(Len(s) - d), i <= j
               PROVE  y[i] <= y[j]
    BY <1>12 DEF Ordered
  <2>1. d + i \in 1..Len(s) /\ d + j \in 1..Len(s) /\ d + i <= d + j
    BY <1>1
  <2>q. QED BY <1>1, <1>11, <2>1 DEF Ordered
<1>14. \A i \in 1..(Len(s) - d) : t - s[d + i] < window
  BY <1>1, <1>8
<1>q. QED BY <1>4, <1>7, <1>9, <1>11, <1>13, <1>14 DEF Pruned

\* The log of a key: the times admitted, in their order.
Logs ==
  /\ now \in Nat
  /\ \A k \in DOMAIN hits : hits[k] \in Seq(0..now) /\ Ordered(hits[k])

\* One more time at the end of a pruned log, which is the present one.
LEMMA AppendOrdered ==
  ASSUME NEW n \in Nat, NEW s \in Seq(0..n), Ordered(s)
  PROVE  Append(s, n) \in Seq(0..n) /\ Ordered(Append(s, n)) /\ Len(Append(s, n)) = Len(s) + 1
<1>1. n \in 0..n
  OBVIOUS
<1>2. PICK a : a = Append(s, n)
  OBVIOUS
<1>3. /\ a \in Seq(0..n) /\ Len(a) = Len(s) + 1
      /\ \A i \in 1..Len(s) : a[i] = s[i]
      /\ a[Len(s) + 1] = n
  BY <1>1, <1>2, AppendProperties
<1>4. /\ Len(s) \in Nat /\ DOMAIN s = 1..Len(s) /\ DOMAIN a = 1..(Len(s) + 1)
      /\ \A i \in 1..Len(s) : s[i] \in 0..n
  BY <1>3, LenProperties
<1>5. Ordered(a)
  <2> SUFFICES ASSUME NEW i \in 1..(Len(s) + 1), NEW j \in 1..(Len(s) + 1), i <= j
               PROVE  a[i] <= a[j]
    BY <1>4 DEF Ordered
  <2>1. CASE j = Len(s) + 1
    <3>1. a[i] \in 0..n
      BY <1>3, <1>4
    <3>q. QED BY <1>3, <2>1, <3>1
  <2>2. CASE j # Len(s) + 1
    <3>1. i \in 1..Len(s) /\ j \in 1..Len(s)
      BY <1>4, <2>2
    <3>q. QED BY <1>3, <1>4, <3>1 DEF Ordered
  <2>q. QED BY <2>1, <2>2
<1>q. QED BY <1>2, <1>3, <1>5

\* What is kept of a key's log, and what becomes of it.
LEMMA RateLimitKeepsLogs ==
  ASSUME Logs, NEW r \in Requests, RateLimit(r), req[r] \in Kinds
  PROVE  Logs'
<1>1. now' = now /\ now \in Nat
  BY DEF RateLimit, Logs
<1>2. PICK k, window : k = RateKey(r) /\ window = Policy[req[r].route.class].window
  OBVIOUS
<1>3. window \in Nat
  BY <1>2, KindsAssumption, AdmissionAssumption
<1>4. PICK keep : keep = Kept(k, window)
  OBVIOUS
<1>5. k \in DOMAIN hits => keep \in Seq(0..now) /\ Ordered(keep)
  BY <1>1, <1>3, <1>4, PruningIsExact DEF Pruned, Kept, Logs
<1>6. \E s : /\ hits' = [hits EXCEPT ![k] = s]
             /\ k \in DOMAIN hits => s \in Seq(0..now) /\ Ordered(s)
  <2>1. CASE hits' = [hits EXCEPT ![k] = keep]
    BY <1>5, <2>1
  <2>2. CASE hits' = [hits EXCEPT ![k] = Append(keep, now)]
    BY <1>1, <1>5, <2>2, AppendOrdered
  <2>q. QED BY <1>2, <1>4, <2>1, <2>2 DEF RateLimit
<1>q. QED BY <1>1, <1>6 DEF Logs

\* Nobody but the limiter touches the logs.
LEMMA OthersKeepLogs ==
  ASSUME Logs, UNCHANGED hits, now' = now \/ now' = now + 1
  PROVE  Logs'
<1>1. now \in Nat /\ now' \in Nat /\ 0..now \subseteq 0..now'
  BY DEF Logs
<1>2. \A k \in DOMAIN hits : hits[k] \in Seq(0..now')
  BY <1>1, SeqMonotonic DEF Logs
<1>q. QED BY <1>1, <1>2 DEF Logs

LEMMA AuthenticateKeepsChain ==
  ASSUME ChainInv, Fresh', NEW r \in Requests, Authenticate(r)
  PROVE  ChainInv'
<1>1. /\ pc[r] = "authn"
      /\ UNCHANGED <<now, tables, caches, limiter, req, tenant, route, got, audits>>
  BY DEF Authenticate
<1>2. req[r] \in Kinds /\ code[r] = "none"
  BY <1>1, PlaceOf
<1>3. PICK l, s, c, p :
        /\ pc' = [pc EXCEPT ![r] = l] /\ stage' = [stage EXCEPT ![r] = s]
        /\ DOMAIN code' = Requests /\ DOMAIN principal' = Requests
        /\ \A q \in Requests : /\ code'[q] = IF q = r THEN c ELSE code[q]
                               /\ principal'[q] = IF q = r THEN p ELSE principal[q]
        /\ \/ l = "answered" /\ s = "none" /\ c # "none" /\ p = principal[r]
           \/ l = "answered" /\ s = "none" /\ c # "none" /\ (p # None => p.id \in Ids)
           \/ l = "gate" /\ s = "tenant" /\ c = "none" /\ req[r].right /\ (p # None => p.id \in Ids)
  <2>1. stage[r] = "none" /\ stage = [stage EXCEPT ![r] = stage[r]]
    BY <1>1, PlaceOf
  <2>2. CASE WriteError(r, "auth.invalid_credentials") /\ UNCHANGED <<principal, stage>>
    <3>1. /\ pc' = [pc EXCEPT ![r] = "answered"] /\ principal' = principal /\ stage' = stage
          /\ code' = [code EXCEPT ![r] = "auth.invalid_credentials"]
      BY <2>2 DEF WriteError
    <3>2. stage' = [stage EXCEPT ![r] = "none"]
      BY <2>1, <3>1
    <3>3. /\ DOMAIN code' = Requests /\ DOMAIN principal' = Requests
          /\ \A q \in Requests : /\ code'[q] = IF q = r THEN "auth.invalid_credentials" ELSE code[q]
                                 /\ principal'[q] = IF q = r THEN principal[r] ELSE principal[q]
      BY <3>1 DEF ChainInv, Contexts
    <3>q. QED BY <3>1, <3>2, <3>3
  <2>3. ASSUME NEW p, p # None => p.id \in Ids,
               principal' = [principal EXCEPT ![r] = p],
               IF MethodAllowed(r)
               THEN GoTo(r, "gate") /\ stage' = [stage EXCEPT ![r] = "tenant"]
               ELSE WriteError(r, "gw.method_not_allowed") /\ UNCHANGED stage
        PROVE  \E l, s, c :
                 /\ pc' = [pc EXCEPT ![r] = l] /\ stage' = [stage EXCEPT ![r] = s]
                 /\ DOMAIN code' = Requests /\ DOMAIN principal' = Requests
                 /\ \A q \in Requests : /\ code'[q] = IF q = r THEN c ELSE code[q]
                                        /\ principal'[q] = IF q = r THEN p ELSE principal[q]
                 /\ \/ l = "answered" /\ s = "none" /\ c # "none"
                    \/ l = "gate" /\ s = "tenant" /\ c = "none" /\ req[r].right
    <3>1. CASE MethodAllowed(r)
      <4>1. pc' = [pc EXCEPT ![r] = "gate"] /\ code' = code /\ stage' = [stage EXCEPT ![r] = "tenant"]
        BY <2>3, <3>1 DEF GoTo
      <4>2. req[r].right
        BY <3>1 DEF MethodAllowed
      <4>q. QED BY <1>2, <2>3, <4>1, <4>2 DEF ChainInv, Contexts
    <3>2. CASE ~MethodAllowed(r)
      <4>1. /\ pc' = [pc EXCEPT ![r] = "answered"] /\ stage' = stage
            /\ code' = [code EXCEPT ![r] = "gw.method_not_allowed"]
        BY <2>3, <3>2 DEF WriteError
      <4>2. stage' = [stage EXCEPT ![r] = "none"]
        BY <2>1, <4>1
      <4>3. /\ DOMAIN code' = Requests /\ DOMAIN principal' = Requests
            /\ \A q \in Requests : /\ code'[q] = IF q = r THEN "gw.method_not_allowed" ELSE code[q]
                                   /\ principal'[q] = IF q = r THEN p ELSE principal[q]
        BY <2>3, <4>1 DEF ChainInv, Contexts
      <4>q. QED BY <4>1, <4>2, <4>3
    <3>q. QED BY <3>1, <3>2
  <2>4. \/ WriteError(r, "auth.invalid_credentials") /\ UNCHANGED <<principal, stage>>
        \/ \E p : /\ p # None => p.id \in Ids
                  /\ principal' = [principal EXCEPT ![r] = p]
                  /\ IF MethodAllowed(r)
                     THEN GoTo(r, "gate") /\ stage' = [stage EXCEPT ![r] = "tenant"]
                     ELSE WriteError(r, "gw.method_not_allowed") /\ UNCHANGED stage
    <3>1. PICK p : p = IF req[r].cred = None THEN None ELSE PrincipalOf[<<req[r].realm, req[r].cred>>]
      OBVIOUS
    <3>2. p # None => p.id \in Ids
      BY <1>2, <3>1, KindsAssumption
    <3>q. QED BY <3>1, <3>2 DEF Authenticate
  <2>q. QED BY <2>2, <2>3, <2>4
<1>4. p # None => p.id \in Ids
  BY <1>3, PlaceOf
<1>5. \A q \in Requests : /\ req'[q] = IF q = r THEN req[r] ELSE req[q]
                          /\ tenant'[q] = IF q = r THEN tenant[r] ELSE tenant[q]
                          /\ got'[q] = IF q = r THEN got[r] ELSE got[q]
  BY <1>1
<1>6. Moves(r, l, s, c, req[r], tenant[r], p, got[r])
  BY <1>1, <1>3, <1>5 DEF Moves, ChainInv, Contexts
<1>7. Placed(l, s, c, req[r], tenant[r], p, got[r])
  <2>1. got[r] = None /\ tenant[r] \in Tenants
    BY <1>1, PlaceOf
  <2>q. QED BY <1>2, <1>3, <1>4, <2>1 DEF Placed, Labels
<1>8. Leaves(r, l, s, c, req[r])
  BY <1>1, <1>3, PlaceOf DEF Leaves, limiter
<1>9. StoresTyped
  BY <1>1, StoresKept DEF limiter
<1>q. QED BY <1>1, <1>6, <1>7, <1>8, <1>9, MovesKeepChain

\* The gates only turn away or pass on; the one a request is at is known.
LEMMA JudgeKeepsChain ==
  ASSUME ChainInv, Fresh', NEW r \in Requests, pc[r] \in {"gate", "put"}, NEW st, Judge(r, st),
         UNCHANGED <<now, tables, limiter, context, audits>>,
         \A q \in Requests : got'[q] = IF q = r THEN None ELSE got[q],
         StoresTyped
  PROVE  ChainInv'
<1>1. stage[r] \in {"tenant", "identity", "member"} /\ req[r] \in Kinds /\ code[r] = "none"
  BY PlaceOf
<1>2. GateVerdict(r, st) # "none"
  BY DEF GateVerdict
<1>3. PICK l, s, c :
        /\ pc' = [pc EXCEPT ![r] = l]
        /\ stage' = [stage EXCEPT ![r] = s] \/ (stage' = stage /\ s = stage[r])
        /\ code' = [code EXCEPT ![r] = c] \/ (code' = code /\ c = code[r])
        /\ \/ l = "answered" /\ s = stage[r] /\ c # "none"
           \/ l = "authz" /\ s = "past" /\ c = "none"
           \/ l = "gate" /\ s \in {"identity", "member"} /\ c = "none" /\ principal[r] # None
  <2>1. CASE GateVerdict(r, st) # "ok"
    <3>1. /\ pc' = [pc EXCEPT ![r] = "answered"] /\ stage' = stage
          /\ code' = [code EXCEPT ![r] = GateVerdict(r, st)]
      BY <2>1 DEF Judge, WriteError
    <3>2. PICK v : v = GateVerdict(r, st)
      OBVIOUS
    <3>3. v # "none" /\ code' = [code EXCEPT ![r] = v]
      BY <1>2, <3>1, <3>2
    <3>4. /\ pc' = [pc EXCEPT ![r] = "answered"]
          /\ stage' = [stage EXCEPT ![r] = stage[r]] \/ (stage' = stage /\ stage[r] = stage[r])
          /\ code' = [code EXCEPT ![r] = v] \/ (code' = code /\ v = code[r])
          /\ "answered" = "answered" /\ stage[r] = stage[r] /\ v # "none"
      BY <3>1, <3>3
    <3>q. QED BY <3>4, Zenon
  <2>2. CASE GateVerdict(r, st) = "ok"
    <3>1. /\ pc' = [pc EXCEPT ![r] = IF NextStage(r) = "past" THEN "authz" ELSE "gate"]
          /\ stage' = [stage EXCEPT ![r] = NextStage(r)] /\ code' = code
      BY <2>2 DEF Judge, GoTo
    <3>2. NextStage(r) = "past" \/ (NextStage(r) \in {"identity", "member"} /\ principal[r] # None)
      BY <1>1, PlaceOf DEF NextStage
    <3>q. QED BY <1>1, <3>1, <3>2
  <2>q. QED BY <2>1, <2>2
<1>4. \A q \in Requests : code'[q] = IF q = r THEN c ELSE code[q]
  BY <1>3 DEF ChainInv, Contexts
<1>5. stage' = [stage EXCEPT ![r] = s] /\ DOMAIN code' = Requests
  BY <1>3, PlaceOf DEF ChainInv, Contexts
<1>6. Moves(r, l, s, c, req[r], tenant[r], principal[r], None)
  BY <1>3, <1>4, <1>5 DEF Moves, context, ChainInv, Contexts
<1>7. Placed(l, s, c, req[r], tenant[r], principal[r], None)
  BY <1>1, <1>3, PlaceOf DEF Placed, Labels
<1>8. Leaves(r, l, s, c, req[r])
  BY <1>1, <1>3 DEF Leaves, limiter
<1>q. QED BY <1>6, <1>7, <1>8, MovesKeepChain

LEMMA GateKeepsChain ==
  ASSUME ChainInv, Fresh', NEW r \in Requests,
         GateHit(r) \/ GateMiss(r) \/ GateLoad(r) \/ GatePut(r)
  PROVE  ChainInv'
<1>1. pc[r] \in {"gate", "load", "put"}
  BY DEF GateHit, GateMiss, GateLoad, GatePut
<1>2. now \in 0..now
  BY DEF ChainInv, Fresh, Shaped
<1>3. ASSUME GateHit(r) PROVE ChainInv'
  <2>1. /\ pc[r] = "gate" /\ UNCHANGED <<now, tables, caches, limiter, context, got, audits>>
        /\ Judge(r, cache[GateKey(r)].state)
    BY <1>3 DEF GateHit
  <2>2. StoresTyped
    BY <2>1, StoresKept DEF limiter
  <2>3. \A q \in Requests : got'[q] = IF q = r THEN None ELSE got[q]
    BY <2>1, PlaceOf
  <2>q. QED BY <2>1, <2>2, <2>3, JudgeKeepsChain
<1>4. ASSUME GateMiss(r) PROVE ChainInv'
  <2>1. /\ pc[r] = "gate" /\ pc' = [pc EXCEPT ![r] = "load"] /\ code' = code
        /\ UNCHANGED <<now, tables, caches, limiter, context, stage, got, audits>>
    BY <1>4 DEF GateMiss, GoTo
  <2>2. Moves(r, "load", stage[r], code[r], req[r], tenant[r], principal[r], got[r])
    BY <2>1, StepIsMove DEF context, ChainInv, Contexts
  <2>3. /\ Placed("load", stage[r], code[r], req[r], tenant[r], principal[r], got[r])
        /\ Leaves(r, "load", stage[r], code[r], req[r])
    BY <2>1, PlaceOf DEF Placed, Leaves, Labels, limiter
  <2>4. StoresTyped
    BY <2>1, StoresKept DEF limiter
  <2>q. QED BY <2>1, <2>2, <2>3, <2>4, MovesKeepChain
<1>5. ASSUME GateLoad(r) PROVE ChainInv'
  <2>1. /\ pc[r] = "load" /\ pc' = [pc EXCEPT ![r] = "put"] /\ code' = code
        /\ UNCHANGED <<now, tables, caches, limiter, context, stage, audits>>
    BY <1>5 DEF GateLoad, GoTo
  <2>2. PICK g : /\ g = [key |-> GateKey(r), value |-> state[GateKey(r)], read |-> now]
                 /\ got' = [got EXCEPT ![r] = g]
    BY <1>5 DEF GateLoad
  <2>3. GateKey(r) \in GateKeys
    <3>1. tenant[r] \in Tenants /\ stage[r] \in {"tenant", "identity", "member"}
      BY <2>1, PlaceOf
    <3>2. stage[r] \in {"identity", "member"} => principal[r].id \in Ids
      BY PlaceOf
    <3>q. QED BY <3>1, <3>2 DEF GateKey, GateKeys
  <2>4. state[GateKey(r)] \in States
    BY <2>3 DEF ChainInv, TypeOK
  <2>5. g \in [key : GateKeys, value : States, read : 0..now]
    BY <1>2, <2>2, <2>3, <2>4
  <2>6. Moves(r, "put", stage[r], code[r], req[r], tenant[r], principal[r], g)
    BY <2>1, <2>2, StepIsMove DEF context, ChainInv, Contexts
  <2>7. /\ Placed("put", stage[r], code[r], req[r], tenant[r], principal[r], g)
        /\ Leaves(r, "put", stage[r], code[r], req[r])
    BY <2>1, <2>5, PlaceOf DEF Placed, Leaves, Labels, limiter
  <2>8. StoresTyped
    BY <2>1, StoresKept DEF limiter
  <2>q. QED BY <2>1, <2>6, <2>7, <2>8, MovesKeepChain
<1>6. ASSUME GatePut(r) PROVE ChainInv'
  <2>1. /\ pc[r] = "put" /\ Judge(r, got[r].value)
        /\ cache' = [cache EXCEPT ![got[r].key] = [state |-> got[r].value, at |-> now, read |-> got[r].read]]
        /\ UNCHANGED <<now, tables, pos, neg, limiter, context, audits>>
        /\ got' = [got EXCEPT ![r] = None]
    BY <1>6 DEF GatePut
  <2>2. got[r] \in [key : GateKeys, value : States, read : 0..now]
    BY <2>1 DEF ChainInv, Loads
  <2>3. StoresTyped
    <3>1. [state |-> got[r].value, at |-> now, read |-> got[r].read] \in [state : States, at : 0..now, read : 0..now]
      BY <1>2, <2>2
    <3>2. \A k \in GateKeys : cache'[k] \in {None} \cup [state : States, at : 0..now, read : 0..now]
      BY <2>1, <3>1 DEF ChainInv, TypeOK, Fresh, Shaped
    <3>q. QED BY <2>1, <3>2 DEF StoresTyped, ChainInv, TypeOK, limiter
  <2>4. \A q \in Requests : got'[q] = IF q = r THEN None ELSE got[q]
    BY <2>1 DEF ChainInv, Fresh, Shaped
  <2>q. QED BY <2>1, <2>3, <2>4, JudgeKeepsChain
<1>q. QED BY <1>3, <1>4, <1>5, <1>6

\* Behind the gates: passing on, or answering with the event that is due.
LEMMA InnerKeepsChain ==
  ASSUME ChainInv, Fresh', NEW r \in Requests, pc[r] \in {"authz", "limit", "quota", "handler"},
         UNCHANGED <<now, tables, req, tenant, principal, stage, got>>, DOMAIN route' = Requests,
         \/ \E l \in {"limit", "quota", "handler"} : Proceed(r, l)
         \/ \E c : c # "none" /\ Answer(r, c),
         log' = log \/ (\E x : log' = log \cup {x} /\ x.req = r),
         StoresTyped
  PROVE  ChainInv'
<1>1. stage[r] = "past" /\ req[r] \in Kinds /\ code[r] = "none" /\ got[r] = None
  BY PlaceOf
<1>2. PICK l, c :
        /\ pc' = [pc EXCEPT ![r] = l]
        /\ code' = [code EXCEPT ![r] = c] \/ (code' = code /\ c = code[r])
        /\ \/ l \in {"limit", "quota", "handler"} /\ c = "none" /\ audits' = audits
           \/ /\ l = "answered" /\ c # "none"
              /\ audits' = IF req[r].route.audit THEN audits \cup {[req |-> r, code |-> c]} ELSE audits
  BY <1>1 DEF Proceed, Answer, GoTo, WriteError
<1>3. Moves(r, l, stage[r], c, req[r], tenant[r], principal[r], got[r])
  BY <1>2, StepIsMove
<1>4. Placed(l, stage[r], c, req[r], tenant[r], principal[r], got[r])
  BY <1>1, <1>2, PlaceOf DEF Placed, Labels
<1>5. Leaves(r, l, stage[r], c, req[r])
  BY <1>1, <1>2 DEF Leaves
<1>q. QED BY <1>3, <1>4, <1>5, MovesKeepChain

\* Nobody is answered "none".
LEMMA Verdicts ==
  ASSUME NEW r, NEW rt
  PROVE  AuthzVerdict(r, rt) # "none" /\ QuotaVerdict(r, rt) # "none"
  BY DEF AuthzVerdict, QuotaVerdict

LEMMA BehindGatesKeepsChain ==
  ASSUME ChainInv, Fresh', Logs', NEW r \in Requests,
         Authorize(r) \/ RateLimit(r) \/ Quota(r) \/ Handle(r)
  PROVE  ChainInv'
<1>1. DOMAIN route = Requests
  BY DEF ChainInv, Contexts
<1>2. ASSUME Authorize(r) PROVE ChainInv'
  <2>1. /\ pc[r] = "authz" /\ UNCHANGED <<now, tables, caches, limiter, context, stage, got>>
    BY <1>2 DEF Authorize
  <2>2. Proceed(r, "limit") \/ \E c : c # "none" /\ Answer(r, c)
    BY <1>2, Verdicts DEF Authorize
  <2>3. StoresTyped
    BY <2>1, StoresKept DEF limiter
  <2>q. QED BY <1>1, <2>1, <2>2, <2>3, InnerKeepsChain DEF context, limiter
<1>3. ASSUME RateLimit(r) PROVE ChainInv'
  <2>1. /\ pc[r] = "limit" /\ UNCHANGED <<now, tables, caches, context, stage, got>>
    BY <1>3 DEF RateLimit
  <2>2. Proceed(r, "quota") \/ Answer(r, "rate.limited")
    BY <1>3 DEF RateLimit
  <2>3. \E x : log' = log \cup {x} /\ x.req = r
    <3>1. PICK ok \in BOOLEAN : Logged(r, ok)
      BY <1>3 DEF RateLimit
    <3>2. PICK x : x = [req |-> r, key |-> RateKey(r), class |-> req[r].route.class, at |-> now, ok |-> ok]
      OBVIOUS
    <3>3. log' = log \cup {x} /\ x.req = r
      BY <3>1, <3>2 DEF Logged
    <3>q. QED BY <3>3
  <2>4. StoresTyped
    BY <2>1 DEF StoresTyped, Logs, ChainInv, TypeOK, caches
  <2>q. QED BY <1>1, <2>1, <2>2, <2>3, <2>4, InnerKeepsChain DEF context
<1>4. ASSUME Quota(r) PROVE ChainInv'
  <2>1. /\ pc[r] = "quota"
        /\ UNCHANGED <<now, tables, caches, limiter, req, tenant, principal, stage, got>>
    BY <1>4 DEF Quota
  <2>2. Proceed(r, "handler") \/ \E c : c # "none" /\ Answer(r, c)
    BY <1>4, Verdicts DEF Quota
  <2>3. DOMAIN route' = Requests
    BY <1>1, <1>4 DEF Quota
  <2>4. StoresTyped
    BY <2>1, StoresKept DEF limiter
  <2>q. QED BY <2>1, <2>2, <2>3, <2>4, InnerKeepsChain DEF limiter
<1>5. ASSUME Handle(r) PROVE ChainInv'
  <2>1. /\ pc[r] = "handler" /\ UNCHANGED <<now, tables, caches, limiter, context, stage, got>>
        /\ Answer(r, "ok")
    BY <1>5 DEF Handle
  <2>3. StoresTyped
    BY <2>1, StoresKept DEF limiter
  <2>q. QED BY <1>1, <2>1, <2>3, InnerKeepsChain DEF context, limiter
<1>q. QED BY <1>2, <1>3, <1>4, <1>5

\* A change of the tables, a hook, a tick of the clock: no request moves.
LEMMA OthersKeepChain ==
  ASSUME ChainInv, Fresh', TypeOK',
         UNCHANGED <<req, tenant, principal, route, pc, stage, got, code, log, audits>>,
         now' >= now
  PROVE  ChainInv'
<1>1. 0..now \subseteq 0..now'
  BY DEF ChainInv, Fresh, Shaped
<1>2. Contexts' /\ Stations' /\ Traces'
  BY DEF ChainInv, Contexts, Stations, Traces, RefusalsLeaveNoTrace
<1>3. Loads'
  BY <1>1 DEF ChainInv, Loads
<1>q. QED BY <1>2, <1>3 DEF ChainInv

LEMMA TablesKeepChain ==
  ASSUME ChainInv, Fresh', Logs', Tables
  PROVE  ChainInv'
<1>0. now \in 0..now /\ {MaxNow, MaxChanges} \subseteq Nat
  BY AdmissionAssumption DEF ChainInv, Fresh, Shaped
<1>1. ASSUME NEW k \in GateKeys, NEW s \in States, SetState(k, s) PROVE ChainInv'
  <2>1. TypeOK'
    BY <1>0, <1>1 DEF SetState, Changed, ChainInv, TypeOK, caches, limiter, context
  <2>q. QED BY <1>0, <1>1, <2>1, OthersKeepChain DEF SetState, limiter, context
<1>2. ASSUME NEW k \in GateKeys, Invalidate(k) PROVE ChainInv'
  <2>1. \A h \in GateKeys : cache'[h] = None \/ cache'[h] = cache[h]
    BY <1>2 DEF Invalidate, ChainInv, Fresh, Shaped
  <2>2. TypeOK'
    BY <1>2, <2>1 DEF Invalidate, ChainInv, TypeOK, limiter, context
  <2>q. QED BY <1>0, <1>2, <2>2, OthersKeepChain DEF Invalidate, limiter, context
<1>3. ASSUME NEW h \in Hosts, NEW t \in Tenants, SetHost(h, t) PROVE ChainInv'
  <2>1. TypeOK'
    BY <1>0, <1>3 DEF SetHost, Changed, ChainInv, TypeOK, caches, limiter, context
  <2>q. QED BY <1>0, <1>3, <2>1, OthersKeepChain DEF SetHost, limiter, context
<1>4. ASSUME NEW t \in Tenants, NEW m \in Modules, NEW on \in BOOLEAN, SetModule(t, m, on) PROVE ChainInv'
  <2>1. TypeOK'
    BY <1>0, <1>4 DEF SetModule, Changed, ChainInv, TypeOK, caches, limiter, context
  <2>q. QED BY <1>0, <1>4, <2>1, OthersKeepChain DEF SetModule, limiter, context
<1>q. QED BY <1>1, <1>2, <1>3, <1>4 DEF Tables

LEMMA TickKeepsChain ==
  ASSUME ChainInv, Fresh', Logs', Tick
  PROVE  ChainInv'
<1>1. now \in 0..MaxNow /\ now < MaxNow /\ now' = now + 1 /\ MaxNow \in Nat
  BY AdmissionAssumption DEF Tick, ChainInv, TypeOK
<1>2. 0..now \subseteq 0..now' /\ now' \in 0..MaxNow
  BY <1>1
<1>3. UNCHANGED <<tables, caches, limiter, context, pc, stage, got, code, audits>>
  BY DEF Tick
<1>4. /\ hostSince' \in [Hosts -> 0..now'] /\ since' \in [GateKeys -> 0..now']
  BY <1>2, <1>3 DEF ChainInv, TypeOK, tables
<1>5. /\ \A h \in Hosts : /\ pos'[h] \in {None} \cup [id : Tenants, at : 0..now', read : 0..now']
                          /\ neg'[h] \in {None} \cup [at : 0..now', read : 0..now']
      /\ \A k \in GateKeys : cache'[k] \in {None} \cup [state : States, at : 0..now', read : 0..now']
  BY <1>2, <1>3 DEF ChainInv, TypeOK, caches
<1>6. TypeOK'
  BY <1>2, <1>3, <1>4, <1>5 DEF ChainInv, TypeOK, Logs, tables, context
<1>q. QED BY <1>1, <1>3, <1>6, OthersKeepChain DEF limiter, context

TraceInv == ChainInv /\ Logs

LEMMA InitTrace == Init => TraceInv
  BY InitChain, EmptySeq DEF Init, TraceInv, Logs, Ordered

LEMMA NextKeepsTrace ==
  ASSUME TraceInv, [Next]_vars
  PROVE  TraceInv'
<1>1. Fresh'
  BY NextKeepsFresh DEF TraceInv, ChainInv
<1>2. Logs'
  <2>1. CASE UNCHANGED hits /\ (now' = now \/ now' = now + 1)
    BY <2>1, OthersKeepLogs DEF TraceInv
  <2>2. ASSUME NEW r \in Requests, RateLimit(r) PROVE Logs'
    <3>1. req[r] \in Kinds
      BY <2>2, PlaceOf DEF TraceInv, RateLimit
    <3>q. QED BY <2>2, <3>1, RateLimitKeepsLogs DEF TraceInv
  <2>3. ASSUME NEW r \in Requests, Serve(r), ~RateLimit(r) PROVE UNCHANGED <<hits, now>>
    BY <2>3 DEF Serve, ResolveHit, ResolveMiss, LoadHost, PutHost, Authenticate, GateHit, GateMiss,
                GateLoad, GatePut, Authorize, Quota, Handle, limiter
  <2>4. Clients \/ Tables => UNCHANGED <<hits, now>>
    BY DEF Clients, Tables, Send, SetState, Invalidate, SetHost, SetModule, limiter
  <2>5. Tick => UNCHANGED hits /\ now' = now + 1
    BY DEF Tick, limiter
  <2>6. UNCHANGED vars => UNCHANGED <<hits, now>>
    BY DEF vars, limiter
  <2>q. QED BY <2>1, <2>2, <2>3, <2>4, <2>5, <2>6 DEF Next
<1>3. ChainInv'
  <2>1. CASE Clients
    BY <1>1, <2>1, SendKeepsChain DEF Clients, TraceInv
  <2>2. ASSUME NEW r \in Requests, Serve(r) PROVE ChainInv'
    BY <1>1, <1>2, <2>2, ResolverKeepsChain, AuthenticateKeepsChain, GateKeepsChain,
       BehindGatesKeepsChain DEF Serve, TraceInv
  <2>3. CASE Tables
    BY <1>1, <1>2, <2>3, TablesKeepChain DEF TraceInv
  <2>4. CASE Tick
    BY <1>1, <1>2, <2>4, TickKeepsChain DEF TraceInv
  <2>5. CASE UNCHANGED vars
    <3>1. UNCHANGED <<now, tables, caches, limiter, context, pc, stage, got, code, audits>>
      BY <2>5 DEF vars
    <3>2. TypeOK'
      BY <3>1 DEF TraceInv, ChainInv, TypeOK, tables, caches, limiter, context
    <3>3. now' >= now
      BY <3>1 DEF TraceInv, Logs
    <3>q. QED BY <1>1, <3>1, <3>2, <3>3, OthersKeepChain DEF TraceInv, limiter, context
  <2>q. QED BY <2>1, <2>2, <2>3, <2>4, <2>5 DEF Next
<1>q. QED BY <1>2, <1>3 DEF TraceInv

\* auditWrap and the order of the chain: refusals outside it leave no trace, and
\* every answer of a sensitive action past the gates is audited once, as given.
THEOREM TracesFollowAnswers == Spec => []TracesMatchAnswers
<1>1. TraceInv => TracesMatchAnswers
  BY DEF TraceInv, ChainInv, Traces, TracesMatchAnswers
<1>q. QED BY <1>1, InitTrace, NextKeepsTrace, PTL DEF Spec

-----------------------------------------------------------------------------
(* The limiter counts what it admits.                                        *)
(*                                                                           *)
(* ClassLimit compares the admissions of a caller, all of them, with what the*)
(* limiter answered; the limiter looks at a log it prunes as it goes.  What  *)
(* connects them is that of the times it may still be asked about, none is   *)
(* missing from the log and none is there twice.                             *)

\* How many times of s are t or later.
Later(s, t) == Len(Younger(s, t, 1))

Admitted(k, t) == {y \in Calls(k) : y.ok /\ y.at >= t}

\* For a caller of one class, the log counts the admissions of the window right,
\* and is never longer than the limit.
Counted ==
  \A k \in DOMAIN hits, c \in DOMAIN Policy : SoleClass(k, c) =>
    /\ Len(hits[k]) <= Policy[c].limit
    /\ \A t \in Nat : now - t < Policy[c].window => Cardinality(Admitted(k, t)) = Later(hits[k], t)

\* A request is past the limiter once it is in the log of calls.
Called ==
  /\ IsFiniteSet(log)
  /\ \A x \in log : x.req \in Requests /\ x.at \in 0..now /\ pc[x.req] \in {"quota", "handler", "answered"}

LimitInv == TraceInv /\ DOMAIN hits = Ids \cup Addresses /\ Called /\ Counted /\ ClassLimit

\* What Younger drops and keeps, of a log in the order of time.
LEMMA LaterIs ==
  ASSUME NEW n \in Nat, NEW s \in Seq(0..n), Ordered(s), NEW t \in Nat
  PROVE  \E e \in 0..Len(s) : /\ Later(s, t) = Len(s) - e
                              /\ \A i \in 1..Len(s) : i <= e <=> s[i] < t
<1>1. Len(s) \in Nat /\ DOMAIN s = 1..Len(s) /\ \A i \in 1..Len(s) : s[i] \in 0..n
  BY LenProperties
<1>2. PICK e \in 0..Len(s) : Expired(s, t, 1) = 1..e /\ Len(Younger(s, t, 1)) = Len(s) - e
  <2>1. 1 \in Nat
    OBVIOUS
  <2>2. \E d \in 0..Len(s) : Pruned(n, s, t, 1, d, Younger(s, t, 1))
    BY <2>1, PruningIsExact
  <2>q. QED BY <2>2 DEF Pruned
<1>3. \A i \in 1..Len(s) : i \in Expired(s, t, 1) <=> s[i] < t
  BY <1>1 DEF Expired
<1>4. \A i \in 1..Len(s) : i \in 1..e <=> i <= e
  BY <1>1
<1>q. QED BY <1>2, <1>3, <1>4 DEF Later

\* The boundary between the times before t and the others is at one place only.
LEMMA OneBoundary ==
  ASSUME NEW l \in Nat, NEW a \in 0..l, NEW b \in 0..l,
         \A i \in 1..l : i <= a <=> i <= b
  PROVE  a = b
<1>1. a > b => a \in 1..l /\ ~(a <= b)
  OBVIOUS
<1>2. b > a => b \in 1..l /\ ~(b <= a)
  OBVIOUS
<1>q. QED BY <1>1, <1>2

\* Pruning at n loses no time that is still in the window.
LEMMA LaterOfPruned ==
  ASSUME NEW n \in Nat, NEW s \in Seq(0..n), Ordered(s), NEW window \in Nat,
         NEW t \in Nat, n - t < window
  PROVE  Later(Younger(s, n, window), t) = Later(s, t)
<1>1. Len(s) \in Nat /\ DOMAIN s = 1..Len(s) /\ \A i \in 1..Len(s) : s[i] \in 0..n
  BY LenProperties
<1> PICK keep : keep = Younger(s, n, window)
  OBVIOUS
<1>2. PICK d \in 0..Len(s) : Pruned(n, s, n, window, d, keep)
  BY PruningIsExact
<1> USE DEF Pruned
<1>3. PICK e \in 0..Len(s) : /\ Later(s, t) = Len(s) - e
                             /\ \A i \in 1..Len(s) : i <= e <=> s[i] < t
  BY LaterIs
<1>4. PICK f \in 0..Len(keep) : /\ Later(keep, t) = Len(keep) - f
                                /\ \A i \in 1..Len(keep) : i <= f <=> keep[i] < t
  BY <1>2, LaterIs
<1>5. \A i \in 1..Len(s) : i <= d => s[i] < t
  <2> SUFFICES ASSUME NEW i \in 1..Len(s), i <= d PROVE s[i] < t
    OBVIOUS
  <2>1. i \in Expired(s, n, window)
    BY <1>1, <1>2
  <2>2. n - s[i] >= window /\ s[i] \in 0..n
    BY <1>1, <2>1 DEF Expired
  <2>q. QED BY <2>2
<1>6. \A i \in 1..Len(s) : i <= d + f <=> s[i] < t
  <2> SUFFICES ASSUME NEW i \in 1..Len(s) PROVE i <= d + f <=> s[i] < t
    OBVIOUS
  <2>1. CASE i <= d
    BY <1>1, <1>2, <1>4, <1>5, <2>1
  <2>2. CASE i > d
    <3>1. PICK j \in 1..Len(keep) : i = d + j
      <4>1. i - d \in 1..Len(keep) /\ i = d + (i - d)
        BY <1>1, <1>2, <2>2
      <4>q. QED BY <4>1
    <3>2. keep[j] = s[i] /\ (j <= f <=> keep[j] < t)
      BY <1>2, <1>4, <3>1
    <3>3. j <= f <=> i <= d + f
      BY <1>1, <1>2, <1>4, <3>1
    <3>q. QED BY <3>2, <3>3
  <2>q. QED BY <1>1, <1>2, <2>1, <2>2
<1>7. d + f \in 0..Len(s)
  BY <1>1, <1>2, <1>4
<1>8. \A i \in 1..Len(s) : i <= d + f <=> i <= e
  BY <1>3, <1>6
<1>9. d + f = e
  <2>1. PICK l \in Nat : l = Len(s)
    BY <1>1
  <2>2. e \in 0..l /\ d + f \in 0..l /\ \A i \in 1..l : i <= d + f <=> i <= e
    BY <1>7, <1>8, <2>1
  <2>q. QED BY <2>2, OneBoundary
<1>10. Len(keep) = Len(s) - d
  BY <1>2
<1>11. (Len(s) - d) - f = Len(s) - e
  BY <1>1, <1>9
<1>q. QED BY <1>3, <1>4, <1>10, <1>11

\* A hit at n counts from every time up to n.
LEMMA LaterOfAppend ==
  ASSUME NEW n \in Nat, NEW s \in Seq(0..n), Ordered(s), NEW t \in Nat
  PROVE  Later(Append(s, n), t) = IF t <= n THEN Later(s, t) + 1 ELSE Later(s, t)
<1>1. Len(s) \in Nat /\ DOMAIN s = 1..Len(s) /\ \A i \in 1..Len(s) : s[i] \in 0..n
  BY LenProperties
<1>2. PICK l, a : l \in Nat /\ l = Len(s) /\ a = Append(s, n)
  BY <1>1
<1>3. /\ a \in Seq(0..n) /\ Ordered(a) /\ Len(a) = l + 1
      /\ \A i \in 1..l : a[i] = s[i]
      /\ a[l + 1] = n
  <2>1. n \in 0..n
    OBVIOUS
  <2>q. QED BY <1>2, <2>1, AppendOrdered, AppendProperties
<1>4. PICK e \in 0..l : /\ Later(s, t) = l - e
                        /\ \A i \in 1..l : i <= e <=> s[i] < t
  BY <1>2, LaterIs
<1>5. PICK f \in 0..(l + 1) : /\ Later(a, t) = (l + 1) - f
                              /\ \A i \in 1..(l + 1) : i <= f <=> a[i] < t
  BY <1>3, LaterIs
<1>6. CASE t <= n
  <2>1. f \in 0..l
    <3>1. ~(l + 1 <= f)
      BY <1>2, <1>3, <1>5, <1>6
    <3>q. QED BY <1>2, <1>5, <3>1
  <2>2. \A i \in 1..l : i <= f <=> i <= e
    <3>1. \A i \in 1..l : i \in 1..(l + 1)
      BY <1>2
    <3>q. QED BY <1>3, <1>4, <1>5, <3>1
  <2>3. f = e
    BY <1>2, <1>4, <2>1, <2>2, OneBoundary
  <2>q. QED BY <1>2, <1>4, <1>5, <1>6, <2>3
<1>7. CASE ~(t <= n)
  <2>1. \A i \in 1..l : s[i] < t
    BY <1>1, <1>2, <1>7
  <2>2. e = l
    <3>1. \A i \in 1..l : i <= e <=> i <= l
      BY <1>4, <2>1
    <3>q. QED BY <1>2, <1>4, <3>1, OneBoundary
  <2>3. f = l + 1
    <3>1. \A i \in 1..(l + 1) : i <= f <=> i <= l + 1
      <4>1. \A i \in 1..(l + 1) : a[i] < t
        BY <1>2, <1>3, <1>7, <2>1
      <4>q. QED BY <1>5, <4>1
    <3>q. QED BY <1>2, <1>5, <3>1, OneBoundary
  <2>q. QED BY <1>2, <1>4, <1>5, <1>7, <2>2, <2>3
<1>q. QED BY <1>6, <1>7

\* What pruning leaves is what lies in the window.
LEMMA PrunedIsLater ==
  ASSUME NEW n \in Nat, NEW s \in Seq(0..n), Ordered(s), NEW window \in Nat \ {0}
  PROVE  \E t \in Nat : /\ n - t < window
                        /\ Len(Younger(s, n, window)) = Later(s, t)
                        /\ \A u \in 0..n : u >= t <=> n - u < window
<1>1. Len(s) \in Nat /\ DOMAIN s = 1..Len(s) /\ \A i \in 1..Len(s) : s[i] \in 0..n
  BY LenProperties
<1>2. PICK t \in Nat : n - t < window /\ \A u \in 0..n : u >= t <=> n - u < window
  <2>1. CASE window > n
    BY <2>1
  <2>2. CASE window <= n
    <3>1. n - window + 1 \in Nat /\ n - (n - window + 1) < window
      BY <2>2
    <3>2. \A u \in 0..n : u >= n - window + 1 <=> n - u < window
      OBVIOUS
    <3>q. QED BY <3>1, <3>2
  <2>q. QED BY <2>1, <2>2
<1>3. Expired(s, n, window) = Expired(s, t, 1)
  <2>1. ASSUME NEW u \in 0..n PROVE n - u >= window <=> t - u >= 1
    <3>1. u >= t <=> n - u < window
      BY <1>2
    <3>q. QED BY <3>1
  <2>2. \A i \in 1..Len(s) : n - s[i] >= window <=> t - s[i] >= 1
    BY <1>1, <2>1
  <2>q. QED BY <1>1, <2>2 DEF Expired
<1>4. Younger(s, n, window) = Younger(s, t, 1)
  BY <1>3 DEF Younger
<1>q. QED BY <1>2, <1>4 DEF Later

LEMMA InitLimit == Init => LimitInv
<1> SUFFICES ASSUME Init PROVE LimitInv
  OBVIOUS
<1>1. \A k \in DOMAIN hits : hits[k] = <<>>
  BY DEF Init
<1>2. Counted
  <2> SUFFICES ASSUME NEW k \in DOMAIN hits, NEW c \in DOMAIN Policy, NEW t \in Nat
               PROVE  /\ Len(hits[k]) <= Policy[c].limit
                      /\ Cardinality(Admitted(k, t)) = Later(hits[k], t)
    BY DEF Counted
  <2>1. <<>> \in Seq(0..0) /\ Len(<<>>) = 0 /\ Ordered(<<>>)
    BY EmptySeq DEF Ordered
  <2>2. Later(<<>>, t) = 0
    <3>1. 0 \in Nat
      OBVIOUS
    <3>2. PICK s : s = <<>>
      OBVIOUS
    <3>3. s \in Seq(0..0) /\ Len(s) = 0 /\ Ordered(s)
      BY <2>1, <3>2
    <3>4. PICK e \in 0..Len(s) : Later(s, t) = Len(s) - e
      <4>1. \E e \in 0..Len(s) : /\ Later(s, t) = Len(s) - e
                               /\ \A i \in 1..Len(s) : i <= e <=> s[i] < t
        BY <3>1, <3>3, LaterIs
      <4>q. QED BY <4>1
    <3>q. QED BY <3>2, <3>3, <3>4
  <2>3. Admitted(k, t) = {}
    BY DEF Init, Admitted, Calls
  <2>q. QED BY <1>1, <2>1, <2>2, <2>3, FS_EmptySet, AdmissionAssumption
<1>3. Called /\ ClassLimit
  BY FS_EmptySet DEF Init, Called, ClassLimit, Calls
<1>q. QED BY <1>2, <1>3, InitTrace DEF LimitInv, Init

\* Steps that call nobody's limiter.
LEMMA OthersKeepLimit ==
  ASSUME LimitInv, TraceInv', UNCHANGED <<hits, log>>, now' = now \/ now' = now + 1,
         \A q \in Requests : pc[q] \in {"quota", "handler", "answered"} =>
                               pc'[q] \in {"quota", "handler", "answered"}
  PROVE  LimitInv'
<1>1. now \in Nat /\ 0..now \subseteq 0..now'
  BY DEF LimitInv, TraceInv, Logs
<1>2. Called'
  BY <1>1 DEF LimitInv, Called
<1>3. ClassLimit'
  BY DEF LimitInv, ClassLimit, SoleClass, Calls
<1>4. Counted'
  <2> SUFFICES ASSUME NEW k \in DOMAIN hits, NEW c \in DOMAIN Policy, SoleClass(k, c)
               PROVE  /\ Len(hits[k]) <= Policy[c].limit
                      /\ \A t \in Nat : now' - t < Policy[c].window =>
                           Cardinality(Admitted(k, t)) = Later(hits[k], t)
    BY DEF Counted, SoleClass, Calls, Admitted
  <2>1. \A t \in Nat : now' - t < Policy[c].window => now - t < Policy[c].window
    BY <1>1, AdmissionAssumption
  <2>q. QED BY <2>1 DEF LimitInv, Counted
<1>q. QED BY <1>2, <1>3, <1>4 DEF LimitInv

\* A call of the limiter: one more admission in the log and in the window, or
\* none in either.
LEMMA RateLimitKeepsLimit ==
  ASSUME LimitInv, TraceInv', NEW r \in Requests, RateLimit(r)
  PROVE  LimitInv'
<1>1. /\ pc[r] = "limit" /\ req[r] \in Kinds /\ now' = now /\ now \in Nat
  BY PlaceOf DEF RateLimit, LimitInv, TraceInv, Logs
<1>2. PICK k0, c0, keep, x :
        /\ k0 = RateKey(r) /\ c0 = req[r].route.class /\ c0 \in DOMAIN Policy
        /\ keep = Kept(k0, Policy[c0].window)
        /\ x.req = r /\ x.key = k0 /\ x.class = c0 /\ x.at = now
        /\ log' = log \cup {x}
        /\ \/ /\ Fits(keep, Policy[c0].limit) /\ x.ok
              /\ hits' = [hits EXCEPT ![k0] = Append(keep, now)]
           \/ /\ ~Fits(keep, Policy[c0].limit) /\ ~x.ok
              /\ hits' = [hits EXCEPT ![k0] = keep]
  <2>1. req[r].route.class \in DOMAIN Policy
    BY <1>1, KindsAssumption
  <2>2. PICK ok \in BOOLEAN :
          /\ Logged(r, ok)
          /\ LET k == RateKey(r)
                 pol == Policy[req[r].route.class]
                 keep == Kept(k, pol.window)
             IN  \/ Fits(keep, pol.limit) /\ ok /\ hits' = [hits EXCEPT ![k] = Append(keep, now)]
                 \/ ~Fits(keep, pol.limit) /\ ~ok /\ hits' = [hits EXCEPT ![k] = keep]
    BY DEF RateLimit
  <2>3. PICK x : /\ x = [req |-> r, key |-> RateKey(r), class |-> req[r].route.class, at |-> now, ok |-> ok]
                 /\ log' = log \cup {x}
    BY <2>2, Zenon DEF Logged
  <2>4. x.req = r /\ x.key = RateKey(r) /\ x.class = req[r].route.class /\ x.at = now /\ x.ok = ok
    BY <2>3
  <2>q. QED BY <2>1, <2>2, <2>3, <2>4
<1>3. x \notin log
  BY <1>1, <1>2 DEF LimitInv, Called
<1>4. DOMAIN hits' = Ids \cup Addresses
  BY <1>2 DEF LimitInv
<1>5. Called'
  <2>1. IsFiniteSet(log')
    BY <1>2, FS_AddElement DEF LimitInv, Called
  <2>2. pc'[r] \in {"quota", "answered"} /\ \A q \in Requests : q # r => pc'[q] = pc[q]
    <3>1. pc' = [pc EXCEPT ![r] = "quota"] \/ pc' = [pc EXCEPT ![r] = "answered"]
      BY Zenon DEF RateLimit, Proceed, GoTo, Answer, WriteError
    <3>2. pc \in [Requests -> Labels]
      BY DEF LimitInv, TraceInv, ChainInv, TypeOK
    <3>q. QED BY <3>1, <3>2
  <2>3. now \in 0..now
    BY <1>1
  <2>q. QED BY <1>1, <1>2, <2>1, <2>2, <2>3 DEF LimitInv, Called
<1>6. ASSUME NEW k \in DOMAIN hits', NEW c \in DOMAIN Policy, SoleClass(k, c)'
      PROVE  /\ Len(hits'[k]) <= Policy[c].limit
             /\ \A t \in Nat : now' - t < Policy[c].window =>
                  Cardinality(Admitted(k, t)') = Later(hits'[k], t)
             /\ \A z \in Calls(k)' :
                  LET window == {y \in Calls(k)' : y.ok /\ y.at <= z.at /\ z.at - y.at < Policy[c].window}
                  IN  IF z.ok THEN Cardinality(window) <= Policy[c].limit
                              ELSE Cardinality(window) >= Policy[c].limit
  <2>1. k \in DOMAIN hits /\ SoleClass(k, c)
    BY <1>2, <1>6 DEF SoleClass, Calls
  <2>2. CASE k # k0
    <3>1. hits'[k] = hits[k] /\ Calls(k)' = Calls(k)
      BY <1>2, <2>1, <2>2 DEF Calls
    <3>q. QED BY <1>1, <2>1, <3>1 DEF LimitInv, Counted, ClassLimit, Admitted
  <2>3. CASE k = k0
    <3>1. c = c0
      BY <1>2, <1>6, <2>3 DEF SoleClass, Calls
    <3>2. PICK limit, window : /\ limit = Policy[c].limit /\ window = Policy[c].window
                               /\ limit \in Nat \ {0} /\ window \in Nat \ {0}
      BY AdmissionAssumption
    <3>3. PICK s : s = hits[k] /\ s \in Seq(0..now) /\ Ordered(s) /\ Len(s) \in Nat
      BY <1>1, <2>1, LenProperties DEF LimitInv, TraceInv, Logs
    <3>4. /\ keep = Younger(s, now, window) /\ keep \in Seq(0..now) /\ Ordered(keep)
          /\ Len(keep) \in Nat /\ Len(keep) <= Len(s)
      <4>1. keep = Younger(s, now, window)
        BY <1>2, <2>3, <3>1, <3>2, <3>3 DEF Kept
      <4>2. PICK d \in 0..Len(s) : Pruned(now, s, now, window, d, keep)
        BY <1>1, <3>2, <3>3, <4>1, PruningIsExact
      <4>q. QED BY <3>3, <4>1, <4>2 DEF Pruned
    <3>5. /\ Len(s) <= limit
          /\ \A t \in Nat : now - t < window => Cardinality(Admitted(k, t)) = Later(keep, t)
      <4>1. \A t \in Nat : now - t < window => Later(keep, t) = Later(s, t)
        BY <1>1, <3>2, <3>3, <3>4, LaterOfPruned
      <4>q. QED BY <2>1, <3>2, <3>3, <4>1 DEF LimitInv, Counted
    <3>6. \A T \in SUBSET log : IsFiniteSet(T) /\ Cardinality(T) \in Nat
      BY FS_Subset, FS_CardinalityType DEF LimitInv, Called
    <3>7. PICK t0 \in Nat : /\ now - t0 < window /\ Len(keep) = Later(s, t0)
                            /\ \A u \in 0..now : u >= t0 <=> now - u < window
      BY <1>1, <3>2, <3>3, <3>4, PrunedIsLater
    <3>8. Cardinality(Admitted(k, t0)) = Len(keep)
      BY <2>1, <3>2, <3>3, <3>7 DEF LimitInv, Counted
    <3>9. \A y \in log : y.at \in 0..now
      BY DEF LimitInv, Called
    <3>10. Calls(k)' = Calls(k) \cup {x}
      BY <1>2, <2>3 DEF Calls
    <3>11. \A t \in Nat : /\ x.ok /\ t <= now => Admitted(k, t)' = Admitted(k, t) \cup {x}
                          /\ ~x.ok \/ t > now => Admitted(k, t)' = Admitted(k, t)
      BY <1>1, <1>2, <3>10 DEF Admitted
    <3>12. \A t \in Nat : Admitted(k, t) \in SUBSET log /\ x \notin Admitted(k, t)
      BY <1>3 DEF Admitted, Calls
    <3>13. PICK new : new = hits'[k]
      OBVIOUS
    <3>14. \/ x.ok /\ Len(keep) < limit /\ new = Append(keep, now)
           \/ ~x.ok /\ ~(Len(keep) < limit) /\ new = keep
      BY <1>2, <2>1, <2>3, <3>1, <3>2, <3>13 DEF Fits
    <3>15. Len(new) <= limit
      <4>1. Len(Append(keep, now)) = Len(keep) + 1
        BY <1>1, <3>4, AppendOrdered
      <4>q. QED BY <3>2, <3>3, <3>4, <3>5, <3>14, <4>1
    <3>16. ASSUME NEW t \in Nat, now - t < window
           PROVE  Cardinality(Admitted(k, t)') = Later(new, t)
      <4>1. CASE x.ok /\ t <= now
        <5>1. Cardinality(Admitted(k, t) \cup {x}) = Cardinality(Admitted(k, t)) + 1
          BY <3>6, <3>12, FS_AddElement
        <5>2. Later(new, t) = Later(keep, t) + 1
          BY <1>1, <3>4, <3>14, <4>1, LaterOfAppend
        <5>q. QED BY <3>5, <3>11, <3>16, <4>1, <5>1, <5>2
      <4>2. CASE x.ok /\ t > now
        <5>1. Later(new, t) = Later(keep, t)
          <6>1. new = Append(keep, now)
            BY <3>14, <4>2
          <6>2. ~(t <= now)
            BY <1>1, <4>2
          <6>q. QED BY <1>1, <3>4, <6>1, <6>2, LaterOfAppend
        <5>q. QED BY <3>5, <3>11, <3>16, <4>2, <5>1
      <4>3. CASE ~x.ok
        BY <3>5, <3>11, <3>14, <3>16, <4>3
      <4>q. QED BY <1>1, <4>1, <4>2, <4>3
    <3>17. ASSUME NEW z \in Calls(k)',
                  NEW W, W = {y \in Calls(k)' : y.ok /\ y.at <= z.at /\ z.at - y.at < window}
           PROVE  IF z.ok THEN Cardinality(W) <= limit ELSE Cardinality(W) >= limit
      <4>1. t0 <= now
        BY <1>1, <3>2, <3>7
      <4>2. CASE z.at = now
        <5>1. W = Admitted(k, t0)'
          <6>1. \A y \in Calls(k)' : y.at \in 0..now
            BY <1>1, <1>2, <3>9, <3>10 DEF Calls
          <6>2. \A y \in Calls(k)' : (y.at <= z.at /\ z.at - y.at < window) <=> y.at >= t0
            BY <1>1, <3>7, <4>2, <6>1
          <6>q. QED BY <3>17, <6>2 DEF Admitted
        <5>2. CASE x.ok
          <6>1. Cardinality(W) = Len(keep) + 1
            BY <3>6, <3>8, <3>11, <3>12, <4>1, <5>1, <5>2, FS_AddElement
          <6>2. Cardinality(W) <= limit
            BY <3>2, <3>4, <3>14, <5>2, <6>1
          <6>3. CASE ~z.ok
            <7>1. z \in Calls(k)
              BY <3>10, <5>2, <6>3
            <7>2. PICK V : V = {y \in Calls(k) : y.ok /\ y.at <= z.at /\ z.at - y.at < window}
              OBVIOUS
            <7>3. Cardinality(V) >= limit
              BY <2>1, <3>2, <6>3, <7>1, <7>2 DEF LimitInv, ClassLimit
            <7>4. V \subseteq W /\ IsFiniteSet(W) /\ IsFiniteSet(V)
              <8>1. V \subseteq W
                BY <3>10, <3>17, <7>2
              <8>2. Admitted(k, t0) \cup {x} \subseteq log'
                BY <1>2, <3>12
              <8>3. IsFiniteSet(log')
                BY <1>5 DEF Called
              <8>4. IsFiniteSet(W)
                BY <3>11, <4>1, <5>1, <5>2, <8>2, <8>3, FS_Subset
              <8>q. QED BY <8>1, <8>4, FS_Subset
            <7>5. Cardinality(V) <= Cardinality(W) /\ Cardinality(V) \in Nat /\ Cardinality(W) \in Nat
              BY <7>4, FS_Subset, FS_CardinalityType
            <7>q. QED BY <3>2, <6>3, <7>3, <7>5
          <6>q. QED BY <6>2, <6>3
        <5>3. CASE ~x.ok
          <6>1. Cardinality(W) = Len(keep) /\ Len(keep) >= limit
            BY <3>2, <3>4, <3>8, <3>11, <3>14, <5>1, <5>3
          <6>2. CASE z.ok
            BY <3>2, <3>3, <3>4, <3>5, <6>1, <6>2
          <6>q. QED BY <6>1, <6>2
        <5>q. QED BY <5>2, <5>3
      <4>3. CASE z.at # now
        <5>1. z \in Calls(k) /\ z.at \in 0..now
          BY <1>2, <3>9, <3>10, <4>3 DEF Calls
        <5>2. W = {y \in Calls(k) : y.ok /\ y.at <= z.at /\ z.at - y.at < window}
          BY <1>1, <1>2, <3>10, <3>17, <4>3, <5>1
        <5>q. QED BY <2>1, <3>2, <5>1, <5>2 DEF LimitInv, ClassLimit
      <4>q. QED BY <4>2, <4>3
    <3>q. QED BY <1>1, <3>2, <3>13, <3>15, <3>16, <3>17
  <2>q. QED BY <2>2, <2>3
<1>7. Counted' /\ ClassLimit'
  BY <1>6 DEF Counted, ClassLimit
<1>q. QED BY <1>4, <1>5, <1>7 DEF LimitInv

\* No step but the limiter's own touches its logs, and nobody who is past it
\* comes back.
LEMMA OtherSteps ==
  ASSUME LimitInv, [Next]_vars, \A r \in Requests : ~RateLimit(r)
  PROVE  /\ UNCHANGED <<hits, log>>
         /\ now' = now \/ now' = now + 1
         /\ \A q \in Requests : pc[q] \in {"quota", "handler", "answered"} =>
              pc'[q] \in {"quota", "handler", "answered"}
<1> USE DEF limiter
<1>1. DOMAIN pc = Requests
  BY DEF LimitInv, TraceInv, ChainInv, TypeOK
<1>2. ASSUME NEW r \in Requests, NEW l, pc' = [pc EXCEPT ![r] = l],
             pc[r] \in {"quota", "handler", "answered"} => l \in {"quota", "handler", "answered"}
      PROVE  \A q \in Requests : pc[q] \in {"quota", "handler", "answered"} =>
               pc'[q] \in {"quota", "handler", "answered"}
  BY <1>1, <1>2
<1>3. ASSUME NEW r \in Requests, NEW k, Send(r, k)
      PROVE  /\ UNCHANGED <<hits, log, now>> /\ pc[r] = "new"
             /\ \E l : pc' = [pc EXCEPT ![r] = l]
  BY <1>3 DEF Send, GoTo, WriteError
<1>4. ASSUME NEW r \in Requests, Serve(r)
      PROVE  /\ UNCHANGED <<hits, log, now>>
             /\ \E l : /\ pc' = [pc EXCEPT ![r] = l]
                       /\ pc[r] \in {"quota", "handler", "answered"} => l \in {"handler", "answered"}
  <2>1. CASE ResolveHit(r) \/ ResolveMiss(r) \/ LoadHost(r) \/ PutHost(r)
    BY <2>1 DEF ResolveHit, ResolveMiss, LoadHost, PutHost, Resolved, GoTo, WriteError
  <2>2. CASE Authenticate(r)
    BY <2>2 DEF Authenticate, GoTo, WriteError
  <2>3. CASE GateHit(r) \/ GateMiss(r) \/ GateLoad(r) \/ GatePut(r)
    BY <2>3 DEF GateHit, GateMiss, GateLoad, GatePut, Judge, GoTo, WriteError
  <2>4. CASE Authorize(r) \/ Quota(r) \/ Handle(r)
    BY <2>4 DEF Authorize, Quota, Handle, Proceed, Answer, GoTo, WriteError
  <2>q. QED BY <1>4, <2>1, <2>2, <2>3, <2>4 DEF Serve
<1>5. Tables => UNCHANGED <<hits, log, now, pc>>
  BY DEF Tables, SetState, Invalidate, SetHost, SetModule
<1>6. Tick => UNCHANGED <<hits, log, pc>> /\ now' = now + 1
  BY DEF Tick
<1>7. UNCHANGED vars => UNCHANGED <<hits, log, now, pc>>
  BY DEF vars
<1>8. CASE Clients
  BY <1>2, <1>3, <1>8 DEF Clients
<1>9. CASE \E r \in Requests : Serve(r)
  BY <1>2, <1>4, <1>9
<1>q. QED BY <1>5, <1>6, <1>7, <1>8, <1>9 DEF Next

LEMMA NextKeepsLimit ==
  ASSUME LimitInv, [Next]_vars
  PROVE  LimitInv'
<1>1. TraceInv'
  BY NextKeepsTrace DEF LimitInv
<1>2. CASE \A r \in Requests : ~RateLimit(r)
  BY <1>1, <1>2, OtherSteps, OthersKeepLimit
<1>3. CASE \E r \in Requests : RateLimit(r)
  BY <1>1, <1>3, RateLimitKeepsLimit
<1>q. QED BY <1>2, <1>3

\* The pruned log of MemLimiter.Allow is an exact sliding window: in no window of
\* a class are more admitted than its limit, and nobody is refused with fewer.
THEOREM ClassLimitHolds == Spec => []ClassLimit
<1>1. LimitInv => ClassLimit
  BY DEF LimitInv
<1>q. QED BY <1>1, InitLimit, NextKeepsLimit, PTL DEF Spec

\* By the retry time the oldest hit of a refused caller has left the window, so
\* that what is left is below the limit.
LEMMA RefusedFitLater ==
  ASSUME LimitInv, NEW r \in Requests, RateLimit(r), code'[r] = "rate.limited"
  PROVE  RetryFits(r)
<1>1. /\ pc[r] = "limit" /\ req[r] \in Kinds /\ now \in Nat /\ code[r] = "none"
  BY PlaceOf DEF RateLimit, LimitInv, TraceInv, Logs, ChainInv, TypeOK
<1>2. PICK k, c, window, limit :
        /\ k = RateKey(r) /\ c = req[r].route.class
        /\ window = Policy[c].window /\ limit = Policy[c].limit
        /\ window \in Nat \ {0} /\ limit \in Nat \ {0} /\ c \in DOMAIN Policy
  <2>1. req[r].route.class \in DOMAIN Policy
    BY <1>1, KindsAssumption
  <2>2. PICK c : c = req[r].route.class
    OBVIOUS
  <2>3. Policy[c].window \in Nat \ {0} /\ Policy[c].limit \in Nat \ {0} /\ c \in DOMAIN Policy
    BY <2>1, <2>2, AdmissionAssumption
  <2>q. QED BY <2>2, <2>3
<1>3. PICK keep : keep = Kept(k, window)
  OBVIOUS
<1>4. hits' = [hits EXCEPT ![k] = keep] /\ ~(Len(keep) < limit)
  <2>1. CASE Proceed(r, "quota")
    BY <1>1, <2>1 DEF Proceed, GoTo
  <2>2. CASE ~Proceed(r, "quota")
    BY <1>2, <1>3, <2>2 DEF RateLimit, Fits
  <2>q. QED BY <2>1, <2>2
<1>5. k \in DOMAIN hits
  BY <1>1, <1>2, PlaceOf DEF LimitInv, TraceInv, RateKey, ClientIP, Addresses, ChainInv, Stations
<1>6. hits'[k] = keep
  BY <1>4, <1>5
<1> SUFFICES ASSUME SoleClass(k, c)
             PROVE  Fits(Younger(keep, now + RetryAfter(keep, window), window), limit)
  BY <1>2, <1>6, Zenon DEF RetryFits
<1>7. PICK s : s = hits[k] /\ s \in Seq(0..now) /\ Ordered(s) /\ Len(s) \in Nat
  BY <1>1, <1>5, LenProperties DEF LimitInv, TraceInv, Logs
<1>8. Len(s) <= limit
  BY <1>2, <1>5, <1>7 DEF LimitInv, Counted
<1>9. /\ keep \in Seq(0..now) /\ Ordered(keep) /\ Len(keep) \in Nat /\ Len(keep) <= Len(s)
      /\ \A i \in 1..Len(keep) : now - keep[i] < window
  <2>1. keep = Younger(s, now, window)
    BY <1>3, <1>7 DEF Kept
  <2>2. PICK d \in 0..Len(s) : Pruned(now, s, now, window, d, keep)
    BY <1>1, <1>2, <1>7, <2>1, PruningIsExact
  <2>3. /\ keep \in Seq(0..now) /\ Ordered(keep) /\ Len(keep) = Len(s) - d
        /\ \A i \in 1..(Len(s) - d) : keep[i] = s[d + i] /\ now - s[d + i] < window
    BY <2>2 DEF Pruned
  <2>4. Len(keep) \in Nat /\ Len(keep) <= Len(s)
    BY <1>7, <2>3
  <2>5. \A i \in 1..Len(keep) : now - keep[i] < window
    BY <2>3
  <2>q. QED BY <2>3, <2>4, <2>5
<1>10. Len(keep) = limit /\ 1 \in DOMAIN keep /\ keep[1] \in 0..now
  <2>1. Len(keep) = limit
    BY <1>2, <1>4, <1>7, <1>8, <1>9
  <2>2. 1 \in DOMAIN keep
    BY <1>2, <1>9, <2>1, LenProperties
  <2>q. QED BY <1>9, <2>1, <2>2, LenProperties, ElementOfSeq
<1>11. PICK free : free = now + RetryAfter(keep, window)
  OBVIOUS
<1>12. free = keep[1] + window /\ free \in Nat
  <2>1. free = now + (window - (now - keep[1]))
    BY <1>11 DEF RetryAfter
  <2>2. PICK first \in 0..now : first = keep[1]
    BY <1>10
  <2>3. now \in Nat /\ window \in Nat /\ first \in Nat
    BY <1>1, <1>2, <2>2
  <2>4. now + (window - (now - first)) = first + window /\ first + window \in Nat
    BY <2>3
  <2>q. QED BY <2>1, <2>2, <2>4
<1>13. PICK e \in 0..Len(keep) : Pruned(now, keep, free, window, e, Younger(keep, free, window))
  BY <1>1, <1>2, <1>9, <1>12, PruningIsExact
<1>14. 1 \in Expired(keep, free, window)
  BY <1>2, <1>10, <1>12 DEF Expired
<1>15. e >= 1
  BY <1>13, <1>14 DEF Pruned
<1>16. Len(Younger(keep, free, window)) = limit - e
  BY <1>10, <1>13 DEF Pruned
<1>q. QED BY <1>2, <1>11, <1>15, <1>16 DEF Fits

\* The Retry-After of a refusal is enough.
THEOREM RetryFrees == Spec => RetryAfterFrees
<1>1. LimitInv /\ [Next]_vars =>
        [\A r \in Requests : (RateLimit(r) /\ code'[r] = "rate.limited") => RetryFits(r)]_vars
  BY RefusedFitLater
<1>q. QED BY <1>1, InitLimit, NextKeepsLimit, PTL DEF Spec, RetryAfterFrees
=============================================================================
