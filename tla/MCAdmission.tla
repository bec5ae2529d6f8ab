----------------------------- MODULE MCAdmission -----------------------------
(* Instances of Admission for TLC, in three scenarios: users racing state    *)
(* changes and invalidations, visitors racing the registration of a host, and *)
(* every kind of request, one after the other, against the limiter.          *)
EXTENDS Admission

CONSTANT Scenarios   \* the ones of this instance

VARIABLE scenario

MCRequests == 1..3

Trader == [class |-> "trader", key |-> None, own |-> FALSE, module |-> "shop", audit |-> FALSE]
Public == [class |-> "public", key |-> None, own |-> FALSE, module |-> None, audit |-> FALSE]
Payout == [class |-> "payout", key |-> "payout.approve", own |-> TRUE, module |-> None, audit |-> TRUE]

Request(rt, realm, cred, right) ==
  [route |-> rt, realm |-> realm, cred |-> cred, right |-> right, host |-> "h1", header |-> None,
   owner |-> "u1", peer |-> "ip1", trusted |-> FALSE, cf |-> None]

UserRequest == Request(Trader, "bearer", "user", TRUE)
Visit == Request(Public, "bearer", None, TRUE)
ServiceCall == [Request(Public, "internal", "service", TRUE) EXCEPT !.header = "t1"]
NewHost == [Visit EXCEPT !.host = "h2"]
MCKinds ==
  {UserRequest, Visit, NewHost,
   Request(Payout, "bearer", "user", TRUE),
   Request(Payout, "bearer", None, FALSE),
   Request(Trader, "bearer", "forged", TRUE),
   Request(Public, "console", None, TRUE),
   [Visit EXCEPT !.trusted = TRUE, !.cf = "ip2"],
   Request(Public, "internal", "service", TRUE), ServiceCall}

User == [kind |-> "user", id |-> "u1", roles |-> {"trader"}, stepped |-> FALSE]
Service == [kind |-> "service", id |-> "s1", roles |-> {}, stepped |-> FALSE]
MCPrincipalOf ==
  [x \in {"bearer", "console", "internal"} \X {"user", "service", "forged"} |->
     IF x = <<"bearer", "user">> THEN User ELSE IF x = <<"internal", "service">> THEN Service ELSE None]

MCTable == {[key |-> "payout.approve", roles |-> {"firm:admin"}, own |-> FALSE, stepUp |-> TRUE]}
MCInitState == [k \in GateKeys |-> "active"]
MCInitHosts == [h \in Hosts |-> IF h = "h1" THEN "t1" ELSE None]
MCPolicy == [c \in {"trader", "public", "payout"} |->
               IF c = "payout" THEN [limit |-> 1, window |-> 3] ELSE [limit |-> 2, window |-> 2]]

Idle == \A r \in Requests : pc[r] \in {"new", "answered"}

\* A request at one of these labels goes on before anything else happens: its
\* step reads nothing that the tables, the caches or the clock change in between.
Local == {"authn", "authz", "limit", "quota", "handler"}
Quiet == \A r \in Requests : pc[r] \notin Local

\* Requests are sent in their order, which only fixes their names.
Sent(K) == \E r \in Requests, k \in K : (\A q \in 1..(r - 1) : pc[q] # "new") /\ Send(r, k)

Gates ==
  \/ Sent({ServiceCall})
  \/ LET k == TenantKey("t1") IN Invalidate(k) \/ \E s \in States : SetState(k, s)
HostMoves ==
  \/ pc[2] = "new" /\ Sent({NewHost})
  \/ \E t \in Tenants : SetHost("h2", t)
Limits ==
  /\ Idle
  /\ \/ Sent(Kinds)
     \/ /\ now = 0 /\ changes = 0
        /\ \/ \E k \in {TenantKey("t1"), IdentityKey("u1"), MemberKey("u1", "t1")}, s \in States : SetState(k, s)
           \/ \E m \in Modules, on \in BOOLEAN : SetModule("t1", m, on)

MCInit == Init /\ scenario \in Scenarios

MCNext ==
  /\ \/ \E r \in Requests : (Quiet \/ pc[r] \in Local) /\ Serve(r)
     \/ Quiet /\ scenario = "gates" /\ Gates
     \/ Quiet /\ scenario = "hosts" /\ HostMoves
     \/ scenario = "limits" /\ Limits
     \/ Quiet /\ (scenario = "limits" => Idle /\ now < 3) /\ Tick
  /\ UNCHANGED scenario

MCSpec == MCInit /\ [][MCNext]_<<vars, scenario>>

=============================================================================
