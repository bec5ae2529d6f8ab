------------------------------- MODULE MCGates -------------------------------
(* The gates of the repository and its document scripts: the work-list loop on  *)
(* every relation over three roles; the role gate, the tenant gate and the       *)
(* module documents each from files that are almost in order, under every short  *)
(* sequence of edits and runs.                                                  *)
EXTENDS RoleGate, TenantStates, ModuleDocs

CONSTANTS Owner, Admin, Ops, Ghost, K1, K2, R1, Live, Closed0, Pay, Extra, C1, C2

VARIABLE part    \* which of the four behaves

mcVars == <<part, loopVars, gateVars, tenantVars, docVars>>

MCRoles  == {Owner, Admin, Ops, Ghost}
MCTenant == {Owner, Admin}
MCCodes  == {C1, C2}

\* A relation over the catalog for the loop; one role idle otherwise.
MCLoopInit ==
  IF part = "loop"
  THEN /\ next \in {n \in [Roles -> SUBSET Roles] : n[Ghost] = {} /\ \A r \in Roles : Ghost \notin n[r]}
       /\ root \in Catalog
       /\ stack = [r \in Roles |-> IF r \in next[root] THEN 1 ELSE 0] /\ out = {}
  ELSE next = [r \in Roles |-> {}] /\ root = Owner /\ stack = [r \in Roles |-> 0] /\ out = {}

\* Admin inherits from nobody or from Ops, across the realms.
MCGateInit ==
  /\ up \in {[r \in Roles |-> IF r = Owner THEN {Admin} ELSE IF r = Admin THEN S ELSE {}] : S \in {{}, {Ops}}}
  /\ bindings = [k \in Keys |-> IF k = K1 THEN [scope |-> "own", roles |-> {Owner}] ELSE [scope |-> "platform", roles |-> {Ops}]]
  /\ registry = Keys /\ provisional = {} /\ routes = [t \in Routes |-> K1]
  /\ doc = render /\ matrix = render_matrix(DeclaredRoutes(TRUE)) /\ casbin = {}
  /\ ok = FALSE /\ saw = FALSE /\ edits = 0

MCTenantInit ==
  /\ states = [s \in {Live} |-> [c \in COLUMNS \cup Others |-> [kind |-> "deny", code |-> C1]]]
  /\ ddl = {Live} /\ taxonomy = {C1}
  /\ table = RenderTable /\ verdict = "none" /\ tedits = 0

\* Three documents: a code section with its introduction and a legacy name; one
\* without introduction that shares a code; one of two parts and no V1 contract.
MCModules == <<"evl", "lcc", "cms">>
MCHome    == [c \in ErrorCodes |-> "evl"]
MCDocs4   == [d \in {"lcc"} |-> [rows |-> {"Created"}, drop |-> {"purchased"}]]
MCText    == [d \in Docs |->
  CASE d = "evl" -> <<Sec(4), Entry("Created", FALSE, Own), Sec(5), Sec(6), Intro, Entry("x", TRUE, Own), Sec(7), Sec(8)>>
    [] d = "lcc" -> <<Sec(4), Entry("purchased", FALSE, Own), Sec(5), Sec(6), Entry("x", TRUE, Own), Sec(7), Entry("p", FALSE, Own), Sec(8)>>
    [] d = "cms" -> <<Sec(6), Intro, Sec(7), Sec(8), Sec(6), Entry("x", TRUE, Own), Sec(7), Sec(8)>>]
MCDocsInit ==
  /\ text = InitText /\ v1codes = [c \in ErrorCodes |-> IF c = "x" THEN NoRow ELSE "e1"]
  /\ doc30 = [d \in Docs |-> <<>>] /\ doc31 = [e \in {} |-> 0]
  /\ done = {} /\ reruns = 0 /\ dedits = 0

MCInit ==
  /\ part \in {"loop", "gate", "tenant", "docs"}
  /\ MCLoopInit /\ MCGateInit /\ MCTenantInit /\ MCDocsInit

MCNext ==
  /\ UNCHANGED part
  /\ \/ part = "loop" /\ Pop /\ UNCHANGED <<gateVars, tenantVars, docVars>>
     \/ part = "gate" /\ GateNext /\ UNCHANGED <<loopVars, tenantVars, docVars>>
     \/ part = "tenant" /\ TenantNext /\ UNCHANGED <<loopVars, gateVars, docVars>>
     \/ part = "docs" /\ DocsNext /\ UNCHANGED <<loopVars, gateVars, tenantVars>>

MCSpec == MCInit /\ [][MCNext]_mcVars /\ WF_mcVars(part = "loop" /\ Pop /\ UNCHANGED <<part, gateVars, tenantVars, docVars>>)

=============================================================================
