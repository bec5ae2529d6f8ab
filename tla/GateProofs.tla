----------------------------- MODULE GateProofs -----------------------------
(* Proofs about the gates and the module documents: the work-list loop and the *)
(* role gate, for every set of roles, keys and routes; the tenant gate, for     *)
(* every set of states, capabilities and codes; and the scripts that rewrite    *)
(* and gather the module documents, for every set of documents, codes, events   *)
(* and endpoints, and every text that ScriptsAssumption admits.                 *)
EXTENDS RoleGate, TenantStates, ModuleDocs, FiniteSetTheorems, SequenceTheorems, TLAPS

-----------------------------------------------------------------------------
(* Reachability *)

\* What is reached from r is closed.
LEMMA ReachClosed ==
  ASSUME NEW n \in [Roles -> SUBSET Roles], NEW r \in Roles
  PROVE  ClosedFrom(Reach(n, r), n, r)
BY DEF ClosedFrom, Reach

\* It is contained in every closed set.
LEMMA ReachLeast ==
  ASSUME NEW n, NEW r, NEW S \in SUBSET Roles, ClosedFrom(S, n, r)
  PROVE  Reach(n, r) \subseteq S
BY DEF Reach

\* A closed set that contains q is closed from q.
LEMMA ReachStep ==
  ASSUME NEW n \in [Roles -> SUBSET Roles], NEW c \in Roles, NEW q \in n[c]
  PROVE  {q} \cup Reach(n, q) \subseteq Reach(n, c)
<1>1. q \in Roles OBVIOUS
<1>2. ASSUME NEW S \in SUBSET Roles, ClosedFrom(S, n, c) PROVE q \in S /\ ClosedFrom(S, n, q)
  BY <1>2 DEF ClosedFrom
<1>3. QED BY <1>1, <1>2 DEF Reach

\* If p is reached from r then r is reached from p against the arrows.
LEMMA ReachConverse ==
  ASSUME NEW n \in [Roles -> SUBSET Roles], NEW m \in [Roles -> SUBSET Roles],
         \A a, b \in Roles : b \in n[a] <=> a \in m[b],
         NEW r \in Roles, NEW p \in Reach(n, r)
  PROVE  r \in Reach(m, p)
<1> DEFINE S == {q \in Roles : r \in Reach(m, q)}
<1>1. S \in SUBSET Roles OBVIOUS
<1>2. n[r] \subseteq S
  <2>1. SUFFICES ASSUME NEW c \in n[r] PROVE c \in S
    OBVIOUS
  <2>2. c \in Roles /\ r \in m[c] OBVIOUS
  <2>3. QED BY <2>2, ReachStep
<1>3. \A q \in S : n[q] \subseteq S
  <2>1. SUFFICES ASSUME NEW q \in S, NEW c \in n[q] PROVE c \in S
    OBVIOUS
  <2>2. c \in Roles /\ q \in Roles /\ q \in m[c] OBVIOUS
  <2>3. Reach(m, q) \subseteq Reach(m, c) BY <2>2, ReachStep
  <2>4. QED BY <2>2, <2>3
<1>4. ClosedFrom(S, n, r) BY <1>2, <1>3 DEF ClosedFrom
<1>5. Reach(n, r) \subseteq S BY <1>1, <1>4, ReachLeast
<1> QED BY <1>5

LEMMA DescendantsAncestors ==
  ASSUME NEW u \in [Roles -> SUBSET Roles], NEW r \in Roles, NEW p \in Roles
  PROVE  p \in descendants(r, u) <=> r \in ancestors(p, u)
<1> DEFINE m == Children(u)
<1>1. m \in [Roles -> SUBSET Roles] BY DEF Children
<1>2. \A a, b \in Roles : b \in m[a] <=> a \in u[b] BY DEF Children
<1> HIDE DEF m
<1>3. p \in Reach(m, r) => r \in Reach(u, p) BY <1>1, <1>2, ReachConverse
<1>4. r \in Reach(u, p) => p \in Reach(m, r) BY <1>1, <1>2, ReachConverse
<1> QED BY <1>3, <1>4 DEF descendants, ancestors, m

-----------------------------------------------------------------------------
(* The loop *)

LoopIInv == LoopTypeOK /\ LoopInv

LEMMA LoopInitially == LoopInit => LoopIInv
<1> SUFFICES ASSUME LoopInit PROVE LoopIInv OBVIOUS
<1>1. LoopTypeOK BY DEF LoopInit, LoopTypeOK
<1>2. \A p \in Roles : stack[p] > 0 => p \in next[root] BY DEF LoopInit
<1>3. next[root] \subseteq Reach(next, root) BY <1>1, ReachClosed DEF LoopTypeOK, ClosedFrom
<1>4. \A p \in next[root] : stack[p] > 0 BY <1>1 DEF LoopInit, LoopTypeOK
<1>5. LoopInv BY <1>1, <1>2, <1>3, <1>4 DEF LoopInit, LoopTypeOK, LoopInv
<1> QED BY <1>1, <1>5 DEF LoopIInv

LEMMA LoopStep == LoopIInv /\ [Pop]_loopVars => LoopIInv'
<1> SUFFICES ASSUME LoopIInv, [Pop]_loopVars PROVE LoopIInv' OBVIOUS
<1> USE DEF LoopIInv
<1>1. CASE Pop
  <2>1. PICK p \in Roles :
          /\ stack[p] > 0 /\ out' = out \cup {p} /\ UNCHANGED <<next, root>>
          /\ stack' = [r \in Roles |-> (IF r = p THEN stack[r] - 1 ELSE stack[r]) + (IF p \notin out /\ r \in next[p] THEN 1 ELSE 0)]
    BY <1>1 DEF Pop
  <2>2. LoopTypeOK' BY <2>1 DEF LoopTypeOK
  <2>3. p \in Reach(next, root) BY <2>1 DEF LoopInv
  <2>4. next[p] \subseteq Reach(next, root)
    BY <2>3, ReachClosed DEF LoopTypeOK, ClosedFrom
  <2>5. \A r \in Roles : stack[r] > 0 => stack'[r] > 0 \/ r \in out'
    BY <2>1 DEF LoopTypeOK
  <2>6. p \notin out => \A r \in next[p] : stack'[r] > 0
    <3> SUFFICES ASSUME p \notin out, NEW r \in next[p] PROVE stack'[r] > 0 OBVIOUS
    <3>1. r \in Roles /\ stack[r] \in Nat BY <2>1 DEF LoopTypeOK
    <3>2. stack'[r] = (IF r = p THEN stack[r] - 1 ELSE stack[r]) + 1 BY <2>1, <3>1
    <3> QED BY <2>1, <3>1, <3>2
  <2>7. \A r \in Roles : stack'[r] > 0 => stack[r] > 0 \/ r \in next[p]
    BY <2>1 DEF LoopTypeOK
  <2> DEFINE On == {r \in Roles : stack[r] > 0}
             On1 == {r \in Roles : stack'[r] > 0}
  <2>8. out \cup On \subseteq out' \cup On1 BY <2>1, <2>5
  <2>9. \A q \in out' : next[q] \subseteq out' \cup On1
    <3> SUFFICES ASSUME NEW q \in out' PROVE next[q] \subseteq out' \cup On1 OBVIOUS
    <3>1. CASE q \in out BY <3>1, <2>8 DEF LoopInv
    <3>2. CASE q = p /\ p \notin out BY <3>2, <2>1, <2>6 DEF LoopTypeOK
    <3> QED BY <3>1, <3>2, <2>1
  <2>10. next[root] \subseteq out' \cup On1 BY <2>8 DEF LoopInv
  <2>11. \A q \in Roles : q \in out' \/ stack'[q] > 0 => q \in Reach(next, root)
    BY <2>1, <2>3, <2>4, <2>7 DEF LoopInv
  <2>12. LoopInv' BY <2>1, <2>9, <2>10, <2>11 DEF LoopInv
  <2> QED BY <2>2, <2>12
<1>2. CASE UNCHANGED loopVars BY <1>2 DEF loopVars, LoopTypeOK, LoopInv
<1> QED BY <1>1, <1>2

LEMMA LoopInvExact == LoopIInv => LoopExact
<1> SUFFICES ASSUME LoopIInv, LoopDone PROVE out = Reach(next, root) BY DEF LoopExact
<1> USE DEF LoopIInv
<1>1. {r \in Roles : stack[r] > 0} = {} BY DEF LoopDone, LoopTypeOK
<1>2. ClosedFrom(out, next, root) BY <1>1 DEF LoopInv, ClosedFrom
<1>3. Reach(next, root) \subseteq out BY <1>2, ReachLeast DEF LoopTypeOK
<1>4. out \subseteq Reach(next, root) BY DEF LoopInv, LoopTypeOK
<1> QED BY <1>3, <1>4

\* Whatever the relation and whichever role is popped, an empty stack means that the
\* result is exactly what the root reaches (ancestors and descendants, cyclic
\* inheritance included).
THEOREM LoopCorrect == LoopSpec => []LoopExact
<1>1. LoopInit => LoopIInv BY LoopInitially
<1>2. LoopIInv /\ [Pop]_loopVars => LoopIInv' BY LoopStep
<1>3. LoopIInv => LoopExact BY LoopInvExact
<1> QED BY <1>1, <1>2, <1>3, PTL DEF LoopSpec

-----------------------------------------------------------------------------
(* The gate *)

\* The types the argument needs.
GateTypes ==
  /\ up \in [Roles -> SUBSET Roles] /\ (\A r \in Roles \ Catalog : up[r] = {})
  /\ bindings \in [Keys -> Binding]
  /\ routes \in [Routes -> Keys \cup Markers \cup {None}]

\* A role may exercise a key iff it or an ancestor is a holder.
LEMMA MayIff ==
  ASSUME GateTypes, NEW r \in Roles, NEW k \in Keys
  PROVE  May(r, k) <=> r \in Holders(k) \/ ancestors(r, up) \cap Holders(k) # {}
<1>1. up \in [Roles -> SUBSET Roles] BY DEF GateTypes
<1>2. ASSUME May(r, k) PROVE r \in Holders(k) \/ Reach(up, r) \cap Holders(k) # {}
  <2> DEFINE S == {r} \cup Reach(up, r)
  <2>1. S \in SUBSET Roles BY DEF Reach
  <2>2. \A q \in S : up[q] \subseteq S BY <1>1, ReachClosed DEF ClosedFrom
  <2>3. S \cap Holders(k) # {} BY <1>2, <2>1, <2>2 DEF May
  <2> QED BY <2>3
<1>3. ASSUME r \in Holders(k) \/ Reach(up, r) \cap Holders(k) # {} PROVE May(r, k)
  <2> SUFFICES ASSUME NEW S \in SUBSET Roles, r \in S, \A q \in S : up[q] \subseteq S
               PROVE  S \cap Holders(k) # {}
    BY DEF May
  <2>1. ClosedFrom(S, up, r) BY DEF ClosedFrom
  <2>2. Reach(up, r) \subseteq S BY <2>1, ReachLeast
  <2> QED BY <1>3, <2>2
<1> QED BY <1>2, <1>3 DEF ancestors

\* Checks 3 and 4 of main find fault with the same bindings.
LEMMA ClosedIffReproduced ==
  ASSUME GateTypes, RolesKnown
  PROVE  Closed <=> Reproduced
<1>1. up \in [Roles -> SUBSET Roles] /\ Catalog \subseteq Roles BY RealmsAssumption DEF GateTypes, Catalog
<1>2. ASSUME NEW r \in Roles PROVE descendants(r, up) \subseteq Catalog
  <2>1. ClosedFrom(Catalog, Children(up), r) BY <1>1 DEF ClosedFrom, Children, GateTypes
  <2> QED BY <1>1, <2>1, ReachLeast DEF descendants
<1>3. ASSUME Closed, NEW r \in Catalog PROVE Listed(r) = effective(r)
  <2> SUFFICES ASSUME NEW k \in Bound, NEW h \in ancestors(r, up), h \in bindings[k].roles
               PROVE  r \in bindings[k].roles
    BY DEF effective, Listed
  <2>1. h \in Roles BY DEF ancestors, Reach
  <2>2. r \in descendants(h, up) BY <1>1, <2>1, DescendantsAncestors
  <2> QED BY <1>3, <2>2 DEF Closed
<1>4. ASSUME Reproduced, NEW k \in Bound, NEW h \in bindings[k].roles, NEW r \in descendants(h, up)
      PROVE  r \in bindings[k].roles
  <2>1. h \in Roles /\ r \in Catalog BY <1>1, <1>2 DEF RolesKnown
  <2>2. h \in ancestors(r, up) BY <1>1, <2>1, DescendantsAncestors
  <2>3. k \in effective(r) BY <2>2 DEF effective
  <2> QED BY <1>4, <2>1, <2>3 DEF Reproduced, Listed
<1> QED BY <1>3, <1>4 DEF Closed, Reproduced

\* The inductive invariant: what a run that returned 0 found still holds.
GateInv ==
  /\ GateTypes
  /\ ok => Consistent(doc, saw) /\ matrix = render_matrix(DeclaredRoutes(saw))
  /\ SeededRealms

LEMMA GateInitially == GateInit => GateInv
BY DEF GateInit, GateInv, GateTypes, SeededRealms, Inherits

\* Edits keep the types.
LEMMA EditsKeepTypes ==
  ASSUME GateTypes, EditCatalog \/ EditBinding \/ EditKeys \/ EditRoute \/ EditDoc
  PROVE  GateTypes'
<1>1. CASE EditCatalog
  <2>1. PICK r \in Catalog, p \in Roles : up' = [up EXCEPT ![r] = Toggle(up[r], p)] BY <1>1 DEF EditCatalog
  <2>2. Toggle(up[r], p) \in SUBSET Roles BY RealmsAssumption DEF Toggle, GateTypes, Catalog
  <2> QED BY <1>1, <2>1, <2>2 DEF EditCatalog, GateTypes
<1>2. CASE EditBinding
  <2>1. bindings' \in [Keys -> Binding]
    <3>1. ASSUME NEW k \in Bound, NEW r \in Roles, bindings' = [bindings EXCEPT ![k].roles = Toggle(bindings[k].roles, r)]
          PROVE  bindings' \in [Keys -> Binding]
      BY <3>1 DEF GateTypes, Binding, Bound, Toggle
    <3>2. ASSUME NEW k \in Bound, NEW s \in Scopes, bindings' = [bindings EXCEPT ![k].scope = s]
          PROVE  bindings' \in [Keys -> Binding]
      BY <3>2 DEF GateTypes, Binding, Bound
    <3>3. ASSUME NEW k \in Keys \ Bound, NEW s \in Scopes, bindings' = [bindings EXCEPT ![k] = [scope |-> s, roles |-> {}]]
          PROVE  bindings' \in [Keys -> Binding]
      BY <3>3 DEF GateTypes, Binding
    <3>4. ASSUME NEW k \in Bound, bindings' = [bindings EXCEPT ![k] = None]
          PROVE  bindings' \in [Keys -> Binding]
      BY <3>4 DEF GateTypes, Binding
    <3> QED BY <1>2, <3>1, <3>2, <3>3, <3>4 DEF EditBinding
  <2> QED BY <1>2, <2>1 DEF EditBinding, GateTypes
<1>3. CASE EditKeys BY <1>3 DEF EditKeys, GateTypes
<1>4. CASE EditRoute BY <1>4 DEF EditRoute, GateTypes
<1>5. CASE EditDoc BY <1>5 DEF EditDoc, GateTypes
<1> QED BY <1>1, <1>2, <1>3, <1>4, <1>5

\* The rows a consistent roles.yaml seeds keep the realms apart.
LEMMA SeedKeepsRealms ==
  ASSUME GateTypes, RolesKnown, RealmsHold, NEW w \in SeedRows
  PROVE  /\ w[1] \in Catalog
         /\ w[3] = "platform" => w[1] \in Platform
         /\ w[3] = "own" => w[1] \in Tenant
<1> DEFINE k == w[2]
<1>1. k \in Bound /\ w[1] \in bindings[k].roles /\ w[3] = Scope(k) BY DEF SeedRows
<1>2. w[1] \in Catalog BY <1>1 DEF RolesKnown
<1>3. w[3] = "platform" => bindings[k].scope = "platform" BY <1>1 DEF Scope, Missing
<1>4. w[3] = "own" => bindings[k].scope = "own" BY <1>1 DEF Scope, Missing
<1>5. w[3] = "platform" => w[1] \notin Tenant BY <1>1, <1>3 DEF RealmsHold
<1>6. w[3] = "own" => w[1] \notin Platform BY <1>1, <1>4 DEF RealmsHold
<1> QED BY <1>2, <1>5, <1>6 DEF Catalog

LEMMA GateStep == GateInv /\ [GateNext]_gateVars => GateInv'
<1> SUFFICES ASSUME GateInv, [GateNext]_gateVars PROVE GateInv' OBVIOUS
<1>1. CASE Run
  <2>1. PICK writeDoc, writeMatrix, seed, yaml \in BOOLEAN : main(writeDoc, writeMatrix, seed, yaml) BY <1>1 DEF Run
  <2>2. UNCHANGED <<up, bindings, provisional, registry, routes>> BY <2>1 DEF main
  <2>3. GateTypes' BY <2>2 DEF GateInv, GateTypes
  <2>4. /\ ok' => Consistent(doc', yaml) /\ matrix' = render_matrix(DeclaredRoutes(yaml))
        /\ saw' = yaml
        /\ casbin' # casbin => ok' /\ casbin' = casbin \cup SeedRows
    BY <2>1 DEF main
  <2>5. Consistent(doc', yaml) => Consistent(doc, saw)'
    BY <2>2, <2>4 DEF Consistent, KeysKnown, RolesKnown, RealmsHold, Closed, Reproduced, Listed, effective, check_doc, render, check_contracts, Bound
  <2>6. render_matrix(DeclaredRoutes(yaml)) = render_matrix(DeclaredRoutes(saw))'
    BY <2>2, <2>4 DEF render_matrix, DeclaredRoutes, Bound, Holders, Scope
  <2>7. SeededRealms'
    <3>1. CASE casbin' = casbin BY <3>1 DEF GateInv, SeededRealms
    <3>2. CASE ok' /\ casbin' = casbin \cup SeedRows
      <4>1. RolesKnown /\ RealmsHold BY <3>2, <2>4 DEF Consistent
      <4>2. \A w \in SeedRows : w[1] \in Catalog /\ (w[3] = "platform" => w[1] \in Platform) /\ (w[3] = "own" => w[1] \in Tenant)
        BY <4>1, SeedKeepsRealms DEF GateInv
      <4> QED BY <3>2, <4>2 DEF GateInv, SeededRealms
    <3> QED BY <3>1, <3>2, <2>4
  <2> QED BY <2>3, <2>4, <2>5, <2>6, <2>7 DEF GateInv
<1>2. CASE EditCatalog \/ EditBinding \/ EditKeys \/ EditRoute \/ EditDoc
  <2>1. GateTypes' BY <1>2, EditsKeepTypes DEF GateInv
  <2>2. ~ok' /\ casbin' = casbin BY <1>2 DEF EditCatalog, EditBinding, EditKeys, EditRoute, EditDoc, Edited
  <2> QED BY <2>1, <2>2 DEF GateInv, SeededRealms
<1>3. CASE UNCHANGED gateVars
  <2>1. UNCHANGED <<up, bindings, provisional, registry, routes, doc, matrix, casbin, ok, saw>> BY <1>3 DEF gateVars
  <2> QED BY <2>1 DEF GateInv, GateTypes, SeededRealms, Consistent, KeysKnown, RolesKnown, RealmsHold, Closed, Reproduced, Listed, effective,
           check_doc, render, check_contracts, Bound, render_matrix, DeclaredRoutes, Holders, Scope
<1> QED BY <1>1, <1>2, <1>3 DEF GateNext

\* In the invariant's states a run that returned 0 makes holding, exercising and
\* showing a key the same thing.
LEMMA InvPolicy == GateInv => PolicyExact
<1> SUFFICES ASSUME GateInv, ok, NEW r \in Catalog, NEW k \in Keys
             PROVE  May(r, k) = (k \in doc[r]) /\ May(r, k) = (r \in Holders(k))
  BY DEF PolicyExact
<1>1. r \in Roles BY RealmsAssumption DEF Catalog
<1>2. doc[r] = effective(r) BY DEF GateInv, Consistent, check_doc, render
<1>3. Listed(r) = effective(r) BY DEF GateInv, Consistent, Reproduced
<1>4. k \in effective(r) <=> r \in Holders(k) \/ ancestors(r, up) \cap Holders(k) # {}
  BY DEF GateInv, effective, Listed, Bound, Holders
<1>5. k \in Listed(r) <=> r \in Holders(k) BY DEF GateInv, Listed, Bound, Holders
<1>6. May(r, k) <=> r \in Holders(k) \/ ancestors(r, up) \cap Holders(k) # {} BY <1>1, MayIff DEF GateInv
<1>7. May(r, k) \in BOOLEAN BY DEF May
<1> QED BY <1>2, <1>3, <1>4, <1>5, <1>6, <1>7

LEMMA InvRealms == GateInv => RealmsApart
<1> SUFFICES ASSUME GateInv, ok, NEW r \in Catalog, NEW k \in Bound, May(r, k), bindings[k].scope # Missing
             PROVE  (bindings[k].scope = "platform") = (r \in Platform)
  BY DEF RealmsApart
<1>1. k \in Keys BY DEF Bound
<1>2. r \in Holders(k)
  <2>1. PolicyExact BY InvPolicy
  <2>2. May(r, k) = (r \in Holders(k)) BY <1>1, <2>1 DEF PolicyExact
  <2> QED BY <2>2
<1>3. r \in bindings[k].roles /\ bindings[k].scope \in Scopes
  <2>1. GateTypes BY DEF GateInv
  <2>2. Holders(k) = bindings[k].roles /\ bindings[k].scope \in Scopes BY <1>1, <2>1 DEF GateTypes, Holders, Binding, Bound
  <2> QED BY <1>2, <2>2
<1>4. RealmsHold BY DEF GateInv, Consistent
<1>5. bindings[k].scope = "platform" => r \in Platform BY <1>3, <1>4 DEF RealmsHold, Catalog
<1>6. bindings[k].scope # "platform" => r \notin Platform BY <1>3, <1>4 DEF RealmsHold, Scopes, Missing
<1> QED BY <1>5, <1>6

LEMMA InvMatrix == GateInv => MatrixCurrent
<1> SUFFICES ASSUME GateInv, ok, saw
             PROVE  /\ DOMAIN matrix.who = Routes
                    /\ \A t \in Routes, r \in Catalog : r \in matrix.who[t] <=> routes[t] \in Keys /\ May(r, routes[t])
  BY DEF MatrixCurrent
<1>1. \A t \in Routes : routes[t] # None /\ routes[t] \in Keys \cup Markers
  BY DEF GateInv, Consistent, check_contracts, GateTypes
<1>2. DeclaredRoutes(saw) = Routes BY <1>1 DEF DeclaredRoutes
<1>3. matrix.who = [t \in Routes |-> IF routes[t] \in Markers THEN {} ELSE Holders(routes[t]) \cap Catalog]
  <2>1. matrix = render_matrix(Routes) BY <1>2 DEF GateInv
  <2> QED BY <2>1 DEF render_matrix
<1>4. ASSUME NEW t \in Routes, NEW r \in Catalog
      PROVE  r \in matrix.who[t] <=> routes[t] \in Keys /\ May(r, routes[t])
  <2>1. CASE routes[t] \in Markers BY <1>3, <2>1, MarkersAssumption
  <2>2. CASE routes[t] \in Keys
    <3>1. matrix.who[t] = Holders(routes[t]) \cap Catalog BY <1>3, <2>2, MarkersAssumption
    <3>2. May(r, routes[t]) = (r \in Holders(routes[t])) BY <2>2, InvPolicy DEF PolicyExact
    <3> QED BY <2>2, <3>1, <3>2
  <2> QED BY <1>1, <2>1, <2>2
<1> QED BY <1>3, <1>4

\* For every catalog, bindings and sequence of edits and runs: after a run that
\* returned 0 the listed, the shown and the exercised keys of a role coincide.
THEOREM PolicyCorrect == GateSpec => []PolicyExact
<1>1. GateInit => GateInv BY GateInitially
<1>2. GateInv /\ [GateNext]_gateVars => GateInv' BY GateStep
<1>3. GateInv => PolicyExact BY InvPolicy
<1> QED BY <1>1, <1>2, <1>3, PTL DEF GateSpec

\* After a run that returned 0 no scoped key is exercised from the other realm, and
\* no seeded row ever crosses the realms by its scope.
THEOREM RealmsCorrect == GateSpec => []RealmsSeparate
<1>1. GateInit => GateInv BY GateInitially
<1>2. GateInv /\ [GateNext]_gateVars => GateInv' BY GateStep
<1>3. GateInv => RealmsSeparate BY InvRealms DEF GateInv, RealmsSeparate
<1> QED BY <1>1, <1>2, <1>3, PTL DEF GateSpec

\* After a run that returned 0 and read the contracts, the matrix names for every
\* route exactly the roles that may exercise its key.
THEOREM MatrixCorrect == GateSpec => []MatrixCurrent
<1>1. GateInit => GateInv BY GateInitially
<1>2. GateInv /\ [GateNext]_gateVars => GateInv' BY GateStep
<1>3. GateInv => MatrixCurrent BY InvMatrix
<1> QED BY <1>1, <1>2, <1>3, PTL DEF GateSpec

\* Check 4 of main reports an error exactly when check 3 does, on bindings that
\* name only catalog roles.
THEOREM SameChecks == GateTypes /\ RolesKnown => (Closed <=> Reproduced)
BY ClosedIffReproduced

-----------------------------------------------------------------------------
(* The tenant gate *)

\* Where the rows come from, and what a run that returned 0 found.
TenantInv ==
  /\ \A s \in DOMAIN states : states[s] \in Row
  /\ verdict = "ok" => StatesMatch /\ CellsFormed /\ DeniesRegistered /\ table = RenderTable

LEMMA TenantInitially == TenantInit => TenantInv
BY DEF TenantInit, TenantInv

\* An edit of the YAML keeps the rows well formed.
LEMMA EditKeepsRows ==
  ASSUME \A s \in DOMAIN states : states[s] \in Row, EditStates
  PROVE  \A s \in DOMAIN states' : states'[s] \in Row
<1>1. ASSUME NEW s \in DOMAIN states, NEW c \in COLUMNS \cup Others, NEW v \in Cell, states' = [states EXCEPT ![s][c] = v]
      PROVE  \A t \in DOMAIN states' : states'[t] \in Row
  <2>1. DOMAIN states' = DOMAIN states BY <1>1
  <2>2. SUFFICES ASSUME NEW t \in DOMAIN states PROVE states'[t] \in Row BY <2>1
  <2>3. CASE t = s
    <3>1. states'[t] = [states[s] EXCEPT ![c] = v] BY <1>1, <2>3
    <3> QED BY <3>1 DEF Row
  <2>4. CASE t # s BY <1>1, <2>4
  <2> QED BY <2>3, <2>4
<1>2. ASSUME NEW s \in DOMAIN states, states' = [t \in DOMAIN states \ {s} |-> states[t]]
      PROVE  \A t \in DOMAIN states' : states'[t] \in Row
  BY <1>2
<1>3. ASSUME NEW s \in States \ DOMAIN states, NEW v \in Cell,
             states' = [t \in DOMAIN states \cup {s} |-> IF t = s THEN [c \in COLUMNS \cup Others |-> v] ELSE states[t]]
      PROVE  \A t \in DOMAIN states' : states'[t] \in Row
  BY <1>3 DEF Row
<1> QED BY <1>1, <1>2, <1>3 DEF EditStates

LEMMA TenantStep == TenantInv /\ [TenantNext]_tenantVars => TenantInv'
<1> SUFFICES ASSUME TenantInv, [TenantNext]_tenantVars PROVE TenantInv' OBVIOUS
<1>1. ASSUME NEW writeDoc \in BOOLEAN, VerifyTenant(writeDoc) PROVE TenantInv'
  <2>1. UNCHANGED <<states, ddl, taxonomy>> BY <1>1 DEF VerifyTenant
  <2>2. verdict' = "ok" => StatesMatch /\ CellsFormed /\ DeniesRegistered /\ table' = RenderTable
    BY <1>1 DEF VerifyTenant
  <2> QED BY <2>1, <2>2 DEF TenantInv, StatesMatch, CellsFormed, DeniesRegistered, RenderTable
<1>2. CASE EditStates \/ EditTenantDoc \/ EditTaxonomy
  <2>1. verdict' = "none" BY <1>2 DEF EditStates, EditTenantDoc, EditTaxonomy, TenantEdited
  <2>2. \A s \in DOMAIN states' : states'[s] \in Row
    BY <1>2, EditKeepsRows DEF TenantInv, EditTenantDoc, EditTaxonomy
  <2> QED BY <2>1, <2>2 DEF TenantInv
<1>3. CASE UNCHANGED tenantVars
  BY <1>3 DEF tenantVars, TenantInv, StatesMatch, CellsFormed, DeniesRegistered, RenderTable
<1> QED BY <1>1, <1>2, <1>3 DEF TenantNext

LEMMA TenantInvExact == TenantInv => TenantTableExact
<1> SUFFICES ASSUME TenantInv, verdict = "ok"
             PROVE  /\ DOMAIN table = ddl
                    /\ \A s \in ddl, c \in COLUMNS :
                         /\ table[s][c].kind \in {"allow", "degraded", "deny"}
                         /\ table[s][c].kind = "deny" => table[s][c].code \in taxonomy
  BY DEF TenantTableExact
<1>1. table = RenderTable /\ DOMAIN states = ddl BY DEF TenantInv, StatesMatch
<1>2. ASSUME NEW s \in ddl, NEW c \in COLUMNS
      PROVE  /\ table[s][c].kind \in {"allow", "degraded", "deny"}
             /\ table[s][c].kind = "deny" => table[s][c].code \in taxonomy
  <2>1. states[s][c] \in Cell BY <1>1 DEF TenantInv, Row
  <2>2. states[s][c].kind \in Kinds \cup {"deny"} BY <2>1 DEF Cell
  <2>3. states[s][c].kind \notin {"absent", "odd", "null"} BY <1>1 DEF TenantInv, CellsFormed
  <2>4. table[s][c] = states[s][c] BY <1>1, <2>3 DEF RenderTable, render_cell
  <2>5. states[s][c].kind = "deny" => states[s][c].code \in taxonomy BY <1>1 DEF TenantInv, DeniesRegistered
  <2> QED BY <2>2, <2>3, <2>4, <2>5 DEF Kinds
<1> QED BY <1>1, <1>2 DEF RenderTable

\* For every history of edits and runs, a run of verify_tenant_states that returned
\* 0 leaves a table with exactly the states a tenant can be in and only permitted,
\* degraded or properly denied cells.
THEOREM TenantCorrect == TenantSpec => []TenantTableExact
<1>1. TenantInit => TenantInv BY TenantInitially
<1>2. TenantInv /\ [TenantNext]_tenantVars => TenantInv' BY TenantStep
<1>3. TenantInv => TenantTableExact BY TenantInvExact
<1> QED BY <1>1, <1>2, <1>3, PTL DEF TenantSpec

-----------------------------------------------------------------------------
(* Sequences: what is picked, what is found *)

\* The members of K, counted from the least.
LEMMA Counted ==
  ASSUME NEW K \in SUBSET Nat, IsFiniteSet(K)
  PROVE  \E p \in [1..Cardinality(K) -> K] :
           /\ \A a, b \in 1..Cardinality(K) : a < b => p[a] < p[b]
           /\ \A k \in K : \E a \in 1..Cardinality(K) : p[a] = k
           /\ \A a \in 1..Cardinality(K) : p[a] = CHOOSE i \in K : Cardinality({j \in K : j < i}) = a - 1
<1> DEFINE n == Cardinality(K)
           below(x) == {j \in K : j < x}
           c == [x \in K |-> Cardinality(below(x)) + 1]
<1>1. n \in Nat BY FS_CardinalityType
<1>2. \A x \in K : IsFiniteSet(below(x)) /\ Cardinality(below(x)) \in Nat
  <2> TAKE x \in K
  <2>1. below(x) \in SUBSET K OBVIOUS
  <2>2. IsFiniteSet(below(x)) BY <2>1, FS_Subset
  <2> QED BY <2>2, FS_CardinalityType
<1>3. \A x \in K : c[x] \in 1..n
  <2> TAKE x \in K
  <2>1. IsFiniteSet(K \ {x}) /\ Cardinality(K \ {x}) = n - 1 BY FS_RemoveElement
  <2>2. below(x) \in SUBSET (K \ {x}) OBVIOUS
  <2>3. Cardinality(below(x)) <= n - 1
    <3> HIDE DEF below, n
    <3> QED BY <2>1, <2>2, FS_Subset
  <2>4. c[x] = Cardinality(below(x)) + 1 OBVIOUS
  <2> HIDE DEF c, below, n
  <2> QED BY <1>1, <1>2, <2>3, <2>4
<1>4. \A x, y \in K : x < y => c[x] < c[y]
  <2> SUFFICES ASSUME NEW x \in K, NEW y \in K, x < y PROVE c[x] < c[y] OBVIOUS
  <2>0. x \in Nat /\ y \in Nat /\ \A j \in K : j \in Nat OBVIOUS
  <2>1. below(x) \in SUBSET below(y)
    <3> SUFFICES ASSUME NEW j \in K, j < x PROVE j < y OBVIOUS
    <3> QED BY <2>0
  <2>2. x \in below(y) /\ x \notin below(x) OBVIOUS
  <2>3. c[x] = Cardinality(below(x)) + 1 /\ c[y] = Cardinality(below(y)) + 1 OBVIOUS
  <2> HIDE DEF below, c
  <2>4. Cardinality(below(x)) <= Cardinality(below(y)) /\ Cardinality(below(x)) # Cardinality(below(y))
    BY <1>2, <2>1, <2>2, FS_Subset
  <2> QED BY <1>2, <2>3, <2>4
<1>5. \A x, y \in K : c[x] = c[y] => x = y
  <2> SUFFICES ASSUME NEW x \in K, NEW y \in K, x # y PROVE c[x] # c[y] OBVIOUS
  <2>1. x < y \/ y < x OBVIOUS
  <2>2. c[x] \in Nat /\ c[y] \in Nat
    <3> HIDE DEF c, n
    <3> QED BY <1>1, <1>3
  <2> HIDE DEF c
  <2> QED BY <1>4, <2>1, <2>2
<1>6. c \in Injection(K, 1..n)
  <2> HIDE DEF n
  <2> QED BY <1>3, <1>5 DEF Injection, IsInjective
<1>7. IsFiniteSet(1..n) /\ Cardinality(1..n) = n BY <1>1, FS_Interval
<1>8. c \in Surjection(K, 1..n)
  <2> HIDE DEF c, n
  <2>1. n = Cardinality(K) BY DEF n
  <2> QED BY <1>6, <1>7, <2>1, FS_Injection
<1>9. \A i \in 1..n : \E x \in K : c[x] = i
  <2> HIDE DEF c, n
  <2> QED BY <1>8 DEF Surjection
<1> DEFINE p == [a \in 1..n |-> CHOOSE i \in K : Cardinality(below(i)) = a - 1]
<1>10. \A a \in 1..n : p[a] \in K /\ c[p[a]] = a
  <2> TAKE a \in 1..n
  <2>1. PICK x \in K : c[x] = a BY <1>9
  <2>2. Cardinality(below(x)) = a - 1
    <3>1. Cardinality(below(x)) + 1 = a BY <2>1
    <3> HIDE DEF below
    <3> QED BY <3>1, <1>2
  <2>3. p[a] = CHOOSE i \in K : Cardinality(below(i)) = a - 1 OBVIOUS
  <2>4. p[a] \in K /\ Cardinality(below(p[a])) = a - 1
    <3> HIDE DEF below, p
    <3> QED BY <2>2, <2>3
  <2>5. c[p[a]] = Cardinality(below(p[a])) + 1
    <3> HIDE DEF p, below
    <3>1. p[a] \in K BY <2>4
    <3> HIDE DEF p
    <3> QED BY <3>1
  <2>6. a \in Nat BY <1>1
  <2> HIDE DEF below, p, c, n
  <2>7. c[p[a]] = a BY <2>4, <2>5, <2>6
  <2> QED BY <2>4, <2>7
<1>11. p \in [1..n -> K]
  <2>1. p = [a \in 1..n |-> p[a]]
    <3> HIDE DEF below, n, c
    <3> QED OBVIOUS
  <2> HIDE DEF p
  <2> QED BY <2>1, <1>10
<1>12. \A a, b \in 1..n : a < b => p[a] < p[b]
  <2> HIDE DEF p, c, n
  <2> SUFFICES ASSUME NEW a \in 1..n, NEW b \in 1..n, a < b, ~(p[a] < p[b]) PROVE FALSE OBVIOUS
  <2>1. p[a] \in Nat /\ p[b] \in Nat BY <1>10
  <2>2. p[b] < p[a] \/ p[b] = p[a] BY <2>1
  <2>3. c[p[a]] = a /\ c[p[b]] = b /\ p[a] \in K /\ p[b] \in K BY <1>10
  <2>4. b < a \/ b = a
    <3>1. CASE p[b] < p[a]
      <4>1. c[p[b]] < c[p[a]] BY <1>4, <2>3, <3>1
      <4> QED BY <2>3, <4>1
    <3>2. CASE p[b] = p[a] BY <2>3, <3>2
    <3> QED BY <2>2, <3>1, <3>2
  <2>5. a \in Nat /\ b \in Nat BY <1>1
  <2> QED BY <2>4, <2>5
<1>13. \A k \in K : \E a \in 1..n : p[a] = k
  <2> HIDE DEF p, c, n
  <2> TAKE k \in K
  <2>1. c[k] \in 1..n /\ p[c[k]] \in K /\ c[p[c[k]]] = c[k] BY <1>3, <1>10
  <2> QED BY <2>1, <1>5
<1>14. \A a \in 1..n : p[a] = CHOOSE i \in K : Cardinality({j \in K : j < i}) = a - 1 OBVIOUS
<1> HIDE DEF p, c, n
<1> QED BY <1>11, <1>12, <1>13, <1>14 DEF n

\* u has the lines of s at the places K, in their order and each place once.
Picks(u, s, K) ==
  \E p \in [DOMAIN u -> K] :
    /\ \A a, b \in DOMAIN u : a < b => p[a] < p[b]
    /\ \A k \in K : \E a \in DOMAIN u : p[a] = k
    /\ \A a \in DOMAIN u : u[a] = s[p[a]]

\* Picking keeps the order, and picks every place once.
LEMMA PickedIs ==
  ASSUME NEW S, NEW s \in Seq(S), NEW K \in SUBSET DOMAIN s
  PROVE  Picked(s, K) \in Seq(S) /\ Picks(Picked(s, K), s, K)
<1>1. DOMAIN s = 1..Len(s) /\ Len(s) \in Nat /\ s \in [1..Len(s) -> S] BY LenProperties
<1>2. IsFiniteSet(K) /\ K \in SUBSET Nat /\ Cardinality(K) \in Nat
  <2>1. IsFiniteSet(1..Len(s)) BY <1>1, FS_Interval
  <2>2. IsFiniteSet(K) BY <1>1, <2>1, FS_Subset
  <2> QED BY <1>1, <2>2, FS_CardinalityType
<1>3. PICK p \in [1..Cardinality(K) -> K] :
           /\ \A a, b \in 1..Cardinality(K) : a < b => p[a] < p[b]
           /\ \A k \in K : \E a \in 1..Cardinality(K) : p[a] = k
           /\ \A a \in 1..Cardinality(K) : p[a] = CHOOSE i \in K : Cardinality({j \in K : j < i}) = a - 1
  BY <1>2, Counted
<1> DEFINE q == Picked(s, K)
<1>4. DOMAIN q = 1..Cardinality(K) BY DEF Picked
<1>5. \A a \in 1..Cardinality(K) : q[a] = s[p[a]] BY <1>3 DEF Picked
<1>6. q \in [1..Cardinality(K) -> S]
  <2>1. q = [a \in 1..Cardinality(K) |-> q[a]] BY DEF Picked
  <2>2. \A a \in 1..Cardinality(K) : q[a] \in S BY <1>1, <1>3, <1>5
  <2> HIDE DEF q
  <2> QED BY <2>1, <2>2
<1>7. q \in Seq(S)
  <2> HIDE DEF q
  <2> QED BY <1>2, <1>6
<1> HIDE DEF q
<1>8. /\ p \in [DOMAIN q -> K]
      /\ \A a, b \in DOMAIN q : a < b => p[a] < p[b]
      /\ \A k \in K : \E a \in DOMAIN q : p[a] = k
      /\ \A a \in DOMAIN q : q[a] = s[p[a]]
  BY <1>3, <1>4, <1>5
<1>9. \E f \in [DOMAIN q -> K] :
         /\ \A a, b \in DOMAIN q : a < b => f[a] < f[b]
         /\ \A k \in K : \E a \in DOMAIN q : f[a] = k
         /\ \A a \in DOMAIN q : q[a] = s[f[a]]
  BY <1>8
<1>10. Picks(q, s, K) BY <1>9 DEF Picks
<1> QED BY <1>7, <1>10 DEF q

\* A set of numbers has a least and a greatest member.
LEMMA Extremes ==
  ASSUME NEW K \in SUBSET Nat, IsFiniteSet(K), K # {}
  PROVE  /\ \E k \in K : \A h \in K : k <= h
         /\ \E k \in K : \A h \in K : h <= k
<1> DEFINE n == Cardinality(K)
<1>1. n \in Nat /\ n # 0 BY FS_CardinalityType, FS_EmptySet
<1>2. PICK p \in [1..n -> K] :
           /\ \A a, b \in 1..n : a < b => p[a] < p[b]
           /\ \A k \in K : \E a \in 1..n : p[a] = k
  BY Counted
<1> HIDE DEF n
<1>3. 1 \in 1..n /\ n \in 1..n BY <1>1
<1>4. \A h \in K : p[1] <= h
  <2> TAKE h \in K
  <2>1. PICK a \in 1..n : p[a] = h BY <1>2
  <2>2. a = 1 \/ 1 < a BY <1>1
  <2>3. p[1] \in Nat /\ p[a] \in Nat BY <1>2, <1>3
  <2> QED BY <1>2, <1>3, <2>1, <2>2, <2>3
<1>5. \A h \in K : h <= p[n]
  <2> TAKE h \in K
  <2>1. PICK a \in 1..n : p[a] = h BY <1>2
  <2>2. a = n \/ a < n BY <1>1
  <2>3. p[n] \in Nat /\ p[a] \in Nat BY <1>2, <1>3
  <2> QED BY <1>2, <1>3, <2>1, <2>2, <2>3
<1> QED BY <1>2, <1>3, <1>4, <1>5

\* Find is what it says.
LEMMA FindIs ==
  ASSUME NEW S, NEW s \in Seq(S), NEW i \in Nat \ {0}, NEW T
  PROVE  /\ Find(s, i, T) \in 1..(Len(s) + 1)
         /\ Find(s, i, T) = Len(s) + 1 \/ (i <= Find(s, i, T) /\ s[Find(s, i, T)] \in T)
         /\ \A k \in i..(Find(s, i, T) - 1) : s[k] \notin T
<1> DEFINE P(j) == /\ j = Len(s) + 1 \/ (i <= j /\ s[j] \in T)
                   /\ \A k \in i..(j - 1) : s[k] \notin T
<1>1. Len(s) \in Nat BY LenProperties
<1>2. \E j \in 1..(Len(s) + 1) : P(j)
  <2> DEFINE K == {j \in 1..Len(s) : i <= j /\ s[j] \in T}
  <2>1. IsFiniteSet(1..Len(s)) BY <1>1, FS_Interval
  <2>2. K \in SUBSET (1..Len(s)) /\ K \in SUBSET Nat OBVIOUS
  <2>3. IsFiniteSet(K)
    <3> HIDE DEF K
    <3> QED BY <2>1, <2>2, FS_Subset
  <2>4. CASE \A k \in i..Len(s) : s[k] \notin T
    <3>1. P(Len(s) + 1) BY <1>1, <2>4
    <3> HIDE DEF P
    <3> QED BY <1>1, <3>1
  <2>5. CASE \E k \in i..Len(s) : s[k] \in T
    <3>1. PICK k0 \in i..Len(s) : s[k0] \in T BY <2>5
    <3>2. k0 \in K BY <3>1, <1>1
    <3>3. PICK k \in K : \A h \in K : k <= h
      <4> HIDE DEF K
      <4> QED BY <2>2, <2>3, <3>2, Extremes
    <3>4. P(k) BY <3>3, <1>1
    <3>5. k \in 1..(Len(s) + 1) BY <3>3, <1>1
    <3> HIDE DEF P
    <3> QED BY <3>4, <3>5
  <2> QED BY <2>4, <2>5
<1>3. Find(s, i, T) = CHOOSE j \in 1..(Len(s) + 1) : P(j) BY DEF Find
<1>4. Find(s, i, T) \in 1..(Len(s) + 1) /\ P(Find(s, i, T))
  <2> HIDE DEF P
  <2> QED BY <1>2, <1>3
<1> QED BY <1>4

\* SetToSeq lists a finite set.
LEMMA ListIs ==
  ASSUME NEW S, IsFiniteSet(S)
  PROVE  /\ SetToSeq(S) \in Seq(S)
         /\ \A x \in S : \E a \in DOMAIN SetToSeq(S) : SetToSeq(S)[a] = x
<1> DEFINE n == Cardinality(S)
           q == SetToSeq(S)
<1>1. n \in Nat /\ ExistsBijection(1..n, S) BY FS_CardinalityType
<1>2. \E f \in [1..n -> S] : IsInjective(f)
  BY <1>1 DEF ExistsBijection, Bijection, Injection, IsInjective
<1>3. q \in [1..n -> S] /\ IsInjective(q) BY <1>2 DEF SetToSeq
<1>4. IsFiniteSet(1..n) /\ Cardinality(1..n) = n BY <1>1, FS_Interval
<1> HIDE DEF q
<1>5. q \in Injection(1..n, S) BY <1>3 DEF Injection
<1>6. q \in Surjection(1..n, S) BY <1>4, <1>5, FS_Injection
<1>7. \A x \in S : \E a \in 1..n : q[a] = x BY <1>6 DEF Surjection
<1>8. q \in Seq(S) /\ DOMAIN q = 1..n BY <1>1, <1>3
<1> QED BY <1>7, <1>8 DEF q

\* A table has one row for each of its names.
LEMMA BaseRowsIs ==
  ASSUME NEW S \in SUBSET RowNames, IsFiniteSet(S), NEW says, \A c \in S : says[c] \in Editions
  PROVE  /\ BaseRows(S, says) \in Seq(Line)
         /\ \A a \in DOMAIN BaseRows(S, says) : \E c \in S : BaseRows(S, says)[a] = Entry(c, FALSE, says[c])
         /\ \A c \in S : \E a \in DOMAIN BaseRows(S, says) : BaseRows(S, says)[a] = Entry(c, FALSE, says[c])
<1> DEFINE E == {Entry(c, FALSE, says[c]) : c \in S}
           f == [c \in S |-> Entry(c, FALSE, says[c])]
           q == SetToSeq(E)
<1>1. f \in Surjection(S, E) BY DEF Surjection
<1>2. IsFiniteSet(E)
  <2> HIDE DEF E, f
  <2> QED BY <1>1, FS_Surjection
<1>3. q \in Seq(E) /\ \A x \in E : \E a \in DOMAIN q : q[a] = x
  <2> HIDE DEF E
  <2> QED BY <1>2, ListIs
<1>4. BaseRows(S, says) = q BY DEF BaseRows
<1>5. E \subseteq Line
  <2> SUFFICES ASSUME NEW c \in S PROVE Entry(c, FALSE, says[c]) \in Line OBVIOUS
  <2>1. c \in RowNames /\ says[c] \in Editions OBVIOUS
  <2>2. Entry(c, FALSE, says[c]) \in [k : {"row"}, name : RowNames, legacy : BOOLEAN, says : Editions \cup {Own}]
    BY <2>1 DEF Entry
  <2> QED BY <2>2 DEF Line
<1>6. q \in Seq(Line)
  <2> HIDE DEF E, q
  <2> QED BY <1>3, <1>5, SeqMonotonic
<1>7. DOMAIN q = 1..Len(q) /\ q \in [1..Len(q) -> E]
  <2> HIDE DEF E, q
  <2> QED BY <1>3, LenProperties
<1>8. \A a \in DOMAIN q : q[a] \in E
  <2> HIDE DEF E, q
  <2> QED BY <1>7
<1>9. \A a \in DOMAIN q : \E c \in S : q[a] = Entry(c, FALSE, says[c])
  <2> HIDE DEF q
  <2> QED BY <1>8
<1>10. \A c \in S : \E a \in DOMAIN q : q[a] = Entry(c, FALSE, says[c])
  <2> HIDE DEF q
  <2> QED BY <1>3
<1> QED BY <1>4, <1>6, <1>9, <1>10

-----------------------------------------------------------------------------
(* Sections *)

\* The first section n stands between the places i and j.
Stands(t, n, i, j) ==
  /\ i \in DOMAIN t /\ j \in DOMAIN t /\ i < j
  /\ t[i] = Sec(n) /\ t[j] = Sec(n + 1)
  /\ \A k \in 1..i - 1 : t[k] # Sec(n)
  /\ \A k \in i + 1..j - 1 : ~IsSec(t[k])

\* t with B between the places i and j.
Put(t, i, j, B) == SubSeq(t, 1, i) \o B \o SubSeq(t, j, Len(t))

\* Headings of sections are told from each other and from every other line.
LEMMA SecLines ==
  /\ \A n \in Nat : IsSec(Sec(n)) /\ Sec(n) \in Line /\ \A m \in Nat : Sec(n) = Sec(m) => n = m
  /\ \A l \in Line : IsSec(l) => \E n \in Nat : l = Sec(n)
  /\ ~IsSec(Note) /\ ~IsSec(Intro) /\ \A n : ~IsSec(Sub(n))
  /\ \A x, b, e : ~IsSec(Entry(x, b, e)) /\ IsRow(Entry(x, b, e)) /\ Entry(x, b, e) # Note
<1>1. \A n \in Nat : IsSec(Sec(n)) /\ Sec(n) \in Line BY DEF IsSec, Sec, Line
<1>2. \A n, m \in Nat : Sec(n) = Sec(m) => n = m BY DEF Sec
<1>3. \A l \in Line : IsSec(l) => \E n \in Nat : l = Sec(n)
  <2> SUFFICES ASSUME NEW l \in Line, IsSec(l) PROVE \E n \in Nat : l = Sec(n) OBVIOUS
  <2>1. l.k = "sec" BY DEF IsSec
  <2>2. l \in [k : {"sec", "sub"}, n : Nat] BY <2>1 DEF Line, Intro, Note
  <2>3. l.n \in Nat /\ l = Sec(l.n) BY <2>1, <2>2 DEF Sec
  <2> QED BY <2>3
<1>4. ~IsSec(Note) /\ ~IsSec(Intro) /\ \A n : ~IsSec(Sub(n)) BY DEF IsSec, Note, Intro, Sub
<1>5. \A x, b, e : ~IsSec(Entry(x, b, e)) /\ IsRow(Entry(x, b, e)) BY DEF IsSec, IsRow, Entry
<1>6. \A x, b, e : Entry(x, b, e) # Note
  <2>1. ~IsRow(Note) BY DEF IsRow, Note
  <2> QED BY <1>5, <2>1
<1> QED BY <1>1, <1>2, <1>3, <1>4, <1>5, <1>6

\* The three ways in which the scripts find a section agree.
LEMMA StandsIs ==
  ASSUME NEW t \in Seq(Line), NEW n \in {4, 6, 7}, NEW i, NEW j, Stands(t, n, i, j)
  PROVE  /\ section(t, n) = SubSeq(t, i + 1, j - 1)
         /\ Between(t, n, n + 1) = SubSeq(t, i + 1, j - 1)
         /\ Find(t, 1, {Sec(n)}) = i /\ Find(t, i + 1, {Sec(n + 1)}) = j
<1> DEFINE heads == {l \in Range(t) : IsSec(l)}
<1>1. Len(t) \in Nat /\ DOMAIN t = 1..Len(t) BY LenProperties
<1>2. i \in 1..Len(t) /\ j \in 1..Len(t) /\ i < j /\ t[i] = Sec(n) /\ t[j] = Sec(n + 1)
      /\ (\A k \in 1..i - 1 : t[k] # Sec(n)) /\ (\A k \in i + 1..j - 1 : ~IsSec(t[k]))
  BY <1>1 DEF Stands
<1>3. Find(t, 1, {Sec(n)}) = i
  <2> DEFINE x == Find(t, 1, {Sec(n)})
  <2>1. x \in 1..(Len(t) + 1) /\ (x = Len(t) + 1 \/ t[x] = Sec(n)) /\ \A k \in 1..(x - 1) : t[k] # Sec(n)
    BY FindIs
  <2> HIDE DEF x
  <2>2. ~(x < i) BY <2>1, <1>1, <1>2
  <2>3. ~(i < x) BY <2>1, <1>1, <1>2
  <2>4. x = i BY <2>1, <2>2, <2>3, <1>1, <1>2
  <2> QED BY <2>4 DEF x
<1>4. t[j] \in heads /\ \A k \in i + 1..j - 1 : t[k] \notin heads
  BY <1>1, <1>2, SecLines DEF Range
<1>5. \A k \in i + 1..j - 1 : t[k] # Sec(n + 1) BY <1>2, SecLines
<1> HIDE DEF heads
<1>6. ASSUME NEW T, t[j] \in T, \A k \in i + 1..j - 1 : t[k] \notin T
      PROVE  Find(t, i + 1, T) = j
  <2> DEFINE x == Find(t, i + 1, T)
  <2>0. i + 1 \in Nat \ {0} BY <1>1, <1>2
  <2>1. x \in 1..(Len(t) + 1) /\ (x = Len(t) + 1 \/ (i + 1 <= x /\ t[x] \in T)) /\ \A k \in i + 1..(x - 1) : t[k] \notin T
    BY <2>0, FindIs
  <2> HIDE DEF x
  <2>2. ~(x < j) BY <2>1, <1>1, <1>2, <1>6
  <2>3. ~(j < x)
    <3> SUFFICES ASSUME j < x PROVE FALSE OBVIOUS
    <3>1. j \in i + 1..(x - 1) BY <1>1, <1>2, <2>1
    <3> QED BY <3>1, <2>1, <1>6
  <2>4. x = j BY <2>1, <2>2, <2>3, <1>1, <1>2
  <2> QED BY <2>4 DEF x
<1>7. Find(t, i + 1, {Sec(n + 1)}) = j BY <1>2, <1>5, <1>6
<1>8. Find(t, i + 1, heads) = j BY <1>4, <1>6
<1>9. ~(j > Len(t)) BY <1>1, <1>2
<1>10. section(t, n) = SubSeq(t, i + 1, j - 1) BY <1>3, <1>8, <1>9 DEF section, heads
<1>11. Between(t, n, n + 1) = SubSeq(t, i + 1, j - 1) BY <1>3, <1>7 DEF Between
<1> QED BY <1>3, <1>7, <1>10, <1>11

\* Replacing a section that stands puts the new body between its headings.
LEMMA PutIs ==
  ASSUME NEW t \in Seq(Line), NEW n \in {4, 6, 7}, NEW i, NEW j, Stands(t, n, i, j), NEW B
  PROVE  Replaced(t, n, n + 1, B) = Put(t, i, j, B)
<1>1. Find(t, 1, {Sec(n)}) = i /\ Find(t, i + 1, {Sec(n + 1)}) = j BY StandsIs
<1>2. ~(j > Len(t)) BY LenProperties DEF Stands
<1> QED BY <1>1, <1>2 DEF Replaced, Put

\* A document without the section has no body, and is left alone.
LEMMA NoSection ==
  ASSUME NEW t \in Seq(Line), Numbered(t), NEW n \in {4, 6, 7},
         ~\E i, j \in DOMAIN t : Stands(t, n, i, j)
  PROVE  section(t, n) = <<>> /\ \A B : Replaced(t, n, n + 1, B) = t
<1> DEFINE heads == {l \in Range(t) : IsSec(l)}
           i == Find(t, 1, {Sec(n)})
           j == Find(t, i + 1, {Sec(n + 1)})
           h == Find(t, i + 1, heads)
<1>1. Len(t) \in Nat /\ DOMAIN t = 1..Len(t) BY LenProperties
<1>2. i \in 1..(Len(t) + 1) /\ (i = Len(t) + 1 \/ t[i] = Sec(n)) /\ \A k \in 1..(i - 1) : t[k] # Sec(n)
  BY FindIs
<1>3. i + 1 \in Nat \ {0} BY <1>1, <1>2
<1>4. j \in 1..(Len(t) + 1) /\ (j = Len(t) + 1 \/ (i + 1 <= j /\ t[j] = Sec(n + 1)))
  <2> HIDE DEF i
  <2> QED BY <1>3, FindIs
<1>5. h \in 1..(Len(t) + 1) /\ (h = Len(t) + 1 \/ (i + 1 <= h /\ t[h] \in heads)) /\ \A k \in i + 1..(h - 1) : t[k] \notin heads
  <2> HIDE DEF i, heads
  <2> QED BY <1>3, FindIs
<1>6. section(t, n) = IF h > Len(t) THEN <<>> ELSE SubSeq(t, i + 1, h - 1) BY DEF section
<1>7. \A B : Replaced(t, n, n + 1, B) = IF j > Len(t) THEN t ELSE SubSeq(t, 1, i) \o B \o SubSeq(t, j, Len(t))
  BY DEF Replaced
<1> HIDE DEF i, j, h
<1>8. h = Len(t) + 1
  <2> SUFFICES ASSUME h # Len(t) + 1 PROVE FALSE OBVIOUS
  <2>1. h \in 1..Len(t) /\ i \in 1..Len(t) /\ i < h /\ IsSec(t[h]) BY <1>1, <1>2, <1>3, <1>5
  <2>2. t[i] = Sec(n) BY <1>1, <1>2, <2>1
  <2>3. \A k \in i + 1..h - 1 : ~IsSec(t[k])
    <3> SUFFICES ASSUME NEW k \in i + 1..h - 1, IsSec(t[k]) PROVE FALSE OBVIOUS
    <3>1. k \in DOMAIN t BY <1>1, <2>1
    <3>2. t[k] \in heads BY <3>1 DEF Range
    <3> HIDE DEF heads
    <3> QED BY <1>5, <3>2
  <2>4. t[h] = Sec(n + 1)
    <3>1. i \in DOMAIN t /\ h \in i + 1..Len(t) BY <1>1, <2>1
    <3> QED BY <2>1, <2>2, <2>3, <3>1 DEF Numbered
  <2>5. Stands(t, n, i, h) BY <1>1, <1>2, <2>1, <2>2, <2>3, <2>4 DEF Stands
  <2> QED BY <1>1, <2>1, <2>5
<1>9. j = Len(t) + 1
  <2> SUFFICES ASSUME j # Len(t) + 1 PROVE FALSE OBVIOUS
  <2>1. j \in DOMAIN t /\ j \in i + 1..(h - 1) /\ t[j] = Sec(n + 1) BY <1>1, <1>2, <1>4, <1>8
  <2>2. IsSec(t[j]) BY <2>1, SecLines
  <2>3. t[j] \in heads BY <2>1, <2>2 DEF Range
  <2> HIDE DEF heads
  <2> QED BY <1>5, <2>1, <2>3
<1>10. section(t, n) = <<>> BY <1>1, <1>6, <1>8
<1>11. \A B : Replaced(t, n, n + 1, B) = t BY <1>1, <1>7, <1>9
<1> QED BY <1>10, <1>11
\* u is t with the body B between the places i and j, which shifts the rest by D.
Spliced(t, u, i, j, B, D) ==
  /\ u \in Seq(Line) /\ D \in Int /\ D = Len(B) + 1 + i - j /\ Len(u) = Len(t) + D
  /\ \A k \in 1..i : u[k] = t[k]
  /\ \A k \in 1..Len(B) : u[i + k] = B[k]
  /\ \A k \in j..Len(t) : u[k + D] = t[k]

\* Where the lines of a document go when a part of it is replaced.
LEMMA SpliceIs ==
  ASSUME NEW t \in Seq(Line), NEW i \in DOMAIN t, NEW j \in 1..Len(t) + 1, i < j, NEW B \in Seq(Line)
  PROVE  Spliced(t, Put(t, i, j, B), i, j, B, Len(B) + 1 + i - j)
<1> DEFINE a == SubSeq(t, 1, i)
           c == SubSeq(t, j, Len(t))
           ab == a \o B
           u == ab \o c
           D == Len(B) + 1 + i - j
<1>1. /\ Len(t) \in Nat /\ DOMAIN t = 1..Len(t) /\ Len(B) \in Nat /\ i \in 1..Len(t) /\ j \in Nat /\ j \in 1..Len(t) + 1
      /\ \A k \in 1..Len(t) : t[k] \in Line
  BY LenProperties, ElementOfSeq
<1>2. a \in Seq(Line) /\ Len(a) = i /\ \A k \in 1..i : a[k] = t[k]
  <2>1. \A k \in 1..i : t[k] \in Line BY <1>1
  <2>2. a \in Seq(Line) /\ Len(a) = (IF 1 <= i THEN i - 1 + 1 ELSE 0) /\ \A k \in 1..i - 1 + 1 : a[k] = t[1 + k - 1]
    BY <1>1, <2>1, SubSeqProperties
  <2> HIDE DEF a
  <2> QED BY <1>1, <2>2
<1>3. c \in Seq(Line) /\ Len(c) = Len(t) - j + 1 /\ \A k \in 1..Len(t) - j + 1 : c[k] = t[j + k - 1]
  <2>1. \A k \in j..Len(t) : t[k] \in Line BY <1>1
  <2>2. c \in Seq(Line) /\ Len(c) = (IF j <= Len(t) THEN Len(t) - j + 1 ELSE 0) /\ \A k \in 1..Len(t) - j + 1 : c[k] = t[j + k - 1]
    <3>1. j \in Int /\ Len(t) \in Int BY <1>1
    <3> QED BY <2>1, <3>1, SubSeqProperties
  <2> HIDE DEF c
  <2> QED BY <1>1, <2>2
<1> HIDE DEF a, c
<1>4. ab \in Seq(Line) /\ Len(ab) = i + Len(B)
      /\ \A k \in 1..i + Len(B) : ab[k] = IF k <= i THEN a[k] ELSE B[k - i]
  BY <1>2, ConcatProperties
<1> HIDE DEF ab
<1>5. u \in Seq(Line) /\ Len(u) = i + Len(B) + Len(c)
      /\ \A k \in 1..i + Len(B) + Len(c) : u[k] = IF k <= i + Len(B) THEN ab[k] ELSE c[k - (i + Len(B))]
  <2>1. u \in Seq(Line) /\ Len(u) = Len(ab) + Len(c)
        /\ \A k \in 1..Len(ab) + Len(c) : u[k] = IF k <= Len(ab) THEN ab[k] ELSE c[k - Len(ab)]
    BY <1>3, <1>4, ConcatProperties
  <2> HIDE DEF u
  <2> QED BY <2>1, <1>4
<1> HIDE DEF u
<1>6. D \in Int /\ Len(u) = Len(t) + D BY <1>1, <1>3, <1>5
<1>7. \A k \in 1..i : u[k] = t[k]
  <2> TAKE k \in 1..i
  <2>1. k \in 1..i + Len(B) /\ k \in 1..i + Len(B) + Len(c) /\ k <= i /\ k <= i + Len(B) BY <1>1, <1>3
  <2> QED BY <2>1, <1>2, <1>4, <1>5
<1>8. \A k \in 1..Len(B) : u[i + k] = B[k]
  <2> TAKE k \in 1..Len(B)
  <2>1. i + k \in 1..i + Len(B) /\ i + k \in 1..i + Len(B) + Len(c) /\ ~(i + k <= i) /\ i + k <= i + Len(B) /\ (i + k) - i = k
    BY <1>1, <1>3
  <2> QED BY <2>1, <1>4, <1>5
<1>9. \A x \in 1..Len(t) - j + 1 : u[i + Len(B) + x] = t[j + x - 1]
  <2> TAKE x \in 1..Len(t) - j + 1
  <2>1. /\ i + Len(B) + x \in 1..i + Len(B) + Len(c) /\ ~(i + Len(B) + x <= i + Len(B))
        /\ (i + Len(B) + x) - (i + Len(B)) = x
    BY <1>1, <1>3
  <2> QED BY <2>1, <1>3, <1>5
<1>10. \A k \in j..Len(t) : u[k + D] = t[k]
  <2> TAKE k \in j..Len(t)
  <2>1. k - j + 1 \in 1..Len(t) - j + 1 BY <1>1
  <2>2. u[i + Len(B) + (k - j + 1)] = t[j + (k - j + 1) - 1] BY <2>1, <1>9
  <2>3. j + (k - j + 1) - 1 = k BY <1>1
  <2>4. i + Len(B) + (k - j + 1) = k + D BY <1>1
  <2> HIDE DEF D
  <2> QED BY <2>2, <2>3, <2>4
<1> QED BY <1>5, <1>6, <1>7, <1>8, <1>10 DEF Spliced, Put, a, c, u, ab

OnlyNote(s) == \A a, b \in DOMAIN s : s[a] = Note /\ s[b] = Note => a = b

\* A body that may take the place of old: no headings of sections, no new notes.
Fits(B, old) ==
  /\ B \in Seq(Line) /\ \A a \in DOMAIN B : ~IsSec(B[a])
  /\ \A a \in DOMAIN B : B[a] = Note => \E k \in DOMAIN old : old[k] = Note
  /\ OnlyNote(old) => OnlyNote(B)

\* The lines between the headings are the body.
LEMMA BodyIs ==
  ASSUME NEW t \in Seq(Line), NEW n \in {4, 6, 7}, NEW i, NEW j, Stands(t, n, i, j)
  PROVE  /\ section(t, n) \in Seq(Line) /\ Len(section(t, n)) = j - i - 1
         /\ \A k \in 1..j - i - 1 : section(t, n)[k] = t[i + k] /\ ~IsSec(t[i + k])
<1>1. /\ Len(t) \in Nat /\ DOMAIN t = 1..Len(t) /\ \A k \in 1..Len(t) : t[k] \in Line
  BY LenProperties, ElementOfSeq
<1>2. i \in 1..Len(t) /\ j \in 1..Len(t) /\ i < j /\ \A k \in i + 1..j - 1 : ~IsSec(t[k]) BY <1>1 DEF Stands
<1> DEFINE s == SubSeq(t, i + 1, j - 1)
<1>3. section(t, n) = s BY StandsIs
<1>4. \A k \in i + 1..j - 1 : t[k] \in Line BY <1>1, <1>2
<1>5. i + 1 \in Int /\ j - 1 \in Int BY <1>1, <1>2
<1>6. s \in Seq(Line) /\ Len(s) = (IF i + 1 <= j - 1 THEN (j - 1) - (i + 1) + 1 ELSE 0)
      /\ \A k \in 1..(j - 1) - (i + 1) + 1 : s[k] = t[(i + 1) + k - 1]
  BY <1>4, <1>5, SubSeqProperties
<1> HIDE DEF s
<1>7. Len(s) = j - i - 1 BY <1>1, <1>2, <1>6
<1>8. \A k \in 1..j - i - 1 : s[k] = t[i + k] /\ ~IsSec(t[i + k])
  <2> TAKE k \in 1..j - i - 1
  <2>1. k \in 1..(j - 1) - (i + 1) + 1 /\ (i + 1) + k - 1 = i + k /\ i + k \in i + 1..j - 1 BY <1>1, <1>2
  <2> QED BY <2>1, <1>2, <1>6
<1> QED BY <1>3, <1>6, <1>7, <1>8

-----------------------------------------------------------------------------
(* A section rewritten leaves the rest of the document as it was *)

\* u is t with B for what stands between i, the first heading of a section n, and j;
\* neither has a heading of a section.
Rewrites(t, u, n, i, j, B, D) ==
  /\ t \in Seq(Line) /\ n \in {4, 6, 7} /\ i \in DOMAIN t /\ j \in 1..Len(t) + 1 /\ i < j
  /\ t[i] = Sec(n) /\ (\A k \in 1..i - 1 : t[k] # Sec(n)) /\ (\A k \in i + 1..j - 1 : ~IsSec(t[k]))
  /\ B \in Seq(Line) /\ \A a \in DOMAIN B : ~IsSec(B[a])
  /\ Spliced(t, u, i, j, B, D)

\* The three parts of the two documents, line by line.
Parts3(t, u, n, i, j, B, D) ==
  /\ i \in Nat /\ j \in Nat /\ Len(t) \in Nat /\ Len(u) \in Nat /\ Len(B) \in Nat /\ D \in Int
  /\ 0 < i /\ i < j /\ j <= Len(t) + 1 /\ i < j + D /\ j + D <= Len(u) + 1 /\ Len(u) = Len(t) + D /\ j + D = i + Len(B) + 1
  /\ DOMAIN t = 1..Len(t) /\ DOMAIN u = 1..Len(u) /\ DOMAIN B = 1..Len(B)
  /\ \A x \in Nat : x <= i => u[x] = t[x] \/ x = 0
  /\ \A x \in Nat : j <= x /\ x <= Len(t) => x + D \in Nat /\ u[x + D] = t[x]
  /\ \A x \in Nat : j + D <= x /\ x <= Len(u) => x - D \in Nat /\ u[x] = t[x - D]
  /\ \A x \in Nat : i < x /\ x < j + D => ~IsSec(u[x]) /\ x - i \in DOMAIN B /\ u[x] = B[x - i]
  /\ \A x \in Nat : i < x /\ x < j => ~IsSec(t[x])
  /\ u[i] = Sec(n) /\ t[i] = Sec(n)

\* The parts before, inside and behind what was replaced, by their places.
LEMMA PartsAre ==
  ASSUME NEW t, NEW u, NEW n, NEW i, NEW j, NEW B, NEW D, Rewrites(t, u, n, i, j, B, D)
  PROVE  Parts3(t, u, n, i, j, B, D) /\ u \in Seq(Line)
<1>1. /\ t \in Seq(Line) /\ u \in Seq(Line) /\ B \in Seq(Line) /\ n \in {4, 6, 7} /\ D \in Int
      /\ \A a \in DOMAIN B : ~IsSec(B[a])
      /\ Len(t) \in Nat /\ DOMAIN t = 1..Len(t) /\ Len(u) \in Nat /\ DOMAIN u = 1..Len(u) /\ Len(B) \in Nat /\ DOMAIN B = 1..Len(B)
  BY LenProperties DEF Rewrites, Spliced
<1>2. /\ i \in Nat /\ j \in Nat /\ 0 < i /\ i < j /\ j <= Len(t) + 1 /\ t[i] = Sec(n)
      /\ \A k \in 1..i - 1 : t[k] # Sec(n)
      /\ \A k \in i + 1..j - 1 : ~IsSec(t[k])
  BY <1>1 DEF Rewrites
<1>3. /\ D = Len(B) + 1 + i - j /\ Len(u) = Len(t) + D
      /\ \A k \in 1..i : u[k] = t[k]
      /\ \A k \in 1..Len(B) : u[i + k] = B[k]
      /\ \A k \in j..Len(t) : u[k + D] = t[k]
  BY DEF Rewrites, Spliced
<1>4. i < j + D /\ j + D <= Len(u) + 1 /\ j + D = i + Len(B) + 1 BY <1>1, <1>2, <1>3
<1>5. \A x \in Nat : x <= i => u[x] = t[x] \/ x = 0 BY <1>2, <1>3
<1>6. \A x \in Nat : j <= x /\ x <= Len(t) => x + D \in Nat /\ u[x + D] = t[x]
  <2> SUFFICES ASSUME NEW x \in Nat, j <= x, x <= Len(t) PROVE x + D \in Nat /\ u[x + D] = t[x] OBVIOUS
  <2>1. x + D \in Nat BY <1>1, <1>2, <1>4
  <2>2. x \in j..Len(t) BY <1>1, <1>2
  <2> QED BY <1>3, <2>1, <2>2
<1>7. \A x \in Nat : j + D <= x /\ x <= Len(u) => x - D \in Nat /\ u[x] = t[x - D]
  <2> SUFFICES ASSUME NEW x \in Nat, j + D <= x, x <= Len(u) PROVE x - D \in Nat /\ u[x] = t[x - D] OBVIOUS
  <2>0. Len(u) = Len(t) + D BY <1>3
  <2>1. x - D \in Nat /\ j <= x - D /\ x - D <= Len(t) BY <1>1, <1>2, <2>0
  <2>2. u[(x - D) + D] = t[x - D] BY <1>6, <2>1
  <2>3. (x - D) + D = x BY <1>1
  <2> QED BY <2>1, <2>2, <2>3
<1>8. \A x \in Nat : i < x /\ x < j + D => ~IsSec(u[x]) /\ x - i \in DOMAIN B /\ u[x] = B[x - i]
  <2> SUFFICES ASSUME NEW x \in Nat, i < x, x < j + D PROVE ~IsSec(u[x]) /\ x - i \in DOMAIN B /\ u[x] = B[x - i] OBVIOUS
  <2>1. x - i \in 1..Len(B) /\ i + (x - i) = x BY <1>1, <1>2, <1>4
  <2>2. u[i + (x - i)] = B[x - i] BY <1>3, <2>1
  <2> QED BY <1>1, <2>1, <2>2
<1>9. \A x \in Nat : i < x /\ x < j => ~IsSec(t[x]) BY <1>2
<1>10. u[i] = Sec(n) BY <1>2, <1>3
<1>11. Parts3(t, u, n, i, j, B, D) BY <1>1, <1>2, <1>3, <1>4, <1>5, <1>6, <1>7, <1>8, <1>9, <1>10 DEF Parts3
<1> QED BY <1>1, <1>11

\* What a rewriting does can be undone.
LEMMA Back ==
  ASSUME NEW t, NEW u, NEW n, NEW i, NEW j, NEW B, NEW D, Rewrites(t, u, n, i, j, B, D)
  PROVE  Rewrites(u, t, n, i, j + D, SubSeq(t, i + 1, j - 1), 0 - D)
<1>1. Parts3(t, u, n, i, j, B, D) /\ u \in Seq(Line) BY PartsAre
<1>2. /\ t \in Seq(Line) /\ n \in {4, 6, 7} /\ \A k \in 1..i - 1 : t[k] # Sec(n)
      /\ \A k \in DOMAIN t : t[k] \in Line
  BY ElementOfSeq, LenProperties DEF Rewrites
<1> DEFINE s == SubSeq(t, i + 1, j - 1)
           E == 0 - D
           h == j + D
<1>3. /\ i \in Nat /\ j \in Nat /\ D \in Int /\ Len(u) \in Nat /\ Len(t) \in Nat /\ h \in Nat /\ E \in Int /\ Len(u) = Len(t) + D /\ 0 < i
      /\ i < j /\ j <= Len(t) + 1 /\ i < h /\ h <= Len(u) + 1
  BY <1>1 DEF Parts3
<1>3a. DOMAIN t = 1..Len(t) /\ DOMAIN u = 1..Len(u) BY <1>1 DEF Parts3
<1>4. s \in Seq(Line) /\ Len(s) = j - i - 1 /\ \A k \in 1..j - i - 1 : s[k] = t[i + k]
  <2>1. i + 1 \in Int /\ j - 1 \in Int /\ \A k \in i + 1..j - 1 : t[k] \in Line BY <1>2, <1>3, <1>3a
  <2>2. s \in Seq(Line) /\ Len(s) = (IF i + 1 <= j - 1 THEN (j - 1) - (i + 1) + 1 ELSE 0)
        /\ \A k \in 1..(j - 1) - (i + 1) + 1 : s[k] = t[(i + 1) + k - 1]
    BY <2>1, SubSeqProperties
  <2> HIDE DEF s
  <2>3. Len(s) = j - i - 1 BY <1>3, <2>2
  <2>4. \A k \in 1..j - i - 1 : s[k] = t[i + k]
    <3> TAKE k \in 1..j - i - 1
    <3>1. k \in 1..(j - 1) - (i + 1) + 1 /\ (i + 1) + k - 1 = i + k BY <1>3
    <3> QED BY <2>2, <3>1
  <2> QED BY <2>2, <2>3, <2>4
<1> HIDE DEF s
<1>5. DOMAIN s = 1..Len(s) BY <1>4, LenProperties
<1>6. \A a \in DOMAIN s : ~IsSec(s[a])
  <2> TAKE a \in DOMAIN s
  <2>1. a \in 1..j - i - 1 BY <1>4, <1>5
  <2>2. i + a \in Nat /\ i < i + a /\ i + a < j BY <1>3, <2>1
  <2>3. ~IsSec(t[i + a]) BY <1>1, <2>2 DEF Parts3
  <2> QED BY <1>4, <2>1, <2>3
<1>7. E = Len(s) + 1 + i - h /\ Len(t) = Len(u) + E
  <2>1. Len(s) = j - i - 1 BY <1>4
  <2>2. E = 0 - D /\ h = j + D OBVIOUS
  <2>3. i \in Nat /\ j \in Nat /\ D \in Int /\ Len(t) \in Nat /\ Len(u) = Len(t) + D BY <1>3
  <2> HIDE DEF E, h
  <2>4. Len(t) = Len(u) + E BY <2>2, <2>3
  <2>5. E = (j - i - 1) + 1 + i - h BY <2>2, <2>3
  <2> QED BY <2>1, <2>4, <2>5
<1>8. \A k \in 1..i : t[k] = u[k]
  <2>1. \A x \in Nat : x <= i => u[x] = t[x] \/ x = 0 BY <1>1 DEF Parts3
  <2> HIDE DEF E, h
  <2> QED BY <1>3, <2>1
<1>9. \A k \in 1..Len(s) : t[i + k] = s[k] BY <1>4
<1>10. \A k \in h..Len(u) : t[k + E] = u[k]
  <2> SUFFICES ASSUME NEW k \in Nat, h <= k, k <= Len(u) PROVE t[k + E] = u[k]
    <3> HIDE DEF E
    <3> QED BY <1>3
  <2>1. u[k] = t[k - D] BY <1>1 DEF Parts3
  <2>2. k + E = k - D BY <1>3
  <2> HIDE DEF E, h
  <2> QED BY <2>1, <2>2
<1>11. Spliced(u, t, i, h, s, E)
  <2> HIDE DEF E, h
  <2> QED BY <1>2, <1>3, <1>4, <1>7, <1>8, <1>9, <1>10 DEF Spliced
<1>12. i \in DOMAIN u /\ h \in 1..Len(u) + 1 /\ u[i] = Sec(n)
  <2>1. u[i] = Sec(n) BY <1>1 DEF Parts3
  <2>2. i \in DOMAIN u BY <1>3, <1>3a
  <2>3. h \in 1..Len(u) + 1
    <3> HIDE DEF h
    <3> QED BY <1>3
  <2> QED BY <2>1, <2>2, <2>3
<1>13. \A k \in 1..i - 1 : u[k] # Sec(n)
  <2> TAKE k \in 1..i - 1
  <2>1. k \in 1..i BY <1>3
  <2> QED BY <1>2, <1>8, <2>1
<1>14. \A k \in i + 1..h - 1 : ~IsSec(u[k])
  <2> SUFFICES ASSUME NEW k \in Nat, i < k, k < h PROVE ~IsSec(u[k])
    <3> HIDE DEF h
    <3> QED BY <1>3
  <2> QED BY <1>1 DEF Parts3
<1> QED BY <1>1, <1>2, <1>3, <1>4, <1>6, <1>11, <1>12, <1>13, <1>14 DEF Rewrites, s

\* Another section is where it was, or as far from the end.
LEMMA Moved ==
  ASSUME NEW t, NEW u, NEW n, NEW i, NEW j, NEW B, NEW D, Rewrites(t, u, n, i, j, B, D),
         NEW q \in {4, 6, 7}, q # n, NEW a, NEW b, Stands(t, q, a, b)
  PROVE  \E c, e : /\ Stands(u, q, c, e) /\ c \in Nat /\ e \in Nat /\ a \in Nat /\ b \in Nat /\ e - c = b - a
                   /\ \A k \in 1..b - a - 1 : u[c + k] = t[a + k]
<1>1. Parts3(t, u, n, i, j, B, D) /\ u \in Seq(Line) /\ n \in {4, 6, 7} BY PartsAre DEF Rewrites
<1>2. /\ i \in Nat /\ j \in Nat /\ Len(t) \in Nat /\ Len(u) \in Nat /\ D \in Int
      /\ 0 < i /\ i < j /\ j <= Len(t) + 1 /\ i < j + D /\ j + D <= Len(u) + 1 /\ Len(u) = Len(t) + D
      /\ DOMAIN t = 1..Len(t) /\ DOMAIN u = 1..Len(u)
  BY <1>1 DEF Parts3
<1>3. /\ \A x \in Nat : x <= i => u[x] = t[x] \/ x = 0
      /\ \A x \in Nat : j <= x /\ x <= Len(t) => x + D \in Nat /\ u[x + D] = t[x]
      /\ \A x \in Nat : j + D <= x /\ x <= Len(u) => x - D \in Nat /\ u[x] = t[x - D]
      /\ \A x \in Nat : i < x /\ x < j + D => ~IsSec(u[x])
      /\ \A x \in Nat : i < x /\ x < j => ~IsSec(t[x])
      /\ t[i] = Sec(n) /\ u[i] = Sec(n)
  BY <1>1 DEF Parts3
<1>4. /\ a \in Nat /\ b \in Nat /\ 0 < a /\ a < b /\ b <= Len(t) /\ t[a] = Sec(q) /\ t[b] = Sec(q + 1)
      /\ \A k \in Nat : 0 < k /\ k < a => t[k] # Sec(q)
      /\ \A k \in Nat : a < k /\ k < b => ~IsSec(t[k])
  <2>1. a \in 1..Len(t) /\ b \in 1..Len(t) /\ a < b /\ t[a] = Sec(q) /\ t[b] = Sec(q + 1)
        /\ (\A k \in 1..a - 1 : t[k] # Sec(q)) /\ \A k \in a + 1..b - 1 : ~IsSec(t[k])
    BY <1>2 DEF Stands
  <2> QED BY <1>2, <2>1
<1>5. IsSec(t[a]) /\ IsSec(t[b]) /\ IsSec(t[i]) /\ t[a] # t[i] BY <1>1, <1>3, <1>4, SecLines
<1>6. a < i \/ j <= a
  <2>1. a # i BY <1>5
  <2>2. ~(i < a /\ a < j) BY <1>3, <1>4, <1>5
  <2> QED BY <1>2, <1>4, <2>1, <2>2
<1>7. CASE a < i
  <2>1. b <= i
    <3>1. ~(a < i /\ i < b) BY <1>2, <1>4, <1>5
    <3> QED BY <1>2, <1>4, <1>7, <3>1
  <2>2. u[a] = t[a] /\ u[b] = t[b] BY <1>2, <1>3, <1>4, <1>7, <2>1
  <2>3. a \in DOMAIN u /\ b \in DOMAIN u BY <1>2, <1>4, <1>7, <2>1
  <2>4. \A k \in Nat : 0 < k /\ k < b => u[k] = t[k] BY <1>2, <1>3, <1>4, <2>1
  <2>5. \A k \in 1..a - 1 : u[k] # Sec(q)
    <3> SUFFICES ASSUME NEW k \in Nat, 0 < k, k < a PROVE u[k] # Sec(q) BY <1>4
    <3> QED BY <1>4, <2>4
  <2>6. \A k \in a + 1..b - 1 : ~IsSec(u[k])
    <3> SUFFICES ASSUME NEW k \in Nat, a < k, k < b PROVE ~IsSec(u[k]) BY <1>4
    <3>1. 0 < k BY <1>4
    <3> QED BY <1>4, <2>4, <3>1
  <2>7. Stands(u, q, a, b) BY <1>4, <2>2, <2>3, <2>5, <2>6 DEF Stands
  <2>8. \A k \in 1..b - a - 1 : u[a + k] = t[a + k]
    <3> TAKE k \in 1..b - a - 1
    <3>1. a + k \in Nat /\ 0 < a + k /\ a + k < b BY <1>4
    <3> QED BY <2>4, <3>1
  <2> QED BY <1>4, <2>7, <2>8
<1>8. CASE j <= a
  <2> DEFINE c == a + D
             e == b + D
  <2>1. j <= b BY <1>2, <1>4, <1>8
  <2>2. c \in Nat /\ e \in Nat /\ u[c] = t[a] /\ u[e] = t[b]
    <3>1. a \in Nat /\ a <= Len(t) /\ b \in Nat /\ b <= Len(t) BY <1>2, <1>4
    <3> QED BY <1>3, <1>8, <2>1, <3>1
  <2>3. c \in DOMAIN u /\ e \in DOMAIN u /\ c < e /\ e - c = b - a BY <1>2, <1>4, <1>8, <2>1, <2>2
  <2>4. \A k \in Nat : j + D <= k /\ k < e => k - D \in Nat /\ u[k] = t[k - D]
    <3>1. e \in Nat /\ Len(u) \in Nat /\ e <= Len(u) BY <1>2, <2>3
    <3> HIDE DEF c, e
    <3>2. \A k \in Nat : k < e => k <= Len(u) BY <3>1
    <3> QED BY <1>3, <3>2
  <2>5. \A k \in 1..c - 1 : u[k] # Sec(q)
    <3> SUFFICES ASSUME NEW k \in Nat, 0 < k, k < c, u[k] = Sec(q) PROVE FALSE BY <2>2
    <3>0. IsSec(u[k]) BY SecLines
    <3>1. CASE k <= i
      <4>1. u[k] = t[k] /\ k < a BY <1>2, <1>3, <1>4, <1>8, <3>1
      <4> QED BY <1>4, <4>1
    <3>2. CASE i < k /\ k < j + D BY <1>3, <3>0, <3>2
    <3>3. CASE j + D <= k
      <4>1. k - D \in Nat /\ 0 < k - D /\ k - D < a /\ u[k] = t[k - D]
        <5>1. k < e BY <2>2, <2>3
        <5>2. k - D \in Nat /\ u[k] = t[k - D] BY <2>4, <3>3, <5>1
        <5>3. 0 < k - D /\ k - D < a BY <1>2, <1>4, <3>3, <5>2
        <5> QED BY <5>2, <5>3
      <4> QED BY <1>4, <4>1
    <3> QED BY <1>2, <3>1, <3>2, <3>3
  <2>6. \A k \in Nat : c < k /\ k < e => ~IsSec(u[k])
    <3> SUFFICES ASSUME NEW k \in Nat, c < k, k < e PROVE ~IsSec(u[k]) OBVIOUS
    <3>0. j + D <= k BY <1>2, <1>4, <1>8, <2>2
    <3>1. k - D \in Nat /\ u[k] = t[k - D] BY <2>4, <3>0
    <3>2. a < k - D /\ k - D < b BY <1>2, <1>4, <2>2
    <3> QED BY <1>4, <3>1, <3>2
  <2>7. \A k \in c + 1..e - 1 : ~IsSec(u[k])
    <3> HIDE DEF c, e
    <3> QED BY <2>2, <2>6
  <2>8. Stands(u, q, c, e)
    <3> HIDE DEF c, e
    <3> QED BY <1>4, <2>2, <2>3, <2>5, <2>7 DEF Stands
  <2>9. \A k \in 1..b - a - 1 : u[c + k] = t[a + k]
    <3> TAKE k \in 1..b - a - 1
    <3>1. a + k \in Nat /\ j <= a + k /\ a + k <= Len(t) BY <1>2, <1>4, <1>8
    <3>2. u[(a + k) + D] = t[a + k] BY <1>3, <3>1
    <3>3. (a + k) + D = c + k BY <1>2, <1>4
    <3> HIDE DEF c
    <3> QED BY <3>2, <3>3
  <2> HIDE DEF c, e
  <2> QED BY <1>4, <2>2, <2>3, <2>8, <2>9
<1> QED BY <1>6, <1>7, <1>8

\* A section rewritten has the new body.
LEMMA BodyIsNew ==
  ASSUME NEW t, NEW u, NEW n, NEW i, NEW j, NEW B, NEW D, Rewrites(t, u, n, i, j, B, D), Stands(t, n, i, j)
  PROVE  section(u, n) = B
<1>0. Parts3(t, u, n, i, j, B, D) /\ u \in Seq(Line) /\ Rewrites(u, t, n, i, j + D, SubSeq(t, i + 1, j - 1), 0 - D)
  BY PartsAre, Back
<1>1. Parts3(t, u, n, i, j, B, D) /\ u \in Seq(Line) /\ Stands(u, n, i, j + D)
  <2>1. j \in Nat /\ j <= Len(t)
    <3>1. j \in DOMAIN t BY DEF Stands
    <3>2. DOMAIN t = 1..Len(t) /\ Len(t) \in Nat BY <1>0 DEF Parts3
    <3> QED BY <3>1, <3>2
  <2>2. u[j + D] = t[j] /\ j + D \in DOMAIN u BY <1>0, <2>1 DEF Parts3
  <2> QED BY <1>0, <2>2 DEF Stands, Rewrites
<1>2. n \in {4, 6, 7} /\ B \in Seq(Line) BY DEF Rewrites
<1>3. /\ i \in Nat /\ j \in Nat /\ D \in Int /\ Len(B) \in Nat /\ j + D = i + Len(B) + 1 /\ DOMAIN B = 1..Len(B)
      /\ \A x \in Nat : i < x /\ x < j + D => x - i \in DOMAIN B /\ u[x] = B[x - i]
  BY <1>1 DEF Parts3
<1> DEFINE s == section(u, n)
           h == j + D
<1>4. s \in Seq(Line) /\ Len(s) = h - i - 1 /\ \A k \in 1..h - i - 1 : s[k] = u[i + k]
  BY <1>1, <1>2, BodyIs
<1> HIDE DEF s
<1>5. Len(s) = Len(B) /\ h - i - 1 = Len(B) BY <1>3, <1>4
<1>6. \A k \in 1..Len(B) : s[k] = B[k]
  <2> TAKE k \in 1..Len(B)
  <2>1. s[k] = u[i + k] BY <1>4, <1>5
  <2>2. i + k \in Nat /\ i < i + k /\ i + k < j + D /\ (i + k) - i = k BY <1>3
  <2> QED BY <1>3, <2>1, <2>2
<1>7. s = B BY <1>2, <1>4, <1>5, <1>6, SeqEqual
<1> QED BY <1>7 DEF s

\* BodyIs, of any document and section.
LEMMA BodiesAre ==
  \A w, m, x, y : w \in Seq(Line) /\ m \in {4, 6, 7} /\ Stands(w, m, x, y) =>
     /\ section(w, m) \in Seq(Line) /\ Len(section(w, m)) = y - x - 1
     /\ \A k \in 1..y - x - 1 : section(w, m)[k] = w[x + k]
<1> SUFFICES ASSUME NEW w, NEW m, NEW x, NEW y, w \in Seq(Line), m \in {4, 6, 7}, Stands(w, m, x, y)
             PROVE  /\ section(w, m) \in Seq(Line) /\ Len(section(w, m)) = y - x - 1
                    /\ \A k \in 1..y - x - 1 : section(w, m)[k] = w[x + k]
  OBVIOUS
<1> QED BY BodyIs

\* Two sections of the same length and lines are the same.
LEMMA SameBody ==
  ASSUME NEW t \in Seq(Line), NEW u \in Seq(Line), NEW q \in {4, 6, 7}, NEW a, NEW b, NEW c, NEW e,
         Stands(t, q, a, b), Stands(u, q, c, e), e - c = b - a, \A k \in 1..b - a - 1 : u[c + k] = t[a + k]
  PROVE  section(u, q) = section(t, q)
<1>0. \A w, x, y : w \in Seq(Line) /\ Stands(w, q, x, y) =>
        /\ section(w, q) \in Seq(Line) /\ Len(section(w, q)) = y - x - 1
        /\ \A k \in 1..y - x - 1 : section(w, q)[k] = w[x + k]
  BY BodiesAre
<1>1. /\ section(t, q) \in Seq(Line) /\ Len(section(t, q)) = b - a - 1
      /\ \A k \in 1..b - a - 1 : section(t, q)[k] = t[a + k]
  BY <1>0
<1>2. /\ section(u, q) \in Seq(Line) /\ Len(section(u, q)) = e - c - 1
      /\ \A k \in 1..e - c - 1 : section(u, q)[k] = u[c + k]
  BY <1>0
<1>3. e - c - 1 = b - a - 1 OBVIOUS
<1>4. Len(section(u, q)) = Len(section(t, q)) /\ \A k \in 1..Len(section(u, q)) : section(u, q)[k] = section(t, q)[k]
  BY <1>1, <1>2, <1>3
<1> QED BY <1>1, <1>2, <1>4, SeqEqual

\* The other sections are as they were.
LEMMA OthersStay ==
  ASSUME NEW t, NEW u, NEW n, NEW i, NEW j, NEW B, NEW D, Rewrites(t, u, n, i, j, B, D), Numbered(t), Numbered(u),
         NEW q \in {4, 6, 7}, q # n
  PROVE  section(u, q) = section(t, q)
<1>1. t \in Seq(Line) /\ u \in Seq(Line) BY PartsAre DEF Rewrites
<1>2. CASE \E a, b \in DOMAIN t : Stands(t, q, a, b)
  <2>1. PICK a, b : Stands(t, q, a, b) BY <1>2
  <2>2. PICK c, e : /\ Stands(u, q, c, e) /\ c \in Nat /\ e \in Nat /\ a \in Nat /\ b \in Nat /\ e - c = b - a
                    /\ \A k \in 1..b - a - 1 : u[c + k] = t[a + k]
    BY <2>1, Moved
  <2> QED BY <1>1, <2>1, <2>2, SameBody
<1>3. CASE ~\E a, b \in DOMAIN t : Stands(t, q, a, b)
  <2>1. ~\E c, e \in DOMAIN u : Stands(u, q, c, e)
    <3> SUFFICES ASSUME NEW c, NEW e, Stands(u, q, c, e) PROVE FALSE OBVIOUS
    <3>1. Rewrites(u, t, n, i, j + D, SubSeq(t, i + 1, j - 1), 0 - D) BY Back
    <3>2. \E a, b : Stands(t, q, a, b) BY <3>1, Moved
    <3> QED BY <1>3, <3>2 DEF Stands
  <2> QED BY <1>1, <1>3, <2>1, NoSection
<1> QED BY <1>2, <1>3

\* Sections are still numbered in order.
LEMMA NumberedStill ==
  ASSUME NEW t, NEW u, NEW n, NEW i, NEW j, NEW B, NEW D, Rewrites(t, u, n, i, j, B, D), Numbered(t)
  PROVE  Numbered(u)
<1>1. Parts3(t, u, n, i, j, B, D) /\ u \in Seq(Line) /\ t \in Seq(Line) /\ n \in {4, 6, 7} BY PartsAre DEF Rewrites
<1>2. /\ i \in Nat /\ j \in Nat /\ Len(t) \in Nat /\ Len(u) \in Nat /\ D \in Int
      /\ 0 < i /\ i < j /\ j <= Len(t) + 1 /\ i < j + D /\ j + D <= Len(u) + 1 /\ Len(u) = Len(t) + D
      /\ DOMAIN t = 1..Len(t) /\ DOMAIN u = 1..Len(u)
  BY <1>1 DEF Parts3
<1>3. /\ \A x \in Nat : x <= i => u[x] = t[x] \/ x = 0
      /\ \A x \in Nat : j <= x /\ x <= Len(t) => x + D \in Nat /\ u[x + D] = t[x]
      /\ \A x \in Nat : j + D <= x /\ x <= Len(u) => x - D \in Nat /\ u[x] = t[x - D]
      /\ \A x \in Nat : i < x /\ x < j + D => ~IsSec(u[x])
      /\ \A x \in Nat : i < x /\ x < j => ~IsSec(t[x])
      /\ u[i] = Sec(n) /\ t[i] = Sec(n)
  BY <1>1 DEF Parts3
<1>4. IsSec(u[i]) BY <1>1, <1>3, SecLines
<1>5. ASSUME NEW x \in DOMAIN u, NEW m \in {4, 6, 7}, u[x] = Sec(m), NEW y \in x + 1..Len(u), IsSec(u[y]),
             \A k \in x + 1..y - 1 : ~IsSec(u[k])
      PROVE  u[y] = Sec(m + 1)
  <2>0. x \in Nat /\ y \in Nat /\ 0 < x /\ x < y /\ y <= Len(u) /\ IsSec(u[x]) BY <1>2, <1>5, SecLines
  <2>1. \A k \in Nat : x < k /\ k < y => ~IsSec(u[k])
    <3>1. \A k \in Nat : x < k /\ k < y => k \in x + 1..y - 1 BY <2>0
    <3> QED BY <1>5, <3>1
  <2>2. CASE x < i
    <3>1. y <= i BY <1>2, <1>4, <2>0, <2>1, <2>2
    <3>2. u[x] = t[x] /\ u[y] = t[y] BY <1>2, <1>3, <2>0, <2>2, <3>1
    <3>3. \A k \in x + 1..y - 1 : ~IsSec(t[k])
      <4> SUFFICES ASSUME NEW k \in Nat, x < k, k < y PROVE ~IsSec(t[k]) BY <2>0
      <4>1. u[k] = t[k] BY <1>2, <1>3, <2>0, <3>1
      <4> QED BY <2>1, <4>1
    <3>4. x \in DOMAIN t /\ y \in x + 1..Len(t) BY <1>2, <2>0, <2>2, <3>1
    <3> QED BY <1>5, <3>2, <3>3, <3>4 DEF Numbered
  <2>3. CASE x = i
    <3>1. ~(y < j + D) BY <1>3, <1>5, <2>0, <2>3
    <3>2. y - D \in Nat /\ u[y] = t[y - D] /\ j <= y - D /\ y - D <= Len(t) BY <1>2, <1>3, <2>0, <3>1
    <3> DEFINE yy == y - D
    <3>3. \A k \in i + 1..yy - 1 : ~IsSec(t[k])
      <4> SUFFICES ASSUME NEW k \in Nat, i < k, k < yy PROVE ~IsSec(t[k])
        <5> HIDE DEF yy
        <5> QED BY <1>2, <3>2 DEF yy
      <4>1. CASE k < j BY <1>3, <4>1
      <4>2. CASE j <= k
        <5>1. k <= Len(t) BY <1>2, <3>2
        <5>2. k + D \in Nat /\ u[k + D] = t[k] BY <1>3, <4>2, <5>1
        <5>3. x < k + D /\ k + D < y BY <1>2, <2>0, <2>3, <4>2, <5>2
        <5> QED BY <2>1, <5>2, <5>3
      <4> QED BY <1>2, <4>1, <4>2
    <3>4. i \in DOMAIN t /\ yy \in i + 1..Len(t) /\ t[i] = Sec(m) /\ IsSec(t[yy]) /\ u[y] = t[yy]
      BY <1>2, <1>3, <1>5, <2>3, <3>2
    <3> HIDE DEF yy
    <3> QED BY <3>3, <3>4 DEF Numbered
  <2>4. CASE i < x /\ x < j + D BY <1>3, <2>0, <2>4
  <2>5. CASE j + D <= x
    <3>1. /\ x - D \in Nat /\ y - D \in Nat /\ j <= x - D /\ x - D < y - D /\ y - D <= Len(t)
          /\ u[x] = t[x - D] /\ u[y] = t[y - D]
      BY <1>2, <1>3, <2>0, <2>5
    <3> DEFINE xx == x - D
               yy == y - D
    <3>2. \A k \in xx + 1..yy - 1 : ~IsSec(t[k])
      <4> SUFFICES ASSUME NEW k \in Nat, xx < k, k < yy PROVE ~IsSec(t[k])
        <5>1. xx \in Nat /\ yy \in Nat BY <3>1
        <5> HIDE DEF xx, yy
        <5>2. \A k \in xx + 1..yy - 1 : k \in Nat /\ xx < k /\ k < yy BY <5>1
        <5> QED BY <5>2
      <4>1. j <= k /\ k <= Len(t) BY <1>2, <3>1
      <4>2. k + D \in Nat /\ u[k + D] = t[k] BY <1>3, <4>1
      <4>3. x < k + D /\ k + D < y BY <1>2, <2>0, <4>2
      <4> QED BY <2>1, <4>2, <4>3
    <3>3. xx \in DOMAIN t /\ yy \in xx + 1..Len(t) BY <1>2, <3>1
    <3>4. t[xx] = Sec(m) /\ IsSec(t[yy]) /\ u[y] = t[yy] BY <1>5, <3>1
    <3> HIDE DEF xx, yy
    <3> QED BY <3>2, <3>3, <3>4 DEF Numbered
  <2> QED BY <1>2, <2>0, <2>2, <2>3, <2>4, <2>5
<1>6. ASSUME NEW y \in DOMAIN u, u[y] = Sec(8) PROVE \E x \in 1..y - 1 : u[x] = Sec(7)
  <2>0. y \in Nat /\ 0 < y /\ y <= Len(u) /\ IsSec(u[y]) BY <1>2, <1>6, SecLines
  <2>1. CASE y <= i
    <3>1. y \in DOMAIN t /\ t[y] = Sec(8) BY <1>2, <1>3, <1>6, <2>0, <2>1
    <3>2. PICK x \in 1..y - 1 : t[x] = Sec(7) BY <3>1 DEF Numbered
    <3>3. x \in Nat /\ x <= i /\ x # 0 BY <1>2, <2>0, <2>1
    <3>4. u[x] = t[x] BY <1>3, <3>3
    <3> QED BY <3>2, <3>4
  <2>2. CASE i < y /\ y < j + D BY <1>3, <2>0, <2>2
  <2>3. CASE j + D <= y
    <3>1. y - D \in Nat /\ u[y] = t[y - D] /\ j <= y - D /\ y - D <= Len(t) BY <1>2, <1>3, <2>0, <2>3
    <3>2. y - D \in DOMAIN t BY <1>2, <3>1
    <3>3. PICK x \in 1..(y - D) - 1 : t[x] = Sec(7) BY <1>6, <3>1, <3>2 DEF Numbered
    <3>4. x \in Nat /\ 0 < x /\ x < y - D /\ IsSec(t[x]) BY <3>1, <3>3, SecLines
    <3>5. CASE x <= i
      <4>1. u[x] = t[x] /\ x \in 1..y - 1 BY <1>2, <1>3, <2>0, <2>3, <3>4, <3>5
      <4> QED BY <3>3, <4>1
    <3>6. CASE i < x /\ x < j BY <1>3, <3>4, <3>6
    <3>7. CASE j <= x
      <4>1. x <= Len(t) BY <1>2, <3>1, <3>4
      <4>2. x + D \in Nat /\ u[x + D] = t[x] BY <1>3, <3>4, <3>7, <4>1
      <4>3. x + D \in 1..y - 1 BY <1>2, <2>0, <3>4, <3>7, <4>2
      <4> QED BY <3>3, <4>2, <4>3
    <3> QED BY <1>2, <3>4, <3>5, <3>6, <3>7
  <2> QED BY <1>2, <2>0, <2>1, <2>2, <2>3
<1> QED BY <1>5, <1>6 DEF Numbered

\* There is still at most one scope note.
LEMMA NotedOnceStill ==
  ASSUME NEW t, NEW u, NEW n, NEW i, NEW j, NEW B, NEW D, Rewrites(t, u, n, i, j, B, D), Stands(t, n, i, j), NotedOnce(t),
         Fits(B, section(t, n))
  PROVE  NotedOnce(u)
<1>1. Parts3(t, u, n, i, j, B, D) /\ u \in Seq(Line) /\ t \in Seq(Line) /\ n \in {4, 6, 7}
  BY PartsAre DEF Rewrites
<1>2. /\ i \in Nat /\ j \in Nat /\ Len(t) \in Nat /\ Len(u) \in Nat /\ D \in Int
      /\ 0 < i /\ i < j /\ j <= Len(t) + 1 /\ i < j + D /\ j + D <= Len(u) + 1 /\ Len(u) = Len(t) + D
      /\ DOMAIN t = 1..Len(t) /\ DOMAIN u = 1..Len(u)
  BY <1>1 DEF Parts3
<1>3. /\ \A x \in Nat : x <= i => u[x] = t[x] \/ x = 0
      /\ \A x \in Nat : j + D <= x /\ x <= Len(u) => x - D \in Nat /\ u[x] = t[x - D]
      /\ \A x \in Nat : i < x /\ x < j + D => ~IsSec(u[x]) /\ x - i \in DOMAIN B /\ u[x] = B[x - i]
  BY <1>1 DEF Parts3
<1> DEFINE s == section(t, n)
<1>4. s \in Seq(Line) /\ Len(s) = j - i - 1 /\ \A k \in 1..j - i - 1 : s[k] = t[i + k] BY <1>1, BodyIs
<1>5. Fits(B, s) OBVIOUS
<1> HIDE DEF s
<1>6. DOMAIN s = 1..Len(s) BY <1>4, LenProperties
<1>7. \A x, y \in DOMAIN t : t[x] = Note /\ t[y] = Note => x = y BY DEF NotedOnce
<1>8. \A x, y \in DOMAIN t : t[x] = Note /\ t[y] = Sec(8) => ~(y < x) BY DEF NotedOnce
<1>9. \A k \in DOMAIN s : i + k \in DOMAIN t /\ i < i + k /\ i + k < j /\ s[k] = t[i + k]
  <2> TAKE k \in DOMAIN s
  <2>1. k \in 1..j - i - 1 BY <1>4, <1>6
  <2> QED BY <1>2, <1>4, <2>1
<1>10. OnlyNote(s)
  <2> SUFFICES ASSUME NEW a \in DOMAIN s, NEW b \in DOMAIN s, s[a] = Note, s[b] = Note PROVE a = b BY DEF OnlyNote
  <2>1. i + a = i + b BY <1>7, <1>9
  <2> QED BY <1>2, <1>4, <1>6, <2>1
<1>11. OnlyNote(B) /\ \A a \in DOMAIN B : B[a] = Note => \E k \in DOMAIN s : s[k] = Note BY <1>5, <1>10 DEF Fits
\* Where the note of t is when u has one at x.
<1>12. ASSUME NEW x \in DOMAIN u, u[x] = Note
       PROVE  \E p \in DOMAIN t : /\ t[p] = Note
                                  /\ \/ x <= i /\ p = x
                                     \/ i < x /\ x < j + D /\ i < p /\ p < j
                                     \/ j + D <= x /\ p = x - D /\ j <= p
  <2>0. x \in Nat /\ 0 < x /\ x <= Len(u) BY <1>2
  <2>1. CASE x <= i
    <3>1. x \in DOMAIN t /\ t[x] = Note BY <1>2, <1>3, <1>12, <2>0, <2>1
    <3> QED BY <2>1, <3>1
  <2>2. CASE i < x /\ x < j + D
    <3>1. x - i \in DOMAIN B /\ B[x - i] = Note BY <1>3, <1>12, <2>0, <2>2
    <3>2. PICK k \in DOMAIN s : s[k] = Note BY <1>11, <3>1
    <3>3. i + k \in DOMAIN t /\ t[i + k] = Note /\ i < i + k /\ i + k < j BY <1>9, <3>2
    <3> QED BY <2>2, <3>3
  <2>3. CASE j + D <= x
    <3>1. x - D \in Nat /\ u[x] = t[x - D] /\ j <= x - D /\ x - D <= Len(t) BY <1>2, <1>3, <2>0, <2>3
    <3>2. x - D \in DOMAIN t BY <1>2, <3>1
    <3> QED BY <1>12, <2>3, <3>1, <3>2
  <2> QED BY <1>2, <2>0, <2>1, <2>2, <2>3
<1>13. ASSUME NEW x \in DOMAIN u, u[x] = Note, NEW y \in DOMAIN u, u[y] = Note PROVE x = y
  <2>0. x \in Nat /\ y \in Nat BY <1>2
  <2>1. PICK p \in DOMAIN t : /\ t[p] = Note
                              /\ \/ x <= i /\ p = x
                                 \/ i < x /\ x < j + D /\ i < p /\ p < j
                                 \/ j + D <= x /\ p = x - D /\ j <= p
    BY <1>12, <1>13
  <2>2. PICK r \in DOMAIN t : /\ t[r] = Note
                              /\ \/ y <= i /\ r = y
                                 \/ i < y /\ y < j + D /\ i < r /\ r < j
                                 \/ j + D <= y /\ r = y - D /\ j <= r
    BY <1>12, <1>13
  <2>3. p = r /\ p \in Nat BY <1>2, <1>7, <2>1, <2>2
  <2>4. CASE i < p /\ p < j
    <3>1. i < x /\ x < j + D /\ i < y /\ y < j + D BY <1>2, <2>0, <2>1, <2>2, <2>3, <2>4
    <3>2. x - i \in DOMAIN B /\ B[x - i] = Note /\ y - i \in DOMAIN B /\ B[y - i] = Note BY <1>3, <1>13, <2>0, <3>1
    <3>3. x - i = y - i BY <1>11, <3>2 DEF OnlyNote
    <3> QED BY <1>2, <2>0, <3>3
  <2>5. CASE ~(i < p /\ p < j)
    <3>1. (x = p /\ y = p) \/ (p = x - D /\ p = y - D) BY <1>2, <2>0, <2>1, <2>2, <2>3, <2>5
    <3> QED BY <1>2, <2>0, <2>3, <3>1
  <2> QED BY <2>4, <2>5
<1>14. ASSUME NEW x \in DOMAIN u, u[x] = Note, NEW y \in DOMAIN u, u[y] = Sec(8), y < x PROVE FALSE
  <2>0. x \in Nat /\ y \in Nat /\ 0 < y /\ y <= Len(u) /\ IsSec(u[y]) BY <1>2, <1>14, SecLines
  <2>1. PICK p \in DOMAIN t : /\ t[p] = Note
                              /\ \/ x <= i /\ p = x
                                 \/ i < x /\ x < j + D /\ i < p /\ p < j
                                 \/ j + D <= x /\ p = x - D /\ j <= p
    BY <1>12, <1>14
  <2>2. p \in Nat BY <1>2
  <2>3. CASE y <= i
    <3>1. t[y] = Sec(8) /\ y \in DOMAIN t
      <4>1. u[y] = t[y] BY <1>3, <2>0, <2>3
      <4>2. y \in 1..Len(t) BY <1>2, <2>0, <2>3
      <4> QED BY <1>2, <1>14, <4>1, <4>2
    <3>2. y < p BY <1>2, <1>14, <2>0, <2>1, <2>2, <2>3
    <3> QED BY <1>8, <2>1, <3>1, <3>2
  <2>4. CASE i < y /\ y < j + D BY <1>3, <2>0, <2>4
  <2>5. CASE j + D <= y
    <3>1. y - D \in Nat /\ u[y] = t[y - D] /\ j <= y - D /\ y - D <= Len(t) BY <1>2, <1>3, <2>0, <2>5
    <3>2. y - D \in DOMAIN t /\ t[y - D] = Sec(8) BY <1>2, <1>14, <3>1
    <3>3. p = x - D BY <1>2, <1>14, <2>0, <2>1, <2>2, <2>5
    <3>4. y - D < p BY <1>2, <1>14, <2>0, <3>1, <3>3
    <3> QED BY <1>8, <2>1, <3>2, <3>4
  <2> QED BY <1>2, <2>0, <2>3, <2>4, <2>5
<1> QED BY <1>13, <1>14 DEF NotedOnce

\* A body that fits, put between the headings: the document is still in order, its
\* other sections are as they were, and only rows of the section can be gone.
LEMMA Rewritten ==
  ASSUME NEW t \in Seq(Line), Numbered(t), NotedOnce(t), NEW n \in {4, 6, 7}, NEW B,
         \A i, j : Stands(t, n, i, j) => Fits(B, section(t, n))
  PROVE  /\ Replaced(t, n, n + 1, B) \in Seq(Line)
         /\ Numbered(Replaced(t, n, n + 1, B)) /\ NotedOnce(Replaced(t, n, n + 1, B))
         /\ \A q \in {4, 6, 7} \ {n} : section(Replaced(t, n, n + 1, B), q) = section(t, q)
         /\ \/ Replaced(t, n, n + 1, B) = t /\ section(t, n) = <<>>
            \/ /\ section(Replaced(t, n, n + 1, B), n) = B /\ Fits(B, section(t, n)) /\ Between(t, n, n + 1) = section(t, n)
               /\ Range(B) \subseteq Range(Replaced(t, n, n + 1, B))
               /\ \A x \in DOMAIN t : t[x] \in Range(Replaced(t, n, n + 1, B)) \/ t[x] \in Range(section(t, n))
<1> DEFINE u == Replaced(t, n, n + 1, B)
<1>1. CASE \E i, j \in DOMAIN t : Stands(t, n, i, j)
  <2>1. PICK i, j : Stands(t, n, i, j) BY <1>1
  <2> DEFINE D == Len(B) + 1 + i - j
  <2>2. Fits(B, section(t, n)) /\ B \in Seq(Line) BY <2>1 DEF Fits
  <2>3. u = Put(t, i, j, B) /\ Between(t, n, n + 1) = section(t, n)
    <3>1. Replaced(t, n, n + 1, B) = Put(t, i, j, B) BY <2>1, PutIs
    <3>2. Between(t, n, n + 1) = section(t, n) BY <2>1, StandsIs
    <3> QED BY <3>1, <3>2
  <2>4. Len(t) \in Nat /\ DOMAIN t = 1..Len(t) /\ j \in 1..Len(t) + 1 /\ i < j BY <2>1, LenProperties DEF Stands
  <2>5. Spliced(t, u, i, j, B, D)
    <3>1. i \in DOMAIN t BY <2>1 DEF Stands
    <3>2. B \in Seq(Line) BY <2>2
    <3>3. Spliced(t, Put(t, i, j, B), i, j, B, Len(B) + 1 + i - j) BY <2>4, <3>1, <3>2, SpliceIs
    <3> HIDE DEF u
    <3> QED BY <2>3, <3>3
  <2> HIDE DEF u, D
  <2>6. Rewrites(t, u, n, i, j, B, D) BY <2>1, <2>2, <2>4, <2>5 DEF Rewrites, Stands, Fits
  <2>7. u \in Seq(Line) /\ Parts3(t, u, n, i, j, B, D) BY <2>6, PartsAre
  <2>8. Numbered(u) BY <2>6, NumberedStill
  <2>9. NotedOnce(u) BY <2>1, <2>2, <2>6, NotedOnceStill
  <2>10. \A q \in {4, 6, 7} \ {n} : section(u, q) = section(t, q) BY <2>6, <2>8, OthersStay
  <2>11. section(u, n) = B BY <2>1, <2>6, BodyIsNew
  <2>12. /\ section(t, n) \in Seq(Line) /\ Len(section(t, n)) = j - i - 1
         /\ \A k \in 1..j - i - 1 : section(t, n)[k] = t[i + k]
    BY <2>1, BodiesAre
  <2>13. DOMAIN section(t, n) = 1..j - i - 1 BY <2>12, LenProperties
  <2>14. /\ i \in Nat /\ j \in Nat /\ Len(t) \in Nat /\ Len(u) \in Nat /\ Len(B) \in Nat /\ D \in Int /\ 0 < i /\ i < j
         /\ j + D <= Len(u) + 1 /\ j + D = i + Len(B) + 1 /\ Len(u) = Len(t) + D
         /\ DOMAIN t = 1..Len(t) /\ DOMAIN u = 1..Len(u) /\ DOMAIN B = 1..Len(B)
    BY <2>7 DEF Parts3
  <2>15. /\ \A x \in Nat : x <= i => u[x] = t[x] \/ x = 0
         /\ \A x \in Nat : j <= x /\ x <= Len(t) => x + D \in Nat /\ u[x + D] = t[x]
         /\ \A x \in Nat : i < x /\ x < j + D => u[x] = B[x - i]
    BY <2>7 DEF Parts3
  <2>16. ASSUME NEW x \in DOMAIN t PROVE t[x] \in Range(u) \/ t[x] \in Range(section(t, n))
    <3>0. x \in Nat /\ 0 < x /\ x <= Len(t) BY <2>14
    <3>1. CASE x <= i
      <4>1. u[x] = t[x] BY <2>15, <3>0, <3>1
      <4>2. x \in DOMAIN u BY <2>14, <3>0, <3>1
      <4> QED BY <4>1, <4>2 DEF Range
    <3>2. CASE i < x /\ x < j
      <4>1. x - i \in 1..j - i - 1 /\ i + (x - i) = x BY <2>14, <3>0, <3>2
      <4>2. section(t, n)[x - i] = t[i + (x - i)] BY <2>12, <4>1
      <4>3. x - i \in DOMAIN section(t, n) /\ section(t, n)[x - i] = t[x] BY <2>13, <4>1, <4>2
      <4> QED BY <4>3 DEF Range
    <3>3. CASE j <= x
      <4>1. x + D \in Nat /\ u[x + D] = t[x] BY <2>15, <3>0, <3>3
      <4>2. 0 < x + D /\ x + D <= Len(u) BY <2>14, <3>0, <3>3
      <4>3. x + D \in DOMAIN u BY <2>14, <4>1, <4>2
      <4> QED BY <4>1, <4>3 DEF Range
    <3> QED BY <2>14, <3>0, <3>1, <3>2, <3>3
  <2>17. ASSUME NEW a \in DOMAIN B PROVE B[a] \in Range(u)
    <3>1. a \in Nat /\ i + a \in Nat /\ i < i + a /\ i + a < j + D /\ (i + a) - i = a /\ 0 < i + a /\ i + a <= Len(u) BY <2>14
    <3>2. u[i + a] = B[a] BY <2>15, <3>1
    <3>3. i + a \in DOMAIN u BY <2>14, <3>1
    <3> QED BY <3>2, <3>3 DEF Range
  <2>18. Range(B) \subseteq Range(u)
    <3> SUFFICES ASSUME NEW l \in Range(B) PROVE l \in Range(u) OBVIOUS
    <3>1. PICK a \in DOMAIN B : l = B[a] BY DEF Range
    <3> QED BY <2>17, <3>1
  <2> QED BY <2>2, <2>3, <2>7, <2>8, <2>9, <2>10, <2>11, <2>16, <2>18 DEF u
<1>2. CASE ~\E i, j \in DOMAIN t : Stands(t, n, i, j)
  <2>1. u = t /\ section(t, n) = <<>> BY <1>2, NoSection
  <2> QED BY <2>1 DEF u
<1> QED BY <1>1, <1>2

\* The scope note is put where there is none.
LEMMA NotedIs ==
  ASSUME NEW t \in Seq(Line), Numbered(t), NotedOnce(t)
  PROVE  /\ Noted(t) \in Seq(Line) /\ Numbered(Noted(t)) /\ NotedOnce(Noted(t))
         /\ \A q \in {4, 6} : section(Noted(t), q) = section(t, q)
         /\ Range(t) \subseteq Range(Noted(t))
<1> DEFINE i == Find(t, 1, {Sec(7)})
           h == Find(t, 1, {Sec(8)})
           u == Noted(t)
           B == <<Note>>
<1>1. Len(t) \in Nat /\ DOMAIN t = 1..Len(t) /\ \A k \in 1..Len(t) : t[k] \in Line BY LenProperties, ElementOfSeq
<1>2. i \in 1..(Len(t) + 1) /\ (i = Len(t) + 1 \/ t[i] = Sec(7)) /\ \A k \in 1..(i - 1) : t[k] # Sec(7) BY FindIs
<1>3. h \in 1..(Len(t) + 1) /\ (h = Len(t) + 1 \/ t[h] = Sec(8)) /\ \A k \in 1..(h - 1) : t[k] # Sec(8) BY FindIs
<1>4. u = IF i > Len(t) \/ Note \in Range(SubSeq(t, 1, h - 1)) THEN t ELSE SubSeq(t, 1, i) \o B \o SubSeq(t, i + 1, Len(t))
  BY DEF Noted
<1>5. CASE u = t BY <1>5 DEF u
<1>6. CASE u # t
  <2>1. ~(i > Len(t)) /\ Note \notin Range(SubSeq(t, 1, h - 1)) /\ u = Put(t, i, i + 1, B)
    BY <1>4, <1>6 DEF Put
  <2> HIDE DEF i, h, u
  <2>2. i \in Nat /\ i \in DOMAIN t /\ t[i] = Sec(7) /\ h \in Nat BY <1>1, <1>2, <1>3, <2>1
  <2>3. B \in Seq(Line) /\ Len(B) = 1 /\ DOMAIN B = 1..1 /\ B[1] = Note /\ \A a \in DOMAIN B : ~IsSec(B[a]) BY SecLines DEF Line
  <2>4. \A k \in 1..h - 1 : t[k] # Note
    <3> SUFFICES ASSUME NEW k \in 1..h - 1, t[k] = Note PROVE FALSE OBVIOUS
    <3> DEFINE s == SubSeq(t, 1, h - 1)
    <3>1. h - 1 \in Int /\ \A x \in 1..h - 1 : t[x] \in Line BY <1>1, <1>3
    <3>2. s \in Seq(Line) /\ Len(s) = (IF 1 <= h - 1 THEN (h - 1) - 1 + 1 ELSE 0)
          /\ \A x \in 1..(h - 1) - 1 + 1 : s[x] = t[1 + x - 1]
      BY <3>1, SubSeqProperties
    <3>3. k \in 1..(h - 1) - 1 + 1 /\ 1 + k - 1 = k /\ 1 <= h - 1 BY <2>2
    <3> HIDE DEF s
    <3>4. s[k] = t[k] BY <3>2, <3>3
    <3>5. DOMAIN s = 1..Len(s) BY <3>2, LenProperties
    <3>6. k \in DOMAIN s BY <2>2, <3>2, <3>3, <3>5
    <3>7. Note \in Range(s) BY <3>4, <3>6 DEF Range
    <3> QED BY <2>1, <3>7 DEF s
  <2>5. \A k \in DOMAIN t : t[k] # Note
    <3> SUFFICES ASSUME NEW k \in DOMAIN t, t[k] = Note PROVE FALSE OBVIOUS
    <3>1. k \in Nat /\ ~(k < h) BY <1>1, <2>2, <2>4
    <3>2. h # k
      <4>1. IsSec(Sec(8)) /\ ~IsSec(Note) BY SecLines
      <4> QED BY <1>1, <1>3, <4>1
    <3>3. h \in DOMAIN t /\ h < k BY <1>1, <1>3, <2>2, <3>1, <3>2
    <3>4. t[h] = Sec(8) BY <1>1, <1>3, <3>3
    <3> QED BY <3>3, <3>4 DEF NotedOnce
  <2>6. Rewrites(t, u, 7, i, i + 1, B, 1)
    <3>1. i + 1 \in 1..Len(t) + 1 /\ i < i + 1 BY <1>1, <2>2
    <3>2. Spliced(t, u, i, i + 1, B, Len(B) + 1 + i - (i + 1)) BY <2>1, <2>2, <2>3, <3>1, SpliceIs
    <3>3. Len(B) + 1 + i - (i + 1) = 1 BY <2>2, <2>3
    <3>4. \A k \in i + 1..(i + 1) - 1 : ~IsSec(t[k]) BY <2>2
    <3> HIDE DEF B
    <3> QED BY <1>2, <2>2, <2>3, <3>1, <3>2, <3>3, <3>4 DEF Rewrites
  <2> HIDE DEF B
  <2>7. Parts3(t, u, 7, i, i + 1, B, 1) /\ u \in Seq(Line) BY <2>6, PartsAre
  <2>8. Numbered(u) BY <2>6, NumberedStill
  <2>9. \A q \in {4, 6} : section(u, q) = section(t, q)
    <3> SUFFICES ASSUME NEW q \in {4, 6} PROVE section(u, q) = section(t, q) OBVIOUS
    <3>1. q \in {4, 6, 7} /\ q # 7 OBVIOUS
    <3> QED BY <2>6, <2>8, <3>1, OthersStay
  <2>10. /\ DOMAIN u = 1..Len(u) /\ Len(u) = Len(t) + 1
         /\ \A x \in Nat : x <= i => u[x] = t[x] \/ x = 0
         /\ \A x \in Nat : i + 1 <= x /\ x <= Len(t) => u[x + 1] = t[x]
         /\ \A x \in Nat : (i + 1) + 1 <= x /\ x <= Len(u) => x - 1 \in Nat /\ u[x] = t[x - 1]
    BY <2>7 DEF Parts3
  <2>11. \A x \in DOMAIN u : u[x] = Note => x = i + 1
    <3> SUFFICES ASSUME NEW x \in DOMAIN u, u[x] = Note, x # i + 1 PROVE FALSE OBVIOUS
    <3>1. x \in Nat /\ 0 < x /\ x <= Len(u) BY <1>1, <2>10
    <3>2. CASE x <= i
      <4>1. u[x] = t[x] BY <2>10, <3>1, <3>2
      <4>2. x \in DOMAIN t BY <1>1, <2>2, <3>1, <3>2
      <4> QED BY <2>5, <4>1, <4>2
    <3>3. CASE (i + 1) + 1 <= x
      <4>1. u[x] = t[x - 1] BY <2>10, <3>1, <3>3
      <4>2. x - 1 \in DOMAIN t BY <1>1, <2>2, <2>10, <3>1, <3>3
      <4> QED BY <2>5, <4>1, <4>2
    <3> QED BY <2>2, <3>1, <3>2, <3>3
  <2>12. \A y \in DOMAIN u : u[y] = Sec(8) => ~(y < i + 1)
    <3> SUFFICES ASSUME NEW y \in DOMAIN u, u[y] = Sec(8), y < i + 1 PROVE FALSE OBVIOUS
    <3>1. y \in Nat /\ 0 < y /\ y <= i BY <1>1, <2>2, <2>10
    <3>2. t[y] = Sec(8) BY <2>10, <3>1
    <3>3. y \in DOMAIN t BY <1>1, <2>2, <3>1
    <3>4. PICK x \in 1..y - 1 : t[x] = Sec(7) BY <3>2, <3>3 DEF Numbered
    <3>5. x \in 1..i - 1 BY <2>2, <3>1
    <3> QED BY <1>2, <3>4, <3>5
  <2>13. NotedOnce(u) BY <2>11, <2>12 DEF NotedOnce
  <2>14. \A x \in DOMAIN t : t[x] \in Range(u)
    <3> TAKE x \in DOMAIN t
    <3>1. x \in Nat /\ 0 < x /\ x <= Len(t) BY <1>1
    <3>2. CASE x <= i
      <4>1. u[x] = t[x] BY <2>10, <3>1, <3>2
      <4>2. x \in DOMAIN u BY <1>1, <2>10, <3>1
      <4> QED BY <4>1, <4>2 DEF Range
    <3>3. CASE i + 1 <= x
      <4>1. u[x + 1] = t[x] BY <2>10, <3>1, <3>3
      <4>2. x + 1 \in DOMAIN u BY <1>1, <2>10, <3>1
      <4> QED BY <4>1, <4>2 DEF Range
    <3> QED BY <2>2, <3>1, <3>2, <3>3
  <2>15. Range(t) \subseteq Range(u)
    <3> SUFFICES ASSUME NEW l \in Range(t) PROVE l \in Range(u) OBVIOUS
    <3>1. PICK x \in DOMAIN t : l = t[x] BY DEF Range
    <3> QED BY <2>14, <3>1
  <2> QED BY <2>7, <2>8, <2>9, <2>13, <2>15 DEF u
<1> QED BY <1>5, <1>6

-----------------------------------------------------------------------------
(* What the scripts write *)

\* w is s followed by r.
Joins(w, s, r) ==
  /\ w \in Seq(Line) /\ Len(s) \in Nat /\ Len(r) \in Nat /\ Len(w) = Len(s) + Len(r)
  /\ DOMAIN w = 1..Len(s) + Len(r) /\ DOMAIN s = 1..Len(s) /\ DOMAIN r = 1..Len(r)
  /\ \A x \in Nat : 0 < x /\ x <= Len(s) => w[x] = s[x]
  /\ \A x \in Nat : 0 < x /\ x <= Len(r) => w[Len(s) + x] = r[x]
  /\ \A x \in Nat : Len(s) < x /\ x <= Len(w) => x - Len(s) \in DOMAIN r /\ w[x] = r[x - Len(s)]

\* The lines of two bodies, one behind the other.
LEMMA JoinsIs ==
  ASSUME NEW s \in Seq(Line), NEW r \in Seq(Line)
  PROVE  Joins(s \o r, s, r)
<1> DEFINE w == s \o r
           n == Len(s)
           m == Len(r)
<1>1. /\ n \in Nat /\ m \in Nat /\ DOMAIN s = 1..n /\ DOMAIN r = 1..m BY LenProperties
<1>2. /\ w \in Seq(Line) /\ Len(w) = n + m
      /\ \A x \in 1..n + m : w[x] = IF x <= n THEN s[x] ELSE r[x - n]
  BY ConcatProperties
<1> HIDE DEF w
<1>3. DOMAIN w = 1..n + m BY <1>2, LenProperties
<1> HIDE DEF n, m
<1>4. \A x \in Nat : 0 < x /\ x <= n => w[x] = s[x] BY <1>1, <1>2
<1>5. \A x \in Nat : 0 < x /\ x <= m => w[n + x] = r[x]
  <2> SUFFICES ASSUME NEW x \in Nat, 0 < x, x <= m PROVE w[n + x] = r[x] OBVIOUS
  <2>1. n + x \in 1..n + m /\ ~(n + x <= n) /\ (n + x) - n = x BY <1>1
  <2> QED BY <1>2, <2>1
<1>6. \A x \in Nat : n < x /\ x <= n + m => x - n \in 1..m /\ w[x] = r[x - n] BY <1>1, <1>2
<1> QED BY <1>1, <1>2, <1>3, <1>4, <1>5, <1>6 DEF Joins, w, n, m

\* What rows are, and that no other line is one.
LEMMA RowLines ==
  /\ \A l \in Line : IsRow(l) =>
       /\ l.name \in RowNames /\ l.legacy \in BOOLEAN /\ l.says \in Editions \cup {Own}
       /\ [l EXCEPT !.legacy = FALSE] \in Line /\ IsRow([l EXCEPT !.legacy = FALSE])
       /\ [l EXCEPT !.legacy = FALSE].name = l.name /\ [l EXCEPT !.legacy = FALSE].says = l.says
       /\ ~[l EXCEPT !.legacy = FALSE].legacy
       /\ l = Entry(l.name, l.legacy, l.says)
  /\ \A l : IsRow(l) => ~IsSec(l)
  /\ \A x, b, e : /\ Entry(x, b, e).name = x /\ Entry(x, b, e).legacy = b /\ Entry(x, b, e).says = e
                  /\ x \in RowNames /\ b \in BOOLEAN /\ e \in Editions \cup {Own} => Entry(x, b, e) \in Line
  /\ ~IsRow(Note) /\ ~IsRow(Intro) /\ Note # Intro /\ Note \in Line /\ Intro \in Line
  /\ \A n : ~IsRow(Sub(n)) /\ Sub(n) # Note /\ Sub(n) # Intro
  /\ \A n \in Nat : Sub(n) \in Line /\ \A m \in Nat : Sub(n) = Sub(m) => n = m
<1>1. ASSUME NEW l \in Line, IsRow(l)
      PROVE  /\ l.name \in RowNames /\ l.legacy \in BOOLEAN /\ l.says \in Editions \cup {Own}
             /\ [l EXCEPT !.legacy = FALSE] \in Line /\ IsRow([l EXCEPT !.legacy = FALSE])
             /\ [l EXCEPT !.legacy = FALSE].name = l.name /\ [l EXCEPT !.legacy = FALSE].says = l.says
             /\ ~[l EXCEPT !.legacy = FALSE].legacy
             /\ l = Entry(l.name, l.legacy, l.says)
  <2>1. l.k = "row" BY <1>1 DEF IsRow
  <2>2. l \in [k : {"row"}, name : RowNames, legacy : BOOLEAN, says : Editions \cup {Own}]
    BY <2>1 DEF Line, Intro, Note
  <2>3. [l EXCEPT !.legacy = FALSE] \in [k : {"row"}, name : RowNames, legacy : BOOLEAN, says : Editions \cup {Own}]
    BY <2>2
  <2>4. [l EXCEPT !.legacy = FALSE] \in Line BY <2>3 DEF Line
  <2>5. IsRow([l EXCEPT !.legacy = FALSE]) BY <2>3 DEF IsRow
  <2>6. [l EXCEPT !.legacy = FALSE].name = l.name /\ [l EXCEPT !.legacy = FALSE].says = l.says /\ ~[l EXCEPT !.legacy = FALSE].legacy
    BY <2>2
  <2>7. l = Entry(l.name, l.legacy, l.says) BY <2>2 DEF Entry
  <2> QED BY <2>2, <2>4, <2>5, <2>6, <2>7
<1>2. \A l : IsRow(l) => ~IsSec(l) BY DEF IsRow, IsSec
<1>3. \A x, b, e : Entry(x, b, e).name = x /\ Entry(x, b, e).legacy = b /\ Entry(x, b, e).says = e BY DEF Entry
<1>4. ASSUME NEW x \in RowNames, NEW b \in BOOLEAN, NEW e \in Editions \cup {Own} PROVE Entry(x, b, e) \in Line
  <2>1. Entry(x, b, e) \in [k : {"row"}, name : RowNames, legacy : BOOLEAN, says : Editions \cup {Own}] BY DEF Entry
  <2> QED BY <2>1 DEF Line
<1>5. ~IsRow(Note) /\ ~IsRow(Intro) /\ Note # Intro /\ Note \in Line /\ Intro \in Line BY DEF IsRow, Note, Intro, Line
<1>6. \A n : ~IsRow(Sub(n)) /\ Sub(n) # Note /\ Sub(n) # Intro BY DEF IsRow, Sub, Note, Intro
<1>7. \A n \in Nat : Sub(n) \in Line
  <2> TAKE n \in Nat
  <2>1. Sub(n) \in [k : {"sec", "sub"}, n : Nat] BY DEF Sub
  <2> QED BY <2>1 DEF Line
<1>8. \A n, m \in Nat : Sub(n) = Sub(m) => n = m BY DEF Sub
<1> QED BY <1>1, <1>2, <1>3, <1>4, <1>5, <1>6, <1>7, <1>8

\* E is old without the rows the baseline V has, its names dotted.
Dotted(E, old, V, p) ==
  /\ p \in [DOMAIN E -> DOMAIN old]
  /\ \A a, b \in DOMAIN E : a < b => p[a] < p[b]
  /\ \A k \in DOMAIN old : (IsRow(old[k]) /\ old[k].legacy /\ old[k].name \in V) \/ \E a \in DOMAIN E : p[a] = k
  /\ \A a \in DOMAIN E : IsRow(old[p[a]]) => E[a] = [old[p[a]] EXCEPT !.legacy = FALSE]
  /\ \A a \in DOMAIN E : ~IsRow(old[p[a]]) => E[a] = old[p[a]] \/ (old[p[a]] = Intro /\ E[a] = Sub(62))
  /\ \A a \in DOMAIN E : E[a] = Intro => \E b \in 1..a - 1 : E[b] = Sub(62)

\* The extended model has the old lines in their order, folded rows left out.
LEMMA ExtendedIs ==
  ASSUME NEW old \in Seq(Line), NEW V
  PROVE  Extended(old, V) \in Seq(Line) /\ \E p : Dotted(Extended(old, V), old, V, p)
<1> DEFINE K == {n \in DOMAIN old : ~(IsRow(old[n]) /\ old[n].legacy /\ old[n].name \in V)}
           kept == Picked(old, K)
           ext == [i \in DOMAIN kept |-> IF IsRow(kept[i]) THEN [kept[i] EXCEPT !.legacy = FALSE] ELSE kept[i]]
           i == Find(ext, 1, {Intro})
           E == Extended(old, V)
<1>1. E = IF i > Len(ext) THEN ext ELSE [ext EXCEPT ![i] = Sub(62)] BY DEF Extended
<1>2. kept \in Seq(Line) /\
      \E p \in [DOMAIN kept -> K] :
           /\ \A a, b \in DOMAIN kept : a < b => p[a] < p[b]
           /\ \A k \in K : \E a \in DOMAIN kept : p[a] = k
           /\ \A a \in DOMAIN kept : kept[a] = old[p[a]]
  <2>1. K \in SUBSET DOMAIN old OBVIOUS
  <2> HIDE DEF K
  <2>2. kept \in Seq(Line) /\ Picks(kept, old, K) BY <2>1, PickedIs
  <2> HIDE DEF kept
  <2> QED BY <2>2 DEF Picks
<1>3. PICK p \in [DOMAIN kept -> K] :
           /\ \A a, b \in DOMAIN kept : a < b => p[a] < p[b]
           /\ \A k \in K : \E a \in DOMAIN kept : p[a] = k
           /\ \A a \in DOMAIN kept : kept[a] = old[p[a]]
  BY <1>2
<1>4. \A k \in DOMAIN old : (IsRow(old[k]) /\ old[k].legacy /\ old[k].name \in V) \/ k \in K OBVIOUS
<1>5. K \subseteq DOMAIN old OBVIOUS
<1>6. \A a \in DOMAIN kept : ext[a] = IF IsRow(kept[a]) THEN [kept[a] EXCEPT !.legacy = FALSE] ELSE kept[a] OBVIOUS
<1>7. DOMAIN ext = DOMAIN kept /\ ext = [a \in DOMAIN kept |-> ext[a]] OBVIOUS
<1> HIDE DEF K, kept, ext
<1>8. DOMAIN kept = 1..Len(kept) /\ Len(kept) \in Nat /\ \A a \in DOMAIN kept : kept[a] \in Line BY <1>2, LenProperties, ElementOfSeq
<1>9. \A a \in DOMAIN kept : ext[a] \in Line
  <2> TAKE a \in DOMAIN kept
  <2>1. kept[a] \in Line BY <1>8
  <2>2. CASE IsRow(kept[a])
    <3>1. [kept[a] EXCEPT !.legacy = FALSE] \in Line BY <2>1, <2>2, RowLines
    <3> QED BY <1>6, <2>2, <3>1
  <2>3. CASE ~IsRow(kept[a]) BY <1>6, <2>1, <2>3
  <2> QED BY <2>2, <2>3
<1>10. ext \in Seq(Line) /\ DOMAIN ext = 1..Len(ext) /\ Len(ext) \in Nat
  <2>1. ext \in [1..Len(kept) -> Line] BY <1>7, <1>8, <1>9
  <2>2. ext \in Seq(Line) BY <1>8, <2>1
  <2> QED BY <2>2, LenProperties
<1>11. i \in 1..(Len(ext) + 1) /\ (i = Len(ext) + 1 \/ ext[i] = Intro) /\ \A k \in 1..(i - 1) : ext[k] # Intro
  BY <1>10, FindIs
<1> HIDE DEF i, E
<1>12. DOMAIN E = DOMAIN kept /\ E \in Seq(Line)
  <2>1. CASE i > Len(ext) BY <1>1, <1>7, <1>10, <2>1
  <2>2. CASE ~(i > Len(ext))
    <3>1. E = [ext EXCEPT ![i] = Sub(62)] /\ Sub(62) \in Line BY <1>1, <2>2, RowLines
    <3>2. DOMAIN E = DOMAIN ext BY <3>1
    <3>3. E \in Seq(Line) BY <1>10, <1>11, <2>2, <3>1, ExceptSeq
    <3> QED BY <1>7, <3>2, <3>3
  <2> QED BY <2>1, <2>2
<1>13. \A a \in DOMAIN kept : E[a] = ext[a] \/ (a = i /\ ext[a] = Intro /\ E[a] = Sub(62))
  BY <1>1, <1>7, <1>10, <1>11
<1>14. \A a \in DOMAIN kept : E[a] = Intro => \E b \in 1..a - 1 : E[b] = Sub(62)
  <2> SUFFICES ASSUME NEW a \in DOMAIN kept, E[a] = Intro PROVE \E b \in 1..a - 1 : E[b] = Sub(62) OBVIOUS
  <2>1. ext[a] = Intro /\ a # i
    <3>1. Sub(62) # Intro BY RowLines
    <3>2. ext[a] = Intro BY <1>13, <3>1
    <3>3. a # i
      <4> SUFFICES ASSUME a = i PROVE FALSE OBVIOUS
      <4>1. ~(i > Len(ext)) BY <1>7, <1>10
      <4>2. E[i] = Sub(62) BY <1>1, <1>7, <4>1
      <4> QED BY <3>1, <4>2
    <3> QED BY <3>2, <3>3
  <2>0. a \in 1..Len(ext) BY <1>7, <1>10
  <2>2. i \in Nat /\ a \in Nat /\ i < a /\ ~(i > Len(ext))
    <3>1. ~(a < i) BY <1>10, <1>11, <2>0, <2>1
    <3> QED BY <1>10, <1>11, <2>0, <2>1, <3>1
  <2>3. E[i] = Sub(62) BY <1>1, <1>7, <1>10, <1>11, <2>2
  <2>4. i \in 1..a - 1 BY <1>11, <2>2
  <2> QED BY <2>3, <2>4
<1>15. ASSUME NEW a \in DOMAIN kept, IsRow(old[p[a]]) PROVE E[a] = [old[p[a]] EXCEPT !.legacy = FALSE]
  <2>1. ext[a] = [old[p[a]] EXCEPT !.legacy = FALSE] BY <1>3, <1>6, <1>15
  <2>2. kept[a] = old[p[a]] /\ kept[a] \in Line BY <1>3, <1>8
  <2>3. IsRow(ext[a]) BY <1>15, <2>1, <2>2, RowLines
  <2>4. ext[a] # Intro BY <2>3, RowLines
  <2> QED BY <1>13, <2>1, <2>4
<1>16. ASSUME NEW a \in DOMAIN kept, ~IsRow(old[p[a]]) PROVE E[a] = old[p[a]] \/ (old[p[a]] = Intro /\ E[a] = Sub(62))
  <2>1. ext[a] = old[p[a]] BY <1>3, <1>6, <1>16
  <2> QED BY <1>13, <2>1
<1>17. p \in [DOMAIN E -> DOMAIN old] BY <1>5, <1>12
<1>18. Dotted(E, old, V, p) BY <1>3, <1>4, <1>12, <1>14, <1>15, <1>16, <1>17 DEF Dotted
<1> QED BY <1>12, <1>18 DEF E
\* A heading with a table under it.
Table(h, S, says) == <<h>> \o BaseRows(S, says)

Tabled(w, h, S, says) ==
  /\ w \in Seq(Line) /\ Len(w) \in Nat \ {0} /\ w[1] = h
  /\ \A x \in Nat : 1 < x /\ x <= Len(w) => \E c \in S : w[x] = Entry(c, FALSE, says[c])
  /\ \A c \in S : \E x \in Nat : 1 < x /\ x <= Len(w) /\ w[x] = Entry(c, FALSE, says[c])

\* A table under its heading has one row for each name.
LEMMA TableIs ==
  ASSUME NEW h \in Line, NEW S \in SUBSET RowNames, IsFiniteSet(S), NEW says, \A c \in S : says[c] \in Editions
  PROVE  Tabled(Table(h, S, says), h, S, says)
<1> DEFINE r == BaseRows(S, says)
           s == <<h>>
           w == Table(h, S, says)
<1>1. /\ r \in Seq(Line)
      /\ \A a \in DOMAIN r : \E c \in S : r[a] = Entry(c, FALSE, says[c])
      /\ \A c \in S : \E a \in DOMAIN r : r[a] = Entry(c, FALSE, says[c])
  BY BaseRowsIs
<1>2. s \in Seq(Line) /\ Len(s) = 1 /\ s[1] = h OBVIOUS
<1> HIDE DEF r, s
<1>3. Joins(w, s, r)
  <2>1. Joins(s \o r, s, r) BY <1>1, <1>2, JoinsIs
  <2> QED BY <2>1 DEF Table, r, s
<1> HIDE DEF w
<1>4. /\ w \in Seq(Line) /\ Len(r) \in Nat /\ Len(w) = 1 + Len(r) /\ DOMAIN r = 1..Len(r)
      /\ \A x \in Nat : 0 < x /\ x <= 1 => w[x] = s[x]
      /\ \A x \in Nat : 0 < x /\ x <= Len(r) => w[1 + x] = r[x]
      /\ \A x \in Nat : 1 < x /\ x <= Len(w) => x - 1 \in DOMAIN r /\ w[x] = r[x - 1]
  BY <1>2, <1>3 DEF Joins
<1>5. Len(w) \in Nat \ {0} /\ w[1] = h BY <1>2, <1>4
<1>6. ASSUME NEW x \in Nat, 1 < x, x <= Len(w) PROVE \E c \in S : w[x] = Entry(c, FALSE, says[c])
  <2>1. x - 1 \in DOMAIN r /\ w[x] = r[x - 1] BY <1>4, <1>6
  <2> QED BY <1>1, <2>1
<1>7. ASSUME NEW c \in S PROVE \E x \in Nat : 1 < x /\ x <= Len(w) /\ w[x] = Entry(c, FALSE, says[c])
  <2>1. PICK a \in DOMAIN r : r[a] = Entry(c, FALSE, says[c]) BY <1>1
  <2>2. a \in Nat /\ 0 < a /\ a <= Len(r) BY <1>4
  <2>3. w[1 + a] = Entry(c, FALSE, says[c]) BY <1>4, <2>1, <2>2
  <2>4. 1 + a \in Nat /\ 1 < 1 + a /\ 1 + a <= Len(w) BY <1>4, <2>2
  <2> QED BY <2>3, <2>4
<1> QED BY <1>4, <1>5, <1>6, <1>7 DEF Tabled, w

\* Section 6 as restructure_errors leaves it, section 4 as restructure_events does.
Reread(d, sec) ==
  /\ \A a \in DOMAIN sec : IsRow(sec[a]) => ~sec[a].legacy
  /\ \A a \in DOMAIN sec : sec[a] = Intro => \E b \in 1..a - 1 : sec[b] = Sub(62)
  /\ \A c \in parse_taxonomy(d) :
       /\ sec[1] = Sub(61)
       /\ \E p \in 2..Len(sec) : /\ sec[p] = Entry(c, FALSE, v1codes[c])
                                /\ \A k \in 1..p - 1 : sec[k] # Sub(62) /\ ~(IsRow(sec[k]) /\ sec[k].name = c)

Rebased(d, sec) ==
  \E m \in 2..Len(sec) :
    /\ sec[1] = Sub(41) /\ sec[m] = Sub(42)
    /\ \A k \in 2..m - 1 : IsRow(sec[k]) /\ ~sec[k].legacy /\ sec[k].name \in DOCS4[d].rows
    /\ \A e \in DOCS4[d].rows : \E k \in 2..m - 1 : sec[k].name = e

CodesTyped == v1codes \in [ErrorCodes -> Editions \cup {NoRow}]

\* The part under 6.1: H.
Block(H, d) ==
  /\ H \in Seq(Line) /\ Len(H) \in Nat /\ DOMAIN H = 1..Len(H)
  /\ \A x \in DOMAIN H : /\ x = 1 => H[x] = Sub(61)
                         /\ x # 1 => \E c \in parse_taxonomy(d) : H[x] = Entry(c, FALSE, v1codes[c])
  /\ \A c \in parse_taxonomy(d) : \E x \in DOMAIN H : x # 1 /\ H[x] = Entry(c, FALSE, v1codes[c])

\* The part under 6.1 has the codes of the taxonomy.
LEMMA BlockIs ==
  ASSUME CodesTyped, NEW d
  PROVE  Block(IF HasBlock(d) THEN <<Sub(61)>> \o BaseRows(parse_taxonomy(d), v1codes) ELSE <<>>, d)
<1> DEFINE S == parse_taxonomy(d)
           w == Table(Sub(61), S, v1codes)
<1>1. S \subseteq ErrorCodes /\ \A c \in S : v1codes[c] # NoRow BY DEF parse_taxonomy
<1>2. IsFiniteSet(ErrorCodes) /\ ErrorCodes \subseteq RowNames /\ Home \in [ErrorCodes -> SecDocs] BY ScriptsAssumption DEF Scripts
<1>3. S # {} => HasBlock(d)
  <2> SUFFICES ASSUME NEW c \in S, d # LccDoc PROVE HasBlock(d) BY DEF HasBlock
  <2>1. c \in ErrorCodes /\ Home[c] = d BY DEF parse_taxonomy
  <2> QED BY <1>2, <2>1 DEF HasBlock
<1> HIDE DEF S
<1>4. IsFiniteSet(S) /\ S \in SUBSET RowNames BY <1>1, <1>2, FS_Subset
<1>5. \A c \in S : v1codes[c] \in Editions BY <1>1 DEF CodesTyped
<1>6. Sub(61) \in Line BY RowLines
<1>7. /\ w \in Seq(Line) /\ Len(w) \in Nat \ {0}
      /\ w[1] = Sub(61)
      /\ \A x \in Nat : 1 < x /\ x <= Len(w) => \E c \in S : w[x] = Entry(c, FALSE, v1codes[c])
      /\ \A c \in S : \E x \in Nat : 1 < x /\ x <= Len(w) /\ w[x] = Entry(c, FALSE, v1codes[c])
  <2>1. Tabled(w, Sub(61), S, v1codes) BY <1>4, <1>5, <1>6, TableIs
  <2> HIDE DEF w
  <2> QED BY <2>1 DEF Tabled
<1> HIDE DEF w
<1>8. DOMAIN w = 1..Len(w) BY <1>7, LenProperties
<1>9. Block(w, d)
  <2>1. \A x \in DOMAIN w : /\ x = 1 => w[x] = Sub(61)
                            /\ x # 1 => \E c \in S : w[x] = Entry(c, FALSE, v1codes[c])
    <3> TAKE x \in DOMAIN w
    <3>1. x \in Nat /\ 0 < x /\ x <= Len(w) BY <1>7, <1>8
    <3>2. x # 1 => 1 < x BY <3>1
    <3> QED BY <1>7, <3>1, <3>2
  <2>2. \A c \in S : \E x \in DOMAIN w : x # 1 /\ w[x] = Entry(c, FALSE, v1codes[c])
    <3> TAKE c \in S
    <3>1. PICK x \in Nat : 1 < x /\ x <= Len(w) /\ w[x] = Entry(c, FALSE, v1codes[c]) BY <1>7
    <3>2. x \in DOMAIN w /\ x # 1 BY <1>7, <1>8, <3>1
    <3> QED BY <3>1, <3>2
  <2> QED BY <1>7, <1>8, <2>1, <2>2 DEF Block, S
<1>10. CASE HasBlock(d) BY <1>9, <1>10 DEF w, S, Table
<1>11. CASE ~HasBlock(d)
  <2>1. S = {} BY <1>3, <1>11
  <2>2. <<>> \in Seq(Line) /\ Len(<<>>) = 0 /\ DOMAIN <<>> = {} OBVIOUS
  <2>3. Block(<<>>, d) BY <2>1, <2>2 DEF Block, S
  <2> QED BY <1>11, <2>3
<1> QED BY <1>10, <1>11

\* The first row of a code under 6.1 is its row of the taxonomy.
LEMMA FirstOf ==
  ASSUME NEW H, NEW d, Block(H, d), NEW c \in parse_taxonomy(d)
  PROVE  \E p \in 2..Len(H) : /\ H[p] = Entry(c, FALSE, v1codes[c])
                             /\ \A k \in 1..p - 1 : H[k] # Sub(62) /\ ~(IsRow(H[k]) /\ H[k].name = c)
<1> DEFINE K == {x \in DOMAIN H : IsRow(H[x]) /\ H[x].name = c}
<1>1. /\ Len(H) \in Nat /\ DOMAIN H = 1..Len(H)
      /\ \A x \in DOMAIN H : /\ x = 1 => H[x] = Sub(61)
                             /\ x # 1 => \E e \in parse_taxonomy(d) : H[x] = Entry(e, FALSE, v1codes[e])
      /\ \E x \in DOMAIN H : x # 1 /\ H[x] = Entry(c, FALSE, v1codes[c])
  BY DEF Block
<1>2. PICK x0 \in DOMAIN H : x0 # 1 /\ H[x0] = Entry(c, FALSE, v1codes[c]) BY <1>1
<1>3. x0 \in K BY <1>2 DEF Entry, IsRow
<1>4. K \in SUBSET Nat /\ IsFiniteSet(K)
  <2>1. IsFiniteSet(1..Len(H)) BY <1>1, FS_Interval
  <2>2. K \in SUBSET (1..Len(H)) BY <1>1
  <2> HIDE DEF K
  <2>3. K \in SUBSET Nat BY <1>1, <2>2
  <2>4. IsFiniteSet(K) BY <2>1, <2>2, FS_Subset
  <2> QED BY <2>3, <2>4
<1>5. PICK p \in K : \A k \in K : p <= k
  <2> HIDE DEF K
  <2> QED BY <1>3, <1>4, Extremes
<1>6. p \in 1..Len(H) /\ IsRow(H[p]) /\ H[p].name = c BY <1>1
<1>7. p # 1
  <2>1. ~IsRow(Sub(61)) BY DEF IsRow, Sub
  <2> QED BY <1>1, <1>6, <2>1
<1>8. PICK e \in parse_taxonomy(d) : H[p] = Entry(e, FALSE, v1codes[e]) BY <1>1, <1>6, <1>7
<1>9. e = c BY <1>6, <1>8 DEF Entry
<1>10. \A k \in 1..p - 1 : H[k] # Sub(62) /\ ~(IsRow(H[k]) /\ H[k].name = c)
  <2> TAKE k \in 1..p - 1
  <2>1. k \in DOMAIN H /\ ~(p <= k) BY <1>1, <1>6
  <2>2. k \notin K BY <1>5, <2>1
  <2>3. H[k] # Sub(62)
    <3>1. Sub(61) # Sub(62) BY DEF Sub
    <3>2. CASE k = 1 BY <1>1, <2>1, <3>1, <3>2
    <3>3. CASE k # 1
      <4>1. PICK f \in parse_taxonomy(d) : H[k] = Entry(f, FALSE, v1codes[f]) BY <1>1, <2>1, <3>3
      <4> QED BY <4>1 DEF Entry, Sub
    <3> QED BY <3>2, <3>3
  <2> QED BY <2>1, <2>2, <2>3
<1>11. p \in 2..Len(H) BY <1>1, <1>6, <1>7
<1> QED BY <1>8, <1>9, <1>10, <1>11
\* Lines of a section's body: no headings.
Plain(old) == old \in Seq(Line) /\ \A a \in DOMAIN old : ~IsSec(old[a])

\* An author's row of old is in N, dotted, or N has a row of that name which is none.
Keeps(N, old) ==
  \A k \in DOMAIN old : IsRow(old[k]) =>
    \/ [old[k] EXCEPT !.legacy = FALSE] \in Range(N)
    \/ \E x \in Range(N) : IsRow(x) /\ x.name = old[k].name /\ x.says # Own

\* Section 6 rewritten: rows stay below their introduction, the taxonomy's come first.
LEMMA ErrorsBody ==
  ASSUME CodesTyped, NEW d, NEW old, Plain(old), Introduced(old)
  PROVE  /\ Fits(ErrorsSection(d, old), old) /\ Introduced(ErrorsSection(d, old))
         /\ Reread(d, ErrorsSection(d, old)) /\ Keeps(ErrorsSection(d, old), old)
<1> DEFINE V == parse_taxonomy(d)
           H == IF HasBlock(d) THEN <<Sub(61)>> \o BaseRows(V, v1codes) ELSE <<>>
           E == Extended(old, V)
           N == ErrorsSection(d, old)
<1>1. N = H \o E BY DEF ErrorsSection
<1>2. Block(H, d) BY BlockIs
<1> HIDE DEF H, E, N
<1>3. old \in Seq(Line) /\ DOMAIN old = 1..Len(old) /\ Len(old) \in Nat /\ \A k \in DOMAIN old : old[k] \in Line
  BY LenProperties, ElementOfSeq DEF Plain
<1>4. E \in Seq(Line) /\ \E p : Dotted(E, old, V, p) BY <1>3, ExtendedIs DEF E
<1>5. PICK p : Dotted(E, old, V, p) BY <1>4
<1> HIDE DEF V
<1>6. /\ p \in [DOMAIN E -> DOMAIN old]
      /\ \A a, b \in DOMAIN E : a < b => p[a] < p[b]
      /\ \A k \in DOMAIN old : (IsRow(old[k]) /\ old[k].legacy /\ old[k].name \in V) \/ \E a \in DOMAIN E : p[a] = k
      /\ \A a \in DOMAIN E : IsRow(old[p[a]]) => E[a] = [old[p[a]] EXCEPT !.legacy = FALSE]
      /\ \A a \in DOMAIN E : ~IsRow(old[p[a]]) => E[a] = old[p[a]] \/ (old[p[a]] = Intro /\ E[a] = Sub(62))
      /\ \A a \in DOMAIN E : E[a] = Intro => \E b \in 1..a - 1 : E[b] = Sub(62)
  BY <1>5 DEF Dotted
<1>7. H \in Seq(Line) BY <1>2 DEF Block
<1>8. Joins(N, H, E) BY <1>1, <1>4, <1>7, JoinsIs
<1> DEFINE h == Len(H)
           m == Len(E)
<1>9. /\ N \in Seq(Line) /\ h \in Nat /\ m \in Nat /\ Len(N) = h + m /\ DOMAIN N = 1..h + m /\ DOMAIN H = 1..h /\ DOMAIN E = 1..m
      /\ \A x \in Nat : 0 < x /\ x <= h => N[x] = H[x]
      /\ \A x \in Nat : 0 < x /\ x <= m => N[h + x] = E[x]
      /\ \A x \in Nat : h < x /\ x <= h + m => x - h \in DOMAIN E /\ N[x] = E[x - h]
  BY <1>8 DEF Joins
<1>10. /\ \A x \in DOMAIN H : /\ x = 1 => H[x] = Sub(61)
                              /\ x # 1 => \E c \in V : H[x] = Entry(c, FALSE, v1codes[c])
       /\ \A c \in V : \E x \in DOMAIN H : x # 1 /\ H[x] = Entry(c, FALSE, v1codes[c])
  BY <1>2 DEF Block, V
<1>11. \A c \in V : v1codes[c] \in Editions BY DEF V, parse_taxonomy, CodesTyped
<1>12. Own \notin Editions BY ScriptsAssumption DEF Scripts
<1> HIDE DEF h, m
\* What a line of the new body is.
<1>13. ASSUME NEW x \in DOMAIN N
       PROVE  \/ x \in DOMAIN H /\ x <= h /\ N[x] = H[x]
              \/ x > h /\ x - h \in DOMAIN E /\ N[x] = E[x - h]
  <2>1. x \in Nat /\ 0 < x /\ x <= h + m BY <1>9
  <2>2. CASE x <= h BY <1>9, <2>1, <2>2
  <2>3. CASE h < x BY <1>9, <2>1, <2>3
  <2> QED BY <1>9, <2>1, <2>2, <2>3
<1>14. ASSUME NEW x \in DOMAIN H
       PROVE  /\ H[x] \notin Marks /\ H[x] # Note /\ ~IsSec(H[x]) /\ (IsRow(H[x]) => H[x].says # Own /\ ~H[x].legacy)
  <2>1. CASE x = 1
    <3>1. H[x] = Sub(61) BY <1>10, <2>1
    <3> QED BY <3>1 DEF Sub, Marks, Intro, Note, IsSec, IsRow
  <2>2. CASE x # 1
    <3>1. PICK c \in V : H[x] = Entry(c, FALSE, v1codes[c]) BY <1>10, <2>2
    <3>2. v1codes[c] # Own BY <1>11, <1>12
    <3> QED BY <3>1, <3>2 DEF Entry, Sub, Marks, Intro, Note, IsSec, IsRow
  <2> QED BY <2>1, <2>2
<1>15. ASSUME NEW a \in DOMAIN E
       PROVE  /\ p[a] \in DOMAIN old
              /\ IsRow(E[a]) => IsRow(old[p[a]]) /\ E[a].says = old[p[a]].says /\ ~E[a].legacy
              /\ E[a] \in Marks <=> old[p[a]] \in Marks
              /\ E[a] = Sub(61) <=> old[p[a]] = Sub(61)
              /\ E[a] = Note <=> old[p[a]] = Note
              /\ ~IsSec(E[a])
  <2>1. p[a] \in DOMAIN old /\ old[p[a]] \in Line /\ ~IsSec(old[p[a]]) BY <1>3, <1>6 DEF Plain
  <2>2. CASE IsRow(old[p[a]])
    <3>1. E[a] = [old[p[a]] EXCEPT !.legacy = FALSE] BY <1>6, <2>2
    <3>2. IsRow(E[a]) /\ E[a].says = old[p[a]].says /\ ~E[a].legacy BY <2>1, <2>2, <3>1, RowLines
    <3>3. \A l : IsRow(l) => l \notin Marks /\ l # Sub(61) /\ l # Note /\ ~IsSec(l) BY DEF IsRow, Marks, Intro, Sub, Note, IsSec
    <3> QED BY <2>1, <2>2, <3>2, <3>3
  <2>3. CASE ~IsRow(old[p[a]])
    <3>1. E[a] = old[p[a]] \/ (old[p[a]] = Intro /\ E[a] = Sub(62)) BY <1>6, <2>3
    <3>2. CASE E[a] = old[p[a]] BY <2>1, <2>3, <3>2
    <3>3. CASE old[p[a]] = Intro /\ E[a] = Sub(62) BY <2>1, <3>3 DEF IsRow, Marks, Intro, Sub, Note, IsSec
    <3> QED BY <3>1, <3>2, <3>3
  <2> QED BY <2>2, <2>3
<1>16. ASSUME NEW a \in DOMAIN E, NEW b \in DOMAIN E, p[a] = p[b] PROVE a = b
  <2>1. a \in Nat /\ b \in Nat /\ p[a] \in Nat BY <1>3, <1>6, <1>9
  <2>2. ~(a < b) /\ ~(b < a) BY <1>6, <1>16, <2>1
  <2> QED BY <2>1, <2>2
<1>17. ASSUME NEW a \in DOMAIN E, NEW k \in DOMAIN old, k < p[a], ~IsRow(old[k])
       PROVE  \E b \in 1..a - 1 : b \in DOMAIN E /\ p[b] = k
  <2>1. PICK b \in DOMAIN E : p[b] = k BY <1>6, <1>17
  <2>2. a \in Nat /\ b \in Nat /\ 0 < b /\ p[a] \in Nat /\ k \in Nat BY <1>3, <1>6, <1>9
  <2>3. b # a /\ ~(a < b)
    <3>1. a < b => p[a] < p[b] BY <1>6
    <3> QED BY <1>17, <2>1, <2>2, <3>1
  <2> QED BY <2>1, <2>2, <2>3
<1>18. Fits(N, old)
  <2>1. \A x \in DOMAIN N : ~IsSec(N[x]) BY <1>13, <1>14, <1>15
  <2>2. \A x \in DOMAIN N : N[x] = Note => x > h /\ x - h \in DOMAIN E /\ old[p[x - h]] = Note /\ p[x - h] \in DOMAIN old
    BY <1>13, <1>14, <1>15
  <2>3. \A x \in DOMAIN N : N[x] = Note => \E k \in DOMAIN old : old[k] = Note BY <2>2
  <2>4. OnlyNote(old) => OnlyNote(N)
    <3> SUFFICES ASSUME OnlyNote(old), NEW x \in DOMAIN N, NEW y \in DOMAIN N, N[x] = Note, N[y] = Note PROVE x = y BY DEF OnlyNote
    <3>1. p[x - h] = p[y - h] /\ x - h \in DOMAIN E /\ y - h \in DOMAIN E BY <2>2 DEF OnlyNote
    <3>2. x - h = y - h BY <1>16, <3>1
    <3>3. x \in Nat /\ y \in Nat BY <1>9
    <3> QED BY <1>9, <3>2, <3>3
  <2> QED BY <1>9, <2>1, <2>3, <2>4 DEF Fits
<1>19. Introduced(N)
  <2> SUFFICES ASSUME NEW x \in DOMAIN N, NEW y \in DOMAIN N, x < y
               PROVE  /\ IsRow(N[x]) /\ N[x].says = Own /\ N[y] \in Marks => \E z \in 1..x - 1 : N[z] \in Marks
                      /\ N[x] \in Marks /\ N[y] = Sub(61) => \E z \in 1..x - 1 : N[z] = Sub(61)
    BY DEF Introduced
  <2>0. x \in Nat /\ y \in Nat /\ 0 < x BY <1>9
  <2>1. ASSUME IsRow(N[x]), N[x].says = Own, N[y] \in Marks PROVE \E z \in 1..x - 1 : N[z] \in Marks
    <3>1. x > h /\ x - h \in DOMAIN E /\ N[x] = E[x - h] BY <1>13, <1>14, <2>1
    <3>2. y > h /\ y - h \in DOMAIN E /\ N[y] = E[y - h] BY <1>13, <1>14, <2>1
    <3> DEFINE a == x - h
               b == y - h
    <3>3. a \in DOMAIN E /\ b \in DOMAIN E /\ a \in Nat /\ b \in Nat /\ a < b /\ h + a = x BY <1>9, <2>0, <3>1, <3>2
    <3>4. IsRow(E[a]) /\ E[a].says = Own /\ E[b] \in Marks BY <2>1, <3>1, <3>2
    <3> HIDE DEF a, b
    <3>5. IsRow(old[p[a]]) /\ old[p[a]].says = Own /\ old[p[b]] \in Marks /\ p[a] \in DOMAIN old /\ p[b] \in DOMAIN old /\ p[a] < p[b]
      BY <1>6, <1>15, <3>3, <3>4
    <3>6. PICK k \in 1..p[a] - 1 : old[k] \in Marks BY <3>5 DEF Introduced
    <3>7. k \in DOMAIN old /\ k < p[a]
      <4>1. p[a] \in 1..Len(old) BY <1>3, <3>5
      <4> QED BY <1>3, <4>1
    <3>8. ~IsRow(old[k]) BY <3>6 DEF Marks, IsRow, Intro, Sub
    <3>9. PICK c \in 1..a - 1 : c \in DOMAIN E /\ p[c] = k BY <1>17, <3>3, <3>7, <3>8
    <3>10. E[c] \in Marks BY <1>15, <3>6, <3>9
    <3>11. c \in Nat /\ 0 < c /\ c <= m /\ h + c \in 1..x - 1
      <4>1. a <= m BY <1>9, <3>3
      <4>2. c \in Nat /\ 0 < c /\ c < a BY <3>3, <3>9
      <4>3. h \in Nat /\ m \in Nat BY <1>9
      <4> QED BY <2>0, <3>3, <4>1, <4>2, <4>3
    <3>12. N[h + c] = E[c] BY <1>9, <3>11
    <3> QED BY <3>10, <3>11, <3>12
  <2>2. ASSUME N[x] \in Marks, N[y] = Sub(61) PROVE \E z \in 1..x - 1 : N[z] = Sub(61)
    <3>1. x > h /\ x - h \in DOMAIN E /\ N[x] = E[x - h] BY <1>13, <1>14, <2>2
    <3>2. CASE h > 0
      <4>1. 1 \in DOMAIN H /\ N[1] = H[1] BY <1>9, <3>2
      <4>2. N[1] = Sub(61) BY <1>10, <4>1
      <4>3. 1 \in 1..x - 1 BY <1>9, <2>0, <3>1, <3>2
      <4> QED BY <4>2, <4>3
    <3>3. CASE h = 0
      <4>1. /\ x \in DOMAIN E /\ y \in DOMAIN E /\ \A z \in Nat : 0 < z /\ z <= m => N[z] = E[z]
        <5>1. 0 + m = m /\ \A z \in Nat : 0 + z = z BY <1>9
        <5> QED BY <1>9, <3>3, <5>1
      <4>2. E[x] \in Marks /\ E[y] = Sub(61)
        <5>1. x <= m /\ y <= m /\ 0 < y BY <1>9, <2>0, <3>3
        <5> QED BY <2>0, <2>2, <4>1, <5>1
      <4>3. old[p[x]] \in Marks /\ old[p[y]] = Sub(61) /\ p[x] \in DOMAIN old /\ p[y] \in DOMAIN old /\ p[x] < p[y]
        BY <1>6, <1>15, <4>1, <4>2
      <4>4. PICK k \in 1..p[x] - 1 : old[k] = Sub(61) BY <4>3 DEF Introduced
      <4>5. k \in DOMAIN old /\ k < p[x]
        <5>1. p[x] \in 1..Len(old) BY <1>3, <4>3
        <5> QED BY <1>3, <5>1
      <4>6. ~IsRow(old[k]) BY <4>4, RowLines
      <4>7. PICK c \in 1..x - 1 : c \in DOMAIN E /\ p[c] = k BY <1>17, <4>1, <4>5, <4>6
      <4>8. E[c] = Sub(61) BY <1>15, <4>4, <4>7
      <4>9. c \in Nat /\ 0 < c /\ c <= m BY <1>9, <2>0, <4>7
      <4> QED BY <4>1, <4>7, <4>8, <4>9
    <3> QED BY <1>9, <3>2, <3>3
  <2> QED BY <2>1, <2>2
<1>20. Reread(d, N)
  <2>1. \A a \in DOMAIN N : IsRow(N[a]) => ~N[a].legacy BY <1>13, <1>14, <1>15
  <2>2. \A a \in DOMAIN N : N[a] = Intro => \E b \in 1..a - 1 : N[b] = Sub(62)
    <3> SUFFICES ASSUME NEW a \in DOMAIN N, N[a] = Intro PROVE \E b \in 1..a - 1 : N[b] = Sub(62) OBVIOUS
    <3>1. Intro \in Marks BY DEF Marks
    <3>2. a > h /\ a - h \in DOMAIN E /\ N[a] = E[a - h] BY <1>13, <1>14, <3>1
    <3>3. PICK b \in 1..(a - h) - 1 : E[b] = Sub(62) BY <1>6, <3>2
    <3>4. b \in Nat /\ 0 < b /\ b <= m /\ h + b \in 1..a - 1 BY <1>9, <3>2
    <3>5. N[h + b] = E[b] BY <1>9, <3>4
    <3> QED BY <3>3, <3>4, <3>5
  <2>3. ASSUME NEW c \in V
        PROVE  /\ N[1] = Sub(61)
               /\ \E q \in 2..Len(N) : /\ N[q] = Entry(c, FALSE, v1codes[c])
                                       /\ \A k \in 1..q - 1 : N[k] # Sub(62) /\ ~(IsRow(N[k]) /\ N[k].name = c)
    <3>1. \E q \in 2..Len(H) : /\ H[q] = Entry(c, FALSE, v1codes[c])
                               /\ \A k \in 1..q - 1 : H[k] # Sub(62) /\ ~(IsRow(H[k]) /\ H[k].name = c)
      <4>1. c \in parse_taxonomy(d) BY DEF V
      <4> QED BY <1>2, <4>1, FirstOf
    <3>2. PICK q \in 2..h : /\ H[q] = Entry(c, FALSE, v1codes[c])
                            /\ \A k \in 1..q - 1 : H[k] # Sub(62) /\ ~(IsRow(H[k]) /\ H[k].name = c)
      BY <3>1 DEF h
    <3>3. q \in Nat /\ 2 <= q /\ q <= h BY <1>9
    <3>4. \A k \in Nat : 0 < k /\ k <= q => N[k] = H[k] BY <1>9, <3>3
    <3>5. N[1] = Sub(61)
      <4>1. 1 \in DOMAIN H /\ N[1] = H[1] BY <1>9, <3>3, <3>4
      <4> QED BY <1>10, <4>1
    <3>6. N[q] = Entry(c, FALSE, v1codes[c])
      <4>1. N[q] = H[q] BY <3>3, <3>4
      <4> QED BY <3>2, <4>1
    <3>7. \A k \in 1..q - 1 : N[k] # Sub(62) /\ ~(IsRow(N[k]) /\ N[k].name = c)
      <4> TAKE k \in 1..q - 1
      <4>1. N[k] = H[k] BY <3>3, <3>4
      <4> QED BY <3>2, <4>1
    <3>8. q \in 2..Len(N) BY <1>9, <3>3
    <3> QED BY <3>5, <3>6, <3>7, <3>8
  <2> QED BY <2>1, <2>2, <2>3 DEF Reread, V
<1>21. Keeps(N, old)
  <2> SUFFICES ASSUME NEW k \in DOMAIN old, IsRow(old[k])
               PROVE  \/ [old[k] EXCEPT !.legacy = FALSE] \in Range(N)
                      \/ \E x \in Range(N) : IsRow(x) /\ x.name = old[k].name /\ x.says # Own
    BY DEF Keeps
  <2>1. CASE \E a \in DOMAIN E : p[a] = k
    <3>1. PICK a \in DOMAIN E : p[a] = k BY <2>1
    <3>2. E[a] = [old[k] EXCEPT !.legacy = FALSE] BY <1>6, <3>1
    <3>3. h + a \in DOMAIN N /\ N[h + a] = E[a] BY <1>9
    <3> QED BY <3>2, <3>3 DEF Range
  <2>2. CASE old[k].name \in V
    <3>1. PICK x \in DOMAIN H : H[x] = Entry(old[k].name, FALSE, v1codes[old[k].name]) BY <1>10, <2>2
    <3>2. x \in DOMAIN N /\ N[x] = H[x] BY <1>9
    <3>3. v1codes[old[k].name] # Own BY <1>11, <1>12, <2>2
    <3>4. N[x] \in Range(N) BY <3>2 DEF Range
    <3>5. IsRow(N[x]) /\ N[x].name = old[k].name /\ N[x].says # Own BY <3>1, <3>2, <3>3 DEF Entry, IsRow
    <3> QED BY <3>4, <3>5
  <2> QED BY <1>6, <2>1, <2>2
<1> QED BY <1>18, <1>19, <1>20, <1>21 DEF N

\* A body that fits still fits behind a part without headings and notes.
LEMMA FitsBehind ==
  ASSUME NEW F \in Seq(Line), NEW R, NEW old, Fits(R, old), \A a \in DOMAIN F : ~IsSec(F[a]) /\ F[a] # Note
  PROVE  Fits(F \o R, old) /\ Range(R) \subseteq Range(F \o R)
<1> DEFINE N == F \o R
           h == Len(F)
           m == Len(R)
<1>1. /\ R \in Seq(Line) /\ \A a \in DOMAIN R : ~IsSec(R[a])
      /\ \A a \in DOMAIN R : R[a] = Note => \E k \in DOMAIN old : old[k] = Note
      /\ OnlyNote(old) => OnlyNote(R)
  BY DEF Fits
<1>2. Joins(N, F, R) BY <1>1, JoinsIs
<1> HIDE DEF N
<1>3. /\ N \in Seq(Line) /\ h \in Nat /\ m \in Nat /\ Len(N) = h + m /\ DOMAIN N = 1..h + m /\ DOMAIN F = 1..h /\ DOMAIN R = 1..m
      /\ \A x \in Nat : 0 < x /\ x <= h => N[x] = F[x]
      /\ \A x \in Nat : 0 < x /\ x <= m => N[h + x] = R[x]
      /\ \A x \in Nat : h < x /\ x <= h + m => x - h \in DOMAIN R /\ N[x] = R[x - h]
  BY <1>2 DEF Joins
<1> HIDE DEF h, m
<1>4. ASSUME NEW x \in DOMAIN N
      PROVE  \/ x \in DOMAIN F /\ N[x] = F[x]
             \/ x > h /\ x - h \in DOMAIN R /\ N[x] = R[x - h]
  <2>1. x \in Nat /\ 0 < x /\ x <= h + m BY <1>3
  <2>2. CASE x <= h BY <1>3, <2>1, <2>2
  <2>3. CASE h < x BY <1>3, <2>1, <2>3
  <2> QED BY <1>3, <2>1, <2>2, <2>3
<1>5. \A x \in DOMAIN N : ~IsSec(N[x]) BY <1>1, <1>4
<1>6. \A x \in DOMAIN N : N[x] = Note => x - h \in DOMAIN R /\ R[x - h] = Note BY <1>4
<1>7. \A x \in DOMAIN N : N[x] = Note => \E k \in DOMAIN old : old[k] = Note BY <1>1, <1>6
<1>8. OnlyNote(old) => OnlyNote(N)
  <2> SUFFICES ASSUME OnlyNote(old), NEW x \in DOMAIN N, NEW y \in DOMAIN N, N[x] = Note, N[y] = Note PROVE x = y BY DEF OnlyNote
  <2>1. x - h = y - h BY <1>1, <1>6 DEF OnlyNote
  <2>2. x \in Nat /\ y \in Nat BY <1>3
  <2> QED BY <1>3, <2>1, <2>2
<1>9. Fits(N, old) BY <1>3, <1>5, <1>7, <1>8 DEF Fits
<1>10. ASSUME NEW a \in DOMAIN R PROVE R[a] \in Range(N)
  <2>1. N[h + a] = R[a] /\ h + a \in DOMAIN N BY <1>3
  <2> QED BY <2>1 DEF Range
<1>11. Range(R) \subseteq Range(N)
  <2> SUFFICES ASSUME NEW l \in Range(R) PROVE l \in Range(N) OBVIOUS
  <2>1. PICK a \in DOMAIN R : l = R[a] BY DEF Range
  <2> QED BY <1>10, <2>1
<1> QED BY <1>9, <1>11 DEF N

\* A table that a script writes, between two headings.
Frame(n, S) == <<Sub(n)>> \o Written(S) \o <<Sub(n + 1)>>

Framed(w, n, S) ==
  /\ w \in Seq(Line) /\ \A a \in DOMAIN w : ~IsSec(w[a]) /\ w[a] # Note /\ w[a] # Intro
  /\ \E m \in Nat \ {0, 1} :
       /\ Len(w) = m /\ w[1] = Sub(n) /\ w[m] = Sub(n + 1)
       /\ \A x \in Nat : 1 < x /\ x < m => \E c \in S : \E e \in Editions : w[x] = Entry(c, FALSE, e)
       /\ \A c \in S : \E x \in Nat : 1 < x /\ x < m /\ \E e \in Editions : w[x] = Entry(c, FALSE, e)

\* A baseline between its two headings.
LEMMA WrittenIs ==
  ASSUME NEW n \in Nat, NEW S \in SUBSET RowNames, IsFiniteSet(S)
  PROVE  Framed(Frame(n, S), n, S)
<1> DEFINE says == [x \in S |-> CHOOSE e \in Editions : TRUE]
           F == Table(Sub(n), S, says)
           s == <<Sub(n + 1)>>
           w == F \o s
<1>0. w = Frame(n, S) BY DEF Frame, Written, Table
<1>1. Editions # {} BY ScriptsAssumption DEF Scripts
<1>2. \A c \in S : says[c] \in Editions BY <1>1
<1>3. Sub(n) \in Line /\ Sub(n + 1) \in Line BY RowLines
<1> HIDE DEF says
<1>4. Tabled(F, Sub(n), S, says) BY <1>2, <1>3, TableIs
<1> HIDE DEF F
<1>5. /\ F \in Seq(Line) /\ Len(F) \in Nat \ {0} /\ F[1] = Sub(n)
      /\ \A x \in Nat : 1 < x /\ x <= Len(F) => \E c \in S : F[x] = Entry(c, FALSE, says[c])
      /\ \A c \in S : \E x \in Nat : 1 < x /\ x <= Len(F) /\ F[x] = Entry(c, FALSE, says[c])
  BY <1>4 DEF Tabled
<1>6. s \in Seq(Line) /\ Len(s) = 1 /\ s[1] = Sub(n + 1) BY <1>3
<1> HIDE DEF s
<1>7. Joins(w, F, s) BY <1>5, <1>6, JoinsIs
<1> HIDE DEF w
<1> DEFINE h == Len(F)
           m == Len(F) + 1
<1>8. /\ w \in Seq(Line) /\ h \in Nat \ {0} /\ Len(w) = m /\ DOMAIN w = 1..m
      /\ \A x \in Nat : 0 < x /\ x <= h => w[x] = F[x]
      /\ \A x \in Nat : 0 < x /\ x <= 1 => w[h + x] = s[x]
  BY <1>5, <1>6, <1>7 DEF Joins
<1>9. w[1] = Sub(n) /\ w[m] = Sub(n + 1) /\ m \in Nat \ {0, 1} /\ h < m /\ m = h + 1
  <2>1. w[1] = F[1] BY <1>8
  <2>2. w[h + 1] = s[1] BY <1>8
  <2> QED BY <1>5, <1>6, <1>8, <2>1, <2>2
<1> HIDE DEF h
<1>10. ASSUME NEW x \in Nat, 1 < x, x < m PROVE \E c \in S : \E e \in Editions : w[x] = Entry(c, FALSE, e)
  <2>1. x <= h /\ w[x] = F[x]
    <3>1. x <= h BY <1>8, <1>9, <1>10
    <3> QED BY <1>8, <1>10, <3>1
  <2>2. PICK c \in S : F[x] = Entry(c, FALSE, says[c]) BY <1>5, <1>10, <2>1 DEF h
  <2> QED BY <1>2, <2>1, <2>2
<1>11. ASSUME NEW c \in S PROVE \E x \in Nat : 1 < x /\ x < m /\ \E e \in Editions : w[x] = Entry(c, FALSE, e)
  <2>1. PICK x \in Nat : 1 < x /\ x <= h /\ F[x] = Entry(c, FALSE, says[c]) BY <1>5 DEF h
  <2>2. w[x] = F[x]
    <3>1. 0 < x BY <2>1
    <3> QED BY <1>8, <2>1, <3>1
  <2>3. x < m BY <1>8, <1>9, <2>1
  <2> QED BY <1>2, <2>1, <2>2, <2>3
<1> HIDE DEF m
<1>12. ASSUME NEW a \in DOMAIN w PROVE ~IsSec(w[a]) /\ w[a] # Note /\ w[a] # Intro
  <2>1. \A k : ~IsSec(Sub(k)) /\ Sub(k) # Note /\ Sub(k) # Intro BY DEF IsSec, Sub, Note, Intro
  <2>2. \A c, e : ~IsSec(Entry(c, FALSE, e)) /\ Entry(c, FALSE, e) # Note /\ Entry(c, FALSE, e) # Intro BY DEF IsSec, Entry, Note, Intro
  <2>3. a = 1 \/ a = m \/ (a \in Nat /\ 1 < a /\ a < m) BY <1>8, <1>9
  <2>4. CASE a = 1 BY <1>9, <2>1, <2>4
  <2>5. CASE a = m BY <1>9, <2>1, <2>5
  <2>6. CASE a \in Nat /\ 1 < a /\ a < m
    <3>1. \E c \in S : \E e \in Editions : w[a] = Entry(c, FALSE, e) BY <1>10, <2>6
    <3> QED BY <2>2, <3>1
  <2> QED BY <2>3, <2>4, <2>5, <2>6
<1>13. \E k \in Nat \ {0, 1} :
          /\ Len(w) = k /\ w[1] = Sub(n) /\ w[k] = Sub(n + 1)
          /\ \A x \in Nat : 1 < x /\ x < k => \E c \in S : \E e \in Editions : w[x] = Entry(c, FALSE, e)
          /\ \A c \in S : \E x \in Nat : 1 < x /\ x < k /\ \E e \in Editions : w[x] = Entry(c, FALSE, e)
  BY <1>8, <1>9, <1>10, <1>11
<1>14. Framed(w, n, S) BY <1>8, <1>12, <1>13 DEF Framed
<1> QED BY <1>0, <1>14

\* A body fits in its own place.
LEMMA FitsItself ==
  ASSUME NEW old, Plain(old)
  PROVE  Fits(old, old)
BY DEF Fits, Plain

\* Section 7 rewritten keeps every line.
LEMMA EndpointsBody ==
  ASSUME NEW d, NEW old, Plain(old)
  PROVE  Fits(EndpointsSection(d, old), old) /\ Range(old) \subseteq Range(EndpointsSection(d, old))
<1> DEFINE F == <<Sub(71)>> \o Written(Paths) \o <<Sub(72)>>
<1>1. Paths \in SUBSET RowNames /\ IsFiniteSet(Paths) BY ScriptsAssumption DEF Scripts
<1>2. F \in Seq(Line) /\ \A a \in DOMAIN F : ~IsSec(F[a]) /\ F[a] # Note
  <2>1. F = Frame(71, Paths) BY DEF Frame
  <2>2. Framed(Frame(71, Paths), 71, Paths) BY <1>1, WrittenIs
  <2> HIDE DEF F
  <2> QED BY <2>1, <2>2 DEF Framed
<1>3. EndpointsSection(d, old) = F \o old BY DEF EndpointsSection, parse_api
<1> HIDE DEF F
<1> QED BY <1>2, <1>3, FitsItself, FitsBehind

\* Section 4 rewritten: the baseline first, then every line not folded.
LEMMA EventsBody ==
  ASSUME NEW d \in DOMAIN DOCS4, NEW old, Plain(old)
  PROVE  /\ Fits(EventsSection(d, old), old) /\ Rebased(d, EventsSection(d, old))
         /\ \A k \in DOMAIN old : old[k] \in Range(EventsSection(d, old)) \/ (IsRow(old[k]) /\ old[k].name \in DOCS4[d].drop)
<1> DEFINE S == DOCS4[d].rows
           F == <<Sub(41)>> \o Written(S) \o <<Sub(42)>>
           K == {n \in DOMAIN old : ~(IsRow(old[n]) /\ old[n].name \in DOCS4[d].drop)}
           U == Picked(old, K)
           N == EventsSection(d, old)
<1>1. S \in SUBSET RowNames /\ IsFiniteSet(S) BY ScriptsAssumption DEF Scripts
<1>2. /\ F \in Seq(Line) /\ \A a \in DOMAIN F : ~IsSec(F[a]) /\ F[a] # Note
      /\ \E m \in Nat \ {0, 1} :
           /\ Len(F) = m /\ F[1] = Sub(41) /\ F[m] = Sub(42)
           /\ \A x \in Nat : 1 < x /\ x < m => \E c \in S : \E e \in Editions : F[x] = Entry(c, FALSE, e)
           /\ \A c \in S : \E x \in Nat : 1 < x /\ x < m /\ \E e \in Editions : F[x] = Entry(c, FALSE, e)
  <2>1. F = Frame(41, S) /\ 41 + 1 = 42 BY DEF Frame
  <2>2. Framed(Frame(41, S), 41, S) BY <1>1, WrittenIs
  <2> HIDE DEF F, S
  <2>3. /\ F \in Seq(Line) /\ \A a \in DOMAIN F : ~IsSec(F[a]) /\ F[a] # Note
        /\ \E m \in Nat \ {0, 1} :
             /\ Len(F) = m /\ F[1] = Sub(41) /\ F[m] = Sub(41 + 1)
             /\ \A x \in Nat : 1 < x /\ x < m => \E c \in S : \E e \in Editions : F[x] = Entry(c, FALSE, e)
             /\ \A c \in S : \E x \in Nat : 1 < x /\ x < m /\ \E e \in Editions : F[x] = Entry(c, FALSE, e)
    <3>1. Framed(F, 41, S) BY <2>1, <2>2
    <3> QED BY <3>1 DEF Framed
  <2> QED BY <2>1, <2>3
<1>3. N = F \o U BY DEF EventsSection, Unfolded
<1>4. old \in Seq(Line) /\ \A a \in DOMAIN old : ~IsSec(old[a]) BY DEF Plain
<1>5. \A k \in DOMAIN old : k \in K \/ (IsRow(old[k]) /\ old[k].name \in DOCS4[d].drop) OBVIOUS
<1>6. K \in SUBSET DOMAIN old OBVIOUS
<1> HIDE DEF F, K, N
<1>7. U \in Seq(Line) /\ \E p \in [DOMAIN U -> K] :
           /\ \A a, b \in DOMAIN U : a < b => p[a] < p[b]
           /\ \A k \in K : \E a \in DOMAIN U : p[a] = k
           /\ \A a \in DOMAIN U : U[a] = old[p[a]]
  <2>1. old \in Seq(Line) BY <1>4
  <2>2. U \in Seq(Line) /\ Picks(U, old, K) BY <1>6, <2>1, PickedIs
  <2> HIDE DEF U
  <2> QED BY <2>2 DEF Picks
<1> HIDE DEF U
<1>8. PICK p \in [DOMAIN U -> K] :
           /\ \A a, b \in DOMAIN U : a < b => p[a] < p[b]
           /\ \A k \in K : \E a \in DOMAIN U : p[a] = k
           /\ \A a \in DOMAIN U : U[a] = old[p[a]]
  BY <1>7
<1>9. \A a \in DOMAIN U : p[a] \in DOMAIN old BY <1>6, <1>8
<1>10. Fits(U, old)
  <2>1. OnlyNote(old) => OnlyNote(U)
    <3> SUFFICES ASSUME OnlyNote(old), NEW a \in DOMAIN U, NEW b \in DOMAIN U, U[a] = Note, U[b] = Note, a # b PROVE FALSE BY DEF OnlyNote
    <3>1. p[a] = p[b] BY <1>8, <1>9 DEF OnlyNote
    <3>2. a \in Nat /\ b \in Nat /\ p[a] \in Nat
      <4>1. DOMAIN U = 1..Len(U) /\ DOMAIN old = 1..Len(old) BY <1>4, <1>7, LenProperties
      <4> QED BY <1>9, <4>1
    <3>3. ~(a < b) /\ ~(b < a) BY <1>8, <3>1, <3>2
    <3> QED BY <3>2, <3>3
  <2>2. \A a \in DOMAIN U : ~IsSec(U[a]) /\ (U[a] = Note => \E k \in DOMAIN old : old[k] = Note) BY <1>4, <1>8, <1>9
  <2> QED BY <1>7, <2>1, <2>2 DEF Fits
<1>11. Fits(N, old) /\ Range(U) \subseteq Range(N) BY <1>2, <1>3, <1>10, FitsBehind
<1>12. ASSUME NEW k \in DOMAIN old PROVE old[k] \in Range(N) \/ (IsRow(old[k]) /\ old[k].name \in DOCS4[d].drop)
  <2>1. CASE k \in K
    <3>1. PICK a \in DOMAIN U : p[a] = k BY <1>8, <2>1
    <3>2. U[a] = old[k] BY <1>8, <3>1
    <3>3. U[a] \in Range(U) BY DEF Range
    <3> QED BY <1>11, <3>2, <3>3
  <2> QED BY <1>5, <2>1
<1>13. Rebased(d, N)
  <2>1. PICK m \in Nat \ {0, 1} :
           /\ Len(F) = m /\ F[1] = Sub(41) /\ F[m] = Sub(42)
           /\ \A x \in Nat : 1 < x /\ x < m => \E c \in S : \E e \in Editions : F[x] = Entry(c, FALSE, e)
           /\ \A c \in S : \E x \in Nat : 1 < x /\ x < m /\ \E e \in Editions : F[x] = Entry(c, FALSE, e)
    BY <1>2
  <2>2. Joins(N, F, U) BY <1>2, <1>3, <1>7, JoinsIs
  <2>3. Len(U) \in Nat /\ Len(N) = m + Len(U) /\ \A x \in Nat : 0 < x /\ x <= m => N[x] = F[x] BY <2>1, <2>2 DEF Joins
  <2>4. m \in 2..Len(N) BY <2>1, <2>3
  <2>5. N[1] = Sub(41) /\ N[m] = Sub(42)
    <3>1. N[1] = F[1] /\ N[m] = F[m] BY <2>1, <2>3
    <3> QED BY <2>1, <3>1
  <2>6. \A k \in 2..m - 1 : IsRow(N[k]) /\ ~N[k].legacy /\ N[k].name \in S
    <3> TAKE k \in 2..m - 1
    <3>1. k \in Nat /\ 1 < k /\ k < m /\ 0 < k /\ k <= m BY <2>1
    <3>2. N[k] = F[k] BY <2>3, <3>1
    <3>3. PICK c \in S, e \in Editions : F[k] = Entry(c, FALSE, e) BY <2>1, <3>1
    <3> HIDE DEF S
    <3> QED BY <3>2, <3>3 DEF IsRow, Entry
  <2>7. \A e \in S : \E k \in 2..m - 1 : N[k].name = e
    <3> TAKE e \in S
    <3>1. PICK x \in Nat : 1 < x /\ x < m /\ \E f \in Editions : F[x] = Entry(e, FALSE, f) BY <2>1
    <3>2. x \in 2..m - 1 BY <2>1, <3>1
    <3>3. N[x] = F[x]
      <4>1. 0 < x /\ x <= m BY <2>1, <3>1
      <4> QED BY <2>3, <4>1
    <3> QED BY <3>1, <3>2, <3>3 DEF Entry
  <2> QED BY <2>4, <2>5, <2>6, <2>7 DEF Rebased
<1> QED BY <1>11, <1>12, <1>13 DEF N

\* A row added at the end of a section.
LEMMA AppendBody ==
  ASSUME NEW old, Plain(old), NEW x \in RowNames, NEW b \in BOOLEAN
  PROVE  /\ Fits(Append(old, Entry(x, b, Own)), old)
         /\ Introduced(old) => Introduced(Append(old, Entry(x, b, Own)))
<1> DEFINE l == Entry(x, b, Own)
           N == Append(old, l)
<1>1. old \in Seq(Line) /\ DOMAIN old = 1..Len(old) /\ Len(old) \in Nat /\ \A a \in DOMAIN old : ~IsSec(old[a])
  BY LenProperties DEF Plain
<1>2. l \in Line /\ ~IsSec(l) /\ l # Note /\ l \notin Marks /\ l # Sub(61)
  <2>1. l \in Line BY RowLines
  <2> QED BY <2>1 DEF Entry, IsSec, Note, Marks, Intro, Sub
<1> HIDE DEF l
<1>3. N \in Seq(Line) /\ Len(N) = Len(old) + 1 /\ N[Len(old) + 1] = l /\ \A k \in 1..Len(old) : N[k] = old[k]
  BY <1>1, <1>2, AppendProperties
<1> HIDE DEF N
<1>4. DOMAIN N = 1..Len(old) + 1 BY <1>3, LenProperties
<1>5. \A k \in DOMAIN N : (k \in DOMAIN old /\ N[k] = old[k]) \/ (k = Len(old) + 1 /\ N[k] = l) BY <1>1, <1>3, <1>4
<1>6. Fits(N, old)
  <2>1. \A k \in DOMAIN N : ~IsSec(N[k]) /\ (N[k] = Note => k \in DOMAIN old /\ old[k] = Note) BY <1>1, <1>2, <1>5
  <2> QED BY <1>3, <2>1 DEF Fits, OnlyNote
<1>7. ASSUME Introduced(old) PROVE Introduced(N)
  <2> SUFFICES ASSUME NEW i \in DOMAIN N, NEW j \in DOMAIN N, i < j
               PROVE  /\ IsRow(N[i]) /\ N[i].says = Own /\ N[j] \in Marks => \E h \in 1..i - 1 : N[h] \in Marks
                      /\ N[i] \in Marks /\ N[j] = Sub(61) => \E h \in 1..i - 1 : N[h] = Sub(61)
    BY DEF Introduced
  <2>0. i \in Nat /\ j \in Nat /\ 0 < i /\ i <= Len(old) BY <1>1, <1>4
  <2>1. CASE j = Len(old) + 1 BY <1>2, <1>3, <2>1
  <2>2. CASE j # Len(old) + 1
    <3>1. j \in DOMAIN old /\ N[j] = old[j] BY <1>5, <2>2
    <3>2. i \in DOMAIN old /\ N[i] = old[i] BY <1>1, <1>3, <2>0
    <3>3. \A h \in 1..i - 1 : N[h] = old[h] BY <1>1, <1>3, <2>0
    <3>4. /\ IsRow(old[i]) /\ old[i].says = Own /\ old[j] \in Marks => \E h \in 1..i - 1 : old[h] \in Marks
          /\ old[i] \in Marks /\ old[j] = Sub(61) => \E h \in 1..i - 1 : old[h] = Sub(61)
      BY <1>7, <3>1, <3>2 DEF Introduced
    <3> QED BY <3>1, <3>2, <3>3, <3>4
  <2> QED BY <2>1, <2>2
<1> QED BY <1>6, <1>7 DEF N, l

-----------------------------------------------------------------------------
(* What the registers show *)

\* The zone of V1 rows, and the first row of each name.
Zone(sec, base, ext) ==
  LET i == Find(sec, 1, {Sub(base)}) IN {sec[k] : k \in i + 1..Find(sec, i + 1, {Sub(ext)}) - 1}
First(sec, k) ==
  /\ k \in DOMAIN sec /\ IsRow(sec[k])
  /\ ~\E h \in 1..k - 1 : IsRow(sec[h]) /\ sec[h].name = sec[k].name /\ sec[h].legacy = sec[k].legacy
Shown(l, zone) == [name |-> l.name, legacy |-> l.legacy, says |-> l.says, v1 |-> l \in zone]

Scanned(R, sec, zone) ==
  /\ \A x \in DOMAIN R : \E k \in DOMAIN sec : First(sec, k) /\ R[x] = Shown(sec[k], zone)
  /\ \A k \in DOMAIN sec : First(sec, k) => \E x \in DOMAIN R : R[x] = Shown(sec[k], zone)
  /\ \A x, y \in DOMAIN R : R[x].name = R[y].name /\ R[x].legacy = R[y].legacy => x = y

\* The parts of a row of a register.
LEMMA ShownIs ==
  \A l, zone, r : r = Shown(l, zone) =>
     r.name = l.name /\ r.legacy = l.legacy /\ r.says = l.says /\ (r.v1 <=> l \in zone)
<1> SUFFICES ASSUME NEW l, NEW zone PROVE
      LET r == Shown(l, zone) IN r.name = l.name /\ r.legacy = l.legacy /\ r.says = l.says /\ (r.v1 <=> l \in zone)
  OBVIOUS
<1> QED BY DEF Shown

\* Every row has a first one of its name.
LEMMA FirstRow ==
  ASSUME NEW sec \in Seq(Line), NEW k \in DOMAIN sec, IsRow(sec[k])
  PROVE  \E h \in DOMAIN sec : First(sec, h) /\ h <= k /\ sec[h].name = sec[k].name /\ sec[h].legacy = sec[k].legacy
<1> DEFINE K == {h \in 1..k : IsRow(sec[h]) /\ sec[h].name = sec[k].name /\ sec[h].legacy = sec[k].legacy}
<1>1. DOMAIN sec = 1..Len(sec) /\ Len(sec) \in Nat BY LenProperties
<1>2. k \in K /\ K \in SUBSET Nat /\ IsFiniteSet(K)
  <2>1. k \in Nat /\ k \in 1..k BY <1>1
  <2>2. IsFiniteSet(1..k) BY <2>1, FS_Interval
  <2>3. k \in K BY <2>1
  <2>4. K \in SUBSET (1..k) /\ K \in SUBSET Nat BY <2>1
  <2> HIDE DEF K
  <2> QED BY <2>2, <2>3, <2>4, FS_Subset
<1>3. PICK h \in K : \A x \in K : h <= x
  <2> HIDE DEF K
  <2> QED BY <1>2, Extremes
<1>4. h \in DOMAIN sec /\ h <= k /\ h \in Nat BY <1>1
<1>5. ~\E x \in 1..h - 1 : IsRow(sec[x]) /\ sec[x].name = sec[h].name /\ sec[x].legacy = sec[h].legacy
  <2> SUFFICES ASSUME NEW x \in 1..h - 1, IsRow(sec[x]), sec[x].name = sec[h].name, sec[x].legacy = sec[h].legacy PROVE FALSE OBVIOUS
  <2>1. x \in 1..k /\ ~(h <= x) BY <1>1, <1>4
  <2>2. x \in K BY <2>1
  <2> QED BY <1>3, <2>1, <2>2
<1> QED BY <1>4, <1>5 DEF First

\* A register shows the first row of each name, and V1 by the zone it stands in.
LEMMA ScanIs ==
  ASSUME NEW sec \in Seq(Line), NEW base, NEW ext
  PROVE  Scanned(Scan(sec, base, ext), sec, Zone(sec, base, ext))
<1> DEFINE zone == Zone(sec, base, ext)
           K == {k \in DOMAIN sec : IsRow(sec[k]) /\ ~\E h \in 1..k - 1 : IsRow(sec[h]) /\ sec[h].name = sec[k].name /\ sec[h].legacy = sec[k].legacy}
           rows == Picked(sec, K)
           R == [x \in DOMAIN rows |-> [name |-> rows[x].name, legacy |-> rows[x].legacy, says |-> rows[x].says, v1 |-> rows[x] \in zone]]
<1>1. Scan(sec, base, ext) = R BY DEF Scan, Zone
<1>2. \A k : k \in K <=> First(sec, k) BY DEF First
<1>3. K \in SUBSET DOMAIN sec OBVIOUS
<1>4. DOMAIN R = DOMAIN rows /\ \A x \in DOMAIN rows : R[x] = Shown(rows[x], zone) BY DEF Shown
<1> HIDE DEF zone, K, R
<1>5. rows \in Seq(Line) /\ \E p \in [DOMAIN rows -> K] :
         /\ \A a, b \in DOMAIN rows : a < b => p[a] < p[b]
         /\ \A k \in K : \E a \in DOMAIN rows : p[a] = k
         /\ \A a \in DOMAIN rows : rows[a] = sec[p[a]]
  <2>1. rows \in Seq(Line) /\ Picks(rows, sec, K) BY <1>3, PickedIs
  <2> HIDE DEF rows
  <2> QED BY <2>1 DEF Picks
<1>6. rows \in Seq(Line) BY <1>5
<1> HIDE DEF rows
<1>7. PICK p \in [DOMAIN rows -> K] :
         /\ \A a, b \in DOMAIN rows : a < b => p[a] < p[b]
         /\ \A k \in K : \E a \in DOMAIN rows : p[a] = k
         /\ \A a \in DOMAIN rows : rows[a] = sec[p[a]]
  BY <1>5
<1>8. \A x \in DOMAIN R : p[x] \in DOMAIN sec /\ First(sec, p[x]) /\ R[x] = Shown(sec[p[x]], zone) BY <1>2, <1>3, <1>4, <1>7
<1>9. \A k \in DOMAIN sec : First(sec, k) => \E x \in DOMAIN R : R[x] = Shown(sec[k], zone)
  <2> SUFFICES ASSUME NEW k \in DOMAIN sec, First(sec, k) PROVE \E x \in DOMAIN R : R[x] = Shown(sec[k], zone) OBVIOUS
  <2>1. PICK a \in DOMAIN rows : p[a] = k BY <1>2, <1>7
  <2> QED BY <1>4, <1>7, <2>1
<1>10. ASSUME NEW x \in DOMAIN R, NEW y \in DOMAIN R, R[x].name = R[y].name, R[x].legacy = R[y].legacy PROVE x = y
  <2>1. sec[p[x]].name = sec[p[y]].name /\ sec[p[x]].legacy = sec[p[y]].legacy BY <1>8, <1>10 DEF Shown
  <2>2. DOMAIN sec = 1..Len(sec) /\ DOMAIN rows = 1..Len(rows) /\ Len(sec) \in Nat /\ Len(rows) \in Nat BY <1>6, LenProperties
  <2>3. p[x] \in 1..Len(sec) /\ p[y] \in 1..Len(sec) /\ First(sec, p[x]) /\ First(sec, p[y]) BY <1>8, <2>2
  <2>4. ~(p[x] < p[y])
    <3> SUFFICES ASSUME p[x] < p[y] PROVE FALSE OBVIOUS
    <3>1. p[x] \in 1..p[y] - 1 BY <2>2, <2>3
    <3> QED BY <2>1, <2>3, <3>1 DEF First
  <2>5. ~(p[y] < p[x])
    <3> SUFFICES ASSUME p[y] < p[x] PROVE FALSE OBVIOUS
    <3>1. p[y] \in 1..p[x] - 1 BY <2>2, <2>3
    <3> QED BY <2>1, <2>3, <3>1 DEF First
  <2>6. x \in Nat /\ y \in Nat /\ x \in DOMAIN rows /\ y \in DOMAIN rows BY <1>4, <2>2
  <2>7. ~(x < y) /\ ~(y < x) BY <1>7, <2>4, <2>5, <2>6
  <2> QED BY <2>6, <2>7
<1>11. Scanned(R, sec, zone) BY <1>8, <1>9, <1>10 DEF Scanned
<1> QED BY <1>1, <1>11 DEF zone

\* A register shows every name of its section.
LEMMA NamesOf ==
  ASSUME NEW sec \in Seq(Line), NEW R, NEW zone, Scanned(R, sec, zone)
  PROVE  {R[x].name : x \in DOMAIN R} = Named(sec)
<1>1. ASSUME NEW x \in DOMAIN R PROVE R[x].name \in Named(sec)
  <2>1. PICK k \in DOMAIN sec : First(sec, k) /\ R[x] = Shown(sec[k], zone) BY DEF Scanned
  <2>2. sec[k] \in Range(sec) /\ IsRow(sec[k]) /\ R[x].name = sec[k].name BY <2>1 DEF First, Shown, Range
  <2> QED BY <2>2 DEF Named
<1>2. ASSUME NEW n \in Named(sec) PROVE \E x \in DOMAIN R : R[x].name = n
  <2>1. PICK k \in DOMAIN sec : IsRow(sec[k]) /\ sec[k].name = n BY DEF Named, Range
  <2>2. PICK h \in DOMAIN sec : First(sec, h) /\ sec[h].name = n BY <2>1, FirstRow
  <2>3. PICK x \in DOMAIN R : R[x] = Shown(sec[h], zone) BY <2>2 DEF Scanned
  <2> QED BY <2>2, <2>3 DEF Shown
<1> QED BY <1>1, <1>2

\* The zone starts at the first heading.
LEMMA ZoneIs ==
  ASSUME NEW sec \in Seq(Line), NEW base \in Nat, NEW ext \in Nat
  PROVE  /\ \A l \in Zone(sec, base, ext) : \E i, m \in DOMAIN sec :
              /\ i < m /\ l = sec[m] /\ sec[i] = Sub(base)
              /\ \A k \in Nat : 0 < k /\ k < i => sec[k] # Sub(base)
              /\ \A k \in Nat : i < k /\ k <= m => sec[k] # Sub(ext)
         /\ \A m \in DOMAIN sec : 1 < m /\ sec[1] = Sub(base) /\ (\A k \in Nat : 1 < k /\ k <= m => sec[k] # Sub(ext))
              => sec[m] \in Zone(sec, base, ext)
<1> DEFINE i == Find(sec, 1, {Sub(base)})
           j == Find(sec, i + 1, {Sub(ext)})
<1>1. Len(sec) \in Nat /\ DOMAIN sec = 1..Len(sec) BY LenProperties
<1>2. i \in 1..(Len(sec) + 1) /\ (i = Len(sec) + 1 \/ sec[i] = Sub(base)) /\ \A k \in 1..(i - 1) : sec[k] # Sub(base) BY FindIs
<1>3. i + 1 \in Nat \ {0} BY <1>1, <1>2
<1>4. j \in 1..(Len(sec) + 1) /\ (j = Len(sec) + 1 \/ sec[j] = Sub(ext)) /\ (j = Len(sec) + 1 \/ i + 1 <= j) /\ \A k \in i + 1..(j - 1) : sec[k] # Sub(ext)
  <2> HIDE DEF i
  <2> QED BY <1>3, FindIs
<1>5. Zone(sec, base, ext) = {sec[k] : k \in i + 1..j - 1} BY DEF Zone
<1> HIDE DEF i, j
<1>6. ASSUME NEW l \in Zone(sec, base, ext)
      PROVE  \E x, m \in DOMAIN sec :
              /\ x < m /\ l = sec[m] /\ sec[x] = Sub(base)
              /\ \A k \in Nat : 0 < k /\ k < x => sec[k] # Sub(base)
              /\ \A k \in Nat : x < k /\ k <= m => sec[k] # Sub(ext)
  <2>1. PICK m \in i + 1..j - 1 : l = sec[m] BY <1>5
  <2>2. m \in DOMAIN sec /\ i \in DOMAIN sec /\ i < m /\ m \in Nat BY <1>1, <1>2, <1>4
  <2>3. sec[i] = Sub(base) BY <1>1, <1>2, <2>2
  <2>4. \A k \in Nat : 0 < k /\ k < i => sec[k] # Sub(base) BY <1>1, <1>2
  <2>5. \A k \in Nat : i < k /\ k <= m => sec[k] # Sub(ext) BY <1>1, <1>2, <1>4, <2>2
  <2> QED BY <2>1, <2>2, <2>3, <2>4, <2>5
<1>7. ASSUME NEW m \in DOMAIN sec, 1 < m, sec[1] = Sub(base), \A k \in Nat : 1 < k /\ k <= m => sec[k] # Sub(ext)
      PROVE  sec[m] \in Zone(sec, base, ext)
  <2>1. i = 1
    <3>1. ~(1 < i)
      <4> SUFFICES ASSUME 1 < i PROVE FALSE OBVIOUS
      <4>1. 1 \in 1..(i - 1) BY <1>1, <1>2
      <4> QED BY <1>2, <1>7, <4>1
    <3> QED BY <1>1, <1>2, <3>1
  <2>2. m < j
    <3> SUFFICES ASSUME ~(m < j) PROVE FALSE OBVIOUS
    <3>1. j \in Nat /\ j <= m /\ m \in Nat /\ m <= Len(sec) BY <1>1, <1>4
    <3>2. j # Len(sec) + 1 BY <1>1, <3>1
    <3>3. sec[j] = Sub(ext) /\ 1 < j BY <1>4, <2>1, <3>1, <3>2
    <3> QED BY <1>7, <3>1, <3>3
  <2>3. m \in i + 1..j - 1 BY <1>1, <1>4, <1>7, <2>1, <2>2
  <2> QED BY <1>5, <2>3
<1> QED BY <1>6, <1>7
\* Section 6 as restructure_errors leaves it, read by aggregate_docs.
Register(R, d, sec) ==
  /\ \A i, j \in DOMAIN R : R[i].name = R[j].name => i = j
  /\ {R[i].name : i \in DOMAIN R} = Named(sec)
  /\ \A c \in parse_taxonomy(d) :
       \E i \in DOMAIN R : R[i] = [name |-> c, legacy |-> FALSE, says |-> v1codes[c], v1 |-> TRUE]
  /\ Sub(62) \in Range(sec) => \A i \in DOMAIN R : R[i].v1 => R[i].says # Own

\* A section 6 rewritten is read back as the register asks.
LEMMA RegisterIs ==
  ASSUME NEW d, NEW sec \in Seq(Line), Introduced(sec), Reread(d, sec)
  PROVE  Register(Scan(sec, 61, 62), d, sec)
<1> DEFINE R == Scan(sec, 61, 62)
           zone == Zone(sec, 61, 62)
<1>1. Scanned(R, sec, zone) BY ScanIs
<1>2. Len(sec) \in Nat /\ DOMAIN sec = 1..Len(sec) BY LenProperties
<1>3. /\ \A l \in zone : \E i, m \in DOMAIN sec :
            /\ i < m /\ l = sec[m] /\ sec[i] = Sub(61)
            /\ \A k \in Nat : 0 < k /\ k < i => sec[k] # Sub(61)
            /\ \A k \in Nat : i < k /\ k <= m => sec[k] # Sub(62)
      /\ \A m \in DOMAIN sec : 1 < m /\ sec[1] = Sub(61) /\ (\A k \in Nat : 1 < k /\ k <= m => sec[k] # Sub(62))
            => sec[m] \in zone
  BY ZoneIs
<1> HIDE DEF R, zone
<1>4. {R[i].name : i \in DOMAIN R} = Named(sec) BY <1>1, NamesOf
<1>5. /\ \A x \in DOMAIN R : \E k \in DOMAIN sec : First(sec, k) /\ R[x] = Shown(sec[k], zone)
      /\ \A k \in DOMAIN sec : First(sec, k) => \E x \in DOMAIN R : R[x] = Shown(sec[k], zone)
      /\ \A x, y \in DOMAIN R : R[x].name = R[y].name /\ R[x].legacy = R[y].legacy => x = y
  BY <1>1 DEF Scanned
<1>6. \A a \in DOMAIN sec : IsRow(sec[a]) => sec[a].legacy = FALSE
  <2> TAKE a \in DOMAIN sec
  <2>1. sec[a] \in Line BY ElementOfSeq, <1>2
  <2> QED BY <2>1, RowLines DEF Reread
<1>7. ASSUME NEW i \in DOMAIN R, NEW j \in DOMAIN R, R[i].name = R[j].name PROVE i = j
  <2>1. PICK k \in DOMAIN sec : First(sec, k) /\ R[i] = Shown(sec[k], zone) BY <1>5
  <2>2. PICK h \in DOMAIN sec : First(sec, h) /\ R[j] = Shown(sec[h], zone) BY <1>5
  <2>3. IsRow(sec[k]) /\ IsRow(sec[h]) BY <2>1, <2>2 DEF First
  <2>4. R[i].legacy = FALSE /\ R[j].legacy = FALSE BY <1>6, <2>1, <2>2, <2>3 DEF Shown
  <2> QED BY <1>5, <1>7, <2>4
<1>8. ASSUME NEW c \in parse_taxonomy(d)
      PROVE  \E i \in DOMAIN R : R[i] = [name |-> c, legacy |-> FALSE, says |-> v1codes[c], v1 |-> TRUE]
  <2>1. /\ sec[1] = Sub(61)
        /\ \E p \in 2..Len(sec) : /\ sec[p] = Entry(c, FALSE, v1codes[c])
                                 /\ \A k \in 1..p - 1 : sec[k] # Sub(62) /\ ~(IsRow(sec[k]) /\ sec[k].name = c)
    BY DEF Reread
  <2>2. PICK p \in 2..Len(sec) : /\ sec[p] = Entry(c, FALSE, v1codes[c])
                                 /\ \A k \in 1..p - 1 : sec[k] # Sub(62) /\ ~(IsRow(sec[k]) /\ sec[k].name = c)
    BY <2>1
  <2>3. p \in DOMAIN sec /\ 1 < p /\ p \in Nat BY <1>2
  <2>4. IsRow(sec[p]) /\ sec[p].name = c /\ sec[p].legacy = FALSE /\ sec[p].says = v1codes[c] BY <2>2 DEF Entry, IsRow
  <2>5. First(sec, p) BY <2>2, <2>3, <2>4 DEF First
  <2>6. sec[p] \in zone
    <3>1. sec[p] # Sub(62) BY <2>4, RowLines
    <3>2. \A k \in Nat : 1 < k /\ k <= p => k = p \/ k \in 1..p - 1 BY <2>3
    <3>3. \A k \in Nat : 1 < k /\ k <= p => sec[k] # Sub(62) BY <2>2, <3>1, <3>2
    <3> QED BY <1>3, <2>1, <2>3, <3>3
  <2>7. PICK x \in DOMAIN R : R[x] = Shown(sec[p], zone) BY <1>5, <2>3, <2>5
  <2>8. R[x] = [name |-> c, legacy |-> FALSE, says |-> v1codes[c], v1 |-> TRUE] BY <2>4, <2>6, <2>7 DEF Shown
  <2> QED BY <2>8
<1>9. ASSUME Sub(62) \in Range(sec), NEW x \in DOMAIN R, R[x].v1, R[x].says = Own PROVE FALSE
  <2>1. PICK k \in DOMAIN sec : First(sec, k) /\ R[x] = Shown(sec[k], zone) BY <1>5
  <2>2. sec[k] \in zone /\ IsRow(sec[k]) /\ sec[k].says = Own 
    BY <1>9, <2>1, ShownIs DEF First
  <2>3. PICK i \in DOMAIN sec, m \in DOMAIN sec :
            /\ i < m /\ sec[k] = sec[m] /\ sec[i] = Sub(61)
            /\ \A h \in Nat : 0 < h /\ h < i => sec[h] # Sub(61)
            /\ \A h \in Nat : i < h /\ h <= m => sec[h] # Sub(62)
    BY <1>3, <2>2
  <2>4. IsRow(sec[m]) /\ sec[m].says = Own BY <2>2, <2>3
  <2>5. PICK q \in DOMAIN sec : sec[q] = Sub(62) BY <1>9 DEF Range
  <2>6. i \in Nat /\ m \in Nat /\ q \in Nat /\ 0 < i /\ 0 < m /\ 0 < q BY <1>2
  <2>7. \E b \in DOMAIN sec : b < m /\ sec[b] = Sub(62)
    <3>1. CASE q < m BY <2>5, <3>1
    <3>2. CASE m < q
      <4>1. sec[q] \in Marks BY <2>5 DEF Marks
      <4>2. PICK h \in 1..m - 1 : sec[h] \in Marks BY <2>4, <3>2, <4>1 DEF Introduced
      <4>3. h \in DOMAIN sec /\ h < m /\ h \in Nat BY <1>2, <2>6
      <4>4. CASE sec[h] = Sub(62) BY <4>3, <4>4
      <4>5. CASE sec[h] = Intro
        <5>1. PICK b \in 1..h - 1 : sec[b] = Sub(62) BY <4>3, <4>5 DEF Reread
        <5>2. b \in DOMAIN sec /\ b < m BY <1>2, <4>3
        <5> QED BY <5>1, <5>2
      <4> QED BY <4>2, <4>4, <4>5 DEF Marks
    <3>3. q # m BY <2>4, <2>5, RowLines
    <3> QED BY <2>6, <3>1, <3>2, <3>3
  <2>8. PICK b \in DOMAIN sec : b < m /\ sec[b] = Sub(62) BY <2>7
  <2>9. b \in Nat /\ 0 < b BY <1>2
  <2>10. ~(i < b) BY <2>3, <2>8, <2>9
  <2>11. b # i BY <2>3, <2>8 DEF Sub
  <2>12. b < i BY <2>6, <2>9, <2>10, <2>11
  <2>13. sec[b] \in Marks BY <2>8 DEF Marks
  <2>14. PICK h \in 1..b - 1 : sec[h] = Sub(61) BY <2>3, <2>12, <2>13 DEF Introduced
  <2>15. h \in Nat /\ 0 < h /\ h < i BY <2>6, <2>9, <2>12
  <2> QED BY <2>3, <2>14, <2>15
<1>10. Register(R, d, sec) BY <1>4, <1>7, <1>8, <1>9 DEF Register
<1> QED BY <1>10 DEF R

\* Section 4 as restructure_events leaves it, read by aggregate_docs.
LEMMA CatalogIs ==
  ASSUME NEW d, NEW sec \in Seq(Line), Rebased(d, sec), NEW e
  PROVE  (\E x \in DOMAIN Scan(sec, 41, 42) : Scan(sec, 41, 42)[x].name = e /\ Scan(sec, 41, 42)[x].v1) <=> e \in DOCS4[d].rows
<1> DEFINE R == Scan(sec, 41, 42)
           zone == Zone(sec, 41, 42)
           S == DOCS4[d].rows
<1>1. Scanned(R, sec, zone) BY ScanIs
<1>2. Len(sec) \in Nat /\ DOMAIN sec = 1..Len(sec) BY LenProperties
<1>3. /\ \A l \in zone : \E i, m \in DOMAIN sec :
            /\ i < m /\ l = sec[m] /\ sec[i] = Sub(41)
            /\ \A k \in Nat : 0 < k /\ k < i => sec[k] # Sub(41)
            /\ \A k \in Nat : i < k /\ k <= m => sec[k] # Sub(42)
      /\ \A m \in DOMAIN sec : 1 < m /\ sec[1] = Sub(41) /\ (\A k \in Nat : 1 < k /\ k <= m => sec[k] # Sub(42))
            => sec[m] \in zone
  BY ZoneIs
<1> HIDE DEF R, zone
<1>4. /\ \A x \in DOMAIN R : \E k \in DOMAIN sec : First(sec, k) /\ R[x] = Shown(sec[k], zone)
      /\ \A k \in DOMAIN sec : First(sec, k) => \E x \in DOMAIN R : R[x] = Shown(sec[k], zone)
  BY <1>1 DEF Scanned
<1>5. PICK m \in 2..Len(sec) :
        /\ sec[1] = Sub(41) /\ sec[m] = Sub(42)
        /\ \A k \in 2..m - 1 : IsRow(sec[k]) /\ ~sec[k].legacy /\ sec[k].name \in S
        /\ \A c \in S : \E k \in 2..m - 1 : sec[k].name = c
  BY DEF Rebased
<1> HIDE DEF S
<1>6. m \in Nat /\ 1 < m /\ m <= Len(sec) /\ 1 \in DOMAIN sec BY <1>2
<1>7. ASSUME e \in S PROVE \E x \in DOMAIN R : R[x].name = e /\ R[x].v1
  <2>1. PICK k \in 2..m - 1 : sec[k].name = e BY <1>5, <1>7
  <2>2. k \in DOMAIN sec /\ IsRow(sec[k]) /\ k \in Nat /\ k < m BY <1>2, <1>5, <1>6
  <2>3. PICK h \in DOMAIN sec : First(sec, h) /\ h <= k /\ sec[h].name = sec[k].name BY <2>2, FirstRow
  <2>4. h \in Nat /\ 0 < h BY <1>2
  <2>5. h # 1
    <3>1. IsRow(sec[h]) BY <2>3 DEF First
    <3> QED BY <1>5, <3>1, RowLines
  <2>6. \A n \in Nat : 1 < n /\ n <= h => n \in 2..m - 1 BY <1>6, <2>2, <2>3, <2>4
  <2>7. \A n \in Nat : 1 < n /\ n <= h => sec[n] # Sub(42)
    <3>1. \A n \in Nat : 1 < n /\ n <= h => IsRow(sec[n]) BY <1>5, <2>6
    <3> QED BY <3>1, RowLines
  <2>8. 1 < h BY <2>4, <2>5
  <2>9. sec[h] \in zone BY <1>3, <1>5, <2>7, <2>8
  <2>10. PICK x \in DOMAIN R : R[x] = Shown(sec[h], zone) BY <1>4, <2>3
  <2>11. R[x].name = e /\ R[x].v1 BY <2>1, <2>3, <2>9, <2>10, ShownIs
  <2> QED BY <2>11
<1>8. ASSUME NEW x \in DOMAIN R, R[x].name = e, R[x].v1 PROVE e \in S
  <2>1. PICK k \in DOMAIN sec : First(sec, k) /\ R[x] = Shown(sec[k], zone) BY <1>4
  <2>2. sec[k] \in zone /\ sec[k].name = e BY <1>8, <2>1, ShownIs
  <2>3. PICK i \in DOMAIN sec, n \in DOMAIN sec :
            /\ i < n /\ sec[k] = sec[n] /\ sec[i] = Sub(41)
            /\ \A h \in Nat : 0 < h /\ h < i => sec[h] # Sub(41)
            /\ \A h \in Nat : i < h /\ h <= n => sec[h] # Sub(42)
    BY <1>3, <2>2
  <2>4. i \in Nat /\ n \in Nat /\ 0 < i /\ 0 < n BY <1>2
  <2>5. ~(1 < i) BY <1>5, <2>3
  <2>6. i = 1 BY <2>4, <2>5
  <2>7. ~(m <= n) BY <1>5, <1>6, <2>3, <2>6
  <2>8. n \in 2..m - 1 BY <1>6, <2>3, <2>4, <2>6, <2>7
  <2>9. sec[n].name \in S BY <1>5, <2>8
  <2> QED BY <2>2, <2>3, <2>9
<1>9. (\E x \in DOMAIN R : R[x].name = e /\ R[x].v1) <=> e \in S BY <1>7, <1>8
<1> QED BY <1>9 DEF R, S

-----------------------------------------------------------------------------
(* One document under one script *)

\* What every document keeps, and what a script owes it.
Sound(t) == t \in Seq(Line) /\ Numbered(t) /\ NotedOnce(t) /\ Introduced(section(t, 6))

Kept(d, t, u) ==
  \A l \in {x \in Range(t) : IsRow(x) /\ x.says = Own} :
    \/ l \in Range(u) \/ [l EXCEPT !.legacy = FALSE] \in Range(u)
    \/ \E x \in Range(u) : IsRow(x) /\ x.name = l.name /\ x.says # Own
    \/ d \in DOMAIN DOCS4 /\ l.name \in DOCS4[d].drop

\* The body of a section has no headings of sections.
LEMMA BodyPlain ==
  ASSUME NEW t \in Seq(Line), Numbered(t), NEW n \in {4, 6, 7}
  PROVE  Plain(section(t, n))
<1>1. CASE \E i, j \in DOMAIN t : Stands(t, n, i, j)
  <2>1. PICK i \in DOMAIN t, j \in DOMAIN t : Stands(t, n, i, j) BY <1>1
  <2> DEFINE s == section(t, n)
  <2>2. s \in Seq(Line) /\ Len(s) = j - i - 1 /\ \A k \in 1..j - i - 1 : s[k] = t[i + k] /\ ~IsSec(t[i + k]) BY <2>1, BodyIs
  <2> HIDE DEF s
  <2>3. DOMAIN s = 1..j - i - 1 BY <2>2, LenProperties
  <2>4. Plain(s) BY <2>2, <2>3 DEF Plain
  <2> QED BY <2>4 DEF s
<1>2. CASE ~\E i, j \in DOMAIN t : Stands(t, n, i, j)
  <2>1. section(t, n) = <<>> BY <1>2, NoSection
  <2> QED BY <2>1 DEF Plain
<1> QED BY <1>1, <1>2

\* A document under restructure_errors.
LEMMA ErrorsDoc ==
  ASSUME CodesTyped, NEW d, NEW t, Sound(t)
  PROVE  LET u == Replaced(t, 6, 7, ErrorsSection(d, Between(t, 6, 7))) IN
         /\ Sound(u) /\ section(u, 4) = section(t, 4) /\ Kept(d, t, u)
         /\ section(u, 6) # <<>> => Reread(d, section(u, 6))
<1> DEFINE B == ErrorsSection(d, Between(t, 6, 7))
           u == Replaced(t, 6, 7, B)
           old == section(t, 6)
<1>1. t \in Seq(Line) /\ Numbered(t) /\ NotedOnce(t) /\ Introduced(old) BY DEF Sound
<1>2. Plain(old) BY <1>1, BodyPlain
<1> DEFINE N == ErrorsSection(d, old)
<1>3. Fits(N, old) /\ Introduced(N) /\ Reread(d, N) /\ Keeps(N, old)
  <2> HIDE DEF old
  <2> QED BY <1>1, <1>2, ErrorsBody
<1>4. ASSUME NEW i, NEW j, Stands(t, 6, i, j) PROVE Fits(B, old)
  <2>1. Between(t, 6, 6 + 1) = section(t, 6) BY <1>1, <1>4, StandsIs
  <2>2. B = N BY <2>1
  <2> QED BY <1>3, <2>2
<1>5. 6 + 1 = 7 OBVIOUS
<1> HIDE DEF B
<1>6. /\ Replaced(t, 6, 6 + 1, B) \in Seq(Line)
      /\ Numbered(Replaced(t, 6, 6 + 1, B)) /\ NotedOnce(Replaced(t, 6, 6 + 1, B))
      /\ \A q \in {4, 6, 7} \ {6} : section(Replaced(t, 6, 6 + 1, B), q) = section(t, q)
      /\ \/ Replaced(t, 6, 6 + 1, B) = t /\ section(t, 6) = <<>>
         \/ /\ section(Replaced(t, 6, 6 + 1, B), 6) = B /\ Fits(B, section(t, 6)) /\ Between(t, 6, 6 + 1) = section(t, 6)
            /\ Range(B) \subseteq Range(Replaced(t, 6, 6 + 1, B))
            /\ \A x \in DOMAIN t : t[x] \in Range(Replaced(t, 6, 6 + 1, B)) \/ t[x] \in Range(section(t, 6))
  BY <1>1, <1>4, Rewritten
<1>7. /\ u \in Seq(Line) /\ Numbered(u) /\ NotedOnce(u) /\ section(u, 4) = section(t, 4)
      /\ \/ u = t /\ old = <<>>
         \/ /\ section(u, 6) = B /\ Between(t, 6, 7) = old
            /\ Range(B) \subseteq Range(u) /\ \A x \in DOMAIN t : t[x] \in Range(u) \/ t[x] \in Range(old)
  BY <1>5, <1>6
<1> HIDE DEF u
<1>8. CASE u = t /\ old = <<>>
  <2>1. Kept(d, t, u) BY <1>8 DEF Kept
  <2> QED BY <1>1, <1>7, <1>8, <2>1 DEF Sound, u, B
<1>9. CASE /\ section(u, 6) = B /\ Between(t, 6, 7) = old
           /\ Range(B) \subseteq Range(u) /\ \A x \in DOMAIN t : t[x] \in Range(u) \/ t[x] \in Range(old)
  <2>1. B = N BY <1>9 DEF B
  <2> HIDE DEF N, old
  <2>2. Sound(u) /\ Reread(d, section(u, 6)) BY <1>3, <1>7, <1>9, <2>1 DEF Sound
  <2>3. Kept(d, t, u)
    <3> SUFFICES ASSUME NEW x \in DOMAIN t, IsRow(t[x]), t[x].says = Own
                 PROVE  \/ t[x] \in Range(u) \/ [t[x] EXCEPT !.legacy = FALSE] \in Range(u)
                        \/ \E y \in Range(u) : IsRow(y) /\ y.name = t[x].name /\ y.says # Own
      BY DEF Kept, Range
    <3>1. CASE t[x] \in Range(u) BY <3>1
    <3>2. CASE t[x] \in Range(old)
      <4>1. PICK k \in DOMAIN old : old[k] = t[x] BY <3>2 DEF Range
      <4>2. \/ [old[k] EXCEPT !.legacy = FALSE] \in Range(N)
            \/ \E y \in Range(N) : IsRow(y) /\ y.name = old[k].name /\ y.says # Own
        BY <1>3, <4>1 DEF Keeps
      <4>3. Range(N) \subseteq Range(u) BY <1>9, <2>1
      <4> QED BY <4>1, <4>2, <4>3
    <3> QED BY <1>9, <3>1, <3>2
  <2> QED BY <1>7, <2>2, <2>3 DEF u, B
<1> QED BY <1>7, <1>8, <1>9

\* A body that keeps the lines of the old one, in section 4 or 7.
Leaves(d, old, B) == \A k \in DOMAIN old : old[k] \in Range(B) \/ (d \in DOMAIN DOCS4 /\ old[k].name \in DOCS4[d].drop)

Became(d, t, u, n, B) ==
  /\ Sound(u) /\ (\A q \in {4, 6, 7} \ {n} : section(u, q) = section(t, q)) /\ Kept(d, t, u)
  /\ (u = t /\ section(t, n) = <<>>) \/ (section(u, n) = B /\ Between(t, n, n + 1) = section(t, n))

\* A document whose section 4 or 7 is rewritten.
LEMMA OtherDoc ==
  ASSUME NEW d, NEW t, Sound(t), NEW n \in {4, 7}, NEW B,
         \A i, j : Stands(t, n, i, j) => Fits(B, section(t, n)) /\ Between(t, n, n + 1) = section(t, n),
         Between(t, n, n + 1) = section(t, n) => Leaves(d, section(t, n), B)
  PROVE  Became(d, t, Replaced(t, n, n + 1, B), n, B)
<1> DEFINE u == Replaced(t, n, n + 1, B)
           old == section(t, n)
<1>1. t \in Seq(Line) /\ Numbered(t) /\ NotedOnce(t) /\ Introduced(section(t, 6)) /\ n \in {4, 6, 7} BY DEF Sound
<1>2. /\ u \in Seq(Line) /\ Numbered(u) /\ NotedOnce(u)
      /\ \A q \in {4, 6, 7} \ {n} : section(u, q) = section(t, q)
      /\ \/ u = t /\ old = <<>>
         \/ /\ section(u, n) = B /\ Between(t, n, n + 1) = old
            /\ Range(B) \subseteq Range(u) /\ \A x \in DOMAIN t : t[x] \in Range(u) \/ t[x] \in Range(old)
  BY <1>1, Rewritten
<1> HIDE DEF u
<1>3. section(u, 6) = section(t, 6) BY <1>2
<1>4. Sound(u) BY <1>1, <1>2, <1>3 DEF Sound
<1>5. ASSUME u = t, old = <<>> PROVE Kept(d, t, u)
  <2>1. Kept(d, t, u) BY <1>5 DEF Kept
  <2> QED BY <1>5, <2>1
<1>6. ASSUME section(u, n) = B, Between(t, n, n + 1) = old,
             Range(B) \subseteq Range(u), \A x \in DOMAIN t : t[x] \in Range(u) \/ t[x] \in Range(old)
      PROVE  Kept(d, t, u)
  <2>1. \A k \in DOMAIN old : old[k] \in Range(B) \/ (d \in DOMAIN DOCS4 /\ old[k].name \in DOCS4[d].drop) BY <1>6 DEF Leaves
  <2> HIDE DEF old
  <2>3. Kept(d, t, u)
    <3> SUFFICES ASSUME NEW x \in DOMAIN t, IsRow(t[x]), t[x].says = Own
                 PROVE  t[x] \in Range(u) \/ (d \in DOMAIN DOCS4 /\ t[x].name \in DOCS4[d].drop)
      BY DEF Kept, Range
    <3>1. CASE t[x] \in Range(old)
      <4>1. PICK k \in DOMAIN old : old[k] = t[x] BY <3>1 DEF Range
      <4> QED BY <1>6, <2>1, <4>1
    <3> QED BY <1>6, <3>1
  <2> QED BY <2>3
<1>7. Kept(d, t, u) BY <1>2, <1>5, <1>6
<1>8. ((u = t /\ section(t, n) = <<>>) \/ (section(u, n) = B /\ Between(t, n, n + 1) = section(t, n))) BY <1>2
<1>9. Became(d, t, u, n, B) BY <1>2, <1>4, <1>7, <1>8 DEF Became
<1> QED BY <1>9 DEF u

\* A document under restructure_events.
LEMMA EventsDoc ==
  ASSUME NEW d \in DOMAIN DOCS4, NEW t, Sound(t)
  PROVE  LET u == Replaced(t, 4, 5, EventsSection(d, Between(t, 4, 5))) IN
         /\ Sound(u) /\ section(u, 6) = section(t, 6) /\ Kept(d, t, u)
         /\ section(u, 4) # <<>> => Rebased(d, section(u, 4))
<1> DEFINE B == EventsSection(d, Between(t, 4, 5))
           old == section(t, 4)
           N == EventsSection(d, old)
<1>1. t \in Seq(Line) /\ Numbered(t) /\ 4 + 1 = 5 BY DEF Sound
<1>2. Plain(old) BY <1>1, BodyPlain
<1>3. Fits(N, old) /\ Rebased(d, N) /\ \A k \in DOMAIN old : old[k] \in Range(N) \/ (IsRow(old[k]) /\ old[k].name \in DOCS4[d].drop)
  <2> HIDE DEF old
  <2> QED BY <1>2, EventsBody
<1>4. ASSUME NEW i, NEW j, Stands(t, 4, i, j) PROVE Fits(B, section(t, 4)) /\ Between(t, 4, 4 + 1) = section(t, 4)
  <2>1. Between(t, 4, 4 + 1) = section(t, 4) BY <1>1, <1>4, StandsIs
  <2>2. B = N BY <1>1, <2>1
  <2> QED BY <1>3, <2>1, <2>2
<1>5. ASSUME Between(t, 4, 4 + 1) = old PROVE B = N BY <1>1, <1>5
<1> HIDE DEF B, N
<1>6. ASSUME Between(t, 4, 4 + 1) = section(t, 4)
      PROVE  Leaves(d, section(t, 4), B)
  BY <1>3, <1>5, <1>6 DEF Leaves
<1> DEFINE u == Replaced(t, 4, 4 + 1, B)
<1>7. Became(d, t, u, 4, B) BY <1>4, <1>6, OtherDoc
<1>8. u = Replaced(t, 4, 5, B) BY <1>1
<1> HIDE DEF u
<1>9. Sound(u) /\ section(u, 6) = section(t, 6) /\ Kept(d, t, u) BY <1>7 DEF Became
<1>10. section(u, 4) # <<>> => Rebased(d, section(u, 4)) BY <1>3, <1>5, <1>7 DEF Became
<1> QED BY <1>8, <1>9, <1>10 DEF B

\* A document with a contract under restructure_endpoints.
LEMMA EndpointsDoc ==
  ASSUME NEW d, NEW t, Sound(t)
  PROVE  LET u == Replaced(t, 7, 8, EndpointsSection(d, Between(t, 7, 8))) IN
         Sound(u) /\ section(u, 6) = section(t, 6) /\ section(u, 4) = section(t, 4) /\ Kept(d, t, u)
<1> DEFINE B == EndpointsSection(d, Between(t, 7, 8))
           old == section(t, 7)
           N == EndpointsSection(d, old)
<1>1. t \in Seq(Line) /\ Numbered(t) /\ 7 + 1 = 8 BY DEF Sound
<1>2. Plain(old) BY <1>1, BodyPlain
<1>3. Fits(N, old) /\ \A k \in DOMAIN old : old[k] \in Range(N)
  <2> HIDE DEF old
  <2>1. Fits(N, old) /\ Range(old) \subseteq Range(N) BY <1>2, EndpointsBody
  <2> HIDE DEF N
  <2> QED BY <2>1 DEF Range
<1>4. ASSUME NEW i, NEW j, Stands(t, 7, i, j) PROVE Fits(B, old) /\ Between(t, 7, 7 + 1) = old
  <2>1. Between(t, 7, 7 + 1) = section(t, 7) BY <1>1, <1>4, StandsIs
  <2>2. B = N BY <1>1, <2>1
  <2> QED BY <1>3, <2>1, <2>2
<1>5. ASSUME Between(t, 7, 7 + 1) = old PROVE B = N BY <1>1, <1>5
<1> HIDE DEF B, N
<1>6. ASSUME Between(t, 7, 7 + 1) = old
      PROVE  Leaves(d, old, B)
  BY <1>3, <1>5, <1>6 DEF Leaves
<1> DEFINE u == Replaced(t, 7, 7 + 1, B)
<1>7. Became(d, t, u, 7, B) BY <1>4, <1>6, OtherDoc
<1>8. u = Replaced(t, 7, 8, B) BY <1>1
<1> HIDE DEF u
<1>9. Sound(u) /\ section(u, 6) = section(t, 6) /\ section(u, 4) = section(t, 4) /\ Kept(d, t, u) BY <1>7 DEF Became
<1> QED BY <1>8, <1>9 DEF B

\* A document without one.
LEMMA NotedDoc ==
  ASSUME NEW d, NEW t, Sound(t)
  PROVE  /\ Sound(Noted(t)) /\ section(Noted(t), 6) = section(t, 6) /\ section(Noted(t), 4) = section(t, 4)
         /\ Kept(d, t, Noted(t))
<1>1. t \in Seq(Line) /\ Numbered(t) /\ NotedOnce(t) /\ Introduced(section(t, 6)) BY DEF Sound
<1> DEFINE u == Noted(t)
<1>2. /\ u \in Seq(Line) /\ Numbered(u) /\ NotedOnce(u)
      /\ \A q \in {4, 6} : section(u, q) = section(t, q)
      /\ Range(t) \subseteq Range(u)
  BY <1>1, NotedIs
<1> HIDE DEF u
<1>3. Kept(d, t, u) BY <1>2 DEF Kept
<1> QED BY <1>1, <1>2, <1>3 DEF Sound, u

\* A document to which an author adds a row.
LEMMA AppendDoc ==
  ASSUME NEW t, Sound(t), NEW n \in {4, 6, 7}, NEW x \in RowNames, NEW b \in BOOLEAN
  PROVE  Sound(Appended(t, n, Entry(x, b, Own)))
<1> DEFINE B == Append(Between(t, n, n + 1), Entry(x, b, Own))
           old == section(t, n)
           N == Append(old, Entry(x, b, Own))
           u == Replaced(t, n, n + 1, B)
<1>1. t \in Seq(Line) /\ Numbered(t) /\ NotedOnce(t) /\ Introduced(section(t, 6)) BY DEF Sound
<1>2. Plain(old) BY <1>1, BodyPlain
<1>3. Fits(N, old) /\ (Introduced(old) => Introduced(N))
  <2> HIDE DEF old
  <2> QED BY <1>2, AppendBody
<1>4. ASSUME NEW i, NEW j, Stands(t, n, i, j) PROVE Fits(B, old)
  <2>1. Between(t, n, n + 1) = section(t, n) BY <1>1, <1>4, StandsIs
  <2>2. B = N BY <2>1
  <2> QED BY <1>3, <2>2
<1>5. ASSUME Between(t, n, n + 1) = old PROVE B = N BY <1>5
<1> HIDE DEF B, N
<1>6. /\ u \in Seq(Line) /\ Numbered(u) /\ NotedOnce(u)
      /\ \A q \in {4, 6, 7} \ {n} : section(u, q) = section(t, q)
      /\ \/ u = t /\ section(t, n) = <<>>
         \/ section(u, n) = B /\ Between(t, n, n + 1) = section(t, n)
  BY <1>1, <1>4, Rewritten
<1>7. u = Appended(t, n, Entry(x, b, Own)) BY DEF Appended, B
<1> HIDE DEF u
<1>8. Introduced(section(u, 6))
  <2>1. CASE n # 6 BY <1>1, <1>6, <2>1
  <2>2. CASE n = 6 /\ u = t BY <1>1, <2>2
  <2>3. CASE n = 6 /\ section(u, n) = B /\ Between(t, n, n + 1) = section(t, n) BY <1>1, <1>3, <1>5, <2>3
  <2> QED BY <1>6, <2>1, <2>2, <2>3
<1> QED BY <1>6, <1>7, <1>8 DEF Sound

-----------------------------------------------------------------------------
(* The documents, whatever is run and edited *)

DocsShaped == DOMAIN text = Docs /\ (\A d \in Docs : Sound(text[d])) /\ CodesTyped /\ dedits \in Nat

ErrorsRead == "errors" \in done => \A d \in Docs : section(text[d], 6) # <<>> => Reread(d, section(text[d], 6))
EventsRead == "events" \in done => \A d \in DOMAIN DOCS4 : section(text[d], 4) # <<>> => Rebased(d, section(text[d], 4))
Gathered == "aggregate" \in done => doc30 = build_errors /\ doc31 = build_events

DocsInv == DocsShaped /\ ErrorsRead /\ EventsRead /\ Gathered

\* The authors' documents satisfy the invariant.
LEMMA DocsStart == DocsInit => DocsInv
<1> SUFFICES ASSUME DocsInit PROVE DocsInv OBVIOUS
<1>1. text = InitText /\ v1codes \in [ErrorCodes -> Editions \cup {NoRow}] /\ done = {} /\ dedits = 0 BY DEF DocsInit
<1>2. InitText \in [Docs -> Seq(Line)] /\ \A d \in Docs : Numbered(InitText[d]) /\ NotedOnce(InitText[d]) /\ Introduced(section(InitText[d], 6))
  BY ScriptsAssumption DEF Scripts
<1>3. DocsShaped BY <1>1, <1>2 DEF DocsShaped, CodesTyped, Sound
<1>4. ErrorsRead /\ EventsRead /\ Gathered BY <1>1 DEF ErrorsRead, EventsRead, Gathered
<1> QED BY <1>3, <1>4 DEF DocsInv

\* What a script does to the other registers of the model.
LEMMA ScriptIs ==
  ASSUME NEW name \in {"errors", "events", "endpoints"}, Script(name)
  PROVE  /\ v1codes' = v1codes /\ dedits' = dedits /\ "aggregate" \notin done'
         /\ \A o \in {"errors", "events", "endpoints"} : o \in done' => o = name \/ o \in done
BY DEF Script

\* restructure_errors keeps the invariant and the rows.
LEMMA ErrorsStep ==
  ASSUME DocsInv, restructure_errors
  PROVE  DocsInv' /\ \A d \in Docs : Kept(d, text[d], text'[d])
<1>1. Script("errors") /\ text' = [d \in Docs |-> Replaced(text[d], 6, 7, ErrorsSection(d, Between(text[d], 6, 7)))]
  BY DEF restructure_errors
<1>2. /\ v1codes' = v1codes /\ dedits' = dedits /\ "aggregate" \notin done'
      /\ "events" \in done' => "events" \in done
  BY <1>1, ScriptIs
<1>3. DOMAIN text = Docs /\ (\A d \in Docs : Sound(text[d])) /\ CodesTyped /\ dedits \in Nat BY DEF DocsInv, DocsShaped
<1>4. ASSUME NEW d \in Docs
      PROVE  /\ Sound(text'[d]) /\ section(text'[d], 4) = section(text[d], 4) /\ Kept(d, text[d], text'[d])
             /\ section(text'[d], 6) # <<>> => Reread(d, section(text'[d], 6))
  <2> DEFINE t == text[d]
  <2>1. Sound(t) BY <1>3
  <2>2. text'[d] = Replaced(t, 6, 7, ErrorsSection(d, Between(t, 6, 7))) BY <1>1
  <2> HIDE DEF t
  <2>3. LET u == Replaced(t, 6, 7, ErrorsSection(d, Between(t, 6, 7))) IN
         /\ Sound(u) /\ section(u, 4) = section(t, 4) /\ Kept(d, t, u)
         /\ section(u, 6) # <<>> => Reread(d, section(u, 6))
    BY <1>3, <2>1, ErrorsDoc
  <2> QED BY <2>2, <2>3 DEF t
<1>5. DocsShaped' BY <1>1, <1>2, <1>3, <1>4 DEF DocsShaped, CodesTyped
<1>6. ErrorsRead'
  <2> SUFFICES ASSUME NEW d \in Docs, section(text'[d], 6) # <<>> PROVE Reread(d, section(text[d], 6))' BY DEF ErrorsRead
  <2>1. Reread(d, section(text'[d], 6)) BY <1>4
  <2> QED BY <1>2, <2>1 DEF Reread, parse_taxonomy
<1>7. EventsRead'
  <2>1. DOMAIN DOCS4 \subseteq Docs BY ScriptsAssumption DEF Scripts
  <2> QED BY <1>2, <1>4, <2>1 DEF EventsRead, DocsInv
<1>8. Gathered' BY <1>2 DEF Gathered
<1> QED BY <1>4, <1>5, <1>6, <1>7, <1>8 DEF DocsInv

\* restructure_events keeps the invariant and the rows.
LEMMA EventsStep ==
  ASSUME DocsInv, restructure_events
  PROVE  DocsInv' /\ \A d \in Docs : Kept(d, text[d], text'[d])
<1>1. Script("events") /\ text' = [d \in Docs |-> IF d \in DOMAIN DOCS4
                                              THEN Replaced(text[d], 4, 5, EventsSection(d, Between(text[d], 4, 5))) ELSE text[d]]
  BY DEF restructure_events
<1>2. /\ v1codes' = v1codes /\ dedits' = dedits /\ "aggregate" \notin done'
      /\ "errors" \in done' => "errors" \in done
  BY <1>1, ScriptIs
<1>3. DOMAIN text = Docs /\ (\A d \in Docs : Sound(text[d])) /\ CodesTyped /\ dedits \in Nat BY DEF DocsInv, DocsShaped
<1>4. ASSUME NEW d \in Docs
      PROVE  /\ Sound(text'[d]) /\ section(text'[d], 6) = section(text[d], 6) /\ Kept(d, text[d], text'[d])
             /\ d \in DOMAIN DOCS4 /\ section(text'[d], 4) # <<>> => Rebased(d, section(text'[d], 4))
  <2> DEFINE t == text[d]
  <2>1. Sound(t) BY <1>3
  <2>2. CASE d \in DOMAIN DOCS4
    <3>1. text'[d] = Replaced(t, 4, 5, EventsSection(d, Between(t, 4, 5))) BY <1>1, <2>2
    <3> HIDE DEF t
    <3>2. LET u == Replaced(t, 4, 5, EventsSection(d, Between(t, 4, 5))) IN
           /\ Sound(u) /\ section(u, 6) = section(t, 6) /\ Kept(d, t, u)
           /\ section(u, 4) # <<>> => Rebased(d, section(u, 4))
      BY <2>1, <2>2, EventsDoc
    <3> QED BY <3>1, <3>2 DEF t
  <2>3. CASE d \notin DOMAIN DOCS4
    <3>1. text'[d] = t BY <1>1, <2>3
    <3>2. Kept(d, t, t) BY DEF Kept
    <3> QED BY <2>1, <2>3, <3>1, <3>2
  <2> QED BY <2>2, <2>3
<1>5. DocsShaped' BY <1>1, <1>2, <1>3, <1>4 DEF DocsShaped, CodesTyped
<1>6. ErrorsRead'
  <2> SUFFICES ASSUME "errors" \in done', NEW d \in Docs, section(text'[d], 6) # <<>> PROVE Reread(d, section(text[d], 6))' BY DEF ErrorsRead
  <2>1. section(text'[d], 6) = section(text[d], 6) BY <1>4
  <2>2. Reread(d, section(text[d], 6)) BY <1>2, <2>1 DEF ErrorsRead, DocsInv
  <2>3. Reread(d, section(text'[d], 6)) BY <2>1, <2>2
  <2> QED BY <1>2, <2>3 DEF Reread, parse_taxonomy
<1>7. EventsRead'
  <2>1. DOMAIN DOCS4 \subseteq Docs BY ScriptsAssumption DEF Scripts
  <2> QED BY <1>4, <2>1 DEF EventsRead
<1>8. Gathered' BY <1>2 DEF Gathered
<1> QED BY <1>4, <1>5, <1>6, <1>7, <1>8 DEF DocsInv

\* restructure_endpoints keeps the invariant and the rows.
LEMMA EndpointsStep ==
  ASSUME DocsInv, restructure_endpoints
  PROVE  DocsInv' /\ \A d \in Docs : Kept(d, text[d], text'[d])
<1>1. Script("endpoints") /\ text' = [d \in Docs |-> IF d \in ApiDocs THEN Replaced(text[d], 7, 8, EndpointsSection(d, Between(text[d], 7, 8)))
                                                 ELSE IF d \in NoteDocs THEN Noted(text[d]) ELSE text[d]]
  BY DEF restructure_endpoints
<1>2. /\ v1codes' = v1codes /\ dedits' = dedits /\ "aggregate" \notin done'
      /\ "errors" \in done' => "errors" \in done
      /\ "events" \in done' => "events" \in done
  BY <1>1, ScriptIs
<1>3. DOMAIN text = Docs /\ (\A d \in Docs : Sound(text[d])) /\ CodesTyped /\ dedits \in Nat BY DEF DocsInv, DocsShaped
<1>4. ASSUME NEW d \in Docs
      PROVE  /\ Sound(text'[d]) /\ section(text'[d], 6) = section(text[d], 6) /\ section(text'[d], 4) = section(text[d], 4)
             /\ Kept(d, text[d], text'[d])
  <2> DEFINE t == text[d]
  <2>1. Sound(t) BY <1>3
  <2>2. CASE d \in ApiDocs
    <3>1. text'[d] = Replaced(t, 7, 8, EndpointsSection(d, Between(t, 7, 8))) BY <1>1, <2>2
    <3> HIDE DEF t
    <3>2. LET u == Replaced(t, 7, 8, EndpointsSection(d, Between(t, 7, 8))) IN
            Sound(u) /\ section(u, 6) = section(t, 6) /\ section(u, 4) = section(t, 4) /\ Kept(d, t, u)
      BY <2>1, EndpointsDoc
    <3> QED BY <3>1, <3>2 DEF t
  <2>3. CASE d \notin ApiDocs /\ d \in NoteDocs
    <3>1. text'[d] = Noted(t) BY <1>1, <2>3
    <3> HIDE DEF t
    <3>2. /\ Sound(Noted(t)) /\ section(Noted(t), 6) = section(t, 6) /\ section(Noted(t), 4) = section(t, 4)
          /\ Kept(d, t, Noted(t))
      BY <2>1, NotedDoc
    <3> QED BY <3>1, <3>2 DEF t
  <2>4. CASE d \notin ApiDocs /\ d \notin NoteDocs
    <3>1. text'[d] = t BY <1>1, <2>4
    <3>2. Kept(d, t, t) BY DEF Kept
    <3> QED BY <2>1, <3>1, <3>2
  <2> QED BY <2>2, <2>3, <2>4
<1>5. DocsShaped' BY <1>1, <1>2, <1>3, <1>4 DEF DocsShaped, CodesTyped
<1>6. ErrorsRead'
  <2> SUFFICES ASSUME "errors" \in done', NEW d \in Docs, section(text'[d], 6) # <<>> PROVE Reread(d, section(text[d], 6))' BY DEF ErrorsRead
  <2>1. section(text'[d], 6) = section(text[d], 6) BY <1>4
  <2>2. Reread(d, section(text[d], 6)) BY <1>2, <2>1 DEF ErrorsRead, DocsInv
  <2>3. Reread(d, section(text'[d], 6)) BY <2>1, <2>2
  <2> QED BY <1>2, <2>3 DEF Reread, parse_taxonomy
<1>7. EventsRead'
  <2>1. DOMAIN DOCS4 \subseteq Docs BY ScriptsAssumption DEF Scripts
  <2> QED BY <1>2, <1>4, <2>1 DEF EventsRead, DocsInv
<1>8. Gathered' BY <1>2 DEF Gathered
<1> QED BY <1>4, <1>5, <1>6, <1>7, <1>8 DEF DocsInv

\* aggregate_docs rewrites docs/30 and docs/31 alone; so does a stuttering step.
LEMMA AggregateStep ==
  ASSUME DocsInv, aggregate_docs \/ UNCHANGED docVars
  PROVE  DocsInv' /\ \A d \in Docs : Kept(d, text[d], text'[d])
<1>1. text' = text /\ v1codes' = v1codes /\ dedits' = dedits /\ ("errors" \in done' => "errors" \in done) /\ ("events" \in done' => "events" \in done)
  BY DEF aggregate_docs, docVars
<1>2. DocsShaped' BY <1>1 DEF DocsInv, DocsShaped, CodesTyped
<1>3. ErrorsRead'
  <2> SUFFICES ASSUME "errors" \in done', NEW d \in Docs, section(text[d], 6) # <<>> PROVE Reread(d, section(text[d], 6))'
    BY <1>1 DEF ErrorsRead
  <2>1. Reread(d, section(text[d], 6)) BY <1>1 DEF ErrorsRead, DocsInv
  <2>2. Reread(d, section(text'[d], 6)) BY <1>1, <2>1
  <2>3. v1codes' = v1codes BY <1>1
  <2> QED BY <2>2, <2>3 DEF Reread, parse_taxonomy
<1>4. EventsRead' BY <1>1 DEF EventsRead, DocsInv
<1>5. Gathered'
  <2>1. build_errors' = build_errors /\ build_events' = build_events BY <1>1 DEF build_errors, build_events
  <2>2. CASE aggregate_docs
    <3>1. doc30' = build_errors /\ doc31' = build_events BY <2>2 DEF aggregate_docs
    <3> HIDE DEF build_errors, build_events
    <3> QED BY <2>1, <3>1 DEF Gathered
  <2>3. CASE UNCHANGED docVars BY <2>1, <2>3 DEF Gathered, DocsInv, docVars
  <2> QED BY <2>2, <2>3
<1>6. \A d \in Docs : Kept(d, text[d], text'[d]) BY <1>1 DEF Kept
<1> QED BY <1>2, <1>3, <1>4, <1>5, <1>6 DEF DocsInv

\* After an edit nothing is said of the scripts.
LEMMA EditStep ==
  ASSUME DocsInv, EditV1Codes \/ EditModuleDoc
  PROVE  DocsInv' /\ dedits' # dedits
<1>1. done' = {} /\ dedits' = dedits + 1 BY DEF EditV1Codes, EditModuleDoc, DocsEdited
<1>2. DOMAIN text = Docs /\ (\A d \in Docs : Sound(text[d])) /\ CodesTyped /\ dedits \in Nat BY DEF DocsInv, DocsShaped
<1>3. ErrorsRead' /\ EventsRead' /\ Gathered' BY <1>1 DEF ErrorsRead, EventsRead, Gathered
<1>4. dedits' \in Nat /\ dedits' # dedits BY <1>1, <1>2
<1>5. DOMAIN text' = Docs /\ (\A d \in Docs : Sound(text'[d])) /\ CodesTyped'
  <2>1. CASE EditV1Codes
    <3>1. text' = text BY <2>1 DEF EditV1Codes
    <3>2. PICK c \in ErrorCodes, e \in Editions \cup {NoRow} : v1codes' = [v1codes EXCEPT ![c] = e] BY <2>1 DEF EditV1Codes
    <3>3. CodesTyped' BY <1>2, <3>2 DEF CodesTyped
    <3> QED BY <1>2, <3>1, <3>3
  <2>2. CASE EditModuleDoc
    <3>1. ErrorCodes \cup Events \cup Paths \subseteq RowNames BY ScriptsAssumption DEF Scripts
    <3>2. v1codes' = v1codes BY <2>2 DEF EditModuleDoc
    <3>3. PICK d \in Docs :
            \/ \E e \in Events : text' = [text EXCEPT ![d] = Appended(@, 4, Entry(e, FALSE, Own))]
            \/ \E c \in ErrorCodes, b \in BOOLEAN : text' = [text EXCEPT ![d] = Appended(@, 6, Entry(c, b, Own))]
            \/ \E p \in Paths : text' = [text EXCEPT ![d] = Appended(@, 7, Entry(p, FALSE, Own))]
      BY <2>2 DEF EditModuleDoc
    <3>4. PICK n \in {4, 6, 7}, x \in RowNames, b \in BOOLEAN : text' = [text EXCEPT ![d] = Appended(text[d], n, Entry(x, b, Own))]
      BY <3>1, <3>3
    <3>5. Sound(Appended(text[d], n, Entry(x, b, Own)))
      <4>1. Sound(text[d]) BY <1>2
      <4> QED BY <4>1, AppendDoc
    <3>6. CodesTyped' BY <1>2, <3>2 DEF CodesTyped
    <3> QED BY <1>2, <3>4, <3>5, <3>6
  <2> QED BY <2>1, <2>2
<1> QED BY <1>3, <1>4, <1>5 DEF DocsInv, DocsShaped

\* Every step keeps the invariant.
LEMMA DocsStay == DocsInv /\ [DocsNext]_docVars => DocsInv'
<1> SUFFICES ASSUME DocsInv, [DocsNext]_docVars PROVE DocsInv' OBVIOUS
<1>1. CASE restructure_errors BY <1>1, ErrorsStep
<1>2. CASE restructure_events BY <1>2, EventsStep
<1>3. CASE restructure_endpoints BY <1>3, EndpointsStep
<1>4. CASE aggregate_docs BY <1>4, AggregateStep
<1>5. CASE EditV1Codes \/ EditModuleDoc BY <1>5, EditStep
<1>6. CASE UNCHANGED docVars BY <1>6, AggregateStep
<1> QED BY <1>1, <1>2, <1>3, <1>4, <1>5, <1>6 DEF DocsNext

-----------------------------------------------------------------------------
(* The properties *)

\* Under the invariant docs/30 is exact.
LEMMA RegistryOf == DocsInv => RegistryExact
<1> SUFFICES ASSUME DocsInv, {"errors", "aggregate"} \subseteq done, NEW d \in Docs
             PROVE  LET rows == doc30[d]  sec6 == section(text[d], 6) IN
                    /\ \A i, j \in DOMAIN rows : rows[i].name = rows[j].name => i = j
                    /\ {rows[i].name : i \in DOMAIN rows} = Named(sec6)
                    /\ sec6 # <<>> => \A c \in parse_taxonomy(d) :
                         \E i \in DOMAIN rows : rows[i] = [name |-> c, legacy |-> FALSE, says |-> v1codes[c], v1 |-> TRUE]
                    /\ Sub(62) \in Range(sec6) => \A i \in DOMAIN rows : rows[i].v1 => rows[i].says # Own
  BY DEF RegistryExact
<1> DEFINE sec == section(text[d], 6)
           R == Scan(sec, 61, 62)
<1>1. doc30[d] = R BY DEF DocsInv, Gathered, build_errors
<1>2. Sound(text[d]) BY DEF DocsInv, DocsShaped
<1>3. Introduced(sec) /\ text[d] \in Seq(Line) /\ Numbered(text[d]) BY <1>2 DEF Sound
<1>4. Plain(sec) BY <1>3, BodyPlain
<1>5. sec # <<>> => Reread(d, sec) BY DEF DocsInv, ErrorsRead
<1>6. doc30[d] = Scan(sec, 61, 62) BY <1>1
<1> HIDE DEF R
<1>7. CASE sec # <<>>
  <2>1. Register(Scan(sec, 61, 62), d, sec)
    <3> HIDE DEF sec
    <3> QED BY <1>3, <1>4, <1>5, <1>7, RegisterIs DEF Plain
  <2>2. Register(doc30[d], d, sec) BY <1>6, <2>1
  <2> QED BY <2>2 DEF Register
<1>8. CASE sec = <<>>
  <2>1. Scanned(Scan(sec, 61, 62), sec, Zone(sec, 61, 62)) /\ sec \in Seq(Line)
    <3> HIDE DEF sec
    <3> QED BY <1>4, ScanIs DEF Plain
  <2>2. DOMAIN sec = {} BY <1>8
  <2>3. {doc30[d][i].name : i \in DOMAIN doc30[d]} = Named(sec)
    <3> HIDE DEF sec
    <3>1. {Scan(sec, 61, 62)[i].name : i \in DOMAIN Scan(sec, 61, 62)} = Named(sec) BY <2>1, NamesOf
    <3> QED BY <1>6, <3>1
  <2>4. DOMAIN doc30[d] = {}
    <3> HIDE DEF sec
    <3> QED BY <1>6, <2>1, <2>2 DEF Scanned
  <2> QED BY <1>8, <2>3, <2>4
<1> QED BY <1>7, <1>8

\* Under the invariant docs/31 is exact.
LEMMA CatalogOf == DocsInv => CatalogExact
<1> DEFINE sec4(d) == section(text[d], 4)
           rows == [d \in Docs |-> Scan(sec4(d), 41, 42)]
           named(d) == {rows[d][i].name : i \in DOMAIN rows[d]}
           K(e) == {i \in DOMAIN MODULES : e \in named(MODULES[i])}
           last(e) == MODULES[Max(K(e))]
<1> SUFFICES ASSUME DocsInv, {"events", "aggregate"} \subseteq done
             PROVE  /\ DOMAIN doc31 = UNION {Named(sec4(d)) : d \in Docs}
                    /\ \A d \in DOMAIN DOCS4 : \A e \in Named(sec4(d)) :
                         (\A o \in Docs \ {d} : e \notin Named(sec4(o))) => doc31[e] = [doc |-> d, v1 |-> e \in DOCS4[d].rows]
  BY DEF CatalogExact
<1>1. doc31 = [e \in UNION {named(d) : d \in Docs} |->
                 [doc |-> last(e), v1 |-> \E i \in DOMAIN rows[last(e)] : rows[last(e)][i].name = e /\ rows[last(e)][i].v1]]
  BY DEF DocsInv, Gathered, build_events
<1>2. ASSUME NEW d \in Docs PROVE Plain(sec4(d))
  <2>1. text[d] \in Seq(Line) /\ Numbered(text[d]) BY DEF DocsInv, DocsShaped, Sound
  <2> QED BY <2>1, BodyPlain
<1>3. ASSUME NEW d \in Docs PROVE named(d) = Named(sec4(d))
  <2>1. rows[d] = Scan(sec4(d), 41, 42) OBVIOUS
  <2>2. sec4(d) \in Seq(Line) BY <1>2 DEF Plain
  <2> HIDE DEF sec4, rows
  <2>3. Scanned(Scan(sec4(d), 41, 42), sec4(d), Zone(sec4(d), 41, 42)) BY <2>2, ScanIs
  <2>4. {Scan(sec4(d), 41, 42)[i].name : i \in DOMAIN Scan(sec4(d), 41, 42)} = Named(sec4(d)) BY <2>2, <2>3, NamesOf
  <2> QED BY <2>1, <2>4
<1>4. ASSUME NEW d \in DOMAIN DOCS4, NEW e \in Named(sec4(d)), \A o \in Docs \ {d} : e \notin Named(sec4(o))
      PROVE  last(e) = d
  <2>1. d \in Docs /\ MODULES \in Seq(Docs) BY ScriptsAssumption DEF Scripts
  <2> HIDE DEF sec4, named
  <2>2. DOMAIN MODULES = 1..Len(MODULES) /\ Len(MODULES) \in Nat /\ \A i \in DOMAIN MODULES : MODULES[i] \in Docs BY <2>1, LenProperties, ElementOfSeq
  <2>3. \A i \in K(e) : MODULES[i] = d
    <3> SUFFICES ASSUME NEW i \in DOMAIN MODULES, e \in named(MODULES[i]) PROVE MODULES[i] = d OBVIOUS
    <3>1. e \in Named(sec4(MODULES[i])) BY <1>3, <2>2
    <3> QED BY <1>4, <2>2, <3>1
  <2>4. K(e) # {}
    <3>1. PICK i \in DOMAIN MODULES : MODULES[i] = d BY <2>1 DEF Docs, Range
    <3>2. e \in named(d) BY <1>3, <2>1
    <3>3. i \in K(e) BY <3>1, <3>2
    <3> QED BY <3>3
  <2>5. K(e) \in SUBSET Nat /\ IsFiniteSet(K(e))
    <3>1. IsFiniteSet(1..Len(MODULES)) BY <2>2, FS_Interval
    <3>2. K(e) \in SUBSET (1..Len(MODULES)) BY <2>2
    <3> HIDE DEF K
    <3>3. K(e) \in SUBSET Nat BY <2>2, <3>2
    <3> QED BY <3>1, <3>2, <3>3, FS_Subset
  <2> HIDE DEF K
  <2>6. \E x \in K(e) : \A y \in K(e) : x >= y
    <3>1. PICK x \in K(e) : \A y \in K(e) : y <= x BY <2>4, <2>5, Extremes
    <3>2. \A y \in K(e) : x >= y BY <2>5, <3>1
    <3> QED BY <3>2
  <2>7. Max(K(e)) \in K(e) BY <2>6 DEF Max
  <2> QED BY <2>3, <2>7
<1>5. ASSUME NEW d \in DOMAIN DOCS4, NEW e \in Named(sec4(d)), last(e) = d
      PROVE  doc31[e] = [doc |-> d, v1 |-> e \in DOCS4[d].rows]
  <2>1. d \in Docs BY ScriptsAssumption DEF Scripts
  <2>2. e \in UNION {named(x) : x \in Docs}
    <3> HIDE DEF named, sec4
    <3> QED BY <1>3, <2>1
  <2>3. doc31[e] = [doc |-> d, v1 |-> \E i \in DOMAIN rows[d] : rows[d][i].name = e /\ rows[d][i].v1]
    <3> HIDE DEF named, rows, last
    <3> QED BY <1>1, <1>5, <2>2
  <2>4. sec4(d) # <<>>
    <3>1. ASSUME sec4(d) = <<>> PROVE FALSE
      <4>1. PICK k \in DOMAIN sec4(d) : IsRow(sec4(d)[k]) BY DEF Named, Range
      <4> QED BY <3>1, <4>1
    <3> QED BY <3>1
  <2>5. Rebased(d, sec4(d)) BY <2>4 DEF DocsInv, EventsRead
  <2>6. rows[d] = Scan(sec4(d), 41, 42) BY <2>1
  <2>7. sec4(d) \in Seq(Line) BY <1>2, <2>1 DEF Plain
  <2> HIDE DEF sec4, rows
  <2> DEFINE P == \E i \in DOMAIN rows[d] : rows[d][i].name = e /\ rows[d][i].v1
             Q == e \in DOCS4[d].rows
  <2>8. P <=> Q BY <2>5, <2>6, <2>7, CatalogIs
  <2>9. P \in BOOLEAN /\ Q \in BOOLEAN OBVIOUS
  <2>10. doc31[e] = [doc |-> d, v1 |-> P] BY <2>3
  <2> HIDE DEF P, Q
  <2>11. P = Q BY <2>8, <2>9
  <2>12. doc31[e] = [doc |-> d, v1 |-> Q] BY <2>10, <2>11
  <2> QED BY <2>12 DEF Q
<1>6. DOMAIN doc31 = UNION {Named(sec4(d)) : d \in Docs}
  <2>1. DOMAIN doc31 = UNION {named(d) : d \in Docs} BY <1>1
  <2> HIDE DEF named, sec4
  <2> QED BY <1>3, <2>1
<1> HIDE DEF last, sec4
<1> QED BY <1>4, <1>5, <1>6

\* docs/30 and docs/31 say what the documents and the taxonomy say.
THEOREM AggregatesCorrect == DocsSpec => []AggregatesExact
<1>1. DocsInv => AggregatesExact BY RegistryOf, CatalogOf DEF AggregatesExact
<1> QED BY DocsStart, DocsStay, <1>1, PTL DEF DocsSpec

\* A restructuring loses no author's row, and a document has one scope note.
THEOREM RestructuringKeeps == DocsSpec => RestructureKeeps
<1> DEFINE Step == dedits' = dedits => \A d \in Docs :
       /\ \A l \in {x \in Range(text[d]) : IsRow(x) /\ x.says = Own} :
            \/ l \in Range(text'[d]) \/ [l EXCEPT !.legacy = FALSE] \in Range(text'[d])
            \/ \E x \in Range(text'[d]) : IsRow(x) /\ x.name = l.name /\ x.says # Own
            \/ d \in DOMAIN DOCS4 /\ l.name \in DOCS4[d].drop
       /\ Cardinality({i \in DOMAIN text'[d] : text'[d][i] = Note}) <= 1
<1>1. ASSUME DocsInv, [DocsNext]_docVars PROVE Step
  <2> SUFFICES ASSUME dedits' = dedits, NEW d \in Docs
               PROVE  Kept(d, text[d], text'[d]) /\ Cardinality({i \in DOMAIN text'[d] : text'[d][i] = Note}) <= 1
    BY DEF Kept
  <2>1. Kept(d, text[d], text'[d])
    <3>1. CASE restructure_errors BY <1>1, <3>1, ErrorsStep
    <3>2. CASE restructure_events BY <1>1, <3>2, EventsStep
    <3>3. CASE restructure_endpoints BY <1>1, <3>3, EndpointsStep
    <3>4. CASE aggregate_docs BY <1>1, <3>4, AggregateStep
    <3>5. CASE EditV1Codes \/ EditModuleDoc BY <1>1, <3>5, EditStep
    <3>6. CASE UNCHANGED docVars BY <1>1, <3>6, AggregateStep
    <3> QED BY <1>1, <3>1, <3>2, <3>3, <3>4, <3>5, <3>6 DEF DocsNext
  <2>2. NotedOnce(text'[d])
    <3>1. DocsInv' BY <1>1, DocsStay
    <3> QED BY <3>1 DEF DocsInv, DocsShaped, Sound
  <2> DEFINE M == {i \in DOMAIN text'[d] : text'[d][i] = Note}
  <2>3. \A i, j \in M : i = j BY <2>2 DEF NotedOnce
  <2>4. Cardinality(M) <= 1
    <3> HIDE DEF M
    <3>1. CASE M = {} BY <3>1, FS_EmptySet
    <3>2. CASE M # {}
      <4>1. PICK i \in M : TRUE BY <3>2
      <4>2. M = {i} BY <2>3, <4>1
      <4>3. Cardinality({i}) = 1 BY FS_Singleton
      <4> QED BY <4>2, <4>3
    <3> QED BY <3>1, <3>2
  <2> QED BY <2>1, <2>4
<1>2. DocsInv /\ [DocsNext]_docVars => [Step]_docVars BY <1>1
<1> QED BY DocsStart, DocsStay, <1>2, PTL DEF DocsSpec, RestructureKeeps

=============================================================================
