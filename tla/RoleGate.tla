------------------------------ MODULE RoleGate ------------------------------
(***************************************************************************)
(* scripts/verify_roles.py, the gate over roles.yaml, the key registry, the  *)
(* contracts' routes, the block in docs/02 and matrix.md, and the casbin     *)
(* table its seed is loaded into; with the people who edit those files.     *)
(*                                                                          *)
(* The catalog's roles and their realms do not change; Roles also has names  *)
(* outside the catalog, which inherits lists and bindings may mention.  A    *)
(* binding is [scope, roles]; a document is what it shows, not its layout.  *)
(***************************************************************************)
EXTENDS RoleClosure

CONSTANTS
  Tenant,      \* the catalog's roles of the tenant realm
  Platform,    \* and those of the platform realm
  Keys,
  Routes,      \* V1 operations of the contracts
  MaxEdits,
  None

ASSUME RealmsAssumption == Tenant \cup Platform \subseteq Roles /\ Tenant \cap Platform = {}
ASSUME NoneAssumption == None \notin Keys /\ MaxEdits \in Nat

Catalog == Tenant \cup Platform
Missing == "missing"                  \* a binding without a scope
Scopes  == {"all", "own", "platform", Missing}
Markers == {"self", "none"}
ASSUME MarkersAssumption == Keys \cap Markers = {} /\ None \notin Markers

VARIABLES
  up,         \* roles.yaml: role_catalog, the inherits lists
  bindings,   \* roles.yaml: key -> None or [scope, roles]
  provisional, \* roles.yaml: the keys of provisional_bindings
  registry,   \* registry.md: the keys
  routes,     \* contracts: route -> x-permission, or None
  doc,        \* docs/02: None without the block, or role -> keys it shows
  matrix,     \* matrix.md: None, or its cells and its route map
  casbin,     \* casbin_rule: the p rows loaded so far
  ok,         \* history: the last run returned 0 and nothing was edited since
  saw,        \* history: that run could read the contracts (PyYAML)
  edits

gateVars == <<up, bindings, provisional, registry, routes, doc, matrix, casbin, ok, saw, edits>>

-----------------------------------------------------------------------------
(* Views *)

Bound == {k \in Keys : bindings[k] # None}
Holders(k) == IF bindings[k] = None THEN {} ELSE bindings[k].roles
Listed(r) == {k \in Bound : r \in bindings[k].roles}

\* Own keys and those of every ancestor.
effective(r) == Listed(r) \cup {k \in Bound : ancestors(r, up) \cap bindings[k].roles # {}}


\* The block of docs/02: a role's effective keys.
render == [r \in Catalog |-> effective(r)]

\* The seed and the matrix's scope column take a missing scope for `all'.
Scope(k) == IF bindings[k].scope = Missing THEN "all" ELSE bindings[k].scope

\* matrix.md: a row per bound key, with `?' for the marks of a missing scope and a
\* dash for the module of an unregistered key; a row per route the contracts gave.
render_matrix(v1_routes) ==
  [cells |-> [k \in Bound |-> [scope |-> Scope(k), mark |-> bindings[k].scope, module |-> k \in registry,
                               roles |-> bindings[k].roles \cap Catalog]],
   perm  |-> [t \in v1_routes |-> routes[t]],
   who   |-> [t \in v1_routes |-> IF routes[t] \in Markers THEN {} ELSE Holders(routes[t]) \cap Catalog]]

-----------------------------------------------------------------------------
(* Checks of main *)

KeysKnown  == Bound \cup provisional \subseteq registry
RolesKnown == \A k \in Bound : bindings[k].roles \subseteq Catalog
\* Mutant: platform roles may hold tenant keys.
RealmsHoldPlatform == \A k \in Bound : bindings[k].scope = "platform" => bindings[k].roles \cap Tenant = {}

\* A missing scope is not asked about.
RealmsHold == \A k \in Bound :
                /\ bindings[k].scope = "platform" => bindings[k].roles \cap Tenant = {}
                /\ bindings[k].scope \in {"all", "own"} => bindings[k].roles \cap Platform = {}

\* 3: every role that inherits from a holder is a holder.
Closed     == \A k \in Bound : \A r \in bindings[k].roles : descendants(r, up) \subseteq bindings[k].roles

\* 4: listed = effective.
Reproduced == \A r \in Catalog : Listed(r) = effective(r)

\* check_contracts: without PyYAML nothing is looked at; a route without a
\* permission is an error and not listed.
DeclaredRoutes(yaml) == IF yaml THEN {t \in Routes : routes[t] # None} ELSE {}
check_contracts(yaml) == yaml => \A t \in Routes : routes[t] # None /\ (routes[t] \notin Markers => routes[t] \in Bound)

\* Mutant: any block will do.
check_docPresent(d) == d # None

check_doc(d) == d = render

-----------------------------------------------------------------------------
(* Runs *)

\* What every run checks, given the block of docs/02.
Consistent(d, yaml) ==
  KeysKnown /\ RolesKnown /\ RealmsHold /\ Closed /\ Reproduced /\ check_doc(d) /\ check_contracts(yaml)

\* The p rows that --seed prints.
SeedRows == {w \in Roles \X Keys \X Scopes : w[2] \in Bound /\ w[1] \in bindings[w[2]].roles /\ w[3] = Scope(w[2])}

\* Mutant: the matrix is not compared.
mainNoMatrix(writeDoc, writeMatrix, seed, yaml) ==
  LET d == IF writeDoc THEN render ELSE doc
      errors == ~Consistent(d, yaml)
  IN
  /\ doc' = d
  /\ matrix' = IF writeMatrix THEN render_matrix(DeclaredRoutes(yaml)) ELSE matrix
  /\ ok' = ~errors /\ saw' = yaml
  /\ casbin' = IF seed /\ ~errors THEN casbin \cup SeedRows ELSE casbin
  /\ UNCHANGED <<up, bindings, provisional, registry, routes, edits>>

\* Mutant: the seed is printed whatever the checks found.
mainSeeds(writeDoc, writeMatrix, seed, yaml) ==
  /\ doc' = (IF writeDoc THEN render ELSE doc) /\ saw' = yaml /\ ok' = FALSE
  /\ casbin' = IF seed THEN casbin \cup SeedRows ELSE casbin
  /\ UNCHANGED <<up, bindings, provisional, registry, routes, matrix, edits>>

\* main: --write-doc comes first, then the checks, then --write-matrix or the
\* comparison; --seed prints only when there was no error, and its INSERTs are
\* loaded ON CONFLICT DO NOTHING.
main(writeDoc, writeMatrix, seed, yaml) ==
  LET d == IF writeDoc THEN render ELSE doc
      want == render_matrix(DeclaredRoutes(yaml))
      errors == ~(Consistent(d, yaml) /\ (writeMatrix \/ matrix = want))
  IN
  /\ doc' = d
  /\ matrix' = IF writeMatrix THEN want ELSE matrix
  /\ ok' = ~errors /\ saw' = yaml
  /\ casbin' = IF seed /\ ~errors THEN casbin \cup SeedRows ELSE casbin
  /\ UNCHANGED <<up, bindings, provisional, registry, routes, edits>>

Run == \E writeDoc, writeMatrix, seed, yaml \in BOOLEAN : main(writeDoc, writeMatrix, seed, yaml)

Edited == edits < MaxEdits /\ edits' = edits + 1 /\ ok' = FALSE /\ UNCHANGED <<casbin, saw>>

\* One element of a set added or taken away.
Toggle(S, x) == IF x \in S THEN S \ {x} ELSE S \cup {x}

EditCatalog ==
  /\ Edited
  /\ \E r \in Catalog, p \in Roles : up' = [up EXCEPT ![r] = Toggle(@, p)]
  /\ UNCHANGED <<bindings, provisional, registry, routes, doc, matrix>>
EditBinding ==
  /\ Edited
  /\ \/ \E k \in Bound, r \in Roles : bindings' = [bindings EXCEPT ![k].roles = Toggle(@, r)]
     \/ \E k \in Bound, s \in Scopes : bindings' = [bindings EXCEPT ![k].scope = s]
     \/ \E k \in Keys \ Bound, s \in Scopes : bindings' = [bindings EXCEPT ![k] = [scope |-> s, roles |-> {}]]
     \/ \E k \in Bound : bindings' = [bindings EXCEPT ![k] = None]
  /\ UNCHANGED <<up, provisional, registry, routes, doc, matrix>>
EditKeys ==
  /\ Edited
  /\ \/ \E k \in Keys : registry' = Toggle(registry, k) /\ UNCHANGED provisional
     \/ \E k \in Keys : provisional' = Toggle(provisional, k) /\ UNCHANGED registry
  /\ UNCHANGED <<up, bindings, routes, doc, matrix>>
EditRoute ==
  /\ Edited /\ \E t \in Routes, p \in Keys \cup Markers \cup {None} : routes' = [routes EXCEPT ![t] = p]
  /\ UNCHANGED <<up, bindings, provisional, registry, doc, matrix>>
EditDoc ==
  /\ Edited
  /\ \/ doc # None /\ \E r \in Catalog, k \in Keys : doc' = [doc EXCEPT ![r] = Toggle(@, k)] /\ UNCHANGED matrix
     \/ doc' = None /\ UNCHANGED matrix
     \/ matrix' = None /\ UNCHANGED doc
  /\ UNCHANGED <<up, bindings, provisional, registry, routes>>

GateNext == Run \/ EditCatalog \/ EditBinding \/ EditKeys \/ EditRoute \/ EditDoc

Inherits == {u \in [Roles -> SUBSET Roles] : \A r \in Roles \ Catalog : u[r] = {}}
Binding  == {None} \cup [scope : Scopes, roles : SUBSET Roles]

\* A repository whose documents were generated from its sources.
GateInit ==
  /\ up \in Inherits /\ registry \in SUBSET Keys /\ provisional \in SUBSET Keys
  /\ bindings \in [Keys -> Binding]
  /\ routes \in [Routes -> Keys \cup Markers \cup {None}]
  /\ doc = render /\ matrix = render_matrix(DeclaredRoutes(TRUE)) /\ casbin = {}
  /\ ok = FALSE /\ saw = FALSE /\ edits = 0

GateSpec == GateInit /\ [][GateNext]_gateVars

-----------------------------------------------------------------------------
(* Properties *)

\* May r exercise k, by its own p row or, as the g rows let it, by the row of a role
\* above it?  So it is unless some set of roles holds r, holds with a role all it
\* inherits from, and has no holder of k.
May(r, k) ==
  \A S \in SUBSET Roles : r \in S /\ (\A q \in S : up[q] \subseteq S) => S \cap Holders(k) # {}

\* After a run that returned 0, a role can exercise a key, inherited rows
\* included, iff docs/02 shows the key for it and iff roles.yaml lists it: the rows
\* reproduce inheritance without resolving it (checks 3 and 4, check_doc).
PolicyExact ==
  ok => \A r \in Catalog, k \in Keys : May(r, k) = (k \in doc[r]) /\ May(r, k) = (r \in Holders(k))

\* After a run that returned 0, no role exercises, inherited rows included, a scoped
\* key of the other realm: realms are checked on listed roles only, and inheritance
\* across the realms is caught by the closure (AUTH-16).
RealmsApart ==
  ok => \A r \in Catalog, k \in Bound :
    May(r, k) /\ bindings[k].scope # Missing => (bindings[k].scope = "platform") = (r \in Platform)

\* After a run that returned 0 and could read the contracts, matrix.md names every
\* V1 route, and exactly the roles that may exercise its key (render_matrix,
\* check_contracts, gate 15).
MatrixCurrent ==
  ok /\ saw => /\ DOMAIN matrix.who = Routes
               /\ \A t \in Routes, r \in Catalog : r \in matrix.who[t] <=> routes[t] \in Keys /\ May(r, routes[t])

\* No row that --seed ever printed gives a platform key to a tenant role, or an own
\* key to a platform role, whatever roles.yaml said in between: the seed is printed
\* only by a run that found no error, and the rows stay in the table.
SeededRealms ==
  \A w \in casbin :
    /\ w[1] \in Catalog
    /\ w[3] = "platform" => w[1] \in Platform
    /\ w[3] = "own" => w[1] \in Tenant

\* Realms stay apart, in what roles may exercise after a run that returned 0 and in
\* every row that was ever seeded (main: checks 2 and 3, --seed; AUTH-16).
RealmsSeparate == RealmsApart /\ SeededRealms

=============================================================================
