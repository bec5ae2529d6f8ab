---------------------------- MODULE TenantStates ----------------------------
(***************************************************************************)
(* scripts/verify_tenant_states.py, the gate over state-capabilities.yaml,   *)
(* the tenants.status CHECK list and the table of docs/03, and the error     *)
(* taxonomy; with the people who edit those files.                          *)
(*                                                                          *)
(* A cell is [kind, code].  Keys that start with a dollar sign, and the notes *)
(* of a cell, are left out.                                                 *)
(***************************************************************************)
EXTENDS Naturals

CONSTANTS
  States,
  COLUMNS,      \* the capabilities of the table
  Others,       \* other keys a state may carry
  Codes,        \* error codes
  MaxTenantEdits,
  NoBlock       \* docs/03 without the block

NoCode == "no code"
ASSUME TenantAssumption == COLUMNS \cap Others = {} /\ NoCode \notin Codes /\ MaxTenantEdits \in Nat

VARIABLES
  states,     \* state-capabilities.yaml: the states it has, with their cells
  ddl,        \* docs/03: the CHECK list of tenants.status
  taxonomy,   \* taxonomy.md: the registered codes
  table,      \* docs/03: NoBlock, or the cells the block shows
  verdict,    \* history: what the last run did, if nothing was edited since
  tedits

tenantVars == <<states, ddl, taxonomy, table, verdict, tedits>>

\* "odd" is a string or mapping of no known form; "null" an empty value.
Kinds == {"allow", "degraded", "odd", "null", "absent"}
Cell  == [kind : Kinds, code : {NoCode}] \cup [kind : {"deny"}, code : Codes]
Row   == [COLUMNS \cup Others -> Cell]

\* The shown cells: both malformed strings and unknown mappings become a `?'.
render_cell(c) == IF c.kind = "odd" THEN [kind |-> "?", code |-> NoCode] ELSE c
RenderTable == [s \in DOMAIN states |-> [c \in COLUMNS |-> render_cell(states[s][c])]]

\* The index of a missing column, and `in' on an empty value, raise.
Raises == \E s \in DOMAIN states, c \in COLUMNS : states[s][c].kind \in {"absent", "null"}

\* Mutant: states of the CHECK list that the matrix lacks are not asked for.
StatesMatchOneWay == DOMAIN states \subseteq ddl

StatesMatch == DOMAIN states = ddl

CellsFormed ==
  \A s \in DOMAIN states :
    /\ \A c \in COLUMNS : states[s][c].kind # "absent"
    /\ \A c \in COLUMNS \cup Others : states[s][c].kind \notin {"odd", "null"}

DeniesRegistered ==
  \A s \in DOMAIN states, c \in COLUMNS \cup Others : states[s][c].kind = "deny" => states[s][c].code \in taxonomy

\* main: the checks collect errors, the table is rendered, and then written or
\* compared; it is written when there are errors too.
VerifyTenant(writeDoc) ==
  LET errors == ~(StatesMatch /\ CellsFormed /\ DeniesRegistered)
      written == ~Raises /\ writeDoc /\ table # NoBlock
  IN
  /\ table' = IF written THEN RenderTable ELSE table
  /\ verdict' = CASE Raises -> "raised"
                  [] ~Raises /\ writeDoc /\ table = NoBlock -> "refused"
                  [] ~Raises /\ (errors \/ (~writeDoc /\ table # RenderTable)) -> "failed"
                  [] OTHER -> "ok"
  /\ UNCHANGED <<states, ddl, taxonomy, tedits>>

TenantEdited == tedits < MaxTenantEdits /\ tedits' = tedits + 1 /\ verdict' = "none"

\* The YAML: a cell, or a whole state, is written or taken out.
EditStates ==
  /\ TenantEdited
  /\ \/ \E s \in DOMAIN states, c \in COLUMNS \cup Others, v \in Cell : states' = [states EXCEPT ![s][c] = v]
     \/ \E s \in DOMAIN states : states' = [t \in DOMAIN states \ {s} |-> states[t]]
     \/ \E s \in States \ DOMAIN states, v \in Cell :
          states' = [t \in DOMAIN states \cup {s} |-> IF t = s THEN [c \in COLUMNS \cup Others |-> v] ELSE states[t]]
  /\ UNCHANGED <<ddl, taxonomy, table>>

\* docs/03: its CHECK list, and its block.
EditTenantDoc ==
  /\ TenantEdited
  /\ \/ \E s \in States : ddl' = (IF s \in ddl THEN ddl \ {s} ELSE ddl \cup {s}) /\ UNCHANGED table
     \/ table' = NoBlock /\ UNCHANGED ddl
     \/ /\ table # NoBlock /\ UNCHANGED ddl
        /\ \E s \in DOMAIN table, c \in COLUMNS, v \in Cell : table' = [table EXCEPT ![s][c] = render_cell(v)]
  /\ UNCHANGED <<states, taxonomy>>

EditTaxonomy ==
  /\ TenantEdited
  /\ \E c \in Codes : taxonomy' = IF c \in taxonomy THEN taxonomy \ {c} ELSE taxonomy \cup {c}
  /\ UNCHANGED <<states, ddl, table>>

TenantNext == (\E writeDoc \in BOOLEAN : VerifyTenant(writeDoc)) \/ EditStates \/ EditTenantDoc \/ EditTaxonomy

TenantInit ==
  /\ states \in UNION {[S -> Row] : S \in SUBSET States}
  /\ ddl \in SUBSET States /\ taxonomy \in SUBSET Codes
  /\ table = IF Raises THEN NoBlock ELSE RenderTable
  /\ verdict = "none" /\ tedits = 0

TenantSpec == TenantInit /\ [][TenantNext]_tenantVars

-----------------------------------------------------------------------------

\* After a run that returned 0, with or without --write-doc, the table of docs/03
\* has a row for exactly the states a tenant can be in, and every cell of it
\* permits, degrades, or denies with a code of the taxonomy (the I-20 source:
\* checks 1 to 4).
TenantTableExact ==
  verdict = "ok" =>
    /\ DOMAIN table = ddl
    /\ \A s \in ddl, c \in COLUMNS :
         /\ table[s][c].kind \in {"allow", "degraded", "deny"}
         /\ table[s][c].kind = "deny" => table[s][c].code \in taxonomy

=============================================================================
