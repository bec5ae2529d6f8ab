----------------------------- MODULE RoleClosure -----------------------------
(***************************************************************************)
(* Inheritance between roles, and the work-list loop with which              *)
(* scripts/verify_roles.py walks it (ancestors and descendants).            *)
(*                                                                          *)
(* `up' maps a role to the roles it inherits from; a role outside the        *)
(* catalog inherits from nobody.  Following `up' gives ancestors, following  *)
(* the converse gives descendants.                                          *)
(***************************************************************************)
EXTENDS Naturals

CONSTANT Roles

\* The converse relation: the `children' table of descendants.
Children(up) == [r \in Roles |-> {c \in Roles : r \in up[c]}]

\* A set that contains the roles next to r and, with a role, those next to it.
ClosedFrom(S, next, r) == next[r] \subseteq S /\ \A p \in S : next[p] \subseteq S

\* The roles reached from r: those in every such set.
Reach(next, r) == {p \in Roles : \A S \in SUBSET Roles : ClosedFrom(S, next, r) => p \in S}

ancestors(r, up)   == Reach(up, r)
descendants(r, up) == Reach(Children(up), r)

-----------------------------------------------------------------------------
(* The loop.  The stack is kept as how often a role lies on it: which of them *)
(* is popped is left open, and what the loop computes must not depend on it. *)

VARIABLES next,    \* the relation that is followed
          root, stack, out

loopVars == <<next, root, stack, out>>

LoopInit ==
  /\ next \in [Roles -> SUBSET Roles] /\ root \in Roles
  /\ stack = [r \in Roles |-> IF r \in next[root] THEN 1 ELSE 0] /\ out = {}

\* Mutant: expanding a role overwrites the stack instead of extending it.
PopForgets ==
  \E p \in Roles :
    /\ stack[p] > 0
    /\ out' = out \cup {p}
    /\ stack' = IF p \in out THEN [stack EXCEPT ![p] = @ - 1]
                ELSE [r \in Roles |-> IF r \in next[p] \ {root} THEN 1 ELSE 0]
    /\ UNCHANGED <<next, root>>

\* Mutant: a role is expanded every time it is popped.
PopAgain ==
  \E p \in Roles :
    /\ stack[p] > 0 /\ stack[p] < 3
    /\ out' = out \cup {p}
    /\ stack' = [r \in Roles |-> (IF r = p THEN stack[r] - 1 ELSE stack[r]) + (IF r \in next[p] THEN 1 ELSE 0)]
    /\ UNCHANGED <<next, root>>

\* Pop a role; one that was reached before is passed over.
Pop ==
  \E p \in Roles :
    /\ stack[p] > 0
    /\ out' = out \cup {p}
    /\ stack' = [r \in Roles |-> (IF r = p THEN stack[r] - 1 ELSE stack[r]) + (IF p \notin out /\ r \in next[p] THEN 1 ELSE 0)]
    /\ UNCHANGED <<next, root>>

LoopSpec == LoopInit /\ [][Pop]_loopVars /\ WF_loopVars(Pop)

LoopDone == \A r \in Roles : stack[r] = 0

-----------------------------------------------------------------------------

LoopTypeOK ==
  /\ next \in [Roles -> SUBSET Roles] /\ root \in Roles
  /\ stack \in [Roles -> Nat] /\ out \in SUBSET Roles

\* Whatever is on the stack or in the result is reached, and what is next to the
\* root or to a role in the result is in the result or on the stack.
LoopInv ==
  /\ \A p \in out : next[p] \subseteq out \cup {r \in Roles : stack[r] > 0}
  /\ next[root] \subseteq out \cup {r \in Roles : stack[r] > 0}
  /\ \A p \in Roles : p \in out \/ stack[p] > 0 => p \in Reach(next, root)

\* When the stack is empty the result is exactly the set of roles reached from
\* the root, for cyclic inheritance too (ancestors, descendants).
LoopExact == LoopDone => out = Reach(next, root)

\* The loop ends, for cyclic inheritance too.
LoopEnds == <>LoopDone

=============================================================================
