------------------------------ MODULE MCBridge ------------------------------
(* Instances of Bridge for TLC. *)
EXTENDS Bridge, TLC

\* Every command is addressed to the same account.
MCTarget == [k \in Cmds |-> CHOOSE a \in Accounts : TRUE]

MCSeqs1  == {1}
MCSeqs2  == 1..2
MCNow    == {1}
MCClock  == 1..3

\* Goroutines, session objects and nonces are interchangeable.
MCSymmetry == Permutations(Conns) \cup Permutations(Rests) \cup Permutations(Sids) \cup Permutations(Nonces)

=============================================================================
