---------------------------- MODULE MCIdempotency ----------------------------
(* Instances of Idempotency for TLC.  Requests are numbers and are sent in   *)
(* their order, which only fixes their names.                                *)
EXTENDS Idempotency

MCRequests == 1..3

InOrder == \A r, q \in Requests : r < q /\ pc[q] # "new" => pc[r] # "new"

MCNext == (Clients /\ InOrder') \/ Gateway \/ Tick

MCSpec == Init /\ [][MCNext]_vars /\ Fairness

=============================================================================
