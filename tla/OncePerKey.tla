----------------------------- MODULE OncePerKey -----------------------------
(* What the gateway promises clients that retry under a key, without store,  *)
(* timers, writers or goroutines: a request is served itself, repeats what   *)
(* was said to the one that was, or is refused; the handler runs once per    *)
(* key and window; and what a request has been told stands.                  *)
EXTENDS Naturals

CONSTANTS Requests, Keys, Bodies, Statuses, Window, None

VARIABLES
  time,
  sent,   \* what each request carries, or None
  part,   \* the part it plays: "none", "served", "repeats", "refused"
  said,   \* the status it was told, 0 before
  ran     \* the runs of the handler

vars == <<time, sent, part, said, ran>>

Init ==
  /\ time = 0
  /\ sent = [r \in Requests |-> None] /\ part = [r \in Requests |-> "none"]
  /\ said = [r \in Requests |-> 0] /\ ran = {}

Waits(r) == sent[r] # None /\ part[r] = "none"
Serves(q, k) == part[q] = "served" /\ sent[q].key = k

Send(r) ==
  /\ sent[r] = None
  /\ \E k \in Keys, b \in Bodies : sent' = [sent EXCEPT ![r] = [key |-> k, body |-> b]]
  /\ UNCHANGED <<time, part, said, ran>>

\* The handler runs, when no run under the key is within the window.
Run(r) ==
  /\ Waits(r)
  /\ \A x \in ran : x.key = sent[r].key => time > x.at + Window
  /\ part' = [part EXCEPT ![r] = "served"]
  /\ ran' = ran \cup {[req |-> r, key |-> sent[r].key, at |-> time]}
  /\ UNCHANGED <<time, sent, said>>

\* Told what is wrong with it before the handler would run.
TurnDown(r) ==
  /\ Waits(r)
  /\ part' = [part EXCEPT ![r] = "served"]
  /\ \E s \in Statuses : said' = [said EXCEPT ![r] = s]
  /\ UNCHANGED <<time, sent, ran>>

Tell(r) ==
  /\ part[r] = "served" /\ said[r] = 0
  /\ \E s \in Statuses : said' = [said EXCEPT ![r] = s]
  /\ UNCHANGED <<time, sent, part, ran>>

\* The same request as one that has been told.
Repeat(r) ==
  /\ Waits(r)
  /\ \E q \in Requests : /\ part[q] = "served" /\ sent[q] = sent[r] /\ said[q] # 0
                         /\ said' = [said EXCEPT ![r] = said[q]]
  /\ part' = [part EXCEPT ![r] = "repeats"]
  /\ UNCHANGED <<time, sent, ran>>

\* Only where another request has the key.
Refuse(r) ==
  /\ Waits(r)
  /\ \E q \in Requests : Serves(q, sent[r].key)
  /\ part' = [part EXCEPT ![r] = "refused"]
  /\ \E s \in Statuses : said' = [said EXCEPT ![r] = s]
  /\ UNCHANGED <<time, sent, ran>>

Pass == time' = time + 1 /\ UNCHANGED <<sent, part, said, ran>>

Next == (\E r \in Requests : Send(r) \/ Run(r) \/ TurnDown(r) \/ Tell(r) \/ Repeat(r) \/ Refuse(r)) \/ Pass

Spec == Init /\ [][Next]_vars

=============================================================================
