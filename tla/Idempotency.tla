----------------------------- MODULE Idempotency -----------------------------
(* Step 7 of the gateway chain, the idempotency middleware and its in-memory *)
(* store, around step 9, the body limit and the handler timeout              *)
(* (pf-platform/go/gw/idempotency.go, hygiene.go).                           *)
(*                                                                           *)
(* Every request is served by a goroutine of net/http; the handler runs in a *)
(* goroutine of its own, is not cancelled by the timeout, and may go on      *)
(* writing after its request has been answered.  The handler is application  *)
(* code: it may answer anything, in any number of writes, or hang.  Requests *)
(* without a key, or with a method other than POST and PATCH, never touch    *)
(* the store and are left out.                                               *)
EXTENDS Integers, FiniteSets

CONSTANTS
  Requests,        \* requests, each served once
  Keys,            \* (tenant, method, path, X-Idempotency-Key) scopes
  Bodies,          \* request bodies, told apart by their hash
  Oversize,        \* the bodies BodyLimit refuses
  Codes,           \* status codes the handler may answer
  MaxChunks,       \* bound: body writes of one response
  BufCap,          \* body writes the recorder keeps (the first MB)
  HandlerTimeout, TTL,
  MaxNow,          \* bound: the clock
  None

\* idemRec
IdemRec == [hash : Bodies, done : BOOLEAN, status : Nat, chunks : Nat, exp : Nat, owner : Requests]

ASSUME IdemAssumption ==
  /\ None \notin Keys \cup Bodies \cup IdemRec \cup [key : Keys, body : Bodies]
  /\ Codes \subseteq 200..599
  /\ {MaxChunks, BufCap, MaxNow} \subseteq Nat
  /\ HandlerTimeout \in Nat \ {0}
  /\ TTL \in Nat /\ TTL > HandlerTimeout

OK == 200
Conflict == 409
TooLarge == 413
GatewayTimeout == 504

VARIABLES
  now,
  m,          \* Keys -> idemRec or None; owner is the request that made the claim (history)
  key, body,  \* what each request carries
  pc,         \* goroutine of a request
  hpc,        \* its handler goroutine: idle, run, done
  deadline,   \* when its timer fires
  timedOut,   \* timeoutWriter.timedOut
  rec,        \* idemRecorder: status and recorded body writes
  out,        \* what has reached net/http: status, body writes, replay header
  executions  \* history: the handler runs, with the scope and the time they started

vars == <<now, m, key, body, pc, hpc, deadline, timedOut, rec, out, executions>>

Response == [status : Nat, chunks : Nat]
Silent == [status |-> 0, chunks |-> 0]

Init ==
  /\ now = 0
  /\ m = [k \in Keys |-> None]
  /\ key = [r \in Requests |-> None] /\ body = [r \in Requests |-> None]
  /\ pc = [r \in Requests |-> "new"]
  /\ hpc = [r \in Requests |-> "idle"]
  /\ deadline = [r \in Requests |-> 0]
  /\ timedOut = [r \in Requests |-> FALSE]
  /\ rec = [r \in Requests |-> Silent] /\ out = [r \in Requests |-> Silent]
  /\ executions = {}

-----------------------------------------------------------------------------
(* MemIdemStore *)

Free(k) == m[k] = None \/ now > m[k].exp

\* Mutants: an unfinished claim is free again; the body is not compared.
BeginAnswerUnlessDone(k, hash) ==
  IF Free(k) \/ ~m[k].done THEN "own" ELSE IF m[k].hash # hash THEN "conflict" ELSE "replay"
BeginAnswerAnyBody(k, hash) ==
  IF Free(k) THEN "own" ELSE IF ~m[k].done THEN "conflict" ELSE "replay"

\* What Begin answers for a claim of k with this body hash.
BeginAnswer(k, hash) ==
  IF Free(k) THEN "own" ELSE IF m[k].hash # hash \/ ~m[k].done THEN "conflict" ELSE "replay"

\* Mutant: expiry counted backwards.
ClaimedExpired(r) ==
  [hash |-> body[r], done |-> FALSE, status |-> 0, chunks |-> 0, exp |-> now - TTL, owner |-> r]

\* The record of a claim, which replaces an expired one.
Claimed(r) ==
  [hash |-> body[r], done |-> FALSE, status |-> 0, chunks |-> 0, exp |-> now + TTL, owner |-> r]

\* Commit, for a record that is still there under the same hash.
Committed(r) ==
  IF m[key[r]] # None /\ m[key[r]].hash = body[r]
  THEN [m EXCEPT ![key[r]] = [@ EXCEPT !.done = TRUE, !.status = rec[r].status,
                                       !.chunks = rec[r].chunks, !.exp = now + TTL]]
  ELSE m

-----------------------------------------------------------------------------
(* The writers: timeoutWriter over idemRecorder over net/http *)

\* net/http: the first WriteHeader counts, Write implies a 200.
Headed(w, code) == IF w.status = 0 THEN [w EXCEPT !.status = code] ELSE w
Written(w) == [Headed(w, OK) EXCEPT !.chunks = @ + 1]

\* Mutant: the recorder takes the last status.
RecordLast(w, code) == [w EXCEPT !.status = code]

\* idemRecorder.WriteHeader
RecordHeader(w, code) == IF w.status = 0 THEN [w EXCEPT !.status = code] ELSE w

\* idemRecorder.Write keeps the first MB.
RecordWrite(w) ==
  LET h == IF w.status = 0 THEN [w EXCEPT !.status = OK] ELSE w
  IN  IF h.chunks < BufCap THEN [h EXCEPT !.chunks = @ + 1] ELSE h

\* timeoutWriter.wrote
Wrote(r) == out[r].status # 0

-----------------------------------------------------------------------------
(* The request's goroutine *)

\* A client sends a request; retries are requests with the same key and body.
Send(r, k, b) ==
  /\ pc[r] = "new"
  /\ now + HandlerTimeout <= MaxNow
  /\ pc' = [pc EXCEPT ![r] = "sent"]
  /\ key' = [key EXCEPT ![r] = k] /\ body' = [body EXCEPT ![r] = b]
  /\ UNCHANGED <<now, m, hpc, deadline, timedOut, rec, out, executions>>

\* BodyLimit and WithHandlerTimeout: an oversize body is refused, for any other
\* the handler goroutine and the timer are started.
Serve(r) ==
  \/ /\ body[r] \in Oversize
     /\ pc' = [pc EXCEPT ![r] = "returned"]
     /\ out' = [out EXCEPT ![r] = Written(Headed(@, TooLarge))]
     /\ rec' = [rec EXCEPT ![r] = RecordWrite(RecordHeader(@, TooLarge))]
     /\ UNCHANGED <<hpc, deadline, executions>>
  \/ /\ body[r] \notin Oversize
     /\ pc' = [pc EXCEPT ![r] = "select"]
     /\ hpc' = [hpc EXCEPT ![r] = "run"]
     /\ deadline' = [deadline EXCEPT ![r] = now + HandlerTimeout]
     /\ executions' = executions \cup {[req |-> r, key |-> key[r], at |-> now]}
     /\ UNCHANGED <<rec, out>>

\* Begin returns (0, nil, nil): this request owns the claim and is served.
Own(r) ==
  /\ pc[r] = "sent"
  /\ BeginAnswer(key[r], body[r]) = "own"
  /\ m' = [m EXCEPT ![key[r]] = Claimed(r)]
  /\ Serve(r)
  /\ UNCHANGED <<now, key, body, timedOut>>

\* Begin returns ErrIdemConflict.
Refuse(r) ==
  /\ pc[r] = "sent"
  /\ BeginAnswer(key[r], body[r]) = "conflict"
  /\ pc' = [pc EXCEPT ![r] = "answered"]
  /\ out' = [out EXCEPT ![r] = [status |-> Conflict, chunks |-> 1]]
  /\ UNCHANGED <<now, m, key, body, hpc, deadline, timedOut, rec, executions>>

\* Mutant: the replay forgets WriteHeader, so that its Write implies a 200.
ReplayWithoutHeader(r) ==
  /\ pc[r] = "sent"
  /\ BeginAnswer(key[r], body[r]) = "replay"
  /\ pc' = [pc EXCEPT ![r] = "replayed"]
  /\ out' = [out EXCEPT ![r] = [status |-> OK, chunks |-> m[key[r]].chunks]]
  /\ UNCHANGED <<now, m, key, body, hpc, deadline, timedOut, rec, executions>>

\* Begin returns a stored response.
Replay(r) ==
  /\ pc[r] = "sent"
  /\ BeginAnswer(key[r], body[r]) = "replay"
  /\ pc' = [pc EXCEPT ![r] = "replayed"]
  /\ out' = [out EXCEPT ![r] = [status |-> m[key[r]].status, chunks |-> m[key[r]].chunks]]
  /\ UNCHANGED <<now, m, key, body, hpc, deadline, timedOut, rec, executions>>

\* select: the handler has returned.
SelectDone(r) ==
  /\ pc[r] = "select" /\ hpc[r] = "done"
  /\ pc' = [pc EXCEPT ![r] = "returned"]
  /\ UNCHANGED <<now, m, key, body, hpc, deadline, timedOut, rec, out, executions>>

\* Mutant: the timer ends the wait only if there is a timeout to send.
SelectTimerIfSilent(r) ==
  /\ pc[r] = "select" /\ now >= deadline[r] /\ ~Wrote(r)
  /\ pc' = [pc EXCEPT ![r] = "returned"]
  /\ timedOut' = [timedOut EXCEPT ![r] = ~Wrote(r)]
  /\ out' = IF Wrote(r) THEN out ELSE [out EXCEPT ![r] = Written(Headed(@, GatewayTimeout))]
  /\ rec' = IF Wrote(r) THEN rec ELSE [rec EXCEPT ![r] = RecordWrite(RecordHeader(@, GatewayTimeout))]
  /\ UNCHANGED <<now, m, key, body, hpc, deadline, executions>>

\* select: the timer has fired; sendTimeout does nothing if the handler wrote.
SelectTimer(r) ==
  /\ pc[r] = "select" /\ now >= deadline[r]
  /\ pc' = [pc EXCEPT ![r] = "returned"]
  /\ timedOut' = [timedOut EXCEPT ![r] = ~Wrote(r)]
  /\ out' = IF Wrote(r) THEN out ELSE [out EXCEPT ![r] = Written(Headed(@, GatewayTimeout))]
  /\ rec' = IF Wrote(r) THEN rec ELSE [rec EXCEPT ![r] = RecordWrite(RecordHeader(@, GatewayTimeout))]
  /\ UNCHANGED <<now, m, key, body, hpc, deadline, executions>>

\* "5xx and aborted responses are not remembered".
Remembered(r) == rec[r].status # 0 /\ rec[r].status < 500

\* The rest of IdempotencyMW, and net/http finishing the response (with an
\* implicit 200 if nobody wrote).
Finish(r) ==
  /\ pc[r] = "returned"
  /\ m' = IF Remembered(r) THEN Committed(r) ELSE m
  /\ pc' = [pc EXCEPT ![r] = "committed"]
  /\ UNCHANGED <<now, key, body, hpc, deadline, timedOut, rec, out, executions>>

Answer(r) ==
  /\ pc[r] = "committed"
  /\ pc' = [pc EXCEPT ![r] = "answered"]
  /\ out' = [out EXCEPT ![r] = Headed(@, OK)]
  /\ UNCHANGED <<now, m, key, body, hpc, deadline, timedOut, rec, executions>>

-----------------------------------------------------------------------------
(* The handler's goroutine *)

\* Whether its writes still reach the client's connection.
Open(r) == pc[r] \in {"select", "returned", "committed"}

\* w.WriteHeader(code): after the timeout it is ignored.
HandlerWriteHeader(r, code) ==
  /\ hpc[r] = "run"
  /\ \/ timedOut[r] /\ UNCHANGED <<rec, out>>
     \/ /\ ~timedOut[r]
        /\ rec' = [rec EXCEPT ![r] = RecordHeader(@, code)]
        /\ out' = IF Open(r) THEN [out EXCEPT ![r] = Headed(@, code)] ELSE out
  /\ UNCHANGED <<now, m, key, body, pc, hpc, deadline, timedOut, executions>>

\* w.Write(b): after the timeout it is an error.
HandlerWrite(r) ==
  /\ hpc[r] = "run"
  /\ out[r].chunks < MaxChunks
  /\ \/ timedOut[r] /\ UNCHANGED <<rec, out>>
     \/ /\ ~timedOut[r]
        /\ rec' = [rec EXCEPT ![r] = RecordWrite(@)]
        /\ out' = IF Open(r) THEN [out EXCEPT ![r] = Written(@)] ELSE out
  /\ UNCHANGED <<now, m, key, body, pc, hpc, deadline, timedOut, executions>>

HandlerReturn(r) ==
  /\ hpc[r] = "run"
  /\ hpc' = [hpc EXCEPT ![r] = "done"]
  /\ UNCHANGED <<now, m, key, body, pc, deadline, timedOut, rec, out, executions>>

\* The clock.  Goroutines run promptly: no timer is overdue and the middleware
\* takes no time outside the select.
Tick ==
  /\ now < MaxNow
  /\ \A r \in Requests : /\ pc[r] \notin {"sent", "returned", "committed"}
                         /\ pc[r] = "select" => now < deadline[r]
  /\ now' = now + 1
  /\ UNCHANGED <<m, key, body, pc, hpc, deadline, timedOut, rec, out, executions>>

Middleware(r) ==
  \/ Own(r) \/ Refuse(r) \/ Replay(r)
  \/ SelectDone(r) \/ SelectTimer(r) \/ Finish(r) \/ Answer(r)

Clients == \E r \in Requests, k \in Keys, b \in Bodies : Send(r, k, b)

Gateway ==
  \E r \in Requests :
    \/ Middleware(r)
    \/ \E code \in Codes : HandlerWriteHeader(r, code)
    \/ HandlerWrite(r)
    \/ HandlerReturn(r)

Next == Clients \/ Gateway \/ Tick

\* net/http's goroutines and the clock go on; nothing is assumed of a handler.
Fairness == WF_vars(Tick) /\ \A r \in Requests : WF_vars(Middleware(r))

Spec == Init /\ [][Next]_vars /\ Fairness

-----------------------------------------------------------------------------
(* Properties *)

Ended == {"answered", "replayed"}

\* Types of all variables.
TypeOK ==
  /\ now \in 0..MaxNow
  /\ m \in [Keys -> IdemRec \cup {None}]
  /\ key \in [Requests -> Keys \cup {None}] /\ body \in [Requests -> Bodies \cup {None}]
  /\ pc \in [Requests -> {"new", "sent", "select", "returned", "committed"} \cup Ended]
  /\ hpc \in [Requests -> {"idle", "run", "done"}]
  /\ deadline \in [Requests -> Nat]
  /\ timedOut \in [Requests -> BOOLEAN]
  /\ rec \in [Requests -> Response] /\ out \in [Requests -> Response]
  /\ executions \subseteq [req : Requests, key : Keys, at : Nat]

\* "Retries never double-create": of all the requests sent under one key, at most
\* one runs its handler per TTL window, whatever became of the ones before it
\* (answered, timed out, failed, still running after its timeout).
OneExecution ==
  \A x, y \in executions :
    x # y /\ x.key = y.key => x.at > y.at + TTL \/ y.at > x.at + TTL

\* A replay repeats what the request that ran was answered: the same status, and
\* no body write its own client did not get (the recorder stops at a MB, and
\* what the handler writes after Commit is not stored).
ReplayRepeatsOwner ==
  \A r \in Requests : pc[r] = "replayed" =>
    \E q \in Requests \ {r} :
      /\ key[q] = key[r] /\ body[q] = body[r]
      /\ pc[q] \in {"committed", "answered"}
      /\ out[q].status = out[r].status /\ out[r].chunks <= out[q].chunks

\* A stored response is the one of the request that holds the claim: no late
\* Commit of an earlier claim overwrites it.
StoredIsOwners ==
  \A k \in Keys : (m[k] # None /\ m[k].done) =>
    LET q == m[k].owner
    IN  /\ pc[q] \in {"committed", "answered"}
        /\ m[k].status = out[q].status /\ m[k].chunks <= out[q].chunks

\* "An upstream call that hangs must still produce a shaped response": every
\* request is answered although no handler is bound to return or to write.
EveryRequestAnswered ==
  \A r \in Requests : pc[r] = "sent" ~> pc[r] \in Ended

\* What is stored under a key, and what is replayed from it, is the answer of the
\* request that ran, however late its Commit comes (Begin, Commit, Idempotency).
ReplaysFaithful == TypeOK /\ ReplayRepeatsOwner /\ StoredIsOwners

-----------------------------------------------------------------------------
(* The promise to clients (OncePerKey), and how this state stands for its. *)

\* A refused request has no handler and nothing in its recorder.
Unserved(r) == hpc[r] = "idle" /\ rec[r].status = 0
Part(r) == CASE pc[r] \in {"new", "sent"} -> "none"
             [] pc[r] = "replayed" -> "repeats"
             [] pc[r] = "answered" /\ Unserved(r) -> "refused"
             [] OTHER -> "served"
Carries(r) == IF pc[r] = "new" THEN None ELSE [key |-> key[r], body |-> body[r]]

Once == INSTANCE OncePerKey WITH
  Statuses <- Codes \cup {OK, Conflict, TooLarge, GatewayTimeout},
  Window <- TTL, time <- now, ran <- executions,
  sent <- [r \in Requests |-> Carries(r)],
  part <- [r \in Requests |-> Part(r)],
  said <- [r \in Requests |-> out[r].status]

\* Whatever the order of claims, commits, timers, handlers' writes and expiry,
\* clients see a service that runs a key's handler once per window, repeats what
\* it said, refuses only a key that is taken, and never takes an answer back
\* (IdempotencyMW, WithHandlerTimeout over MemIdemStore).
KeepsItsPromise == Once!Spec

=============================================================================
