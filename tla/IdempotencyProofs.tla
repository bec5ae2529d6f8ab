-------------------------- MODULE IdempotencyProofs --------------------------
(* Proofs that a key's handler runs at most once per TTL window and that     *)
(* replays repeat the answer of the request that ran, for every number of    *)
(* requests, keys, bodies and codes.                                         *)
(*                                                                           *)
(* OneExecution is not inductive: nothing in it says why Begin cannot hand   *)
(* out a second claim.  The reason is the record in the store, which outlasts*)
(* every run it was made for by the TTL: Commit only moves its expiry into   *)
(* the future, and it is replaced only once it has expired.                  *)
EXTENDS Idempotency, TLAPS

\* What the argument needs of the types.
Shaped ==
  /\ now \in Nat
  /\ m \in [Keys -> IdemRec \cup {None}]
  /\ pc \in [Requests -> {"new", "sent", "select", "returned", "committed"} \cup Ended]
  /\ key \in [Requests -> Keys \cup {None}]
  /\ body \in [Requests -> Bodies \cup {None}]
  /\ \A r \in Requests : pc[r] # "new" => key[r] \in Keys /\ body[r] \in Bodies
  /\ rec \in [Requests -> Response]
  /\ executions \subseteq [req : Requests, key : Keys, at : Nat]

\* Every run is covered by a record that outlasts its start by the TTL.
Covered ==
  \A x \in executions : x.at <= now /\ m[x.key] # None /\ x.at + TTL <= m[x.key].exp

ExecInv == Shaped /\ Covered /\ OneExecution

LEMMA InitExec == Init => ExecInv
  BY IdemAssumption DEF Init, ExecInv, Shaped, Covered, OneExecution, Response, Silent, Ended

\* What a recorder holds stays a response.
LEMMA RecorderTypes ==
  /\ \A w \in Response : RecordWrite(w) \in Response
  /\ \A w \in Response, code \in Nat : RecordHeader(w, code) \in Response
  BY DEF Response, RecordWrite, RecordHeader, OK

\* The step that starts a run: the claim was free, so every earlier run under
\* the key lies more than the TTL back.
LEMMA OwnKeepsExec ==
  ASSUME ExecInv, NEW r \in Requests, Own(r)
  PROVE  ExecInv'
<1>1. key[r] \in Keys /\ body[r] \in Bodies
  BY DEF ExecInv, Shaped, Own
<1>2. m[key[r]] = None \/ now > m[key[r]].exp
  BY DEF Own, BeginAnswer, Free
<1>3. Claimed(r) \in IdemRec /\ Claimed(r).exp = now + TTL /\ Claimed(r) # None
  <2>1. now + TTL \in Nat
    BY IdemAssumption DEF ExecInv, Shaped
  <2>2. Claimed(r) \in IdemRec
    BY <1>1, <2>1 DEF Claimed, IdemRec
  <2>3. Claimed(r).exp = now + TTL
    BY DEF Claimed
  <2>q. QED BY <2>2, <2>3, IdemAssumption
<1>4. /\ m' = [m EXCEPT ![key[r]] = Claimed(r)]
      /\ UNCHANGED <<now, key, body>>
  BY DEF Own
<1>5. Shaped'
  <2>1. m' \in [Keys -> IdemRec \cup {None}]
    BY <1>1, <1>3, <1>4 DEF ExecInv, Shaped
  <2>2. rec' \in [Requests -> Response]
    <3>1. rec \in [Requests -> Response]
      BY DEF ExecInv, Shaped
    <3>2. RecordWrite(RecordHeader(rec[r], TooLarge)) \in Response
      BY <3>1, RecorderTypes DEF TooLarge
    <3>3. rec' = rec \/ rec' = [rec EXCEPT ![r] = RecordWrite(RecordHeader(rec[r], TooLarge))]
      BY DEF Own, Serve
    <3>q. QED BY <3>1, <3>2, <3>3
  <2>3. executions' \subseteq [req : Requests, key : Keys, at : Nat]
    BY <1>1 DEF ExecInv, Shaped, Own, Serve
  <2>4. pc' \in [Requests -> {"new", "sent", "select", "returned", "committed"} \cup Ended]
    BY DEF ExecInv, Shaped, Own, Serve
  <2>5. \A q \in Requests : pc'[q] # "new" => key[q] \in Keys /\ body[q] \in Bodies
    BY <1>1 DEF ExecInv, Shaped, Own, Serve
  <2>q. QED
    BY <1>4, <2>1, <2>2, <2>3, <2>4, <2>5 DEF ExecInv, Shaped
<1>6. \A x \in executions : x.key = key[r] => now > x.at + TTL
  BY <1>1, <1>2, IdemAssumption DEF ExecInv, Shaped, Covered, IdemRec
<1>7. executions' \subseteq executions \cup {[req |-> r, key |-> key[r], at |-> now]}
  BY DEF Own, Serve
<1>8. Covered'
  <2> SUFFICES ASSUME NEW x \in executions'
               PROVE  x.at <= now /\ m'[x.key] # None /\ x.at + TTL <= m'[x.key].exp
    BY <1>4 DEF Covered
  <2>1. CASE x \in executions
    <3>1. x.key \in Keys /\ x.at \in Nat /\ x.at <= now /\ m[x.key] # None /\ x.at + TTL <= m[x.key].exp
      BY <2>1 DEF ExecInv, Shaped, Covered
    <3>2. CASE x.key = key[r]
      BY <1>1, <1>3, <1>4, <3>1, <3>2, IdemAssumption DEF ExecInv, Shaped
    <3>3. CASE x.key # key[r]
      BY <1>1, <1>4, <3>1, <3>3 DEF ExecInv, Shaped
    <3>q. QED BY <3>2, <3>3
  <2>2. CASE x = [req |-> r, key |-> key[r], at |-> now]
    BY <1>1, <1>3, <1>4, <2>2, IdemAssumption DEF ExecInv, Shaped
  <2>q. QED BY <1>7, <2>1, <2>2
<1>9. OneExecution'
  <2> SUFFICES ASSUME NEW x \in executions', NEW y \in executions', x # y, x.key = y.key
               PROVE  x.at > y.at + TTL \/ y.at > x.at + TTL
    BY DEF OneExecution
  <2>1. CASE x \in executions /\ y \in executions
    BY <2>1 DEF ExecInv, OneExecution
  <2>2. CASE x \in executions /\ y = [req |-> r, key |-> key[r], at |-> now]
    BY <1>6, <2>2
  <2>3. CASE y \in executions /\ x = [req |-> r, key |-> key[r], at |-> now]
    BY <1>6, <2>3
  <2>q. QED BY <1>7, <2>1, <2>2, <2>3
<1>q. QED BY <1>5, <1>8, <1>9 DEF ExecInv

\* Commit keeps the record and moves its expiry no earlier, because the clock
\* has not gone back since the runs it covers.
LEMMA FinishKeepsExec ==
  ASSUME ExecInv, NEW r \in Requests, Finish(r)
  PROVE  ExecInv'
<1>1. key[r] \in Keys /\ body[r] \in Bodies
  BY DEF ExecInv, Shaped, Finish
<1>2. UNCHANGED <<now, key, body, rec, executions>>
  BY DEF Finish
<1>3. \/ m' = m
      \/ /\ m[key[r]] \in IdemRec
         /\ m' = [m EXCEPT ![key[r]] = [@ EXCEPT !.done = TRUE, !.status = rec[r].status,
                                                 !.chunks = rec[r].chunks, !.exp = now + TTL]]
  BY <1>1 DEF ExecInv, Shaped, Finish, Committed
<1>4. CASE m' = m
  BY <1>2, <1>4 DEF ExecInv, Shaped, Covered, OneExecution, Finish
<1>5. ASSUME m[key[r]] \in IdemRec,
             m' = [m EXCEPT ![key[r]] = [@ EXCEPT !.done = TRUE, !.status = rec[r].status,
                                                  !.chunks = rec[r].chunks, !.exp = now + TTL]]
      PROVE  ExecInv'
  <2> DEFINE d == [m[key[r]] EXCEPT !.done = TRUE, !.status = rec[r].status,
                                    !.chunks = rec[r].chunks, !.exp = now + TTL]
  <2>1. d \in IdemRec /\ d.exp = now + TTL /\ d # None
    <3>1. now + TTL \in Nat /\ rec[r] \in Response
      BY IdemAssumption DEF ExecInv, Shaped
    <3>2. d \in IdemRec /\ d.exp = now + TTL
      BY <1>5, <3>1 DEF IdemRec, Response
    <3>q. QED BY <3>2, IdemAssumption
  <2>2. m' = [m EXCEPT ![key[r]] = d]
    BY <1>5
  <2> HIDE DEF d
  <2>3. Shaped'
    BY <1>1, <1>2, <2>1, <2>2 DEF ExecInv, Shaped, Finish
  <2>4. Covered'
    <3> SUFFICES ASSUME NEW x \in executions
                 PROVE  x.at <= now /\ m'[x.key] # None /\ x.at + TTL <= m'[x.key].exp
      BY <1>2 DEF Covered
    <3>1. x.key \in Keys /\ x.at \in Nat /\ x.at <= now /\ m[x.key] # None /\ x.at + TTL <= m[x.key].exp
      BY DEF ExecInv, Shaped, Covered
    <3>2. CASE x.key = key[r]
      BY <1>1, <2>1, <2>2, <3>1, <3>2, IdemAssumption DEF ExecInv, Shaped
    <3>3. CASE x.key # key[r]
      BY <1>1, <2>2, <3>1, <3>3 DEF ExecInv, Shaped
    <3>q. QED BY <3>2, <3>3
  <2>5. OneExecution'
    BY <1>2 DEF ExecInv, OneExecution
  <2>q. QED BY <2>3, <2>4, <2>5 DEF ExecInv
<1>q. QED BY <1>3, <1>4, <1>5

LEMMA NextKeepsExec == ExecInv /\ [Next]_vars => ExecInv'
<1> SUFFICES ASSUME ExecInv, [Next]_vars PROVE ExecInv'
  OBVIOUS
<1>1. ASSUME NEW r \in Requests, NEW k \in Keys, NEW b \in Bodies, Send(r, k, b) PROVE ExecInv'
  BY <1>1 DEF Send, ExecInv, Shaped, Covered, OneExecution
<1>2. ASSUME NEW r \in Requests, Own(r) PROVE ExecInv'
  BY <1>2, OwnKeepsExec
<1>3. ASSUME NEW r \in Requests, Refuse(r) \/ Replay(r) PROVE ExecInv'
  BY <1>3 DEF Refuse, Replay, ExecInv, Shaped, Covered, OneExecution, Ended
<1>4. ASSUME NEW r \in Requests, SelectDone(r) PROVE ExecInv'
  BY <1>4 DEF SelectDone, ExecInv, Shaped, Covered, OneExecution
<1>5. ASSUME NEW r \in Requests, SelectTimer(r) PROVE ExecInv'
  <2>1. rec' \in [Requests -> Response]
    <3>1. rec \in [Requests -> Response]
      BY DEF ExecInv, Shaped
    <3>2. RecordWrite(RecordHeader(rec[r], GatewayTimeout)) \in Response
      BY <3>1, RecorderTypes DEF GatewayTimeout
    <3>3. rec' = rec \/ rec' = [rec EXCEPT ![r] = RecordWrite(RecordHeader(rec[r], GatewayTimeout))]
      BY <1>5 DEF SelectTimer
    <3>q. QED BY <3>1, <3>2, <3>3
  <2>q. QED BY <1>5, <2>1 DEF SelectTimer, ExecInv, Shaped, Covered, OneExecution
<1>6. ASSUME NEW r \in Requests, Finish(r) PROVE ExecInv'
  BY <1>6, FinishKeepsExec
<1>7. ASSUME NEW r \in Requests, Answer(r) PROVE ExecInv'
  BY <1>7 DEF Answer, ExecInv, Shaped, Covered, OneExecution, Ended
<1>8. ASSUME NEW r \in Requests, NEW code \in Codes, HandlerWriteHeader(r, code) PROVE ExecInv'
  <2>1. code \in Nat BY IdemAssumption
  <2>2. rec' \in [Requests -> Response]
    <3>1. rec \in [Requests -> Response]
      BY DEF ExecInv, Shaped
    <3>2. RecordHeader(rec[r], code) \in Response
      BY <2>1, <3>1, RecorderTypes
    <3>3. rec' = rec \/ rec' = [rec EXCEPT ![r] = RecordHeader(rec[r], code)]
      BY <1>8 DEF HandlerWriteHeader
    <3>q. QED BY <3>1, <3>2, <3>3
  <2>q. QED BY <1>8, <2>2 DEF HandlerWriteHeader, ExecInv, Shaped, Covered, OneExecution
<1>9. ASSUME NEW r \in Requests, HandlerWrite(r) PROVE ExecInv'
  <2>1. rec' \in [Requests -> Response]
    BY <1>9, RecorderTypes DEF HandlerWrite, ExecInv, Shaped
  <2>q. QED BY <1>9, <2>1 DEF HandlerWrite, ExecInv, Shaped, Covered, OneExecution
<1>10. ASSUME NEW r \in Requests, HandlerReturn(r) PROVE ExecInv'
  BY <1>10 DEF HandlerReturn, ExecInv, Shaped, Covered, OneExecution
<1>11. CASE Tick
  BY <1>11 DEF Tick, ExecInv, Shaped, Covered, OneExecution
<1>12. CASE UNCHANGED vars
  BY <1>12 DEF vars, ExecInv, Shaped, Covered, OneExecution
<1>q. QED
  BY <1>1, <1>2, <1>3, <1>4, <1>5, <1>6, <1>7, <1>8, <1>9, <1>10, <1>11, <1>12 DEF Next, Clients, Gateway, Middleware

\* "Retries never double-create": at most one run of the handler per key and
\* TTL window, whatever the handlers, the timers and the retries do.
THEOREM OneExecutionPerWindow == Spec => []OneExecution
<1>1. ExecInv => OneExecution
  BY DEF ExecInv
<1>q. QED BY <1>1, InitExec, NextKeepsExec, PTL DEF Spec


-----------------------------------------------------------------------------
(* Replays repeat the answer of the request that ran.                        *)
(*                                                                           *)
(* ReplaysFaithful is not inductive.  A Commit writes whatever record the key*)
(* has under the same hash: it is the committer's own only because the claim *)
(* outlives the handler's timeout.  And what it writes is the recorder's copy*)
(* of the response, which has to agree with what net/http was given.         *)

\* A request carries a key and a body from the moment it is sent, and nothing
\* is written for it before it is served.
Carried ==
  \A r \in Requests :
    /\ pc[r] # "new" => key[r] \in Keys /\ body[r] \in Bodies
    /\ pc[r] \in {"new", "sent"} => hpc[r] = "idle" /\ rec[r] = Silent /\ out[r] = Silent

\* The recorder agrees with the connection for as long as the middleware may
\* read it, short of the writes past its capacity.
Mirrored ==
  \A r \in Requests : pc[r] \in {"select", "returned", "committed"} =>
    rec[r].status = out[r].status /\ rec[r].chunks <= out[r].chunks

\* The claim of a request being served is its own, unfinished and not expired:
\* the timer fires before the TTL is over.
Claims ==
  \A r \in Requests : pc[r] \in {"select", "returned"} =>
    /\ m[key[r]] # None /\ m[key[r]].owner = r /\ ~m[key[r]].done
    /\ now < m[key[r]].exp
    /\ pc[r] = "select" => now <= deadline[r] /\ deadline[r] < m[key[r]].exp

\* Every record belongs to the request that claimed it, and a finished one
\* holds what that request was answered.
Owned ==
  \A k \in Keys : m[k] # None =>
    LET q == m[k].owner
    IN  /\ key[q] = k /\ body[q] = m[k].hash
        /\ pc[q] \in {"select", "returned", "committed", "answered"}
        /\ m[k].done => /\ pc[q] \in {"committed", "answered"}
                        /\ m[k].status # 0 /\ m[k].status = out[q].status
                        /\ m[k].chunks <= out[q].chunks

\* A replay repeats the answer of another request, and that answer has begun.
Replayed ==
  \A r \in Requests : pc[r] = "replayed" =>
    /\ out[r].status # 0
    /\ \E q \in Requests \ {r} :
         /\ key[q] = key[r] /\ body[q] = body[r]
         /\ pc[q] \in {"committed", "answered"}
         /\ out[q].status = out[r].status /\ out[r].chunks <= out[q].chunks

FaithInv == TypeOK /\ Carried /\ Mirrored /\ Claims /\ Owned /\ Replayed

LEMMA InitFaith == Init => FaithInv
  BY IdemAssumption
     DEF Init, FaithInv, TypeOK, Carried, Mirrored, Claims, Owned, Replayed, Response, Silent, Ended

\* A writer makes a response of a response: the first status stays, no write is
\* taken back, and the recorder never runs ahead of the connection.
LEMMA Writers ==
  ASSUME NEW c \in Nat \ {0}, NEW w \in Response, NEW v \in Response
  PROVE  /\ Headed(w, c) \in Response /\ Headed(w, c).status # 0
         /\ Headed(w, c).chunks = w.chunks
         /\ w.status # 0 => Headed(w, c).status = w.status
         /\ Written(w) \in Response /\ Written(w).status # 0
         /\ Written(w).chunks = w.chunks + 1
         /\ w.status # 0 => Written(w).status = w.status
         /\ RecordHeader(v, c) \in Response /\ RecordWrite(v) \in Response
         /\ v.status = w.status /\ v.chunks <= w.chunks =>
              /\ RecordHeader(v, c).status = Headed(w, c).status
              /\ RecordHeader(v, c).chunks <= Headed(w, c).chunks
              /\ RecordWrite(v).status = Written(w).status
              /\ RecordWrite(v).chunks <= Written(w).chunks
<1>1. OK \in Nat \ {0}
  BY DEF OK
<1>2. BufCap \in Nat
  BY IdemAssumption
<1>3. \A u \in Response, s \in Nat \ {0} :
        /\ Headed(u, s) \in Response /\ Headed(u, s).status # 0
        /\ Headed(u, s).chunks = u.chunks
        /\ u.status # 0 => Headed(u, s) = u
        /\ u.status = 0 => Headed(u, s).status = s
  BY DEF Headed, Response
<1>4. \A u \in Response : /\ Written(u) \in Response /\ Written(u).chunks = u.chunks + 1
                          /\ Written(u).status = Headed(u, OK).status
  BY <1>1, <1>3 DEF Written, Response
<1>5. RecordHeader(v, c) = Headed(v, c)
  BY DEF RecordHeader, Headed
<1>6. /\ RecordWrite(v) \in Response /\ RecordWrite(v).status = Headed(v, OK).status
      /\ RecordWrite(v).chunks <= v.chunks + 1
  <2>1. RecordWrite(v) = IF Headed(v, OK).chunks < BufCap
                         THEN [Headed(v, OK) EXCEPT !.chunks = @ + 1] ELSE Headed(v, OK)
    BY DEF RecordWrite, Headed
  <2>q. QED BY <1>1, <1>2, <1>3, <2>1 DEF Response
<1>7. v.status = w.status => /\ Headed(v, c).status = Headed(w, c).status
                             /\ Headed(v, OK).status = Headed(w, OK).status
  BY <1>1, <1>3
<1>8. v.chunks \in Nat /\ w.chunks \in Nat /\ RecordWrite(v).chunks \in Nat
  BY <1>6 DEF Response
<1>9. v.chunks <= w.chunks => /\ Headed(v, c).chunks <= Headed(w, c).chunks
                              /\ RecordWrite(v).chunks <= Written(w).chunks
  BY <1>3, <1>4, <1>6, <1>8
<1>a. Written(w).status # 0 /\ (w.status # 0 => Written(w).status = w.status)
  BY <1>1, <1>3, <1>4
<1>q. QED BY <1>3, <1>4, <1>5, <1>6, <1>7, <1>9, <1>a

\* What the middleware and the handler may do to a response being made: it
\* stays mirrored, keeps the status it has, and loses nothing.
Grown(r, v, w) ==
  /\ v \in Response /\ w \in Response
  /\ v.status = w.status /\ v.chunks <= w.chunks
  /\ out[r].status # 0 => w.status = out[r].status
  /\ out[r].chunks <= w.chunks

\* A handler's write, before or after the end of its request.
LEMMA WritingKeepsFaith ==
  ASSUME FaithInv, NEW r \in Requests, NEW v, NEW w,
         rec' = [rec EXCEPT ![r] = v], out' = [out EXCEPT ![r] = w],
         UNCHANGED <<now, m, key, body, pc, hpc, deadline, timedOut, executions>>,
         hpc[r] = "run",
         v \in Response, w \in Response,
         Open(r) => Grown(r, v, w),
         ~Open(r) => w = out[r]
  PROVE  FaithInv'
<1>1. pc[r] \notin {"new", "sent"}
  BY DEF FaithInv, Carried
<1>2. /\ rec \in [Requests -> Response] /\ out \in [Requests -> Response]
  BY DEF FaithInv, TypeOK
<1>3. \A q \in Requests : /\ q # r => rec'[q] = rec[q] /\ out'[q] = out[q]
                          /\ q = r => rec'[q] = v /\ out'[q] = w
  BY <1>2
<1>4. \A q \in Requests :
        pc[q] \in {"select", "returned", "committed", "answered", "replayed"} =>
          /\ out[q].status # 0 => out'[q].status = out[q].status
          /\ out[q].chunks <= out'[q].chunks
  BY <1>2, <1>3 DEF Grown, Response
<1>5. \A q \in Requests : pc[q] \in {"answered", "replayed"} => out'[q] = out[q]
  BY <1>2, <1>3 DEF Open
<1>6. TypeOK'
  BY <1>2 DEF FaithInv, TypeOK
<1>7. Carried' /\ Claims'
  BY <1>1, <1>3 DEF FaithInv, Carried, Claims
<1>8. Mirrored'
  BY <1>3 DEF FaithInv, Mirrored, Open, Grown
<1>9. \A k \in Keys : m[k] # None => m[k].owner \in Requests /\ m[k].chunks \in Nat
  BY DEF FaithInv, TypeOK, IdemRec
<1>10. Owned'
  <2> SUFFICES ASSUME NEW k \in Keys, m[k] # None, m[k].done
               PROVE  m[k].status = out'[m[k].owner].status /\ m[k].chunks <= out'[m[k].owner].chunks
    BY DEF FaithInv, Owned
  <2>1. PICK q \in Requests : q = m[k].owner
    BY <1>9
  <2>2. /\ pc[q] \in {"committed", "answered"}
        /\ m[k].status # 0 /\ m[k].status = out[q].status
        /\ m[k].chunks <= out[q].chunks
    BY <2>1 DEF FaithInv, Owned
  <2>3. out'[q] \in Response /\ out[q] \in Response
    BY <1>2, <1>3
  <2>4. out[q].chunks \in Nat /\ out'[q].chunks \in Nat /\ m[k].chunks \in Nat
    BY <1>9, <2>3 DEF Response
  <2>q. QED BY <1>4, <2>1, <2>2, <2>4
<1>11. Replayed'
  <2> SUFFICES ASSUME NEW s \in Requests, pc[s] = "replayed"
               PROVE  /\ out'[s].status # 0
                      /\ \E q \in Requests \ {s} :
                           /\ key[q] = key[s] /\ body[q] = body[s]
                           /\ pc[q] \in {"committed", "answered"}
                           /\ out'[q].status = out'[s].status /\ out'[s].chunks <= out'[q].chunks
    BY DEF FaithInv, Replayed
  <2>1. PICK q \in Requests \ {s} :
          /\ key[q] = key[s] /\ body[q] = body[s]
          /\ pc[q] \in {"committed", "answered"}
          /\ out[q].status = out[s].status /\ out[s].chunks <= out[q].chunks
    BY DEF FaithInv, Replayed
  <2>2. out[s].status # 0 /\ out'[s] = out[s]
    BY <1>5 DEF FaithInv, Replayed
  <2>3. out[s].chunks \in Nat /\ out[q].chunks \in Nat /\ out'[q].chunks \in Nat
    BY <1>2, <1>3 DEF Response
  <2>q. QED BY <1>4, <2>1, <2>2, <2>3
<1>q. QED BY <1>6, <1>7, <1>8, <1>10, <1>11 DEF FaithInv

LEMMA HandlerKeepsFaith ==
  ASSUME FaithInv, NEW r \in Requests,
         \/ \E code \in Codes : HandlerWriteHeader(r, code)
         \/ HandlerWrite(r)
  PROVE  FaithInv'
<1>1. rec[r] \in Response /\ out[r] \in Response
  BY DEF FaithInv, TypeOK
<1>2. /\ UNCHANGED <<now, m, key, body, pc, hpc, deadline, timedOut, executions>>
      /\ hpc[r] = "run"
  BY DEF HandlerWriteHeader, HandlerWrite
<1>3. Open(r) => rec[r].status = out[r].status /\ rec[r].chunks <= out[r].chunks
  BY DEF Open, FaithInv, Mirrored
<1>4. rec = [rec EXCEPT ![r] = rec[r]] /\ out = [out EXCEPT ![r] = out[r]]
  BY DEF FaithInv, TypeOK
<1>5. rec[r].chunks \in Nat /\ out[r].chunks \in Nat
  BY <1>1 DEF Response
<1>6. CASE UNCHANGED <<rec, out>>
  <2>1. Open(r) => Grown(r, rec[r], out[r])
    BY <1>1, <1>3, <1>5 DEF Grown
  <2>2. rec' = [rec EXCEPT ![r] = rec[r]] /\ out' = [out EXCEPT ![r] = out[r]]
    BY <1>4, <1>6
  <2>q. QED BY <1>1, <1>2, <2>1, <2>2, WritingKeepsFaith
<1>7. ASSUME NEW code \in Codes, HandlerWriteHeader(r, code), ~timedOut[r]
      PROVE  FaithInv'
  <2>1. code \in Nat \ {0}
    BY IdemAssumption
  <2>2. PICK v, w : /\ v = RecordHeader(rec[r], code)
                    /\ w = IF Open(r) THEN Headed(out[r], code) ELSE out[r]
    OBVIOUS
  <2>3. v \in Response /\ w \in Response
    BY <1>1, <2>1, <2>2, Writers
  <2>4. Open(r) => Grown(r, v, w)
    <3>1. Headed(out[r], code).chunks = out[r].chunks
      BY <1>1, <2>1, Writers
    <3>q. QED BY <1>1, <1>3, <1>5, <2>1, <2>2, <2>3, <3>1, Writers DEF Grown
  <2>5. rec' = [rec EXCEPT ![r] = v] /\ out' = [out EXCEPT ![r] = w]
    BY <1>4, <1>7, <2>2 DEF HandlerWriteHeader
  <2>6. ~Open(r) => w = out[r]
    BY <2>2
  <2>q. QED BY <1>2, <2>3, <2>4, <2>5, <2>6, WritingKeepsFaith
<1>8. ASSUME HandlerWrite(r), ~timedOut[r] PROVE FaithInv'
  <2>1. OK \in Nat \ {0}
    BY DEF OK
  <2>2. PICK v, w : /\ v = RecordWrite(rec[r])
                    /\ w = IF Open(r) THEN Written(out[r]) ELSE out[r]
    OBVIOUS
  <2>3. v \in Response /\ w \in Response
    BY <1>1, <2>1, <2>2, Writers
  <2>4. Open(r) => Grown(r, v, w)
    <3>1. Written(out[r]).chunks = out[r].chunks + 1
      BY <1>1, <2>1, Writers
    <3>q. QED BY <1>1, <1>3, <1>5, <2>1, <2>2, <2>3, <3>1, Writers DEF Grown
  <2>5. rec' = [rec EXCEPT ![r] = v] /\ out' = [out EXCEPT ![r] = w]
    BY <1>4, <1>8, <2>2 DEF HandlerWrite
  <2>6. ~Open(r) => w = out[r]
    BY <2>2
  <2>q. QED BY <1>2, <2>3, <2>4, <2>5, <2>6, WritingKeepsFaith
<1>q. QED BY <1>6, <1>7, <1>8 DEF HandlerWriteHeader, HandlerWrite

\* The claim a request makes is new to the store, and nobody being served or
\* already answered under the key loses a record that was still good.
LEMMA OwnKeepsFaith ==
  ASSUME FaithInv, NEW r \in Requests, Own(r)
  PROVE  FaithInv'
<1>1. key[r] \in Keys /\ body[r] \in Bodies /\ pc[r] = "sent"
  BY DEF FaithInv, Carried, Own
<1>2. m[key[r]] = None \/ now > m[key[r]].exp
  BY DEF Own, BeginAnswer, Free
<1>3. now \in Nat /\ now + TTL \in Nat /\ now + HandlerTimeout \in Nat
  BY IdemAssumption DEF FaithInv, TypeOK
<1>4. /\ Claimed(r) \in IdemRec /\ Claimed(r) # None
      /\ Claimed(r).exp = now + TTL /\ Claimed(r).owner = r /\ ~Claimed(r).done
      /\ Claimed(r).hash = body[r]
  <2>1. Claimed(r) \in IdemRec
    BY <1>1, <1>3 DEF Claimed, IdemRec
  <2>q. QED BY <2>1, IdemAssumption DEF Claimed
<1>5. /\ m' = [m EXCEPT ![key[r]] = Claimed(r)]
      /\ UNCHANGED <<now, key, body, timedOut>>
  BY DEF Own
<1>6. \A k \in Keys : m'[k] = IF k = key[r] THEN Claimed(r) ELSE m[k]
  BY <1>1, <1>5 DEF FaithInv, TypeOK
<1>7. rec[r] = Silent /\ out[r] = Silent /\ Silent \in Response
  BY <1>1 DEF FaithInv, Carried, Silent, Response
<1>8. PICK p, v, w :
        /\ pc' = [pc EXCEPT ![r] = p] /\ p \in {"select", "returned"}
        /\ rec' = [rec EXCEPT ![r] = v] /\ out' = [out EXCEPT ![r] = w]
        /\ v \in Response /\ w \in Response
        /\ v.status = w.status /\ v.chunks <= w.chunks
        /\ \/ p = "returned" /\ UNCHANGED <<hpc, deadline, executions>>
           \/ /\ p = "select"
              /\ hpc' = [hpc EXCEPT ![r] = "run"]
              /\ deadline' = [deadline EXCEPT ![r] = now + HandlerTimeout]
              /\ executions' = executions \cup {[req |-> r, key |-> key[r], at |-> now]}
  <2>1. CASE body[r] \in Oversize
    <3>1. TooLarge \in Nat \ {0}
      BY DEF TooLarge
    <3>2. PICK h, g : h = RecordHeader(Silent, TooLarge) /\ g = Headed(Silent, TooLarge)
      OBVIOUS
    <3>3. h \in Response /\ g \in Response /\ h.status = g.status /\ h.chunks <= g.chunks
      BY <1>7, <3>1, <3>2, Writers DEF Silent
    <3>4. PICK v, w : v = RecordWrite(h) /\ w = Written(g)
      OBVIOUS
    <3>5. v \in Response /\ w \in Response /\ v.status = w.status /\ v.chunks <= w.chunks
      BY <3>1, <3>3, <3>4, Writers
    <3>6. /\ pc' = [pc EXCEPT ![r] = "returned"]
          /\ rec' = [rec EXCEPT ![r] = v] /\ out' = [out EXCEPT ![r] = w]
          /\ UNCHANGED <<hpc, deadline, executions>>
      BY <1>7, <2>1, <3>2, <3>4 DEF Own, Serve
    <3>q. QED BY <3>5, <3>6
  <2>2. CASE body[r] \notin Oversize
    <3>1. Silent.status = Silent.status /\ Silent.chunks <= Silent.chunks
      BY DEF Silent
    <3>2. rec = [rec EXCEPT ![r] = Silent] /\ out = [out EXCEPT ![r] = Silent]
      BY <1>7 DEF FaithInv, TypeOK
    <3>3. /\ pc' = [pc EXCEPT ![r] = "select"]
          /\ rec' = [rec EXCEPT ![r] = Silent] /\ out' = [out EXCEPT ![r] = Silent]
          /\ hpc' = [hpc EXCEPT ![r] = "run"]
          /\ deadline' = [deadline EXCEPT ![r] = now + HandlerTimeout]
          /\ executions' = executions \cup {[req |-> r, key |-> key[r], at |-> now]}
      BY <2>2, <3>2 DEF Own, Serve
    <3>q. QED BY <1>7, <3>1, <3>3
  <2>q. QED BY <2>1, <2>2
<1>9. \A q \in Requests :
        /\ pc'[q] = IF q = r THEN p ELSE pc[q]
        /\ rec'[q] = IF q = r THEN v ELSE rec[q]
        /\ out'[q] = IF q = r THEN w ELSE out[q]
        /\ q # r => hpc'[q] = hpc[q] /\ deadline'[q] = deadline[q]
  BY <1>8 DEF FaithInv, TypeOK
<1>10. p = "select" => deadline'[r] = now + HandlerTimeout
  BY <1>8 DEF FaithInv, TypeOK
<1>11. TypeOK'
  <2>1. m' \in [Keys -> IdemRec \cup {None}]
    BY <1>1, <1>4, <1>5 DEF FaithInv, TypeOK
  <2>2. executions' \subseteq [req : Requests, key : Keys, at : Nat]
    BY <1>1, <1>3, <1>8 DEF FaithInv, TypeOK
  <2>3. hpc' \in [Requests -> {"idle", "run", "done"}] /\ deadline' \in [Requests -> Nat]
    BY <1>3, <1>8 DEF FaithInv, TypeOK
  <2>4. pc' \in [Requests -> {"new", "sent", "select", "returned", "committed"} \cup Ended]
    BY <1>8 DEF FaithInv, TypeOK
  <2>5. rec' \in [Requests -> Response] /\ out' \in [Requests -> Response]
    BY <1>8 DEF FaithInv, TypeOK
  <2>q. QED BY <1>5, <2>1, <2>2, <2>3, <2>4, <2>5 DEF FaithInv, TypeOK
<1>12. Carried'
  BY <1>1, <1>5, <1>8, <1>9 DEF FaithInv, Carried
<1>13. Mirrored'
  BY <1>8, <1>9 DEF FaithInv, Mirrored
<1>14. Claims'
  <2> SUFFICES ASSUME NEW q \in Requests, pc'[q] \in {"select", "returned"}
               PROVE  /\ m'[key[q]] # None /\ m'[key[q]].owner = q /\ ~m'[key[q]].done
                      /\ now < m'[key[q]].exp
                      /\ pc'[q] = "select" => now <= deadline'[q] /\ deadline'[q] < m'[key[q]].exp
    BY <1>5 DEF Claims
  <2>1. CASE q = r
    BY <1>1, <1>3, <1>4, <1>6, <1>8, <1>9, <1>10, <2>1, IdemAssumption
  <2>2. CASE q # r
    <3>1. /\ key[q] \in Keys /\ m[key[q]] # None /\ now < m[key[q]].exp
          /\ pc'[q] = pc[q] /\ deadline'[q] = deadline[q]
      BY <1>9, <2>2 DEF FaithInv, Carried, Claims
    <3>2. m[key[q]].exp \in Nat
      BY <3>1 DEF FaithInv, TypeOK, IdemRec
    <3>3. key[q] # key[r]
      BY <1>2, <1>3, <3>1, <3>2
    <3>q. QED BY <1>6, <1>9, <2>2, <3>1, <3>3 DEF FaithInv, Claims
  <2>q. QED BY <2>1, <2>2
<1>15. Owned'
  <2> SUFFICES ASSUME NEW k \in Keys, m'[k] # None, NEW q, q = m'[k].owner
               PROVE  /\ key[q] = k /\ body[q] = m'[k].hash
                      /\ pc'[q] \in {"select", "returned", "committed", "answered"}
                      /\ m'[k].done => /\ pc'[q] \in {"committed", "answered"}
                                       /\ m'[k].status # 0 /\ m'[k].status = out'[q].status
                                       /\ m'[k].chunks <= out'[q].chunks
    BY <1>5 DEF Owned
  <2>1. CASE k = key[r]
    BY <1>1, <1>4, <1>6, <1>8, <1>9, <2>1
  <2>2. CASE k # key[r]
    <3>1. m'[k] = m[k]
      BY <1>6, <2>2
    <3>2. q \in Requests
      BY <3>1 DEF FaithInv, TypeOK, IdemRec
    <3>3. /\ key[q] = k /\ body[q] = m[k].hash
          /\ pc[q] \in {"select", "returned", "committed", "answered"}
          /\ m[k].done => /\ pc[q] \in {"committed", "answered"}
                          /\ m[k].status # 0 /\ m[k].status = out[q].status
                          /\ m[k].chunks <= out[q].chunks
      BY <3>1 DEF FaithInv, Owned
    <3>4. q # r
      BY <1>1, <3>3
    <3>q. QED BY <1>9, <3>1, <3>2, <3>3, <3>4
  <2>q. QED BY <2>1, <2>2
<1>16. Replayed'
  BY <1>1, <1>5, <1>8, <1>9 DEF FaithInv, Replayed
<1>q. QED BY <1>11, <1>12, <1>13, <1>14, <1>15, <1>16 DEF FaithInv

\* A Commit writes the committer's own claim, with what its client is getting.
LEMMA FinishKeepsFaith ==
  ASSUME FaithInv, NEW r \in Requests, Finish(r)
  PROVE  FaithInv'
<1>1. key[r] \in Keys /\ body[r] \in Bodies /\ pc[r] = "returned"
  BY DEF FaithInv, Carried, Finish
<1>2. m[key[r]] # None /\ m[key[r]].owner = r /\ m[key[r]] \in IdemRec
  BY <1>1 DEF FaithInv, TypeOK, Claims
<1>3. /\ rec[r].status = out[r].status /\ rec[r].chunks <= out[r].chunks
      /\ rec[r] \in Response /\ out[r] \in Response
  BY <1>1 DEF FaithInv, TypeOK, Mirrored
<1>4. /\ UNCHANGED <<now, key, body, hpc, deadline, timedOut, rec, out, executions>>
      /\ pc' = [pc EXCEPT ![r] = "committed"]
  BY DEF Finish
<1>5. \A q \in Requests : pc'[q] = IF q = r THEN "committed" ELSE pc[q]
  BY <1>4 DEF FaithInv, TypeOK
<1>6. PICK d : /\ m' = [m EXCEPT ![key[r]] = d]
               /\ d \in IdemRec /\ d # None /\ d.owner = r /\ d.hash = m[key[r]].hash
               /\ \/ d.done /\ d.status = rec[r].status /\ d.status # 0 /\ d.chunks = rec[r].chunks
                  \/ d = m[key[r]]
  <2>1. CASE Remembered(r)
    <3>1. m[key[r]].hash = body[r]
      BY <1>1, <1>2 DEF FaithInv, Owned
    <3>2. now + TTL \in Nat
      BY IdemAssumption DEF FaithInv, TypeOK
    <3>3. PICK d : d = [m[key[r]] EXCEPT !.done = TRUE, !.status = rec[r].status,
                                         !.chunks = rec[r].chunks, !.exp = now + TTL]
      OBVIOUS
    <3>4. m' = [m EXCEPT ![key[r]] = d]
      BY <1>2, <2>1, <3>1, <3>3 DEF Finish, Committed
    <3>5. /\ d \in IdemRec /\ d.owner = r /\ d.hash = m[key[r]].hash
          /\ d.done /\ d.status = rec[r].status /\ d.chunks = rec[r].chunks
      BY <1>2, <1>3, <3>2, <3>3 DEF IdemRec, Response
    <3>6. d # None
      BY <3>5, IdemAssumption
    <3>q. QED BY <2>1, <3>4, <3>5, <3>6 DEF Remembered
  <2>2. CASE ~Remembered(r)
    <3>1. m' = [m EXCEPT ![key[r]] = m[key[r]]]
      BY <2>2 DEF Finish, FaithInv, TypeOK
    <3>q. QED BY <1>2, <3>1
  <2>q. QED BY <2>1, <2>2
<1>7. \A k \in Keys : m'[k] = IF k = key[r] THEN d ELSE m[k]
  BY <1>6 DEF FaithInv, TypeOK
<1>8. TypeOK'
  BY <1>1, <1>4, <1>6 DEF FaithInv, TypeOK
<1>9. Carried' /\ Mirrored'
  BY <1>1, <1>4, <1>5 DEF FaithInv, Carried, Mirrored
<1>10. Claims'
  <2> SUFFICES ASSUME NEW q \in Requests, pc'[q] \in {"select", "returned"}
               PROVE  m'[key[q]] = m[key[q]] /\ pc'[q] = pc[q]
    BY <1>4 DEF FaithInv, Claims
  <2>1. q # r /\ pc'[q] = pc[q]
    BY <1>5
  <2>2. key[q] \in Keys /\ m[key[q]].owner = q
    BY <2>1 DEF FaithInv, Carried, Claims
  <2>q. QED BY <1>2, <1>7, <2>1, <2>2
<1>11. Owned'
  <2> SUFFICES ASSUME NEW k \in Keys, m'[k] # None, NEW q, q = m'[k].owner
               PROVE  /\ key[q] = k /\ body[q] = m'[k].hash
                      /\ pc'[q] \in {"select", "returned", "committed", "answered"}
                      /\ m'[k].done => /\ pc'[q] \in {"committed", "answered"}
                                       /\ m'[k].status # 0 /\ m'[k].status = out[q].status
                                       /\ m'[k].chunks <= out[q].chunks
    BY <1>4 DEF Owned
  <2>1. CASE k = key[r]
    <3>1. m'[k] = d /\ q = r /\ pc'[q] = "committed"
      BY <1>1, <1>5, <1>6, <1>7, <2>1
    <3>2. body[r] = m[key[r]].hash
      BY <1>1, <1>2 DEF FaithInv, Owned
    <3>3. ~m[key[r]].done
      BY <1>1 DEF FaithInv, Claims
    <3>q. QED BY <1>3, <1>6, <2>1, <3>1, <3>2, <3>3
  <2>2. CASE k # key[r]
    <3>1. m'[k] = m[k]
      BY <1>7, <2>2
    <3>2. q \in Requests
      BY <3>1 DEF FaithInv, TypeOK, IdemRec
    <3>q. QED BY <1>1, <1>5, <3>1, <3>2 DEF FaithInv, Owned
  <2>q. QED BY <2>1, <2>2
<1>12. Replayed'
  BY <1>1, <1>4, <1>5 DEF FaithInv, Replayed
<1>q. QED BY <1>8, <1>9, <1>10, <1>11, <1>12 DEF FaithInv

\* A replay takes a finished record, which holds what its owner was answered.
LEMMA ReplayKeepsFaith ==
  ASSUME FaithInv, NEW r \in Requests, Replay(r)
  PROVE  FaithInv'
<1>1. key[r] \in Keys /\ body[r] \in Bodies /\ pc[r] = "sent"
  BY DEF FaithInv, Carried, Replay
<1>2. m[key[r]] # None /\ m[key[r]].done /\ m[key[r]].hash = body[r]
  BY <1>1 DEF Replay, BeginAnswer, Free
<1>3. PICK q \in Requests : q = m[key[r]].owner
  BY <1>1, <1>2 DEF FaithInv, TypeOK, IdemRec
<1>4. PICK w : w = [status |-> m[key[r]].status, chunks |-> m[key[r]].chunks]
  OBVIOUS
<1>5. /\ key[q] = key[r] /\ body[q] = body[r] /\ pc[q] \in {"committed", "answered"}
      /\ w.status # 0 /\ out[q].status = w.status /\ w.chunks <= out[q].chunks
  BY <1>1, <1>2, <1>3, <1>4 DEF FaithInv, Owned
<1>6. w \in Response
  BY <1>1, <1>2, <1>4 DEF FaithInv, TypeOK, IdemRec, Response
<1>7. /\ UNCHANGED <<now, m, key, body, hpc, deadline, timedOut, rec, executions>>
      /\ pc' = [pc EXCEPT ![r] = "replayed"] /\ out' = [out EXCEPT ![r] = w]
  BY <1>4 DEF Replay
<1>8. \A s \in Requests : /\ pc'[s] = IF s = r THEN "replayed" ELSE pc[s]
                          /\ out'[s] = IF s = r THEN w ELSE out[s]
  BY <1>7 DEF FaithInv, TypeOK
<1>9. TypeOK'
  BY <1>6, <1>7 DEF FaithInv, TypeOK, Ended
<1>10. Carried' /\ Mirrored' /\ Claims'
  BY <1>1, <1>7, <1>8 DEF FaithInv, Carried, Mirrored, Claims
<1>11. Owned'
  <2>1. \A k \in Keys : m[k] # None => m[k].owner \in Requests /\ m[k].owner # r
    BY <1>1 DEF FaithInv, TypeOK, Owned, IdemRec
  <2>q. QED BY <1>7, <1>8, <2>1 DEF FaithInv, Owned
<1>12. Replayed'
  <2> SUFFICES ASSUME NEW s \in Requests, pc'[s] = "replayed"
               PROVE  /\ out'[s].status # 0
                      /\ \E t \in Requests \ {s} :
                           /\ key[t] = key[s] /\ body[t] = body[s]
                           /\ pc'[t] \in {"committed", "answered"}
                           /\ out'[t].status = out'[s].status /\ out'[s].chunks <= out'[t].chunks
    BY <1>7 DEF Replayed
  <2>1. CASE s = r
    <3>1. q # r
      BY <1>1, <1>5
    <3>q. QED BY <1>5, <1>8, <2>1, <3>1
  <2>2. CASE s # r
    <3>1. pc[s] = "replayed"
      BY <1>8, <2>2
    <3>2. PICK t \in Requests \ {s} :
            /\ key[t] = key[s] /\ body[t] = body[s]
            /\ pc[t] \in {"committed", "answered"}
            /\ out[t].status = out[s].status /\ out[s].chunks <= out[t].chunks
      BY <3>1 DEF FaithInv, Replayed
    <3>3. t # r
      BY <1>1, <3>2
    <3>q. QED BY <1>8, <2>2, <3>1, <3>2, <3>3 DEF FaithInv, Replayed
  <2>q. QED BY <2>1, <2>2
<1>q. QED BY <1>9, <1>10, <1>11, <1>12 DEF FaithInv

\* The timer: the timeout's answer goes to the recorder as it goes to the client.
LEMMA TimerKeepsFaith ==
  ASSUME FaithInv, NEW r \in Requests, SelectTimer(r)
  PROVE  FaithInv'
<1>1. pc[r] = "select" /\ rec[r] \in Response /\ out[r] \in Response
  BY DEF FaithInv, TypeOK, SelectTimer
<1>2. rec[r].status = out[r].status /\ rec[r].chunks <= out[r].chunks
  BY <1>1 DEF FaithInv, Mirrored
<1>3. rec[r].chunks \in Nat /\ out[r].chunks \in Nat
  BY <1>1 DEF Response
<1>4. PICK v, w : /\ rec' = [rec EXCEPT ![r] = v] /\ out' = [out EXCEPT ![r] = w]
                  /\ Grown(r, v, w)
  <2>1. CASE Wrote(r)
    <3>1. Grown(r, rec[r], out[r])
      BY <1>1, <1>2, <1>3 DEF Grown
    <3>2. rec' = [rec EXCEPT ![r] = rec[r]] /\ out' = [out EXCEPT ![r] = out[r]]
      BY <2>1 DEF SelectTimer, FaithInv, TypeOK
    <3>q. QED BY <3>1, <3>2
  <2>2. CASE ~Wrote(r)
    <3>1. GatewayTimeout \in Nat \ {0}
      BY DEF GatewayTimeout
    <3>2. PICK h, g : h = RecordHeader(rec[r], GatewayTimeout) /\ g = Headed(out[r], GatewayTimeout)
      OBVIOUS
    <3>3. /\ h \in Response /\ g \in Response /\ h.status = g.status /\ h.chunks <= g.chunks
          /\ g.chunks = out[r].chunks
      BY <1>1, <1>2, <3>1, <3>2, Writers
    <3>4. PICK v, w : v = RecordWrite(h) /\ w = Written(g)
      OBVIOUS
    <3>5. /\ v \in Response /\ w \in Response /\ v.status = w.status /\ v.chunks <= w.chunks
          /\ w.chunks = g.chunks + 1
      BY <3>1, <3>3, <3>4, Writers
    <3>6. Grown(r, v, w)
      BY <1>3, <2>2, <3>3, <3>5 DEF Grown, Wrote
    <3>7. rec' = [rec EXCEPT ![r] = v] /\ out' = [out EXCEPT ![r] = w]
      BY <2>2, <3>2, <3>4 DEF SelectTimer
    <3>q. QED BY <3>6, <3>7
  <2>q. QED BY <2>1, <2>2
<1>5. /\ UNCHANGED <<now, m, key, body, hpc, deadline, executions>>
      /\ pc' = [pc EXCEPT ![r] = "returned"]
  BY DEF SelectTimer
<1>6. \A q \in Requests : /\ pc'[q] = IF q = r THEN "returned" ELSE pc[q]
                          /\ rec'[q] = IF q = r THEN v ELSE rec[q]
                          /\ out'[q] = IF q = r THEN w ELSE out[q]
  BY <1>4, <1>5 DEF FaithInv, TypeOK
<1>7. TypeOK'
  <2>1. timedOut' \in [Requests -> BOOLEAN]
    BY DEF FaithInv, TypeOK, SelectTimer, Wrote
  <2>2. rec' \in [Requests -> Response] /\ out' \in [Requests -> Response]
    BY <1>4 DEF FaithInv, TypeOK, Grown
  <2>3. pc' \in [Requests -> {"new", "sent", "select", "returned", "committed"} \cup Ended]
    BY <1>5 DEF FaithInv, TypeOK
  <2>q. QED BY <1>5, <2>1, <2>2, <2>3 DEF FaithInv, TypeOK
<1>8. Carried' /\ Claims'
  BY <1>1, <1>5, <1>6 DEF FaithInv, Carried, Claims
<1>9. Mirrored'
  BY <1>4, <1>6 DEF FaithInv, Mirrored, Grown
<1>10. Owned'
  <2>1. \A k \in Keys : m[k] # None => /\ m[k].owner \in Requests
                                       /\ m[k].owner = r => ~m[k].done
    BY <1>1 DEF FaithInv, TypeOK, Owned, IdemRec
  <2>q. QED BY <1>5, <1>6, <2>1 DEF FaithInv, Owned
<1>11. Replayed'
  BY <1>1, <1>5, <1>6 DEF FaithInv, Replayed
<1>q. QED BY <1>7, <1>8, <1>9, <1>10, <1>11 DEF FaithInv

LEMMA NextKeepsFaith == FaithInv /\ [Next]_vars => FaithInv'
<1> SUFFICES ASSUME FaithInv, [Next]_vars PROVE FaithInv'
  OBVIOUS
<1>1. ASSUME NEW r \in Requests, NEW k \in Keys, NEW b \in Bodies, Send(r, k, b) PROVE FaithInv'
  <2>1. \A q \in Requests : /\ pc'[q] = IF q = r THEN "sent" ELSE pc[q]
                            /\ key'[q] = IF q = r THEN k ELSE key[q]
                            /\ body'[q] = IF q = r THEN b ELSE body[q]
    BY <1>1 DEF Send, FaithInv, TypeOK
  <2>2. pc[r] = "new" /\ UNCHANGED <<now, m, hpc, deadline, timedOut, rec, out, executions>>
    BY <1>1 DEF Send
  <2>3. TypeOK'
    BY <1>1 DEF Send, FaithInv, TypeOK
  <2>4. Carried' /\ Mirrored' /\ Claims'
    BY <2>1, <2>2 DEF FaithInv, Carried, Mirrored, Claims
  <2>5. Owned'
    <3>1. \A l \in Keys : m[l] # None => m[l].owner \in Requests /\ m[l].owner # r
      BY <2>2 DEF FaithInv, TypeOK, Owned, IdemRec
    <3>q. QED BY <2>1, <2>2, <3>1 DEF FaithInv, Owned
  <2>6. Replayed'
    BY <2>1, <2>2 DEF FaithInv, Replayed
  <2>q. QED BY <2>3, <2>4, <2>5, <2>6 DEF FaithInv
<1>2. ASSUME NEW r \in Requests, Refuse(r) PROVE FaithInv'
  <2>1. PICK w : w = [status |-> Conflict, chunks |-> 1]
    OBVIOUS
  <2>2. w \in Response
    BY <2>1 DEF Response, Conflict
  <2>3. /\ pc[r] = "sent" /\ UNCHANGED <<now, m, key, body, hpc, deadline, timedOut, rec, executions>>
        /\ pc' = [pc EXCEPT ![r] = "answered"] /\ out' = [out EXCEPT ![r] = w]
    BY <1>2, <2>1 DEF Refuse
  <2>4. \A q \in Requests : /\ pc'[q] = IF q = r THEN "answered" ELSE pc[q]
                            /\ out'[q] = IF q = r THEN w ELSE out[q]
    BY <2>3 DEF FaithInv, TypeOK
  <2>5. TypeOK'
    BY <2>2, <2>3 DEF FaithInv, TypeOK, Ended
  <2>6. Carried' /\ Mirrored' /\ Claims'
    BY <2>3, <2>4 DEF FaithInv, Carried, Mirrored, Claims
  <2>7. Owned'
    <3>1. \A l \in Keys : m[l] # None => m[l].owner \in Requests /\ m[l].owner # r
      BY <2>3 DEF FaithInv, TypeOK, Owned, IdemRec
    <3>q. QED BY <2>3, <2>4, <3>1 DEF FaithInv, Owned
  <2>8. Replayed'
    BY <2>3, <2>4 DEF FaithInv, Replayed
  <2>q. QED BY <2>5, <2>6, <2>7, <2>8 DEF FaithInv
<1>3. ASSUME NEW r \in Requests, SelectDone(r) PROVE FaithInv'
  <2>1. /\ pc[r] = "select" /\ pc' = [pc EXCEPT ![r] = "returned"]
        /\ UNCHANGED <<now, m, key, body, hpc, deadline, timedOut, rec, out, executions>>
    BY <1>3 DEF SelectDone
  <2>2. \A q \in Requests : pc'[q] = IF q = r THEN "returned" ELSE pc[q]
    BY <2>1 DEF FaithInv, TypeOK
  <2>3. TypeOK'
    BY <2>1 DEF FaithInv, TypeOK
  <2>4. Carried' /\ Mirrored' /\ Claims' /\ Replayed'
    BY <2>1, <2>2 DEF FaithInv, Carried, Mirrored, Claims, Replayed
  <2>5. Owned'
    BY <2>1, <2>2 DEF FaithInv, TypeOK, Owned, IdemRec
  <2>q. QED BY <2>3, <2>4, <2>5 DEF FaithInv
<1>4. ASSUME NEW r \in Requests, Answer(r) PROVE FaithInv'
  <2>1. PICK w : w = Headed(out[r], OK)
    OBVIOUS
  <2>2. w \in Response /\ w.chunks = out[r].chunks /\ (out[r].status # 0 => w.status = out[r].status)
    <3>1. OK \in Nat \ {0} /\ out[r] \in Response
      BY DEF OK, FaithInv, TypeOK
    <3>q. QED BY <2>1, <3>1, Writers
  <2>3. /\ pc[r] = "committed" /\ UNCHANGED <<now, m, key, body, hpc, deadline, timedOut, rec, executions>>
        /\ pc' = [pc EXCEPT ![r] = "answered"] /\ out' = [out EXCEPT ![r] = w]
    BY <1>4, <2>1 DEF Answer
  <2>4. \A q \in Requests : /\ pc'[q] = IF q = r THEN "answered" ELSE pc[q]
                            /\ out'[q] = IF q = r THEN w ELSE out[q]
    BY <2>3 DEF FaithInv, TypeOK
  <2>5. TypeOK'
    BY <2>2, <2>3 DEF FaithInv, TypeOK, Ended
  <2>6. Carried' /\ Mirrored' /\ Claims'
    BY <2>3, <2>4 DEF FaithInv, Carried, Mirrored, Claims
  <2>7. Owned'
    <3>1. \A l \in Keys : m[l] # None => m[l].owner \in Requests
      BY DEF FaithInv, TypeOK, IdemRec
    <3>q. QED BY <2>2, <2>3, <2>4, <3>1 DEF FaithInv, Owned
  <2>8. Replayed'
    BY <2>2, <2>3, <2>4 DEF FaithInv, Replayed
  <2>q. QED BY <2>5, <2>6, <2>7, <2>8 DEF FaithInv
<1>5. ASSUME NEW r \in Requests, HandlerReturn(r) PROVE FaithInv'
  <2>1. pc[r] \notin {"new", "sent"}
    BY <1>5 DEF HandlerReturn, FaithInv, Carried
  <2>q. QED
    BY <1>5, <2>1 DEF HandlerReturn, FaithInv, TypeOK, Carried, Mirrored, Claims, Owned, Replayed
<1>6. CASE Tick
  <2>1. TypeOK'
    BY <1>6, IdemAssumption DEF Tick, FaithInv, TypeOK
  <2>2. Claims'
    <3> SUFFICES ASSUME NEW r \in Requests, pc[r] \in {"select", "returned"}
                 PROVE  now + 1 < m[key[r]].exp /\ now + 1 <= deadline[r]
      BY <1>6 DEF Tick, FaithInv, Claims
    <3>1. pc[r] = "select" /\ now < deadline[r] /\ deadline[r] < m[key[r]].exp
      BY <1>6 DEF Tick, FaithInv, Claims
    <3>2. key[r] \in Keys /\ m[key[r]] \in IdemRec
      BY <3>1 DEF FaithInv, TypeOK, Carried, Claims
    <3>3. now \in Nat /\ deadline[r] \in Nat /\ m[key[r]].exp \in Nat
      BY <3>2 DEF FaithInv, TypeOK, IdemRec
    <3>q. QED BY <3>1, <3>3
  <2>3. Carried' /\ Mirrored' /\ Owned' /\ Replayed'
    BY <1>6 DEF Tick, FaithInv, Carried, Mirrored, Owned, Replayed
  <2>q. QED BY <2>1, <2>2, <2>3 DEF FaithInv
<1>7. CASE UNCHANGED vars
  BY <1>7 DEF vars, FaithInv, TypeOK, Carried, Mirrored, Claims, Owned, Replayed
<1>q. QED
  BY <1>1, <1>2, <1>3, <1>4, <1>5, <1>6, <1>7, OwnKeepsFaith, ReplayKeepsFaith,
     TimerKeepsFaith, FinishKeepsFaith, HandlerKeepsFaith
     DEF Next, Clients, Gateway, Middleware

\* A replay repeats what the request that ran was answered, and what is stored
\* under a key is the answer of the request that holds the claim, however late
\* the handlers write and the Commits come.
THEOREM ReplaysAreFaithful == Spec => []ReplaysFaithful
<1>1. FaithInv => ReplaysFaithful
  BY DEF FaithInv, ReplaysFaithful, Replayed, Owned, ReplayRepeatsOwner, StoredIsOwners
<1>q. QED BY <1>1, InitFaith, NextKeepsFaith, PTL DEF Spec

-----------------------------------------------------------------------------
(* The promise to clients.                                                   *)
(*                                                                           *)
(* The steps of the gateway are steps of OncePerKey or change nothing in it: *)
(* what a request's part is follows from where its goroutine is, except that *)
(* a refused request and a served one both end answered.  They are told      *)
(* apart by the handler and the recorder, which a refused request never has. *)

\* A request that is being served, and one that holds a record, has a handler
\* or something in its recorder.
Served ==
  /\ \A r \in Requests : pc[r] \in {"select", "returned", "committed"} => ~Unserved(r)
  /\ \A k \in Keys : m[k] # None => ~Unserved(m[k].owner)

\* A replay has no handler.
Unattended == \A r \in Requests : pc[r] = "replayed" => hpc[r] = "idle"

OnceInv == ExecInv /\ FaithInv /\ Served /\ Unattended

\* The state of OncePerKey.
Sents == [r \in Requests |-> Carries(r)]
Parts == [r \in Requests |-> Part(r)]
Saids == [r \in Requests |-> out[r].status]
Told == Codes \cup {OK, Conflict, TooLarge, GatewayTimeout}

\* What was recorded has a status.
LEMMA RecordedStatus ==
  ASSUME NEW w \in Response, NEW c \in Nat \ {0}
  PROVE  /\ RecordHeader(w, c) \in Response /\ RecordHeader(w, c).status # 0
         /\ RecordWrite(w) \in Response /\ RecordWrite(w).status # 0
         /\ RecordWrite(RecordHeader(w, c)).status # 0
<1>1. \A v \in Response : /\ RecordHeader(v, c) \in Response /\ RecordHeader(v, c).status # 0
                          /\ RecordWrite(v) \in Response /\ RecordWrite(v).status # 0
  <2> SUFFICES ASSUME NEW v \in Response
               PROVE  /\ RecordHeader(v, c) \in Response /\ RecordHeader(v, c).status # 0
                      /\ RecordWrite(v) \in Response /\ RecordWrite(v).status # 0
    OBVIOUS
  <2>1. v.status = v.status /\ v.chunks <= v.chunks
    BY DEF Response
  <2>q. QED BY <2>1, Writers
<1>q. QED BY <1>1

\* Whoever has been served stays so.
LEMMA ServedStays ==
  ASSUME FaithInv, [Next]_vars, NEW q \in Requests, ~Unserved(q)
  PROVE  ~Unserved(q)'
<1>1. rec[q] \in Response /\ TooLarge \in Nat \ {0} /\ GatewayTimeout \in Nat \ {0}
  BY DEF FaithInv, TypeOK, TooLarge, GatewayTimeout
<1>2. ASSUME NEW r \in Requests, Own(r) PROVE ~Unserved(q)'
  <2>1. CASE q = r
    <3>1. Unserved(r)
      BY <1>2 DEF Own, Unserved, FaithInv, Carried, Silent
    <3>q. QED BY <2>1, <3>1
  <2>2. CASE q # r
    BY <1>2, <2>2 DEF Own, Serve, Unserved, FaithInv, TypeOK
  <2>q. QED BY <2>1, <2>2
<1>3. ASSUME NEW r \in Requests, SelectTimer(r) PROVE ~Unserved(q)'
  <2>1. hpc' = hpc /\ \/ rec' = rec
                      \/ rec' = [rec EXCEPT ![r] = RecordWrite(RecordHeader(@, GatewayTimeout))]
    BY <1>3 DEF SelectTimer
  <2>2. rec'[q] = rec[q] \/ rec'[q] = RecordWrite(RecordHeader(rec[q], GatewayTimeout))
    BY <2>1 DEF FaithInv, TypeOK
  <2>3. RecordWrite(RecordHeader(rec[q], GatewayTimeout)).status # 0
    BY <1>1, RecordedStatus
  <2>q. QED BY <2>1, <2>2, <2>3 DEF Unserved
<1>4. ASSUME NEW r \in Requests, \/ \E code \in Codes : HandlerWriteHeader(r, code)
                                 \/ HandlerWrite(r) \/ HandlerReturn(r)
      PROVE  ~Unserved(q)'
  <2>1. /\ hpc[r] = "run" /\ hpc' = [hpc EXCEPT ![r] = hpc'[r]] /\ hpc'[r] \in {"run", "done"}
        /\ \A p \in Requests : p # r => rec'[p] = rec[p]
    BY <1>4 DEF HandlerWriteHeader, HandlerWrite, HandlerReturn, FaithInv, TypeOK
  <2>q. QED BY <2>1 DEF Unserved, FaithInv, TypeOK
<1>5. CASE \/ \E r \in Requests : Refuse(r) \/ Replay(r) \/ SelectDone(r) \/ Finish(r) \/ Answer(r)
           \/ Clients \/ Tick \/ UNCHANGED vars
  BY <1>5 DEF Refuse, Replay, SelectDone, Finish, Answer, Clients, Send, Tick, vars, Unserved
<1>q. QED BY <1>2, <1>3, <1>4, <1>5 DEF Next, Gateway, Middleware

LEMMA OwnServes ==
  ASSUME FaithInv, NEW r \in Requests, Own(r)
  PROVE  ~Unserved(r)'
<1>1. rec \in [Requests -> Response] /\ hpc \in [Requests -> {"idle", "run", "done"}]
  BY DEF FaithInv, TypeOK
<1>2. CASE body[r] \in Oversize
  <2>1. rec' = [rec EXCEPT ![r] = RecordWrite(RecordHeader(@, TooLarge))]
    BY <1>2 DEF Own, Serve
  <2>2. rec'[r] = RecordWrite(RecordHeader(rec[r], TooLarge))
    BY <1>1, <2>1
  <2>3. rec[r] \in Response /\ TooLarge \in Nat \ {0}
    BY <1>1 DEF TooLarge
  <2>q. QED BY <2>2, <2>3, RecordedStatus DEF Unserved
<1>3. CASE body[r] \notin Oversize
  <2>1. hpc' = [hpc EXCEPT ![r] = "run"]
    BY <1>3 DEF Own, Serve
  <2>q. QED BY <1>1, <2>1 DEF Unserved
<1>q. QED BY <1>2, <1>3

\* Only a claim takes a request into service, or gives a record another owner.
LEMMA OnlyClaimsServe ==
  ASSUME FaithInv, [Next]_vars
  PROVE  /\ \A q \in Requests :
              pc'[q] \in {"select", "returned", "committed"} =>
                pc[q] \in {"select", "returned", "committed"} \/ Own(q)
         /\ \A k \in Keys :
              m'[k] # None => \/ m[k] # None /\ m'[k].owner = m[k].owner
                              \/ \E r \in Requests : Own(r) /\ m'[k].owner = r
<1> DEFINE Goal ==
      /\ \A q \in Requests :
              pc'[q] \in {"select", "returned", "committed"} =>
                pc[q] \in {"select", "returned", "committed"} \/ Own(q)
      /\ \A k \in Keys :
              m'[k] # None => \/ m[k] # None /\ m'[k].owner = m[k].owner
                              \/ \E r \in Requests : Own(r) /\ m'[k].owner = r
<1>1. /\ m \in [Keys -> IdemRec \cup {None}]
      /\ pc \in [Requests -> {"new", "sent", "select", "returned", "committed"} \cup Ended]
  BY DEF FaithInv, TypeOK
<1>2. ASSUME NEW r \in Requests, Own(r) PROVE Goal
  <2>1. \A q \in Requests : q # r => pc'[q] = pc[q]
    BY <1>1, <1>2 DEF Own, Serve
  <2>2. \A k \in Keys : m'[k] = IF k = key[r] THEN Claimed(r) ELSE m[k]
    BY <1>1, <1>2 DEF Own
  <2>3. Claimed(r).owner = r
    BY DEF Claimed
  <2>q. QED BY <1>2, <2>1, <2>2, <2>3
<1>3. ASSUME NEW r \in Requests, Finish(r) PROVE Goal
  <2>1. \A q \in Requests : pc'[q] = pc[q] \/ (q = r /\ pc[q] = "returned")
    BY <1>1, <1>3 DEF Finish
  <2>2. \A k \in Keys : m'[k] = m[k] \/ (m[k] # None /\ m'[k].owner = m[k].owner)
    <3>1. CASE m' = m
      BY <3>1
    <3>2. CASE m' # m
      <4>1. m[key[r]] # None
            /\ m' = [m EXCEPT ![key[r]] = [@ EXCEPT !.done = TRUE, !.status = rec[r].status,
                                       !.chunks = rec[r].chunks, !.exp = now + TTL]]
        BY <1>3, <3>2 DEF Finish, Committed
      <4> SUFFICES ASSUME NEW k \in Keys, m'[k] # m[k]
                   PROVE  m[k] # None /\ m'[k].owner = m[k].owner
        OBVIOUS
      <4>2. k = key[r] /\ m[k] \in IdemRec
        BY <1>1, <4>1
      <4>3. m'[k] = [m[k] EXCEPT !.done = TRUE, !.status = rec[r].status,
                                       !.chunks = rec[r].chunks, !.exp = now + TTL]
        BY <1>1, <4>1, <4>2
      <4>q. QED BY <4>1, <4>2, <4>3 DEF IdemRec
    <3>q. QED BY <3>1, <3>2
  <2>q. QED BY <2>1, <2>2
<1>4. ASSUME NEW r \in Requests, SelectDone(r) \/ SelectTimer(r) \/ Answer(r)
                                 \/ Refuse(r) \/ Replay(r) PROVE Goal
  <2>1. m' = m /\ \A q \in Requests : q # r => pc'[q] = pc[q]
    BY <1>1, <1>4 DEF SelectDone, SelectTimer, Answer, Refuse, Replay
  <2>2. pc[r] = "select" \/ pc'[r] \in {"answered", "replayed"}
    BY <1>1, <1>4 DEF SelectDone, SelectTimer, Answer, Refuse, Replay
  <2>q. QED BY <2>1, <2>2
<1>5. ASSUME NEW r \in Requests, \/ \E code \in Codes : HandlerWriteHeader(r, code)
                                 \/ HandlerWrite(r) \/ HandlerReturn(r)
      PROVE  Goal
  BY <1>5 DEF HandlerWriteHeader, HandlerWrite, HandlerReturn
<1>6. ASSUME NEW r \in Requests, NEW k \in Keys, NEW b \in Bodies, Send(r, k, b) PROVE Goal
  <2>1. m' = m /\ \A q \in Requests : pc'[q] = IF q = r THEN "sent" ELSE pc[q]
    BY <1>1, <1>6 DEF Send
  <2>q. QED BY <2>1
<1>7. CASE Tick \/ UNCHANGED vars
  BY <1>7 DEF Tick, vars
<1>8. Goal
  BY <1>2, <1>3, <1>4, <1>5, <1>6, <1>7 DEF Next, Gateway, Middleware, Clients
<1>q. QED BY <1>8

LEMMA ServedKept ==
  ASSUME OnceInv, [Next]_vars
  PROVE  Served'
<1>1. \A q \in Requests : ~Unserved(q) => ~Unserved(q)'
  BY ServedStays DEF OnceInv
<1>2. \A q \in Requests : Own(q) => ~Unserved(q)'
  BY OwnServes DEF OnceInv
<1>3. \A q \in Requests : pc'[q] \in {"select", "returned", "committed"} => ~Unserved(q)'
  BY <1>1, <1>2, OnlyClaimsServe DEF OnceInv, Served
<1>4. \A k \in Keys : m[k] # None => m[k].owner \in Requests
  BY DEF OnceInv, FaithInv, TypeOK, IdemRec
<1>5. ASSUME NEW k \in Keys, m'[k] # None PROVE ~Unserved(m[k].owner)'
  <2>1. CASE m[k] # None /\ m'[k].owner = m[k].owner
    <3>1. PICK q \in Requests : q = m[k].owner
      BY <1>4, <2>1
    <3>2. ~Unserved(q)'
      BY <1>1, <2>1, <3>1 DEF OnceInv, Served
    <3>q. QED BY <2>1, <3>1, <3>2 DEF Unserved
  <2>2. CASE \E r \in Requests : Own(r) /\ m'[k].owner = r
    <3>1. PICK r \in Requests : Own(r) /\ m'[k].owner = r
      BY <2>2
    <3>2. ~Unserved(r)'
      BY <1>2, <3>1
    <3>q. QED BY <3>1, <3>2 DEF Unserved
  <2>q. QED BY <1>5, <2>1, <2>2, OnlyClaimsServe DEF OnceInv
<1>q. QED BY <1>3, <1>5 DEF Served

LEMMA UnattendedKept ==
  ASSUME OnceInv, [Next]_vars
  PROVE  Unattended'
<1>1. /\ pc \in [Requests -> {"new", "sent", "select", "returned", "committed"} \cup Ended]
      /\ hpc \in [Requests -> {"idle", "run", "done"}]
  BY DEF OnceInv, FaithInv, TypeOK
<1> SUFFICES ASSUME NEW q \in Requests, pc'[q] = "replayed" PROVE hpc'[q] = "idle"
  BY DEF Unattended
<1>2. ASSUME NEW r \in Requests, Own(r) PROVE hpc'[q] = "idle"
  <2>1. q # r /\ pc'[q] = pc[q] /\ hpc'[q] = hpc[q]
    BY <1>1, <1>2 DEF Own, Serve
  <2>q. QED BY <2>1 DEF OnceInv, Unattended
<1>3. ASSUME NEW r \in Requests, Replay(r) PROVE hpc'[q] = "idle"
  <2>1. hpc' = hpc /\ pc[r] = "sent" /\ (q = r \/ pc'[q] = pc[q])
    BY <1>1, <1>3 DEF Replay
  <2>2. hpc[r] = "idle"
    BY <2>1 DEF OnceInv, FaithInv, Carried
  <2>q. QED BY <2>1, <2>2 DEF OnceInv, Unattended
<1>4. ASSUME NEW r \in Requests, \/ Refuse(r) \/ SelectDone(r) \/ SelectTimer(r)
                                 \/ Finish(r) \/ Answer(r)
      PROVE  hpc'[q] = "idle"
  <2>1. hpc' = hpc /\ (pc'[q] = pc[q] \/ pc'[q] \in {"returned", "committed", "answered"})
    BY <1>1, <1>4 DEF Refuse, SelectDone, SelectTimer, Finish, Answer
  <2>q. QED BY <2>1 DEF OnceInv, Unattended
<1>5. ASSUME NEW r \in Requests, \/ \E code \in Codes : HandlerWriteHeader(r, code)
                                 \/ HandlerWrite(r) \/ HandlerReturn(r)
      PROVE  hpc'[q] = "idle"
  <2>1. pc' = pc /\ hpc[r] = "run" /\ (q = r \/ hpc'[q] = hpc[q])
    BY <1>1, <1>5 DEF HandlerWriteHeader, HandlerWrite, HandlerReturn
  <2>q. QED BY <2>1 DEF OnceInv, Unattended
<1>6. ASSUME NEW r \in Requests, NEW k \in Keys, NEW b \in Bodies, Send(r, k, b)
      PROVE  hpc'[q] = "idle"
  <2>1. hpc' = hpc /\ (q = r => pc'[q] = "sent") /\ (q # r => pc'[q] = pc[q])
    BY <1>1, <1>6 DEF Send
  <2>q. QED BY <2>1 DEF OnceInv, Unattended
<1>7. CASE Tick \/ UNCHANGED vars
  BY <1>7 DEF Tick, vars, OnceInv, Unattended
<1>q. QED BY <1>2, <1>3, <1>4, <1>5, <1>6, <1>7 DEF Next, Gateway, Middleware, Clients

LEMMA InitOnce == Init => OnceInv
<1>1. Init => Served /\ Unattended
  BY DEF Init, Served, Unattended
<1>q. QED BY <1>1, InitExec, InitFaith DEF OnceInv

LEMMA NextKeepsOnce == OnceInv /\ [Next]_vars => OnceInv'
  BY NextKeepsExec, NextKeepsFaith, ServedKept, UnattendedKept DEF OnceInv

-----------------------------------------------------------------------------
(* The actions of OncePerKey over this state. *)

LEMMA SendIs ==
  ASSUME NEW r \in Requests
  PROVE  Once!Send(r) <=>
           /\ Sents[r] = None
           /\ \E k \in Keys, b \in Bodies : Sents' = [Sents EXCEPT ![r] = [key |-> k, body |-> b]]
           /\ now' = now /\ Parts' = Parts /\ Saids' = Saids /\ executions' = executions
  BY DEF Once!Send, Sents, Parts, Saids

LEMMA RunIs ==
  ASSUME NEW r \in Requests
  PROVE  Once!Run(r) <=>
           /\ Sents[r] # None /\ Parts[r] = "none"
           /\ \A x \in executions : x.key = Sents[r].key => now > x.at + TTL
           /\ Parts' = [Parts EXCEPT ![r] = "served"]
           /\ executions' = executions \cup {[req |-> r, key |-> Sents[r].key, at |-> now]}
           /\ now' = now /\ Sents' = Sents /\ Saids' = Saids
  BY DEF Once!Run, Once!Waits, Sents, Parts, Saids

LEMMA TurnDownIs ==
  ASSUME NEW r \in Requests
  PROVE  Once!TurnDown(r) <=>
           /\ Sents[r] # None /\ Parts[r] = "none"
           /\ Parts' = [Parts EXCEPT ![r] = "served"]
           /\ \E s \in Told : Saids' = [Saids EXCEPT ![r] = s]
           /\ now' = now /\ Sents' = Sents /\ executions' = executions
  BY DEF Once!TurnDown, Once!Waits, Sents, Parts, Saids, Told

LEMMA TellIs ==
  ASSUME NEW r \in Requests
  PROVE  Once!Tell(r) <=>
           /\ Parts[r] = "served" /\ Saids[r] = 0
           /\ \E s \in Told : Saids' = [Saids EXCEPT ![r] = s]
           /\ now' = now /\ Sents' = Sents /\ Parts' = Parts /\ executions' = executions
  BY DEF Once!Tell, Sents, Parts, Saids, Told

LEMMA RepeatIs ==
  ASSUME NEW r \in Requests
  PROVE  Once!Repeat(r) <=>
           /\ Sents[r] # None /\ Parts[r] = "none"
           /\ \E q \in Requests : /\ Parts[q] = "served" /\ Sents[q] = Sents[r] /\ Saids[q] # 0
                                  /\ Saids' = [Saids EXCEPT ![r] = Saids[q]]
           /\ Parts' = [Parts EXCEPT ![r] = "repeats"]
           /\ now' = now /\ Sents' = Sents /\ executions' = executions
  BY DEF Once!Repeat, Once!Waits, Sents, Parts, Saids

LEMMA RefuseIs ==
  ASSUME NEW r \in Requests
  PROVE  Once!Refuse(r) <=>
           /\ Sents[r] # None /\ Parts[r] = "none"
           /\ \E q \in Requests : Parts[q] = "served" /\ Sents[q].key = Sents[r].key
           /\ Parts' = [Parts EXCEPT ![r] = "refused"]
           /\ \E s \in Told : Saids' = [Saids EXCEPT ![r] = s]
           /\ now' = now /\ Sents' = Sents /\ executions' = executions
  BY DEF Once!Refuse, Once!Waits, Once!Serves, Sents, Parts, Saids, Told

LEMMA Passing ==
  /\ Once!Pass <=> /\ now' = now + 1
                   /\ Sents' = Sents /\ Parts' = Parts /\ Saids' = Saids /\ executions' = executions
  /\ UNCHANGED Once!vars <=> /\ now' = now /\ Sents' = Sents /\ Parts' = Parts
                             /\ Saids' = Saids /\ executions' = executions
  BY DEF Once!Pass, Once!vars, Sents, Parts, Saids

LEMMA Moves ==
  ASSUME \/ \E r \in Requests : \/ Once!Send(r) \/ Once!Run(r) \/ Once!TurnDown(r)
                                \/ Once!Tell(r) \/ Once!Repeat(r) \/ Once!Refuse(r)
         \/ Once!Pass \/ UNCHANGED Once!vars
  PROVE  [Once!Next]_(Once!vars)
  BY DEF Once!Next

\* The part of a request follows from where its goroutine is.
LEMMA PartOf ==
  ASSUME NEW q \in Requests
  PROVE  /\ pc[q] \in {"new", "sent"} => Parts[q] = "none"
         /\ pc[q] = "replayed" => Parts[q] = "repeats"
         /\ pc[q] \in {"select", "returned", "committed"} => Parts[q] = "served"
         /\ pc[q] = "answered" => Parts[q] = IF Unserved(q) THEN "refused" ELSE "served"
         /\ Sents[q] = IF pc[q] = "new" THEN None ELSE [key |-> key[q], body |-> body[q]]
         /\ Saids[q] = out[q].status
  BY DEF Parts, Part, Sents, Carries, Saids

\* A request that only moves on while it is served, or is written to, is told
\* its status or nothing new.
LEMMA ServiceTells ==
  ASSUME OnceInv, NEW r \in Requests, ~Unserved(r), ~Unserved(r)',
         pc[r] \in {"select", "returned", "committed", "answered"},
         pc'[r] \in {"select", "returned", "committed", "answered"},
         UNCHANGED <<now, executions, key, body>>,
         \A q \in Requests : q # r => /\ pc'[q] = pc[q] /\ hpc'[q] = hpc[q]
                                      /\ rec'[q] = rec[q] /\ out'[q] = out[q],
         out'[r].status = out[r].status \/ (out[r].status = 0 /\ out'[r].status \in Told)
  PROVE  [Once!Next]_(Once!vars)
<1>1. Parts' = Parts
  <2>1. \A q \in Requests : Part(q)' = Part(q)
    BY DEF Part, Unserved
  <2>q. QED BY <2>1 DEF Parts
<1>2. Sents' = Sents
  <2>1. \A q \in Requests : Carries(q)' = Carries(q)
    BY DEF Carries
  <2>q. QED BY <2>1 DEF Sents
<1>3. \A q \in Requests : q # r => Saids'[q] = Saids[q]
  BY DEF Saids
<1>4. Saids'[r] = out'[r].status /\ Saids[r] = out[r].status
  BY DEF Saids
<1>5. Saids = [q \in Requests |-> Saids[q]] /\ Saids' = [q \in Requests |-> Saids'[q]]
  BY DEF Saids
<1>6. CASE out'[r].status = out[r].status
  <2>1. Saids' = Saids
    BY <1>3, <1>4, <1>5, <1>6
  <2>q. QED BY <1>1, <1>2, <2>1, Passing, Moves
<1>7. CASE out[r].status = 0 /\ out'[r].status \in Told
  <2>1. Saids' = [Saids EXCEPT ![r] = out'[r].status]
    BY <1>3, <1>4, <1>5
  <2>2. Parts[r] = "served"
    BY PartOf
  <2>3. Once!Tell(r)
    BY <1>1, <1>2, <1>4, <1>7, <2>1, <2>2, TellIs
  <2>q. QED BY <2>3, Moves
<1>q. QED BY <1>6, <1>7

\* What a sent request's first step does to its part.
LEMMA Assigned ==
  ASSUME OnceInv, NEW r \in Requests, NEW v, pc[r] = "sent", pc'[r] # "new",
         Part(r)' = v,
         UNCHANGED <<now, key, body>>,
         \A q \in Requests : q # r => /\ pc'[q] = pc[q] /\ hpc'[q] = hpc[q]
                                      /\ rec'[q] = rec[q] /\ out'[q] = out[q]
  PROVE  /\ Sents[r] = [key |-> key[r], body |-> body[r]] /\ Sents[r] # None
         /\ key[r] \in Keys /\ body[r] \in Bodies
         /\ Parts[r] = "none" /\ Saids[r] = 0
         /\ Parts' = [Parts EXCEPT ![r] = v]
         /\ Saids' = [Saids EXCEPT ![r] = out'[r].status]
         /\ Sents' = Sents
<1>1. Parts' = [Parts EXCEPT ![r] = v]
  <2>1. \A q \in Requests : q # r => Part(q)' = Part(q)
    BY DEF Part, Unserved
  <2>q. QED BY <2>1 DEF Parts
<1>2. Saids' = [Saids EXCEPT ![r] = out'[r].status]
  BY DEF Saids
<1>3. Sents' = Sents
  <2>1. \A q \in Requests : Carries(q)' = Carries(q)
    BY DEF Carries
  <2>q. QED BY <2>1 DEF Sents
<1>4. key[r] \in Keys /\ body[r] \in Bodies /\ out[r] = Silent
  BY DEF OnceInv, FaithInv, Carried
<1>5. Sents[r] = [key |-> key[r], body |-> body[r]] /\ Parts[r] = "none" /\ Saids[r] = out[r].status
  BY PartOf
<1>6. Sents[r] # None /\ Saids[r] = 0
  BY <1>4, <1>5, IdemAssumption DEF Silent
<1>q. QED BY <1>1, <1>2, <1>3, <1>4, <1>5, <1>6

LEMMA OwnMaps ==
  ASSUME OnceInv, NEW r \in Requests, Own(r)
  PROVE  [Once!Next]_(Once!vars)
<1>1. /\ pc \in [Requests -> {"new", "sent", "select", "returned", "committed"} \cup Ended]
      /\ hpc \in [Requests -> {"idle", "run", "done"}]
      /\ rec \in [Requests -> Response] /\ out \in [Requests -> Response]
  BY DEF OnceInv, FaithInv, TypeOK
<1>2. pc[r] = "sent" /\ pc'[r] \in {"returned", "select"} /\ UNCHANGED <<now, key, body>>
  BY <1>1 DEF Own, Serve
<1>3. Part(r)' = "served"
  BY <1>2 DEF Part
<1>4. \A q \in Requests : q # r => /\ pc'[q] = pc[q] /\ hpc'[q] = hpc[q]
                                   /\ rec'[q] = rec[q] /\ out'[q] = out[q]
  BY <1>1 DEF Own, Serve
<1>5. /\ Sents[r] = [key |-> key[r], body |-> body[r]] /\ Sents[r] # None
      /\ key[r] \in Keys
      /\ Parts[r] = "none" /\ Saids[r] = 0
      /\ Parts' = [Parts EXCEPT ![r] = "served"]
      /\ Saids' = [Saids EXCEPT ![r] = out'[r].status]
      /\ Sents' = Sents
  BY <1>2, <1>3, <1>4, Assigned
<1>6. CASE body[r] \in Oversize
  <2>1. out'[r] = Written(Headed(out[r], TooLarge)) /\ executions' = executions
    BY <1>1, <1>6 DEF Own, Serve
  <2>2. out[r] = Silent /\ Silent \in Response
    BY <1>2 DEF OnceInv, FaithInv, Carried, Silent, Response
  <2>3. Written(Headed(Silent, TooLarge)).status = TooLarge
    BY DEF Written, Headed, Silent, TooLarge
  <2>4. out'[r].status \in Told
    BY <2>1, <2>2, <2>3 DEF Told
  <2>5. Once!TurnDown(r)
    BY <1>2, <1>5, <2>1, <2>4, TurnDownIs
  <2>q. QED BY <2>5, Moves
<1>7. CASE body[r] \notin Oversize
  <2>1. /\ out' = out
        /\ executions' = executions \cup {[req |-> r, key |-> key[r], at |-> now]}
    BY <1>7 DEF Own, Serve
  <2>2. Saids' = Saids
    BY <2>1 DEF Saids
  <2>3. \A x \in executions : x.key = key[r] => now > x.at + TTL
    <3>1. m[key[r]] = None \/ now > m[key[r]].exp
      BY DEF Own, BeginAnswer, Free
    <3> SUFFICES ASSUME NEW x \in executions, x.key = key[r] PROVE now > x.at + TTL
      OBVIOUS
    <3>2. m[key[r]] # None /\ x.at + TTL <= m[key[r]].exp
      BY DEF OnceInv, ExecInv, Covered
    <3>3. x.at \in Nat /\ now \in Nat /\ m[key[r]].exp \in Nat /\ TTL \in Nat
      BY <1>5, <3>2, IdemAssumption DEF OnceInv, ExecInv, Shaped, IdemRec
    <3>q. QED BY <3>1, <3>2, <3>3
  <2>4. Sents[r].key = key[r]
    BY <1>5
  <2>5. Once!Run(r)
    BY <1>2, <1>5, <2>1, <2>2, <2>3, <2>4, RunIs
  <2>q. QED BY <2>5, Moves
<1>q. QED BY <1>6, <1>7

\* A refused request's key has a record, and its owner is being or has been served.
LEMMA RefuseMaps ==
  ASSUME OnceInv, NEW r \in Requests, Refuse(r)
  PROVE  [Once!Next]_(Once!vars)
<1>1. /\ pc \in [Requests -> {"new", "sent", "select", "returned", "committed"} \cup Ended]
      /\ out \in [Requests -> Response] /\ m \in [Keys -> IdemRec \cup {None}]
  BY DEF OnceInv, FaithInv, TypeOK
<1>2. /\ pc[r] = "sent" /\ pc'[r] = "answered" /\ UNCHANGED <<now, key, body, hpc, rec, executions>>
      /\ out'[r].status = Conflict
  BY <1>1 DEF Refuse
<1>3. Part(r)' = "refused"
  <2>1. Unserved(r)
    BY <1>2 DEF OnceInv, FaithInv, Carried, Silent, Unserved
  <2>q. QED BY <1>2, <2>1 DEF Part, Unserved
<1>4. \A q \in Requests : q # r => /\ pc'[q] = pc[q] /\ hpc'[q] = hpc[q]
                                   /\ rec'[q] = rec[q] /\ out'[q] = out[q]
  BY <1>1 DEF Refuse
<1>5. /\ Sents[r] = [key |-> key[r], body |-> body[r]] /\ Sents[r] # None
      /\ key[r] \in Keys
      /\ Parts[r] = "none" /\ Saids[r] = 0
      /\ Parts' = [Parts EXCEPT ![r] = "refused"]
      /\ Saids' = [Saids EXCEPT ![r] = out'[r].status]
      /\ Sents' = Sents
  BY <1>2, <1>3, <1>4, Assigned
<1>6. m[key[r]] # None /\ m[key[r]].owner \in Requests
  BY <1>1, <1>5 DEF Refuse, BeginAnswer, Free, IdemRec
<1>7. PICK q \in Requests : q = m[key[r]].owner
  BY <1>6
<1>8. /\ key[q] = key[r] /\ pc[q] \in {"select", "returned", "committed", "answered"}
      /\ ~Unserved(q)
  <2>1. Owned /\ Served
    BY DEF OnceInv, FaithInv
  <2>2. key[q] = key[r] /\ pc[q] \in {"select", "returned", "committed", "answered"}
    BY <1>5, <1>6, <1>7, <2>1 DEF Owned
  <2>3. ~Unserved(m[key[r]].owner)
    BY <1>5, <1>6, <2>1 DEF Served
  <2>q. QED BY <1>7, <2>2, <2>3
<1>9. Parts[q] = "served" /\ Sents[q].key = Sents[r].key
  <2>1. pc[q] # "new" /\ (pc[q] = "answered" \/ pc[q] \in {"select", "returned", "committed"})
    BY <1>8
  <2>2. Sents[q] = [key |-> key[q], body |-> body[q]]
    BY <2>1, PartOf
  <2>3. Parts[q] = "served"
    BY <1>8, <2>1, PartOf
  <2>q. QED BY <1>5, <1>8, <2>2, <2>3
<1>10. Saids' = [Saids EXCEPT ![r] = Conflict] /\ Conflict \in Told
  BY <1>2, <1>5 DEF Told
<1>11. Once!Refuse(r)
  BY <1>2, <1>5, <1>9, <1>10, RefuseIs
<1>q. QED BY <1>11, Moves

\* What is replayed is the status the owner of the record was told, for the
\* same body.
LEMMA ReplayMaps ==
  ASSUME OnceInv, NEW r \in Requests, Replay(r)
  PROVE  [Once!Next]_(Once!vars)
<1>1. /\ pc \in [Requests -> {"new", "sent", "select", "returned", "committed"} \cup Ended]
      /\ out \in [Requests -> Response] /\ m \in [Keys -> IdemRec \cup {None}]
  BY DEF OnceInv, FaithInv, TypeOK
<1>2. /\ pc[r] = "sent" /\ pc'[r] = "replayed" /\ UNCHANGED <<now, key, body, hpc, rec, executions>>
      /\ out'[r].status = m[key[r]].status
  BY <1>1 DEF Replay
<1>3. Part(r)' = "repeats"
  BY <1>2 DEF Part
<1>4. \A q \in Requests : q # r => /\ pc'[q] = pc[q] /\ hpc'[q] = hpc[q]
                                   /\ rec'[q] = rec[q] /\ out'[q] = out[q]
  BY <1>1 DEF Replay
<1>5. /\ Sents[r] = [key |-> key[r], body |-> body[r]] /\ Sents[r] # None
      /\ key[r] \in Keys
      /\ Parts[r] = "none" /\ Saids[r] = 0
      /\ Parts' = [Parts EXCEPT ![r] = "repeats"]
      /\ Saids' = [Saids EXCEPT ![r] = out'[r].status]
      /\ Sents' = Sents
  BY <1>2, <1>3, <1>4, Assigned
<1>6. m[key[r]] # None /\ m[key[r]].done /\ m[key[r]].hash = body[r]
  BY DEF Replay, BeginAnswer, Free
<1>7. m[key[r]].owner \in Requests
  BY <1>1, <1>5, <1>6 DEF IdemRec
<1>8. PICK q \in Requests : q = m[key[r]].owner
  BY <1>7
<1>9. /\ key[q] = key[r] /\ body[q] = body[r] /\ pc[q] \in {"committed", "answered"}
      /\ m[key[r]].status # 0 /\ m[key[r]].status = out[q].status
      /\ ~Unserved(q)
  <2>1. Owned /\ Served
    BY DEF OnceInv, FaithInv
  <2>2. /\ key[q] = key[r] /\ body[q] = body[r] /\ pc[q] \in {"committed", "answered"}
        /\ m[key[r]].status # 0 /\ m[key[r]].status = out[q].status
    BY <1>5, <1>6, <1>8, <2>1 DEF Owned
  <2>3. ~Unserved(m[key[r]].owner)
    BY <1>5, <1>6, <2>1 DEF Served
  <2>q. QED BY <1>8, <2>2, <2>3
<1>10. Parts[q] = "served" /\ Sents[q] = Sents[r] /\ Saids[q] = out[q].status
  BY <1>5, <1>9, PartOf
<1>11. Saids[q] # 0 /\ Saids' = [Saids EXCEPT ![r] = Saids[q]]
  BY <1>2, <1>5, <1>9, <1>10
<1>12. Once!Repeat(r)
  BY <1>2, <1>5, <1>10, <1>11, RepeatIs
<1>q. QED BY <1>12, Moves

\* Every other step of the middleware moves a request that is being served, and
\* makes at most a status of a response that had none.
LEMMA ServingMaps ==
  ASSUME OnceInv, [Next]_vars, NEW r \in Requests,
         SelectDone(r) \/ SelectTimer(r) \/ Finish(r) \/ Answer(r)
  PROVE  [Once!Next]_(Once!vars)
<1>1. /\ pc \in [Requests -> {"new", "sent", "select", "returned", "committed"} \cup Ended]
      /\ rec \in [Requests -> Response] /\ out \in [Requests -> Response]
  BY DEF OnceInv, FaithInv, TypeOK
<1>2. /\ pc[r] \in {"select", "returned", "committed"}
      /\ pc'[r] \in {"returned", "committed", "answered"}
      /\ UNCHANGED <<now, key, body, hpc, executions>>
  BY <1>1 DEF SelectDone, SelectTimer, Finish, Answer
<1>3. \A q \in Requests : q # r => /\ pc'[q] = pc[q] /\ hpc'[q] = hpc[q]
                                   /\ rec'[q] = rec[q] /\ out'[q] = out[q]
  BY <1>1, <1>2 DEF SelectDone, SelectTimer, Finish, Answer
<1>4. ~Unserved(r) /\ ~Unserved(r)'
  <2>1. ~Unserved(r)
    BY <1>2 DEF OnceInv, Served
  <2>q. QED BY <2>1, ServedStays DEF OnceInv
<1>5. out'[r].status = out[r].status \/ (out[r].status = 0 /\ out'[r].status \in Told)
  <2>1. \/ out'[r] = out[r]
        \/ out[r].status = 0 /\ out'[r] = Written(Headed(out[r], GatewayTimeout))
        \/ out'[r] = Headed(out[r], OK)
    BY <1>1 DEF SelectDone, SelectTimer, Finish, Answer, Wrote
  <2>2. out[r] \in Response
    BY <1>1
  <2>3. \A c \in Told : Headed(out[r], c).status = IF out[r].status = 0 THEN c ELSE out[r].status
    BY <2>2 DEF Headed, Response
  <2>4. \A w \in Response : w.status # 0 => Written(w).status = w.status
    BY DEF Written, Headed, Response
  <2>5. /\ GatewayTimeout \in Told /\ OK \in Told
        /\ GatewayTimeout \in Nat \ {0}
    BY DEF Told, GatewayTimeout
  <2>6. Headed(out[r], GatewayTimeout) \in Response
    BY <2>2, <2>5, Writers
  <2>7. ASSUME out[r].status = 0
        PROVE  Written(Headed(out[r], GatewayTimeout)).status = GatewayTimeout
    BY <2>3, <2>4, <2>5, <2>6, <2>7
  <2>q. QED BY <2>1, <2>3, <2>5, <2>7
<1>q. QED BY <1>2, <1>3, <1>4, <1>5, ServiceTells

\* Only a request in service has a handler, and its first write may be the
\* first thing the client is told.
LEMMA HandlerMaps ==
  ASSUME OnceInv, [Next]_vars, NEW r \in Requests,
         \/ \E code \in Codes : HandlerWriteHeader(r, code)
         \/ HandlerWrite(r) \/ HandlerReturn(r)
  PROVE  [Once!Next]_(Once!vars)
<1>1. /\ pc \in [Requests -> {"new", "sent", "select", "returned", "committed"} \cup Ended]
      /\ hpc \in [Requests -> {"idle", "run", "done"}]
      /\ rec \in [Requests -> Response] /\ out \in [Requests -> Response]
  BY DEF OnceInv, FaithInv, TypeOK
<1>2. UNCHANGED <<now, key, body, pc, executions>> /\ hpc[r] = "run"
  BY DEF HandlerWriteHeader, HandlerWrite, HandlerReturn
<1>3. \A q \in Requests : q # r => /\ pc'[q] = pc[q] /\ hpc'[q] = hpc[q]
                                   /\ rec'[q] = rec[q] /\ out'[q] = out[q]
  BY <1>1, <1>2 DEF HandlerWriteHeader, HandlerWrite, HandlerReturn
<1>4. ~Unserved(r) /\ ~Unserved(r)'
  <2>1. ~Unserved(r)
    BY <1>2 DEF Unserved
  <2>q. QED BY <2>1, ServedStays DEF OnceInv
<1>5. out'[r].status = out[r].status \/ (out[r].status = 0 /\ out'[r].status \in Told)
  <2>1. \/ out'[r] = out[r]
        \/ \E code \in Codes : out'[r] = Headed(out[r], code)
        \/ out'[r] = Written(out[r])
    BY <1>1 DEF HandlerWriteHeader, HandlerWrite, HandlerReturn
  <2>2. out[r] \in Response
    BY <1>1
  <2>3. \A c \in Told : Headed(out[r], c).status = IF out[r].status = 0 THEN c ELSE out[r].status
    BY <2>2 DEF Headed, Response
  <2>4. Written(out[r]).status = IF out[r].status = 0 THEN OK ELSE out[r].status
    BY <2>2 DEF Written, Headed, Response
  <2>5. OK \in Told /\ Codes \subseteq Told
    BY DEF Told
  <2>q. QED BY <2>1, <2>3, <2>4, <2>5
<1>6. pc[r] # "replayed"
  BY <1>2 DEF OnceInv, Unattended
<1>7. pc[r] \in {"select", "returned", "committed", "answered"} /\ pc'[r] = pc[r]
  BY <1>1, <1>2, <1>6 DEF OnceInv, FaithInv, Carried, Ended
<1>q. QED BY <1>2, <1>3, <1>4, <1>5, <1>7, ServiceTells

LEMMA SendMaps ==
  ASSUME OnceInv, NEW r \in Requests, NEW k \in Keys, NEW b \in Bodies, Send(r, k, b)
  PROVE  [Once!Next]_(Once!vars)
<1>1. /\ pc \in [Requests -> {"new", "sent", "select", "returned", "committed"} \cup Ended]
      /\ key \in [Requests -> Keys \cup {None}] /\ body \in [Requests -> Bodies \cup {None}]
  BY DEF OnceInv, FaithInv, TypeOK
<1>2. UNCHANGED <<now, hpc, rec, out, executions>> /\ pc[r] = "new" /\ pc'[r] = "sent"
  BY <1>1 DEF Send
<1>3. Parts' = Parts
  <2>1. \A q \in Requests : q # r => pc'[q] = pc[q]
    BY <1>1 DEF Send
  <2>2. \A q \in Requests : Part(q)' = Part(q)
    BY <1>2, <2>1 DEF Part, Unserved
  <2>q. QED BY <2>2 DEF Parts
<1>4. Saids' = Saids
  BY <1>2 DEF Saids
<1>5. Sents' = [Sents EXCEPT ![r] = [key |-> k, body |-> b]]
  <2>1. \A q \in Requests : q # r => pc'[q] = pc[q] /\ key'[q] = key[q] /\ body'[q] = body[q]
    BY <1>1 DEF Send
  <2>2. key'[r] = k /\ body'[r] = b
    BY <1>1 DEF Send
  <2>3. \A q \in Requests : q # r => Carries(q)' = Carries(q)
    BY <2>1 DEF Carries
  <2>4. Carries(r)' = [key |-> k, body |-> b]
    BY <1>2, <2>2 DEF Carries
  <2>q. QED BY <2>3, <2>4 DEF Sents
<1>6. Sents[r] = None
  BY <1>2, PartOf
<1>7. Once!Send(r)
  BY <1>2, <1>3, <1>4, <1>5, <1>6, SendIs
<1>q. QED BY <1>7, Moves

\* Every step of the gateway is a step of the service its clients see.
LEMMA NextMaps ==
  ASSUME OnceInv, [Next]_vars
  PROVE  [Once!Next]_(Once!vars)
<1>1. CASE Tick
  <2>1. now' = now + 1 /\ Sents' = Sents /\ Parts' = Parts /\ Saids' = Saids /\ executions' = executions
    BY <1>1 DEF Tick, Sents, Parts, Saids, Carries, Part, Unserved
  <2>q. QED BY <2>1, Passing, Moves
<1>2. CASE UNCHANGED vars
  <2>1. now' = now /\ Sents' = Sents /\ Parts' = Parts /\ Saids' = Saids /\ executions' = executions
    BY <1>2 DEF vars, Sents, Parts, Saids, Carries, Part, Unserved
  <2>q. QED BY <2>1, Passing, Moves
<1>3. CASE Clients
  <2>1. PICK r \in Requests, k \in Keys, b \in Bodies : Send(r, k, b)
    BY <1>3 DEF Clients
  <2>q. QED BY <2>1, SendMaps
<1>4. CASE Gateway
  <2>1. PICK r \in Requests : \/ Middleware(r)
                              \/ \E code \in Codes : HandlerWriteHeader(r, code)
                              \/ HandlerWrite(r) \/ HandlerReturn(r)
    BY <1>4 DEF Gateway
  <2>2. CASE Own(r)
    BY <2>2, OwnMaps
  <2>3. CASE Refuse(r)
    BY <2>3, RefuseMaps
  <2>4. CASE Replay(r)
    BY <2>4, ReplayMaps
  <2>5. CASE SelectDone(r) \/ SelectTimer(r) \/ Finish(r) \/ Answer(r)
    BY <2>5, ServingMaps
  <2>6. CASE \/ \E code \in Codes : HandlerWriteHeader(r, code)
             \/ HandlerWrite(r) \/ HandlerReturn(r)
    BY <2>6, HandlerMaps
  <2>q. QED BY <2>1, <2>2, <2>3, <2>4, <2>5, <2>6 DEF Middleware
<1>q. QED BY <1>1, <1>2, <1>3, <1>4 DEF Next

LEMMA InitMaps == Init => Once!Init
<1> SUFFICES ASSUME Init PROVE Once!Init
  OBVIOUS
<1>1. \A r \in Requests : Carries(r) = None /\ Part(r) = "none" /\ out[r].status = 0
  BY DEF Init, Carries, Part, Silent
<1>2. /\ Sents = [r \in Requests |-> None] /\ Parts = [r \in Requests |-> "none"]
      /\ Saids = [r \in Requests |-> 0]
  BY <1>1 DEF Sents, Parts, Saids
<1>3. now = 0 /\ executions = {}
  BY DEF Init
<1>q. QED BY <1>2, <1>3 DEF Once!Init, Sents, Parts, Saids

\* To its clients the gateway is the service of OncePerKey, for any number of
\* requests, keys and bodies, and whatever their handlers do.
THEOREM PromiseKept == Spec => KeepsItsPromise
<1>1. OnceInv /\ [Next]_vars => [Once!Next]_(Once!vars)
  BY NextMaps
<1>q. QED BY <1>1, InitMaps, InitOnce, NextKeepsOnce, PTL DEF Spec, KeepsItsPromise, Once!Spec

=============================================================================
