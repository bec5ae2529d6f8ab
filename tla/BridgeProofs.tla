---------------------------- MODULE BridgeProofs ----------------------------
(* Theorems about Bridge, for every set of accounts, connections, REST        *)
(* goroutines, sessions, frames and clock values.                             *)
EXTENDS Bridge, TLAPS

-----------------------------------------------------------------------------
(* Types *)

\* push keeps a write queue a sequence of messages.
LEMMA PushType ==
  ASSUME NEW q \in Seq(Message), NEW m \in Message
  PROVE  Push(q, m) \in Seq(Message)
BY DEF Push

\* Publishing keeps the backbone a sequence of entries.
LEMMA AppendType ==
  ASSUME NEW q \in Seq(Entry), NEW e \in Entry
  PROVE  Append(q, e) \in Seq(Entry)
OBVIOUS

\* Publishing leaves what is on the backbone where it is and adds one entry.
LEMMA AppendKeeps ==
  ASSUME NEW q \in Seq(Entry), NEW e
  PROVE  /\ \A i \in DOMAIN q : i \in DOMAIN Append(q, e) /\ Append(q, e)[i] = q[i]
         /\ Len(q) + 1 \in DOMAIN Append(q, e) /\ Append(q, e)[Len(q) + 1] = e
OBVIOUS

\* Replying on one connection keeps all write queues well typed.
LEMMA ReplyType ==
  ASSUME wq \in [Conns -> Seq(Message)], NEW c \in Conns, NEW m \in Message, Reply(c, m)
  PROVE  wq' \in [Conns -> Seq(Message)]
BY PushType DEF Reply

\* Recording a nonce yields a well-typed nonce table.
LEMMA NonceType ==
  ASSUME TypeOK, NEW f \in Frame, NEW s \in Sids \cup {None}, NonceChecked(f, s)
  PROVE  seen' \in [Sids -> [Nonces -> Nat]]
<1>1. CASE s = None
  BY <1>1 DEF NonceChecked, Verify, TypeOK
<1>2. CASE s \in Sids
  <2>1. now \in Nat
    BY BridgeAssumption DEF TypeOK
  <2>2. RecordNonce(s, f.nonce) \in [Nonces -> Nat]
    BY <1>2, <2>1 DEF RecordNonce, TypeOK
  <2>3. QED
    BY <1>2, <2>2 DEF NonceChecked, TypeOK
<1>3. QED BY <1>1, <1>2

\* The program counters of the two kinds of goroutine, and what a goroutine
\* holds at each of them.
Created(s) == s \in Sids /\ sAcct[s] \in Accounts

JobOK ==
  /\ \A c \in Conns : pc[c] \in {"put", "register"} => Created(job[c].sid)
  /\ \A h \in Handlers : pc[h] \in {"commit", "publish"} =>
       Created(job[h].sid) /\ job[h].frame \in Frame
  /\ \A r \in Rests : pc[r] \in {"read", "commit", "publish"}

\* Every pointer to a session leads to one that exists.
PointersOK ==
  /\ \A c \in Conns : bound[c] # None => Created(bound[c])
  /\ \A c \in Conns : pc[c] = "unregister" => bound[c] # None
  /\ \A a \in Accounts : store[a] # None => sAcct[store[a]] = a

Typed == TypeOK /\ JobOK /\ PointersOK

\* A goroutine that takes up an accepted frame holds an existing session.
LEMMA StartJob ==
  ASSUME TypeOK, JobOK, NEW h \in Handlers, NEW s \in Sids, sAcct[s] \in Accounts, NEW f \in Frame,
         pc' = [pc EXCEPT ![h] = "commit"],
         job' = [job EXCEPT ![h] = [sid |-> s, frame |-> f]],
         sAcct' = sAcct
  PROVE  JobOK' /\ job' \in [Handlers -> Job]
<1>1. job' \in [Handlers -> Job]
  BY DEF TypeOK, Job
<1>2. \A g \in Handlers : g # h => pc'[g] = pc[g] /\ job'[g] = job[g]
  BY DEF TypeOK
<1>3. pc'[h] = "commit" /\ job'[h].sid = s /\ job'[h].frame = f
  BY DEF TypeOK
<1>4. QED BY <1>1, <1>2, <1>3 DEF JobOK, Created, Handlers

LEMMA InitTyped == Init => Typed
<1> SUFFICES ASSUME Init PROVE Typed
  OBVIOUS
<1> USE DEF Init
<1>1. TypeOK
  BY BridgeAssumption DEF TypeOK, Handlers, Job
<1>2. JobOK
  BY BridgeAssumption DEF JobOK, Handlers
<1>3. PointersOK
  BY BridgeAssumption DEF PointersOK, Handlers
<1>4. QED BY <1>1, <1>2, <1>3 DEF Typed

LEMMA NextTyped == Typed /\ [Next]_vars => Typed'
<1> SUFFICES ASSUME Typed, [Next]_vars PROVE Typed'
  OBVIOUS
<1> USE BridgeAssumption DEF Typed, TypeOK, JobOK, PointersOK, Created, Handlers,
        keyVars, sessVars, hubVars, wsVars, ctlVars, pubVars
<1>1. ASSUME NEW a \in Accounts, CreatePairing(a) PROVE Typed'
  BY <1>1 DEF CreatePairing
<1>2. ASSUME NEW a \in Accounts, Revoke(a) PROVE Typed'
  BY <1>2 DEF Revoke
<1>3. ASSUME NEW c \in Conns, Upgrade(c) PROVE Typed'
  BY <1>3 DEF Upgrade
<1>4. ASSUME NEW c \in Conns, HelloRejected(c) PROVE Typed'
  <2>1. [kind |-> "reject"] \in Message
    BY DEF Message, Plain
  <2>2. wq' \in [Conns -> Seq(Message)]
    BY <1>4, <2>1, ReplyType DEF HelloRejected
  <2>3. QED BY <1>4, <2>2 DEF HelloRejected
<1>5. ASSUME NEW c \in Conns, NEW m \in Hello, NEW s \in Sids, HelloAccepted(c, m, s) PROVE Typed'
  <2>1. m.acct \in Accounts /\ ResumeSeq(m.acct) \in Nat
    BY DEF Hello, ResumeSeq
  <2>2. TypeOK'
    <3>1. /\ pc' = [pc EXCEPT ![c] = "put"]
          /\ sAcct' = [sAcct EXCEPT ![s] = m.acct]
          /\ sLast' = [sLast EXCEPT ![s] = ResumeSeq(m.acct)]
          /\ sBase' = [sBase EXCEPT ![s] = ResumeSeq(m.acct)]
          /\ job' = [job EXCEPT ![c] = [sid |-> s]]
          /\ UNCHANGED <<keyVars, now, sState, seen, hubVars, wsVars, ctlVars, pubVars>>
      BY <1>5, Zenon DEF HelloAccepted
    <3>2. c \in Handlers /\ [sid |-> s] \in Job
      BY DEF Job
    <3>q. QED BY <2>1, <3>1, <3>2
  <2>3. JobOK'
    BY <1>5, <2>1 DEF HelloAccepted
  <2>4. PointersOK'
    BY <1>5, <2>1 DEF HelloAccepted
  <2>5. QED BY <2>2, <2>3, <2>4
<1>6. ASSUME NEW c \in Conns, Put(c) PROVE Typed'
  <2>1. [kind |-> "auth_ok", sid |-> job[c].sid, n |-> sLast[job[c].sid]] \in Message
    BY <1>6 DEF Put, Message, Numbered
  <2>2. wq' \in [Conns -> Seq(Message)]
    BY <1>6, <2>1, ReplyType DEF Put
  <2>3. QED BY <1>6, <2>2 DEF Put
<1>7. ASSUME NEW c \in Conns, Register(c) PROVE Typed'
  BY <1>7 DEF Register, Job
<1>8. ASSUME NEW c \in Conns, BadFrame(c) PROVE Typed'
  <2>1. [kind |-> "reject"] \in Message
    BY DEF Message, Plain
  <2>2. wq' \in [Conns -> Seq(Message)]
    BY <1>8, <2>1, ReplyType DEF BadFrame
  <2>3. QED BY <1>8, <2>2 DEF BadFrame
<1>9. ASSUME NEW c \in Conns, Heartbeat(c) PROVE Typed'
  <2>1. [kind |-> "hb"] \in Message
    BY DEF Message, Plain
  <2>2. wq' \in [Conns -> Seq(Message)]
    BY <1>9, <2>1, ReplyType DEF Heartbeat
  <2>3. QED BY <1>9, <2>2 DEF Heartbeat
<1>10. ASSUME NEW c \in Conns, NEW f \in Frame, WSEvent(c, f) PROVE Typed'
  <2>1. seen' \in [Sids -> [Nonces -> Nat]]
    BY <1>10, NonceType DEF WSEvent
  <2>2. wq' \in [Conns -> Seq(Message)]
    <3>1. [kind |-> "reject"] \in Message /\ [kind |-> "snapshot_request"] \in Message
      BY DEF Message, Plain
    <3>2. \/ wq' = wq
          \/ Reply(c, [kind |-> "reject"])
          \/ Reply(c, [kind |-> "snapshot_request"])
      BY <1>10 DEF WSEvent
    <3>3. QED BY <3>1, <3>2, ReplyType
  <2>3. \/ pc' = pc /\ job' = job
        \/ /\ pc' = [pc EXCEPT ![c] = "commit"]
           /\ job' = [job EXCEPT ![c] = [sid |-> bound[c], frame |-> f]]
    BY <1>10 DEF WSEvent
  <2>4. Created(bound[c]) /\ sState' \in [Sids -> {"ACTIVE", "RESYNC"}]
    BY <1>10 DEF WSEvent
  <2>5. UNCHANGED <<keyVars, now, sAcct, sLast, sBase, hubVars, bound, ctlVars, pubVars>>
    BY <1>10 DEF WSEvent
  <2>6. CASE pc' = pc /\ job' = job
    BY <2>1, <2>2, <2>4, <2>5, <2>6
  <2>7. CASE /\ pc' = [pc EXCEPT ![c] = "commit"]
             /\ job' = [job EXCEPT ![c] = [sid |-> bound[c], frame |-> f]]
    <3>1. JobOK' /\ job' \in [Handlers -> Job]
      BY <2>4, <2>5, <2>7, StartJob
    <3>2. QED BY <2>1, <2>2, <2>4, <2>5, <2>7, <3>1
  <2>8. QED BY <2>3, <2>6, <2>7
<1>11. ASSUME NEW c \in Conns, NEW chunk \in {"undecodable", "partial", "final_mismatch", "final"},
              Snapshot(c, chunk)
       PROVE  Typed'
  <2>1. wq' \in [Conns -> Seq(Message)]
    <3>1. [kind |-> "reject"] \in Message
      BY DEF Message, Plain
    <3>2. [kind |-> "resync_complete", sid |-> bound[c], n |-> Baseline(bound[c])] \in Message
      BY <1>11 DEF Snapshot, Baseline, Message, Numbered
    <3>3. QED BY <1>11, <3>1, <3>2, ReplyType DEF Snapshot
  <2>2. QED BY <1>11, <2>1 DEF Snapshot
<1>12. ASSUME NEW c \in Conns, ReadEnd(c) PROVE Typed'
  BY <1>12 DEF ReadEnd
<1>13. ASSUME NEW c \in Conns, Delete(c) PROVE Typed'
  BY <1>13 DEF Delete
<1>14. ASSUME NEW c \in Conns, Unregister(c) PROVE Typed'
  BY <1>14 DEF Unregister
<1>15. ASSUME NEW c \in Conns, WriteMessage(c) PROVE Typed'
  <2>1. wq' \in [Conns -> Seq(Message)]
    BY <1>15 DEF WriteMessage
  <2>2. QED BY <1>15, <2>1 DEF WriteMessage
<1>16. ASSUME NEW r \in Rests, NEW f \in Frame, RestEvent(r, f) PROVE Typed'
  <2>1. f.acct \in Accounts
    BY DEF Frame
  <2>2. seen' \in [Sids -> [Nonces -> Nat]]
    BY <1>16, <2>1, NonceType DEF RestEvent
  <2>3. \/ pc' = pc /\ job' = job
        \/ /\ store[f.acct] \in Sids
           /\ pc' = [pc EXCEPT ![r] = "commit"]
           /\ job' = [job EXCEPT ![r] = [sid |-> store[f.acct], frame |-> f]]
    BY <1>16, <2>1 DEF RestEvent, Verify
  <2>4. UNCHANGED <<keyVars, now, sAcct, sState, sLast, sBase, hubVars, wsVars, ctlVars, pubVars>>
    BY <1>16 DEF RestEvent
  <2>5. CASE pc' = pc /\ job' = job
    BY <2>2, <2>4, <2>5
  <2>6. CASE /\ store[f.acct] \in Sids
             /\ pc' = [pc EXCEPT ![r] = "commit"]
             /\ job' = [job EXCEPT ![r] = [sid |-> store[f.acct], frame |-> f]]
    <3>1. JobOK' /\ job' \in [Handlers -> Job]
      BY <2>1, <2>4, <2>6, StartJob
    <3>2. QED BY <2>2, <2>4, <2>6, <3>1
  <2>7. QED BY <2>3, <2>5, <2>6
<1>17. ASSUME NEW h \in Handlers, SetLastSeq(h) PROVE Typed'
  BY <1>17 DEF SetLastSeq, Advanced, Frame
<1>18. ASSUME NEW h \in Handlers, Ingest(h) PROVE Typed'
  <2> DEFINE s == job[h].sid
             f == job[h].frame
  <2>1. f \in Frame /\ s \in Sids /\ sAcct[s] \in Accounts
    BY <1>18 DEF Ingest
  <2>2. f.seq \in Nat /\ f.acct \in Accounts /\ f.nonce \in Nonces
    BY <2>1 DEF Frame
  <2>3. [kind |-> "ack", sid |-> s, n |-> f.seq] \in Message
    BY <2>1, <2>2 DEF Message, Numbered
  <2>4. wq' \in [Conns -> Seq(Message)]
    BY <1>18, <2>3, PushType DEF Ingest
  <2> DEFINE ev == [type |-> "ev", acct |-> sAcct[s], claim |-> f.acct, sid |-> s,
                    seq |-> f.seq, nonce |-> f.nonce]
  <2>5. ev \in Entry
    BY <2>1, <2>2 DEF Entry, EventEntry
  <2>6. outbox' \in Seq(Entry) /\ failed' \subseteq Sids \X Nat
    <3>1. \/ outbox' = Append(outbox, ev) /\ failed' = failed
          \/ failed' = failed \cup {<<s, f.seq>>} /\ outbox' = outbox
      BY <1>18 DEF Ingest
    <3>2. Append(outbox, ev) \in Seq(Entry)
      BY <2>5, AppendType
    <3> HIDE DEF ev, s, f
    <3>3. <<s, f.seq>> \in Sids \X Nat
      BY <2>1, <2>2
    <3>4. failed \subseteq Sids \X Nat /\ outbox \in Seq(Entry)
      OBVIOUS
    <3> HIDE DEF TypeOK, Typed
    <3>5. QED BY <3>1, <3>2, <3>3, <3>4
  <2>7. QED BY <1>18, <2>4, <2>6 DEF Ingest, Job
<1>19. ASSUME NEW k \in Cmds, ControlPublish(k) PROVE Typed'
  <2>1. [type |-> "control", acct |-> Target[k], cmd |-> k] \in Entry
    BY DEF Entry, ControlEntry
  <2>2. Append(outbox, [type |-> "control", acct |-> Target[k], cmd |-> k]) \in Seq(Entry)
    BY <2>1, AppendType
  <2>3. QED BY <1>19, <2>2 DEF ControlPublish
<1>20. ASSUME NEW k \in Cmds, ControlPush(k) PROVE Typed'
  <2>1. [kind |-> "ctl", cmd |-> k] \in Message
    BY DEF Message, Control
  <2>2. wq' \in [Conns -> Seq(Message)]
    <3>1. CASE pusher[Target[k]] = None
      BY <1>20, <3>1 DEF ControlPush
    <3>2. CASE pusher[Target[k]] # None
      <4>1. pusher[Target[k]] \in Conns
        BY <3>2
      <4>2. Push(wq[pusher[Target[k]]], [kind |-> "ctl", cmd |-> k]) \in Seq(Message)
        BY <2>1, <4>1, PushType
      <4>3. wq' = [wq EXCEPT ![pusher[Target[k]]] = Push(@, [kind |-> "ctl", cmd |-> k])]
        BY <1>20, <3>2 DEF ControlPush
      <4>4. QED BY <4>1, <4>2, <4>3
    <3>3. QED BY <3>1, <3>2
  <2>3. ctl' \in [Cmds -> {"new", "published", "error", "done"}] /\ queued' \subseteq Cmds
    BY <1>20 DEF ControlPush
  <2>4. UNCHANGED <<keyVars, now, sessVars, hubVars, pc, job, bound, pubVars>>
    BY <1>20 DEF ControlPush
  <2>5. QED BY <2>2, <2>3, <2>4
<1>21. ASSUME Tick PROVE Typed'
  BY <1>21 DEF Tick
<1>22. CASE UNCHANGED vars
  BY <1>22 DEF vars
<1> HIDE DEF Typed
<1>23. QED
  BY <1>1, <1>2, <1>3, <1>4, <1>5, <1>6, <1>7, <1>8, <1>9, <1>10, <1>11, <1>12, <1>13,
     <1>14, <1>15, <1>16, <1>17, <1>18, <1>19, <1>20, <1>21, <1>22
  DEF Next, Connection

\* Every reachable state is well typed, and every session pointer held by a
\* goroutine, the session store or a connection leads to an existing session.
THEOREM TypeCorrect == Spec => []TypeOK
<1>1. Init => Typed
  BY InitTyped
<1>2. Typed /\ [Next]_vars => Typed'
  BY NextTyped
<1>3. Typed => TypeOK
  BY DEF Typed
<1>4. QED BY <1>1, <1>2, <1>3, PTL DEF Spec

-----------------------------------------------------------------------------
(* Sequence continuity.  NoHole is not inductive by itself: a goroutine that  *)
(* passed the guard is not visible in it until setLastSeq, and by then other  *)
(* goroutines may have moved LastSeq.  What survives is that the sequence     *)
(* number of an accepted frame is at most one above LastSeq.                  *)

JobSeq(h) == job[h].frame.seq

SeqInv ==
  /\ \A s \in Sids : sBase[s] <= sLast[s]
  /\ \A h \in Handlers : pc[h] = "commit" => sBase[job[h].sid] < JobSeq(h) /\ JobSeq(h) <= sLast[job[h].sid] + 1
  /\ \A h \in Handlers : pc[h] = "publish" => sBase[job[h].sid] < JobSeq(h) /\ JobSeq(h) <= sLast[job[h].sid]
  /\ NoHole

\* Steps that leave LastSeq, the backbone and all accepted frames alone.
Quiet ==
  /\ UNCHANGED <<sLast, sBase, outbox, failed>>
  /\ \A h \in Handlers :
       pc[h] \in {"commit", "publish"} \/ pc'[h] \in {"commit", "publish"} => pc'[h] = pc[h] /\ job'[h] = job[h]

LEMMA QuietSeqInv == SeqInv /\ Quiet => SeqInv'
BY DEF SeqInv, Quiet, NoHole, Accounted, Published, InFlight, JobSeq

\* NoHole survives a step that leaves LastSeq alone and forgets no event.
LEMMA NoHoleKept ==
  ASSUME Typed, NoHole, UNCHANGED <<sLast, sBase>>,
         \A t \in Sids, m \in Nat : Accounted(t, m) => Accounted(t, m)'
  PROVE  NoHole'
<1> SUFFICES ASSUME NEW t \in Sids, NEW m \in ((sBase[t] + 1)..sLast[t])'
             PROVE  Accounted(t, m)'
  BY DEF NoHole
<1>1. sBase[t] \in Nat /\ sLast[t] \in Nat
  BY DEF Typed, TypeOK
<1>2. m \in Nat /\ m \in (sBase[t] + 1)..sLast[t]
  BY <1>1
<1>3. QED BY <1>2 DEF NoHole

LEMMA QuietSteps ==
  ASSUME Typed, NEW c \in Conns,
         \/ Upgrade(c) \/ HelloRejected(c) \/ Put(c) \/ Register(c) \/ BadFrame(c) \/ Heartbeat(c)
         \/ ReadEnd(c) \/ Delete(c) \/ Unregister(c) \/ WriteMessage(c)
         \/ \E chunk \in {"undecodable", "partial", "final_mismatch", "final"} : Snapshot(c, chunk)
  PROVE  Quiet
<1> USE DEF Typed, TypeOK, Handlers, Quiet, sessVars, pubVars
<1>1. CASE Upgrade(c)
  BY <1>1 DEF Upgrade
<1>2. CASE HelloRejected(c)
  BY <1>2 DEF HelloRejected
<1>3. CASE Put(c)
  BY <1>3 DEF Put
<1>4. CASE Register(c)
  BY <1>4 DEF Register
<1>5. CASE BadFrame(c) \/ Heartbeat(c) \/ WriteMessage(c)
  BY <1>5 DEF BadFrame, Heartbeat, WriteMessage
<1>6. CASE ReadEnd(c)
  BY <1>6 DEF ReadEnd
<1>7. CASE Delete(c)
  BY <1>7 DEF Delete
<1>8. CASE Unregister(c)
  BY <1>8 DEF Unregister
<1>9. CASE \E chunk \in {"undecodable", "partial", "final_mismatch", "final"} : Snapshot(c, chunk)
  BY <1>9 DEF Snapshot
<1>10. QED BY <1>1, <1>2, <1>3, <1>4, <1>5, <1>6, <1>7, <1>8, <1>9

\* Taking up an accepted frame: only that goroutine's job changes.
LEMMA StartSeqInv ==
  ASSUME Typed, SeqInv, NEW h \in Handlers, NEW s \in Sids, NEW f \in Frame,
         pc[h] = "read", f.seq = sLast[s] + 1,
         pc' = [pc EXCEPT ![h] = "commit"],
         job' = [job EXCEPT ![h] = [sid |-> s, frame |-> f]],
         UNCHANGED <<sLast, sBase, outbox, failed>>
  PROVE  SeqInv'
<1>1. \A g \in Handlers : g # h => pc'[g] = pc[g] /\ job'[g] = job[g]
  BY DEF Typed, TypeOK
<1>2. pc'[h] = "commit" /\ job'[h].sid = s /\ job'[h].frame.seq = sLast[s] + 1
  BY DEF Typed, TypeOK
<1>3. sBase[s] \in Nat /\ sLast[s] \in Nat /\ sBase[s] < sLast[s] + 1
  BY DEF Typed, TypeOK, SeqInv
<1>4. \A t \in Sids, n \in Nat : InFlight(t, n) => InFlight(t, n)'
  BY <1>1, <1>2 DEF InFlight
<1>5. NoHole'
  BY <1>4, NoHoleKept DEF SeqInv, Accounted, Published
<1>6. QED BY <1>1, <1>2, <1>3, <1>5 DEF SeqInv, JobSeq

LEMMA NextSeqInv == Typed /\ SeqInv /\ [Next]_vars => SeqInv'
<1> SUFFICES ASSUME Typed, SeqInv, [Next]_vars PROVE SeqInv'
  OBVIOUS
<1> USE DEF keyVars, sessVars, hubVars, wsVars, ctlVars, pubVars
<1>1. ASSUME NEW a \in Accounts, CreatePairing(a) \/ Revoke(a) PROVE SeqInv'
  BY <1>1, QuietSeqInv DEF CreatePairing, Revoke, Quiet
<1>2. ASSUME NEW c \in Conns, NEW m \in Hello, NEW s \in Sids, HelloAccepted(c, m, s) PROVE SeqInv'
  <2>1. sLast'[s] = sBase'[s] /\ sLast'[s] \in Nat
    BY <1>2, BridgeAssumption DEF HelloAccepted, ResumeSeq, Hello, Typed, TypeOK, PointersOK
  <2>2. \A t \in Sids : t # s => sLast'[t] = sLast[t] /\ sBase'[t] = sBase[t]
    BY <1>2 DEF HelloAccepted, Typed, TypeOK
  <2>3. \A h \in Handlers : pc'[h] \in {"commit", "publish"} =>
          pc'[h] = pc[h] /\ job'[h] = job[h] /\ job[h].sid \in Sids /\ job[h].sid # s
    BY <1>2, BridgeAssumption DEF HelloAccepted, Typed, TypeOK, JobOK, Created, Handlers
  <2>4. \A h \in Handlers : pc[h] = "publish" => pc'[h] = pc[h] /\ job'[h] = job[h]
    BY <1>2 DEF HelloAccepted, Typed, TypeOK, Handlers
  <2>5. outbox' = outbox /\ failed' = failed
    BY <1>2 DEF HelloAccepted
  <2>6. NoHole'
    <3> SUFFICES ASSUME NEW t \in Sids, NEW k \in ((sBase[t] + 1)..sLast[t])'
                 PROVE  Accounted(t, k)'
      BY DEF NoHole
    <3>1. t # s
      BY <2>1
    <3>2. Accounted(t, k)
      BY <3>1, <2>2 DEF SeqInv, NoHole
    <3>3. QED BY <3>2, <2>4, <2>5 DEF Accounted, Published, InFlight
  <2>7. QED BY <2>1, <2>2, <2>3, <2>6 DEF SeqInv, JobSeq
<1>3. ASSUME NEW c \in Conns, NEW f \in Frame, WSEvent(c, f) PROVE SeqInv'
  <2>1. CASE pc' = pc /\ job' = job
    BY <1>3, <2>1, QuietSeqInv DEF WSEvent, Quiet
  <2>2. CASE ~(pc' = pc /\ job' = job)
    BY <1>3, <2>2, StartSeqInv DEF WSEvent, Verify, ExpectedSeq, Typed, TypeOK, Handlers
  <2>3. QED BY <2>1, <2>2
<1>4. ASSUME NEW r \in Rests, NEW f \in Frame, RestEvent(r, f) PROVE SeqInv'
  <2>1. CASE pc' = pc /\ job' = job
    BY <1>4, <2>1, QuietSeqInv DEF RestEvent, Quiet
  <2>2. CASE ~(pc' = pc /\ job' = job)
    BY <1>4, <2>2, StartSeqInv DEF RestEvent, Verify, ExpectedSeq, Typed, TypeOK, Handlers, Frame
  <2>3. QED BY <2>1, <2>2
<1>5. ASSUME NEW h \in Handlers, SetLastSeq(h) PROVE SeqInv'
  <2> DEFINE s == job[h].sid
             n == JobSeq(h)
  <2>1. s \in Sids /\ n \in Nat
    BY <1>5, BridgeAssumption DEF SetLastSeq, Typed, TypeOK, JobOK, Created, Frame, JobSeq
  <2>2. sBase[s] < n /\ n <= sLast[s] + 1
    BY <1>5 DEF SetLastSeq, SeqInv
  <2>3. sLast' = [sLast EXCEPT ![s] = Advanced(@, n)] /\ sBase' = sBase /\ job' = job
        /\ pc' = [pc EXCEPT ![h] = "publish"] /\ outbox' = outbox /\ failed' = failed
    BY <1>5 DEF SetLastSeq, JobSeq
  <2>4. \A t \in Sids : sLast[t] \in Nat /\ sBase[t] \in Nat /\ sLast'[t] \in Nat /\ sLast'[t] >= sLast[t]
    BY <2>1, <2>3 DEF Advanced, Typed, TypeOK
  <2>5. sLast'[s] >= n /\ sLast'[s] \in {sLast[s], n}
    BY <2>1, <2>3 DEF Advanced, Typed, TypeOK
  <2>6. NoHole'
    <3> SUFFICES ASSUME NEW t \in Sids, NEW m \in ((sBase[t] + 1)..sLast[t])'
                 PROVE  Accounted(t, m)'
      BY DEF NoHole
    <3>1. CASE m <= sLast[t]
      <4>1. Accounted(t, m)
        BY <3>1, <2>3, <2>4 DEF SeqInv, NoHole
      <4>2. InFlight(t, m) => InFlight(t, m)'
        BY <2>3 DEF InFlight, Typed, TypeOK
      <4>3. QED BY <4>1, <4>2, <2>3 DEF Accounted, Published
    <3>2. CASE m > sLast[t]
      <4>1. t = s /\ m = n
        BY <3>2, <2>1, <2>2, <2>3, <2>4, <2>5 DEF Typed, TypeOK
      <4>2. pc'[h] = "publish" /\ job'[h].sid = s /\ job'[h].frame.seq = n
        BY <2>3 DEF Typed, TypeOK, JobSeq
      <4>3. QED BY <4>1, <4>2 DEF Accounted, InFlight
    <3>3. QED BY <3>1, <3>2, <2>3, <2>4
  <2>7. \A g \in Handlers : g # h => pc'[g] = pc[g]
    BY <2>3 DEF Typed, TypeOK
  <2>8. pc'[h] = "publish"
    BY <2>3 DEF Typed, TypeOK
  <2>9. \A g \in Handlers : pc[g] \in {"commit", "publish"} => job[g].sid \in Sids /\ JobSeq(g) \in Nat
    BY BridgeAssumption DEF Typed, JobOK, Created, Frame, JobSeq
  <2>10. \A g \in Handlers : JobSeq(g)' = JobSeq(g) /\ job'[g] = job[g]
    BY <2>3 DEF JobSeq
  <2>11. \A g \in Handlers : pc'[g] = "commit" =>
           sBase'[job'[g].sid] < JobSeq(g)' /\ JobSeq(g)' <= sLast'[job'[g].sid] + 1
    <3> SUFFICES ASSUME NEW g \in Handlers, pc'[g] = "commit"
                 PROVE  sBase'[job'[g].sid] < JobSeq(g)' /\ JobSeq(g)' <= sLast'[job'[g].sid] + 1
      OBVIOUS
    <3>1. pc[g] = "commit"
      BY <2>7, <2>8
    <3>2. sBase[job[g].sid] < JobSeq(g) /\ JobSeq(g) <= sLast[job[g].sid] + 1
      BY <3>1 DEF SeqInv
    <3>3. job[g].sid \in Sids /\ JobSeq(g) \in Nat
      BY <3>1, <2>9
    <3> HIDE DEF s, n
    <3>4. QED BY <2>3, <2>4, <2>10, <3>2, <3>3
  <2>12. \A g \in Handlers : pc'[g] = "publish" =>
           sBase'[job'[g].sid] < JobSeq(g)' /\ JobSeq(g)' <= sLast'[job'[g].sid]
    BY <2>1, <2>2, <2>3, <2>4, <2>5, <2>7, <2>9, <2>10 DEF SeqInv
  <2>13. \A t \in Sids : sBase'[t] <= sLast'[t]
    <3>1. \A t \in Sids : sBase[t] <= sLast[t]
      BY DEF SeqInv
    <3> HIDE DEF s, n
    <3>2. QED BY <2>3, <2>4, <3>1
  <2>14. QED BY <2>6, <2>11, <2>12, <2>13 DEF SeqInv
<1>6. ASSUME NEW h \in Handlers, Ingest(h) PROVE SeqInv'
  <2>0. job[h].sid \in Sids /\ job[h].frame.seq \in Nat
    BY <1>6, BridgeAssumption DEF Ingest, Typed, TypeOK, JobOK, Created, Frame
  <2>1. PICK s \in Sids, n \in Nat : s = job[h].sid /\ n = job[h].frame.seq
    BY <2>0
  <2>2. sLast' = sLast /\ sBase' = sBase /\ pc' = [pc EXCEPT ![h] = "read"]
    BY <1>6 DEF Ingest
  <2>3. \A g \in Handlers : g # h => pc'[g] = pc[g] /\ job'[g] = job[g]
    BY <1>6 DEF Ingest, Typed, TypeOK
  <2>4. pc'[h] = "read"
    BY <2>2 DEF Typed, TypeOK
  <2>5. PICK ev : /\ ev.type = "ev" /\ ev.sid = s /\ ev.seq = n
                  /\ \/ outbox' = Append(outbox, ev) /\ failed' = failed
                     \/ outbox' = outbox /\ failed' = failed \cup {<<s, n>>}
    BY <1>6, <2>1 DEF Ingest
  <2>6. outbox \in Seq(Entry)
    BY DEF Typed, TypeOK
  <2>7. /\ \A t \in Sids, m \in Nat : Published(t, m) => Published(t, m)'
        /\ failed \subseteq failed'
        /\ Published(s, n)' \/ <<s, n>> \in failed'
    <3>1. CASE outbox' = Append(outbox, ev) /\ failed' = failed
      <4>1. /\ \A i \in DOMAIN outbox : i \in DOMAIN outbox' /\ outbox'[i] = outbox[i]
            /\ Len(outbox) + 1 \in DOMAIN outbox' /\ outbox'[Len(outbox) + 1] = ev
        BY <2>6, <3>1, AppendKeeps
      <4>2. QED BY <2>5, <3>1, <4>1 DEF Published
    <3>2. CASE outbox' = outbox /\ failed' = failed \cup {<<s, n>>}
      BY <3>2 DEF Published
    <3>3. QED BY <2>5, <3>1, <3>2
  <2>8. \A t \in Sids, m \in Nat : InFlight(t, m) => InFlight(t, m)' \/ (t = s /\ m = n)
    BY <2>1, <2>3 DEF InFlight
  <2>9. NoHole'
    <3>1. \A t \in Sids, m \in Nat : Accounted(t, m) => Accounted(t, m)'
      BY <2>7, <2>8 DEF Accounted
    <3>2. QED BY <2>2, <3>1, NoHoleKept DEF SeqInv
  <2>10. QED BY <2>2, <2>3, <2>4, <2>9 DEF SeqInv, JobSeq
<1>7. ASSUME NEW k \in Cmds, ControlPublish(k) PROVE SeqInv'
  <2> DEFINE e == [type |-> "control", acct |-> Target[k], cmd |-> k]
  <2>1. outbox' = Append(outbox, e) \/ outbox' = outbox
    BY <1>7 DEF ControlPublish
  <2>2. outbox \in Seq(Entry)
    BY DEF Typed, TypeOK
  <2>2a. \A i \in DOMAIN outbox : i \in DOMAIN outbox' /\ outbox'[i] = outbox[i]
    BY <2>1, <2>2, AppendKeeps
  <2>3. \A t \in Sids, m \in Nat : Published(t, m) => Published(t, m)'
    BY <2>2a DEF Published
  <2>4. UNCHANGED <<sLast, sBase, failed, pc, job>>
    BY <1>7 DEF ControlPublish
  <2>5. NoHole'
    BY <2>3, <2>4, NoHoleKept DEF SeqInv, Accounted, InFlight
  <2>6. QED BY <2>4, <2>5 DEF SeqInv, JobSeq
<1>8. ASSUME NEW k \in Cmds, ControlPush(k) PROVE SeqInv'
  BY <1>8, QuietSeqInv DEF ControlPush, Quiet
<1>9. CASE Tick \/ UNCHANGED vars
  BY <1>9, QuietSeqInv DEF Tick, Quiet, vars
<1>10. ASSUME NEW c \in Conns, Connection(c) PROVE SeqInv'
  BY <1>2, <1>3, <1>10, QuietSteps, QuietSeqInv DEF Connection
<1>11. QED
  BY <1>1, <1>4, <1>5, <1>6, <1>7, <1>8, <1>9, <1>10 DEF Next

LEMMA InitSeqInv == Init => SeqInv
BY DEF Init, SeqInv, NoHole, Handlers

\* The invariant behind the continuity theorems holds in every reachable state.
LEMMA SeqInvariant == Spec => [](Typed /\ SeqInv)
<1>1. Init => Typed /\ SeqInv
  BY InitTyped, InitSeqInv
<1>2. Typed /\ SeqInv /\ [Next]_vars => (Typed /\ SeqInv)'
  BY NextTyped, NextSeqInv
<1>3. QED BY <1>1, <1>2, PTL DEF Spec

\* No event is skipped silently: whatever the interleaving of WebSocket and REST
\* goroutines, each number LastSeq has passed was published, is about to be, or
\* failed in the publisher.
THEOREM NoEventSkipped == Spec => []NumbersWhole
<1>1. Typed /\ SeqInv => NumbersWhole
  BY DEF Typed, SeqInv, NumbersWhole
<1>2. QED BY <1>1, SeqInvariant, PTL

\* LastSeq of a live session never goes back and never jumps over a number.
THEOREM SequenceContinuity == Spec => LastSeqAdvancesByOne
<1>1. Typed /\ SeqInv /\ [Next]_vars =>
        [\A s \in Sids : sAcct[s] # None => sLast'[s] \in {sLast[s], sLast[s] + 1}]_vars
  <2> SUFFICES ASSUME Typed, SeqInv, Next, NEW s \in Sids, sAcct[s] # None
               PROVE  sLast'[s] \in {sLast[s], sLast[s] + 1}
    OBVIOUS
  <2> USE DEF sessVars
  <2>1. ASSUME NEW h \in Handlers, SetLastSeq(h) PROVE sLast'[s] \in {sLast[s], sLast[s] + 1}
    <3>1. job[h].sid \in Sids /\ JobSeq(h) \in Nat /\ JobSeq(h) <= sLast[job[h].sid] + 1
      BY <2>1, BridgeAssumption DEF SetLastSeq, Typed, TypeOK, JobOK, Created, Frame, JobSeq, SeqInv
    <3>2. sLast' = [sLast EXCEPT ![job[h].sid] = Advanced(@, JobSeq(h))]
      BY <2>1 DEF SetLastSeq, JobSeq
    <3>3. QED BY <3>1, <3>2 DEF Advanced, Typed, TypeOK
  <2>2. ASSUME NEW c \in Conns, NEW m \in Hello, NEW t \in Sids, HelloAccepted(c, m, t)
        PROVE  sLast'[s] = sLast[s]
    BY <2>2 DEF HelloAccepted, Typed, TypeOK
  <2>3. ASSUME NEW c \in Conns, NEW f \in Frame, WSEvent(c, f) PROVE sLast' = sLast
    BY <2>3 DEF WSEvent
  <2>4. ASSUME NEW c \in Conns, Connection(c) PROVE sLast'[s] = sLast[s]
    BY <2>2, <2>3, <2>4, QuietSteps DEF Connection, Quiet
  <2>5. ASSUME NEW r \in Rests, NEW f \in Frame, RestEvent(r, f) PROVE sLast' = sLast
    BY <2>5 DEF RestEvent
  <2>6. CASE \/ \E a \in Accounts : CreatePairing(a) \/ Revoke(a)
             \/ \E h \in Handlers : Ingest(h)
             \/ \E k \in Cmds : ControlPublish(k) \/ ControlPush(k)
             \/ Tick
    BY <2>6 DEF CreatePairing, Revoke, Ingest, ControlPublish, ControlPush, Tick
  <2>7. QED BY <2>1, <2>4, <2>5, <2>6 DEF Next
<1>2. QED BY <1>1, SeqInvariant, PTL DEF Spec, LastSeqAdvancesByOne

-----------------------------------------------------------------------------
(* What every step keeps, and where new entries and accepted frames come from *)

\* Sessions keep their account and never lose ground, the backbone and the
\* failures only grow, a paired account stays paired, the clock does not go back.
Kept ==
  /\ \A s \in Sids : sAcct[s] # None => sAcct'[s] = sAcct[s] /\ sLast'[s] >= sLast[s]
  /\ \A i \in DOMAIN outbox : i \in DOMAIN outbox' /\ outbox'[i] = outbox[i]
  /\ failed \subseteq failed'
  /\ \A a \in Accounts : pairing[a] # 0 => pairing'[a] # 0
  /\ now' >= now

EventOf(h) ==
  [type |-> "ev", acct |-> sAcct[job[h].sid], claim |-> job[h].frame.acct, sid |-> job[h].sid,
   seq |-> job[h].frame.seq, nonce |-> job[h].frame.nonce]
CommandOf(k) == [type |-> "control", acct |-> Target[k], cmd |-> k]

LEMMA EventType ==
  ASSUME Typed, NEW h \in Handlers, pc[h] = "publish"
  PROVE  EventOf(h) \in Entry
<1>1. job[h].sid \in Sids /\ sAcct[job[h].sid] \in Accounts /\ job[h].frame \in Frame
  BY DEF Typed, JobOK, Created
<1>2. job[h].frame.acct \in Accounts /\ job[h].frame.seq \in Nat /\ job[h].frame.nonce \in Nonces
  BY <1>1, BridgeAssumption DEF Frame
<1>3. QED BY <1>1, <1>2 DEF EventOf, Entry, EventEntry

LEMMA CommandType ==
  ASSUME NEW k \in Cmds
  PROVE  CommandOf(k) \in Entry
BY BridgeAssumption DEF CommandOf, Entry, ControlEntry

\* The backbone changes by an event some goroutine publishes or a command.
LEMMA OutboxStep ==
  ASSUME Typed, [Next]_vars
  PROVE  \/ outbox' = outbox
         \/ \E h \in Handlers : Ingest(h) /\ outbox' = Append(outbox, EventOf(h))
         \/ \E k \in Cmds : ControlPublish(k) /\ outbox' = Append(outbox, CommandOf(k))
<1> USE DEF pubVars
<1>1. ASSUME NEW a \in Accounts, CreatePairing(a) \/ Revoke(a) PROVE outbox' = outbox
  BY <1>1 DEF CreatePairing, Revoke
<1>2. ASSUME NEW c \in Conns, Connection(c) PROVE outbox' = outbox
  BY <1>2 DEF Connection, Upgrade, Put, Register, BadFrame, Heartbeat, HelloRejected, ReadEnd, Delete,
              Unregister, WriteMessage, HelloAccepted, WSEvent, Snapshot
<1>3. ASSUME NEW r \in Rests, NEW f \in Frame, RestEvent(r, f) PROVE outbox' = outbox
  BY <1>3 DEF RestEvent
<1>4. ASSUME NEW h \in Handlers, SetLastSeq(h) PROVE outbox' = outbox
  BY <1>4 DEF SetLastSeq
<1>5. ASSUME NEW h \in Handlers, Ingest(h) PROVE outbox' = outbox \/ outbox' = Append(outbox, EventOf(h))
  BY <1>5 DEF Ingest, EventOf
<1>6. ASSUME NEW k \in Cmds, ControlPublish(k) PROVE outbox' = outbox \/ outbox' = Append(outbox, CommandOf(k))
  BY <1>6 DEF ControlPublish, CommandOf
<1>7. ASSUME NEW k \in Cmds, ControlPush(k) PROVE outbox' = outbox
  BY <1>7 DEF ControlPush
<1>8. CASE Tick \/ UNCHANGED vars
  BY <1>8 DEF Tick, vars
<1>9. QED BY <1>1, <1>2, <1>3, <1>4, <1>5, <1>6, <1>7, <1>8 DEF Next

\* An entry that was not there before is at the end, and is such an event or command.
LEMMA NewEntry ==
  ASSUME Typed, [Next]_vars, NEW i \in DOMAIN outbox', i \notin DOMAIN outbox
  PROVE  /\ i = Len(outbox) + 1
         /\ \/ \E h \in Handlers : Ingest(h) /\ outbox'[i] = EventOf(h)
            \/ \E k \in Cmds : ControlPublish(k) /\ outbox'[i] = CommandOf(k)
<1>1. outbox \in Seq(Entry)
  BY DEF Typed, TypeOK
<1>2. \A e : outbox' = Append(outbox, e) => i = Len(outbox) + 1 /\ outbox'[i] = e
  BY <1>1
<1>3. outbox' # outbox
  OBVIOUS
<1>4. QED BY <1>2, <1>3, OutboxStep

LEMMA NextKept ==
  ASSUME Typed, [Next]_vars
  PROVE  Kept
<1>1. \A i \in DOMAIN outbox : i \in DOMAIN outbox' /\ outbox'[i] = outbox[i]
  <2>1. outbox \in Seq(Entry)
    BY DEF Typed, TypeOK
  <2>2. outbox' = outbox \/ \E e : outbox' = Append(outbox, e)
    BY OutboxStep
  <2>3. QED BY <2>1, <2>2
<1>2. \A s \in Sids : sAcct[s] # None => sAcct'[s] = sAcct[s] /\ sLast'[s] >= sLast[s]
  <2> SUFFICES ASSUME NEW s \in Sids, sAcct[s] # None
               PROVE  sAcct'[s] = sAcct[s] /\ sLast'[s] >= sLast[s]
    OBVIOUS
  <2> USE DEF sessVars
  <2>1. sLast[s] \in Nat
    BY DEF Typed, TypeOK
  <2>2. CASE sAcct' = sAcct /\ sLast' = sLast
    BY <2>1, <2>2
  <2>3. ASSUME NEW c \in Conns, NEW m \in Hello, NEW t \in Sids, HelloAccepted(c, m, t)
        PROVE  sAcct'[s] = sAcct[s] /\ sLast'[s] = sLast[s]
    BY <2>3 DEF HelloAccepted, Typed, TypeOK
  <2>4. ASSUME NEW h \in Handlers, SetLastSeq(h)
        PROVE  sAcct' = sAcct /\ sLast'[s] >= sLast[s]
    <3>1. job[h].sid \in Sids /\ job[h].frame.seq \in Nat
      BY <2>4, BridgeAssumption DEF SetLastSeq, Typed, JobOK, Created, Frame
    <3>2. QED BY <2>1, <2>4, <3>1 DEF SetLastSeq, Advanced, Typed, TypeOK
  <2>5. ASSUME NEW c \in Conns, Connection(c), ~ \E m \in Hello, t \in Sids : HelloAccepted(c, m, t)
        PROVE  sAcct' = sAcct /\ sLast' = sLast
    BY <2>5 DEF Connection, Upgrade, Put, Register, BadFrame, Heartbeat, HelloRejected, ReadEnd, Delete,
                Unregister, WriteMessage, WSEvent, Snapshot
  <2>6. CASE \/ \E a \in Accounts : CreatePairing(a) \/ Revoke(a)
             \/ \E r \in Rests, f \in Frame : RestEvent(r, f)
             \/ \E h \in Handlers : Ingest(h)
             \/ \E k \in Cmds : ControlPublish(k) \/ ControlPush(k)
             \/ Tick
             \/ UNCHANGED vars
    BY <2>2, <2>6 DEF CreatePairing, Revoke, RestEvent, Ingest, ControlPublish, ControlPush, Tick, vars
  <2>7. QED BY <2>1, <2>2, <2>3, <2>4, <2>5, <2>6 DEF Next
<1>3. failed \subseteq failed'
  <2> USE DEF pubVars
  <2>1. ASSUME NEW c \in Conns, Connection(c) PROVE failed' = failed
    BY <2>1 DEF Connection, Upgrade, Put, Register, BadFrame, Heartbeat, HelloRejected, ReadEnd, Delete,
                Unregister, WriteMessage, HelloAccepted, WSEvent, Snapshot
  <2>2. ASSUME NEW h \in Handlers, Ingest(h) PROVE failed \subseteq failed'
    BY <2>2 DEF Ingest
  <2>3. CASE \/ \E a \in Accounts : CreatePairing(a) \/ Revoke(a)
             \/ \E r \in Rests, f \in Frame : RestEvent(r, f)
             \/ \E h \in Handlers : SetLastSeq(h)
             \/ \E k \in Cmds : ControlPublish(k) \/ ControlPush(k)
             \/ Tick
             \/ UNCHANGED vars
    BY <2>3 DEF CreatePairing, Revoke, RestEvent, SetLastSeq, ControlPublish, ControlPush, Tick, vars
  <2>4. QED BY <2>1, <2>2, <2>3 DEF Next
<1>4. (\A a \in Accounts : pairing[a] # 0 => pairing'[a] # 0) /\ now' >= now
  <2> USE DEF keyVars
  <2>1. now \in Nat /\ pairing \in [Accounts -> Nat]
    BY BridgeAssumption DEF Typed, TypeOK
  <2>2. ASSUME NEW a \in Accounts, CreatePairing(a) PROVE (\A b \in Accounts : pairing[b] # 0 => pairing'[b] # 0) /\ now' = now
    BY <2>1, <2>2 DEF CreatePairing
  <2>3. CASE Tick
    BY <2>1, <2>3 DEF Tick
  <2>4. ASSUME NEW c \in Conns, Connection(c) PROVE pairing' = pairing /\ now' = now
    BY <2>4 DEF Connection, Upgrade, Put, Register, BadFrame, Heartbeat, HelloRejected, ReadEnd, Delete,
                Unregister, WriteMessage, HelloAccepted, WSEvent, Snapshot
  <2>5. CASE \/ \E a \in Accounts : Revoke(a)
             \/ \E r \in Rests, f \in Frame : RestEvent(r, f)
             \/ \E h \in Handlers : SetLastSeq(h) \/ Ingest(h)
             \/ \E k \in Cmds : ControlPublish(k) \/ ControlPush(k)
             \/ UNCHANGED vars
    <3>1. pairing' = pairing /\ now' = now
      BY <2>5 DEF Revoke, RestEvent, SetLastSeq, Ingest, ControlPublish, ControlPush, vars
    <3>2. QED BY <2>1, <3>1
  <2>6. QED BY <2>1, <2>2, <2>3, <2>4, <2>5 DEF Next
<1>5. QED BY <1>1, <1>2, <1>3, <1>4 DEF Kept

\* A goroutine between the guard and the end of publish.
Active(h) == pc[h] \in {"commit", "publish"}

\* The guard lets frame f of session s pass, for goroutine h.
Accepts(h, s, f) ==
  /\ sAcct[s] \in Accounts
  /\ Verify(f, s) = "ok"
  /\ seen' = [seen EXCEPT ![s] = RecordNonce(s, f.nonce)]
  /\ pc[h] = "read"
  /\ pc' = [pc EXCEPT ![h] = "commit"]
  /\ job' = [job EXCEPT ![h] = [sid |-> s, frame |-> f]]
  /\ h \in Conns => bound[h] = s
  /\ UNCHANGED <<now, sAcct, sLast, sBase, outbox, failed, bound, pairing, ctl, queued>>

\* A goroutine is between guard and publish because it was before, because it
\* has just done setLastSeq, or because the guard has just let its frame pass.
LEMMA ActiveStep ==
  ASSUME Typed, [Next]_vars
  PROVE  \/ \E h \in Handlers, s \in Sids, f \in Frame : Accepts(h, s, f)
         \/ \E h \in Handlers : SetLastSeq(h)
         \/ \A h \in Handlers : Active(h)' => pc'[h] = pc[h] /\ job'[h] = job[h]
<1> DEFINE Goal == \/ \E h \in Handlers, s \in Sids, f \in Frame : Accepts(h, s, f)
                   \/ \A h \in Handlers : Active(h)' => pc'[h] = pc[h] /\ job'[h] = job[h]
<1> USE DEF sessVars, wsVars, pubVars, keyVars, ctlVars
<1>1. ASSUME NEW c \in Conns, NEW f \in Frame, WSEvent(c, f) PROVE Goal
  <2>1. CASE pc' = pc /\ job' = job
    BY <2>1
  <2>2. CASE ~(pc' = pc /\ job' = job)
    <3>1. bound[c] \in Sids /\ sAcct[bound[c]] \in Accounts
      BY <1>1 DEF WSEvent, Typed, PointersOK, Created
    <3>2. Accepts(c, bound[c], f)
      BY <1>1, <2>2, <3>1 DEF WSEvent, NonceChecked, Accepts
    <3>3. QED BY <3>1, <3>2 DEF Handlers
  <2>3. QED BY <2>1, <2>2
<1>2. ASSUME NEW r \in Rests, NEW f \in Frame, RestEvent(r, f) PROVE Goal
  <2>1. CASE pc' = pc /\ job' = job
    BY <2>1
  <2>2. CASE ~(pc' = pc /\ job' = job)
    <3>1. f.acct \in Accounts
      BY DEF Frame
    <3>2. store[f.acct] \in Sids /\ sAcct[store[f.acct]] \in Accounts
      BY <1>2, <2>2, <3>1 DEF RestEvent, Verify, Typed, TypeOK, PointersOK
    <3>3. Accepts(r, store[f.acct], f)
      BY <1>2, <2>2, <3>2, BridgeAssumption DEF RestEvent, NonceChecked, Accepts
    <3>4. QED BY <3>2, <3>3 DEF Handlers
  <2>3. QED BY <2>1, <2>2
<1>3. ASSUME NEW c \in Conns, NEW m \in Hello, NEW s \in Sids, HelloAccepted(c, m, s) PROVE Goal
  BY <1>3 DEF HelloAccepted, Typed, TypeOK, Handlers, Active
<1>4. ASSUME NEW c \in Conns, Connection(c) PROVE Goal
  BY <1>1, <1>3, <1>4, QuietSteps DEF Connection, Quiet, Active
<1>5. ASSUME NEW h \in Handlers, Ingest(h) PROVE Goal
  BY <1>5 DEF Ingest, Typed, TypeOK, Active
<1>6. CASE \/ \E a \in Accounts : CreatePairing(a) \/ Revoke(a)
           \/ \E k \in Cmds : ControlPublish(k) \/ ControlPush(k)
           \/ Tick
           \/ UNCHANGED vars
  BY <1>6 DEF CreatePairing, Revoke, ControlPublish, ControlPush, Tick, vars
<1>7. QED BY <1>2, <1>4, <1>5, <1>6 DEF Next

-----------------------------------------------------------------------------
(* Accounts.  What ends on the backbone was bound at the guard, steps before: *)
(* the frame a goroutine holds names the session's account, which never       *)
(* changes, and a command that is about to be pushed has been recorded.       *)

Recorded(k) ==
  \E i \in DOMAIN outbox : outbox[i].type = "control" /\ outbox[i].cmd = k /\ outbox[i].acct = Target[k]

AcctInv ==
  /\ \A s \in Sids : sAcct[s] # None => pairing[sAcct[s]] # 0
  /\ \A h \in Handlers : Active(h) => job[h].frame.acct = sAcct[job[h].sid]
  /\ \A k \in Cmds : ctl[k] = "published" => Recorded(k)
  /\ AccountsApart

LEMMA InitAcctInv == Init => AcctInv
BY DEF Init, AcctInv, Active, AccountsApart, OutboxAttributed, PushedIsRecorded, Handlers

\* What goroutines hold keeps naming the session's account.
LEMMA JobsKeepAccount ==
  ASSUME Typed, AcctInv, [Next]_vars, NEW h \in Handlers, Active(h)'
  PROVE  job'[h].frame.acct = sAcct'[job'[h].sid]
<1>1. CASE \E g \in Handlers, s \in Sids, f \in Frame : Accepts(g, s, f)
  <2>1. PICK g \in Handlers, s \in Sids, f \in Frame : Accepts(g, s, f)
    BY <1>1
  <2>2. CASE g = h
    BY <2>1, <2>2 DEF Accepts, Verify, BindingOK, Typed, TypeOK
  <2>3. CASE g # h
    BY <2>1, <2>3 DEF Accepts, AcctInv, Active, Typed, TypeOK
  <2>4. QED BY <2>2, <2>3
<1>2. CASE \E g \in Handlers : SetLastSeq(g)
  BY <1>2 DEF SetLastSeq, AcctInv, Active, Typed, TypeOK
<1>3. CASE pc'[h] = pc[h] /\ job'[h] = job[h]
  <2>1. Created(job[h].sid) /\ job[h].frame.acct = sAcct[job[h].sid]
    BY <1>3 DEF AcctInv, Active, Typed, JobOK
  <2>2. sAcct[job[h].sid] # None
    BY <2>1, BridgeAssumption DEF Created
  <2>3. QED BY <1>3, <2>1, <2>2, NextKept DEF Kept, Created
<1>4. QED BY <1>1, <1>2, <1>3, ActiveStep

\* Recording is for ever.
LEMMA RecordedStays ==
  ASSUME Typed, [Next]_vars, NEW k, Recorded(k)
  PROVE  Recorded(k)'
BY NextKept DEF Kept, Recorded

LEMMA NextAcctInv == Typed /\ AcctInv /\ [Next]_vars => AcctInv'
<1> SUFFICES ASSUME Typed, AcctInv, [Next]_vars PROVE AcctInv'
  OBVIOUS
<1>1. \A s \in Sids : sAcct'[s] # None => pairing'[sAcct'[s]] # 0
  <2> SUFFICES ASSUME NEW s \in Sids, sAcct'[s] # None PROVE pairing'[sAcct'[s]] # 0
    OBVIOUS
  <2>1. CASE sAcct[s] # None
    BY <2>1, NextKept DEF Kept, AcctInv, Typed, TypeOK
  <2>2. CASE sAcct[s] = None
    <3> USE DEF sessVars, keyVars
    <3>1. ASSUME NEW c \in Conns, Connection(c), ~ \E m \in Hello, t \in Sids : HelloAccepted(c, m, t)
          PROVE  sAcct' = sAcct
      BY <3>1 DEF Connection, Upgrade, Put, Register, BadFrame, Heartbeat, HelloRejected, ReadEnd, Delete,
                  Unregister, WriteMessage, WSEvent, Snapshot
    <3>2. CASE \/ \E a \in Accounts : CreatePairing(a) \/ Revoke(a)
               \/ \E r \in Rests, f \in Frame : RestEvent(r, f)
               \/ \E h \in Handlers : SetLastSeq(h) \/ Ingest(h)
               \/ \E k \in Cmds : ControlPublish(k) \/ ControlPush(k)
               \/ Tick
               \/ UNCHANGED vars
      BY <2>2, <3>2 DEF CreatePairing, Revoke, RestEvent, SetLastSeq, Ingest, ControlPublish, ControlPush, Tick, vars
    <3>3. ASSUME NEW c \in Conns, NEW m \in Hello, NEW t \in Sids, HelloAccepted(c, m, t)
          PROVE  pairing'[sAcct'[s]] # 0
      BY <2>2, <3>3 DEF HelloAccepted, VerifyHello, Typed, TypeOK
    <3>4. QED BY <2>2, <3>1, <3>2, <3>3 DEF Next
  <2>3. QED BY <2>1, <2>2
<1>2. \A k \in Cmds : ctl'[k] = "published" => Recorded(k)'
  <2> SUFFICES ASSUME NEW k \in Cmds, ctl'[k] = "published" PROVE Recorded(k)'
    OBVIOUS
  <2>1. CASE ctl[k] = "published"
    BY <2>1, RecordedStays DEF AcctInv
  <2>2. CASE ctl[k] # "published"
    <3> USE DEF ctlVars
    <3>1. ASSUME NEW c \in Conns, Connection(c) PROVE ctl' = ctl
      BY <3>1 DEF Connection, Upgrade, Put, Register, BadFrame, Heartbeat, HelloRejected, ReadEnd, Delete,
                  Unregister, WriteMessage, HelloAccepted, WSEvent, Snapshot
    <3>2. CASE \/ \E a \in Accounts : CreatePairing(a) \/ Revoke(a)
               \/ \E r \in Rests, f \in Frame : RestEvent(r, f)
               \/ \E h \in Handlers : SetLastSeq(h) \/ Ingest(h)
               \/ Tick
               \/ UNCHANGED vars
      BY <2>2, <3>2 DEF CreatePairing, Revoke, RestEvent, SetLastSeq, Ingest, Tick, vars
    <3>3. ASSUME NEW l \in Cmds, ControlPush(l) PROVE ctl'[k] # "published"
      BY <2>2, <3>3 DEF ControlPush, Typed, TypeOK
    <3>4. ASSUME NEW l \in Cmds, ControlPublish(l) PROVE Recorded(k)'
      <4>1. l = k /\ outbox' = Append(outbox, CommandOf(k))
        BY <2>2, <3>4 DEF ControlPublish, CommandOf, Typed, TypeOK
      <4>2. Len(outbox) + 1 \in DOMAIN outbox' /\ outbox'[Len(outbox) + 1] = CommandOf(k)
        BY <4>1, CommandType, AppendKeeps DEF Typed, TypeOK
      <4>3. QED BY <4>2 DEF Recorded, CommandOf
    <3>5. QED BY <2>2, <3>1, <3>2, <3>3, <3>4 DEF Next
  <2>3. QED BY <2>1, <2>2
<1>3. OutboxAttributed'
  <2> SUFFICES ASSUME NEW i \in DOMAIN outbox', outbox'[i].type = "ev"
               PROVE  /\ outbox'[i].claim = outbox'[i].acct
                      /\ sAcct'[outbox'[i].sid] = outbox'[i].acct
                      /\ pairing'[outbox'[i].acct] # 0
    BY DEF OutboxAttributed
  <2>1. CASE i \in DOMAIN outbox
    <3>1. outbox'[i] = outbox[i]
      BY <2>1, NextKept DEF Kept
    <3>2. outbox[i] \in EventEntry
      BY <2>1, <3>1 DEF Typed, TypeOK, Entry, ControlEntry
    <3>3. /\ outbox[i].claim = outbox[i].acct
          /\ sAcct[outbox[i].sid] = outbox[i].acct
          /\ pairing[outbox[i].acct] # 0
      BY <2>1, <3>1 DEF AcctInv, AccountsApart, OutboxAttributed
    <3>4. outbox[i].sid \in Sids /\ outbox[i].acct \in Accounts /\ outbox[i].acct # None
      BY <3>2, BridgeAssumption DEF EventEntry
    <3>5. QED BY <3>1, <3>3, <3>4, NextKept DEF Kept
  <2>2. CASE i \notin DOMAIN outbox
    <3>1. PICK h \in Handlers : Ingest(h) /\ outbox'[i] = EventOf(h)
      BY <2>2, NewEntry DEF CommandOf
    <3>2. pc[h] = "publish" /\ sAcct' = sAcct /\ pairing' = pairing
      BY <3>1 DEF Ingest, sessVars, keyVars
    <3>3. job[h].frame.acct = sAcct[job[h].sid] /\ Created(job[h].sid)
      BY <3>2 DEF AcctInv, Active, Typed, JobOK
    <3>4. pairing[sAcct[job[h].sid]] # 0
      BY <3>3, BridgeAssumption DEF AcctInv, Created
    <3>5. QED BY <3>1, <3>2, <3>3, <3>4 DEF EventOf
  <2>3. QED BY <2>1, <2>2
<1>4. PushedIsRecorded'
  <2> SUFFICES ASSUME NEW k \in queued' PROVE Recorded(k)'
    BY DEF PushedIsRecorded, Recorded
  <2>1. CASE k \in queued
    BY <2>1, RecordedStays DEF AcctInv, AccountsApart, PushedIsRecorded, Recorded
  <2>2. CASE k \notin queued
    <3> USE DEF ctlVars
    <3>1. ASSUME NEW c \in Conns, Connection(c) PROVE queued' = queued
      BY <3>1 DEF Connection, Upgrade, Put, Register, BadFrame, Heartbeat, HelloRejected, ReadEnd, Delete,
                  Unregister, WriteMessage, HelloAccepted, WSEvent, Snapshot
    <3>2. CASE \/ \E a \in Accounts : CreatePairing(a) \/ Revoke(a)
               \/ \E r \in Rests, f \in Frame : RestEvent(r, f)
               \/ \E h \in Handlers : SetLastSeq(h) \/ Ingest(h)
               \/ \E l \in Cmds : ControlPublish(l)
               \/ Tick
               \/ UNCHANGED vars
      BY <2>2, <3>2 DEF CreatePairing, Revoke, RestEvent, SetLastSeq, Ingest, ControlPublish, Tick, vars
    <3>3. ASSUME NEW l \in Cmds, ControlPush(l) PROVE Recorded(k)
      BY <2>2, <3>3 DEF ControlPush, AcctInv
    <3>4. QED BY <2>2, <3>1, <3>2, <3>3, RecordedStays DEF Next
  <2>3. QED BY <2>1, <2>2
<1>5. QED BY <1>1, <1>2, <1>3, <1>4, JobsKeepAccount DEF AcctInv, AccountsApart

LEMMA AcctInvariant == Spec => [](Typed /\ AcctInv)
<1>1. Init => Typed /\ AcctInv
  BY InitTyped, InitAcctInv
<1>2. Typed /\ AcctInv /\ [Next]_vars => (Typed /\ AcctInv)'
  BY NextTyped, NextAcctInv
<1>3. QED BY <1>1, <1>2, PTL DEF Spec

\* Nothing crosses accounts: every event is on the backbone under the account
\* it was sent for and a paired one, and a command reaches a terminal's queue
\* only if it is on the backbone for that account.
THEOREM AccountsStayApart == Spec => []AccountsApart
<1>1. Typed /\ AcctInv => AccountsApart
  BY DEF AcctInv
<1>2. QED BY <1>1, AcctInvariant, PTL

-----------------------------------------------------------------------------
(* Promises.  A queued reply speaks of a session that existed when it was     *)
(* queued; what it says stays true because such a session never loses ground. *)

Backed(e) ==
  /\ e.kind = "ack" => Published(e.sid, e.n) \/ <<e.sid, e.n>> \in failed
  /\ e.kind = "auth_ok" => e.n <= sLast[e.sid]
  /\ e.kind = "resync_complete" => e.n <= sLast[e.sid] + 1
  /\ e.kind \in {"ack", "auth_ok", "resync_complete"} => Created(e.sid)

PromInv == \A c \in Conns : \A i \in DOMAIN wq[c] : Backed(wq[c][i])

LEMMA BackedStays ==
  ASSUME Typed, [Next]_vars, NEW e \in Message, Backed(e)
  PROVE  Backed(e)'
<1>1. e.kind \in {"ack", "auth_ok", "resync_complete"} => e.n \in Nat /\ e.sid \in Sids /\ sAcct[e.sid] # None
  BY BridgeAssumption DEF Backed, Created, Message, Numbered, Plain, Control
<1>2. \A s \in Sids : sAcct[s] # None => sAcct'[s] = sAcct[s] /\ sLast'[s] >= sLast[s]
  BY NextKept DEF Kept
<1>3. \A s \in Sids : sLast[s] \in Nat /\ sLast'[s] \in Nat
  BY NextTyped DEF Typed, TypeOK
<1>4. Published(e.sid, e.n) => Published(e.sid, e.n)'
  BY NextKept DEF Kept, Published
<1>5. failed \subseteq failed'
  BY NextKept DEF Kept
<1>6. QED BY <1>1, <1>2, <1>3, <1>4, <1>5 DEF Backed, Created

\* A queue that a frame has been pushed to holds that frame and what it held before.
LEMMA PushHolds ==
  ASSUME NEW q \in Seq(Message), NEW e \in Message, NEW i \in DOMAIN Push(q, e)
  PROVE  Push(q, e)[i] = e \/ \E j \in DOMAIN q : Push(q, e)[i] = q[j]
BY DEF Push

\* So one more backed frame on one queue keeps all promises.
LEMMA PushBacked ==
  ASSUME Typed, PromInv, [Next]_vars, NEW c \in Conns, NEW e \in Message, Backed(e)',
         wq' = [wq EXCEPT ![c] = Push(@, e)]
  PROVE  PromInv'
<1> SUFFICES ASSUME NEW d \in Conns, NEW i \in DOMAIN wq'[d], NEW x, x = wq'[d][i] PROVE Backed(x)'
  BY DEF PromInv
<1>1. wq \in [Conns -> Seq(Message)]
  BY DEF Typed, TypeOK
<1>2. CASE \E j \in DOMAIN wq[d] : x = wq[d][j]
  <2>1. x \in Message /\ Backed(x)
    BY <1>1, <1>2 DEF PromInv
  <2>2. QED BY <2>1, BackedStays
<1>3. CASE x = e
  BY <1>3
<1>4. QED BY <1>1, <1>2, <1>3, PushHolds

LEMMA SameQueues ==
  ASSUME Typed, PromInv, [Next]_vars, wq' = wq
  PROVE  PromInv'
BY BackedStays DEF PromInv, Typed, TypeOK

LEMMA NextPromInv == Typed /\ PromInv /\ [Next]_vars => PromInv'
<1> SUFFICES ASSUME Typed, PromInv, [Next]_vars PROVE PromInv'
  OBVIOUS
<1> USE DEF wsVars
<1>1. \A e \in Plain \cup Control : e \in Message /\ Backed(e)'
  BY DEF Message, Plain, Control, Backed
<1>2. /\ [kind |-> "reject"] \in Plain /\ [kind |-> "snapshot_request"] \in Plain /\ [kind |-> "hb"] \in Plain
      /\ \A k \in Cmds : [kind |-> "ctl", cmd |-> k] \in Control
  BY DEF Plain, Control
<1>3. ASSUME NEW c \in Conns, NEW e \in Plain \cup Control, Reply(c, e) PROVE PromInv'
  BY <1>1, <1>3, PushBacked DEF Reply
<1>4. ASSUME NEW c \in Conns, Put(c) PROVE PromInv'
  <2>1. PICK s \in Sids : s = job[c].sid /\ sAcct[s] \in Accounts /\ sLast[s] \in Nat
    BY <1>4 DEF Put, Typed, TypeOK, JobOK, Created
  <2>2. PICK e \in Message : e = [kind |-> "auth_ok", sid |-> s, n |-> sLast[s]]
    BY <2>1 DEF Message, Numbered
  <2>3. sLast' = sLast /\ sAcct' = sAcct /\ wq' = [wq EXCEPT ![c] = Push(@, e)]
    BY <1>4, <2>1, <2>2 DEF Put, Reply, sessVars
  <2>4. Backed(e)'
    BY <2>1, <2>2, <2>3 DEF Backed, Created
  <2>5. QED BY <2>3, <2>4, PushBacked
<1>5. ASSUME NEW c \in Conns, NEW chunk \in {"undecodable", "partial", "final_mismatch", "final"},
             Snapshot(c, chunk)
      PROVE  PromInv'
  <2>1. PICK s \in Sids : s = bound[c] /\ sAcct[s] \in Accounts /\ sLast[s] \in Nat
    BY <1>5 DEF Snapshot, Typed, TypeOK, PointersOK, Created
  <2>2. PICK e \in Message : e = [kind |-> "resync_complete", sid |-> s, n |-> sLast[s] + 1]
    <3>1. sLast[s] + 1 \in Nat
      BY <2>1
    <3>2. QED BY <3>1 DEF Message, Numbered
  <2>3. sLast' = sLast /\ sAcct' = sAcct
    BY <1>5 DEF Snapshot
  <2>4. Backed(e)'
    BY <2>1, <2>2, <2>3 DEF Backed, Created
  <2>5. Reply(c, [kind |-> "reject"]) \/ wq' = [wq EXCEPT ![c] = Push(@, e)]
    BY <1>5, <2>1, <2>2 DEF Snapshot, Reply, Baseline
  <2>6. QED BY <1>2, <1>3, <2>4, <2>5, PushBacked
<1>6. ASSUME NEW c \in Conns, WriteMessage(c) PROVE PromInv'
  <2>1. wq \in [Conns -> Seq(Message)] /\ wq[c] # <<>> /\ wq' = [wq EXCEPT ![c] = Tail(@)]
    BY <1>6 DEF WriteMessage, Typed, TypeOK
  <2> SUFFICES ASSUME NEW d \in Conns, NEW i \in DOMAIN wq'[d], NEW x, x = wq'[d][i] PROVE Backed(x)'
    BY DEF PromInv
  <2>2. \E j \in DOMAIN wq[d] : x = wq[d][j]
    <3>1. CASE d # c
      BY <2>1, <3>1
    <3>2. CASE d = c
      <4>1. i + 1 \in DOMAIN wq[c] /\ Tail(wq[c])[i] = wq[c][i + 1]
        BY <2>1, <3>2
      <4>2. QED BY <2>1, <3>2, <4>1
    <3>3. QED BY <3>1, <3>2
  <2>3. x \in Message /\ Backed(x)
    BY <2>1, <2>2 DEF PromInv
  <2>4. QED BY <2>3, BackedStays
<1>7. ASSUME NEW h \in Handlers, Ingest(h) PROVE PromInv'
  <2>1. PICK s \in Sids, n \in Nat : s = job[h].sid /\ n = job[h].frame.seq /\ sAcct[s] \in Accounts
    BY <1>7, BridgeAssumption DEF Ingest, Typed, JobOK, Created, Frame
  <2>2. PICK e \in Message : e = [kind |-> "ack", sid |-> s, n |-> n]
    BY <2>1 DEF Message, Numbered
  <2>3. wq' = wq \/ (h \in Conns /\ wq' = [wq EXCEPT ![h] = Push(@, e)])
    BY <1>7, <2>1, <2>2 DEF Ingest
  <2>4. Published(s, n)' \/ <<s, n>> \in failed'
    <3>1. CASE outbox' = Append(outbox, EventOf(h))
      <4>1. Len(outbox) + 1 \in DOMAIN outbox' /\ outbox'[Len(outbox) + 1] = EventOf(h)
        BY <1>7, <3>1, EventType, AppendKeeps DEF Ingest, Typed, TypeOK
      <4>2. QED BY <2>1, <4>1 DEF Published, EventOf
    <3>2. CASE failed' = failed \cup {<<s, n>>}
      BY <3>2
    <3>3. QED BY <1>7, <2>1, <3>1, <3>2 DEF Ingest, EventOf
  <2>5. sAcct' = sAcct
    BY <1>7 DEF Ingest, sessVars
  <2>6. Backed(e)'
    BY <2>1, <2>2, <2>4, <2>5 DEF Backed, Created
  <2>7. QED BY <2>3, <2>6, PushBacked, SameQueues
<1>8. ASSUME NEW c \in Conns, NEW f \in Frame, WSEvent(c, f) PROVE PromInv'
  <2>1. wq' = wq \/ Reply(c, [kind |-> "snapshot_request"]) \/ Reply(c, [kind |-> "reject"])
    BY <1>8 DEF WSEvent
  <2>2. QED BY <1>2, <1>3, <2>1, SameQueues
<1>9. ASSUME NEW c \in Conns, Connection(c) PROVE PromInv'
  <2>1. CASE BadFrame(c) \/ HelloRejected(c) \/ Heartbeat(c)
    BY <1>2, <1>3, <2>1 DEF BadFrame, HelloRejected, Heartbeat
  <2>2. CASE \/ Upgrade(c) \/ Register(c) \/ ReadEnd(c) \/ Delete(c) \/ Unregister(c)
             \/ \E m \in Hello, s \in Sids : HelloAccepted(c, m, s)
    BY <2>2, SameQueues DEF Upgrade, Register, ReadEnd, Delete, Unregister, HelloAccepted
  <2>3. QED BY <1>4, <1>5, <1>6, <1>8, <1>9, <2>1, <2>2 DEF Connection
<1>10. ASSUME NEW k \in Cmds, ControlPush(k) PROVE PromInv'
  <2>1. wq' = wq \/ \E c \in Conns : wq' = [wq EXCEPT ![c] = Push(@, [kind |-> "ctl", cmd |-> k])]
    BY <1>10, BridgeAssumption DEF ControlPush, Typed, TypeOK
  <2>2. QED BY <1>1, <1>2, <2>1, SameQueues, PushBacked
<1>11. CASE \/ \E a \in Accounts : CreatePairing(a) \/ Revoke(a)
            \/ \E r \in Rests, f \in Frame : RestEvent(r, f)
            \/ \E h \in Handlers : SetLastSeq(h)
            \/ \E k \in Cmds : ControlPublish(k)
            \/ Tick
            \/ UNCHANGED vars
  <2>1. wq' = wq
    BY <1>11 DEF CreatePairing, Revoke, RestEvent, SetLastSeq, ControlPublish, Tick, vars
  <2>2. QED BY <2>1, SameQueues
<1>12. QED BY <1>7, <1>9, <1>10, <1>11 DEF Next

LEMMA InitPromInv == Init => PromInv
BY DEF Init, PromInv

\* What the bridge has promised a terminal and not yet sent is true: acked
\* events went through the publisher, and neither the resume point nor the
\* baseline is ahead of the session.
THEOREM PromisesAreBacked == Spec => []PromisesBacked
<1>1. Init => Typed /\ PromInv
  BY InitTyped, InitPromInv
<1>2. Typed /\ PromInv /\ [Next]_vars => (Typed /\ PromInv)'
  BY NextTyped, NextPromInv
<1>3. PromInv => PromisesBacked
  BY DEF PromInv, Backed, PromisesBacked
<1>4. QED BY <1>1, <1>2, <1>3, PTL DEF Spec

-----------------------------------------------------------------------------
(* Replays and order.  Both rest on the backbone being behind the sessions:   *)
(* no event on it has a number its session has not reached.                   *)

Behind == \A i \in DOMAIN outbox : outbox[i].type = "ev" => outbox[i].seq <= sLast[outbox[i].sid]

\* What an event on the backbone is made of.
LEMMA EventParts ==
  ASSUME Typed, NEW i \in DOMAIN outbox, outbox[i].type = "ev"
  PROVE  outbox[i].sid \in Sids /\ outbox[i].seq \in Nat
BY DEF Typed, TypeOK, Entry, EventEntry, ControlEntry

\* What a goroutine between guard and publish holds.
LEMMA JobParts ==
  ASSUME Typed, NEW h \in Handlers, Active(h)
  PROVE  /\ job[h].sid \in Sids /\ sAcct[job[h].sid] \in Accounts
         /\ job[h].frame.seq \in Nat /\ job[h].frame.nonce \in Nonces
BY BridgeAssumption DEF Typed, JobOK, Active, Created, Frame

LEMMA NextBehind ==
  ASSUME Typed, SeqInv, AcctInv, Behind, [Next]_vars
  PROVE  Behind'
<1> SUFFICES ASSUME NEW i \in DOMAIN outbox', outbox'[i].type = "ev"
             PROVE  outbox'[i].seq <= sLast'[outbox'[i].sid]
  BY DEF Behind
<1>1. CASE i \in DOMAIN outbox
  <2>1. outbox'[i] = outbox[i]
    BY <1>1, NextKept DEF Kept
  <2>2. outbox[i].sid \in Sids /\ outbox[i].seq \in Nat /\ outbox[i].acct \in Accounts
    BY <1>1, <2>1 DEF Typed, TypeOK, Entry, EventEntry, ControlEntry
  <2>3. sAcct[outbox[i].sid] # None
    BY <1>1, <2>1, <2>2, BridgeAssumption DEF AcctInv, AccountsApart, OutboxAttributed
  <2>4. sLast'[outbox[i].sid] >= sLast[outbox[i].sid]
    BY <2>2, <2>3, NextKept DEF Kept
  <2>5. sLast[outbox[i].sid] \in Nat /\ sLast'[outbox[i].sid] \in Nat
    BY <2>2, NextTyped DEF Typed, TypeOK
  <2>6. outbox[i].seq <= sLast[outbox[i].sid]
    BY <1>1, <2>1 DEF Behind
  <2>7. QED BY <2>1, <2>2, <2>4, <2>5, <2>6
<1>2. CASE i \notin DOMAIN outbox
  <2>1. PICK h \in Handlers : Ingest(h) /\ outbox'[i] = EventOf(h)
    BY <1>2, NewEntry DEF CommandOf
  <2>2. QED BY <2>1 DEF Ingest, EventOf, sessVars, SeqInv, JobSeq
<1>3. QED BY <1>1, <1>2

\* A frame the guard lets pass is ahead of everything that was published for
\* its session and of every goroutine that is about to publish.
LEMMA AcceptedIsAhead ==
  ASSUME Typed, SeqInv, Behind, NEW h \in Handlers, NEW s \in Sids, NEW f \in Frame, Accepts(h, s, f)
  PROVE  /\ \A i \in DOMAIN outbox : outbox[i].type = "ev" /\ outbox[i].sid = s => outbox[i].seq < f.seq
         /\ \A g \in Handlers : pc[g] = "publish" /\ job[g].sid = s => job[g].frame.seq < f.seq
<1>1. f.seq = sLast[s] + 1 /\ sLast[s] \in Nat
  BY DEF Accepts, Verify, ExpectedSeq, Typed, TypeOK
<1>2. ASSUME NEW i \in DOMAIN outbox, outbox[i].type = "ev", outbox[i].sid = s
      PROVE  outbox[i].seq < f.seq
  BY <1>1, <1>2, EventParts DEF Behind
<1>3. ASSUME NEW g \in Handlers, pc[g] = "publish", job[g].sid = s
      PROVE  job[g].frame.seq < f.seq
  BY <1>1, <1>3, JobParts DEF SeqInv, JobSeq, Active
<1>4. QED BY <1>2, <1>3

-----------------------------------------------------------------------------
(* Replays.  The nonce of an accepted frame is fresh in the session's table   *)
(* until setLastSeq, since the clock waits for it; from then on the number    *)
(* refuses the frame.                                                         *)

SameFrame(g, h) ==
  job[g].sid = job[h].sid /\ job[g].frame.seq = job[h].frame.seq /\ job[g].frame.nonce = job[h].frame.nonce
Carries(i, h) ==
  outbox[i].sid = job[h].sid /\ outbox[i].seq = job[h].frame.seq /\ outbox[i].nonce = job[h].frame.nonce

ReplayInv ==
  /\ now >= 1
  /\ \A h \in Handlers : pc[h] = "commit" => seen[job[h].sid][job[h].frame.nonce] = now
  /\ \A g, h \in Handlers : g # h /\ Active(g) /\ Active(h) => ~SameFrame(g, h)
  /\ \A h \in Handlers : Active(h) => \A i \in DOMAIN outbox : outbox[i].type = "ev" => ~Carries(i, h)
  /\ NoFrameReplay

\* An entry just recorded in a nonce table is live, and stays whatever is recorded.
LEMMA FreshNonceStays ==
  ASSUME Typed, now >= 1, NEW s \in Sids, NEW n \in Nonces, seen[s][n] = now
  PROVE  /\ n \in Live(s)
         /\ \A k \in Nonces : RecordNonce(s, k)[n] = now
<1>1. now \in Nat /\ now # 0 /\ now >= now - NonceTTL
  BY BridgeAssumption DEF Typed, TypeOK
<1>2. n \in Live(s)
  BY <1>1 DEF Live
<1>3. QED BY <1>2 DEF RecordNonce

\* The nonce table changes by recording a nonce, while no session is at its guard.
LEMMA SeenStep ==
  ASSUME Typed, [Next]_vars
  PROVE  seen' = seen \/ \E s \in Sids, n \in Nonces : seen' = [seen EXCEPT ![s] = RecordNonce(s, n)]
<1> USE DEF sessVars
<1>1. ASSUME NEW f \in Frame, NEW s \in Sids \cup {None}, NonceChecked(f, s)
      PROVE  seen' = seen \/ \E t \in Sids, n \in Nonces : seen' = [seen EXCEPT ![t] = RecordNonce(t, n)]
  BY <1>1 DEF NonceChecked, Verify, Frame
<1>2. ASSUME NEW c \in Conns, NEW f \in Frame, WSEvent(c, f)
      PROVE  seen' = seen \/ \E t \in Sids, n \in Nonces : seen' = [seen EXCEPT ![t] = RecordNonce(t, n)]
  BY <1>1, <1>2 DEF WSEvent, Typed, TypeOK
<1>3. ASSUME NEW r \in Rests, NEW f \in Frame, RestEvent(r, f)
      PROVE  seen' = seen \/ \E t \in Sids, n \in Nonces : seen' = [seen EXCEPT ![t] = RecordNonce(t, n)]
  <2>1. store[f.acct] \in Sids \cup {None}
    BY DEF Frame, Typed, TypeOK
  <2>2. QED BY <1>1, <1>3, <2>1 DEF RestEvent
<1>4. ASSUME NEW c \in Conns, Connection(c), ~ \E f \in Frame : WSEvent(c, f) PROVE seen' = seen
  BY <1>4 DEF Connection, Upgrade, Put, Register, BadFrame, Heartbeat, HelloRejected, ReadEnd, Delete,
              Unregister, WriteMessage, HelloAccepted, Snapshot
<1>5. CASE \/ \E a \in Accounts : CreatePairing(a) \/ Revoke(a)
           \/ \E h \in Handlers : SetLastSeq(h) \/ Ingest(h)
           \/ \E k \in Cmds : ControlPublish(k) \/ ControlPush(k)
           \/ Tick
           \/ UNCHANGED vars
  BY <1>5 DEF CreatePairing, Revoke, SetLastSeq, Ingest, ControlPublish, ControlPush, Tick, vars
<1>6. QED BY <1>2, <1>3, <1>4, <1>5 DEF Next

\* The clock stands while a goroutine is between guard and setLastSeq.
LEMMA ClockStands ==
  ASSUME Typed, [Next]_vars, NEW h \in Handlers, pc[h] = "commit"
  PROVE  now' = now
<1>1. ~Tick
  BY DEF Tick
<1>2. ASSUME NEW c \in Conns, Connection(c) PROVE now' = now
  BY <1>2 DEF Connection, Upgrade, Put, Register, BadFrame, Heartbeat, HelloRejected, ReadEnd, Delete,
              Unregister, WriteMessage, HelloAccepted, WSEvent, Snapshot
<1>3. QED
  BY <1>1, <1>2 DEF Next, CreatePairing, Revoke, RestEvent, SetLastSeq, Ingest, ControlPublish, ControlPush, vars

\* A nonce that is fresh stays fresh in a step the clock does not take.
LEMMA FreshStays ==
  ASSUME Typed, now >= 1, [Next]_vars, now' = now, NEW s \in Sids, NEW n \in Nonces, seen[s][n] = now
  PROVE  seen'[s][n] = now
<1>1. CASE seen' = seen
  BY <1>1
<1>2. ASSUME NEW t \in Sids, NEW k \in Nonces, seen' = [seen EXCEPT ![t] = RecordNonce(t, k)]
      PROVE  seen'[s][n] = now
  <2>1. CASE s = t
    BY <1>2, <2>1, FreshNonceStays DEF Typed, TypeOK
  <2>2. CASE s # t
    BY <1>2, <2>2 DEF Typed, TypeOK
  <2>3. QED BY <2>1, <2>2
<1>3. QED BY <1>1, <1>2, SeenStep

LEMMA NextReplayInv == Typed /\ SeqInv /\ AcctInv /\ Behind /\ ReplayInv /\ [Next]_vars => ReplayInv'
<1> SUFFICES ASSUME Typed, SeqInv, AcctInv, Behind, ReplayInv, [Next]_vars PROVE ReplayInv'
  OBVIOUS
<1>1. now' >= 1
  <2>1. now \in Nat /\ now' \in Nat /\ now' >= now
    BY BridgeAssumption, NextKept, NextTyped DEF Kept, Typed, TypeOK
  <2>2. QED BY <2>1 DEF ReplayInv
<1>2. ASSUME NEW h \in Handlers, pc[h] = "commit", pc'[h] = "commit", job'[h] = job[h]
      PROVE  seen'[job'[h].sid][job'[h].frame.nonce] = now'
  <2>1. job[h].sid \in Sids /\ job[h].frame.nonce \in Nonces
    BY <1>2, JobParts DEF Active
  <2>2. QED BY <1>2, <2>1, ClockStands, FreshStays DEF ReplayInv
<1>3. CASE \E h \in Handlers, s \in Sids, f \in Frame : Accepts(h, s, f)
  <2>1. PICK h \in Handlers, s \in Sids, f \in Frame : Accepts(h, s, f)
    BY <1>3
  <2>2. /\ pc'[h] = "commit" /\ job'[h].sid = s /\ job'[h].frame = f /\ outbox' = outbox /\ now' = now
        /\ \A g \in Handlers : g # h => pc'[g] = pc[g] /\ job'[g] = job[g]
        /\ f.nonce \in Nonces /\ f.nonce \notin Live(s)
    BY <2>1 DEF Accepts, Verify, SeenNonce, Frame, Typed, TypeOK
  <2>3. \A g \in Handlers : pc'[g] = "commit" => seen'[job'[g].sid][job'[g].frame.nonce] = now'
    <3>1. seen'[s][f.nonce] = now
      BY <2>1, <2>2 DEF Accepts, RecordNonce, Typed, TypeOK
    <3>2. QED BY <1>2, <2>2, <3>1
  <2>4. \A g \in Handlers : g # h /\ Active(g) =>
          ~(job[g].sid = s /\ job[g].frame.seq = f.seq /\ job[g].frame.nonce = f.nonce)
    <3> SUFFICES ASSUME NEW g \in Handlers, g # h, Active(g), job[g].sid = s, job[g].frame.seq = f.seq,
                        job[g].frame.nonce = f.nonce
                 PROVE  FALSE
      OBVIOUS
    <3>1. CASE pc[g] = "commit"
      BY <2>2, <3>1, FreshNonceStays DEF ReplayInv
    <3>2. CASE pc[g] = "publish"
      BY <2>1, <3>2, AcceptedIsAhead, JobParts
    <3>3. QED BY <3>1, <3>2 DEF Active
  <2>5. \A i \in DOMAIN outbox : outbox[i].type = "ev" => ~(outbox[i].sid = s /\ outbox[i].seq = f.seq)
    BY <2>1, AcceptedIsAhead, EventParts
  <2>6. \A g, k \in Handlers : g # k /\ Active(g)' /\ Active(k)' => ~SameFrame(g, k)'
    BY <2>2, <2>4 DEF ReplayInv, Active, SameFrame
  <2>7. \A g \in Handlers : Active(g)' => \A i \in DOMAIN outbox' : outbox'[i].type = "ev" => ~Carries(i, g)'
    BY <2>2, <2>5 DEF ReplayInv, Active, Carries
  <2>8. NoFrameReplay'
    BY <2>2 DEF ReplayInv, NoFrameReplay
  <2>9. QED BY <1>1, <2>3, <2>6, <2>7, <2>8 DEF ReplayInv
<1>4. CASE \E h \in Handlers : SetLastSeq(h)
  <2>1. PICK h \in Handlers : SetLastSeq(h)
    BY <1>4
  <2>2. /\ pc' = [pc EXCEPT ![h] = "publish"] /\ pc[h] = "commit" /\ job' = job /\ outbox' = outbox
    BY <2>1 DEF SetLastSeq, pubVars
  <2>3. \A g \in Handlers : (pc'[g] = "commit" => pc[g] = "commit") /\ (Active(g)' <=> Active(g))
    BY <2>2 DEF Active, Typed, TypeOK
  <2>4. \A g \in Handlers : pc'[g] = "commit" => seen'[job'[g].sid][job'[g].frame.nonce] = now'
    BY <1>2, <2>2, <2>3
  <2>5. QED BY <1>1, <2>2, <2>3, <2>4 DEF ReplayInv, SameFrame, Carries, NoFrameReplay
<1>5. CASE \A h \in Handlers : Active(h)' => pc'[h] = pc[h] /\ job'[h] = job[h]
  <2>1. \A h \in Handlers : pc'[h] = "commit" => seen'[job'[h].sid][job'[h].frame.nonce] = now'
    BY <1>2, <1>5 DEF Active
  <2>2. \A g, h \in Handlers : g # h /\ Active(g)' /\ Active(h)' => ~SameFrame(g, h)'
    BY <1>5 DEF ReplayInv, Active, SameFrame
  <2>3. ASSUME NEW i \in DOMAIN outbox, outbox'[i].type = "ev"
        PROVE  /\ outbox'[i] = outbox[i]
               /\ \A h \in Handlers : Active(h)' => ~Carries(i, h)'
    <3>1. outbox'[i] = outbox[i]
      BY NextKept DEF Kept
    <3>2. QED BY <1>5, <2>3, <3>1 DEF ReplayInv, Active, Carries
  <2>4. ASSUME NEW i \in DOMAIN outbox', outbox'[i].type = "ev", i \notin DOMAIN outbox
        PROVE  /\ i = Len(outbox) + 1
               /\ \A h \in Handlers : Active(h)' => ~Carries(i, h)'
               /\ \A j \in DOMAIN outbox : outbox[j].type = "ev" =>
                    \/ outbox'[i].sid # outbox[j].sid \/ outbox'[i].seq # outbox[j].seq
                    \/ outbox'[i].nonce # outbox[j].nonce
    <3>1. i = Len(outbox) + 1
      BY <2>4, NewEntry
    <3>2. PICK g \in Handlers : Ingest(g) /\ outbox'[i] = EventOf(g)
      BY <2>4, NewEntry DEF CommandOf
    <3>3. Active(g) /\ ~Active(g)'
      BY <3>2 DEF Ingest, Active, Typed, TypeOK
    <3>4. \A h \in Handlers : Active(h)' => ~Carries(i, h)'
      BY <1>5, <3>2, <3>3 DEF ReplayInv, Active, SameFrame, Carries, EventOf
    <3>5. QED BY <3>1, <3>2, <3>3, <3>4 DEF ReplayInv, Carries, EventOf
  <2>5. \A h \in Handlers : Active(h)' => \A i \in DOMAIN outbox' : outbox'[i].type = "ev" => ~Carries(i, h)'
    BY <2>3, <2>4
  <2>6. NoFrameReplay'
    <3> SUFFICES ASSUME NEW i \in DOMAIN outbox', NEW j \in DOMAIN outbox', i # j,
                        outbox'[i].type = "ev", outbox'[j].type = "ev"
                 PROVE  \/ outbox'[i].sid # outbox'[j].sid
                        \/ outbox'[i].seq # outbox'[j].seq
                        \/ outbox'[i].nonce # outbox'[j].nonce
      BY DEF NoFrameReplay
    <3>1. CASE i \in DOMAIN outbox /\ j \in DOMAIN outbox
      BY <2>3, <3>1 DEF ReplayInv, NoFrameReplay
    <3>2. CASE i \in DOMAIN outbox /\ j \notin DOMAIN outbox
      BY <2>3, <2>4, <3>2
    <3>3. CASE i \notin DOMAIN outbox /\ j \in DOMAIN outbox
      BY <2>3, <2>4, <3>3
    <3>4. CASE i \notin DOMAIN outbox /\ j \notin DOMAIN outbox
      BY <2>4, <3>4
    <3>5. QED BY <3>1, <3>2, <3>3, <3>4
  <2>7. QED BY <1>1, <2>1, <2>2, <2>5, <2>6 DEF ReplayInv
<1>6. QED BY <1>3, <1>4, <1>5, ActiveStep

LEMMA InitReplayInv == Init => Behind /\ ReplayInv
BY DEF Init, Behind, ReplayInv, NoFrameReplay, Active, Handlers

\* A recorded frame sent again is never published again, over either path,
\* although its nonce is forgotten before its timestamp expires.
THEOREM FramesAreNotReplayed == Spec => []NoFrameReplay
<1>1. Init => Typed /\ SeqInv /\ AcctInv /\ Behind /\ ReplayInv
  BY InitTyped, InitSeqInv, InitAcctInv, InitReplayInv
<1>2. /\ Typed /\ SeqInv /\ AcctInv /\ Behind /\ ReplayInv
      /\ [Next]_vars
      => (Typed /\ SeqInv /\ AcctInv /\ Behind /\ ReplayInv)'
  BY NextTyped, NextSeqInv, NextAcctInv, NextBehind, NextReplayInv
<1>3. ReplayInv => NoFrameReplay
  BY DEF ReplayInv
<1>4. QED BY <1>1, <1>2, <1>3, PTL DEF Spec

-----------------------------------------------------------------------------
(* Order without REST.  A session belongs to the one connection whose hello   *)
(* made it, so between guard and publish nobody else moves its events.        *)

Holds(c, s) == bound[c] = s \/ (pc[c] \in {"put", "register", "commit", "publish"} /\ job[c].sid = s)

OrderInv ==
  /\ \A c, d \in Conns, s \in Sids : Holds(c, s) /\ Holds(d, s) => c = d
  /\ \A c \in Conns : Active(c) => \A i \in DOMAIN outbox :
       outbox[i].type = "ev" /\ outbox[i].sid = job[c].sid => outbox[i].seq < job[c].frame.seq
  /\ WSOrdered

\* What is held exists.
LEMMA HeldIsCreated ==
  ASSUME Typed, NEW c \in Conns, NEW s \in Sids, Holds(c, s)
  PROVE  sAcct[s] # None
BY BridgeAssumption DEF Holds, Typed, JobOK, PointersOK, Created, Handlers

\* A connection holds what it held before, but for the session its hello makes.
LEMMA HoldsStep ==
  ASSUME Typed, [Next]_vars
  PROVE  \/ \A c \in Conns, s \in Sids : Holds(c, s)' => Holds(c, s)
         \/ \E c \in Conns, t \in Sids :
              /\ sAcct[t] = None
              /\ \A d \in Conns, s \in Sids : Holds(d, s)' => Holds(d, s) \/ (d = c /\ s = t)
<1> DEFINE Kept1 == \A c \in Conns, s \in Sids : Holds(c, s)' => Holds(c, s)
<1> USE DEF wsVars
<1>1. ASSUME NEW c \in Conns, NEW m \in Hello, NEW t \in Sids, HelloAccepted(c, m, t)
      PROVE  /\ sAcct[t] = None
             /\ \A d \in Conns, s \in Sids : Holds(d, s)' => Holds(d, s) \/ (d = c /\ s = t)
  BY <1>1 DEF HelloAccepted, Holds, Typed, TypeOK, Handlers
<1>2. CASE \E h \in Handlers, s \in Sids, f \in Frame : Accepts(h, s, f)
  BY <1>2 DEF Accepts, Holds, Typed, TypeOK, Handlers
<1>3. ASSUME NEW c \in Conns, Connection(c), ~ \E h \in Handlers, s \in Sids, f \in Frame : Accepts(h, s, f),
             ~ \E m \in Hello, t \in Sids : HelloAccepted(c, m, t)
      PROVE  Kept1
  <2>1. CASE \E f \in Frame : WSEvent(c, f)
    <3>1. \/ UNCHANGED <<pc, job, bound>>
          \/ \E f \in Frame : /\ Verify(f, bound[c]) = "ok" /\ WSEvent(c, f)
      BY <2>1 DEF WSEvent
    <3>2. ASSUME NEW f \in Frame, Verify(f, bound[c]) = "ok", WSEvent(c, f) PROVE Kept1
      <4>1. /\ pc' = [pc EXCEPT ![c] = "commit"]
            /\ job' = [job EXCEPT ![c] = [sid |-> bound[c], frame |-> f]]
            /\ bound' = bound
        BY <3>2 DEF WSEvent
      <4>2. QED BY <4>1 DEF Holds, Typed, TypeOK, Handlers
    <3>3. QED BY <3>1, <3>2 DEF Holds
  <2>2. CASE \/ Upgrade(c) \/ Put(c) \/ BadFrame(c) \/ Heartbeat(c) \/ HelloRejected(c) \/ ReadEnd(c)
             \/ Delete(c) \/ Unregister(c) \/ WriteMessage(c)
             \/ \E chunk \in {"undecodable", "partial", "final_mismatch", "final"} : Snapshot(c, chunk)
    BY <2>2 DEF Upgrade, Put, BadFrame, Heartbeat, HelloRejected, ReadEnd, Delete, Unregister, WriteMessage,
                Snapshot, Holds, Typed, TypeOK, Handlers
  <2>3. CASE Register(c)
    BY <2>3 DEF Register, Holds, Typed, TypeOK, Handlers
  <2>4. QED BY <1>3, <2>1, <2>2, <2>3 DEF Connection
<1>4. ASSUME NEW h \in Handlers, SetLastSeq(h) \/ Ingest(h) PROVE Kept1
  BY <1>4 DEF SetLastSeq, Ingest, Holds, Typed, TypeOK, Handlers
<1>5. ASSUME NEW r \in Rests, NEW f \in Frame, RestEvent(r, f) PROVE Kept1
  BY <1>5, BridgeAssumption DEF RestEvent, Holds, Typed, TypeOK, Handlers
<1>6. CASE \/ \E a \in Accounts : CreatePairing(a) \/ Revoke(a)
           \/ \E k \in Cmds : ControlPublish(k) \/ ControlPush(k)
           \/ Tick
           \/ UNCHANGED vars
  BY <1>6 DEF CreatePairing, Revoke, ControlPublish, ControlPush, Tick, vars, Holds
<1>7. QED BY <1>1, <1>2, <1>3, <1>4, <1>5, <1>6 DEF Next

LEMMA NextOrderInv ==
  ASSUME Rests = {}
  PROVE  Typed /\ SeqInv /\ AcctInv /\ Behind /\ OrderInv /\ [Next]_vars => OrderInv'
<1> SUFFICES ASSUME Typed, SeqInv, AcctInv, Behind, OrderInv, [Next]_vars PROVE OrderInv'
  OBVIOUS
<1>1. \A c, d \in Conns, s \in Sids : Holds(c, s)' /\ Holds(d, s)' => c = d
  BY HoldsStep, HeldIsCreated DEF OrderInv
<1>2. Handlers = Conns
  BY DEF Handlers
<1>3. \A c, d \in Conns : Active(c) /\ Active(d) /\ job[c].sid = job[d].sid => c = d
  BY <1>2, JobParts DEF OrderInv, Holds, Active
<1>4. ASSUME NEW c \in Conns, Active(c)', NEW i \in DOMAIN outbox',
             outbox'[i].type = "ev", outbox'[i].sid = job'[c].sid
      PROVE  outbox'[i].seq < job'[c].frame.seq
  <2>1. CASE \E h \in Handlers, s \in Sids, f \in Frame : Accepts(h, s, f)
    <3>1. PICK h \in Handlers, s \in Sids, f \in Frame : Accepts(h, s, f)
      BY <2>1
    <3>2. outbox' = outbox
      BY <3>1 DEF Accepts
    <3>3. CASE c = h
      <4>1. s = job'[c].sid /\ f = job'[c].frame
        BY <1>2, <3>1, <3>3 DEF Accepts, Typed, TypeOK
      <4>2. i \in DOMAIN outbox /\ outbox[i].type = "ev" /\ outbox[i].sid = s
        BY <1>4, <3>2, <4>1
      <4>3. outbox[i].seq < f.seq
        BY <1>2, <3>1, <4>2, AcceptedIsAhead
      <4>q. QED BY <3>2, <4>1, <4>3
    <3>4. CASE c # h
      BY <1>2, <1>4, <3>1, <3>2, <3>4 DEF Accepts, OrderInv, Active, Typed, TypeOK
    <3>5. QED BY <3>3, <3>4
  <2>2. CASE \E h \in Handlers : SetLastSeq(h)
    BY <1>2, <1>4, <2>2 DEF SetLastSeq, pubVars, OrderInv, Active, Typed, TypeOK
  <2>3. CASE pc'[c] = pc[c] /\ job'[c] = job[c]
    <3>1. Active(c)
      BY <1>4, <2>3 DEF Active
    <3>2. CASE i \in DOMAIN outbox
      BY <1>4, <2>3, <3>1, <3>2, NextKept DEF Kept, OrderInv
    <3>3. CASE i \notin DOMAIN outbox
      <4>1. PICK h \in Handlers : Ingest(h) /\ outbox'[i] = EventOf(h)
        BY <1>4, <3>3, NewEntry DEF CommandOf
      <4>2. Active(h) /\ ~Active(h)'
        BY <4>1 DEF Ingest, Active, Typed, TypeOK
      <4>3. QED BY <1>2, <1>3, <1>4, <2>3, <3>1, <4>1, <4>2 DEF EventOf
    <3>4. QED BY <3>2, <3>3
  <2>4. QED BY <1>2, <1>4, <2>1, <2>2, <2>3, ActiveStep
<1>5. WSOrdered'
  <2> SUFFICES ASSUME NEW i \in DOMAIN outbox', NEW j \in DOMAIN outbox', i < j,
                      outbox'[i].type = "ev", outbox'[j].type = "ev", outbox'[i].sid = outbox'[j].sid
               PROVE  outbox'[i].seq < outbox'[j].seq
    BY DEF WSOrdered
  <2>1. outbox \in Seq(Entry) /\ outbox' \in Seq(Entry)
    BY NextTyped DEF Typed, TypeOK
  <2>2. CASE j \in DOMAIN outbox
    <3>1. i \in DOMAIN outbox
      BY <2>1, <2>2
    <3>2. QED BY <2>2, <3>1, NextKept DEF Kept, OrderInv, WSOrdered
  <2>3. CASE j \notin DOMAIN outbox
    <3>1. PICK h \in Handlers : Ingest(h) /\ outbox'[j] = EventOf(h)
      BY <2>3, NewEntry DEF CommandOf
    <3>2. i \in DOMAIN outbox
      <4>1. j = Len(outbox) + 1
        BY <2>3, NewEntry
      <4>2. QED BY <2>1, <4>1
    <3>3. Active(h)
      BY <3>1 DEF Ingest, Active
    <3>4. outbox'[i] = outbox[i]
      BY <3>2, NextKept DEF Kept
    <3>5. QED BY <1>2, <3>1, <3>2, <3>3, <3>4 DEF OrderInv, EventOf
  <2>4. QED BY <2>2, <2>3
<1>6. QED BY <1>1, <1>4, <1>5 DEF OrderInv

LEMMA InitOrderInv == Init => OrderInv
BY BridgeAssumption DEF Init, OrderInv, Holds, WSOrdered, Active, Handlers

\* Without the REST path the events of a session reach the backbone in strictly
\* increasing order, whoever reconnects meanwhile.
THEOREM SocketsKeepOrder ==
  ASSUME Rests = {}
  PROVE  Spec => []WSOrdered
<1>1. Init => Typed /\ SeqInv /\ AcctInv /\ Behind /\ OrderInv
  BY InitTyped, InitSeqInv, InitAcctInv, InitReplayInv, InitOrderInv
<1>2. /\ Typed /\ SeqInv /\ AcctInv /\ Behind /\ OrderInv
      /\ [Next]_vars
      => (Typed /\ SeqInv /\ AcctInv /\ Behind /\ OrderInv)'
  BY NextTyped, NextSeqInv, NextAcctInv, NextBehind, NextOrderInv
<1>3. OrderInv => WSOrdered
  BY DEF OrderInv
<1>4. QED BY <1>1, <1>2, <1>3, PTL DEF Spec

=============================================================================
