------------------------------- MODULE Bridge -------------------------------
(***************************************************************************)
(* The trading-platform bridge node (pf-platform/go/bridge).               *)
(*                                                                         *)
(* A terminal pairs once, opens a WebSocket, sends a hello signed with its *)
(* pairing key and receives a fresh session key.  Every later event is     *)
(* checked by the guard, moves the session's LastSeq, is published to the  *)
(* backbone and acked.  A sequence gap puts the session into RESYNC until  *)
(* a checksummed snapshot arrives.  The same events may also come in over  *)
(* REST, handled by other goroutines against the same session object.      *)
(* Control commands are published and then pushed to the live connection.  *)
(*                                                                         *)
(* Terminals are unconstrained: any frame may arrive at any time.  A       *)
(* goroutine's steps are split wherever it releases a lock another         *)
(* goroutine may take (guard check, setLastSeq, publish; Put, Register;    *)
(* Delete, Unregister; control publish, control push).                     *)
(***************************************************************************)
EXTENDS Integers, Sequences, FiniteSets

CONSTANTS
  Accounts,   \* (tenant, account) pairs; pairingKey joins the two injectively
  Conns,      \* WebSocket connections: one handleWS goroutine each
  Rests,      \* REST request goroutines
  Sids,       \* session objects; a session's key is fresh, so a Sid names both
  Nonces,
  Cmds,       \* control commands
  Target,     \* command -> the account it is addressed to
  Seqs,       \* sequence numbers terminals put into frames
  Times,      \* client timestamps and bridge clock values (units of 30 s)
  MaxPairings,\* bound on CreatePairing calls per account
  QCap,       \* capacity of a connection's write queue (256 in the code)
  MaxTSkew,   \* 90 s
  NonceTTL,   \* 60 s
  None        \* the nil of sessions, accounts and pushers

ASSUME BridgeAssumption ==
  /\ Seqs \subseteq Nat
  /\ Times \subseteq Nat /\ 1 \in Times
  /\ MaxPairings \in Nat /\ QCap \in Nat /\ MaxTSkew \in Nat /\ NonceTTL \in Nat
  /\ None \notin Sids \cup Accounts \cup Conns
  /\ Conns \cap Rests = {}
  /\ Target \in [Cmds -> Accounts]

VARIABLES
  pairing,  \* account -> generation of its pairing key, 0 = not paired
  revoked,  \* account -> Pairing.Revoked
  now,      \* bridge NTP clock
  sAcct,    \* session -> account it is bound to, None = not created yet
  sState,   \* session -> State
  sLast,    \* session -> LastSeq
  sBase,    \* session -> LastSeq it was created with (history)
  seen,     \* session -> nonce -> first-seen time, 0 = not recorded
  store,    \* account -> session (SessionStore)
  pusher,   \* account -> connection (ControlHub)
  pc,       \* goroutine -> where it is
  job,      \* goroutine -> the session and frame it is working on
  bound,    \* connection -> the session of its last hello
  wq,       \* connection -> frames queued for its writer goroutine
  ctl,      \* command -> progress of its Publish call
  queued,   \* commands some write queue has accepted (history)
  outbox,   \* the backbone: everything published, in order
  failed    \* <<session, seq>> whose publish returned an error (history)

keyVars  == <<pairing, revoked>>
sessVars == <<sAcct, sState, sLast, sBase, seen>>
hubVars  == <<store, pusher>>
wsVars   == <<bound, wq>>
ctlVars  == <<ctl, queued>>
pubVars  == <<outbox, failed>>
vars == <<keyVars, now, sessVars, hubVars, pc, job, wsVars, ctlVars, pubVars>>

Handlers == Conns \cup Rests

\* A frame as the guard sees it: whose it claims to be, whose key signed it
\* (None: nobody's), its sequence number, nonce and client timestamp.
Frame == [acct : Accounts, key : Sids \cup {None}, seq : Seqs, nonce : Nonces, ts : Times]

Hello == [acct : Accounts, key : 0..MaxPairings, ts : Times]

\* What the bridge sends: numbered replies, plain replies, control commands.
Numbered == [kind : {"auth_ok", "ack", "resync_complete"}, sid : Sids, n : Nat]
Plain    == [kind : {"reject", "snapshot_request", "hb"}]
Control  == [kind : {"ctl"}, cmd : Cmds]
Message  == Numbered \cup Plain \cup Control

\* What is published; claim is the account the accepted frame named.
EventEntry   == [type : {"ev"}, acct : Accounts, claim : Accounts, sid : Sids, seq : Nat, nonce : Nonces]
ControlEntry == [type : {"control"}, acct : Accounts, cmd : Cmds]
Entry        == EventEntry \cup ControlEntry

Init ==
  /\ pairing = [a \in Accounts |-> 0]
  /\ revoked = [a \in Accounts |-> FALSE]
  /\ now = 1
  /\ sAcct = [s \in Sids |-> None]
  /\ sState = [s \in Sids |-> "ACTIVE"]
  /\ sLast = [s \in Sids |-> 0]
  /\ sBase = [s \in Sids |-> 0]
  /\ seen = [s \in Sids |-> [n \in Nonces |-> 0]]
  /\ store = [a \in Accounts |-> None]
  /\ pusher = [a \in Accounts |-> None]
  /\ pc = [h \in Handlers |-> IF h \in Conns THEN "dial" ELSE "read"]
  /\ job = [h \in Handlers |-> None]
  /\ bound = [c \in Conns |-> None]
  /\ wq = [c \in Conns |-> <<>>]
  /\ ctl = [k \in Cmds |-> "new"]
  /\ queued = {}
  /\ outbox = <<>>
  /\ failed = {}

-----------------------------------------------------------------------------
(* Keystore *)

CreatePairing(a) ==
  /\ pairing[a] < MaxPairings
  /\ pairing' = [pairing EXCEPT ![a] = @ + 1]
  /\ revoked' = [revoked EXCEPT ![a] = FALSE]
  /\ UNCHANGED <<now, sessVars, hubVars, pc, job, wsVars, ctlVars, pubVars>>

Revoke(a) ==
  /\ pairing[a] # 0
  /\ ~revoked[a]
  /\ revoked' = [revoked EXCEPT ![a] = TRUE]
  /\ UNCHANGED <<pairing, now, sessVars, hubVars, pc, job, wsVars, ctlVars, pubVars>>

-----------------------------------------------------------------------------
(* The guard *)

WithinSkew(ts) == now - ts <= MaxTSkew /\ ts - now <= MaxTSkew

\* seenNonce: entries first seen before now - NonceTTL are purged.
Live(s) == {n \in Nonces : seen[s][n] # 0 /\ seen[s][n] >= now - NonceTTL}

SeenNonce(s, nonce) == nonce \in Live(s)

RecordNonce(s, nonce) ==
  [n \in Nonces |-> IF n \in Live(s) THEN seen[s][n] ELSE IF n = nonce THEN now ELSE 0]

\* Mutated form: the frame's tenant and account are not compared.
UnboundFrame(f, s) == TRUE

BindingOK(f, s) == f.acct = sAcct[s]

\* Mutated form: anything ahead of LastSeq is accepted.
AheadSeq(f, s) == f.seq > sLast[s]

\* Strict continuity: seqTolerance is 0.
ExpectedSeq(f, s) == f.seq = sLast[s] + 1

Verify(f, s) ==
  IF s = None THEN "no_session"
  ELSE IF ~BindingOK(f, s) THEN "binding"
  ELSE IF f.key # s THEN "bad_sig"
  ELSE IF ~WithinSkew(f.ts) THEN "skew"
  ELSE IF SeenNonce(s, f.nonce) THEN "replay"
  ELSE IF ~ExpectedSeq(f, s) THEN "gap"
  ELSE "ok"

\* The nonce is recorded before the sequence check: a gap consumes it too.
NonceChecked(f, s) ==
  seen' = IF Verify(f, s) \in {"replay", "gap", "ok"}
            THEN [seen EXCEPT ![s] = RecordNonce(s, f.nonce)]
            ELSE seen

VerifyHello(m) ==
  IF pairing[m.acct] = 0 \/ revoked[m.acct] THEN "no_session"
  ELSE IF ~WithinSkew(m.ts) THEN "skew"
  ELSE IF m.key # pairing[m.acct] THEN "bad_sig"
  ELSE "ok"

-----------------------------------------------------------------------------
(* WebSocket connections *)

\* push: a full queue drops the frame, and every caller ignores the error.
Push(q, frame) == IF Len(q) < QCap THEN Append(q, frame) ELSE q

Reply(c, frame) == wq' = [wq EXCEPT ![c] = Push(@, frame)]

Upgrade(c) ==
  /\ pc[c] = "dial"
  /\ pc' = [pc EXCEPT ![c] = "read"]
  /\ UNCHANGED <<keyVars, now, sessVars, hubVars, job, wsVars, ctlVars, pubVars>>

\* verifyHello fails, or it passes and randomHex does not deliver a key: reject
\* and leave the read loop.
HelloRejected(c) ==
  /\ pc[c] = "read"
  /\ Reply(c, [kind |-> "reject"])
  /\ pc' = [pc EXCEPT ![c] = "teardown"]
  /\ UNCHANGED <<keyVars, now, sessVars, hubVars, job, bound, ctlVars, pubVars>>

\* Mutated form: the nil session is read.
NilResumeSeq(a) == IF store[a] = None THEN None ELSE sLast[store[a]]

\* LastSeq of the session in the store, if there is one, is carried over.
ResumeSeq(a) == IF store[a] = None THEN 0 ELSE sLast[store[a]]

HelloAccepted(c, m, s) ==
  /\ pc[c] = "read"
  /\ VerifyHello(m) = "ok"
  /\ sAcct[s] = None
  /\ sAcct' = [sAcct EXCEPT ![s] = m.acct]
  /\ sLast' = [sLast EXCEPT ![s] = ResumeSeq(m.acct)]
  /\ sBase' = [sBase EXCEPT ![s] = ResumeSeq(m.acct)]
  /\ job' = [job EXCEPT ![c] = [sid |-> s]]
  /\ pc' = [pc EXCEPT ![c] = "put"]
  /\ UNCHANGED <<keyVars, now, sState, seen, hubVars, wsVars, ctlVars, pubVars>>

\* sessions.Put, then auth_ok.  The replay loop over takePending sends nothing:
\* addPending has no caller, so a session's pending list is always empty.
Put(c) ==
  LET s == job[c].sid
  IN  /\ pc[c] = "put"
      /\ store' = [store EXCEPT ![sAcct[s]] = s]
      /\ Reply(c, [kind |-> "auth_ok", sid |-> s, n |-> sLast[s]])
      /\ pc' = [pc EXCEPT ![c] = "register"]
      /\ UNCHANGED <<keyVars, now, sessVars, pusher, job, bound, ctlVars, pubVars>>

Register(c) ==
  LET s == job[c].sid
  IN  /\ pc[c] = "register"
      /\ bound' = [bound EXCEPT ![c] = s]
      /\ pusher' = [pusher EXCEPT ![sAcct[s]] = c]
      /\ job' = [job EXCEPT ![c] = None]
      /\ pc' = [pc EXCEPT ![c] = "read"]
      /\ UNCHANGED <<keyVars, now, sessVars, store, wq, ctlVars, pubVars>>

\* An event or snapshot before any hello, an unknown kind, or malformed JSON.
BadFrame(c) ==
  /\ pc[c] = "read"
  /\ Reply(c, [kind |-> "reject"])
  /\ UNCHANGED <<keyVars, now, sessVars, hubVars, pc, job, bound, ctlVars, pubVars>>

Heartbeat(c) ==
  /\ pc[c] = "read"
  /\ Reply(c, [kind |-> "hb"])
  /\ UNCHANGED <<keyVars, now, sessVars, hubVars, pc, job, bound, ctlVars, pubVars>>

\* processWithWS up to the guard's verdict.
WSEvent(c, f) ==
  LET s == bound[c]
      v == Verify(f, s)
  IN  /\ pc[c] = "read"
      /\ s # None
      /\ NonceChecked(f, s)
      /\ \/ /\ v = "ok"
            /\ job' = [job EXCEPT ![c] = [sid |-> s, frame |-> f]]
            /\ pc' = [pc EXCEPT ![c] = "commit"]
            /\ UNCHANGED <<sState, wq>>
         \/ /\ v = "gap"
            /\ sState' = [sState EXCEPT ![s] = "RESYNC"]
            /\ Reply(c, [kind |-> "snapshot_request"])
            /\ UNCHANGED <<pc, job>>
         \/ /\ v \notin {"ok", "gap"}
            /\ Reply(c, [kind |-> "reject"])
            /\ UNCHANGED <<sState, pc, job>>
      /\ UNCHANGED <<keyVars, now, sAcct, sLast, sBase, hubVars, bound, ctlVars, pubVars>>

\* Mutated form: the baseline skips one event.
SkippingBaseline(s) == sLast[s] + 2

\* LastSeq stays where it is; the client resends from the next number.
Baseline(s) == sLast[s] + 1

\* handleSnapshot: chunk is what the payload turns out to be.
Snapshot(c, chunk) ==
  LET s == bound[c]
  IN  /\ pc[c] = "read"
      /\ s # None
      /\ \/ /\ sState[s] # "RESYNC" \/ chunk \in {"undecodable", "final_mismatch"}
            /\ Reply(c, [kind |-> "reject"])
            /\ UNCHANGED sState
         \/ /\ sState[s] = "RESYNC"
            /\ chunk = "final"
            /\ sState' = [sState EXCEPT ![s] = "ACTIVE"]
            /\ Reply(c, [kind |-> "resync_complete", sid |-> s, n |-> Baseline(s)])
      /\ UNCHANGED <<keyVars, now, sAcct, sLast, sBase, seen, hubVars, pc, job, bound, ctlVars, pubVars>>

\* The connection drops, or a ctl_ack before hello dereferences the nil session.
ReadEnd(c) ==
  /\ pc[c] = "read"
  /\ pc' = [pc EXCEPT ![c] = "teardown"]
  /\ UNCHANGED <<keyVars, now, sessVars, hubVars, job, wsVars, ctlVars, pubVars>>

\* The deferred cleanup deletes by account, whichever session is stored there.
Delete(c) ==
  /\ pc[c] = "teardown"
  /\ store' = IF bound[c] = None THEN store ELSE [store EXCEPT ![sAcct[bound[c]]] = None]
  /\ pc' = [pc EXCEPT ![c] = IF bound[c] = None THEN "closed" ELSE "unregister"]
  /\ UNCHANGED <<keyVars, now, sessVars, pusher, job, wsVars, ctlVars, pubVars>>

Unregister(c) ==
  /\ pc[c] = "unregister"
  /\ pusher' = [pusher EXCEPT ![sAcct[bound[c]]] = None]
  /\ pc' = [pc EXCEPT ![c] = "closed"]
  /\ UNCHANGED <<keyVars, now, sessVars, store, job, wsVars, ctlVars, pubVars>>

\* The writer goroutine sends the oldest queued frame.
WriteMessage(c) ==
  /\ pc[c] # "closed"
  /\ wq[c] # <<>>
  /\ wq' = [wq EXCEPT ![c] = Tail(@)]
  /\ UNCHANGED <<keyVars, now, sessVars, hubVars, pc, job, bound, ctlVars, pubVars>>

-----------------------------------------------------------------------------
(* REST *)

\* handleREST / process: the session comes from the store; a gap only rejects.
RestEvent(r, f) ==
  LET s == store[f.acct]
      v == Verify(f, s)
  IN  /\ pc[r] = "read"
      /\ NonceChecked(f, s)
      /\ \/ /\ v = "ok"
            /\ job' = [job EXCEPT ![r] = [sid |-> s, frame |-> f]]
            /\ pc' = [pc EXCEPT ![r] = "commit"]
         \/ /\ v # "ok"
            /\ UNCHANGED <<pc, job>>
      /\ UNCHANGED <<keyVars, now, sAcct, sState, sLast, sBase, hubVars, wsVars, ctlVars, pubVars>>

-----------------------------------------------------------------------------
(* What both paths do with an accepted event *)

\* Mutated forms: the comparison is missing; the assignment is missing.
Overwritten(last, n) == n
NotAdvanced(last, n) == last

Advanced(last, n) == IF n > last THEN n ELSE last

SetLastSeq(h) ==
  LET s == job[h].sid
      n == job[h].frame.seq
  IN  /\ pc[h] = "commit"
      /\ sLast' = [sLast EXCEPT ![s] = Advanced(@, n)]
      /\ pc' = [pc EXCEPT ![h] = "publish"]
      /\ UNCHANGED <<keyVars, now, sAcct, sState, sBase, seen, hubVars, job, wsVars, ctlVars, pubVars>>

\* ingest, and the ack on the WebSocket path.  A publish error is only logged.
Ingest(h) ==
  LET s == job[h].sid
      f == job[h].frame
      ev == [type |-> "ev", acct |-> sAcct[s], claim |-> f.acct, sid |-> s,
             seq |-> f.seq, nonce |-> f.nonce]
  IN  /\ pc[h] = "publish"
      /\ \/ outbox' = Append(outbox, ev) /\ UNCHANGED failed
         \/ failed' = failed \cup {<<s, f.seq>>} /\ UNCHANGED outbox
      /\ wq' = IF h \in Conns THEN [wq EXCEPT ![h] = Push(@, [kind |-> "ack", sid |-> s, n |-> f.seq])] ELSE wq
      /\ job' = [job EXCEPT ![h] = None]
      /\ pc' = [pc EXCEPT ![h] = "read"]
      /\ UNCHANGED <<keyVars, now, sessVars, hubVars, bound, ctlVars>>

-----------------------------------------------------------------------------
(* Control hub *)

\* Mutated form: the publisher's error is ignored.
ControlPublishUnchecked(k) ==
  /\ ctl[k] = "new"
  /\ outbox' \in {outbox, Append(outbox, [type |-> "control", acct |-> Target[k], cmd |-> k])}
  /\ ctl' = [ctl EXCEPT ![k] = "published"]
  /\ UNCHANGED <<keyVars, now, sessVars, hubVars, pc, job, wsVars, queued, failed>>

\* Publish persists the command first; an error ends the call.
ControlPublish(k) ==
  /\ ctl[k] = "new"
  /\ \/ /\ outbox' = Append(outbox, [type |-> "control", acct |-> Target[k], cmd |-> k])
        /\ ctl' = [ctl EXCEPT ![k] = "published"]
     \/ /\ ctl' = [ctl EXCEPT ![k] = "error"]
        /\ UNCHANGED outbox
  /\ UNCHANGED <<keyVars, now, sessVars, hubVars, pc, job, wsVars, queued, failed>>

\* ... and then pushes it to the connection registered for the account, if any.
ControlPush(k) ==
  LET c == pusher[Target[k]]
  IN  /\ ctl[k] = "published"
      /\ ctl' = [ctl EXCEPT ![k] = "done"]
      /\ \/ /\ c # None
            /\ wq' = [wq EXCEPT ![c] = Push(@, [kind |-> "ctl", cmd |-> k])]
            /\ queued' = IF Len(wq[c]) < QCap THEN queued \cup {k} ELSE queued
         \/ /\ c = None
            /\ UNCHANGED <<wq, queued>>
      /\ UNCHANGED <<keyVars, now, sessVars, hubVars, pc, job, bound, pubVars>>

-----------------------------------------------------------------------------
\* Timing assumption: a goroutine passes from the guard to setLastSeq, with no
\* I/O in between, in less than one clock unit.
Tick ==
  /\ now + 1 \in Times
  /\ \A h \in Handlers : pc[h] # "commit"
  /\ now' = now + 1
  /\ UNCHANGED <<keyVars, sessVars, hubVars, pc, job, wsVars, ctlVars, pubVars>>

Connection(c) ==
  \/ Upgrade(c) \/ Put(c) \/ Register(c) \/ BadFrame(c) \/ Heartbeat(c)
  \/ HelloRejected(c) \/ ReadEnd(c) \/ Delete(c) \/ Unregister(c) \/ WriteMessage(c)
  \/ \E m \in Hello, s \in Sids : HelloAccepted(c, m, s)
  \/ \E f \in Frame : WSEvent(c, f)
  \/ \E chunk \in {"undecodable", "partial", "final_mismatch", "final"} : Snapshot(c, chunk)

Next ==
  \/ \E a \in Accounts : CreatePairing(a) \/ Revoke(a)
  \/ \E c \in Conns : Connection(c)
  \/ \E r \in Rests, f \in Frame : RestEvent(r, f)
  \/ \E h \in Handlers : SetLastSeq(h) \/ Ingest(h)
  \/ \E k \in Cmds : ControlPublish(k) \/ ControlPush(k)
  \/ Tick

Spec == Init /\ [][Next]_vars

-----------------------------------------------------------------------------
(* Properties *)

Job == {None} \cup [sid : Sids] \cup [sid : Sids, frame : Frame]

\* Types of all variables; a goroutine past the guard holds a frame and a session.
TypeOK ==
  /\ pairing \in [Accounts -> 0..MaxPairings] /\ revoked \in [Accounts -> BOOLEAN]
  /\ now \in Times
  /\ sAcct \in [Sids -> Accounts \cup {None}]
  /\ sState \in [Sids -> {"ACTIVE", "RESYNC"}]
  /\ sLast \in [Sids -> Nat] /\ sBase \in [Sids -> Nat]
  /\ seen \in [Sids -> [Nonces -> Nat]]
  /\ store \in [Accounts -> Sids \cup {None}]
  /\ pusher \in [Accounts -> Conns \cup {None}]
  /\ pc \in [Handlers -> {"dial", "read", "put", "register", "commit", "publish",
                          "teardown", "unregister", "closed"}]
  /\ job \in [Handlers -> Job]
  /\ bound \in [Conns -> Sids \cup {None}]
  /\ wq \in [Conns -> Seq(Message)]
  /\ ctl \in [Cmds -> {"new", "published", "error", "done"}]
  /\ queued \subseteq Cmds
  /\ outbox \in Seq(Entry)
  /\ failed \subseteq Sids \X Nat

Published(s, n) == \E i \in DOMAIN outbox : outbox[i].type = "ev" /\ outbox[i].sid = s /\ outbox[i].seq = n

InFlight(s, n) == \E h \in Handlers : pc[h] = "publish" /\ job[h].sid = s /\ job[h].frame.seq = n

\* The event with this number went through the publisher or is about to.
Accounted(s, n) == Published(s, n) \/ InFlight(s, n) \/ <<s, n>> \in failed

\* Strict continuity of the guard (seqTolerance = 0), whatever the interleaving
\* of WebSocket and REST goroutines on one session: LastSeq of a live session
\* never goes back and never jumps over a number.
LastSeqAdvancesByOne ==
  [][\A s \in Sids : sAcct[s] # None => sLast'[s] \in {sLast[s], sLast[s] + 1}]_vars

\* Every number LastSeq has passed since the session began belongs to an event
\* that was published, whose publish failed, or that some goroutine that has
\* done setLastSeq is about to publish: no event is skipped silently.
NoHole ==
  \A s \in Sids : \A n \in (sBase[s] + 1)..sLast[s] : Accounted(s, n)

\* The bridge's records are well typed, and no number a session's LastSeq has
\* passed is lost between the guard and the publisher (verify, setLastSeq,
\* ingestEvent).
NumbersWhole == TypeOK /\ NoHole

\* A recorded frame sent again is never published again: nonces are forgotten
\* after 60 s while timestamps stay valid for 90 s, and the sequence check has
\* to cover the difference, over both paths.
NoFrameReplay ==
  \A i, j \in DOMAIN outbox :
    /\ i # j /\ outbox[i].type = "ev" /\ outbox[j].type = "ev"
    => \/ outbox[i].sid # outbox[j].sid
       \/ outbox[i].seq # outbox[j].seq
       \/ outbox[i].nonce # outbox[j].nonce

\* Tenant and account binding: what is published under an account was sent in
\* that account's name, under a session of that account, and the account was
\* paired.
OutboxAttributed ==
  \A i \in DOMAIN outbox :
    LET e == outbox[i]
    IN  e.type = "ev" => e.claim = e.acct /\ sAcct[e.sid] = e.acct /\ pairing[e.acct] # 0

\* What the bridge has promised a terminal and not yet sent is backed by the
\* session: an acked event went through the publisher, last_confirmed_seq and
\* baseline_seq do not run ahead of LastSeq.
PromisesBacked ==
  \A c \in Conns : \A i \in DOMAIN wq[c] :
    LET m == wq[c][i]
    IN  /\ m.kind = "ack" => Published(m.sid, m.n) \/ <<m.sid, m.n>> \in failed
        /\ m.kind = "auth_ok" => m.n <= sLast[m.sid]
        /\ m.kind = "resync_complete" => m.n <= sLast[m.sid] + 1

\* Without the REST path a session has one goroutine, and its events reach the
\* backbone in strictly increasing order.
WSOrdered ==
  \A i, j \in DOMAIN outbox :
    /\ i < j /\ outbox[i].type = "ev" /\ outbox[j].type = "ev"
    /\ outbox[i].sid = outbox[j].sid
    => outbox[i].seq < outbox[j].seq

\* "The push is a latency optimization, the record is truth": a command that
\* reached a terminal's queue is on the backbone under its target account.
PushedIsRecorded ==
  \A k \in queued : \E i \in DOMAIN outbox :
    outbox[i].type = "control" /\ outbox[i].cmd = k /\ outbox[i].acct = Target[k]

\* Nothing crosses accounts: an event is published for the account it was sent for,
\* a command pushed to a terminal is recorded for the account it was meant for
\* (verify, ingest, ControlHub.Publish).
AccountsApart == OutboxAttributed /\ PushedIsRecorded

-----------------------------------------------------------------------------
(* What comments of the code say and the code does not do *)

\* guard.go: "strict continuity; gap => RESYNC": a sequence number of a session
\* is accepted once.
SeqIngestedOnce ==
  \A i, j \in DOMAIN outbox :
    /\ i # j /\ outbox[i].type = "ev" /\ outbox[j].type = "ev"
    => outbox[i].sid # outbox[j].sid \/ outbox[i].seq # outbox[j].seq

=============================================================================
