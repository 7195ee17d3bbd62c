---- MODULE AttClient ----
(***************************************************************************)
(* bluek/_att.py, ATTClient: the ATT transaction engine.                   *)
(*                                                                         *)
(* Every request is a task running _request (or exchange_mtu, which wraps  *)
(* it). asyncio runs one task or callback at a time, so a step is what     *)
(* runs between two awaits: taking the lock and sending, resuming with the *)
(* future's result, one PDU handed to _on_data, one timer, one close. A    *)
(* resolved future does not run its waiter at once: _on_data, a timer or   *)
(* close may run before it, which is why fut and Resume are separate.      *)
(*                                                                         *)
(* Not every send is a request's: the tasks _confirm and _send_mtu_rsp and *)
(* the application's write_command send outside the lock. They are the     *)
(* Asides. A send that meets a full buffer waits for the loop's one write  *)
(* callback, L2capSocket's subject, so an aside that blocks can take that  *)
(* callback from a request; one that does not block changes nothing here.  *)
(* When an aside begins or ends is left open.                              *)
(*                                                                         *)
(* The peer answers requests in the order it receives them and answers,    *)
(* refuses or ignores each; it may answer one twice and may start an MTU   *)
(* exchange of its own. The L2CAP channel keeps order and loses nothing    *)
(* while the link is up.                                                   *)
(***************************************************************************)
EXTENDS Integers, Sequences, SequencesExt

CONSTANTS
  Reqs,         \* the requests made in a behaviour; each is made once
  Expects,      \* the response opcode each waits for (_request's parameter)
  NoReq,        \* not a request: nobody, None
  Asides,       \* bound: tasks blocked at once in a send outside the lock
  PeerMtus,     \* the receive MTUs a peer may announce
  MaxDup,       \* bound: answers the peer sends twice
  MaxPeerMtuReq \* bound: MTU exchanges the peer starts

DEFAULT_MTU == 23
PREFERRED_MTU == 247

ERROR_RSP == "error_rsp"
EXCHANGE_MTU_REQ == "exchange_mtu_req"
EXCHANGE_MTU_RSP == "exchange_mtu_rsp"
NoOpcode == "none"
Responses == {"read_rsp", "write_rsp", EXCHANGE_MTU_RSP}

ASSUME NoReqAssumption == NoReq \notin Reqs \cup Asides
ASSUME AsidesAssumption == Asides \cap Reqs = {}
ASSUME ExpectsAssumption == Expects \in [Reqs -> Responses]
ASSUME PeerMtusAssumption == PeerMtus \subseteq Nat
ASSUME BoundsAssumption == MaxDup \in Nat /\ MaxPeerMtuReq \in Nat

VARIABLES
  pc,            \* where each request is: idle, lock, send, await, done
  fut,           \* its future: none, pending, answer, timeout, cancelled, closed
  reply,         \* the PDU its future was resolved with
  outcome,       \* what the call returned or raised
  holder,        \* who holds _txn_lock
  waiters,       \* who waits for it, in order
  pending,       \* whose future self._pending is
  pendingOpcode, \* self._pending_opcode
  mtu,           \* self._mtu
  peerInitiatedMtu, \* self._peer_initiated_mtu
  beside,        \* asides blocked in send
  writer,        \* the sender whose write callback the loop has
  woken,         \* requests blocked in send whose callback has run
  link,          \* whether the connection is up
  closed,        \* the socket: open, local (close), remote (_fail)
  out,           \* requests on their way to, or queued at, the peer
  inq,           \* PDUs on their way to _on_data
  peerMtu,       \* the peer's receive MTU
  dups,          \* answers sent twice so far
  mtuReqs,       \* MTU exchanges the peer has started
  unsettled,     \* ghost: requests whose answer may reach another request
  heard,         \* ghost: exchanges in progress when the peer's MTU request came
  crossed        \* ghost: requests blocked in send that met a blocked aside

lockVars == <<holder, waiters, pending, pendingOpcode>>
mtuVars == <<mtu, peerInitiatedMtu, heard>>
sendVars == <<beside, writer, woken, crossed>>
linkVars == <<link, closed>>
peerVars == <<peerMtu, dups, mtuReqs>>
vars == <<pc, fut, reply, outcome, lockVars, mtuVars, sendVars, linkVars, out, inq,
          peerVars, unsettled>>

Senders == Reqs \cup Asides
Nobody == Reqs \cup {NoReq}
Pdus == [op : Responses \cup {ERROR_RSP, EXCHANGE_MTU_REQ, NoOpcode}, to : Nobody]
NoPdu == [op |-> NoOpcode, to |-> NoReq]

\* "failed" stands for every other way a call raises: timeout, cancellation, a
\* lost link, an OSError or ValueError from send.
Outcomes == {"none", "ok", "refused", "unexpected", "peer_mtu", "failed"}
Answered == {"ok", "refused", "unexpected"}

TypeOK ==
  /\ pc \in [Reqs -> {"idle", "lock", "send", "await", "done"}]
  /\ fut \in [Reqs -> {"none", "pending", "answer", "timeout", "cancelled", "closed"}]
  /\ reply \in [Reqs -> Pdus]
  /\ outcome \in [Reqs -> Outcomes]
  /\ holder \in Nobody /\ pending \in Nobody
  /\ waiters \in Seq(Reqs)
  /\ pendingOpcode \in Responses \cup {NoOpcode}
  /\ mtu \in DEFAULT_MTU .. PREFERRED_MTU /\ peerMtu \in PeerMtus
  /\ peerInitiatedMtu \in BOOLEAN
  /\ beside \subseteq Asides
  /\ writer \in Senders \cup {NoReq}
  /\ woken \subseteq Reqs /\ crossed \subseteq Reqs
  /\ link \in BOOLEAN
  /\ closed \in {"open", "local", "remote"}
  /\ out \in Seq(Reqs)
  /\ inq \in Seq(Pdus)
  /\ dups \in Nat /\ mtuReqs \in Nat
  /\ unsettled \subseteq Reqs /\ heard \subseteq Reqs

Init ==
  /\ pc = [r \in Reqs |-> "idle"]
  /\ fut = [r \in Reqs |-> "none"]
  /\ reply = [r \in Reqs |-> NoPdu]
  /\ outcome = [r \in Reqs |-> "none"]
  /\ holder = NoReq /\ waiters = <<>>
  /\ pending = NoReq /\ pendingOpcode = NoOpcode
  /\ mtu = DEFAULT_MTU /\ peerInitiatedMtu = FALSE
  /\ beside = {} /\ writer = NoReq /\ woken = {} /\ crossed = {}
  /\ link = TRUE /\ closed = "open"
  /\ out = <<>> /\ inq = <<>>
  /\ peerMtu \in PeerMtus
  /\ dups = 0 /\ mtuReqs = 0
  /\ unsettled = {} /\ heard = {}

-----------------------------------------------------------------------------
(* The caller's side: _request, and exchange_mtu around it.                *)

IsExchange(r) == Expects[r] = EXCHANGE_MTU_RSP

Larger(a, b) == IF a >= b THEN a ELSE b
Smaller(a, b) == IF a <= b THEN a ELSE b

\* A slip: our own limit forgotten.
NegotiateUncapped(theirs) == Larger(DEFAULT_MTU, theirs)

\* max(DEFAULT_MTU, min(PREFERRED_MTU, theirs)).
Negotiate(theirs) == Larger(DEFAULT_MTU, Smaller(PREFERRED_MTU, theirs))

Finish(r, how) ==
  /\ pc' = [pc EXCEPT ![r] = "done"]
  /\ outcome' = [outcome EXCEPT ![r] = how]

\* _request's first lines under the lock.
Hold(r) ==
  /\ holder' = r
  /\ pending' = r
  /\ pendingOpcode' = Expects[r]

\* A slip: the lock released only where the request succeeds.
ReleaseNothing ==
  /\ holder' = holder
  /\ pending' = NoReq
  /\ pendingOpcode' = NoOpcode

\* The finally clause and the end of `async with`. The first waiter is woken
\* by the lock being free.
Release ==
  /\ holder' = NoReq
  /\ pending' = NoReq
  /\ pendingOpcode' = NoOpcode

\* A future nobody will look at again.
Drop(r) ==
  /\ fut' = [fut EXCEPT ![r] = "none"]
  /\ reply' = [reply EXCEPT ![r] = NoPdu]

CanSend == link /\ closed = "open"

\* Who is blocked in send.
Blocked == {r \in Reqs : pc[r] = "send"} \cup beside

\* The ghost of two sends that wait at once.
Cross(s) ==
  crossed' = IF Blocked \ {s} = {} THEN crossed
             ELSE crossed \cup ((Blocked \cup {s}) \cap Reqs)

\* A slip: the callback registered for the first turn only.
BlockOnce(s) ==
  /\ writer' = IF s \in woken THEN NoReq ELSE s
  /\ Cross(s)

\* The buffer is full: the sender's callback takes the loop's one slot,
\* whoever had it.
Block(s) ==
  /\ writer' = s
  /\ Cross(s)

\* The finally clause of a blocked send: the slot is emptied, whoever has it.
Unblock(s) ==
  /\ writer' = NoReq
  /\ woken' = woken \ {s}
  /\ crossed' = crossed \ {s}

\* What a request makes of a send that raises. The socket's ETIMEDOUT is a
\* TimeoutError, so exchange_mtu may take it for a silent peer's.
SendErrors(r, flag) ==
  IF IsExchange(r) /\ flag /\ closed = "open" THEN {"failed", "peer_mtu"} ELSE {"failed"}

\* _request from the moment it owns the lock to its first suspension. send
\* returns at once, waits for the socket to be writable, or raises.
Begin(r, flag) ==
  \/ /\ CanSend
     /\ Hold(r)
     /\ fut' = [fut EXCEPT ![r] = "pending"]
     /\ pc' = [pc EXCEPT ![r] = "await"]
     /\ out' = Append(out, r)
     /\ UNCHANGED <<outcome, writer, crossed>>
  \/ /\ CanSend
     /\ Hold(r)
     /\ fut' = [fut EXCEPT ![r] = "pending"]
     /\ pc' = [pc EXCEPT ![r] = "send"]
     /\ Block(r)
     /\ UNCHANGED <<out, outcome>>
  \/ /\ ~ CanSend
     /\ \E how \in SendErrors(r, flag) : Finish(r, how)
     /\ Release
     /\ UNCHANGED <<fut, out, writer, crossed>>

\* A slip: the lock's fast path taken while others already wait.
LockFreeBarging == holder = NoReq

\* A slip: no lock at all.
LockFreeAlways == TRUE

\* asyncio.Lock.acquire's fast path.
LockFree == holder = NoReq /\ waiters = <<>>

\* A slip: exchange_mtu leaves the flag of an earlier exchange standing.
FlagKeptAtCall(r) == peerInitiatedMtu

\* exchange_mtu resets the flag before it waits for the lock.
FlagAtCall(r) == IF IsExchange(r) THEN FALSE ELSE peerInitiatedMtu

Call(r) ==
  /\ pc[r] = "idle"
  /\ peerInitiatedMtu' = FlagAtCall(r)
  /\ \/ /\ LockFree
        /\ Begin(r, FlagAtCall(r))
        /\ UNCHANGED waiters
     \/ /\ ~ LockFree
        /\ pc' = [pc EXCEPT ![r] = "lock"]
        /\ waiters' = Append(waiters, r)
        /\ UNCHANGED <<fut, outcome, out, holder, pending, pendingOpcode, writer, crossed>>
  /\ UNCHANGED <<reply, mtu, heard, beside, woken, linkVars, inq, peerVars, unsettled>>

Acquire(r) ==
  /\ holder = NoReq
  /\ waiters # <<>> /\ Head(waiters) = r
  /\ waiters' = Tail(waiters)
  /\ Begin(r, peerInitiatedMtu)
  /\ UNCHANGED <<reply, mtuVars, beside, woken, linkVars, inq, peerVars, unsettled>>

\* The socket is writable, or in error, and the callback the loop has runs.
Wake(r) ==
  /\ writer = r /\ r \notin woken /\ closed = "open"
  /\ woken' = woken \cup {r}
  /\ UNCHANGED <<pc, fut, reply, outcome, lockVars, mtuVars, beside, writer, crossed,
                 linkVars, out, inq, peerVars, unsettled>>

\* A woken send takes its next turn and goes through,
SendThrough(r) ==
  /\ pc[r] = "send" /\ r \in woken /\ CanSend
  /\ pc' = [pc EXCEPT ![r] = "await"]
  /\ out' = Append(out, r)
  /\ Unblock(r)
  /\ UNCHANGED <<fut, reply, outcome, lockVars, mtuVars, beside, linkVars, inq, peerVars,
                 unsettled>>

\* meets a full buffer again,
SendBlocksAgain(r) ==
  /\ pc[r] = "send" /\ r \in woken /\ CanSend
  /\ woken' = woken \ {r}
  /\ Block(r)
  /\ UNCHANGED <<pc, fut, reply, outcome, lockVars, mtuVars, beside, linkVars, out, inq,
                 peerVars, unsettled>>

\* The request is over with nothing sent.
SendRaises(r, how) ==
  /\ pc[r] = "send"
  /\ Finish(r, how)
  /\ Release
  /\ Drop(r)
  /\ Unblock(r)
  /\ UNCHANGED <<waiters, mtuVars, beside, linkVars, out, inq, peerVars, unsettled>>

\* or raises: the link or the socket is gone.
SendFail(r) ==
  /\ r \in woken /\ ~ CanSend
  /\ \E how \in SendErrors(r, peerInitiatedMtu) : SendRaises(r, how)

\* wait_for's timer. It fires only on a future that is still unresolved, or
\* on one resolved in the same round of the event loop, whose result is lost.
Timeout(r) ==
  /\ pc[r] = "await" /\ fut[r] \in {"pending", "answer", "closed"}
  /\ fut' = [fut EXCEPT ![r] = "timeout"]
  /\ UNCHANGED <<pc, reply, outcome, lockVars, mtuVars, sendVars, linkVars, out, inq,
                 peerVars, unsettled>>

\* The caller's task is cancelled (the application's own wait_for, say) while
\* its future is awaited: the future is cancelled, _request resumes later.
CancelAwait(r) ==
  /\ pc[r] = "await" /\ fut[r] # "cancelled"
  /\ fut' = [fut EXCEPT ![r] = "cancelled"]
  /\ UNCHANGED <<pc, reply, outcome, lockVars, mtuVars, sendVars, linkVars, out, inq,
                 peerVars, unsettled>>

\* Cancelled before anything was sent: while blocked in send.
CancelSend(r) == SendRaises(r, "failed")

\* Cancelled while waiting for the lock.
CancelWait(r) ==
  /\ \E k \in 1 .. Len(waiters) : waiters[k] = r /\ waiters' = RemoveAt(waiters, k)
  /\ Finish(r, "failed")
  /\ UNCHANGED <<fut, reply, holder, pending, pendingOpcode, mtuVars, sendVars, linkVars,
                 out, inq, peerVars, unsettled>>

\* What _request makes of its future, and exchange_mtu of _request. A lost
\* link may surface as the socket's ETIMEDOUT, which is a TimeoutError too.
Result(r) ==
  CASE fut[r] = "timeout" ->
         IF IsExchange(r) /\ peerInitiatedMtu THEN "peer_mtu" ELSE "failed"
    [] fut[r] = "answer" ->
         IF reply[r].op = ERROR_RSP THEN "refused"
         ELSE IF reply[r].op # Expects[r] THEN "unexpected" ELSE "ok"
    [] OTHER -> "failed"

\* The task runs again once its future is resolved: the finally clause, the
\* opcode checks and, in exchange_mtu, the new MTU. A request that ends
\* without its own answer may still be answered later.
Resume(r) ==
  /\ pc[r] = "await" /\ fut[r] # "pending"
  /\ Finish(r, Result(r))
  /\ Release
  /\ mtu' = IF IsExchange(r) /\ Result(r) = "ok" THEN Negotiate(peerMtu) ELSE mtu
  /\ unsettled' = IF reply[r].to = r THEN unsettled ELSE unsettled \cup {r}
  /\ reply' = IF Result(r) \in Answered THEN reply ELSE [reply EXCEPT ![r] = NoPdu]
  /\ fut' = [fut EXCEPT ![r] = "none"]
  /\ UNCHANGED <<waiters, peerInitiatedMtu, heard, sendVars, linkVars,
                 out, inq, peerVars>>

-----------------------------------------------------------------------------
(* The event loop's side: _on_data, the fire-and-forget task, _on_close.   *)

\* A future is resolved once: `fut is not None and not fut.done()`.
Awaited == pending # NoReq /\ fut[pending] = "pending"

Resolve(p) ==
  /\ fut' = [fut EXCEPT ![pending] = "answer"]
  /\ reply' = [reply EXCEPT ![pending] = p]

\* A slip: any PDU resolves the pending request.
DeliverableAny(op) == Awaited

\* _on_data's last condition.
Deliverable(op) == Awaited /\ op \in {pendingOpcode, ERROR_RSP}

\* _on_data, a response or an error: resolve the pending request or drop it.
OnResponse ==
  /\ closed = "open"
  /\ inq # <<>> /\ Head(inq).op # EXCHANGE_MTU_REQ
  /\ inq' = Tail(inq)
  /\ IF Deliverable(Head(inq).op) THEN Resolve(Head(inq)) ELSE UNCHANGED <<fut, reply>>
  /\ UNCHANGED <<pc, outcome, lockVars, mtuVars, sendVars, linkVars, out, peerVars, unsettled>>

\* _on_data, the peer's Exchange MTU Request: adopt the MTU, leave the response
\* to an aside, and satisfy a pending exchange of our own. That exchange's own
\* response is then no longer awaited.
OnMtuReq ==
  /\ closed = "open"
  /\ inq # <<>> /\ Head(inq).op = EXCHANGE_MTU_REQ
  /\ inq' = Tail(inq)
  /\ mtu' = Negotiate(peerMtu)
  /\ peerInitiatedMtu' = TRUE
  /\ heard' = heard \cup {r \in Reqs : IsExchange(r) /\ pc[r] \notin {"idle", "done"}}
  /\ IF Awaited /\ pendingOpcode = EXCHANGE_MTU_RSP
       THEN Resolve([op |-> EXCHANGE_MTU_RSP, to |-> NoReq])
       ELSE UNCHANGED <<fut, reply>>
  /\ UNCHANGED <<pc, outcome, lockVars, sendVars, linkVars, out, peerVars,
                 unsettled>>

\* A send outside the lock blocks, or blocks again.
AsideBlocks(a) ==
  /\ CanSend
  /\ beside' = beside \cup {a}
  /\ Block(a)
  /\ UNCHANGED <<pc, fut, reply, outcome, lockVars, mtuVars, woken, linkVars, out, inq,
                 peerVars, unsettled>>

\* It ends: it goes through or raises, it is cancelled or, as the task nobody
\* refers to that _confirm and _send_mtu_rsp are, collected.
AsideEnds(a) ==
  /\ a \in beside
  /\ beside' = beside \ {a}
  /\ Unblock(a)
  /\ UNCHANGED <<pc, fut, reply, outcome, lockVars, mtuVars, linkVars, out, inq, peerVars,
                 unsettled>>

\* The callback of a closed socket is nobody's, and no aside matters any more.
LoseSlot == writer' = NoReq /\ beside' = {}

\* _read_ready meets an error or the end of the stream: _fail closes the
\* socket and _on_close fails the pending future. The same event runs the
\* write callback.
Fail ==
  /\ ~ link /\ closed = "open"
  /\ closed' = "remote"
  /\ inq' = <<>>
  /\ IF Awaited
       THEN \E how \in {"closed", "timeout"} : fut' = [fut EXCEPT ![pending] = how]
       ELSE UNCHANGED fut
  /\ woken' = woken \cup ({writer} \cap Reqs)
  /\ LoseSlot
  /\ UNCHANGED <<pc, reply, outcome, lockVars, mtuVars, crossed, link, out, peerVars,
                 unsettled>>

\* ATTClient.close, called by BleakClient.disconnect: the reader goes, the
\* socket closes, and nothing tells the pending future or a blocked send.
Close ==
  /\ closed = "open"
  /\ closed' = "local"
  /\ out' = <<>> /\ inq' = <<>>
  /\ LoseSlot
  /\ UNCHANGED <<pc, fut, reply, outcome, lockVars, mtuVars, woken, crossed, link, peerVars,
                 unsettled>>

-----------------------------------------------------------------------------
(* The peer and the radio.                                                 *)

PeerHears == link /\ closed = "open"

PeerTakes(r) ==
  /\ PeerHears
  /\ out # <<>> /\ Head(out) = r
  /\ out' = Tail(out)
  /\ UNCHANGED <<pc, fut, reply, outcome, lockVars, mtuVars, sendVars, linkVars, peerMtu, mtuReqs>>

\* The peer answers, or refuses with an Error Response, its oldest request.
PeerAnswers(r) ==
  /\ PeerTakes(r)
  /\ \E op \in {Expects[r], ERROR_RSP} : inq' = Append(inq, [op |-> op, to |-> r])
  /\ UNCHANGED <<dups, unsettled>>

\* It answers twice.
PeerAnswersTwice(r) ==
  /\ dups < MaxDup
  /\ PeerTakes(r)
  /\ dups' = dups + 1
  /\ LET p == [op |-> Expects[r], to |-> r]
     IN inq' = inq \o <<p, p>>
  /\ unsettled' = unsettled \cup {r}

\* It stays silent.
PeerIgnores(r) ==
  /\ PeerTakes(r)
  /\ UNCHANGED <<dups, inq, unsettled>>

\* It starts an MTU exchange.
PeerExchangesMtu ==
  /\ PeerHears
  /\ mtuReqs < MaxPeerMtuReq
  /\ mtuReqs' = mtuReqs + 1
  /\ inq' = Append(inq, [op |-> EXCHANGE_MTU_REQ, to |-> NoReq])
  /\ UNCHANGED <<pc, fut, reply, outcome, lockVars, mtuVars, sendVars, linkVars, out,
                 peerMtu, dups, unsettled>>

\* Supervision timeout or remote disconnect: what the peer holds is lost.
LinkDown ==
  /\ PeerHears
  /\ link' = FALSE
  /\ out' = <<>>
  /\ UNCHANGED <<pc, fut, reply, outcome, lockVars, mtuVars, sendVars, closed, inq, peerVars,
                 unsettled>>

-----------------------------------------------------------------------------
Caller(r) ==
  \/ Call(r) \/ Acquire(r) \/ SendThrough(r) \/ SendBlocksAgain(r) \/ SendFail(r)
  \/ Wake(r) \/ Timeout(r) \/ CancelAwait(r) \/ CancelSend(r) \/ CancelWait(r) \/ Resume(r)

Beside(a) == AsideBlocks(a) \/ AsideEnds(a)

EventLoop == OnResponse \/ OnMtuReq \/ Fail \/ Close

Peer ==
  \/ \E r \in Reqs : PeerAnswers(r) \/ PeerAnswersTwice(r) \/ PeerIgnores(r)
  \/ PeerExchangesMtu
  \/ LinkDown

Next == (\E r \in Reqs : Caller(r)) \/ (\E a \in Asides : Beside(a)) \/ EventLoop \/ Peer

\* The loop runs every ready task, every due timer and the write callback it
\* has; the selector reports a lost link. On a link that is up the buffer
\* drains, so a request that is woken again and again gets through. Nothing is
\* assumed of the peer or of the asides.
Fairness ==
  /\ \A r \in Reqs : /\ WF_vars(Acquire(r))
                     /\ WF_vars(Resume(r))
                     /\ WF_vars(Wake(r))
                     /\ SF_vars(SendThrough(r) \/ SendFail(r))
                     /\ WF_vars(fut[r] = "pending" /\ Timeout(r))
  /\ WF_vars(Fail)

Spec == Init /\ [][Next]_vars
FairSpec == Spec /\ Fairness

-----------------------------------------------------------------------------
(* What must hold.                                                         *)

\* An answer reaches a request other than its own only if it belongs to a
\* request that ended without its answer or was answered twice; an answer
\* from nobody's request is _on_data's shortcut for a pending exchange_mtu
\* (_att.py:174-176). A request no stale answer can reach gets its own.
OnlyUnsettledStray ==
  \A r \in Reqs :
    /\ reply[r].to \in {r, NoReq} \cup unsettled
    /\ reply[r].to = NoReq /\ reply[r] # NoPdu => IsExchange(r) /\ r \in heard

\* _request's "unexpected ATT opcode" (_att.py:233-234) is never raised: the
\* filter of _on_data and the clearing of _pending leave it nothing to catch.
NoUnexpectedOpcode == \A r \in Reqs : outcome[r] # "unexpected"

\* exchange_mtu reports success after a timeout only if the peer's own
\* exchange came while it ran: silence never reads as "negotiated"
\* (_att.py:245-256), whichever exchanges ran before or wait beside it.
SilenceIsNotNegotiated ==
  \A r \in Reqs : outcome[r] = "peer_mtu" => r \in heard /\ mtu = Negotiate(peerMtu)

\* The unconditional form of OnlyUnsettledStray, which the comment above
\* _on_data's last test states: only the response the transaction is actually
\* waiting for is delivered.
AnswersOwnRequest == \A r \in Reqs : reply[r].to \in {r, NoReq}

\* Every request ends: answered, refused or, at the latest, timed out, with two
\* exceptions, both of a request blocked in send, which has no timer: close()
\* does not wake it, and a send outside the lock that is blocked at the same
\* time takes its write callback or removes it (_l2cap.py:150-154). Such a
\* request keeps the lock, and it and all behind it wait for ever.
Stranded == \E r \in Reqs : pc[r] = "send" /\ (closed = "local" \/ r \in crossed)
EveryCallEnds == []<>(Stranded \/ \A r \in Reqs : pc[r] \in {"idle", "done"})

\* The transaction engine serves requests one at a time, in order.
Bearer == INSTANCE AttBearer WITH
  queue <- (IF holder = NoReq THEN <<>> ELSE <<holder>>) \o waiters,
  result <- [r \in Reqs |->
               CASE pc[r] # "done" -> "none"
                 [] outcome[r] \in Answered -> "answered"
                 [] OTHER -> "unanswered"],
  from <- [r \in Reqs |-> IF outcome[r] \in Answered THEN reply[r].to ELSE NoReq],
  loose <- unsettled

ServesInOrder == Bearer!BearerSpec

-----------------------------------------------------------------------------
(* Why it holds: the inductive invariant of AttClientProofs.               *)

InOut(q) == \E i \in 1 .. Len(out) : out[i] = q
InInq(q) == \E i \in 1 .. Len(inq) : inq[i].to = q
InFlight(q) == InOut(q) \/ InInq(q)

\* The lock's holder is the one request past the lock, and _pending is its;
\* a request waits for the lock once.
LockInv ==
  /\ \A r \in Reqs : pc[r] \in {"send", "await"} <=> holder = r
  /\ pending = holder
  /\ pendingOpcode = IF holder = NoReq THEN NoOpcode ELSE Expects[holder]
  /\ \A k \in 1 .. Len(waiters) : pc[waiters[k]] = "lock"
  /\ \A i, j \in 1 .. Len(waiters) : waiters[i] = waiters[j] => i = j

\* A future holds a PDU only of the opcode its request waits for.
FutInv ==
  \A r \in Reqs :
    /\ fut[r] # "none" <=> pc[r] \in {"send", "await"}
    /\ fut[r] = "pending" \/ pc[r] \in {"idle", "lock"} => reply[r] = NoPdu
    /\ fut[r] = "answer" => reply[r].op \in {Expects[r], ERROR_RSP}
    /\ pc[r] = "send" => reply[r].to # r

\* No request is sent twice,
SentOnce == \A i, j \in 1 .. Len(out) : out[i] = out[j] => i = j

\* none is answered twice unless it counts as unsettled,
AnsweredOnce ==
  \A i, j \in 1 .. Len(inq) :
    inq[i].to = inq[j].to => i = j \/ inq[i].to \in unsettled \cup {NoReq}

\* the peer forgets a request once it has answered it,
OutOrBack == \A q \in Reqs : ~ (InOut(q) /\ InInq(q))

\* only MTU requests of the peer answer nobody,
OwnedInv == \A i \in 1 .. Len(inq) : inq[i].to = NoReq => inq[i].op = EXCHANGE_MTU_REQ

\* and only the lock's holder has anything in flight, unsettled requests aside.
FlightInv ==
  \A q \in Reqs : InFlight(q) =>
    /\ pc[q] \in {"await", "done"}
    /\ q \notin unsettled => pc[q] = "await" /\ reply[q].to # q

WireInv == SentOnce /\ AnsweredOnce /\ OutOrBack /\ OwnedInv /\ FlightInv

\* The flag says the peer started an exchange while each of ours was running.
FlagInv ==
  /\ peerInitiatedMtu =>
       \A r \in Reqs : IsExchange(r) /\ pc[r] \in {"lock", "send", "await"} => r \in heard
  /\ heard # {} => mtu = Negotiate(peerMtu)

IInv ==
  /\ TypeOK /\ LockInv /\ FutInv /\ WireInv /\ FlagInv
  /\ OnlyUnsettledStray /\ NoUnexpectedOpcode /\ SilenceIsNotNegotiated
====
