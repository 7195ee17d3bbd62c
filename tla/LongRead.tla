---- MODULE LongRead ----
(***************************************************************************)
(* bluek/_att.py, ATTClient.read and _read_blob: one long read while the   *)
(* peer starts an MTU exchange.                                            *)
(*                                                                         *)
(* The bytes of an attribute are their positions, so a value read is its   *)
(* length. Each side has its own idea of the MTU: ours changes in _on_data *)
(* (mtu), the peer's when our Exchange MTU Response reaches it (peerMtu),  *)
(* and the peer cuts each PDU to its own. The response, the PDU that _on_  *)
(* data takes next and the reader's resumption are separate steps.         *)
(***************************************************************************)
EXTENDS Integers, Sequences

CONSTANTS
  AttrLens,      \* lengths of the attribute
  PeerMtus,      \* the receive MTUs a peer may announce
  MaxPeerMtuReq  \* bound: MTU exchanges the peer starts

DEFAULT_MTU == 23
PREFERRED_MTU == 247

ASSUME AttrLensAssumption == AttrLens \subseteq Nat
ASSUME PeerMtusAssumption == PeerMtus \subseteq Nat
ASSUME BoundAssumption == MaxPeerMtuReq \in Nat

VARIABLES
  pc,         \* the reader: idle, read, blob (awaiting), done, failed
  fut,        \* its future: pending, answer, or none
  chunk,      \* bytes in the PDU that resolved it; -1: an ATT error
  value,      \* len(value)
  snapshot,   \* the local variable mtu of read; 0 before it is set
  asked,      \* requests sent so far
  mtu,        \* self._mtu
  mtuRspDue,  \* _send_mtu_rsp tasks that have not run
  length,     \* the attribute's length
  peerRx,     \* the MTU the peer announces
  peerMtu,    \* the MTU the peer sizes its PDUs by
  toPeer,     \* PDUs on their way to the peer
  inq,        \* PDUs on their way to _on_data
  mtuReqs,    \* MTU exchanges the peer has started
  exchanging, \* the peer awaits our Exchange MTU Response
  raced       \* ghost: an MTU exchange overlapped the read

readVars == <<pc, fut, chunk, value, snapshot, asked>>
mtuVars == <<mtu, mtuRspDue, peerMtu, exchanging, mtuReqs>>
vars == <<readVars, mtuVars, length, peerRx, toPeer, inq, raced>>

Larger(a, b) == IF a >= b THEN a ELSE b
Smaller(a, b) == IF a <= b THEN a ELSE b

\* A slip: our own limit forgotten.
NegotiateUncapped(theirs) == Larger(DEFAULT_MTU, theirs)

\* max(DEFAULT_MTU, min(PREFERRED_MTU, theirs)); both sides compute it.
Negotiate(theirs) == Larger(DEFAULT_MTU, Smaller(PREFERRED_MTU, theirs))

TypeOK ==
  /\ pc \in {"idle", "read", "blob", "done", "failed"}
  /\ fut \in {"none", "pending", "answer"}
  /\ chunk \in Nat \cup {-1} /\ value \in 0 .. length
  /\ snapshot \in {0} \cup DEFAULT_MTU .. PREFERRED_MTU
  /\ asked \in Nat /\ mtuRspDue \in 0 .. 1 /\ mtuReqs \in 0 .. MaxPeerMtuReq
  /\ {mtu, peerMtu} \subseteq DEFAULT_MTU .. PREFERRED_MTU
  /\ length \in AttrLens /\ peerRx \in PeerMtus
  /\ exchanging \in BOOLEAN /\ raced \in BOOLEAN

Init ==
  /\ pc = "idle" /\ fut = "none" /\ chunk = 0 /\ value = 0 /\ snapshot = 0 /\ asked = 0
  /\ length \in AttrLens /\ peerRx \in PeerMtus
  /\ mtu \in {DEFAULT_MTU, Negotiate(peerRx)}  \* the client's own exchange is over
  /\ peerMtu = mtu
  /\ mtuRspDue = 0 /\ toPeer = <<>> /\ inq = <<>> /\ mtuReqs = 0
  /\ exchanging = FALSE /\ raced = FALSE

-----------------------------------------------------------------------------
(* The reader. The transaction engine is AttClient's; here it has this one *)
(* request at a time.                                                      *)

\* _request up to its await.
Request(op, offset) ==
  /\ fut' = "pending"
  /\ asked' = asked + 1
  /\ toPeer' = Append(toPeer, [op |-> op, offset |-> offset])

Read ==
  /\ pc = "idle"
  /\ pc' = "read"
  /\ Request("read", 0)
  /\ raced' = exchanging
  /\ UNCHANGED <<chunk, value, snapshot, mtuVars, length, peerRx, inq>>

\* A slip: only a PDU longer than it can be counts as full.
MoreMayFollowStrict(len, m) == len > m - 1

\* The loop's test: the value fills PDUs of m, so more may follow.
MoreMayFollow(len, m) == len >= m - 1

\* Go round the loop with len bytes so far, or return.
Continue(len, m) ==
  IF MoreMayFollow(len, m)
    THEN pc' = "blob" /\ Request("blob", len)
    ELSE pc' = "done" /\ fut' = "none" /\ UNCHANGED <<asked, toPeer>>

\* Resuming after the Read Response: the MTU is snapshot now.
ResumeRead ==
  /\ pc = "read" /\ fut = "answer"
  /\ IF chunk = -1
       THEN /\ pc' = "failed" /\ fut' = "none"
            /\ UNCHANGED <<value, snapshot, asked, toPeer>>
       ELSE /\ value' = chunk
            /\ snapshot' = mtu
            /\ Continue(chunk, mtu)
  /\ UNCHANGED <<chunk, mtuVars, length, peerRx, inq, raced>>

\* A slip: an empty blob does not end the loop.
BlobEndsOnErrorOnly(n) == n = -1

\* Invalid Offset, Attribute Not Long and an empty blob all end the value.
BlobEnds(n) == n \in {-1, 0}

\* A slip: the live MTU tested, not the snapshot.
LoopMtuLive == mtu

\* The MTU that the loop tests against.
LoopMtu == snapshot

ResumeBlob ==
  /\ pc = "blob" /\ fut = "answer"
  /\ IF BlobEnds(chunk)
       THEN pc' = "done" /\ fut' = "none" /\ UNCHANGED <<value, asked, toPeer>>
       ELSE value' = value + Larger(chunk, 0) /\ Continue(value + Larger(chunk, 0), LoopMtu)
  /\ UNCHANGED <<chunk, snapshot, mtuVars, length, peerRx, inq, raced>>

\* ATT_TIMEOUT, a lost link, another ATT error, a cancellation.
GiveUp ==
  /\ pc \in {"read", "blob"}
  /\ pc' = "failed" /\ fut' = "none"
  /\ UNCHANGED <<chunk, value, snapshot, asked, mtuVars, length, peerRx, toPeer, inq, raced>>

-----------------------------------------------------------------------------
(* _on_data and the response it owes.                                      *)

Reading == pc \in {"read", "blob"}

OnResponse ==
  /\ inq # <<>> /\ Head(inq).op # "mtu_req"
  /\ inq' = Tail(inq)
  /\ IF fut = "pending"
       THEN fut' = "answer" /\ chunk' = Head(inq).len
       ELSE UNCHANGED <<fut, chunk>>
  /\ UNCHANGED <<pc, value, snapshot, asked, mtuVars, length, peerRx, toPeer, raced>>

OnMtuReq ==
  /\ inq # <<>> /\ Head(inq).op = "mtu_req"
  /\ inq' = Tail(inq)
  /\ mtu' = Negotiate(peerRx)
  /\ mtuRspDue' = mtuRspDue + 1
  /\ UNCHANGED <<readVars, peerMtu, exchanging, mtuReqs, length, peerRx, toPeer, raced>>

SendMtuRsp ==
  /\ mtuRspDue > 0
  /\ mtuRspDue' = mtuRspDue - 1
  /\ toPeer' = Append(toPeer, [op |-> "mtu_rsp", offset |-> 0])
  /\ UNCHANGED <<readVars, mtu, peerMtu, exchanging, mtuReqs, length, peerRx, inq, raced>>

-----------------------------------------------------------------------------
(* The peer.                                                               *)

PeerMtuReq ==
  /\ mtuReqs < MaxPeerMtuReq /\ ~ exchanging
  /\ mtuReqs' = mtuReqs + 1
  /\ exchanging' = TRUE
  /\ inq' = Append(inq, [op |-> "mtu_req", len |-> 0])
  /\ raced' = (raced \/ Reading)
  /\ UNCHANGED <<readVars, mtu, mtuRspDue, peerMtu, length, peerRx, toPeer>>

\* It reads our Exchange MTU Response and cuts its PDUs anew from now on.
PeerSwitches ==
  /\ toPeer # <<>> /\ Head(toPeer).op = "mtu_rsp"
  /\ toPeer' = Tail(toPeer)
  /\ peerMtu' = Negotiate(peerRx)
  /\ exchanging' = FALSE
  /\ UNCHANGED <<readVars, mtu, mtuRspDue, mtuReqs, length, peerRx, inq, raced>>

\* It answers a read or a blob request with what fits from the offset on. It
\* may call an attribute "not long" when all of it fits one PDU.
PeerAnswers ==
  /\ toPeer # <<>> /\ Head(toPeer).op # "mtu_rsp"
  /\ toPeer' = Tail(toPeer)
  /\ LET q == Head(toPeer)
         cut == Smaller(length - q.offset, peerMtu - 1)
         notLong == q.op = "blob" /\ length <= peerMtu - 1
     IN \E len \in {cut} \cup (IF notLong THEN {-1} ELSE {}) :
          inq' = Append(inq, [op |-> q.op, len |-> len])
  /\ UNCHANGED <<readVars, mtuVars, length, peerRx, raced>>

-----------------------------------------------------------------------------
Reader == Read \/ ResumeRead \/ ResumeBlob \/ GiveUp
Peer == PeerMtuReq \/ PeerSwitches \/ PeerAnswers

Next == Reader \/ OnResponse \/ OnMtuReq \/ SendMtuRsp \/ Peer

Spec == Init /\ [][Next]_vars

\* The loop runs what is ready; this peer does answer.
FairSpec ==
  /\ Spec
  /\ WF_vars(ResumeRead) /\ WF_vars(ResumeBlob)
  /\ WF_vars(OnResponse) /\ WF_vars(OnMtuReq)
  /\ WF_vars(PeerAnswers) /\ WF_vars(PeerSwitches)

-----------------------------------------------------------------------------
\* A read that no MTU exchange overlaps returns the whole attribute, at every
\* length that fills its last PDU exactly, and whichever way the server ends it.
WholeUnlessRaced == pc = "done" /\ ~ raced => value = length

\* A read that goes on after the first PDU is never cut short by our own MTU
\* changing under it (_att.py:265-269): once it continues it returns everything
\* unless the server called the attribute "not long" after it switched.
NotCutByOurMtu ==
  pc = "done" /\ asked > 1 /\ chunk # -1 => value = length

\* read()'s comment and test_read_not_truncated_by_midread_mtu_change: an MTU
\* exchange the peer starts during a read never truncates the value.
NeverTruncated == pc = "done" => value = length

\* What the smallest PDUs need.
EnoughRequests == 2 + length \div (DEFAULT_MTU - 1)

\* The loop ends, within that many requests.
ReadIsBounded ==
  /\ pc # "idle" ~> ~ Reading
  /\ [](asked <= EnoughRequests)

\* Its safety half.
FewRequests == asked <= EnoughRequests

-----------------------------------------------------------------------------
(* Why the safety properties hold: the inductive invariant of              *)
(* LongReadProofs.                                                         *)

Requests == [op : {"read", "blob", "mtu_rsp"}, offset : 0 .. length]
Replies == [op : {"read", "blob", "mtu_req"}, len : Nat \cup {-1}]
Mtus == DEFAULT_MTU .. PREFERRED_MTU

\* Where the PDUs with one of these opcodes are in a queue.
Places(q, ops) == {i \in 1 .. Len(q) : q[i].op \in ops}
AtMostOne(S) == \A i, j \in S : i = j

OfRead == {"read", "blob"}
OfMtu == {"mtu_req", "mtu_rsp"}

Asking == Places(toPeer, OfRead)
Answering == Places(inq, OfRead)
Inviting == Places(inq, OfMtu)
Owing == Places(toPeer, OfMtu)

\* What a peer with one of these MTUs may answer a reader that has v bytes of l.
Cut(op, n, v, l, mtus) ==
  \E m \in mtus : \/ n = Smaller(l - v, m - 1)
                  \/ n = -1 /\ op = "blob" /\ l <= m - 1

\* Unless an exchange overlaps the read, the peer's MTU is ours.
Fits(op, n) == Cut(op, n, value, length, IF raced THEN Mtus ELSE {mtu})

\* The reader's progress. After its first PDU it has at least what the MTU of
\* that moment holds; every further PDU but the last one brings 22 bytes or more.
ReaderInv ==
  /\ fut # "none" <=> Reading
  /\ pc = "idle" => asked = 0 /\ value = 0
  /\ pc = "read" => asked = 1 /\ value = 0
  /\ pc = "blob" =>
       /\ asked > 1 /\ snapshot # 0 /\ value >= snapshot - 1
       /\ \/ (DEFAULT_MTU - 1) * (asked - 1) <= value
          \/ value = length /\ (DEFAULT_MTU - 1) * (asked - 2) <= value
  /\ Reading /\ ~ raced => ~ exchanging /\ (pc = "blob" => snapshot = mtu)

\* One request at a time, and what is in flight is the reader's present one.
FlightInv ==
  /\ toPeer \in Seq(Requests) /\ inq \in Seq(Replies)
  /\ AtMostOne(Asking) /\ AtMostOne(Answering)
  /\ Asking = {} \/ Answering = {}
  /\ fut = "answer" \/ pc = "idle" => Asking = {} /\ Answering = {}
  /\ fut = "pending" =>
       /\ \A i \in 1 .. Len(toPeer) : toPeer[i].op \in OfRead =>
            toPeer[i].op = pc /\ toPeer[i].offset = value
       /\ \A i \in 1 .. Len(inq) : inq[i].op \in OfRead =>
            inq[i].op = pc /\ Fits(pc, inq[i].len)
  /\ fut = "answer" => Fits(pc, chunk)

\* An exchange of the peer is one thing at a time: its request, the response
\* that we owe, or that response on its way. We switch at the first step, the
\* peer after the last.
ExchangeInv ==
  /\ AtMostOne(Inviting) /\ AtMostOne(Owing)
  /\ Inviting = {} \/ Owing = {}
  /\ mtuRspDue # 0 => Inviting = {} /\ Owing = {}
  /\ ~ exchanging => mtuRspDue = 0 /\ Inviting = {} /\ Owing = {}
  /\ ~ exchanging \/ Inviting # {} => mtu = peerMtu
  /\ mtuRspDue # 0 \/ Owing # {} => mtu = Negotiate(peerRx)

IInv ==
  /\ TypeOK /\ ReaderInv /\ FlightInv /\ ExchangeInv
  /\ WholeUnlessRaced /\ NotCutByOurMtu /\ FewRequests
====
