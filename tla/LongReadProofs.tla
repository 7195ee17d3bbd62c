---- MODULE LongReadProofs ----
(***************************************************************************)
(* A long read is whole, and needs few requests, for every attribute, every *)
(* peer MTU and any number of MTU exchanges. The argument is IInv of       *)
(* LongRead: one request is in flight at a time, its answer is cut by the  *)
(* MTU that both sides agree on unless an exchange overlaps the read, and  *)
(* past its first PDU the reader never has less than its own test asks.    *)
(***************************************************************************)
EXTENDS LongRead, SequenceTheorems, TLAPS

USE AttrLensAssumption, PeerMtusAssumption, BoundAssumption
USE DEF readVars, mtuVars, EnoughRequests, Mtus, DEFAULT_MTU, PREFERRED_MTU, Fits

-----------------------------------------------------------------------------
(* MTUs, queues and the two parts of TypeOK.                               *)

\* Whatever MTU a peer announces, what is negotiated lies between the limits.
LEMMA NegotiateRange ==
  ASSUME NEW m \in Nat
  PROVE  Negotiate(m) \in Mtus
  BY DEF Negotiate, Larger, Smaller

\* Appending puts one element after those that were there.
LEMMA Appended ==
  ASSUME NEW S, NEW s \in Seq(S), NEW e \in S
  PROVE  /\ Append(s, e) \in Seq(S) /\ Len(Append(s, e)) = Len(s) + 1 /\ Len(s) \in Nat
         /\ \A i \in 1 .. Len(Append(s, e)) :
              Append(s, e)[i] = e \/ (i \in 1 .. Len(s) /\ Append(s, e)[i] = s[i])
         /\ \A i \in 1 .. Len(s) : i \in 1 .. Len(Append(s, e)) /\ Append(s, e)[i] = s[i]
  BY AppendProperties, LenProperties

\* A PDU joins a queue where there is none of its kind,
LEMMA JoinsFirst ==
  ASSUME NEW S, NEW s \in Seq(S), NEW e \in S, NEW O, Places(s, O) = {}
  PROVE  /\ AtMostOne(Places(Append(s, e), O))
         /\ \A i \in 1 .. Len(Append(s, e)) : Append(s, e)[i].op \in O => Append(s, e)[i] = e
<1>1. /\ Len(Append(s, e)) = Len(s) + 1 /\ Len(s) \in Nat
      /\ \A i \in 1 .. Len(s) : Append(s, e)[i] = s[i]
  BY AppendProperties, LenProperties
<1>2. \A i \in Places(Append(s, e), O) : i = Len(s) + 1
  BY <1>1 DEF Places
<1>3. AtMostOne(Places(Append(s, e), O))
  BY <1>2 DEF AtMostOne
<1>4. ASSUME NEW i \in 1 .. Len(Append(s, e)), Append(s, e)[i].op \in O
      PROVE  Append(s, e)[i] = e
  <2>1. i \notin 1 .. Len(s)
    BY <1>1, <1>4 DEF Places
  <2> QED BY <2>1, Appended
<1> QED BY <1>3, <1>4

\* and does not disturb another kind.
LEMMA JoinsOthers ==
  ASSUME NEW S, NEW s \in Seq(S), NEW e \in S, NEW O, e.op \notin O
  PROVE  Places(Append(s, e), O) = Places(s, O)
<1>1. /\ Len(Append(s, e)) = Len(s) + 1 /\ Len(s) \in Nat
      /\ \A i \in 1 .. Len(s) : i \in 1 .. Len(Append(s, e)) /\ Append(s, e)[i] = s[i]
      /\ Append(s, e)[Len(s) + 1] = e
  BY AppendProperties, LenProperties
<1>2. \A i \in 1 .. Len(Append(s, e)) : i \in 1 .. Len(s) \/ i = Len(s) + 1
  BY <1>1
<1>3. \A i \in Places(Append(s, e), O) : i \in Places(s, O)
  BY <1>1, <1>2 DEF Places
<1>4. \A i \in Places(s, O) : i \in Places(Append(s, e), O)
  BY <1>1 DEF Places
<1> QED BY <1>3, <1>4

\* The first PDU of a queue, and where the others are once it is taken.
LEMMA Taken ==
  ASSUME NEW S, NEW s \in Seq(S), s # <<>>
  PROVE  /\ Tail(s) \in Seq(S) /\ Head(s) \in S /\ Head(s) = s[1] /\ 1 \in 1 .. Len(s)
         /\ \A i \in 1 .. Len(Tail(s)) : i + 1 \in 1 .. Len(s) /\ Tail(s)[i] = s[i + 1]
  BY HeadTailProperties, LenProperties, EmptySeq

\* Taking a PDU adds none; it was the only one of its kind.
LEMMA TakesOnly ==
  ASSUME NEW S, NEW s \in Seq(S), s # <<>>, NEW O, AtMostOne(Places(s, O))
  PROVE  /\ AtMostOne(Places(Tail(s), O))
         /\ Places(s, O) = {} => Places(Tail(s), O) = {}
         /\ Head(s).op \in O => Places(s, O) # {} /\ Places(Tail(s), O) = {}
<1>1. Len(Tail(s)) = Len(s) - 1 /\ Len(s) \in Nat
  BY HeadTailProperties, LenProperties
<1>2. \A i \in Places(Tail(s), O) : i \in Int /\ i >= 1 /\ i + 1 \in Places(s, O)
  BY <1>1, Taken DEF Places
<1>3. Head(s).op \in O => 1 \in Places(s, O)
  BY Taken DEF Places
<1> QED BY <1>2, <1>3 DEF AtMostOne

\* Taking a PDU of another kind leaves this one's.
LEMMA TakesOther ==
  ASSUME NEW S, NEW s \in Seq(S), s # <<>>, NEW O, Head(s).op \notin O
  PROVE  Places(s, O) # {} => Places(Tail(s), O) # {}
<1>1. Len(Tail(s)) = Len(s) - 1 /\ Len(s) \in Nat
  BY HeadTailProperties, LenProperties
<1>2. ASSUME NEW i \in Places(s, O)
      PROVE  Places(Tail(s), O) # {}
  <2>1. i \in 1 .. Len(s) /\ s[i].op \in O /\ i # 1
    BY <1>2, Taken DEF Places
  <2>2. i - 1 \in 1 .. Len(Tail(s)) /\ (i - 1) + 1 = i
    BY <1>1, <2>1
  <2>3. Tail(s)[i - 1] = s[i]
    BY <2>2, Taken
  <2> QED BY <2>1, <2>2, <2>3 DEF Places
<1> QED BY <1>2

FlagsTyped == {exchanging, raced} \subseteq BOOLEAN

RestTyped ==
  /\ pc \in {"idle", "read", "blob", "done", "failed"}
  /\ fut \in {"none", "pending", "answer"}
  /\ chunk \in Nat \cup {-1} /\ value \in 0 .. length
  /\ snapshot \in {0} \cup Mtus
  /\ asked \in Nat /\ mtuRspDue \in 0 .. 1 /\ mtuReqs \in 0 .. MaxPeerMtuReq
  /\ mtu \in Mtus /\ peerMtu \in Mtus
  /\ length \in AttrLens /\ peerRx \in PeerMtus

\* TypeOK is the flags' types and the others'.
LEMMA TypeParts ==
  /\ TypeOK <=> FlagsTyped /\ RestTyped
  /\ TypeOK' <=> FlagsTyped' /\ RestTyped'
  BY DEF TypeOK, FlagsTyped, RestTyped

\* A PDU either belongs to a read or to an MTU exchange.
LEMMA Opcodes ==
  /\ \A op \in OfRead : op \notin OfMtu
  /\ "read" \in OfRead /\ "blob" \in OfRead /\ "mtu_req" \in OfMtu /\ "mtu_rsp" \in OfMtu
  /\ \A q \in Requests : q.op \in OfRead \/ q.op = "mtu_rsp"
  /\ \A p \in Replies : p.op \in OfRead \/ p.op = "mtu_req"
  BY DEF OfRead, OfMtu, Requests, Replies

\* A request joins the PDUs to the peer.
LEMMA RequestJoins ==
  ASSUME toPeer \in Seq(Requests), NEW q \in Requests, q.op \in OfRead,
         toPeer' = Append(toPeer, q), Asking = {}
  PROVE  /\ toPeer' \in Seq(Requests) /\ AtMostOne(Asking') /\ Owing' = Owing
         /\ \A i \in 1 .. Len(toPeer') : toPeer'[i].op \in OfRead => toPeer'[i] = q
<1>1. Places(toPeer, OfRead) = {} /\ q.op \notin OfMtu
  BY Opcodes DEF Asking
<1>2. toPeer' \in Seq(Requests)
  BY Appended
<1>3. Places(toPeer', OfMtu) = Places(toPeer, OfMtu)
  BY <1>1, JoinsOthers
<1>4. /\ AtMostOne(Places(toPeer', OfRead))
      /\ \A i \in 1 .. Len(toPeer') : toPeer'[i].op \in OfRead => toPeer'[i] = q
  BY <1>1, JoinsFirst
<1> QED BY <1>2, <1>3, <1>4 DEF Asking, Owing

-----------------------------------------------------------------------------
(* The reader.                                                             *)

\* The first request is sent.
LEMMA ReadKeeps ==
  ASSUME IInv, Read
  PROVE  IInv'
<1>1. RestTyped
  BY TypeParts DEF IInv
<1>2. PICK q \in Requests : q.op = "read" /\ q.offset = 0 /\ toPeer' = Append(toPeer, q)
  <2>1. [op |-> "read", offset |-> 0] \in Requests
    BY <1>1 DEF Requests, RestTyped
  <2> QED BY <2>1 DEF Read, Request
<1>b. toPeer \in Seq(Requests)
  BY DEF IInv, FlightInv
<1>3. FlagsTyped'
  BY Zenon DEF Read, IInv, TypeOK, FlagsTyped
<1>4. RestTyped'
  BY <1>1 DEF Read, Request, RestTyped
<1>5. ReaderInv'
  BY <1>1 DEF Read, Request, IInv, ReaderInv, Reading
<1>6. Asking = {} /\ Answering = {} /\ value = 0
  BY DEF Read, IInv, FlightInv, ReaderInv
<1>7. /\ toPeer' \in Seq(Requests) /\ AtMostOne(Asking')
      /\ \A i \in 1 .. Len(toPeer') : toPeer'[i].op \in OfRead => toPeer'[i] = q
  BY <1>2, <1>b, <1>6, RequestJoins, Opcodes
<1>a. Requests' = Requests
  BY DEF Read, Requests
<1>8. Answering' = {} /\ inq' = inq /\ \A i \in 1 .. Len(inq) : inq[i].op \notin OfRead
  BY <1>6 DEF Read, Answering, Places
<1>9. FlightInv'
  BY <1>2, <1>6, <1>7, <1>a, <1>8 DEF Read, Request, IInv, FlightInv, AtMostOne
<1>10. Owing' = Owing /\ Inviting' = Inviting
  BY <1>2, <1>b, <1>6, RequestJoins, Opcodes DEF Read, Inviting
<1>11. ExchangeInv'
  BY <1>10 DEF Read, IInv, ExchangeInv
<1>12. WholeUnlessRaced' /\ NotCutByOurMtu' /\ FewRequests'
  BY <1>1 DEF Read, Request, IInv, ReaderInv, WholeUnlessRaced, NotCutByOurMtu, FewRequests,
              RestTyped
<1> QED BY <1>3, <1>4, <1>5, <1>9, <1>11, <1>12, TypeParts DEF IInv

\* The next request is sent, for what follows the value.
LEMMA AsksOn ==
  ASSUME IInv, Request("blob", value'), pc' = "blob", fut = "answer",
         value' \in 0 .. length, UNCHANGED <<length, inq>>
  PROVE  FlightInv'
<1>0. toPeer \in Seq(Requests) /\ [op |-> "blob", offset |-> value'] \in Requests
  BY DEF IInv, FlightInv, Requests
<1>1. PICK q \in Requests :
        q.op = "blob" /\ q.offset = value' /\ toPeer' = Append(toPeer, q)
  BY <1>0 DEF Request
<1>2. Asking = {} /\ Answering = {}
  BY DEF IInv, FlightInv
<1>3. /\ toPeer' \in Seq(Requests) /\ AtMostOne(Asking')
      /\ \A i \in 1 .. Len(toPeer') : toPeer'[i].op \in OfRead => toPeer'[i] = q
  BY <1>0, <1>1, <1>2, RequestJoins, Opcodes
<1>4. /\ Answering' = {} /\ inq' = inq /\ Requests' = Requests
      /\ \A i \in 1 .. Len(inq) : inq[i].op \notin OfRead
  BY <1>2 DEF Answering, Requests, Places
<1> QED BY <1>1, <1>2, <1>3, <1>4 DEF Request, IInv, FlightInv, AtMostOne

\* A request of the reader is not the response that we owe.
LEMMA AsksOwe ==
  ASSUME IInv, fut = "answer", NEW v \in 0 .. length,
         toPeer' = Append(toPeer, [op |-> "blob", offset |-> v]) \/ toPeer' = toPeer,
         UNCHANGED <<inq, mtuVars, peerRx>>
  PROVE  ExchangeInv'
<1>0. toPeer \in Seq(Requests) /\ [op |-> "blob", offset |-> v] \in Requests
  BY DEF IInv, FlightInv, Requests
<1>1. PICK q \in Requests :
        q.op = "blob" /\ (toPeer' = Append(toPeer, q) \/ toPeer' = toPeer)
  BY <1>0
<1>2. Owing' = Owing /\ Inviting' = Inviting
  BY <1>0, <1>1, RequestJoins, Opcodes DEF IInv, FlightInv, Owing, Inviting
<1> QED BY <1>2 DEF IInv, ExchangeInv

\* The reader ends: nothing is in flight, or nobody looks at it any more.
LEMMA EndsFlight ==
  ASSUME IInv, fut' = "none", pc' # "idle", UNCHANGED <<length, inq, toPeer>>
  PROVE  FlightInv'
<1>1. Asking' = Asking /\ Answering' = Answering /\ Requests' = Requests
  BY DEF Asking, Answering, Requests
<1> QED BY <1>1 DEF IInv, FlightInv

\* What the peer sent fits where the reader is.
LEMMA FitsShape ==
  ASSUME RestTyped, NEW op, NEW n \in Nat \cup {-1}, Fits(op, n)
  PROVE  /\ n = -1 \/ (value + n \in 0 .. length /\ n \in 0 .. length)
         /\ n = -1 => op = "blob"
         /\ n = 0 => value = length
         /\ n >= 0 => n >= DEFAULT_MTU - 1 \/ value + n = length
         /\ ~ raced /\ n >= 0 => n >= mtu - 1 \/ value + n = length
         /\ ~ raced /\ n = -1 => length <= mtu - 1
<1>1. PICK m \in IF raced THEN Mtus ELSE {mtu} :
        \/ n = Smaller(length - value, m - 1)
        \/ n = -1 /\ op = "blob" /\ length <= m - 1
  BY DEF Cut
<1>2. m \in Mtus /\ (~ raced => m = mtu)
  BY <1>1 DEF RestTyped
<1>3. length \in Nat /\ value \in 0 .. length /\ mtu \in Mtus
  BY DEF RestTyped
<1> QED BY <1>1, <1>2, <1>3 DEF Smaller

\* The first PDU is here.
LEMMA ResumeReadKeeps ==
  ASSUME IInv, ResumeRead
  PROVE  IInv'
<1>1. RestTyped /\ length \in Nat
  BY TypeParts DEF IInv, RestTyped
<1>2. FlagsTyped'
  BY Zenon DEF ResumeRead, IInv, TypeOK, FlagsTyped
<1>3. /\ pc = "read" /\ fut = "answer" /\ asked = 1 /\ value = 0 /\ Fits("read", chunk)
      /\ chunk \in Nat \cup {-1}
      /\ UNCHANGED <<chunk, mtuVars, length, peerRx, inq, raced>>
  BY <1>1 DEF ResumeRead, IInv, ReaderInv, FlightInv, RestTyped
<1>4. /\ chunk \in 0 .. length
      /\ ~ raced => chunk >= mtu - 1 \/ chunk = length
      /\ chunk >= DEFAULT_MTU - 1 \/ chunk = length
  BY <1>1, <1>3, FitsShape, SMTT(30) DEF RestTyped
<1>5. value' = chunk /\ snapshot' = mtu /\ Continue(chunk, mtu)
  BY <1>4 DEF ResumeRead
<1>6. CASE MoreMayFollow(chunk, mtu)
  <2>1. /\ pc' = "blob" /\ Request("blob", chunk) /\ fut' = "pending" /\ asked' = 2
        /\ chunk >= mtu - 1
    BY <1>3, <1>5, <1>6 DEF Continue, MoreMayFollow, Request
  <2>2. RestTyped'
    BY <1>1, <1>3, <1>4, <1>5, <2>1 DEF RestTyped
  <2>3. ReaderInv'
    BY <1>1, <1>3, <1>4, <1>5, <2>1 DEF RestTyped, IInv, ReaderInv, Reading
  <2>4. FlightInv'
    BY <1>3, <1>4, <1>5, <2>1, AsksOn
  <2>5. ExchangeInv'
    BY <1>3, <1>4, <2>1, AsksOwe DEF Request
  <2>6. WholeUnlessRaced' /\ NotCutByOurMtu' /\ FewRequests'
    BY <1>1, <1>3, <2>1 DEF WholeUnlessRaced, NotCutByOurMtu, FewRequests
  <2> QED BY <1>2, <2>2, <2>3, <2>4, <2>5, <2>6, TypeParts DEF IInv
<1>7. CASE ~ MoreMayFollow(chunk, mtu)
  <2>1. /\ pc' = "done" /\ fut' = "none" /\ UNCHANGED <<asked, toPeer>>
        /\ ~ (chunk >= mtu - 1)
    BY <1>5, <1>7 DEF Continue, MoreMayFollow
  <2>2. RestTyped'
    BY <1>1, <1>3, <1>4, <1>5, <2>1 DEF RestTyped
  <2>3. ReaderInv'
    BY <2>1 DEF ReaderInv, Reading
  <2>4. FlightInv'
    BY <1>3, <2>1, EndsFlight
  <2>5. ExchangeInv'
    BY <1>3, <1>4, <2>1, AsksOwe
  <2>6. WholeUnlessRaced' /\ NotCutByOurMtu' /\ FewRequests'
    BY <1>1, <1>3, <1>4, <1>5, <2>1
       DEF RestTyped, WholeUnlessRaced, NotCutByOurMtu, FewRequests
  <2> QED BY <1>2, <2>2, <2>3, <2>4, <2>5, <2>6, TypeParts DEF IInv
<1> QED BY <1>6, <1>7

\* The next PDU is here: what it brings is added, or it ends the value.
LEMMA ResumeBlobKeeps ==
  ASSUME IInv, ResumeBlob
  PROVE  IInv'
<1>1. RestTyped /\ length \in Nat
  BY TypeParts DEF IInv, RestTyped
<1>2. FlagsTyped'
  BY Zenon DEF ResumeBlob, IInv, TypeOK, FlagsTyped
<1>3. /\ pc = "blob" /\ fut = "answer" /\ Fits("blob", chunk)
      /\ chunk \in Nat \cup {-1} /\ snapshot \in Mtus /\ value >= snapshot - 1
      /\ asked > 1 /\ asked \in Nat /\ value \in 0 .. length
      /\ UNCHANGED <<chunk, snapshot, mtuVars, length, peerRx, inq, raced>>
  BY <1>1 DEF ResumeBlob, IInv, ReaderInv, FlightInv, RestTyped
<1>4. /\ ~ raced => snapshot = mtu
      /\ \/ 22 * (asked - 1) <= value
         \/ value = length /\ 22 * (asked - 2) <= value
  BY <1>1, <1>3 DEF IInv, ReaderInv, Reading
<1>5. /\ chunk = -1 \/ (value + chunk \in 0 .. length /\ chunk \in 0 .. length)
      /\ chunk = 0 => value = length
      /\ chunk >= 0 => chunk >= DEFAULT_MTU - 1 \/ value + chunk = length
      /\ ~ raced /\ chunk = -1 => length <= mtu - 1
  BY <1>1, <1>3, FitsShape
<1>6. CASE BlobEnds(chunk)
  <2>1. /\ pc' = "done" /\ fut' = "none" /\ UNCHANGED <<value, asked, toPeer>>
        /\ chunk \in {-1, 0}
    BY <1>6 DEF ResumeBlob, BlobEnds
  <2>2. RestTyped'
    BY <1>1, <1>3, <2>1 DEF RestTyped
  <2>3. ReaderInv'
    BY <2>1 DEF ReaderInv, Reading
  <2>4. FlightInv'
    BY <1>3, <2>1, EndsFlight
  <2>5. ExchangeInv'
    BY <1>3, <2>1, AsksOwe
  <2>6. WholeUnlessRaced'
    BY <1>1, <1>3, <1>4, <1>5, <2>1 DEF WholeUnlessRaced
  <2>7. NotCutByOurMtu' /\ FewRequests'
    BY <1>3, <1>5, <2>1 DEF NotCutByOurMtu, FewRequests, IInv
  <2> QED BY <1>2, <2>2, <2>3, <2>4, <2>5, <2>6, <2>7, TypeParts DEF IInv
<1>7. CASE ~ BlobEnds(chunk)
  <2>1. /\ chunk \in Nat \ {0} /\ Larger(chunk, 0) = chunk
        /\ value + chunk \in 0 .. length
    BY <1>3, <1>5, <1>7 DEF BlobEnds, Larger
  <2>2. value' = value + chunk /\ Continue(value + chunk, snapshot)
    BY <1>7, <2>1 DEF ResumeBlob, LoopMtu
  <2>3. MoreMayFollow(value + chunk, snapshot)
    BY <1>3, <2>1 DEF MoreMayFollow
  <2>4. /\ pc' = "blob" /\ Request("blob", value') /\ fut' = "pending" /\ asked' = asked + 1
        /\ toPeer' = Append(toPeer, [op |-> "blob", offset |-> value + chunk])
    BY <2>2, <2>3 DEF Continue, Request
  <2>5. RestTyped'
    BY <1>1, <1>3, <2>1, <2>2, <2>4 DEF RestTyped
  <2>6. value # length
    BY <1>3, <2>1
  <2>7. \/ 22 * (asked' - 1) <= value'
        \/ value' = length /\ 22 * (asked' - 2) <= value'
    BY <1>3, <1>4, <1>5, <2>1, <2>2, <2>4, <2>6
  <2>8. ReaderInv'
    BY <1>1, <1>3, <1>4, <2>1, <2>2, <2>4, <2>7 DEF IInv, ReaderInv, Reading
  <2>9. FlightInv'
    BY <1>3, <2>1, <2>2, <2>4, AsksOn
  <2>10. ExchangeInv'
    BY <1>3, <2>1, <2>4, AsksOwe
  <2>11. WholeUnlessRaced' /\ NotCutByOurMtu'
    BY <2>4 DEF WholeUnlessRaced, NotCutByOurMtu
  <2>12. FewRequests'
    BY <1>1, <1>3, <2>1, <2>2, <2>4, <2>7 DEF FewRequests
  <2> QED BY <1>2, <2>5, <2>8, <2>9, <2>10, <2>11, <2>12, TypeParts DEF IInv
<1> QED BY <1>6, <1>7

\* The read fails; what is in flight is nobody's.
LEMMA GiveUpKeeps ==
  ASSUME IInv, GiveUp
  PROVE  IInv'
<1>1. /\ pc' = "failed" /\ fut' = "none"
      /\ UNCHANGED <<chunk, value, snapshot, asked, mtuVars, length, peerRx, toPeer, inq, raced>>
  BY DEF GiveUp
<1>2. FlagsTyped'
  BY <1>1, Zenon DEF IInv, TypeOK, FlagsTyped
<1>3. RestTyped'
  BY <1>1, TypeParts DEF IInv, RestTyped
<1>4. ReaderInv'
  BY <1>1 DEF ReaderInv, Reading
<1>5. FlightInv'
  BY <1>1, EndsFlight
<1>6. ExchangeInv'
  BY <1>1 DEF IInv, ExchangeInv, Inviting, Owing
<1>7. WholeUnlessRaced' /\ NotCutByOurMtu' /\ FewRequests'
  BY <1>1 DEF IInv, WholeUnlessRaced, NotCutByOurMtu, FewRequests
<1> QED BY <1>2, <1>3, <1>4, <1>5, <1>6, <1>7, TypeParts DEF IInv

-----------------------------------------------------------------------------
(* _on_data and the response it owes.                                      *)

\* A response reaches the request that awaits it, or nobody.
LEMMA OnResponseKeeps ==
  ASSUME IInv, OnResponse
  PROVE  IInv'
<1>1. RestTyped /\ inq \in Seq(Replies) /\ toPeer \in Seq(Requests)
  BY TypeParts DEF IInv, FlightInv
<1>2. /\ inq # <<>> /\ inq' = Tail(inq)
      /\ UNCHANGED <<pc, value, snapshot, asked, mtuVars, length, peerRx, toPeer, raced>>
  BY DEF OnResponse
<1>3. /\ Head(inq) \in Replies /\ Head(inq) = inq[1] /\ 1 \in 1 .. Len(inq)
      /\ Head(inq).op \in OfRead /\ Head(inq).op \notin OfMtu
      /\ Head(inq).len \in Nat \cup {-1}
  <2>1. Head(inq) \in Replies /\ Head(inq) = inq[1] /\ 1 \in 1 .. Len(inq)
    BY <1>1, <1>2, Taken
  <2> QED BY <2>1, Opcodes DEF OnResponse, Replies
<1>4. FlagsTyped'
  BY <1>2, Zenon DEF IInv, TypeOK, FlagsTyped
<1>5. RestTyped'
  BY <1>1, <1>2, <1>3 DEF OnResponse, RestTyped
<1>6. (fut' # "none") <=> (fut # "none")
  BY DEF OnResponse
<1>7. ReaderInv'
  BY <1>2, <1>6 DEF IInv, ReaderInv, Reading
<1>8. Answering # {} /\ Answering' = {} /\ Asking' = {}
  <2>1. AtMostOne(Places(inq, OfRead))
    BY DEF IInv, FlightInv, Answering
  <2>2. Places(inq, OfRead) # {} /\ Places(Tail(inq), OfRead) = {}
    BY <1>1, <1>2, <1>3, <2>1, TakesOnly
  <2>3. Asking' = Asking
    BY <1>2 DEF Asking
  <2> QED BY <1>2, <2>2, <2>3 DEF IInv, FlightInv, Answering
<1>9. /\ fut # "answer" /\ pc # "idle"
      /\ fut = "pending" => Fits(pc, Head(inq).len)
  BY <1>3, <1>8 DEF IInv, FlightInv
<1>10. FlightInv'
  <2>1. inq' \in Seq(Replies) /\ Requests' = Requests
    BY <1>1, <1>2, Taken DEF Requests
  <2>2. /\ \A i \in 1 .. Len(inq') : inq'[i].op \notin OfRead
        /\ \A i \in 1 .. Len(toPeer') : toPeer'[i].op \notin OfRead
    BY <1>8 DEF Answering, Asking, Places
  <2>3. fut' = "answer" => Fits(pc, chunk')
    BY <1>9 DEF OnResponse
  <2> QED BY <1>1, <1>2, <1>8, <1>9, <2>1, <2>2, <2>3 DEF FlightInv, AtMostOne
<1>11. ExchangeInv'
  <2>1. AtMostOne(Places(inq, OfMtu))
    BY DEF IInv, ExchangeInv, Inviting
  <2>2. /\ AtMostOne(Places(inq', OfMtu))
        /\ Places(inq, OfMtu) = {} <=> Places(inq', OfMtu) = {}
    BY <1>1, <1>2, <1>3, <2>1, TakesOnly, TakesOther
  <2>3. AtMostOne(Inviting') /\ (Inviting = {} <=> Inviting' = {}) /\ Owing' = Owing
    BY <1>2, <2>2 DEF Inviting, Owing
  <2> QED BY <1>2, <2>3 DEF IInv, ExchangeInv
<1>12. WholeUnlessRaced' /\ NotCutByOurMtu' /\ FewRequests'
  <2>1. pc = "done" => fut = "none"
    BY DEF IInv, ReaderInv, Reading
  <2> QED BY <1>2, <2>1 DEF OnResponse, IInv, WholeUnlessRaced, NotCutByOurMtu, FewRequests
<1> QED BY <1>4, <1>5, <1>7, <1>10, <1>11, <1>12, TypeParts DEF IInv

\* What a step says of the read that leaves the reader alone and forgets no race.
LEMMA ReaderStands ==
  ASSUME IInv, UNCHANGED <<readVars, length>>, raced => raced'
  PROVE  /\ (Reading' <=> Reading) /\ Requests' = Requests
         /\ WholeUnlessRaced' /\ NotCutByOurMtu' /\ FewRequests'
  BY DEF IInv, Reading, Requests, WholeUnlessRaced, NotCutByOurMtu, FewRequests

\* The peer asks for an exchange: we adopt its MTU and owe a response. If a read
\* is going on, it counts as raced.
LEMMA OnMtuReqKeeps ==
  ASSUME IInv, OnMtuReq
  PROVE  IInv'
<1>1. RestTyped /\ inq \in Seq(Replies) /\ toPeer \in Seq(Requests)
  BY TypeParts DEF IInv, FlightInv
<1>2. /\ inq # <<>> /\ inq' = Tail(inq) /\ Head(inq).op = "mtu_req"
      /\ mtu' = Negotiate(peerRx) /\ mtuRspDue' = mtuRspDue + 1
      /\ UNCHANGED <<readVars, peerMtu, exchanging, mtuReqs, length, peerRx, toPeer, raced>>
  BY DEF OnMtuReq
<1>3. Head(inq).op \in OfMtu /\ Head(inq).op \notin OfRead
  BY <1>2, Opcodes
<1>4. Inviting # {} /\ Inviting' = {} /\ Owing' = Owing
  <2>1. AtMostOne(Places(inq, OfMtu))
    BY DEF IInv, ExchangeInv, Inviting
  <2>2. Places(inq, OfMtu) # {} /\ Places(Tail(inq), OfMtu) = {}
    BY <1>1, <1>2, <1>3, <2>1, TakesOnly
  <2> QED BY <1>2, <2>2 DEF Inviting, Owing
<1>5. mtuRspDue = 0 /\ Owing = {} /\ (Reading => raced) /\ exchanging
  BY <1>1, <1>4 DEF IInv, ExchangeInv, ReaderInv, RestTyped
<1>6. FlagsTyped'
  BY <1>2, Zenon DEF IInv, TypeOK, FlagsTyped
<1>7. RestTyped'
  <2>1. peerRx \in Nat
    BY <1>1 DEF RestTyped
  <2>2. mtu' \in Mtus
    BY <1>2, <2>1, NegotiateRange
  <2> QED BY <1>1, <1>2, <1>5, <2>2 DEF RestTyped
<1>8. ReaderInv'
  BY <1>2, <1>5 DEF IInv, ReaderInv, Reading
<1>9. FlightInv'
  <2>1. inq' \in Seq(Replies) /\ Requests' = Requests
    BY <1>1, <1>2, Taken DEF Requests
  <2>2. /\ AtMostOne(Answering') /\ (Answering = {} => Answering' = {}) /\ Asking' = Asking
    <3>1. AtMostOne(Places(inq, OfRead))
      BY DEF IInv, FlightInv, Answering
    <3>2. /\ AtMostOne(Places(Tail(inq), OfRead))
          /\ Places(inq, OfRead) = {} => Places(Tail(inq), OfRead) = {}
      BY <1>1, <1>2, <3>1, TakesOnly
    <3> QED BY <1>2, <3>2 DEF Answering, Asking
  <2>3. \A i \in 1 .. Len(inq') : i + 1 \in 1 .. Len(inq) /\ inq'[i] = inq[i + 1]
    BY <1>1, <1>2, Taken
  <2>4. fut # "none" => raced
    BY <1>5 DEF IInv, ReaderInv
  <2> QED BY <1>1, <1>2, <2>1, <2>2, <2>3, <2>4 DEF IInv, FlightInv
<1>10. ExchangeInv'
  BY <1>2, <1>4, <1>5 DEF ExchangeInv, AtMostOne
<1>11. WholeUnlessRaced' /\ NotCutByOurMtu' /\ FewRequests'
  BY <1>2, ReaderStands
<1> QED BY <1>6, <1>7, <1>8, <1>9, <1>10, <1>11, TypeParts DEF IInv

\* Our response is sent.
LEMMA SendMtuRspKeeps ==
  ASSUME IInv, SendMtuRsp
  PROVE  IInv'
<1>1. RestTyped /\ inq \in Seq(Replies) /\ toPeer \in Seq(Requests)
  BY TypeParts DEF IInv, FlightInv
<1>2. PICK q \in Requests : q.op = "mtu_rsp" /\ toPeer' = Append(toPeer, q)
  <2>1. [op |-> "mtu_rsp", offset |-> 0] \in Requests
    BY <1>1 DEF Requests, RestTyped
  <2> QED BY <2>1 DEF SendMtuRsp
<1>3. /\ mtuRspDue = 1 /\ mtuRspDue' = 0
      /\ UNCHANGED <<readVars, mtu, peerMtu, exchanging, mtuReqs, length, peerRx, inq, raced>>
  BY <1>1 DEF SendMtuRsp, RestTyped
<1>4. q.op \in OfMtu /\ q.op \notin OfRead
  BY <1>2, Opcodes
<1>5. Owing = {} /\ Inviting = {} /\ exchanging /\ mtu = Negotiate(peerRx)
  BY <1>3 DEF IInv, ExchangeInv
<1>6. AtMostOne(Owing') /\ Inviting' = {} /\ Asking' = Asking /\ Answering' = Answering
  <2>1. AtMostOne(Places(Append(toPeer, q), OfMtu))
    BY <1>1, <1>5, JoinsFirst DEF Owing
  <2>2. Places(Append(toPeer, q), OfRead) = Places(toPeer, OfRead)
    BY <1>1, <1>4, JoinsOthers
  <2> QED BY <1>2, <1>3, <1>5, <2>1, <2>2 DEF Owing, Inviting, Asking, Answering
<1>7. FlagsTyped'
  BY <1>3, Zenon DEF IInv, TypeOK, FlagsTyped
<1>8. RestTyped'
  BY <1>1, <1>3 DEF RestTyped
<1>9. ReaderInv'
  BY <1>3 DEF IInv, ReaderInv, Reading
<1>10. FlightInv'
  <2>1. toPeer' \in Seq(Requests) /\ Requests' = Requests
    BY <1>1, <1>2, <1>3, Appended DEF Requests
  <2>2. \A i \in 1 .. Len(toPeer') :
          toPeer'[i] = q \/ (i \in 1 .. Len(toPeer) /\ toPeer'[i] = toPeer[i])
    BY <1>1, <1>2, Appended
  <2> QED BY <1>3, <1>4, <1>6, <2>1, <2>2 DEF IInv, FlightInv
<1>11. ExchangeInv'
  BY <1>3, <1>5, <1>6 DEF IInv, ExchangeInv
<1>12. WholeUnlessRaced' /\ NotCutByOurMtu' /\ FewRequests'
  BY <1>3, ReaderStands
<1> QED BY <1>7, <1>8, <1>9, <1>10, <1>11, <1>12, TypeParts DEF IInv

-----------------------------------------------------------------------------
(* The peer.                                                               *)

\* The peer starts an exchange. A read that is going on counts as raced.
LEMMA PeerMtuReqKeeps ==
  ASSUME IInv, PeerMtuReq
  PROVE  IInv'
<1>1. RestTyped /\ inq \in Seq(Replies) /\ toPeer \in Seq(Requests)
  BY TypeParts DEF IInv, FlightInv
<1>2. PICK p \in Replies : p.op = "mtu_req" /\ inq' = Append(inq, p)
  <2>1. [op |-> "mtu_req", len |-> 0] \in Replies
    BY DEF Replies
  <2> QED BY <2>1 DEF PeerMtuReq
<1>3. /\ mtuReqs < MaxPeerMtuReq /\ ~ exchanging /\ mtuReqs' = mtuReqs + 1 /\ exchanging' = TRUE
      /\ raced' = (raced \/ Reading)
      /\ UNCHANGED <<readVars, mtu, mtuRspDue, peerMtu, length, peerRx, toPeer>>
  BY DEF PeerMtuReq
<1>4. p.op \in OfMtu /\ p.op \notin OfRead
  BY <1>2, Opcodes
<1>5. Owing = {} /\ Inviting = {} /\ mtuRspDue = 0 /\ mtu = peerMtu
  BY <1>3 DEF IInv, ExchangeInv
<1>6. AtMostOne(Inviting') /\ Owing' = {} /\ Asking' = Asking /\ Answering' = Answering
  <2>1. AtMostOne(Places(Append(inq, p), OfMtu))
    BY <1>1, <1>5, JoinsFirst DEF Inviting
  <2>2. Places(Append(inq, p), OfRead) = Places(inq, OfRead)
    BY <1>1, <1>4, JoinsOthers
  <2> QED BY <1>2, <1>3, <1>5, <2>1, <2>2 DEF Owing, Inviting, Asking, Answering
<1>7. FlagsTyped'
  <2>1. exchanging' \in BOOLEAN /\ raced' \in BOOLEAN
    BY <1>3, Zenon DEF IInv, TypeOK
  <2> QED BY <2>1, Zenon DEF FlagsTyped
<1>8. RestTyped'
  BY <1>1, <1>3 DEF RestTyped
<1>9. ReaderInv'
  BY <1>3 DEF IInv, ReaderInv, Reading
<1>10. FlightInv'
  <2>1. inq' \in Seq(Replies) /\ Requests' = Requests
    BY <1>1, <1>2, <1>3, Appended DEF Requests
  <2>2. \A i \in 1 .. Len(inq') :
          inq'[i] = p \/ (i \in 1 .. Len(inq) /\ inq'[i] = inq[i])
    BY <1>1, <1>2, Appended
  <2>3. ASSUME NEW op, NEW n, Fits(op, n), fut # "none"
        PROVE  Fits(op, n)'
    <3>1. raced'
      BY <1>3, <2>3 DEF IInv, ReaderInv
    <3>2. mtu \in Mtus
      BY <1>1 DEF RestTyped
    <3> QED BY <1>3, <2>3, <3>1, <3>2 DEF Cut
  <2>4. fut = "answer" => Fits(pc, chunk)'
    BY <1>3, <2>3 DEF IInv, FlightInv
  <2>5. fut = "pending" =>
          \A i \in 1 .. Len(inq') : inq'[i].op \in OfRead =>
            inq'[i].op = pc /\ Cut(pc, inq'[i].len, value', length', IF raced' THEN Mtus ELSE {mtu'})
    BY <1>4, <2>2, <2>3 DEF IInv, FlightInv
  <2> QED BY <1>3, <1>6, <2>1, <2>4, <2>5 DEF IInv, FlightInv
<1>11. ExchangeInv'
  BY <1>3, <1>5, <1>6 DEF IInv, ExchangeInv
<1>12. WholeUnlessRaced' /\ NotCutByOurMtu' /\ FewRequests'
  BY <1>3, ReaderStands
<1> QED BY <1>7, <1>8, <1>9, <1>10, <1>11, <1>12, TypeParts DEF IInv

\* The peer reads our response: the exchange is over and both sides agree.
LEMMA PeerSwitchesKeeps ==
  ASSUME IInv, PeerSwitches
  PROVE  IInv'
<1>1. RestTyped /\ inq \in Seq(Replies) /\ toPeer \in Seq(Requests)
  BY TypeParts DEF IInv, FlightInv
<1>2. /\ toPeer # <<>> /\ toPeer' = Tail(toPeer) /\ Head(toPeer).op = "mtu_rsp"
      /\ peerMtu' = Negotiate(peerRx) /\ exchanging' = FALSE
      /\ UNCHANGED <<readVars, mtu, mtuRspDue, mtuReqs, length, peerRx, inq, raced>>
  BY DEF PeerSwitches
<1>3. Head(toPeer).op \in OfMtu /\ Head(toPeer).op \notin OfRead
  BY <1>2, Opcodes
<1>4. Owing # {} /\ Owing' = {} /\ Inviting' = Inviting
  <2>1. AtMostOne(Places(toPeer, OfMtu))
    BY DEF IInv, ExchangeInv, Owing
  <2>2. Places(toPeer, OfMtu) # {} /\ Places(Tail(toPeer), OfMtu) = {}
    BY <1>1, <1>2, <1>3, <2>1, TakesOnly
  <2> QED BY <1>2, <2>2 DEF Inviting, Owing
<1>5. mtuRspDue = 0 /\ Inviting = {} /\ mtu = Negotiate(peerRx)
  BY <1>4 DEF IInv, ExchangeInv
<1>6. FlagsTyped'
  BY <1>2, Zenon DEF IInv, TypeOK, FlagsTyped
<1>7. RestTyped'
  BY <1>1, <1>2, <1>5 DEF RestTyped
<1>8. ReaderInv'
  BY <1>2 DEF IInv, ReaderInv, Reading
<1>9. FlightInv'
  <2>1. toPeer' \in Seq(Requests) /\ Requests' = Requests
    BY <1>1, <1>2, Taken DEF Requests
  <2>2. AtMostOne(Asking') /\ (Asking = {} => Asking' = {}) /\ Answering' = Answering
    <3>1. AtMostOne(Places(toPeer, OfRead))
      BY DEF IInv, FlightInv, Asking
    <3>2. /\ AtMostOne(Places(Tail(toPeer), OfRead))
          /\ Places(toPeer, OfRead) = {} => Places(Tail(toPeer), OfRead) = {}
      BY <1>1, <1>2, <3>1, TakesOnly
    <3> QED BY <1>2, <3>2 DEF Answering, Asking
  <2>3. \A i \in 1 .. Len(toPeer') : i + 1 \in 1 .. Len(toPeer) /\ toPeer'[i] = toPeer[i + 1]
    BY <1>1, <1>2, Taken
  <2>4. fut' = "pending" => \A i \in 1 .. Len(toPeer') : toPeer'[i].op \in OfRead =>
                              toPeer'[i].op = pc' /\ toPeer'[i].offset = value'
    BY <1>2, <2>3 DEF IInv, FlightInv
  <2>5. /\ inq' \in Seq(Replies) /\ AtMostOne(Answering') /\ (Asking' = {} \/ Answering' = {})
        /\ fut' = "answer" \/ pc' = "idle" => Asking' = {} /\ Answering' = {}
    BY <1>2, <2>2 DEF IInv, FlightInv, Replies
  <2>6. /\ fut' = "pending" => \A i \in 1 .. Len(inq') : inq'[i].op \in OfRead =>
                                 inq'[i].op = pc' /\ Fits(pc, inq[i].len)'
        /\ fut' = "answer" => Fits(pc, chunk)'
    BY <1>2 DEF IInv, FlightInv
  <2> QED BY <2>1, <2>2, <2>4, <2>5, <2>6 DEF FlightInv
<1>10. ExchangeInv'
  BY <1>2, <1>4, <1>5 DEF IInv, ExchangeInv, AtMostOne
<1>11. WholeUnlessRaced' /\ NotCutByOurMtu' /\ FewRequests'
  BY <1>2, ReaderStands
<1> QED BY <1>6, <1>7, <1>8, <1>9, <1>10, <1>11, TypeParts DEF IInv

\* The peer answers with what its MTU holds, or calls the attribute "not long".
LEMMA PeerAnswersKeeps ==
  ASSUME IInv, PeerAnswers
  PROVE  IInv'
<1>1. RestTyped /\ inq \in Seq(Replies) /\ toPeer \in Seq(Requests) /\ length \in Nat
  BY TypeParts DEF IInv, FlightInv, RestTyped
<1>2. /\ toPeer # <<>> /\ toPeer' = Tail(toPeer) /\ Head(toPeer).op # "mtu_rsp"
      /\ UNCHANGED <<readVars, mtuVars, length, peerRx, raced>>
  BY DEF PeerAnswers
<1> DEFINE q == Head(toPeer)
<1>3. /\ q \in Requests /\ q = toPeer[1] /\ 1 \in 1 .. Len(toPeer)
      /\ q.op \in OfRead /\ q.op \notin OfMtu /\ q.op \in {"read", "blob"}
      /\ q.offset \in 0 .. length
  <2>1. q \in Requests /\ q = toPeer[1] /\ 1 \in 1 .. Len(toPeer)
    BY <1>1, <1>2, Taken
  <2> QED BY <1>2, <2>1, Opcodes DEF Requests
<1>4. PICK n : /\ \/ n = Smaller(length - q.offset, peerMtu - 1)
                  \/ n = -1 /\ q.op = "blob" /\ length <= peerMtu - 1
               /\ inq' = Append(inq, [op |-> q.op, len |-> n])
  BY DEF PeerAnswers
<1>5. n \in Nat \cup {-1}
  <2>1. length - q.offset \in Nat /\ peerMtu - 1 \in Nat
    BY <1>1, <1>3 DEF RestTyped
  <2>2. Smaller(length - q.offset, peerMtu - 1) \in Nat
    BY <2>1 DEF Smaller
  <2> QED BY <1>4, <2>2
<1>6. PICK p \in Replies : p.op = q.op /\ p.len = n /\ inq' = Append(inq, p)
  <2>1. [op |-> q.op, len |-> n] \in Replies
    BY <1>3, <1>5 DEF Replies
  <2> QED BY <1>4, <2>1
<1>7. Asking # {} /\ Asking' = {} /\ Answering = {}
  <2>1. AtMostOne(Places(toPeer, OfRead))
    BY DEF IInv, FlightInv, Asking
  <2>2. Places(toPeer, OfRead) # {} /\ Places(Tail(toPeer), OfRead) = {}
    BY <1>1, <1>2, <1>3, <2>1, TakesOnly
  <2> QED BY <1>2, <2>2 DEF IInv, FlightInv, Asking
<1>8. /\ AtMostOne(Answering') /\ Inviting' = Inviting
      /\ \A i \in 1 .. Len(inq') : inq'[i].op \in OfRead => inq'[i] = p
  <2>1. /\ AtMostOne(Places(Append(inq, p), OfRead))
        /\ \A i \in 1 .. Len(Append(inq, p)) : Append(inq, p)[i].op \in OfRead => Append(inq, p)[i] = p
    BY <1>1, <1>7, JoinsFirst DEF Answering
  <2>2. Places(Append(inq, p), OfMtu) = Places(inq, OfMtu)
    BY <1>1, <1>3, <1>6, JoinsOthers
  <2> QED BY <1>6, <2>1, <2>2 DEF Answering, Inviting
<1>9. AtMostOne(Owing') /\ (Owing = {} <=> Owing' = {})
  <2>1. AtMostOne(Places(toPeer, OfMtu))
    BY DEF IInv, ExchangeInv, Owing
  <2>2. /\ AtMostOne(Places(Tail(toPeer), OfMtu))
        /\ Places(toPeer, OfMtu) = {} <=> Places(Tail(toPeer), OfMtu) = {}
    BY <1>1, <1>2, <1>3, <2>1, TakesOnly, TakesOther
  <2> QED BY <1>2, <2>2 DEF Owing
<1>10. FlagsTyped'
  BY <1>2, Zenon DEF IInv, TypeOK, FlagsTyped
<1>11. RestTyped' /\ ReaderInv'
  BY <1>1, <1>2 DEF RestTyped, IInv, ReaderInv, Reading
<1>12. FlightInv'
  <2>1. toPeer' \in Seq(Requests) /\ Requests' = Requests /\ inq' \in Seq(Replies)
    BY <1>1, <1>2, <1>6, Taken, Appended DEF Requests
  <2>2. fut # "answer" /\ pc # "idle"
    BY <1>7 DEF IInv, FlightInv
  <2>3. \A i \in 1 .. Len(toPeer') : toPeer'[i].op \notin OfRead
    BY <1>7 DEF Asking, Places
  <2>4. fut = "pending" => p.op = pc /\ Fits(pc, p.len)
    <3>1. SUFFICES ASSUME fut = "pending"
                   PROVE  p.op = pc /\ Fits(pc, p.len)
      OBVIOUS
    <3>2. q.op = pc /\ q.offset = value
      BY <1>3, <3>1 DEF IInv, FlightInv
    <3>3. peerMtu \in IF raced THEN Mtus ELSE {mtu}
      <4>1. CASE raced
        BY <1>1, <4>1 DEF RestTyped
      <4>2. CASE ~ raced
        BY <3>1, <4>2 DEF IInv, ReaderInv, ExchangeInv
      <4> QED BY <4>1, <4>2
    <3> QED BY <1>4, <1>6, <3>2, <3>3 DEF Cut
  <2> QED BY <1>2, <1>7, <1>8, <2>1, <2>2, <2>3, <2>4 DEF FlightInv, AtMostOne
<1>13. ExchangeInv'
  BY <1>2, <1>8, <1>9 DEF IInv, ExchangeInv
<1>14. WholeUnlessRaced' /\ NotCutByOurMtu' /\ FewRequests'
  BY <1>2, ReaderStands
<1> QED BY <1>10, <1>11, <1>12, <1>13, <1>14, TypeParts DEF IInv

-----------------------------------------------------------------------------
\* Nothing has been asked, and the two sides agree on the MTU.
LEMMA InitKeeps ==
  ASSUME Init
  PROVE  IInv
<1>1. FlagsTyped
  BY Zenon DEF Init, FlagsTyped
<1>2. RestTyped
  <2>1. Negotiate(peerRx) \in Mtus /\ length \in Nat
    BY NegotiateRange DEF Init
  <2>2. (mtu = DEFAULT_MTU \/ mtu = Negotiate(peerRx)) /\ peerMtu = mtu
    BY DEF Init
  <2>3. mtu \in Mtus /\ peerMtu \in Mtus
    BY <2>1, <2>2
  <2> QED BY <2>1, <2>3 DEF Init, RestTyped
<1>3. Asking = {} /\ Answering = {} /\ Inviting = {} /\ Owing = {}
  BY DEF Init, Asking, Answering, Inviting, Owing, Places
<1>4. ReaderInv /\ ExchangeInv
  BY <1>3 DEF Init, ReaderInv, Reading, ExchangeInv, AtMostOne
<1>5. FlightInv
  <2>1. toPeer \in Seq(Requests) /\ inq \in Seq(Replies)
    BY EmptySeq DEF Init
  <2> QED BY <1>3, <2>1 DEF Init, FlightInv, AtMostOne
<1>6. WholeUnlessRaced /\ NotCutByOurMtu /\ FewRequests
  BY <1>2 DEF Init, WholeUnlessRaced, NotCutByOurMtu, FewRequests, RestTyped
<1> QED BY <1>1, <1>2, <1>4, <1>5, <1>6, TypeParts DEF IInv

\* A step that changes nothing.
LEMMA StutterKeeps ==
  ASSUME IInv, UNCHANGED vars
  PROVE  IInv'
<1>1. /\ UNCHANGED <<readVars, mtuVars, length, peerRx, toPeer, inq, raced>>
  BY DEF vars
<1>2. FlagsTyped'
  BY <1>1, Zenon DEF IInv, TypeOK, FlagsTyped
<1>3. RestTyped'
  BY <1>1, TypeParts DEF IInv, RestTyped
<1>4. ReaderInv' /\ ExchangeInv'
  BY <1>1 DEF IInv, ReaderInv, Reading, ExchangeInv, Owing, Inviting
<1>5. FlightInv'
  BY <1>1 DEF IInv, FlightInv, Asking, Answering, Requests
<1>6. WholeUnlessRaced' /\ NotCutByOurMtu' /\ FewRequests'
  BY <1>1, ReaderStands
<1> QED BY <1>2, <1>3, <1>4, <1>5, <1>6, TypeParts DEF IInv

\* The strengthening is inductive, for any attributes, peer MTUs and exchanges.
THEOREM Invariance == Spec => []IInv
<1>1. Init => IInv
  BY InitKeeps
<1>2. IInv /\ [Next]_vars => IInv'
  BY ReadKeeps, ResumeReadKeeps, ResumeBlobKeeps, GiveUpKeeps, OnResponseKeeps, OnMtuReqKeeps,
     SendMtuRspKeeps, PeerMtuReqKeeps, PeerSwitchesKeeps, PeerAnswersKeeps, StutterKeeps
     DEF Next, Reader, Peer
<1> QED BY <1>1, <1>2, PTL DEF Spec

\* A read that no MTU exchange overlaps returns the whole attribute.
THEOREM ReadsWholeUnlessRaced == Spec => []WholeUnlessRaced
<1>1. IInv => WholeUnlessRaced
  BY DEF IInv
<1> QED BY <1>1, Invariance, PTL

\* A read that continues is not cut short by our own MTU changing under it.
THEOREM OurMtuNeverCuts == Spec => []NotCutByOurMtu
<1>1. IInv => NotCutByOurMtu
  BY DEF IInv
<1> QED BY <1>1, Invariance, PTL

\* A read sends no more requests than PDUs of the smallest MTU need.
THEOREM RequestsAreFew == Spec => []FewRequests
<1>1. IInv => FewRequests
  BY DEF IInv
<1> QED BY <1>1, Invariance, PTL
====
