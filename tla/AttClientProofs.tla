---- MODULE AttClientProofs ----
(***************************************************************************)
(* AttClient's safety properties hold for every set of requests, every     *)
(* assignment of opcodes to them and every bound. The argument is IInv of  *)
(* AttClient: the lock's holder is the only request with anything in       *)
(* flight, except for requests that count as unsettled. One lemma per      *)
(* action shows that it keeps IInv.                                        *)
(*                                                                         *)
(* On top of it, AttClient implements AttBearer: the holder and its        *)
(* waiters are the bearer's queue, and each step of the client is one of   *)
(* the bearer's, or none, under the mapping of AttClient.                  *)
(***************************************************************************)
EXTENDS AttClient, SequenceTheorems, TLAPS

USE NoReqAssumption, AsidesAssumption, ExpectsAssumption, PeerMtusAssumption, BoundsAssumption
USE DEF lockVars, mtuVars, sendVars, linkVars, peerVars, Finish, Release, Drop, Hold,
        Nobody, Senders, Pdus, NoPdu, Outcomes, Responses, NoOpcode,
        ERROR_RSP, EXCHANGE_MTU_REQ, EXCHANGE_MTU_RSP

-----------------------------------------------------------------------------
(* Sequences and MTUs.                                                     *)

\* Whatever MTU a peer announces, what is negotiated lies between the two limits.
LEMMA NegotiateRange ==
  ASSUME NEW m \in Nat
  PROVE  Negotiate(m) \in DEFAULT_MTU .. PREFERRED_MTU
  BY DEF Negotiate, Larger, Smaller, DEFAULT_MTU, PREFERRED_MTU

\* The first element of a sequence, and where its tail's elements were.
LEMMA HeadTail ==
  ASSUME NEW S, NEW s \in Seq(S), s # <<>>
  PROVE  /\ Head(s) = s[1] /\ Head(s) \in S /\ Tail(s) \in Seq(S)
         /\ 1 \in 1 .. Len(s) /\ Len(Tail(s)) = Len(s) - 1
         /\ \A i \in 1 .. Len(Tail(s)) : i + 1 \in 1 .. Len(s) /\ Tail(s)[i] = s[i + 1]
  BY HeadTailProperties, LenProperties

\* Appending puts one element after those that were there.
LEMMA Appended ==
  ASSUME NEW S, NEW s \in Seq(S), NEW e \in S
  PROVE  /\ Append(s, e) \in Seq(S)
         /\ Len(Append(s, e)) = Len(s) + 1
         /\ \A i \in 1 .. Len(Append(s, e)) :
              Append(s, e)[i] = IF i = Len(s) + 1 THEN e ELSE s[i]
         /\ \A i \in 1 .. Len(s) : i \in 1 .. Len(Append(s, e))
         /\ Len(s) + 1 \in 1 .. Len(Append(s, e))
  BY AppendProperties, LenProperties

\* Removing the k-th element moves the later ones up by one.
LEMMA Removed ==
  ASSUME NEW S, NEW s \in Seq(S), NEW k \in 1 .. Len(s)
  PROVE  /\ RemoveAt(s, k) \in Seq(S)
         /\ Len(RemoveAt(s, k)) = Len(s) - 1
         /\ \A i \in 1 .. Len(s) - 1 :
              RemoveAt(s, k)[i] = IF i < k THEN s[i] ELSE s[i + 1]
<1> DEFINE a == SubSeq(s, 1, k - 1)
           b == SubSeq(s, k + 1, Len(s))
<1>1. /\ a \in Seq(S) /\ Len(a) = k - 1 /\ \A i \in 1 .. Len(a) : a[i] = s[i]
  BY SubSeqProperties, LenProperties
<1>2. /\ b \in Seq(S) /\ Len(b) = Len(s) - k
      /\ \A i \in 1 .. Len(b) : b[i] = s[k + i]
  BY SubSeqProperties, LenProperties
<1>3. RemoveAt(s, k) = a \o b
  BY DEF RemoveAt
<1> HIDE DEF a, b
<1>4. /\ a \o b \in Seq(S)
      /\ Len(a \o b) = Len(a) + Len(b)
      /\ \A i \in 1 .. Len(a) + Len(b) :
           (a \o b)[i] = IF i <= Len(a) THEN a[i] ELSE b[i - Len(a)]
  <2>1. a \in Seq(S) /\ b \in Seq(S)
    BY <1>1, <1>2
  <2> QED BY <2>1, ConcatProperties
<1>5. ASSUME NEW i \in 1 .. Len(s) - 1
      PROVE  (a \o b)[i] = IF i < k THEN s[i] ELSE s[i + 1]
  <2>1. CASE i < k
    BY <2>1, <1>1, <1>2, <1>4, LenProperties
  <2>2. CASE ~ (i < k)
    <3>1. i - Len(a) \in 1 .. Len(b) /\ i - Len(a) = i + 1 - k
      BY <2>2, <1>1, <1>2, LenProperties
    <3> DEFINE j == i - Len(a)
    <3>a. j \in 1 .. Len(b) /\ k + j = i + 1
      BY <3>1, LenProperties
    <3>b. b[j] = s[k + j]
      BY <3>a, <1>2
    <3>2. b[i - Len(a)] = s[i + 1]
      BY <3>a, <3>b
    <3>3. ~ (i <= Len(a)) /\ i \in 1 .. Len(a) + Len(b)
      BY <2>2, <1>1, <1>2, LenProperties
    <3> QED BY <2>2, <3>2, <3>3, <1>4
  <2> QED BY <2>1, <2>2
<1> QED BY <1>1, <1>2, <1>3, <1>4, <1>5, LenProperties

\* Appending two equal elements puts them after those that were there.
LEMMA AppendedTwice ==
  ASSUME NEW S, NEW s \in Seq(S), NEW e \in S
  PROVE  /\ s \o <<e, e>> \in Seq(S)
         /\ Len(s \o <<e, e>>) = Len(s) + 2
         /\ \A i \in 1 .. Len(s) + 2 :
              (s \o <<e, e>>)[i] = IF i <= Len(s) THEN s[i] ELSE e
<1>1. <<e, e>> \in Seq(S) /\ Len(<<e, e>>) = 2
  OBVIOUS
<1>2. \A i \in 1 .. 2 : <<e, e>>[i] = e
  OBVIOUS
<1>3. /\ s \o <<e, e>> \in Seq(S) /\ Len(s \o <<e, e>>) = Len(s) + 2
      /\ \A i \in 1 .. Len(s) + 2 :
           (s \o <<e, e>>)[i] = IF i <= Len(s) THEN s[i] ELSE <<e, e>>[i - Len(s)]
  BY <1>1, ConcatProperties
<1> QED BY <1>2, <1>3, LenProperties
-----------------------------------------------------------------------------
(* The wire. Each action that touches out or inq does one of these things. *)

\* r is sent for the first time.
LEMMA SentWire ==
  ASSUME TypeOK, WireInv, NEW r \in Reqs,
         ~ InFlight(r), reply[r].to # r,
         out' = Append(out, r), pc' = [pc EXCEPT ![r] = "await"],
         UNCHANGED <<inq, reply, unsettled>>
  PROVE  WireInv'
<1>1. \A q \in Reqs : InOut(q)' => InOut(q) \/ q = r
  BY Appended DEF TypeOK, InOut
<1>2. \A q \in Reqs : InInq(q)' <=> InInq(q)
  BY DEF InInq
<1>3. SentOnce'
  BY Appended, LenProperties DEF TypeOK, WireInv, SentOnce, InOut, InFlight
<1>4. AnsweredOnce' /\ OwnedInv'
  BY DEF WireInv, AnsweredOnce, OwnedInv
<1>5. OutOrBack'
  BY <1>1, <1>2 DEF WireInv, OutOrBack, InFlight
<1>6. FlightInv'
  BY <1>1, <1>2 DEF TypeOK, WireInv, FlightInv, InFlight
<1> QED BY <1>3, <1>4, <1>5, <1>6 DEF WireInv

\* The peer takes its oldest request.
LEMMA TakenWire ==
  ASSUME TypeOK, WireInv, NEW r \in Reqs, PeerTakes(r)
  PROVE  /\ SentOnce'
         /\ InOut(r) /\ ~ InOut(r)'
         /\ \A q \in Reqs : InOut(q)' => InOut(q)
<1>1. /\ out # <<>> /\ out \in Seq(Reqs) /\ out' = Tail(out) /\ r = out[1]
      /\ 1 \in 1 .. Len(out)
  BY HeadTail DEF PeerTakes, TypeOK
<1>2. \A i \in 1 .. Len(out') : i + 1 \in 1 .. Len(out) /\ out'[i] = out[i + 1]
  BY <1>1, HeadTail
<1>3. InOut(r)
  BY <1>1 DEF InOut
<1>4. \A q \in Reqs : InOut(q)' => InOut(q)
  BY <1>2 DEF InOut
<1>5. \A i, j \in 1 .. Len(out') : out'[i] = out'[j] => i + 1 = j + 1
  BY <1>2 DEF WireInv, SentOnce
<1>6. SentOnce'
  BY <1>5 DEF SentOnce
<1>7. ASSUME NEW i \in 1 .. Len(out'), out'[i] = r
      PROVE  FALSE
  <2>1. i + 1 = 1
    BY <1>1, <1>2, <1>7 DEF WireInv, SentOnce
  <2> QED BY <2>1
<1> QED BY <1>3, <1>4, <1>6, <1>7 DEF InOut

\* _on_data is handed the oldest PDU.
LEMMA ReadWire ==
  ASSUME TypeOK, WireInv, inq # <<>>, inq' = Tail(inq), unsettled' = unsettled
  PROVE  /\ AnsweredOnce' /\ OwnedInv' /\ Head(inq) \in Pdus
         /\ Head(inq).to = NoReq => Head(inq).op = EXCHANGE_MTU_REQ
         /\ \A q \in Reqs : InInq(q)' => InInq(q)
         /\ \A q \in Reqs : Head(inq).to = q =>
              InInq(q) /\ (InInq(q)' => q \in unsettled)
<1>a. inq \in Seq(Pdus)
  BY DEF TypeOK
<1> HIDE DEF Pdus
<1>1. /\ inq \in Seq(Pdus) /\ Head(inq) = inq[1] /\ Head(inq) \in Pdus
      /\ 1 \in 1 .. Len(inq)
  BY <1>a, HeadTail
<1>2. \A i \in 1 .. Len(inq') : i + 1 \in 1 .. Len(inq) /\ inq'[i] = inq[i + 1]
  BY <1>1, HeadTail
<1>3. \A i, j \in 1 .. Len(inq') : inq'[i].to = inq'[j].to =>
        i + 1 = j + 1 \/ inq'[i].to \in unsettled \cup {NoReq}
  BY <1>2 DEF WireInv, AnsweredOnce
<1>4. AnsweredOnce'
  BY <1>3 DEF AnsweredOnce
<1>5. OwnedInv'
  BY <1>2 DEF WireInv, OwnedInv
<1>6. \A q \in Reqs : InInq(q)' => InInq(q)
  BY <1>2 DEF InInq
<1>7. ASSUME NEW q \in Reqs, Head(inq).to = q
      PROVE  InInq(q) /\ (InInq(q)' => q \in unsettled)
  <2>1. InInq(q)
    BY <1>1, <1>7 DEF InInq
  <2>2. ASSUME NEW i \in 1 .. Len(inq'), inq'[i].to = q
        PROVE  q \in unsettled
    <3>1. i + 1 = 1 \/ q \in unsettled \cup {NoReq}
      BY <1>1, <1>2, <1>7, <2>2 DEF WireInv, AnsweredOnce
    <3> QED BY <3>1
  <2> QED BY <2>1, <2>2 DEF InInq
<1> QED BY <1>1, <1>4, <1>5, <1>6, <1>7 DEF WireInv, OwnedInv

\* The peer sends p for a request it has taken, or for nobody.
LEMMA AnsweredWire ==
  ASSUME TypeOK, WireInv, NEW p \in Pdus, inq' = Append(inq, p),
         p.to = NoReq => p.op = EXCHANGE_MTU_REQ,
         p.to \in Reqs => ~ InInq(p.to), unsettled' = unsettled
  PROVE  /\ AnsweredOnce' /\ OwnedInv' /\ inq' \in Seq(Pdus)
         /\ \A q \in Reqs : InInq(q)' => InInq(q) \/ q = p.to
<1>1. /\ inq \in Seq(Pdus) /\ inq' \in Seq(Pdus) /\ Len(inq') = Len(inq) + 1
      /\ Len(inq) \in Nat
      /\ \A i \in 1 .. Len(inq') : inq'[i] = IF i = Len(inq) + 1 THEN p ELSE inq[i]
  BY Appended, LenProperties DEF TypeOK
<1>2. \A q \in Reqs : InInq(q)' => InInq(q) \/ q = p.to
  BY <1>1 DEF InInq
<1>3. OwnedInv'
  BY <1>1 DEF WireInv, OwnedInv
<1>4. ASSUME NEW i \in 1 .. Len(inq'), NEW j \in 1 .. Len(inq'),
             inq'[i].to = inq'[j].to
      PROVE  i = j \/ inq'[i].to \in unsettled \cup {NoReq}
  <2>1. CASE i # Len(inq) + 1 /\ j # Len(inq) + 1
    BY <2>1, <1>1, <1>4 DEF WireInv, AnsweredOnce
  <2>2. CASE i = Len(inq) + 1 /\ j # Len(inq) + 1
    <3>1. j \in 1 .. Len(inq) /\ inq[j].to = p.to /\ inq'[i] = p
      BY <2>2, <1>1, <1>4
    <3> QED BY <3>1 DEF InInq
  <2>3. CASE i # Len(inq) + 1 /\ j = Len(inq) + 1
    <3>1. i \in 1 .. Len(inq) /\ inq[i].to = p.to /\ inq'[i] = inq[i]
      BY <2>3, <1>1, <1>4
    <3> QED BY <3>1 DEF InInq
  <2> QED BY <2>1, <2>2, <2>3
<1> QED BY <1>1, <1>2, <1>3, <1>4 DEF AnsweredOnce

\* The peer sends two answers for r, which counts as unsettled from then on.
LEMMA AnsweredTwiceWire ==
  ASSUME TypeOK, WireInv, NEW p \in Pdus, p.to \in Reqs,
         inq' = inq \o <<p, p>>, unsettled' = unsettled \cup {p.to}
  PROVE  /\ AnsweredOnce' /\ OwnedInv' /\ inq' \in Seq(Pdus)
         /\ \A q \in Reqs : InInq(q)' => InInq(q) \/ q = p.to
<1>1. /\ inq \in Seq(Pdus) /\ inq' \in Seq(Pdus) /\ Len(inq') = Len(inq) + 2
      /\ Len(inq) \in Nat
      /\ \A i \in 1 .. Len(inq') : inq'[i] = IF i <= Len(inq) THEN inq[i] ELSE p
  BY AppendedTwice, LenProperties DEF TypeOK
<1>2. \A q \in Reqs : InInq(q)' => InInq(q) \/ q = p.to
  BY <1>1 DEF InInq
<1>3. OwnedInv'
  BY <1>1 DEF WireInv, OwnedInv
<1>4. ASSUME NEW i \in 1 .. Len(inq'), NEW j \in 1 .. Len(inq'),
             inq'[i].to = inq'[j].to
      PROVE  i = j \/ inq'[i].to \in unsettled' \cup {NoReq}
  <2>1. CASE i <= Len(inq) /\ j <= Len(inq)
    BY <2>1, <1>1, <1>4 DEF WireInv, AnsweredOnce
  <2>2. CASE i > Len(inq) \/ j > Len(inq)
    BY <2>2, <1>1, <1>4
  <2> QED BY <2>1, <2>2, <1>1
<1> QED BY <1>1, <1>2, <1>3, <1>4 DEF AnsweredOnce

-----------------------------------------------------------------------------
(* One lemma per action.                                                   *)

\* A new client satisfies the invariant.
LEMMA InitKeeps ==
  ASSUME Init
  PROVE  IInv
<1>1. TypeOK
  <2>1. waiters \in Seq(Reqs) /\ out \in Seq(Reqs) /\ inq \in Seq(Pdus)
    BY EmptySeq DEF Init
  <2>2. mtu \in DEFAULT_MTU .. PREFERRED_MTU
    BY DEF Init, DEFAULT_MTU, PREFERRED_MTU
  <2> QED BY <2>1, <2>2 DEF Init, TypeOK
<1>2. LockInv /\ FutInv /\ FlagInv
  BY DEF Init, LockInv, FutInv, FlagInv
<1>3. WireInv
  BY DEF Init, WireInv, SentOnce, AnsweredOnce, OutOrBack, OwnedInv, FlightInv,
     InOut, InInq, InFlight
<1>4. OnlyUnsettledStray /\ NoUnexpectedOpcode /\ SilenceIsNotNegotiated
  BY DEF Init, OnlyUnsettledStray, NoUnexpectedOpcode, SilenceIsNotNegotiated
<1> QED BY <1>1, <1>2, <1>3, <1>4 DEF IInv


\* The blocked send goes through.
LEMMA SendThroughKeeps ==
  ASSUME IInv, NEW r \in Reqs, SendThrough(r)
  PROVE  IInv'
<1>1. /\ pc[r] = "send" /\ pc' = [pc EXCEPT ![r] = "await"] /\ out' = Append(out, r)
      /\ UNCHANGED <<fut, reply, outcome, lockVars, mtuVars, linkVars, inq,
                     peerVars, unsettled>>
  BY DEF SendThrough
<1>2. TypeOK'
  <2>1. out' \in Seq(Reqs)
    BY <1>1, Appended DEF IInv, TypeOK
  <2>2. beside' = beside /\ writer' = NoReq /\ woken' \subseteq Reqs /\ crossed' \subseteq Reqs
    BY DEF SendThrough, Unblock, IInv, TypeOK
  <2> QED BY <1>1, <2>1, <2>2 DEF IInv, TypeOK
<1>3. LockInv'
  BY <1>1 DEF IInv, TypeOK, LockInv
<1>4. FutInv'
  BY <1>1 DEF IInv, TypeOK, FutInv
<1>5. WireInv'
  BY <1>1, SentWire DEF IInv, FutInv, WireInv, FlightInv
<1>6. FlagInv'
  BY <1>1 DEF IInv, TypeOK, FlagInv, IsExchange
<1>7. OnlyUnsettledStray' /\ NoUnexpectedOpcode' /\ SilenceIsNotNegotiated'
  BY <1>1 DEF IInv, OnlyUnsettledStray, NoUnexpectedOpcode,
     SilenceIsNotNegotiated, IsExchange
<1> QED BY <1>2, <1>3, <1>4, <1>5, <1>6, <1>7 DEF IInv

\* A send that raises ends its request; exchange_mtu calls the socket's
\* ETIMEDOUT a negotiated MTU only on the peer's word.
LEMMA SendRaisesKeeps ==
  ASSUME IInv, NEW r \in Reqs, NEW how \in SendErrors(r, peerInitiatedMtu),
         SendRaises(r, how)
  PROVE  IInv'
<1>1. /\ pc[r] = "send" /\ pc' = [pc EXCEPT ![r] = "done"]
      /\ outcome' = [outcome EXCEPT ![r] = how]
      /\ holder' = NoReq /\ pending' = NoReq /\ pendingOpcode' = NoOpcode
      /\ fut' = [fut EXCEPT ![r] = "none"] /\ reply' = [reply EXCEPT ![r] = NoPdu]
      /\ UNCHANGED <<waiters, mtuVars, linkVars, out, inq, peerVars, unsettled>>
  BY DEF SendRaises
<1>2. /\ how \in {"failed", "peer_mtu"}
      /\ how = "peer_mtu" => r \in heard /\ mtu = Negotiate(peerMtu)
  BY <1>1 DEF SendErrors, IInv, FlagInv
<1>3. TypeOK'
  <2>1. beside' = beside /\ writer' = NoReq /\ woken' \subseteq Reqs /\ crossed' \subseteq Reqs
    BY DEF SendRaises, Unblock, IInv, TypeOK
  <2> QED BY <1>1, <1>2, <2>1 DEF IInv, TypeOK
<1>4. LockInv'
  BY <1>1 DEF IInv, TypeOK, LockInv
<1>5. FutInv'
  BY <1>1 DEF IInv, TypeOK, LockInv, FutInv
<1>6. WireInv'
  BY <1>1 DEF IInv, TypeOK, WireInv, SentOnce, AnsweredOnce, OutOrBack,
     OwnedInv, FlightInv, InOut, InInq, InFlight
<1>7. FlagInv'
  BY <1>1 DEF IInv, TypeOK, FlagInv, IsExchange
<1>8. OnlyUnsettledStray'
  BY <1>1 DEF IInv, TypeOK, OnlyUnsettledStray, IsExchange
<1>9. NoUnexpectedOpcode'
  BY <1>1, <1>2 DEF IInv, TypeOK, NoUnexpectedOpcode
<1>10. SilenceIsNotNegotiated'
  BY <1>1, <1>2 DEF IInv, TypeOK, SilenceIsNotNegotiated
<1> QED BY <1>3, <1>4, <1>5, <1>6, <1>7, <1>8, <1>9, <1>10 DEF IInv

\* The link or the socket is gone when a woken send runs.
LEMMA SendFailKeeps ==
  ASSUME IInv, NEW r \in Reqs, SendFail(r)
  PROVE  IInv'
  BY SendRaisesKeeps DEF SendFail

\* A blocked send is cancelled before its PDU went out.
LEMMA CancelSendKeeps ==
  ASSUME IInv, NEW r \in Reqs, CancelSend(r)
  PROVE  IInv'
<1>1. "failed" \in SendErrors(r, peerInitiatedMtu)
  BY DEF SendErrors
<1> QED BY <1>1, SendRaisesKeeps DEF CancelSend

\* The steps that touch only the send path.
OnlySendPath ==
  UNCHANGED <<pc, fut, reply, outcome, lockVars, mtuVars, linkVars, out, inq, peerVars,
              unsettled>>

\* A callback runs, a send blocks again, and whatever the asides do.
LEMMA SendPathKeeps ==
  ASSUME IInv,
         \/ \E r \in Reqs : Wake(r) \/ SendBlocksAgain(r)
         \/ \E a \in Asides : Beside(a)
  PROVE  IInv' /\ OnlySendPath
<1>1. OnlySendPath
  BY DEF OnlySendPath, Wake, SendBlocksAgain, Beside, AsideBlocks, AsideEnds
<1>2. /\ beside' \subseteq Asides /\ writer' \in Senders \cup {NoReq}
      /\ woken' \subseteq Reqs /\ crossed' \subseteq Reqs
  BY DEF Wake, SendBlocksAgain, Beside, AsideBlocks, AsideEnds, Block, Cross, Unblock, IInv, TypeOK
<1>3. TypeOK'
  BY <1>1, <1>2 DEF OnlySendPath, IInv, TypeOK
<1>4. LockInv' /\ FutInv' /\ FlagInv'
  BY <1>1 DEF OnlySendPath, IInv, LockInv, FutInv, FlagInv, IsExchange
<1>5. WireInv'
  BY <1>1 DEF OnlySendPath, IInv, WireInv, SentOnce, AnsweredOnce, OutOrBack, OwnedInv,
     FlightInv, InOut, InInq, InFlight
<1>6. OnlyUnsettledStray' /\ NoUnexpectedOpcode' /\ SilenceIsNotNegotiated'
  BY <1>1 DEF OnlySendPath, IInv, OnlyUnsettledStray, NoUnexpectedOpcode,
     SilenceIsNotNegotiated, IsExchange
<1> QED BY <1>1, <1>3, <1>4, <1>5, <1>6 DEF IInv

\* From the lock to the first suspension: Call's fast path and Acquire. The
\* last hypotheses are what the two leave alone or do to the waiters.
LEMMA BeginKeeps ==
  ASSUME IInv, NEW r \in Reqs, Begin(r, peerInitiatedMtu'), holder = NoReq, pc[r] \in {"idle", "lock"},
         waiters' \in Seq(Reqs),
         \A k \in 1 .. Len(waiters') : waiters'[k] # r /\ pc[waiters'[k]] = "lock",
         \A i, j \in 1 .. Len(waiters') : waiters'[i] = waiters'[j] => i = j,
         peerInitiatedMtu' \in BOOLEAN,
         peerInitiatedMtu' => peerInitiatedMtu /\ (pc[r] = "idle" => ~ IsExchange(r)),
         UNCHANGED <<reply, mtu, heard, beside, woken, linkVars, inq, peerVars, unsettled>>
  PROVE  IInv'
<1>1. CASE CanSend
  <2>1. /\ holder' = r /\ pending' = r /\ pendingOpcode' = Expects[r]
        /\ fut' = [fut EXCEPT ![r] = "pending"] /\ UNCHANGED outcome
        /\ \/ pc' = [pc EXCEPT ![r] = "await"] /\ out' = Append(out, r)
           \/ pc' = [pc EXCEPT ![r] = "send"] /\ UNCHANGED out
    BY <1>1 DEF Begin
  <2>2. TypeOK'
    <3>1. Append(out, r) \in Seq(Reqs)
      BY Appended DEF IInv, TypeOK
    <3>2. out' \in Seq(Reqs)
      BY <2>1, <3>1 DEF IInv, TypeOK
    <3>3. pc' \in [Reqs -> {"idle", "lock", "send", "await", "done"}]
      BY <2>1, SMTT(40) DEF IInv, TypeOK
    <3>4. fut' \in [Reqs -> {"none", "pending", "answer", "timeout", "cancelled", "closed"}]
      BY <2>1 DEF IInv, TypeOK
    <3>5. /\ holder' \in Nobody /\ pending' \in Nobody
          /\ pendingOpcode' \in Responses \cup {NoOpcode}
      BY <2>1, ExpectsAssumption DEF IInv, TypeOK, Nobody
    <3>6. UNCHANGED <<reply, outcome, mtu, heard, beside, woken, link, closed, inq,
                      peerMtu, dups, mtuReqs, unsettled>>
      BY <2>1 DEF linkVars, peerVars
    <3>7. writer' \in Senders \cup {NoReq} /\ crossed' \subseteq Reqs
      BY <1>1 DEF Begin, Block, Cross, IInv, TypeOK
    <3> HIDE <2>1
    <3> QED BY <3>2, <3>3, <3>4, <3>5, <3>6, <3>7 DEF IInv, TypeOK
  <2>3. LockInv'
    BY <2>1 DEF IInv, TypeOK, LockInv
  <2>4. FutInv'
    BY <2>1 DEF IInv, TypeOK, FutInv
  <2>5. WireInv'
    <3>1. ~ InFlight(r) /\ reply[r].to # r
      BY DEF IInv, WireInv, FlightInv, FutInv
    <3>2. CASE pc' = [pc EXCEPT ![r] = "await"] /\ out' = Append(out, r)
      BY <3>1, <3>2, SentWire DEF IInv
    <3>3. CASE pc' = [pc EXCEPT ![r] = "send"] /\ UNCHANGED out
      <4>1. \A q \in Reqs : (InOut(q)' <=> InOut(q)) /\ (InInq(q)' <=> InInq(q))
        BY <3>3 DEF InOut, InInq
      <4>2. SentOnce' /\ AnsweredOnce' /\ OutOrBack' /\ OwnedInv'
        BY <3>3, <4>1 DEF IInv, WireInv, SentOnce, AnsweredOnce, OutOrBack, OwnedInv
      <4>3. FlightInv'
        BY <3>1, <3>3, <4>1 DEF IInv, TypeOK, WireInv, FlightInv, InFlight
      <4> QED BY <4>2, <4>3 DEF WireInv
    <3> QED BY <2>1, <3>2, <3>3
  <2>6. FlagInv'
    BY <2>1 DEF IInv, TypeOK, FlagInv, IsExchange
  <2>7. OnlyUnsettledStray' /\ NoUnexpectedOpcode' /\ SilenceIsNotNegotiated'
    BY <2>1 DEF IInv, OnlyUnsettledStray, NoUnexpectedOpcode,
       SilenceIsNotNegotiated, IsExchange
  <2> QED BY <2>2, <2>3, <2>4, <2>5, <2>6, <2>7 DEF IInv
<1>2. CASE ~ CanSend
  <2>1. PICK how \in SendErrors(r, peerInitiatedMtu') :
          /\ pc' = [pc EXCEPT ![r] = "done"] /\ outcome' = [outcome EXCEPT ![r] = how]
          /\ holder' = NoReq /\ pending' = NoReq /\ pendingOpcode' = NoOpcode
          /\ UNCHANGED <<fut, out, writer, crossed>>
    BY <1>2 DEF Begin
  <2>h. /\ how \in {"failed", "peer_mtu"}
        /\ how = "peer_mtu" => r \in heard /\ mtu = Negotiate(peerMtu)
    BY DEF SendErrors, IInv, FlagInv
  <2>2. TypeOK'
    BY <2>1, <2>h DEF IInv, TypeOK
  <2>3. LockInv'
    BY <2>1 DEF IInv, TypeOK, LockInv
  <2>4. FutInv'
    BY <2>1 DEF IInv, TypeOK, FutInv
  <2>5. WireInv'
    BY <2>1 DEF IInv, TypeOK, WireInv, SentOnce, AnsweredOnce, OutOrBack,
       OwnedInv, FlightInv, InOut, InInq, InFlight
  <2>6. FlagInv'
    BY <2>1 DEF IInv, TypeOK, FlagInv, IsExchange
  <2>7. OnlyUnsettledStray' /\ NoUnexpectedOpcode' /\ SilenceIsNotNegotiated'
    BY <2>1, <2>h DEF IInv, TypeOK, OnlyUnsettledStray, NoUnexpectedOpcode,
       SilenceIsNotNegotiated, IsExchange
  <2> QED BY <2>2, <2>3, <2>4, <2>5, <2>6, <2>7 DEF IInv
<1> QED BY <1>1, <1>2

\* A call either owns the lock at once or joins the waiters.
LEMMA CallKeeps ==
  ASSUME IInv, NEW r \in Reqs, Call(r)
  PROVE  IInv'
<1>1. CASE LockFree
  <2>1. /\ Begin(r, peerInitiatedMtu') /\ holder = NoReq /\ pc[r] = "idle" /\ waiters' = <<>>
        /\ peerInitiatedMtu' = FlagAtCall(r)
        /\ UNCHANGED <<reply, mtu, heard, beside, woken, linkVars, inq, peerVars, unsettled>>
    BY <1>1 DEF Call, LockFree
  <2>2. waiters' \in Seq(Reqs) /\ 1 .. Len(waiters') = {}
    BY <2>1
  <2>3. /\ peerInitiatedMtu' \in BOOLEAN
        /\ peerInitiatedMtu' => peerInitiatedMtu /\ ~ IsExchange(r)
    BY <2>1 DEF FlagAtCall, IInv, TypeOK
  <2> QED BY <2>1, <2>2, <2>3, BeginKeeps
<1>2. CASE ~ LockFree
  <2>1. /\ pc[r] = "idle" /\ pc' = [pc EXCEPT ![r] = "lock"]
        /\ waiters' = Append(waiters, r) /\ peerInitiatedMtu' = FlagAtCall(r)
        /\ UNCHANGED <<fut, reply, outcome, holder, pending, pendingOpcode, mtu, heard,
                       sendVars, linkVars, out, inq, peerVars, unsettled>>
    BY <1>2 DEF Call
  <2>2. /\ waiters' \in Seq(Reqs)
        /\ \A k \in 1 .. Len(waiters') :
             waiters'[k] = r \/ (k \in 1 .. Len(waiters) /\ waiters'[k] = waiters[k])
    BY <2>1, Appended, LenProperties DEF IInv, TypeOK
  <2>3. peerInitiatedMtu' \in BOOLEAN /\ (peerInitiatedMtu' => peerInitiatedMtu /\ ~ IsExchange(r))
    BY <2>1 DEF FlagAtCall, IInv, TypeOK
  <2>4. TypeOK'
    BY <2>1, <2>2, <2>3 DEF IInv, TypeOK
  <2>5. LockInv'
    BY <2>1, <2>2 DEF IInv, TypeOK, LockInv
  <2>6. FutInv'
    BY <2>1 DEF IInv, TypeOK, FutInv
  <2>7. WireInv'
    BY <2>1, SMTT(40) DEF IInv, TypeOK, WireInv, SentOnce, AnsweredOnce, OutOrBack, OwnedInv,
       FlightInv, InOut, InInq, InFlight
  <2>8. FlagInv'
    BY <2>1, <2>3 DEF IInv, TypeOK, FlagInv, IsExchange
  <2>9. OnlyUnsettledStray' /\ NoUnexpectedOpcode' /\ SilenceIsNotNegotiated'
    BY <2>1 DEF IInv, OnlyUnsettledStray, NoUnexpectedOpcode,
       SilenceIsNotNegotiated, IsExchange
  <2> QED BY <2>4, <2>5, <2>6, <2>7, <2>8, <2>9 DEF IInv
<1> QED BY <1>1, <1>2

\* The first waiter owns the lock and sends.
LEMMA AcquireKeeps ==
  ASSUME IInv, NEW r \in Reqs, Acquire(r)
  PROVE  IInv'
<1>1. /\ Begin(r, peerInitiatedMtu') /\ holder = NoReq /\ waiters # <<>> /\ Head(waiters) = r
      /\ waiters' = Tail(waiters)
      /\ UNCHANGED <<reply, mtuVars, beside, woken, linkVars, inq, peerVars, unsettled>>
  BY DEF Acquire
<1>2. /\ waiters[1] = r /\ 1 \in 1 .. Len(waiters) /\ waiters' \in Seq(Reqs)
      /\ \A k \in 1 .. Len(waiters') :
           k + 1 \in 1 .. Len(waiters) /\ waiters'[k] = waiters[k + 1]
  BY <1>1, HeadTail DEF IInv, TypeOK
<1>3. pc[r] = "lock"
  BY <1>2 DEF IInv, LockInv
<1>4. \A k \in 1 .. Len(waiters') : waiters'[k] # r /\ pc[waiters'[k]] = "lock"
  BY <1>2 DEF IInv, LockInv
<1>5. \A i, j \in 1 .. Len(waiters') : waiters'[i] = waiters'[j] => i = j
  BY <1>2 DEF IInv, LockInv
<1> QED BY <1>1, <1>2, <1>3, <1>4, <1>5, BeginKeeps DEF IInv, TypeOK

\* A waiter leaves the queue; nothing of it was sent.
LEMMA CancelWaitKeeps ==
  ASSUME IInv, NEW r \in Reqs, CancelWait(r)
  PROVE  IInv'
<1>1. PICK k \in 1 .. Len(waiters) : waiters[k] = r /\ waiters' = RemoveAt(waiters, k)
  BY DEF CancelWait
<1>2. /\ waiters' \in Seq(Reqs)
      /\ \A i \in 1 .. Len(waiters') :
           waiters'[i] = IF i < k THEN waiters[i] ELSE waiters[i + 1]
      /\ Len(waiters') = Len(waiters) - 1 /\ Len(waiters) \in Nat
  <2>1. waiters \in Seq(Reqs) /\ Len(waiters) \in Nat
    BY LenProperties DEF IInv, TypeOK
  <2>2. /\ waiters' \in Seq(Reqs) /\ Len(waiters') = Len(waiters) - 1
        /\ \A i \in 1 .. Len(waiters) - 1 :
             waiters'[i] = IF i < k THEN waiters[i] ELSE waiters[i + 1]
    BY <1>1, <2>1, Removed
  <2> QED BY <2>1, <2>2
<1>3. /\ pc[r] = "lock" /\ pc' = [pc EXCEPT ![r] = "done"]
      /\ outcome' = [outcome EXCEPT ![r] = "failed"]
      /\ UNCHANGED <<fut, reply, holder, pending, pendingOpcode, mtuVars, sendVars, linkVars,
                     out, inq, peerVars, unsettled>>
  BY <1>1 DEF IInv, LockInv, CancelWait
<1>4. TypeOK'
  BY <1>2, <1>3 DEF IInv, TypeOK
<1>5. LockInv'
  <2>1. \A i \in 1 .. Len(waiters') :
          \E j \in 1 .. Len(waiters) \ {k} : waiters'[i] = waiters[j]
    BY <1>2
  <2>2. \A i \in 1 .. Len(waiters') : pc'[waiters'[i]] = "lock"
    BY <1>1, <1>3, <2>1, SMTT(40) DEF IInv, TypeOK, LockInv
  <2>3. \A i, j \in 1 .. Len(waiters') : waiters'[i] = waiters'[j] => i = j
    BY <1>2, SMTT(40) DEF IInv, LockInv
  <2>4. \A q \in Reqs : pc'[q] \in {"send", "await"} <=> holder = q
    BY <1>3 DEF IInv, TypeOK, LockInv
  <2> QED BY <1>3, <2>2, <2>3, <2>4 DEF IInv, LockInv
<1>6. FutInv'
  BY <1>3 DEF IInv, TypeOK, FutInv
<1>7. WireInv'
  BY <1>3 DEF IInv, TypeOK, WireInv, SentOnce, AnsweredOnce, OutOrBack, OwnedInv,
     FlightInv, InOut, InInq, InFlight
<1>8. FlagInv'
  BY <1>3 DEF IInv, TypeOK, FlagInv, IsExchange
<1>9. OnlyUnsettledStray' /\ NoUnexpectedOpcode' /\ SilenceIsNotNegotiated'
  BY <1>3 DEF IInv, TypeOK, OnlyUnsettledStray, NoUnexpectedOpcode,
     SilenceIsNotNegotiated, IsExchange
<1> QED BY <1>4, <1>5, <1>6, <1>7, <1>8, <1>9 DEF IInv

\* A timer ends the future, whatever it held.
LEMMA TimeoutKeeps ==
  ASSUME IInv, NEW r \in Reqs, Timeout(r)
  PROVE  IInv'
<1>1. TypeOK'
  BY DEF IInv, Timeout, TypeOK
<1>2. LockInv'
  BY DEF IInv, Timeout, TypeOK, LockInv
<1>3. FutInv'
  BY DEF IInv, Timeout, TypeOK, LockInv, FutInv
<1>4. WireInv'
  BY DEF IInv, Timeout, TypeOK, LockInv, FutInv, WireInv, SentOnce,
         AnsweredOnce, OutOrBack, OwnedInv, FlightInv, InOut, InInq, InFlight
<1>5. FlagInv'
  BY DEF IInv, Timeout, TypeOK, LockInv, FlagInv, IsExchange
<1>6. OnlyUnsettledStray'
  BY DEF IInv, Timeout, TypeOK, LockInv, FutInv, OnlyUnsettledStray
<1>7. NoUnexpectedOpcode'
  BY DEF IInv, Timeout, FutInv, NoUnexpectedOpcode
<1>8. SilenceIsNotNegotiated'
  BY DEF IInv, Timeout, TypeOK, LockInv, FlagInv, SilenceIsNotNegotiated
<1> QED BY <1>1, <1>2, <1>3, <1>4, <1>5, <1>6, <1>7, <1>8 DEF IInv

\* Cancellation ends the future, whatever it held.
LEMMA CancelAwaitKeeps ==
  ASSUME IInv, NEW r \in Reqs, CancelAwait(r)
  PROVE  IInv'
<1>1. TypeOK'
  BY DEF IInv, CancelAwait, TypeOK
<1>2. LockInv'
  BY DEF IInv, CancelAwait, TypeOK, LockInv
<1>3. FutInv'
  BY DEF IInv, CancelAwait, TypeOK, LockInv, FutInv
<1>4. WireInv'
  BY SMTT(40) DEF IInv, CancelAwait, TypeOK, LockInv, FutInv, WireInv, SentOnce,
         AnsweredOnce, OutOrBack, OwnedInv, FlightInv, InOut, InInq, InFlight
<1>5. FlagInv'
  BY DEF IInv, CancelAwait, TypeOK, LockInv, FlagInv, IsExchange
<1>6. OnlyUnsettledStray'
  BY DEF IInv, CancelAwait, TypeOK, LockInv, FutInv, OnlyUnsettledStray
<1>7. NoUnexpectedOpcode'
  BY DEF IInv, CancelAwait, FutInv, NoUnexpectedOpcode
<1>8. SilenceIsNotNegotiated'
  BY DEF IInv, CancelAwait, TypeOK, LockInv, FlagInv, SilenceIsNotNegotiated
<1> QED BY <1>1, <1>2, <1>3, <1>4, <1>5, <1>6, <1>7, <1>8 DEF IInv

\* The task takes its future's result: where an unanswered request
\* becomes unsettled and exchange_mtu adopts the MTU.
LEMMA ResumeKeeps ==
  ASSUME IInv, NEW r \in Reqs, Resume(r)
  PROVE  IInv'
<1>1. TypeOK'
  <2>1. Result(r) \in Outcomes
    BY DEF Result
  <2>2. mtu' \in DEFAULT_MTU .. PREFERRED_MTU
    BY NegotiateRange DEF IInv, TypeOK, Resume
  <2>3. reply' \in [Reqs -> Pdus]
    BY DEF IInv, TypeOK, Resume
  <2> QED BY <2>1, <2>2, <2>3 DEF IInv, TypeOK, Resume
<1>2. LockInv'
  BY DEF IInv, Resume, Result, IsExchange, Answered, TypeOK, LockInv
<1>3. FutInv'
  BY DEF IInv, Resume, Result, IsExchange, Answered, TypeOK, LockInv, FutInv
<1>4. WireInv'
  <2>1. /\ UNCHANGED <<out, inq>> /\ unsettled \subseteq unsettled'
        /\ pc' = [pc EXCEPT ![r] = "done"] /\ pc[r] = "await" /\ holder = r
    BY DEF IInv, Resume, LockInv
  <2>2. \A q \in Reqs : (InOut(q)' <=> InOut(q)) /\ (InInq(q)' <=> InInq(q))
    BY <2>1 DEF InOut, InInq
  <2>3. SentOnce' /\ AnsweredOnce' /\ OutOrBack' /\ OwnedInv'
    BY <2>1, <2>2 DEF IInv, WireInv, SentOnce, AnsweredOnce, OutOrBack, OwnedInv
  <2>4. ASSUME NEW q \in Reqs, InFlight(q)
        PROVE  /\ pc'[q] \in {"await", "done"}
               /\ q \notin unsettled' => pc'[q] = "await" /\ reply'[q].to # q
    <3>1. CASE q = r
      BY <3>1, <2>1, <2>4 DEF IInv, Resume, TypeOK, WireInv, FlightInv
    <3>2. CASE q # r
      BY <3>2, <2>1, <2>4 DEF IInv, Resume, TypeOK, WireInv, FlightInv, LockInv
    <3> QED BY <3>1, <3>2
  <2> QED BY <2>2, <2>3, <2>4 DEF WireInv, FlightInv, InFlight
<1>5. FlagInv'
  BY DEF IInv, Resume, Result, IsExchange, Answered, TypeOK, LockInv, FlagInv
<1>6. OnlyUnsettledStray'
  BY SMTT(40) DEF IInv, Resume, Result, IsExchange, Answered, TypeOK, LockInv, FutInv,
         OnlyUnsettledStray
<1>7. NoUnexpectedOpcode'
  <2>1. Result(r) # "unexpected"
    BY DEF IInv, Resume, FutInv, Result
  <2> QED BY <2>1 DEF IInv, Resume, TypeOK, NoUnexpectedOpcode
<1>8. SilenceIsNotNegotiated'
  BY DEF IInv, Resume, Result, IsExchange, Answered, TypeOK, LockInv, FlagInv,
         SilenceIsNotNegotiated
<1> QED BY <1>1, <1>2, <1>3, <1>4, <1>5, <1>6, <1>7, <1>8 DEF IInv

\* _on_data with a response: the pending future takes it, or it is dropped.
LEMMA OnResponseKeeps ==
  ASSUME IInv, OnResponse
  PROVE  IInv'
<1>1. TypeOK'
  <2>1. inq' \in Seq(Pdus) /\ Head(inq) \in Pdus
    BY HeadTail DEF IInv, TypeOK, OnResponse
  <2>2. \A p \in Pdus : Awaited /\ Resolve(p) =>
          /\ fut' \in [Reqs -> {"none", "pending", "answer", "timeout", "cancelled", "closed"}]
          /\ reply' \in [Reqs -> Pdus]
    BY DEF IInv, TypeOK, Awaited, Resolve
  <2> QED BY <2>1, <2>2 DEF IInv, TypeOK, OnResponse, Deliverable
<1>2. LockInv'
  BY DEF IInv, OnResponse, Deliverable, Awaited, Resolve, TypeOK, LockInv
<1>3. FutInv'
  <2>1. CASE Deliverable(Head(inq).op)
    <3> DEFINE p == Head(inq)
    <3>1. /\ p \in Pdus /\ (p.to \in Reqs => InFlight(p.to))
      BY ReadWire DEF IInv, OnResponse, InFlight
    <3>2. /\ pending \in Reqs /\ p.op \in {Expects[pending], ERROR_RSP}
          /\ fut' = [fut EXCEPT ![pending] = "answer"]
          /\ reply' = [reply EXCEPT ![pending] = p]
          /\ UNCHANGED pc /\ fut[pending] = "pending"
      BY <2>1 DEF IInv, OnResponse, Deliverable, Awaited, Resolve, TypeOK, LockInv
    <3>3. pc[pending] = "send" => p.to # pending
      BY <3>1, <3>2 DEF IInv, WireInv, FlightInv
    <3> HIDE DEF p
    <3> QED BY <3>2, <3>3 DEF IInv, TypeOK, FutInv
  <2>2. CASE ~ Deliverable(Head(inq).op)
    BY <2>2 DEF IInv, OnResponse, FutInv
  <2> QED BY <2>1, <2>2
<1>4. WireInv'
  <2>1. /\ inq # <<>> /\ inq' = Tail(inq) /\ UNCHANGED <<out, pc, unsettled>>
    BY DEF OnResponse
  <2>2. /\ AnsweredOnce' /\ OwnedInv'
        /\ \A q \in Reqs : InInq(q)' => InInq(q)
        /\ \A q \in Reqs : Head(inq).to = q =>
             InInq(q) /\ (InInq(q)' => q \in unsettled)
    BY <2>1, ReadWire DEF IInv
  <2>3. \A q \in Reqs : InOut(q)' <=> InOut(q)
    BY <2>1 DEF InOut
  <2>4. SentOnce' /\ OutOrBack'
    BY <2>1, <2>2, <2>3 DEF IInv, WireInv, SentOnce, OutOrBack
  <2>5. ASSUME NEW q \in Reqs, InFlight(q)', q \notin unsettled
        PROVE  reply'[q].to # q
    <3>1. InFlight(q) /\ reply[q].to # q
      BY <2>2, <2>3, <2>5 DEF IInv, WireInv, FlightInv, InFlight
    <3>2. Head(inq).to # q
      BY <2>2, <2>3, <2>5 DEF IInv, WireInv, OutOrBack, InFlight
    <3>3. reply' = reply \/ reply' = [reply EXCEPT ![pending] = Head(inq)]
      BY DEF OnResponse, Resolve
    <3> QED BY <3>1, <3>2, <3>3 DEF IInv, TypeOK
  <2>6. FlightInv'
    BY <2>1, <2>2, <2>3, <2>5 DEF IInv, WireInv, FlightInv, InFlight
  <2> QED BY <2>2, <2>4, <2>6 DEF WireInv
<1>5. FlagInv'
  BY DEF IInv, OnResponse, Deliverable, Awaited, Resolve, TypeOK, LockInv,
         FlagInv, IsExchange
<1>6. OnlyUnsettledStray'
  <2>1. CASE Deliverable(Head(inq).op)
    <3> DEFINE p == Head(inq)
    <3>1. /\ p \in Pdus /\ p.to \in Reqs /\ InInq(p.to)
      BY ReadWire DEF IInv, OnResponse
    <3>2. p.to \notin unsettled => pc[p.to] = "await"
      BY <3>1 DEF IInv, WireInv, FlightInv, InFlight
    <3>3. p.to \in {pending} \cup unsettled
      BY <3>1, <3>2 DEF IInv, LockInv
    <3>4. /\ reply' = [reply EXCEPT ![pending] = p] /\ pending \in Reqs
          /\ UNCHANGED <<unsettled, heard>>
      BY <2>1 DEF IInv, OnResponse, Deliverable, Awaited, Resolve, TypeOK
    <3> HIDE DEF p
    <3> QED BY <3>1, <3>3, <3>4 DEF IInv, TypeOK, OnlyUnsettledStray, IsExchange
  <2>2. CASE ~ Deliverable(Head(inq).op)
    BY <2>2 DEF IInv, OnResponse, OnlyUnsettledStray, IsExchange
  <2> QED BY <2>1, <2>2
<1>7. NoUnexpectedOpcode'
  BY DEF IInv, OnResponse, Deliverable, Awaited, Resolve, FutInv,
         NoUnexpectedOpcode
<1>8. SilenceIsNotNegotiated'
  BY DEF IInv, OnResponse, Deliverable, Awaited, Resolve, TypeOK, LockInv,
         FlagInv, SilenceIsNotNegotiated
<1> QED BY <1>1, <1>2, <1>3, <1>4, <1>5, <1>6, <1>7, <1>8 DEF IInv

\* _on_data with the peer's MTU request, the shortcut included.
LEMMA OnMtuReqKeeps ==
  ASSUME IInv, OnMtuReq
  PROVE  IInv'
<1>1. TypeOK'
  <2>1. inq' \in Seq(Pdus) /\ Head(inq) \in Pdus
    BY HeadTail DEF IInv, TypeOK, OnMtuReq
  <2>2. \A p \in Pdus : Awaited /\ Resolve(p) =>
          /\ fut' \in [Reqs -> {"none", "pending", "answer", "timeout", "cancelled", "closed"}]
          /\ reply' \in [Reqs -> Pdus]
    BY DEF IInv, TypeOK, Awaited, Resolve
  <2> QED BY <2>1, <2>2, NegotiateRange
      DEF IInv, TypeOK, OnMtuReq
<1>2. LockInv'
  BY DEF IInv, OnMtuReq, Awaited, Resolve, TypeOK, LockInv
<1>3. FutInv'
  BY DEF IInv, OnMtuReq, Awaited, Resolve, TypeOK, LockInv, FutInv
<1>4. WireInv'
  <2>1. /\ inq # <<>> /\ inq' = Tail(inq) /\ UNCHANGED <<out, pc, unsettled>>
    BY DEF OnMtuReq
  <2>2. /\ AnsweredOnce' /\ OwnedInv' /\ \A q \in Reqs : InInq(q)' => InInq(q)
    BY <2>1, ReadWire DEF IInv
  <2>3. \A q \in Reqs : InOut(q)' <=> InOut(q)
    BY <2>1 DEF InOut
  <2>4. SentOnce' /\ OutOrBack'
    BY <2>1, <2>2, <2>3 DEF IInv, WireInv, SentOnce, OutOrBack
  <2>5. \A q \in Reqs : reply'[q].to # q \/ reply'[q] = reply[q]
    BY DEF IInv, TypeOK, OnMtuReq, Resolve
  <2>6. FlightInv'
    BY <2>1, <2>2, <2>3, <2>5 DEF IInv, WireInv, FlightInv, InFlight
  <2> QED BY <2>2, <2>4, <2>6 DEF WireInv
<1>5. FlagInv'
  BY DEF IInv, OnMtuReq, Awaited, Resolve, TypeOK, LockInv, FlagInv, IsExchange
<1>6. OnlyUnsettledStray'
  <2>1. CASE Awaited /\ pendingOpcode = EXCHANGE_MTU_RSP
    <3>1. /\ pending \in Reqs /\ IsExchange(pending)
          /\ pc[pending] \notin {"idle", "done"}
      BY <2>1 DEF IInv, Awaited, TypeOK, LockInv, IsExchange
    <3>2. /\ reply' = [reply EXCEPT ![pending] = [op |-> EXCHANGE_MTU_RSP, to |-> NoReq]]
          /\ unsettled' = unsettled /\ heard \subseteq heard' /\ pending \in heard'
      BY <2>1, <3>1 DEF OnMtuReq, Resolve
    <3> QED BY <3>1, <3>2 DEF IInv, TypeOK, OnlyUnsettledStray, IsExchange
  <2>2. CASE ~ (Awaited /\ pendingOpcode = EXCHANGE_MTU_RSP)
    <3>1. reply' = reply /\ unsettled' = unsettled /\ heard \subseteq heard'
      BY <2>2 DEF OnMtuReq
    <3> QED BY <3>1 DEF IInv, OnlyUnsettledStray, IsExchange
  <2> QED BY <2>1, <2>2
<1>7. NoUnexpectedOpcode'
  BY DEF IInv, OnMtuReq, Awaited, Resolve, FutInv, NoUnexpectedOpcode
<1>8. SilenceIsNotNegotiated'
  BY DEF IInv, OnMtuReq, Awaited, Resolve, TypeOK, LockInv, FlagInv,
         SilenceIsNotNegotiated
<1> QED BY <1>1, <1>2, <1>3, <1>4, <1>5, <1>6, <1>7, <1>8 DEF IInv

\* The link's end fails the pending future.
LEMMA FailKeeps ==
  ASSUME IInv, Fail
  PROVE  IInv'
<1>1. TypeOK'
  <2>1. inq' \in Seq(Pdus)
    BY EmptySeq DEF Fail
  <2>2. fut' \in [Reqs -> {"none", "pending", "answer", "timeout", "cancelled", "closed"}]
    <3>1. fut \in [Reqs -> {"none", "pending", "answer", "timeout", "cancelled", "closed"}]
      BY DEF IInv, TypeOK
    <3>2. fut' = fut \/ \E how \in {"closed", "timeout"} : fut' = [fut EXCEPT ![pending] = how]
      BY DEF Fail
    <3> QED BY <3>1, <3>2
  <2>3. closed' \in {"open", "local", "remote"}
    BY DEF Fail
  <2>4. UNCHANGED <<pc, reply, outcome, lockVars, mtuVars, crossed, link, out, peerVars, unsettled>>
    BY DEF Fail
  <2>7. beside' \subseteq Asides /\ writer' \in Senders \cup {NoReq} /\ woken' \subseteq Reqs
    BY DEF Fail, LoseSlot, IInv, TypeOK
  <2>5. /\ pc' = pc /\ reply' = reply /\ outcome' = outcome
        /\ holder' = holder /\ pending' = pending /\ waiters' = waiters
        /\ pendingOpcode' = pendingOpcode /\ mtu' = mtu
        /\ peerInitiatedMtu' = peerInitiatedMtu /\ crossed' = crossed
        /\ heard' = heard /\ link' = link /\ out' = out /\ peerMtu' = peerMtu
        /\ dups' = dups /\ mtuReqs' = mtuReqs /\ unsettled' = unsettled
    BY <2>4 DEF lockVars, mtuVars, peerVars
  <2>6. TypeOK
    BY DEF IInv
  <2> HIDE <2>4
  <2> QED BY <2>1, <2>2, <2>3, <2>5, <2>6, <2>7, ZenonT(40) DEF TypeOK
<1>2. LockInv'
  BY DEF IInv, Fail, Awaited, TypeOK, LockInv
<1>3. FutInv'
  BY DEF IInv, Fail, Awaited, TypeOK, LockInv, FutInv
<1>4. WireInv'
  BY DEF IInv, Fail, Awaited, TypeOK, LockInv, FutInv, WireInv, SentOnce,
         AnsweredOnce, OutOrBack, OwnedInv, FlightInv, InOut, InInq, InFlight
<1>5. FlagInv'
  BY DEF IInv, Fail, Awaited, TypeOK, LockInv, FlagInv, IsExchange
<1>6. OnlyUnsettledStray'
  BY DEF IInv, Fail, Awaited, TypeOK, LockInv, FutInv, OnlyUnsettledStray
<1>7. NoUnexpectedOpcode'
  BY DEF IInv, Fail, Awaited, FutInv, NoUnexpectedOpcode
<1>8. SilenceIsNotNegotiated'
  BY DEF IInv, Fail, Awaited, TypeOK, LockInv, FlagInv, SilenceIsNotNegotiated
<1> QED BY <1>1, <1>2, <1>3, <1>4, <1>5, <1>6, <1>7, <1>8 DEF IInv

\* close() drops what is in flight and touches no request.
LEMMA CloseKeeps ==
  ASSUME IInv, Close
  PROVE  IInv'
<1>1. TypeOK'
  BY DEF IInv, Close, LoseSlot, TypeOK
<1>2. LockInv'
  BY DEF IInv, Close, TypeOK, LockInv
<1>3. FutInv'
  BY DEF IInv, Close, TypeOK, LockInv, FutInv
<1>4. WireInv'
  BY SMTT(40) DEF IInv, Close, TypeOK, LockInv, FutInv, WireInv, SentOnce, AnsweredOnce,
         OutOrBack, OwnedInv, FlightInv, InOut, InInq, InFlight
<1>5. FlagInv'
  BY DEF IInv, Close, TypeOK, LockInv, FlagInv, IsExchange
<1>6. OnlyUnsettledStray'
  BY DEF IInv, Close, TypeOK, LockInv, FutInv, OnlyUnsettledStray
<1>7. NoUnexpectedOpcode'
  BY DEF IInv, Close, FutInv, NoUnexpectedOpcode
<1>8. SilenceIsNotNegotiated'
  BY DEF IInv, Close, TypeOK, LockInv, FlagInv, SilenceIsNotNegotiated
<1> QED BY <1>1, <1>2, <1>3, <1>4, <1>5, <1>6, <1>7, <1>8 DEF IInv

\* The peer's answer follows its request into the other direction.
LEMMA PeerAnswersKeeps ==
  ASSUME IInv, NEW r \in Reqs, PeerAnswers(r)
  PROVE  IInv'
<1>1. TypeOK'
  <2>1. out' \in Seq(Reqs)
    BY HeadTail DEF IInv, TypeOK, PeerAnswers, PeerTakes
  <2>2. inq' \in Seq(Pdus)
    BY Appended DEF IInv, TypeOK, PeerAnswers
  <2> QED BY <2>1, <2>2 DEF IInv, TypeOK, PeerAnswers, PeerTakes
<1>2. LockInv'
  BY DEF IInv, PeerAnswers, PeerTakes, PeerHears, TypeOK, LockInv
<1>3. FutInv'
  BY DEF IInv, PeerAnswers, PeerTakes, PeerHears, TypeOK, LockInv, FutInv
<1>4. WireInv'
  <2>1. /\ SentOnce' /\ InOut(r) /\ ~ InOut(r)' /\ (\A q \in Reqs : InOut(q)' => InOut(q))
        /\ UNCHANGED <<pc, reply>>
    BY TakenWire DEF IInv, PeerAnswers, PeerTakes
  <2>2. ~ InInq(r)
    BY <2>1 DEF IInv, WireInv, OutOrBack
  <2>3. PICK op \in {Expects[r], ERROR_RSP} : inq' = Append(inq, [op |-> op, to |-> r])
    BY DEF PeerAnswers
  <2>4. /\ AnsweredOnce' /\ OwnedInv' /\ unsettled' = unsettled
        /\ \A q \in Reqs : InInq(q)' => InInq(q) \/ q = r
    <3> DEFINE p == [op |-> op, to |-> r]
    <3>1. p \in Pdus /\ p.to = r
      OBVIOUS
    <3>2. inq' = Append(inq, p) /\ unsettled' = unsettled
      BY <2>3 DEF PeerAnswers
    <3> HIDE DEF p
    <3> QED BY <2>2, <3>1, <3>2, AnsweredWire DEF IInv
  <2>5. OutOrBack'
    BY <2>1, <2>2, <2>4 DEF IInv, WireInv, OutOrBack
  <2>6. FlightInv'
    BY <2>1, <2>4 DEF IInv, WireInv, FlightInv, InFlight
  <2> QED BY <2>1, <2>4, <2>5, <2>6 DEF WireInv
<1>5. FlagInv'
  BY DEF IInv, PeerAnswers, PeerTakes, PeerHears, TypeOK, LockInv, FlagInv,
         IsExchange
<1>6. OnlyUnsettledStray'
  BY DEF IInv, PeerAnswers, PeerTakes, PeerHears, TypeOK, LockInv, FutInv,
         OnlyUnsettledStray
<1>7. NoUnexpectedOpcode'
  BY DEF IInv, PeerAnswers, PeerTakes, PeerHears, FutInv, NoUnexpectedOpcode
<1>8. SilenceIsNotNegotiated'
  BY DEF IInv, PeerAnswers, PeerTakes, PeerHears, TypeOK, LockInv, FlagInv,
         SilenceIsNotNegotiated
<1> QED BY <1>1, <1>2, <1>3, <1>4, <1>5, <1>6, <1>7, <1>8 DEF IInv

\* Two answers, and the request counts as unsettled.
LEMMA PeerAnswersTwiceKeeps ==
  ASSUME IInv, NEW r \in Reqs, PeerAnswersTwice(r)
  PROVE  IInv'
<1>1. TypeOK'
  BY DEF IInv, PeerAnswersTwice, PeerTakes, PeerHears, TypeOK
<1>2. LockInv'
  BY DEF IInv, PeerAnswersTwice, PeerTakes, PeerHears, TypeOK, LockInv
<1>3. FutInv'
  BY DEF IInv, PeerAnswersTwice, PeerTakes, PeerHears, TypeOK, LockInv, FutInv
<1>4. WireInv'
  <2>1. /\ SentOnce' /\ InOut(r) /\ ~ InOut(r)' /\ (\A q \in Reqs : InOut(q)' => InOut(q))
        /\ UNCHANGED <<pc, reply>>
    BY TakenWire DEF IInv, PeerAnswersTwice, PeerTakes
  <2>2. ~ InInq(r)
    BY <2>1 DEF IInv, WireInv, OutOrBack
  <2>4. /\ AnsweredOnce' /\ OwnedInv' /\ unsettled' = unsettled \cup {r}
        /\ \A q \in Reqs : InInq(q)' => InInq(q) \/ q = r
    <3> DEFINE p == [op |-> Expects[r], to |-> r]
    <3>1. p \in Pdus /\ p.to = r
      OBVIOUS
    <3>2. inq' = inq \o <<p, p>> /\ unsettled' = unsettled \cup {r}
      BY DEF PeerAnswersTwice
    <3> HIDE DEF p
    <3> QED BY <3>1, <3>2, AnsweredTwiceWire DEF IInv
  <2>5. OutOrBack'
    BY <2>1, <2>2, <2>4 DEF IInv, WireInv, OutOrBack
  <2>6. FlightInv'
    BY <2>1, <2>4 DEF IInv, WireInv, FlightInv, InFlight
  <2> QED BY <2>1, <2>4, <2>5, <2>6 DEF WireInv
<1>5. FlagInv'
  BY DEF IInv, PeerAnswersTwice, PeerTakes, PeerHears, TypeOK, LockInv, FlagInv,
         IsExchange
<1>6. OnlyUnsettledStray'
  BY DEF IInv, PeerAnswersTwice, PeerTakes, PeerHears, TypeOK, LockInv, FutInv,
         OnlyUnsettledStray
<1>7. NoUnexpectedOpcode'
  BY DEF IInv, PeerAnswersTwice, PeerTakes, PeerHears, FutInv,
         NoUnexpectedOpcode
<1>8. SilenceIsNotNegotiated'
  BY DEF IInv, PeerAnswersTwice, PeerTakes, PeerHears, TypeOK, LockInv, FlagInv,
         SilenceIsNotNegotiated
<1> QED BY <1>1, <1>2, <1>3, <1>4, <1>5, <1>6, <1>7, <1>8 DEF IInv

\* The peer forgets a request.
LEMMA PeerIgnoresKeeps ==
  ASSUME IInv, NEW r \in Reqs, PeerIgnores(r)
  PROVE  IInv'
<1>1. TypeOK'
  BY DEF IInv, PeerIgnores, PeerTakes, PeerHears, TypeOK
<1>2. LockInv'
  BY DEF IInv, PeerIgnores, PeerTakes, PeerHears, TypeOK, LockInv
<1>3. FutInv'
  BY DEF IInv, PeerIgnores, PeerTakes, PeerHears, TypeOK, LockInv, FutInv
<1>4. WireInv'
  <2>1. /\ SentOnce' /\ InOut(r) /\ ~ InOut(r)' /\ (\A q \in Reqs : InOut(q)' => InOut(q))
        /\ UNCHANGED <<pc, reply>>
    BY TakenWire DEF IInv, PeerIgnores, PeerTakes
  <2>2. ~ InInq(r)
    BY <2>1 DEF IInv, WireInv, OutOrBack
  <2>4. /\ AnsweredOnce' /\ OwnedInv' /\ unsettled' = unsettled
        /\ \A q \in Reqs : InInq(q)' => InInq(q)
    BY DEF IInv, PeerIgnores, WireInv, AnsweredOnce, OwnedInv, InInq
  <2>5. OutOrBack'
    BY <2>1, <2>2, <2>4 DEF IInv, WireInv, OutOrBack
  <2>6. FlightInv'
    BY <2>1, <2>4 DEF IInv, WireInv, FlightInv, InFlight
  <2> QED BY <2>1, <2>4, <2>5, <2>6 DEF WireInv
<1>5. FlagInv'
  BY DEF IInv, PeerIgnores, PeerTakes, PeerHears, TypeOK, LockInv, FlagInv,
         IsExchange
<1>6. OnlyUnsettledStray'
  BY DEF IInv, PeerIgnores, PeerTakes, PeerHears, TypeOK, LockInv, FutInv,
         OnlyUnsettledStray
<1>7. NoUnexpectedOpcode'
  BY DEF IInv, PeerIgnores, PeerTakes, PeerHears, FutInv, NoUnexpectedOpcode
<1>8. SilenceIsNotNegotiated'
  BY DEF IInv, PeerIgnores, PeerTakes, PeerHears, TypeOK, LockInv, FlagInv,
         SilenceIsNotNegotiated
<1> QED BY <1>1, <1>2, <1>3, <1>4, <1>5, <1>6, <1>7, <1>8 DEF IInv

\* The peer's MTU request answers nobody.
LEMMA PeerExchangesMtuKeeps ==
  ASSUME IInv, PeerExchangesMtu
  PROVE  IInv'
<1>1. TypeOK'
  BY DEF IInv, PeerExchangesMtu, PeerHears, TypeOK
<1>2. LockInv'
  BY DEF IInv, PeerExchangesMtu, PeerHears, TypeOK, LockInv
<1>3. FutInv'
  BY DEF IInv, PeerExchangesMtu, PeerHears, TypeOK, LockInv, FutInv
<1>4. WireInv'
  <2> DEFINE p == [op |-> EXCHANGE_MTU_REQ, to |-> NoReq]
  <2>1. p \in Pdus /\ p.to = NoReq /\ p.op = EXCHANGE_MTU_REQ
    OBVIOUS
  <2>2. inq' = Append(inq, p) /\ UNCHANGED <<unsettled, out, pc, reply>>
    BY DEF PeerExchangesMtu
  <2> HIDE DEF p
  <2>3. /\ AnsweredOnce' /\ OwnedInv' /\ \A q \in Reqs : InInq(q)' => InInq(q)
    BY <2>1, <2>2, AnsweredWire DEF IInv
  <2>4. \A q \in Reqs : InOut(q)' <=> InOut(q)
    BY <2>2 DEF InOut
  <2> QED BY <2>2, <2>3, <2>4 DEF IInv, WireInv, SentOnce, OutOrBack, FlightInv, InFlight
<1>5. FlagInv'
  BY DEF IInv, PeerExchangesMtu, PeerHears, TypeOK, LockInv, FlagInv, IsExchange
<1>6. OnlyUnsettledStray'
  BY DEF IInv, PeerExchangesMtu, PeerHears, TypeOK, LockInv, FutInv,
         OnlyUnsettledStray
<1>7. NoUnexpectedOpcode'
  BY DEF IInv, PeerExchangesMtu, PeerHears, FutInv, NoUnexpectedOpcode
<1>8. SilenceIsNotNegotiated'
  BY DEF IInv, PeerExchangesMtu, PeerHears, TypeOK, LockInv, FlagInv,
         SilenceIsNotNegotiated
<1> QED BY <1>1, <1>2, <1>3, <1>4, <1>5, <1>6, <1>7, <1>8 DEF IInv

\* What the peer holds is lost with the link.
LEMMA LinkDownKeeps ==
  ASSUME IInv, LinkDown
  PROVE  IInv'
<1>1. TypeOK'
  <2>1. out' \in Seq(Reqs) /\ link' \in BOOLEAN
    BY EmptySeq DEF LinkDown
  <2>2. /\ pc' = pc /\ fut' = fut /\ reply' = reply /\ outcome' = outcome
        /\ holder' = holder /\ pending' = pending /\ waiters' = waiters
        /\ pendingOpcode' = pendingOpcode /\ mtu' = mtu
        /\ peerInitiatedMtu' = peerInitiatedMtu /\ beside' = beside
        /\ writer' = writer /\ woken' = woken /\ crossed' = crossed
        /\ heard' = heard /\ closed' = closed /\ inq' = inq
        /\ peerMtu' = peerMtu /\ dups' = dups /\ mtuReqs' = mtuReqs
        /\ unsettled' = unsettled
    BY DEF LinkDown, lockVars, mtuVars, sendVars, peerVars
  <2>3. TypeOK
    BY DEF IInv
  <2> QED BY <2>1, <2>2, <2>3, ZenonT(40) DEF TypeOK
<1>2. LockInv'
  BY DEF IInv, LinkDown, PeerHears, TypeOK, LockInv
<1>3. FutInv'
  BY DEF IInv, LinkDown, PeerHears, TypeOK, LockInv, FutInv
<1>4. WireInv'
  BY SMTT(40) DEF IInv, LinkDown, PeerHears, TypeOK, LockInv, FutInv, WireInv, SentOnce,
         AnsweredOnce, OutOrBack, OwnedInv, FlightInv, InOut, InInq, InFlight
<1>5. FlagInv'
  BY DEF IInv, LinkDown, PeerHears, TypeOK, LockInv, FlagInv, IsExchange
<1>6. OnlyUnsettledStray'
  BY DEF IInv, LinkDown, PeerHears, TypeOK, LockInv, FutInv, OnlyUnsettledStray
<1>7. NoUnexpectedOpcode'
  BY DEF IInv, LinkDown, PeerHears, FutInv, NoUnexpectedOpcode
<1>8. SilenceIsNotNegotiated'
  BY DEF IInv, LinkDown, PeerHears, TypeOK, LockInv, FlagInv,
         SilenceIsNotNegotiated
<1> QED BY <1>1, <1>2, <1>3, <1>4, <1>5, <1>6, <1>7, <1>8 DEF IInv

-----------------------------------------------------------------------------
(* The theorems.                                                           *)

\* Every step keeps the invariant, by the lemma of its action.
LEMMA NextKeeps ==
  ASSUME IInv, [Next]_vars
  PROVE  IInv'
<1>1. ASSUME NEW r \in Reqs, Caller(r)
      PROVE  IInv'
  BY <1>1, CallKeeps, AcquireKeeps, SendThroughKeeps, SendFailKeeps, SendPathKeeps,
     TimeoutKeeps, CancelAwaitKeeps, CancelSendKeeps, CancelWaitKeeps, ResumeKeeps DEF Caller
<1>2. CASE EventLoop
  BY <1>2, OnResponseKeeps, OnMtuReqKeeps, FailKeeps, CloseKeeps DEF EventLoop
<1>3. CASE Peer
  BY <1>3, PeerAnswersKeeps, PeerAnswersTwiceKeeps, PeerIgnoresKeeps,
     PeerExchangesMtuKeeps, LinkDownKeeps DEF Peer
<1>4. CASE UNCHANGED vars
  BY <1>4, SMTT(40) DEF vars, IInv, TypeOK, LockInv, FutInv, WireInv, SentOnce, AnsweredOnce,
     OutOrBack, OwnedInv, FlightInv, InOut, InInq, InFlight, FlagInv, IsExchange,
     OnlyUnsettledStray, NoUnexpectedOpcode, SilenceIsNotNegotiated
<1>5. ASSUME NEW a \in Asides, Beside(a)
      PROVE  IInv'
  BY <1>5, SendPathKeeps
<1> QED BY <1>1, <1>2, <1>3, <1>4, <1>5 DEF Next

\* IInv is inductive, so it holds throughout.
THEOREM Invariance == Spec => []IInv
<1>1. Init => IInv
  BY InitKeeps
<1>2. IInv /\ [Next]_vars => IInv'
  BY NextKeeps
<1> QED BY <1>1, <1>2, PTL DEF Spec

\* Every variable keeps its type; mtu stays within what the two sides allow.
THEOREM TypeCorrect == Spec => []TypeOK
<1>1. IInv => TypeOK
  BY DEF IInv
<1> QED BY <1>1, Invariance, PTL

\* A request is handed another's answer only if that answer was no longer
\* awaited by its own, or was sent twice.
THEOREM StrayOnlyUnsettled == Spec => []OnlyUnsettledStray
<1>1. IInv => OnlyUnsettledStray
  BY DEF IInv
<1> QED BY <1>1, Invariance, PTL

\* "unexpected ATT opcode" is never raised.
THEOREM OpcodeAlwaysExpected == Spec => []NoUnexpectedOpcode
<1>1. IInv => NoUnexpectedOpcode
  BY DEF IInv
<1> QED BY <1>1, Invariance, PTL

\* exchange_mtu succeeds after a timeout only on the peer's word.
THEOREM SilenceNeverNegotiates == Spec => []SilenceIsNotNegotiated
<1>1. IInv => SilenceIsNotNegotiated
  BY DEF IInv
<1> QED BY <1>1, Invariance, PTL

-----------------------------------------------------------------------------
(* AttClient implements AttBearer. One lemma per action.                   *)

\* The mapping, named: the queue, how each request stands, whose answer it got.
QueueOf(h, w) == (IF h = NoReq THEN <<>> ELSE <<h>>) \o w

StandingOf(p, o) ==
  [r \in Reqs |-> CASE p[r] # "done" -> "none"
                    [] o[r] \in Answered -> "answered"
                    [] OTHER -> "unanswered"]

SourceOf(o, y) == [r \in Reqs |-> IF o[r] \in Answered THEN y[r].to ELSE NoReq]

Queue == QueueOf(holder, waiters)
Standing == StandingOf(pc, outcome)
Source == SourceOf(outcome, reply)

\* A call has an outcome when it is over.
EndedInv == \A r \in Reqs : outcome[r] = "none" <=> pc[r] # "done"

\* What the mapping needs to know of a state.
MapInv == IInv /\ EndedInv

-----------------------------------------------------------------------------
(* The bearer's actions in terms of the mapping.                           *)

\* Submit, Refuse, Serve, Leave and Loosen, and the steps that the bearer does
\* not see.
LEMMA BearerActions ==
  ASSUME NEW r \in Reqs, NEW a
  PROVE  /\ Bearer!Submit(r) <=>
              /\ Standing[r] = "none" /\ ~ Contains(Queue, r)
              /\ Queue' = Append(Queue, r)
              /\ UNCHANGED <<Standing, Source, unsettled>>
         /\ Bearer!Refuse(r) <=>
              /\ Standing[r] = "none" /\ ~ Contains(Queue, r)
              /\ Standing' = [Standing EXCEPT ![r] = "unanswered"]
              /\ UNCHANGED <<Queue, Source, unsettled>>
         /\ Bearer!Serve(r, a) <=>
              /\ Queue # <<>> /\ r = Head(Queue)
              /\ a \in {r} \cup {NoReq} \cup unsettled
              /\ Queue' = Tail(Queue)
              /\ Standing' = [Standing EXCEPT ![r] = "answered"]
              /\ Source' = [Source EXCEPT ![r] = a]
              /\ unsettled' = IF a = r THEN unsettled ELSE unsettled \cup {r}
         /\ Bearer!Leave(r) <=>
              /\ \E k \in 1 .. Len(Queue) : Queue[k] = r /\ Queue' = RemoveAt(Queue, k)
              /\ Standing' = [Standing EXCEPT ![r] = "unanswered"]
              /\ unsettled' \in {unsettled, unsettled \cup {r}}
              /\ UNCHANGED Source
         /\ Bearer!Loosen(r) <=>
              /\ unsettled' = unsettled \cup {r}
              /\ UNCHANGED <<Queue, Standing, Source>>
         /\ UNCHANGED Bearer!bearerVars <=> UNCHANGED <<Queue, Standing, Source, unsettled>>
<1> USE DEF Queue, Standing, Source, QueueOf, StandingOf, SourceOf
<1>1. Bearer!Submit(r) <=>
        /\ Standing[r] = "none" /\ ~ Contains(Queue, r)
        /\ Queue' = Append(Queue, r)
        /\ UNCHANGED <<Standing, Source, unsettled>>
  BY DEF Bearer!Submit, Contains, Bearer!Contains
<1>2. Bearer!Refuse(r) <=>
        /\ Standing[r] = "none" /\ ~ Contains(Queue, r)
        /\ Standing' = [Standing EXCEPT ![r] = "unanswered"]
        /\ UNCHANGED <<Queue, Source, unsettled>>
  BY DEF Bearer!Refuse, Contains, Bearer!Contains
<1>3. Bearer!Serve(r, a) <=>
        /\ Queue # <<>> /\ r = Head(Queue)
        /\ a \in {r} \cup {NoReq} \cup unsettled
        /\ Queue' = Tail(Queue)
        /\ Standing' = [Standing EXCEPT ![r] = "answered"]
        /\ Source' = [Source EXCEPT ![r] = a]
        /\ unsettled' = IF a = r THEN unsettled ELSE unsettled \cup {r}
  BY DEF Bearer!Serve
<1>4. Bearer!Leave(r) <=>
        /\ \E k \in 1 .. Len(Queue) : Queue[k] = r /\ Queue' = RemoveAt(Queue, k)
        /\ Standing' = [Standing EXCEPT ![r] = "unanswered"]
        /\ unsettled' \in {unsettled, unsettled \cup {r}}
        /\ UNCHANGED Source
  BY DEF Bearer!Leave, RemoveAt, Bearer!RemoveAt
<1>5. Bearer!Loosen(r) <=>
        /\ unsettled' = unsettled \cup {r}
        /\ UNCHANGED <<Queue, Standing, Source>>
  BY DEF Bearer!Loosen
<1>6. UNCHANGED Bearer!bearerVars <=> UNCHANGED <<Queue, Standing, Source, unsettled>>
  BY DEF Bearer!bearerVars
<1> QED BY <1>1, <1>2, <1>3, <1>4, <1>5, <1>6

-----------------------------------------------------------------------------
(* The mapped values.                                                      *)

\* Where a call stands, given that it has an outcome when it is over.
LEMMA StandingShape ==
  ASSUME NEW p, NEW o, \A r \in Reqs : o[r] = "none" <=> p[r] # "done"
  PROVE  StandingOf(p, o) =
           [r \in Reqs |-> IF o[r] = "none" THEN "none"
                           ELSE IF o[r] \in Answered THEN "answered" ELSE "unanswered"]
<1>1. ASSUME NEW r \in Reqs
      PROVE  (CASE p[r] # "done" -> "none"
                [] o[r] \in Answered -> "answered"
                [] OTHER -> "unanswered") =
             (IF o[r] = "none" THEN "none"
              ELSE IF o[r] \in Answered THEN "answered" ELSE "unanswered")
  <2>1. CASE p[r] # "done"
    BY <2>1 DEF Answered
  <2>2. CASE p[r] = "done" /\ o[r] \in Answered
    BY <2>2
  <2>3. CASE p[r] = "done" /\ o[r] \notin Answered
    BY <2>3
  <2> QED BY <2>1, <2>2, <2>3
<1> QED BY <1>1 DEF StandingOf

\* The queue while nobody holds the lock.
LEMMA EmptyHanded ==
  ASSUME NEW w \in Seq(Reqs)
  PROVE  QueueOf(NoReq, w) = w
  BY ConcatEmptySeq DEF QueueOf

\* The queue while h holds the lock: h first, then the waiters.
LEMMA QueueShape ==
  ASSUME NEW h \in Reqs, NEW w \in Seq(Reqs)
  PROVE  LET q == QueueOf(h, w)
         IN /\ q \in Seq(Reqs) /\ q # <<>> /\ Head(q) = h /\ Tail(q) = w
            /\ Len(q) = Len(w) + 1 /\ q[1] = h
            /\ \A k \in 1 .. Len(w) : k + 1 \in 1 .. Len(q) /\ q[k + 1] = w[k]
<1> DEFINE g == <<h>>
           q == QueueOf(h, w)
<1>1. g \in Seq(Reqs) /\ Len(g) = 1 /\ g[1] = h
  OBVIOUS
<1>2. q = g \o w
  BY DEF QueueOf
<1> HIDE DEF g, q
<1>3. /\ q \in Seq(Reqs) /\ Len(q) = 1 + Len(w)
      /\ \A i \in 1 .. 1 + Len(w) : q[i] = IF i <= 1 THEN g[i] ELSE w[i - 1]
  <2>1. /\ g \o w \in Seq(Reqs) /\ Len(g \o w) = Len(g) + Len(w)
        /\ \A i \in 1 .. Len(g) + Len(w) :
             (g \o w)[i] = IF i <= Len(g) THEN g[i] ELSE w[i - Len(g)]
    <3>1. g \in Seq(Reqs) /\ w \in Seq(Reqs)
      BY <1>1
    <3> QED BY <3>1, ConcatProperties
  <2> QED BY <1>1, <1>2, <2>1
<1>4. Len(w) \in Nat
  BY LenProperties
<1>5. q # <<>> /\ q[1] = h
  <2>1. Len(q) # 0 /\ 1 \in 1 .. 1 + Len(w)
    BY <1>3, <1>4
  <2>2. q[1] = h
    BY <1>1, <1>3, <2>1
  <2> QED BY <1>3, <2>1, <2>2, EmptySeq
<1>6. ASSUME NEW k \in 1 .. Len(w)
      PROVE  k + 1 \in 1 .. Len(q) /\ q[k + 1] = w[k]
  <2>1. k + 1 \in 1 .. 1 + Len(w) /\ ~ (k + 1 <= 1) /\ (k + 1) - 1 = k
    BY <1>4
  <2> QED BY <1>3, <1>4, <2>1
<1>7. Head(q) = h
  BY <1>3, <1>5, HeadTail
<1>8. /\ Tail(q) \in Seq(Reqs) /\ Len(Tail(q)) = Len(w)
      /\ \A k \in 1 .. Len(w) : Tail(q)[k] = w[k]
  BY <1>3, <1>4, <1>5, <1>6, HeadTail
<1>9. Tail(q) = w
  BY <1>8, SeqEqual
<1> QED BY <1>3, <1>4, <1>5, <1>6, <1>7, <1>9 DEF q

\* Removing the first element leaves the tail.
LEMMA RemoveFirstIsTail ==
  ASSUME NEW S, NEW s \in Seq(S), s # <<>>
  PROVE  RemoveAt(s, 1) = Tail(s)
<1>1. Len(s) \in Nat /\ 1 \in 1 .. Len(s)
  BY HeadTail, LenProperties
<1>2. /\ RemoveAt(s, 1) \in Seq(S) /\ Len(RemoveAt(s, 1)) = Len(s) - 1
      /\ \A i \in 1 .. Len(s) - 1 : RemoveAt(s, 1)[i] = s[i + 1]
  BY <1>1, Removed
<1>3. /\ Tail(s) \in Seq(S) /\ Len(Tail(s)) = Len(s) - 1
      /\ \A i \in 1 .. Len(s) - 1 : Tail(s)[i] = s[i + 1]
  BY <1>1, HeadTail
<1> QED BY <1>2, <1>3, SeqEqual

\* The first waiter heads the queue already.
LEMMA QueueOfTail ==
  ASSUME NEW w \in Seq(Reqs), w # <<>>
  PROVE  QueueOf(Head(w), Tail(w)) = w
<1>0. PICK h \in Reqs, t \in Seq(Reqs) : h = Head(w) /\ t = Tail(w)
  BY HeadTail
<1> DEFINE q == QueueOf(h, t)
<1>1. h = w[1] /\ Len(t) = Len(w) - 1 /\ \A i \in 1 .. Len(t) : t[i] = w[i + 1]
  BY <1>0, HeadTail
<1>2. /\ q \in Seq(Reqs) /\ Len(q) = Len(t) + 1 /\ q[1] = h
      /\ \A k \in 1 .. Len(t) : q[k + 1] = t[k]
  BY QueueShape
<1> HIDE DEF q
<1>3. Len(w) \in Nat /\ Len(q) = Len(w)
  BY <1>1, <1>2, LenProperties
<1>4. ASSUME NEW i \in 1 .. Len(w)
      PROVE  q[i] = w[i]
  <2>1. CASE i = 1
    BY <1>1, <1>2, <2>1
  <2>2. CASE i # 1
    <3>1. i - 1 \in 1 .. Len(t) /\ (i - 1) + 1 = i
      BY <1>1, <1>3, <2>2
    <3> QED BY <1>1, <1>2, <3>1
  <2> QED BY <2>1, <2>2
<1>5. q = w
  BY <1>2, <1>3, <1>4, SeqEqual
<1> QED BY <1>0, <1>5 DEF q

\* Who joins the waiters joins the queue.
LEMMA JoinQueue ==
  ASSUME NEW h \in Reqs \cup {NoReq}, NEW w \in Seq(Reqs), NEW r \in Reqs
  PROVE  QueueOf(h, Append(w, r)) = Append(QueueOf(h, w), r)
<1> DEFINE g == IF h = NoReq THEN <<>> ELSE <<h>>
<1>1. g \in Seq(Reqs) /\ <<r>> \in Seq(Reqs)
  OBVIOUS
<1>2. g \o w \in Seq(Reqs) /\ QueueOf(h, w) = g \o w
      /\ QueueOf(h, Append(w, r)) = g \o Append(w, r)
  BY <1>1, ConcatProperties DEF QueueOf
<1> HIDE DEF g
<1>3. Append(w, r) = w \o <<r>> /\ Append(g \o w, r) = (g \o w) \o <<r>>
  BY <1>2, AppendIsConcat
<1> QED BY <1>1, <1>2, <1>3, ConcatAssociative

\* Who leaves the waiters leaves the queue.
LEMMA LeaveQueue ==
  ASSUME NEW h \in Reqs \cup {NoReq}, NEW w \in Seq(Reqs), NEW k \in 1 .. Len(w)
  PROVE  \E j \in 1 .. Len(QueueOf(h, w)) :
            /\ QueueOf(h, w)[j] = w[k]
            /\ QueueOf(h, RemoveAt(w, k)) = RemoveAt(QueueOf(h, w), j)
<1>1. /\ RemoveAt(w, k) \in Seq(Reqs) /\ Len(RemoveAt(w, k)) = Len(w) - 1 /\ Len(w) \in Nat
      /\ \A i \in 1 .. Len(w) - 1 : RemoveAt(w, k)[i] = IF i < k THEN w[i] ELSE w[i + 1]
  BY Removed, LenProperties
<1>2. CASE h = NoReq
  BY <1>1, <1>2, EmptyHanded
<1>3. CASE h # NoReq
  <2> DEFINE q == QueueOf(h, w)
             v == RemoveAt(w, k)
             u == QueueOf(h, v)
             t == RemoveAt(q, k + 1)
  <2>1. /\ q \in Seq(Reqs) /\ Len(q) = Len(w) + 1 /\ q[1] = h
        /\ \A i \in 1 .. Len(w) : i + 1 \in 1 .. Len(q) /\ q[i + 1] = w[i]
    BY <1>3, QueueShape
  <2>a. h \in Reqs /\ v \in Seq(Reqs)
    BY <1>1, <1>3
  <2>2. /\ u \in Seq(Reqs) /\ Len(u) = Len(v) + 1 /\ u[1] = h
        /\ \A i \in 1 .. Len(v) : i + 1 \in 1 .. Len(u) /\ u[i + 1] = v[i]
    <3> HIDE DEF v
    <3> QED BY <2>a, QueueShape
  <2> HIDE DEF q, u
  <2>3. k + 1 \in 1 .. Len(q) /\ Len(q) \in Nat
    BY <1>1, <2>1
  <2>4. /\ t \in Seq(Reqs) /\ Len(t) = Len(q) - 1
        /\ \A i \in 1 .. Len(q) - 1 : t[i] = IF i < k + 1 THEN q[i] ELSE q[i + 1]
    BY <2>1, <2>3, Removed
  <2> HIDE DEF t
  <2>5. ASSUME NEW i \in 1 .. Len(u)
        PROVE  u[i] = t[i]
    <3>1. CASE i = 1
      BY <1>1, <2>1, <2>2, <2>3, <2>4, <3>1
    <3>2. CASE i # 1
      <4> DEFINE j == i - 1
      <4>1. j \in 1 .. Len(v) /\ i = j + 1 /\ i \in 1 .. Len(q) - 1
        BY <1>1, <2>1, <2>2, <3>2
      <4> HIDE DEF j
      <4>2. u[i] = IF j < k THEN w[j] ELSE w[j + 1]
        BY <1>1, <2>2, <4>1
      <4>3. t[i] = IF j < k THEN q[j + 1] ELSE q[(j + 1) + 1]
        BY <1>1, <2>4, <4>1
      <4>4. j \in 1 .. Len(w) /\ j + 1 \in 1 .. Len(w)
        BY <1>1, <4>1
      <4>5. q[j + 1] = w[j] /\ q[(j + 1) + 1] = w[j + 1]
        BY <2>1, <4>4
      <4> QED BY <4>2, <4>3, <4>5
    <3> QED BY <3>1, <3>2
  <2>6. u = t
    BY <1>1, <2>1, <2>2, <2>4, <2>5, SeqEqual
  <2> QED BY <2>1, <2>3, <2>6 DEF q, u, t
<1> QED BY <1>2, <1>3

-----------------------------------------------------------------------------
(* Steps of the client, by what the bearer sees of them.                   *)

\* What a state with the invariant says of the mapping's parts.
LEMMA MapTyped ==
  ASSUME MapInv
  PROVE  /\ waiters \in Seq(Reqs) /\ holder \in Reqs \cup {NoReq}
         /\ pc \in [Reqs -> {"idle", "lock", "send", "await", "done"}]
         /\ outcome \in [Reqs -> Outcomes] /\ reply \in [Reqs -> Pdus]
         /\ Queue \in Seq(Reqs)
         /\ Standing = [r \in Reqs |-> IF outcome[r] = "none" THEN "none"
                                       ELSE IF outcome[r] \in Answered THEN "answered"
                                       ELSE "unanswered"]
<1>1. /\ waiters \in Seq(Reqs) /\ holder \in Reqs \cup {NoReq}
      /\ pc \in [Reqs -> {"idle", "lock", "send", "await", "done"}]
      /\ outcome \in [Reqs -> Outcomes] /\ reply \in [Reqs -> Pdus]
  BY DEF MapInv, IInv, TypeOK
<1>2. Queue \in Seq(Reqs)
  BY <1>1, EmptyHanded, QueueShape DEF Queue
<1>3. Standing = [r \in Reqs |-> IF outcome[r] = "none" THEN "none"
                                 ELSE IF outcome[r] \in Answered THEN "answered"
                                 ELSE "unanswered"]
  BY StandingShape DEF MapInv, EndedInv, Standing
<1> QED BY <1>1, <1>2, <1>3

\* The outcomes say how requests stand after a step as well.
LEMMA StandingNext ==
  ASSUME EndedInv'
  PROVE  Standing' = [r \in Reqs |-> IF outcome'[r] = "none" THEN "none"
                                     ELSE IF outcome'[r] \in Answered THEN "answered"
                                     ELSE "unanswered"]
  BY StandingShape DEF EndedInv, Standing

\* A step that ends no call and leaves the lock and the answers handed out.
LEMMA Unseen ==
  ASSUME MapInv, EndedInv', UNCHANGED <<holder, waiters, outcome, unsettled>>,
         \A r \in Reqs : outcome[r] \in Answered => reply'[r] = reply[r]
  PROVE  UNCHANGED <<Queue, Standing, Source, unsettled>>
<1>1. Queue' = Queue
  BY DEF Queue, QueueOf
<1>2. Standing' = Standing
  BY MapTyped, StandingNext
<1>3. Source' = Source
  BY DEF Source, SourceOf
<1> QED BY <1>1, <1>2, <1>3

\* A request that fails: r ends with an outcome that is no answer.
LEMMA Fails ==
  ASSUME MapInv, EndedInv', NEW r \in Reqs, pc[r] # "done",
         NEW how \in Outcomes \ (Answered \cup {"none"}),
         outcome' = [outcome EXCEPT ![r] = how],
         \A q \in Reqs : outcome[q] \in Answered => reply'[q] = reply[q]
  PROVE  /\ Standing' = [Standing EXCEPT ![r] = "unanswered"]
         /\ Source' = Source
<1>1. outcome \in [Reqs -> Outcomes] /\ outcome[r] = "none"
  BY MapTyped DEF MapInv, EndedInv
<1>2. Standing' = [Standing EXCEPT ![r] = "unanswered"]
  BY <1>1, MapTyped, StandingNext
<1>3. Source' = Source
  BY <1>1 DEF Source, SourceOf, Answered
<1> QED BY <1>2, <1>3

\* The holder of the lock gives it up without an answer.
LEMMA HolderLeaves ==
  ASSUME MapInv, EndedInv', NEW r \in Reqs, pc[r] \in {"send", "await"},
         NEW how \in Outcomes \ (Answered \cup {"none"}),
         outcome' = [outcome EXCEPT ![r] = how],
         holder' = NoReq, waiters' = waiters,
         unsettled' \in {unsettled, unsettled \cup {r}},
         \A q \in Reqs : outcome[q] \in Answered => reply'[q] = reply[q]
  PROVE  Bearer!Leave(r)
<1>1. holder = r /\ waiters \in Seq(Reqs)
  BY MapTyped DEF MapInv, IInv, LockInv
<1>2. Queue # <<>> /\ Queue[1] = r /\ Tail(Queue) = waiters /\ Queue \in Seq(Reqs)
  BY <1>1, QueueShape DEF Queue
<1>3. Queue' = waiters
  BY <1>1, EmptyHanded DEF Queue
<1>4. 1 \in 1 .. Len(Queue) /\ Queue' = RemoveAt(Queue, 1)
  BY <1>2, <1>3, HeadTail, RemoveFirstIsTail
<1>5. Standing' = [Standing EXCEPT ![r] = "unanswered"] /\ Source' = Source
  BY Fails
<1> QED BY <1>2, <1>4, <1>5, BearerActions

\* A call gets its outcome when it ends, in every step.
LEMMA EndedKeeps ==
  ASSUME MapInv, [Next]_vars
  PROVE  EndedInv'
<1> USE DEF MapInv, EndedInv, IInv, TypeOK, Begin, SendErrors, Outcomes
<1>1. ASSUME NEW r \in Reqs, Caller(r)
      PROVE  EndedInv'
  <2>1. CASE Call(r)
    BY <2>1 DEF Call
  <2>2. CASE Acquire(r)
    <3>1. r = waiters[1] /\ 1 \in 1 .. Len(waiters)
      BY <2>2, HeadTail DEF Acquire
    <3>2. pc[r] = "lock"
      BY <3>1 DEF LockInv
    <3> QED BY <2>2, <3>2 DEF Acquire
  <2>3. CASE SendThrough(r)
    BY <2>3 DEF SendThrough
  <2>4. CASE SendFail(r)
    BY <2>4 DEF SendFail, SendRaises, SendErrors
  <2>5. CASE Timeout(r) \/ CancelAwait(r)
    BY <2>5 DEF Timeout, CancelAwait
  <2>6. CASE CancelSend(r)
    BY <2>6 DEF CancelSend, SendRaises
  <2>7. CASE CancelWait(r)
    BY <2>7 DEF CancelWait
  <2>8. CASE Resume(r)
    <3>1. Result(r) \in Outcomes \ {"none"}
      BY DEF Result
    <3> QED BY <2>8, <3>1 DEF Resume
  <2>9. CASE Wake(r) \/ SendBlocksAgain(r)
    BY <2>9, SendPathKeeps DEF OnlySendPath
  <2> QED BY <1>1, <2>1, <2>2, <2>3, <2>4, <2>5, <2>6, <2>7, <2>8, <2>9 DEF Caller
<1>2. CASE EventLoop
  BY <1>2 DEF EventLoop, OnResponse, OnMtuReq, Fail, Close
<1>3. CASE Peer
  BY <1>3 DEF Peer, PeerAnswers, PeerAnswersTwice, PeerIgnores, PeerTakes,
              PeerExchangesMtu, LinkDown
<1>4. CASE UNCHANGED vars
  BY <1>4 DEF vars
<1>5. ASSUME NEW a \in Asides, Beside(a)
      PROVE  EndedInv'
  BY <1>5, SendPathKeeps DEF OnlySendPath
<1> QED BY <1>1, <1>2, <1>3, <1>4, <1>5 DEF Next

-----------------------------------------------------------------------------
(* One lemma per action that the bearer sees.                              *)

\* _request starts: it takes the lock at once, joins the waiters, or fails.
LEMMA CallMaps ==
  ASSUME MapInv, EndedInv', NEW r \in Reqs, Call(r)
  PROVE  Bearer!Submit(r) \/ Bearer!Refuse(r)
<1>1. /\ waiters \in Seq(Reqs) /\ holder \in Reqs \cup {NoReq} /\ pc[r] = "idle"
      /\ UNCHANGED <<reply, unsettled>>
  BY MapTyped DEF Call
<1>2. Standing[r] = "none" /\ outcome[r] = "none"
  BY <1>1, MapTyped DEF MapInv, EndedInv
<1>3. holder # r /\ \A k \in 1 .. Len(waiters) : waiters[k] # r
  BY <1>1 DEF MapInv, IInv, LockInv
<1>4. ~ Contains(Queue, r)
  <2>1. CASE holder = NoReq
    BY <1>1, <1>3, <2>1, EmptyHanded DEF Queue, Contains
  <2>2. CASE holder # NoReq
    <3>1. ASSUME NEW k \in 1 .. Len(Queue)
          PROVE  Queue[k] # r
      <4>1. /\ Len(Queue) = Len(waiters) + 1 /\ Queue[1] = holder /\ Len(waiters) \in Nat
            /\ \A i \in 1 .. Len(waiters) : Queue[i + 1] = waiters[i]
        BY <1>1, <2>2, QueueShape, LenProperties DEF Queue
      <4>2. CASE k = 1
        BY <1>3, <4>1, <4>2
      <4>3. CASE k # 1
        <5>1. k - 1 \in 1 .. Len(waiters) /\ (k - 1) + 1 = k
          BY <4>1, <4>3
        <5> QED BY <1>3, <4>1, <5>1, ZenonT(30), ZenonT(30)
      <4> QED BY <4>2, <4>3
    <3> QED BY <3>1 DEF Contains
  <2> QED BY <2>1, <2>2
<1>5. CASE LockFree /\ Begin(r, FlagAtCall(r)) /\ waiters' = waiters
  <2>1. Queue = <<>>
    BY <1>1, <1>5, EmptyHanded DEF LockFree, Queue
  <2>2. CASE CanSend
    <3>1. holder' = r /\ outcome' = outcome
      BY <1>5, <2>2 DEF Begin
    <3>2. Queue' = <<r>>
      BY <1>1, <1>5, <3>1 DEF Queue, QueueOf, LockFree
    <3>3. Queue' = Append(Queue, r)
      BY <2>1, <3>2
    <3>4. Standing' = Standing
      BY <3>1, MapTyped, StandingNext
    <3>5. Source' = Source
      BY <1>1, <3>1 DEF Source, SourceOf
    <3> QED BY <1>1, <1>2, <1>4, <3>3, <3>4, <3>5, BearerActions
  <2>3. CASE ~ CanSend
    <3>1. PICK how \in {"failed", "peer_mtu"} :
            holder' = NoReq /\ outcome' = [outcome EXCEPT ![r] = how]
      BY <1>5, <2>3 DEF Begin, SendErrors
    <3>2. Queue' = Queue
      BY <1>5, <3>1 DEF Queue, QueueOf, LockFree
    <3>3. Standing' = [Standing EXCEPT ![r] = "unanswered"] /\ Source' = Source
      BY <1>1, <3>1, Fails DEF Outcomes, Answered
    <3> QED BY <1>1, <1>2, <1>4, <3>2, <3>3, BearerActions
  <2> QED BY <2>2, <2>3
<1>6. CASE /\ waiters' = Append(waiters, r)
           /\ UNCHANGED <<outcome, holder>>
  <2>1. Queue' = Append(Queue, r)
    BY <1>1, <1>6, JoinQueue DEF Queue
  <2>2. Standing' = Standing
    BY <1>6, MapTyped, StandingNext
  <2>3. Source' = Source
    BY <1>1, <1>6 DEF Source, SourceOf
  <2> QED BY <1>1, <1>2, <1>4, <2>1, <2>2, <2>3, BearerActions
<1> QED BY <1>5, <1>6 DEF Call

\* The first waiter takes the free lock: it was first in the queue already; or
\* it finds the socket unusable and leaves.
LEMMA AcquireMaps ==
  ASSUME MapInv, EndedInv', NEW r \in Reqs, Acquire(r)
  PROVE  Bearer!Leave(r) \/ UNCHANGED Bearer!bearerVars
<1>1. /\ waiters \in Seq(Reqs) /\ holder = NoReq /\ waiters # <<>> /\ Head(waiters) = r
      /\ waiters' = Tail(waiters) /\ Begin(r, peerInitiatedMtu)
      /\ UNCHANGED <<reply, unsettled>>
  BY MapTyped DEF Acquire
<1>2. /\ waiters[1] = r /\ Tail(waiters) \in Seq(Reqs) /\ 1 \in 1 .. Len(waiters)
  BY <1>1, HeadTail
<1>3. Queue = waiters
  BY <1>1, EmptyHanded DEF Queue
<1>4. CASE CanSend
  <2>1. holder' = r /\ outcome' = outcome
    BY <1>1, <1>4 DEF Begin
  <2>2. Queue' = waiters
    BY <1>1, <1>2, <2>1, QueueOfTail DEF Queue
  <2>3. Standing' = Standing
    BY <2>1, MapTyped, StandingNext
  <2>4. Source' = Source
    BY <1>1, <2>1 DEF Source, SourceOf
  <2> QED BY <1>1, <1>3, <2>2, <2>3, <2>4, BearerActions
<1>5. CASE ~ CanSend
  <2>1. PICK how \in {"failed", "peer_mtu"} :
          holder' = NoReq /\ outcome' = [outcome EXCEPT ![r] = how]
    BY <1>1, <1>5 DEF Begin, SendErrors
  <2>2. Queue' = RemoveAt(Queue, 1)
    BY <1>1, <1>2, <1>3, <2>1, EmptyHanded, RemoveFirstIsTail DEF Queue
  <2>3. pc[r] # "done"
    BY <1>2 DEF MapInv, IInv, LockInv
  <2>4. Standing' = [Standing EXCEPT ![r] = "unanswered"] /\ Source' = Source
    BY <1>1, <2>1, <2>3, Fails DEF Outcomes, Answered
  <2> QED BY <1>1, <1>2, <1>3, <2>2, <2>4, BearerActions
<1> QED BY <1>4, <1>5

\* A blocked send fails or is cancelled.
LEMMA SendEndsMaps ==
  ASSUME MapInv, EndedInv', NEW r \in Reqs, SendFail(r) \/ CancelSend(r)
  PROVE  Bearer!Leave(r)
<1>1. PICK how \in {"failed", "peer_mtu"} : SendRaises(r, how)
  BY DEF SendFail, CancelSend, SendErrors
<1>2. /\ pc[r] = "send" /\ waiters' = waiters /\ unsettled' = unsettled
      /\ holder' = NoReq /\ outcome' = [outcome EXCEPT ![r] = how]
      /\ reply' = [reply EXCEPT ![r] = NoPdu]
  BY <1>1 DEF SendRaises
<1>3. outcome[r] = "none"
  BY <1>2 DEF MapInv, EndedInv
<1>4. \A q \in Reqs : outcome[q] \in Answered => reply'[q] = reply[q]
  BY <1>2, <1>3, MapTyped DEF Answered
<1> QED BY <1>2, <1>4, HolderLeaves DEF Outcomes, Answered

\* A waiter is cancelled, wherever it stands in the queue.
LEMMA CancelWaitMaps ==
  ASSUME MapInv, EndedInv', NEW r \in Reqs, CancelWait(r)
  PROVE  Bearer!Leave(r)
<1>1. PICK k \in 1 .. Len(waiters) : waiters[k] = r /\ waiters' = RemoveAt(waiters, k)
  BY DEF CancelWait
<1>2. /\ outcome' = [outcome EXCEPT ![r] = "failed"]
      /\ UNCHANGED <<reply, holder, unsettled>>
  BY DEF CancelWait
<1>3. pc[r] # "done"
  BY <1>1 DEF MapInv, IInv, LockInv
<1>4. Standing' = [Standing EXCEPT ![r] = "unanswered"] /\ Source' = Source
  BY <1>2, <1>3, Fails DEF Outcomes, Answered
<1>5. waiters \in Seq(Reqs) /\ holder \in Reqs \cup {NoReq}
  BY MapTyped
<1>6. \E j \in 1 .. Len(QueueOf(holder, waiters)) :
         /\ QueueOf(holder, waiters)[j] = waiters[k]
         /\ QueueOf(holder, RemoveAt(waiters, k)) = RemoveAt(QueueOf(holder, waiters), j)
  BY <1>5, LeaveQueue
<1>7. \E j \in 1 .. Len(Queue) : Queue[j] = r /\ Queue' = RemoveAt(Queue, j)
  BY <1>1, <1>2, <1>6 DEF Queue
<1> QED BY <1>2, <1>4, <1>7, BearerActions

\* _request resumes: with an answer the oldest request is served, without one
\* it leaves the queue.
LEMMA ResumeMaps ==
  ASSUME MapInv, EndedInv', NEW r \in Reqs, Resume(r)
  PROVE  Bearer!Leave(r) \/ \E a \in Reqs \cup {NoReq} : Bearer!Serve(r, a)
<1>1. /\ pc[r] = "await" /\ waiters' = waiters /\ holder' = NoReq
      /\ outcome' = [outcome EXCEPT ![r] = Result(r)]
      /\ unsettled' = IF reply[r].to = r THEN unsettled ELSE unsettled \cup {r}
      /\ reply' = IF Result(r) \in Answered THEN reply ELSE [reply EXCEPT ![r] = NoPdu]
  BY DEF Resume
<1>2. outcome[r] = "none" /\ holder = r /\ waiters \in Seq(Reqs)
  BY <1>1, MapTyped DEF MapInv, EndedInv, IInv, LockInv
<1>3. Result(r) \in Outcomes \ {"none"}
  BY DEF Result, Outcomes
<1>4. CASE Result(r) \in Answered
  <2>0. /\ reply[r].to \in Reqs \cup {NoReq}
        /\ reply[r].to \in {r} \cup {NoReq} \cup unsettled
    BY DEF MapInv, IInv, OnlyUnsettledStray, TypeOK
  <2>1. PICK a \in Reqs \cup {NoReq} :
          a = reply[r].to /\ a \in {r} \cup {NoReq} \cup unsettled
    BY <2>0
  <2>2. Queue # <<>> /\ r = Head(Queue) /\ Tail(Queue) = waiters
    BY <1>2, QueueShape DEF Queue
  <2>3. Queue' = Tail(Queue)
    BY <1>1, <1>2, <2>2, EmptyHanded DEF Queue
  <2>4. Standing' = [Standing EXCEPT ![r] = "answered"]
    BY <1>1, <1>3, <1>4, MapTyped, StandingNext
  <2>5. Source' = [Source EXCEPT ![r] = a]
    <3>1. reply' = reply /\ outcome \in [Reqs -> Outcomes]
      BY <1>1, <1>4, MapTyped
    <3> QED BY <1>1, <1>4, <2>1, <3>1 DEF Source, SourceOf
  <2>6. unsettled' = IF a = r THEN unsettled ELSE unsettled \cup {r}
    BY <1>1, <2>1
  <2>7. Bearer!Serve(r, a)
    BY <2>1, <2>2, <2>3, <2>4, <2>5, <2>6, BearerActions
  <2> QED BY <2>1, <2>7
<1>5. CASE Result(r) \notin Answered
  <2>1. \A q \in Reqs : outcome[q] \in Answered => reply'[q] = reply[q]
    BY <1>1, <1>2, <1>5, MapTyped DEF Answered
  <2>2. Result(r) \in Outcomes \ (Answered \cup {"none"})
    BY <1>3, <1>5
  <2>3. Bearer!Leave(r)
    BY <1>1, <2>1, <2>2, HolderLeaves
  <2> QED BY <2>3
<1> QED BY <1>4, <1>5

\* A future is resolved only for a request that is not over.
LEMMA ResolveUnseen ==
  ASSUME MapInv, Awaited, NEW p, Resolve(p)
  PROVE  \A q \in Reqs : outcome[q] \in Answered => reply'[q] = reply[q]
<1>1. holder = pending /\ pending \in Reqs
  BY DEF MapInv, IInv, LockInv, Awaited, TypeOK
<1>2. pc[pending] # "done"
  BY <1>1 DEF MapInv, IInv, LockInv
<1>3. outcome[pending] = "none"
  BY <1>1, <1>2 DEF MapInv, EndedInv
<1> QED BY <1>3, MapTyped DEF Resolve, Answered

\* Blocked sends while they last, timers, cancellations of the awaited future,
\* everything _on_data does, the end of the link and of the socket, the asides
\* and most of what the peer does.
LEMMA UnseenSteps ==
  ASSUME MapInv, EndedInv',
         \/ \E r \in Reqs : \/ Timeout(r) \/ CancelAwait(r) \/ SendThrough(r)
                            \/ Wake(r) \/ SendBlocksAgain(r)
                            \/ PeerAnswers(r) \/ PeerIgnores(r)
         \/ \E a \in Asides : Beside(a)
         \/ EventLoop \/ PeerExchangesMtu \/ LinkDown
         \/ UNCHANGED vars
  PROVE  UNCHANGED Bearer!bearerVars
<1>1. UNCHANGED <<holder, waiters, outcome, unsettled>>
  BY DEF Timeout, CancelAwait, SendThrough, Wake, SendBlocksAgain, Beside, AsideBlocks,
         AsideEnds, PeerAnswers, PeerIgnores, PeerTakes, EventLoop, OnResponse, OnMtuReq, Fail, Close, PeerExchangesMtu, LinkDown, vars
<1>2. \A q \in Reqs : outcome[q] \in Answered => reply'[q] = reply[q]
  <2>1. \/ reply' = reply
        \/ \E p : Awaited /\ Resolve(p)
    BY DEF Timeout, CancelAwait, SendThrough, Wake, SendBlocksAgain, Beside, AsideBlocks,
           AsideEnds, PeerAnswers, PeerIgnores, PeerTakes, EventLoop, OnResponse, OnMtuReq, Fail, Close, PeerExchangesMtu, LinkDown, vars, Deliverable
  <2> QED BY <2>1, ResolveUnseen
<1>3. UNCHANGED <<Queue, Standing, Source, unsettled>>
  BY <1>1, <1>2, Unseen
<1>4. CASE Reqs = {}
  BY <1>3 DEF Bearer!bearerVars, Queue, Standing, Source, QueueOf, StandingOf, SourceOf
<1>5. CASE Reqs # {}
  BY <1>3, <1>5, BearerActions
<1> QED BY <1>4, <1>5

\* A second answer to one request: its answer may reach another now.
LEMMA PeerAnswersTwiceMaps ==
  ASSUME MapInv, EndedInv', NEW r \in Reqs, PeerAnswersTwice(r)
  PROVE  Bearer!Loosen(r)
<1>1. UNCHANGED <<holder, waiters, outcome, reply, pc>> /\ unsettled' = unsettled \cup {r}
  BY DEF PeerAnswersTwice, PeerTakes
<1>2. UNCHANGED <<Queue, Standing, Source>>
  BY <1>1 DEF Queue, Standing, Source, QueueOf, StandingOf, SourceOf
<1> QED BY <1>1, <1>2, BearerActions

-----------------------------------------------------------------------------
\* Every step of the client is a step of the bearer or none.
LEMMA StepMaps ==
  ASSUME MapInv, [Next]_vars
  PROVE  [Bearer!BearerNext]_(Bearer!bearerVars)
<1>1. EndedInv'
  BY EndedKeeps
<1>2. ASSUME NEW r \in Reqs,
             \/ Bearer!Submit(r) \/ Bearer!Refuse(r) \/ Bearer!Leave(r) \/ Bearer!Loosen(r)
             \/ \E a \in Reqs \cup {NoReq} : Bearer!Serve(r, a)
      PROVE  Bearer!BearerNext
  BY <1>2 DEF Bearer!BearerNext
<1>3. ASSUME NEW r \in Reqs, Caller(r)
      PROVE  [Bearer!BearerNext]_(Bearer!bearerVars)
  BY <1>1, <1>2, <1>3, CallMaps, AcquireMaps, SendEndsMaps, CancelWaitMaps, ResumeMaps,
     UnseenSteps DEF Caller
<1>4. CASE EventLoop
  BY <1>1, <1>4, UnseenSteps
<1>5. CASE Peer
  BY <1>1, <1>2, <1>5, PeerAnswersTwiceMaps, UnseenSteps DEF Peer
<1>6. CASE UNCHANGED vars
  BY <1>1, <1>6, UnseenSteps
<1>7. ASSUME NEW a \in Asides, Beside(a)
      PROVE  [Bearer!BearerNext]_(Bearer!bearerVars)
  BY <1>1, <1>7, UnseenSteps
<1> QED BY <1>3, <1>4, <1>5, <1>6, <1>7 DEF Next

\* The mapping's invariant: a call has an outcome exactly when it is over.
THEOREM MapInvariance == Spec => []MapInv
<1>1. Init => EndedInv
  BY DEF Init, EndedInv
<1>2. MapInv /\ [Next]_vars => EndedInv'
  BY EndedKeeps
<1>3. IInv /\ EndedInv <=> MapInv
  BY DEF MapInv
<1> QED BY <1>1, <1>2, <1>3, Invariance, PTL DEF Spec

\* The transaction engine serves requests one at a time, in the order in which
\* they were made, ends each once, and hands out no answer that was not loose.
THEOREM Refinement == Spec => ServesInOrder
<1>1. Init => Bearer!BearerInit
  <2>1. ASSUME Init
        PROVE  Bearer!BearerInit
    <3>1. QueueOf(holder, waiters) = <<>>
      BY <2>1, EmptyHanded, EmptySeq DEF Init
    <3> QED BY <2>1, <3>1 DEF Init, Bearer!BearerInit, QueueOf, Answered
  <2> QED BY <2>1
<1>2. MapInv /\ [Next]_vars => [Bearer!BearerNext]_(Bearer!bearerVars)
  BY StepMaps
<1> QED BY <1>1, <1>2, MapInvariance, PTL DEF Spec, ServesInOrder, Bearer!BearerSpec
====
