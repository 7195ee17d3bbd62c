---- MODULE ClientProofs ----
(***************************************************************************)
(* What BleakClient says of its connection is true, for any tasks and any  *)
(* number of calls and connections. The argument is IInv of Client: a call *)
(* works on the connection that it began with, an unsubscribed connection  *)
(* has neither a handler nor the peer's notifications, and only tasks in   *)
(* progress on a connection make the two differ.                           *)
(***************************************************************************)
EXTENDS Client, TLAPS

USE BoundsAssumption
USE DEF clientVars, connVars, taskVars, ghostVars, Conns, None, Awaits

-----------------------------------------------------------------------------
(* The two parts of TypeOK, and what leaves the other invariants alone.    *)

FlagsTyped == {connected, recorded, stacked} \subseteq BOOLEAN

RestTyped ==
  /\ att \in Conns \cup {None}
  /\ sock \in [Conns -> {"new", "open", "closed", "failed"}]
  /\ up \in [Conns -> BOOLEAN] /\ handler \in [Conns -> BOOLEAN] /\ cccd \in [Conns -> BOOLEAN]
  /\ pc \in [Users -> {"idle", "connect"} \cup Awaits]
  /\ on \in [Users -> Conns \cup {None}]
  /\ fut \in [Users -> {"none", "pending", "ok", "error", "gone"}]
  /\ calls \in 0 .. MaxCalls
  /\ fired \in [Conns -> Nat]
  /\ untidy \subseteq Conns /\ recordedBy \subseteq Conns
  /\ \A t \in Users : pc[t] \in Awaits <=> fut[t] # "none"
  /\ \A t \in Users : pc[t] \in Awaits <=> on[t] # None

\* TypeOK is the flags' types and the others'.
LEMMA TypeParts ==
  /\ TypeOK <=> FlagsTyped /\ RestTyped
  /\ TypeOK' <=> FlagsTyped' /\ RestTyped'
  BY DEF TypeOK, FlagsTyped, RestTyped

\* What follows only from the client's own fields and the sockets.
LEMMA SocketsStand ==
  ASSUME IInv, UNCHANGED <<att, connected, sock, stacked, fired>>
  PROVE  AgreesWithSocket' /\ LossReportedOnce'
  BY DEF IInv, AgreesWithSocket, LossReportedOnce

\* Calls that neither subscribe nor unsubscribe: they may come and go, the
\* client may lose its connection or have a fresh one.
LEMMA CallsStand ==
  ASSUME IInv, UNCHANGED <<handler, cccd, untidy>>,
         \A t \in Users :
           \/ pc'[t] = pc[t] /\ on'[t] = on[t] /\ (fut'[t] = fut[t] \/ fut'[t] # "ok")
           \/ pc[t] \notin {"on", "off"} /\ pc'[t] \notin {"on", "off"},
         \/ ~ connected' /\ ~ recorded' /\ recordedBy' = {}
         \/ /\ UNCHANGED <<recorded, recordedBy>>
            /\ \/ ~ connected'
               \/ UNCHANGED <<att, connected>>
               \/ att' \in Conns /\ sock[att'] = "new"
  PROVE  OneByOne' /\ HandledInv' /\ RecordInv'
<1>1. OneByOne'
  BY DEF IInv, OneByOne
<1>2. ASSUME NEW c \in Conns
      PROVE  InProgress(c)' <=> InProgress(c)
  BY DEF InProgress
<1>3. HandledInv'
  BY <1>2 DEF IInv, HandledInv, FreshInv
<1>4. RecordInv'
  BY DEF IInv, RecordInv
<1> QED BY <1>1, <1>3, <1>4

-----------------------------------------------------------------------------
(* Requests.                                                               *)

\* The peer answers a request.
LEMMA AnsweredKeeps ==
  ASSUME IInv, NEW t \in Users, Answered(t)
  PROVE  IInv'
<1>1. RestTyped /\ FlagsTyped
  BY TypeParts DEF IInv
<1>2. FlagsTyped'
  BY <1>1, Zenon DEF Answered, FlagsTyped
<1>3. RestTyped'
  BY <1>1, ZenonT(30) DEF Answered, RestTyped, Written
<1>4. AgreesWithSocket' /\ LossReportedOnce'
  BY SocketsStand DEF Answered
<1>5. FreshInv'
  BY <1>1 DEF Answered, Written, IInv, FreshInv, RestTyped
<1>6. OneByOne'
  <2>1. UNCHANGED <<pc, on, handler, untidy, recordedBy>>
    BY DEF Answered
  <2>2. \A u \in Users : fut'[u] = "ok" => u = t \/ fut[u] = "ok"
    BY <1>1 DEF Answered, RestTyped
  <2>3. \A c \in Conns : cccd'[c] # cccd[c] => on[t] = c /\ pc[t] \in {"on", "off"}
    BY <1>1 DEF Answered, Written, RestTyped
  <2>4. fut'[t] = "ok" => /\ pc[t] = "on" => cccd'[on[t]]
                          /\ pc[t] = "off" => ~ cccd'[on[t]]
    BY <1>1 DEF Answered, Written, RestTyped
  <2> QED BY <2>1, <2>2, <2>3, <2>4 DEF IInv, OneByOne
<1>7. HandledInv'
  BY <1>1 DEF Answered, Written, IInv, HandledInv, OneByOne, InProgress, RestTyped
<1>8. RecordInv'
  BY DEF Answered, IInv, RecordInv
<1> QED BY <1>2, <1>3, <1>4, <1>5, <1>6, <1>7, <1>8, TypeParts DEF IInv

\* A request is lost; the peer may have done its part.
LEMMA LostKeeps ==
  ASSUME IInv, NEW t \in Users, Lost(t)
  PROVE  IInv'
<1>1. RestTyped /\ FlagsTyped
  BY TypeParts DEF IInv
<1>2. FlagsTyped'
  BY <1>1, Zenon DEF Lost, FlagsTyped
<1>3. RestTyped'
  BY <1>1 DEF Lost, RestTyped, Written
<1>4. AgreesWithSocket' /\ LossReportedOnce'
  BY SocketsStand DEF Lost
<1>5. FreshInv'
  BY <1>1 DEF Lost, Written, IInv, FreshInv, RestTyped
<1>6. OneByOne'
  BY <1>1 DEF Lost, Written, IInv, OneByOne, RestTyped
<1>7. HandledInv'
  BY <1>1 DEF Lost, Written, IInv, HandledInv, OneByOne, InProgress, RestTyped
<1>8. RecordInv'
  BY DEF Lost, IInv, RecordInv
<1> QED BY <1>2, <1>3, <1>4, <1>5, <1>6, <1>7, <1>8, TypeParts DEF IInv

-----------------------------------------------------------------------------
(* disconnect and connect.                                                 *)

\* The client lets go of its connection and closes the socket.
LEMMA TeardownKeeps ==
  ASSUME IInv, Closed, Teardown, UNCHANGED <<handler, cccd, stacked>>,
         \A t \in Users : on'[t] \in {on[t], None}
  PROVE  /\ sock' \in [Conns -> {"new", "open", "closed", "failed"}]
         /\ up' \in [Conns -> BOOLEAN] /\ fired' = fired
         /\ AgreesWithSocket' /\ LossReportedOnce' /\ FreshInv'
<1>1. RestTyped
  BY TypeParts DEF IInv
<1>2. /\ sock' \in [Conns -> {"new", "open", "closed", "failed"}]
      /\ up' \in [Conns -> BOOLEAN] /\ fired' = fired
  BY <1>1 DEF Closed, LocalClose, RestTyped
<1>3. \A c \in Conns : /\ sock'[c] = "new" => sock[c] = "new"
                       /\ sock'[c] = "failed" <=> sock[c] = "failed"
                       /\ sock'[c] = "open" => sock[c] = "open" /\ c # att
  BY <1>1 DEF Closed, RestTyped
<1>4. ~ connected' /\ att' = None /\ recordedBy' = {}
  BY DEF Teardown
<1>5. AgreesWithSocket'
  BY <1>3, <1>4 DEF IInv, AgreesWithSocket
<1>6. LossReportedOnce'
  BY <1>2, <1>3 DEF IInv, LossReportedOnce
<1>7. FreshInv'
  BY <1>2, <1>3, <1>4 DEF IInv, FreshInv
<1> QED BY <1>2, <1>5, <1>6, <1>7

\* disconnect.
LEMMA DisconnectKeeps ==
  ASSUME IInv, Disconnect
  PROVE  IInv'
<1>1. RestTyped /\ FlagsTyped
  BY TypeParts DEF IInv
<1>2. /\ Closed /\ Teardown /\ UNCHANGED <<handler, cccd, taskVars, calls, stacked, untidy>>
  BY DEF Disconnect
<1>3. /\ sock' \in [Conns -> {"new", "open", "closed", "failed"}]
      /\ up' \in [Conns -> BOOLEAN] /\ fired' = fired
      /\ AgreesWithSocket' /\ LossReportedOnce' /\ FreshInv'
  BY <1>2, TeardownKeeps
<1>4. FlagsTyped'
  BY <1>1, <1>2, Zenon DEF Teardown, FlagsTyped
<1>5. RestTyped'
  BY <1>1, <1>2, <1>3 DEF Teardown, RestTyped
<1>6. OneByOne' /\ HandledInv' /\ RecordInv'
  BY <1>2, CallsStand DEF Teardown
<1> QED BY <1>3, <1>4, <1>5, <1>6, TypeParts DEF IInv

\* A task calls connect, or its connection cannot be had.
LEMMA ConnectKeeps ==
  ASSUME IInv, NEW t \in Users, Connect(t) \/ NoSocket(t)
  PROVE  IInv'
<1>1. RestTyped /\ FlagsTyped
  BY TypeParts DEF IInv
<1>2. /\ UNCHANGED <<clientVars, connVars, on, fut, ghostVars>>
      /\ pc[t] \in {"idle", "connect"}
      /\ \E where \in {"idle", "connect"} : pc' = [pc EXCEPT ![t] = where]
      /\ calls' \in 0 .. MaxCalls
  BY <1>1 DEF Connect, NoSocket, Counted, RestTyped
<1>3. FlagsTyped'
  BY <1>1, <1>2, Zenon DEF FlagsTyped
<1>4. RestTyped'
  BY <1>1, <1>2 DEF RestTyped
<1>5. AgreesWithSocket' /\ LossReportedOnce'
  BY <1>2, SocketsStand
<1>6. FreshInv'
  BY <1>2 DEF IInv, FreshInv
<1>7. OneByOne' /\ HandledInv' /\ RecordInv'
  BY <1>1, <1>2, CallsStand DEF RestTyped
<1> QED BY <1>3, <1>4, <1>5, <1>6, <1>7, TypeParts DEF IInv

\* A connection begins.
LEMMA GetSocketKeeps ==
  ASSUME IInv, NEW t \in Users, GetSocket(t)
  PROVE  IInv'
<1>1. RestTyped /\ FlagsTyped
  BY TypeParts DEF IInv
<1>2. PICK c \in Conns :
        /\ sock[c] = "new" /\ sock' = [sock EXCEPT ![c] = "open"] /\ up' = [up EXCEPT ![c] = TRUE]
        /\ att' = c /\ connected' = TRUE
        /\ pc' = [pc EXCEPT ![t] = "mtu"] /\ on' = [on EXCEPT ![t] = c]
        /\ fut' = [fut EXCEPT ![t] = "pending"]
  BY DEF GetSocket
<1>3. /\ pc[t] = "connect" /\ stacked' = (stacked \/ (att # None /\ sock[att] = "open"))
      /\ UNCHANGED <<recorded, recordedBy, handler, cccd, calls, fired, untidy>>
  BY DEF GetSocket
<1>4. FlagsTyped'
  <2>1. stacked' \in BOOLEAN
    BY <1>1, <1>3, Zenon DEF FlagsTyped
  <2> QED BY <1>1, <1>2, <1>3, <2>1, Zenon DEF FlagsTyped
<1>5. RestTyped'
  BY <1>1, <1>2, <1>3 DEF RestTyped
<1>6. AgreesWithSocket' /\ LossReportedOnce'
  <2>1. ~ stacked' => ~ stacked /\ (att = None \/ sock[att] # "open")
    BY <1>3
  <2>2. /\ connected' /\ att' # None /\ sock'[att'] = "open"
        /\ \A d \in Conns : d # c => sock'[d] = sock[d]
    BY <1>1, <1>2 DEF RestTyped
  <2>3. AgreesWithSocket'
    BY <1>2, <2>1, <2>2 DEF IInv, AgreesWithSocket
  <2>4. LossReportedOnce'
    BY <1>1, <1>2, <1>3, <2>1, <2>2 DEF IInv, LossReportedOnce, RestTyped
  <2> QED BY <2>3, <2>4
<1>7. FreshInv'
  BY <1>1, <1>2, <1>3 DEF IInv, FreshInv, RestTyped
<1>8. OneByOne' /\ HandledInv' /\ RecordInv'
  BY <1>1, <1>2, <1>3, CallsStand DEF RestTyped
<1> QED BY <1>4, <1>5, <1>6, <1>7, <1>8, TypeParts DEF IInv

\* The MTU is agreed, discovery begins; or discovery is done.
LEMMA SetupGoesOn ==
  ASSUME IInv, NEW t \in Users, MtuDone(t) \/ DiscoverDone(t)
  PROVE  IInv'
<1>1. RestTyped /\ FlagsTyped
  BY TypeParts DEF IInv
<1>2. /\ UNCHANGED <<clientVars, connVars, calls, ghostVars>>
      /\ pc[t] \in {"mtu", "discover"}
  BY DEF MtuDone, DiscoverDone
<1>3. /\ \A u \in Users : u # t => pc'[u] = pc[u] /\ on'[u] = on[u] /\ fut'[u] = fut[u]
      /\ pc'[t] \in {"discover", "idle"} /\ on'[t] \in {att, None}
  BY <1>1 DEF MtuDone, DiscoverDone, Await, Return, RestTyped
<1>4. FlagsTyped'
  BY <1>1, <1>2, Zenon DEF FlagsTyped
<1>5. RestTyped'
  <2>1. CASE MtuDone(t)
    BY <1>1, <1>2, <2>1 DEF MtuDone, Await, RestTyped
  <2>2. CASE DiscoverDone(t)
    BY <1>1, <1>2, <2>2 DEF DiscoverDone, Return, RestTyped
  <2> QED BY <2>1, <2>2
<1>6. AgreesWithSocket' /\ LossReportedOnce'
  BY <1>2, SocketsStand
<1>7. FreshInv'
  BY <1>2, <1>3 DEF IInv, FreshInv
<1>8. OneByOne' /\ HandledInv' /\ RecordInv'
  BY <1>2, <1>3, CallsStand
<1> QED BY <1>4, <1>5, <1>6, <1>7, <1>8, TypeParts DEF IInv

\* connect fails after it had a socket: it disconnects.
LEMMA SetupFailsKeeps ==
  ASSUME IInv, NEW t \in Users, SetupFails(t)
  PROVE  IInv'
<1>1. RestTyped /\ FlagsTyped
  BY TypeParts DEF IInv
<1>2. /\ Closed /\ Teardown /\ Return(t) /\ pc[t] \in {"mtu", "discover"}
      /\ UNCHANGED <<handler, cccd, calls, stacked, untidy>>
  BY DEF SetupFails
<1>3. /\ \A u \in Users : u # t => pc'[u] = pc[u] /\ on'[u] = on[u] /\ fut'[u] = fut[u]
      /\ pc'[t] = "idle" /\ on'[t] = None
  BY <1>1, <1>2 DEF Return, RestTyped
<1>4. /\ sock' \in [Conns -> {"new", "open", "closed", "failed"}]
      /\ up' \in [Conns -> BOOLEAN] /\ fired' = fired
      /\ AgreesWithSocket' /\ LossReportedOnce' /\ FreshInv'
  <2>1. \A u \in Users : on'[u] \in {on[u], None}
    BY <1>3
  <2> QED BY <1>2, <2>1, TeardownKeeps
<1>5. FlagsTyped'
  BY <1>1, <1>2, Zenon DEF Teardown, FlagsTyped
<1>6. RestTyped'
  BY <1>1, <1>2, <1>4 DEF Teardown, Return, RestTyped
<1>7. OneByOne' /\ HandledInv' /\ RecordInv'
  BY <1>2, <1>3, CallsStand DEF Teardown
<1> QED BY <1>4, <1>5, <1>6, <1>7, TypeParts DEF IInv

-----------------------------------------------------------------------------
(* The link.                                                               *)

\* The link goes down, unnoticed yet.
LEMMA LinkLostKeeps ==
  ASSUME IInv, NEW c \in Conns, LinkLost(c)
  PROVE  IInv'
<1>1. RestTyped /\ FlagsTyped
  BY TypeParts DEF IInv
<1>2. /\ up' = [up EXCEPT ![c] = FALSE]
      /\ UNCHANGED <<clientVars, sock, handler, cccd, taskVars, calls, ghostVars>>
  BY DEF LinkLost
<1>3. FlagsTyped'
  BY <1>1, <1>2, Zenon DEF FlagsTyped
<1>4. RestTyped'
  BY <1>1, <1>2 DEF RestTyped
<1>5. AgreesWithSocket' /\ LossReportedOnce'
  BY <1>2, SocketsStand
<1>6. FreshInv'
  BY <1>2 DEF IInv, FreshInv
<1>7. OneByOne' /\ HandledInv' /\ RecordInv'
  BY <1>2, CallsStand
<1> QED BY <1>3, <1>4, <1>5, <1>6, <1>7, TypeParts DEF IInv

\* The socket fails: its requests are told, and the callback is called if the
\* client was connected.
LEMMA FailKeeps ==
  ASSUME IInv, NEW c \in Conns, Fail(c)
  PROVE  IInv'
<1>1. RestTyped /\ FlagsTyped
  BY TypeParts DEF IInv
<1>2. /\ sock[c] = "open" /\ sock' = [sock EXCEPT ![c] = "failed"] /\ connected' = FALSE
      /\ fired' = IF connected THEN [fired EXCEPT ![c] = @ + 1] ELSE fired
      /\ UNCHANGED <<att, recorded, recordedBy, up, handler, cccd, pc, on, calls, stacked, untidy>>
  BY DEF Fail, ConnectedAfterLoss
<1>3. PICK how \in {"error", "gone"} :
        fut' = [t \in Users |-> IF on[t] = c /\ fut[t] = "pending"
                             THEN IF pc[t] = "off" THEN how ELSE "gone"
                             ELSE fut[t]]
  BY DEF Fail
<1>4. FlagsTyped'
  BY <1>1, <1>2, Zenon DEF FlagsTyped
<1>5. RestTyped'
  BY <1>1, <1>2, <1>3 DEF RestTyped
<1>6. AgreesWithSocket'
  BY <1>1, <1>2 DEF IInv, AgreesWithSocket, RestTyped
<1>7. LossReportedOnce'
  BY <1>1, <1>2 DEF IInv, AgreesWithSocket, LossReportedOnce, RestTyped
<1>8. FreshInv'
  BY <1>1, <1>2 DEF IInv, FreshInv, RestTyped
<1>9. OneByOne' /\ HandledInv' /\ RecordInv'
  <2>1. \A t \in Users : fut'[t] = fut[t] \/ fut'[t] # "ok"
    BY <1>3
  <2> QED BY <1>2, <2>1, CallsStand
<1> QED BY <1>4, <1>5, <1>6, <1>7, <1>8, <1>9, TypeParts DEF IInv

-----------------------------------------------------------------------------
(* start_notify and stop_notify.                                           *)

\* A task subscribes. It is the only one on its connection, or the connection
\* is untidy from now on.
LEMMA StartNotifyKeeps ==
  ASSUME IInv, NEW t \in Users, StartNotify(t)
  PROVE  IInv'
<1>1. RestTyped /\ FlagsTyped
  BY TypeParts DEF IInv
<1>2. /\ pc[t] = "idle" /\ att # None /\ connected /\ calls' \in 0 .. MaxCalls
      /\ handler' = [handler EXCEPT ![att] = TRUE]
      /\ untidy' = untidy \cup {c \in {att} : InProgress(c)}
      /\ UNCHANGED <<clientVars, sock, up, cccd, fired, stacked>>
  BY <1>1 DEF StartNotify, Usable, Counted, RestTyped
<1>3. sock[att] = "open" /\ att \in Conns
  BY <1>1, <1>2 DEF IInv, AgreesWithSocket, RestTyped
<1>4. /\ \A u \in Users : u # t => pc'[u] = pc[u] /\ on'[u] = on[u] /\ fut'[u] = fut[u]
      /\ pc'[t] = "on" /\ on'[t] = att /\ fut'[t] = "pending" /\ on[t] = None
  BY <1>1, <1>2, <1>3 DEF StartNotify, Await, RestTyped
<1>5. FlagsTyped'
  BY <1>1, <1>2, Zenon DEF FlagsTyped
<1>6. RestTyped'
  BY <1>1, <1>2, <1>3 DEF StartNotify, Await, RestTyped
<1>7. AgreesWithSocket' /\ LossReportedOnce'
  BY <1>2, SocketsStand
<1>8. FreshInv'
  BY <1>1, <1>2, <1>3, <1>4 DEF IInv, FreshInv, RestTyped
<1>9. OneByOne'
  <2>1. att \notin untidy' => \A u \in Users : on[u] = att => pc[u] \notin {"on", "off"}
    BY <1>2 DEF InProgress
  <2>2. handler'[att] /\ \A c \in Conns : c # att => handler'[c] = handler[c]
    BY <1>1, <1>2, <1>3 DEF RestTyped
  <2> QED BY <1>2, <1>4, <2>1, <2>2 DEF IInv, OneByOne
<1>10. HandledInv'
  <2>1. \A c \in Conns : c # att => /\ handler'[c] = handler[c]
                                   /\ InProgress(c)' <=> InProgress(c)
    BY <1>1, <1>2, <1>4, ZenonT(30) DEF RestTyped, InProgress
  <2>2. handler'[att] /\ \A c \in Conns : c = att => InProgress(c)'
    BY <1>1, <1>2, <1>3, <1>4 DEF RestTyped, InProgress
  <2> QED BY <1>2, <2>1, <2>2 DEF IInv, HandledInv
<1>11. RecordInv'
  BY <1>2 DEF IInv, RecordInv
<1> QED BY <1>5, <1>6, <1>7, <1>8, <1>9, <1>10, <1>11, TypeParts DEF IInv

\* start_notify raises before it awaits anything; its connection is untidy.
LEMMA StartRaisesKeeps ==
  ASSUME IInv, NEW t \in Users, StartRaises(t)
  PROVE  IInv'
<1>1. RestTyped /\ FlagsTyped
  BY TypeParts DEF IInv
<1>2. /\ att \in Conns /\ calls' \in 0 .. MaxCalls
      /\ handler' = [handler EXCEPT ![att] = TRUE]
      /\ untidy' = untidy \cup {att}
      /\ UNCHANGED <<clientVars, sock, up, cccd, taskVars, fired, stacked>>
  BY <1>1 DEF StartRaises, Usable, Counted, RestTyped
<1>3. sock[att] = "open"
  BY <1>1 DEF StartRaises, Usable, IInv, AgreesWithSocket
<1>4. FlagsTyped'
  BY <1>1, <1>2, Zenon DEF FlagsTyped
<1>5. RestTyped'
  BY <1>1, <1>2 DEF RestTyped
<1>6. AgreesWithSocket' /\ LossReportedOnce'
  BY <1>2, SocketsStand
<1>7. \A c \in Conns : c # att => /\ handler'[c] = handler[c]
                                 /\ InProgress(c)' <=> InProgress(c)
  BY <1>1, <1>2 DEF RestTyped, InProgress
<1>8. FreshInv'
  BY <1>2, <1>3, <1>7 DEF IInv, FreshInv
<1>9. OneByOne' /\ HandledInv' /\ RecordInv'
  BY <1>2, <1>7 DEF IInv, OneByOne, HandledInv, RecordInv
<1> QED BY <1>4, <1>5, <1>6, <1>8, <1>9, TypeParts DEF IInv

\* start_notify returns, or raises.
LEMMA StartReturnsKeeps ==
  ASSUME IInv, NEW t \in Users, StartReturns(t)
  PROVE  IInv'
<1>1. RestTyped /\ FlagsTyped
  BY TypeParts DEF IInv
<1>2. /\ pc[t] = "on" /\ fut[t] \notin {"none", "pending"}
      /\ UNCHANGED <<att, connected, connVars, calls, fired, stacked>>
      /\ IF fut[t] = "ok"
           THEN recorded' = TRUE /\ recordedBy' = recordedBy \cup {on[t]} /\ UNCHANGED untidy
           ELSE untidy' = untidy \cup {on[t]} /\ UNCHANGED <<recorded, recordedBy>>
  BY DEF StartReturns
<1>3. on[t] \in Conns
  BY <1>1, <1>2 DEF RestTyped
<1>4. /\ \A u \in Users : u # t => pc'[u] = pc[u] /\ on'[u] = on[u] /\ fut'[u] = fut[u]
      /\ pc'[t] = "idle" /\ on'[t] = None
  BY <1>1, <1>2 DEF StartReturns, Return, RestTyped
<1>5. FlagsTyped'
  <2>1. recorded' \in BOOLEAN
    BY <1>1, <1>2, Zenon DEF FlagsTyped
  <2> QED BY <1>1, <1>2, <2>1, Zenon DEF FlagsTyped
<1>6. RestTyped'
  BY <1>1, <1>2, <1>3 DEF StartReturns, Return, RestTyped
<1>7. AgreesWithSocket' /\ LossReportedOnce'
  BY <1>2, SocketsStand
<1>8. FreshInv'
  BY <1>2, <1>4 DEF IInv, FreshInv
<1>9. /\ \A c \in Conns : c # on[t] => (c \in recordedBy' <=> c \in recordedBy)
      /\ untidy \subseteq untidy'
      /\ on[t] \notin untidy' => on[t] \in recordedBy' /\ cccd[on[t]] /\ handler[on[t]]
  BY <1>2, <1>3 DEF IInv, OneByOne
<1>10. OneByOne'
  BY <1>2, <1>3, <1>4, <1>9 DEF IInv, OneByOne
<1>11. HandledInv'
  <2>1. \A c \in Conns : c # on[t] => (InProgress(c)' <=> InProgress(c))
    BY <1>2, <1>4 DEF InProgress
  <2> QED BY <1>2, <1>9, <2>1 DEF IInv, HandledInv
<1>12. RecordInv'
  BY <1>2 DEF IInv, RecordInv
<1> QED BY <1>5, <1>6, <1>7, <1>8, <1>10, <1>11, <1>12, TypeParts DEF IInv

\* A task unsubscribes. Without a record of the subscription there is nothing to
\* tell the peer, and the handler goes at once.
LEMMA StopNotifyKeeps ==
  ASSUME IInv, NEW t \in Users, StopNotify(t)
  PROVE  IInv'
<1>1. RestTyped /\ FlagsTyped
  BY TypeParts DEF IInv
<1>2. /\ pc[t] = "idle" /\ att # None /\ connected /\ calls' \in 0 .. MaxCalls
      /\ untidy' = untidy \cup {c \in {att} : InProgress(c)}
      /\ recorded' = FALSE /\ recordedBy' = {}
      /\ UNCHANGED <<att, connected, sock, up, cccd, fired, stacked>>
  BY <1>1 DEF StopNotify, Usable, Counted, RestTyped
<1>3. sock[att] = "open" /\ att \in Conns
  BY <1>1, <1>2 DEF IInv, AgreesWithSocket, RestTyped
<1>4. att \notin untidy' => \A u \in Users : on[u] = att => pc[u] \notin {"on", "off"}
  BY <1>2 DEF InProgress
<1>5. FlagsTyped'
  BY <1>1, <1>2, Zenon DEF FlagsTyped
<1>6. AgreesWithSocket' /\ LossReportedOnce'
  BY <1>2, SocketsStand
<1>7. RecordInv'
  BY <1>2 DEF RecordInv
<1>8. CASE recorded
  <2>1. Await(t, "off", att) /\ handler' = handler
    BY <1>8 DEF StopNotify, HandlerWhileStopping
  <2>2. /\ \A u \in Users : u # t => pc'[u] = pc[u] /\ on'[u] = on[u] /\ fut'[u] = fut[u]
        /\ pc'[t] = "off" /\ on'[t] = att /\ fut'[t] = "pending" /\ on[t] = None
    BY <1>1, <1>2, <1>3, <2>1 DEF Await, RestTyped
  <2>3. RestTyped'
    BY <1>1, <1>2, <1>3, <2>1 DEF Await, RestTyped
  <2>4. FreshInv'
    BY <1>2, <1>3, <2>1, <2>2 DEF IInv, FreshInv
  <2>5. OneByOne'
    BY <1>2, <1>4, <2>1, <2>2 DEF IInv, OneByOne
  <2>6. HandledInv'
    <3>1. \A c \in Conns : c # att => (InProgress(c)' <=> InProgress(c))
      BY <1>2, <2>2 DEF InProgress
    <3>2. \A c \in Conns : c = att => InProgress(c)'
      BY <1>2, <2>2 DEF InProgress
    <3> QED BY <1>2, <2>1, <3>1, <3>2 DEF IInv, HandledInv
  <2> QED BY <1>5, <1>6, <1>7, <2>3, <2>4, <2>5, <2>6, TypeParts DEF IInv
<1>9. CASE ~ recorded
  <2>1. handler' = [handler EXCEPT ![att] = FALSE] /\ UNCHANGED taskVars
    BY <1>9 DEF StopNotify
  <2>2. RestTyped'
    BY <1>1, <1>2, <1>3, <2>1 DEF RestTyped
  <2>3. ~ handler'[att] /\ \A c \in Conns : c # att => handler'[c] = handler[c]
    BY <1>1, <1>3, <2>1 DEF RestTyped
  <2>4. FreshInv'
    BY <1>2, <2>1, <2>3 DEF IInv, FreshInv
  <2>5. OneByOne'
    BY <1>2, <1>4, <2>1, <2>3 DEF IInv, OneByOne
  <2>6. HandledInv'
    <3>1. \A c \in Conns : InProgress(c)' <=> InProgress(c)
      BY <2>1 DEF InProgress
    <3>2. att \notin untidy' => ~ cccd[att] /\ ~ handler[att]
      BY <1>2, <1>3, <1>9 DEF IInv, HandledInv, RecordInv
    <3> QED BY <1>2, <2>3, <3>1, <3>2 DEF IInv, HandledInv
  <2> QED BY <1>5, <1>6, <1>7, <2>2, <2>4, <2>5, <2>6, TypeParts DEF IInv
<1> QED BY <1>8, <1>9

\* stop_notify returns, or raises. The handler goes from the connection that the
\* call began with.
LEMMA StopReturnsKeeps ==
  ASSUME IInv, NEW t \in Users, StopReturns(t)
  PROVE  IInv'
<1>1. RestTyped /\ FlagsTyped
  BY TypeParts DEF IInv
<1>2. /\ pc[t] = "off" /\ fut[t] \notin {"none", "pending"}
      /\ untidy' = IF fut[t] = "ok" THEN untidy ELSE untidy \cup {on[t]}
      /\ UNCHANGED <<clientVars, sock, up, cccd, calls, fired, stacked>>
      /\ handler' = IF fut[t] = "gone" THEN handler ELSE [handler EXCEPT ![on[t]] = FALSE]
  BY DEF StopReturns, Unhandle
<1>3. on[t] \in Conns
  BY <1>1, <1>2 DEF RestTyped
<1>4. /\ \A u \in Users : u # t => pc'[u] = pc[u] /\ on'[u] = on[u] /\ fut'[u] = fut[u]
      /\ pc'[t] = "idle" /\ on'[t] = None
  BY <1>1, <1>2 DEF StopReturns, Return, RestTyped
<1>5. FlagsTyped'
  BY <1>1, <1>2, Zenon DEF FlagsTyped
<1>6. RestTyped'
  BY <1>1, <1>2, <1>3 DEF StopReturns, Return, RestTyped
<1>7. AgreesWithSocket' /\ LossReportedOnce'
  BY <1>2, SocketsStand
<1>8. /\ \A c \in Conns : c # on[t] => handler'[c] = handler[c]
      /\ handler'[on[t]] => handler[on[t]]
      /\ on[t] \notin untidy' => /\ ~ handler'[on[t]] /\ ~ cccd[on[t]] /\ untidy' = untidy
                              /\ on[t] \notin recordedBy
  BY <1>1, <1>2, <1>3 DEF IInv, OneByOne, RestTyped
<1>9. FreshInv'
  BY <1>2, <1>4, <1>8 DEF IInv, FreshInv
<1>10. OneByOne'
  BY <1>2, <1>3, <1>4, <1>8 DEF IInv, OneByOne
<1>11. HandledInv'
  <2>1. \A c \in Conns : c # on[t] => (InProgress(c)' <=> InProgress(c))
    BY <1>2, <1>4 DEF InProgress
  <2> QED BY <1>2, <1>8, <2>1 DEF IInv, HandledInv
<1>12. RecordInv'
  BY <1>2 DEF IInv, RecordInv
<1> QED BY <1>5, <1>6, <1>7, <1>9, <1>10, <1>11, <1>12, TypeParts DEF IInv

-----------------------------------------------------------------------------
\* Nothing has begun.
LEMMA InitKeeps ==
  ASSUME Init
  PROVE  IInv
<1>1. FlagsTyped
  BY Zenon DEF Init, FlagsTyped
<1>2. RestTyped
  BY DEF Init, RestTyped
<1>3. AgreesWithSocket /\ LossReportedOnce /\ FreshInv /\ OneByOne /\ HandledInv /\ RecordInv
  BY DEF Init, AgreesWithSocket, LossReportedOnce, FreshInv, OneByOne, HandledInv, RecordInv
<1> QED BY <1>1, <1>2, <1>3, TypeParts DEF IInv

\* Steps that change nothing.
LEMMA StutterKeeps ==
  ASSUME IInv, UNCHANGED vars
  PROVE  IInv'
<1>1. RestTyped /\ FlagsTyped
  BY TypeParts DEF IInv
<1>2. FlagsTyped'
  BY <1>1, Zenon DEF FlagsTyped, vars
<1>3. RestTyped'
  BY <1>1 DEF RestTyped, vars
<1>4. AgreesWithSocket' /\ LossReportedOnce'
  BY SocketsStand DEF vars
<1>5. FreshInv'
  BY DEF IInv, FreshInv, vars
<1>6. OneByOne' /\ HandledInv' /\ RecordInv'
  BY CallsStand DEF vars
<1> QED BY <1>2, <1>3, <1>4, <1>5, <1>6, TypeParts DEF IInv

\* The strengthening is inductive, for any tasks, connections and calls.
THEOREM Invariance == Spec => []IInv
<1>1. Init => IInv
  BY InitKeeps
<1>2. IInv /\ [Next]_vars => IInv'
  <2>1. ASSUME IInv, Next
        PROVE  IInv'
    BY <2>1, AnsweredKeeps, LostKeeps, ConnectKeeps, GetSocketKeeps, SetupGoesOn, SetupFailsKeeps,
       StartNotifyKeeps, StartRaisesKeeps, StartReturnsKeeps, StopNotifyKeeps, StopReturnsKeeps,
       DisconnectKeeps, LinkLostKeeps, FailKeeps
       DEF Next
  <2> QED BY <2>1, StutterKeeps
<1> QED BY <1>1, <1>2, PTL DEF Spec

\* is_connected never claims a closed socket, and an open socket is the client's
\* own unless connect was called on a connection whose loss was not yet noticed.
THEOREM ConnectedIsTrue == Spec => []AgreesWithSocket
<1>1. IInv => AgreesWithSocket
  BY DEF IInv
<1> QED BY <1>1, Invariance, PTL

\* disconnected_callback is called once for each connection that fails, and not
\* for one that is closed.
THEOREM LossIsReportedOnce == Spec => []LossReportedOnce
<1>1. IInv => LossReportedOnce
  BY DEF IInv
<1> QED BY <1>1, Invariance, PTL

\* On a tidy connection, between calls, we have a handler exactly while the
\* peer has notifications on, and exactly while the record has it, unless the
\* record is one that calls on earlier connections left; and no value that the
\* peer sends finds no handler.
THEOREM SubscriptionsStayTrue == Spec => []SubscriptionsAgree
<1>1. ASSUME IInv
      PROVE  SubscriptionsAgree
  <2>1. RestTyped
    BY <1>1, TypeParts DEF IInv
  <2>2. ASSUME connected, att \notin untidy, ~ InProgress(att)
        PROVE  /\ handler[att] = cccd[att]
               /\ handler[att] <=> recorded /\ ~ Inherited
    <3>1. att \in Conns \ untidy
      BY <1>1, <2>1, <2>2 DEF IInv, AgreesWithSocket, RestTyped
    <3>2. handler[att] \in BOOLEAN /\ cccd[att] \in BOOLEAN
      BY <2>1, <3>1 DEF RestTyped
    <3>3. (handler[att] <=> cccd[att]) /\ (handler[att] <=> att \in recordedBy)
      BY <1>1, <2>2, <3>1 DEF IInv, HandledInv
    <3>4. recorded <=> recordedBy # {}
      BY <1>1 DEF IInv, RecordInv
    <3>5. att \in recordedBy <=> recorded /\ ~ Inherited
      BY <3>4 DEF Inherited
    <3> QED BY <3>2, <3>3, <3>5, Zenon
  <2>3. \A c \in Conns : ValueComes(c) /\ c \notin untidy => handler[c]
    BY <1>1 DEF IInv, HandledInv, ValueComes
  <2> QED BY <2>2, <2>3, Zenon DEF SubscriptionsAgree
<1> QED BY <1>1, Invariance, PTL
====
