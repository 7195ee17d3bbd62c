---- MODULE Client ----
(***************************************************************************)
(* bluek/client.py, BleakClient: connections that follow one another, the  *)
(* subscription to one characteristic, used from several tasks, and the    *)
(* handler that ATTClient has for its values.                              *)
(*                                                                         *)
(* A step is what runs between two awaits. What happens inside connect     *)
(* until it has a socket is module Connect, what happens to a request is   *)
(* module AttClient: here a request is answered, refused or lost. The      *)
(* requests of discover count as one, and writes of two tasks may take     *)
(* effect in either order. What discover finds (_services) is data: a      *)
(* caller may pass a characteristic object that it has from anywhere.      *)
(***************************************************************************)
EXTENDS Integers

CONSTANTS
  Users,    \* tasks that call the client
  MaxConns, \* bound: connections
  MaxCalls  \* bound: calls of connect, start_notify and stop_notify

Conns == 1 .. MaxConns
None == 0

ASSUME BoundsAssumption == MaxConns \in Nat /\ MaxCalls \in Nat

VARIABLES
  att,       \* self._att (and self._l2): a connection
  connected, \* self._connected
  recorded,  \* self._cccd_handles has the characteristic
  sock,      \* each connection's socket: new, open, closed, failed
  up,        \* whether its link is up
  handler,   \* its ATTClient has our notification handler
  cccd,      \* the peer has notifications on for it
  pc,        \* each task: idle, connect, mtu, discover, on, off
  on,        \* the connection whose answer it awaits
  fut,       \* its future: none, pending, ok, error (a BleakError), gone
  calls,     \* calls so far
  fired,     \* ghost: disconnected_callback calls for each connection
  stacked,   \* ghost: connect got a socket while _att's was still open
  untidy,    \* ghost: connections on which a (un)subscription failed or two overlapped
  recordedBy \* ghost: connections whose start_notify made the record, since a
             \* disconnect or stop_notify last removed it

clientVars == <<att, connected, recorded, recordedBy>>
connVars == <<sock, up, handler, cccd>>
taskVars == <<pc, on, fut>>
ghostVars == <<fired, stacked, untidy>>
vars == <<clientVars, connVars, taskVars, calls, ghostVars>>

Awaits == {"mtu", "discover", "on", "off"}

TypeOK ==
  /\ att \in Conns \cup {None}
  /\ {connected, recorded, stacked} \subseteq BOOLEAN
  /\ sock \in [Conns -> {"new", "open", "closed", "failed"}]
  /\ up \in [Conns -> BOOLEAN] /\ handler \in [Conns -> BOOLEAN] /\ cccd \in [Conns -> BOOLEAN]
  /\ pc \in [Users -> {"idle", "connect"} \cup Awaits]
  /\ on \in [Users -> Conns \cup {None}]
  /\ fut \in [Users -> {"none", "pending", "ok", "error", "gone"}]
  /\ calls \in 0 .. MaxCalls
  /\ fired \in [Conns -> Nat]
  /\ untidy \subseteq Conns /\ recordedBy \subseteq Conns
  /\ \A t \in Users : pc[t] \in Awaits <=> fut[t] # "none"
  /\ \A t \in Users : pc[t] \in Awaits <=> on[t] # None

Init ==
  /\ att = None /\ connected = FALSE /\ recorded = FALSE
  /\ sock = [c \in Conns |-> "new"]
  /\ up = [c \in Conns |-> FALSE]
  /\ handler = [c \in Conns |-> FALSE] /\ cccd = [c \in Conns |-> FALSE]
  /\ pc = [t \in Users |-> "idle"] /\ on = [t \in Users |-> None]
  /\ fut = [t \in Users |-> "none"]
  /\ calls = 0
  /\ fired = [c \in Conns |-> 0] /\ stacked = FALSE
  /\ untidy = {} /\ recordedBy = {}

-----------------------------------------------------------------------------
(* Tasks and requests.                                                     *)

Counted == calls < MaxCalls /\ calls' = calls + 1

\* Task t awaits a request on connection c. On a socket that is closed the
\* request fails when it is sent.
Await(t, what, c) ==
  /\ pc' = [pc EXCEPT ![t] = what]
  /\ on' = [on EXCEPT ![t] = c]
  /\ fut' = [fut EXCEPT ![t] = IF sock[c] = "open" THEN "pending" ELSE "gone"]

\* A slip: the future outlives its call.
ReturnKeepsFuture(t) == pc' = [pc EXCEPT ![t] = "idle"] /\ UNCHANGED <<on, fut>>

Return(t) ==
  /\ pc' = [pc EXCEPT ![t] = "idle"]
  /\ on' = [on EXCEPT ![t] = None]
  /\ fut' = [fut EXCEPT ![t] = "none"]

\* What the request writes to the peer, if it is a subscription's.
Written(t) ==
  IF pc[t] \in {"on", "off"} THEN [cccd EXCEPT ![on[t]] = (pc[t] = "on")] ELSE cccd

Answered(t) ==
  /\ fut[t] = "pending" /\ sock[on[t]] = "open"
  /\ \/ fut' = [fut EXCEPT ![t] = "ok"] /\ cccd' = Written(t)
     \/ fut' = [fut EXCEPT ![t] = "error"] /\ UNCHANGED cccd
  /\ UNCHANGED <<clientVars, sock, up, handler, pc, on, calls, ghostVars>>

\* Timeout, cancellation, or an OSError; the peer may have done its part.
Lost(t) ==
  /\ fut[t] \in {"pending", "ok", "error"}
  /\ fut' = [fut EXCEPT ![t] = "gone"]
  /\ cccd' \in IF fut[t] = "pending" /\ sock[on[t]] = "open" THEN {cccd, Written(t)} ELSE {cccd}
  /\ UNCHANGED <<clientVars, sock, up, handler, pc, on, calls, ghostVars>>

-----------------------------------------------------------------------------
(* disconnect and _teardown.                                               *)

\* A slip: a local close is reported like a lost link.
LocalCloseReports(c) == fired' = [fired EXCEPT ![c] = @ + 1]

\* L2CAPSocket.close calls nobody back.
LocalClose(c) == UNCHANGED fired

Closed ==
  IF att # None /\ sock[att] = "open"
    THEN /\ sock' = [sock EXCEPT ![att] = "closed"]
         /\ up' = [up EXCEPT ![att] = FALSE]
         /\ LocalClose(att)
    ELSE UNCHANGED <<sock, up, fired>>

\* A slip: _cccd_handles outlives the disconnect.
TeardownKeepsRecord ==
  /\ att' = None /\ connected' = FALSE
  /\ recorded' = recorded /\ recordedBy' = {}

Teardown ==
  /\ att' = None /\ connected' = FALSE
  /\ recorded' = FALSE /\ recordedBy' = {}

Disconnect ==
  /\ att # None \/ recorded
  /\ Closed
  /\ Teardown
  /\ UNCHANGED <<handler, cccd, taskVars, calls, stacked, untidy>>

-----------------------------------------------------------------------------
(* connect.                                                                *)

Connect(t) ==
  /\ pc[t] = "idle" /\ Counted
  /\ pc' = [pc EXCEPT ![t] = "connect"]
  /\ UNCHANGED <<clientVars, connVars, on, fut, ghostVars>>

\* The peer has one ATT channel: a new socket needs the old link gone.
GetSocket(t) ==
  /\ pc[t] = "connect"
  /\ \A c \in Conns : ~ up[c]
  /\ \E c \in Conns :
       /\ sock[c] = "new" /\ \A d \in Conns : d < c => sock[d] # "new"
       /\ sock' = [sock EXCEPT ![c] = "open"]
       /\ up' = [up EXCEPT ![c] = TRUE]
       /\ att' = c /\ connected' = TRUE
       /\ pc' = [pc EXCEPT ![t] = "mtu"]
       /\ on' = [on EXCEPT ![t] = c]
       /\ fut' = [fut EXCEPT ![t] = "pending"]
  /\ stacked' = (stacked \/ (att # None /\ sock[att] = "open"))
  /\ UNCHANGED <<recorded, recordedBy, handler, cccd, calls, fired, untidy>>

NoSocket(t) ==
  /\ pc[t] = "connect"
  /\ pc' = [pc EXCEPT ![t] = "idle"]
  /\ UNCHANGED <<clientVars, connVars, on, fut, calls, ghostVars>>

\* exchange_mtu is done, or refused; _discover_services reads self._att anew.
MtuDone(t) ==
  /\ pc[t] = "mtu" /\ fut[t] \in {"ok", "error"} /\ att # None
  /\ Await(t, "discover", att)
  /\ UNCHANGED <<clientVars, connVars, calls, ghostVars>>

DiscoverDone(t) ==
  /\ pc[t] = "discover" /\ fut[t] = "ok"
  /\ Return(t)
  /\ UNCHANGED <<clientVars, connVars, calls, ghostVars>>

\* Anything raised after there is a socket, the AttributeError of an _att that
\* is None by now included: disconnect, and raise on.
SetupFails(t) ==
  /\ \/ pc[t] \in {"mtu", "discover"} /\ fut[t] = "gone"
     \/ pc[t] = "mtu" /\ fut[t] \in {"ok", "error"} /\ att = None
     \/ pc[t] = "discover" /\ fut[t] = "error"
  /\ Closed
  /\ Teardown
  /\ Return(t)
  /\ UNCHANGED <<handler, cccd, calls, stacked, untidy>>

-----------------------------------------------------------------------------
(* start_notify and stop_notify.                                           *)

\* _require_att succeeds.
Usable == att # None /\ connected

InProgress(c) == \E t \in Users : on[t] = c /\ pc[t] \in {"on", "off"}

StartNotify(t) ==
  /\ pc[t] = "idle" /\ Usable /\ Counted
  /\ handler' = [handler EXCEPT ![att] = TRUE]
  /\ Await(t, "on", att)
  /\ untidy' = untidy \cup {c \in {att} : InProgress(c)}
  /\ UNCHANGED <<clientVars, sock, up, cccd, fired, stacked>>

\* A characteristic without a CCCD: start_notify raises, with the handler set.
StartRaises(t) ==
  /\ pc[t] = "idle" /\ Usable /\ Counted
  /\ handler' = [handler EXCEPT ![att] = TRUE]
  /\ untidy' = untidy \cup {att}
  /\ UNCHANGED <<clientVars, sock, up, cccd, taskVars, fired, stacked>>

\* The record is made whatever connection the client has by now.
StartReturns(t) ==
  /\ pc[t] = "on" /\ fut[t] \notin {"none", "pending"}
  /\ IF fut[t] = "ok"
       THEN recorded' = TRUE /\ recordedBy' = recordedBy \cup {on[t]} /\ UNCHANGED untidy
       ELSE untidy' = untidy \cup {on[t]} /\ UNCHANGED <<recorded, recordedBy>>
  /\ Return(t)
  /\ UNCHANGED <<att, connected, connVars, calls, fired, stacked>>

\* A slip: the handler goes first, then the peer is told.
HandlerGone == [handler EXCEPT ![att] = FALSE]

HandlerWhileStopping == handler

StopNotify(t) ==
  /\ pc[t] = "idle" /\ Usable /\ Counted
  /\ recorded' = FALSE /\ recordedBy' = {}
  /\ untidy' = untidy \cup {c \in {att} : InProgress(c)}
  /\ IF recorded
       THEN Await(t, "off", att) /\ handler' = HandlerWhileStopping
       ELSE handler' = [handler EXCEPT ![att] = FALSE] /\ UNCHANGED taskVars
  /\ UNCHANGED <<att, connected, sock, up, cccd, fired, stacked>>

\* A slip: the handler is taken from the client's present connection.
UnhandlePresent(t) == IF att = None THEN handler ELSE [handler EXCEPT ![att] = FALSE]

\* The handler goes from the connection that the call began with.
Unhandle(t) == [handler EXCEPT ![on[t]] = FALSE]

\* A BleakError is swallowed; what else is raised leaves the handler.
StopReturns(t) ==
  /\ pc[t] = "off" /\ fut[t] \notin {"none", "pending"}
  /\ handler' = IF fut[t] = "gone" THEN handler ELSE Unhandle(t)
  /\ untidy' = IF fut[t] = "ok" THEN untidy ELSE untidy \cup {on[t]}
  /\ Return(t)
  /\ UNCHANGED <<clientVars, sock, up, cccd, calls, fired, stacked>>

-----------------------------------------------------------------------------
(* The link.                                                               *)

LinkLost(c) ==
  /\ up[c]
  /\ up' = [up EXCEPT ![c] = FALSE]
  /\ UNCHANGED <<clientVars, sock, handler, cccd, taskVars, calls, ghostVars>>

\* A slip: _connected is left to disconnect.
ConnectedKept == connected

ConnectedAfterLoss == FALSE

\* The socket fails: the pending request is told, with a BleakError (which
\* only stop_notify swallows) or the socket's error, and _on_disconnect runs.
Fail(c) ==
  /\ sock[c] = "open" /\ ~ up[c]
  /\ sock' = [sock EXCEPT ![c] = "failed"]
  /\ \E how \in {"error", "gone"} :
       fut' = [t \in Users |-> IF on[t] = c /\ fut[t] = "pending"
                            THEN IF pc[t] = "off" THEN how ELSE "gone"
                            ELSE fut[t]]
  /\ connected' = ConnectedAfterLoss
  /\ fired' = IF connected THEN [fired EXCEPT ![c] = @ + 1] ELSE fired
  /\ UNCHANGED <<att, recorded, recordedBy, up, handler, cccd, pc, on, calls, stacked, untidy>>

\* The peer may send a value, for which _dispatch_notify looks up the handler.
ValueComes(c) == sock[c] = "open" /\ up[c] /\ cccd[c]

-----------------------------------------------------------------------------
Next ==
  \/ \E t \in Users : \/ Answered(t) \/ Lost(t)
                      \/ Connect(t) \/ GetSocket(t) \/ NoSocket(t)
                      \/ MtuDone(t) \/ DiscoverDone(t) \/ SetupFails(t)
                      \/ StartNotify(t) \/ StartRaises(t) \/ StartReturns(t)
                      \/ StopNotify(t) \/ StopReturns(t)
  \/ Disconnect
  \/ \E c \in Conns : LinkLost(c) \/ Fail(c)

Spec == Init /\ [][Next]_vars

-----------------------------------------------------------------------------
\* is_connected and the socket agree, whatever calls overlap: it never claims
\* a closed socket, and an open socket is the client's own and connected,
\* unless connect was called on a connection whose loss was not yet noticed.
AgreesWithSocket ==
  /\ connected => att # None /\ sock[att] = "open"
  /\ ~ stacked => \A c \in Conns : sock[c] = "open" => att = c /\ connected

\* disconnected_callback is called once for each connection that fails, and
\* not for one that disconnect or a failing connect closes.
LossReportedOnce ==
  \A c \in Conns :
    /\ fired[c] > 0 => sock[c] = "failed" /\ fired[c] = 1
    /\ ~ stacked /\ sock[c] = "failed" => fired[c] = 1

\* The record was made by calls on earlier connections only. It survives a loss
\* that is not followed by disconnect (client.py:193-197), and a start_notify
\* that returns late makes it whatever connection there is (282).
Inherited == recordedBy # {} /\ att \notin recordedBy

\* On a connection where every subscription and its end succeeded one after
\* the other, we have a handler exactly while the peer has notifications on,
\* and exactly while _cccd_handles, by which stop_notify goes, has the
\* characteristic, unless the record is inherited. Also while a subscription
\* begins or ends no value is missed: from the first that the peer sends to
\* the last there is a handler.
SubscriptionsAgree ==
  /\ connected /\ att \notin untidy /\ ~ InProgress(att) =>
       /\ handler[att] = cccd[att]
       /\ handler[att] <=> recorded /\ ~ Inherited
  /\ \A c \in Conns : ValueComes(c) /\ c \notin untidy => handler[c]

-----------------------------------------------------------------------------
(* Why the safety properties hold: the inductive invariant of ClientProofs. *)

\* Nothing is left over on a connection that has not begun.
FreshInv ==
  \A c \in Conns : sock[c] = "new" =>
    /\ ~ handler[c] /\ ~ cccd[c] /\ fired[c] = 0 /\ att # c /\ c \notin recordedBy
    /\ \A t \in Users : on[t] # c

\* A tidy connection is subscribed to, and unsubscribed from, by one task at a
\* time. What an answer that has come says of the CCCD is still so.
OneByOne ==
  \A c \in Conns \ untidy :
    /\ \A t, u \in Users : on[t] = c /\ on[u] = c /\ {pc[t], pc[u]} \subseteq {"on", "off"} => t = u
    /\ \A t \in Users : on[t] = c =>
         /\ pc[t] = "on" => handler[c] /\ (fut[t] = "ok" => cccd[c])
         /\ pc[t] = "off" => c \notin recordedBy /\ (fut[t] = "ok" => ~ cccd[c])

\* The peer never has notifications on without our handler, nor between calls
\* the other way round; a connection's calls made a record only of a handler that
\* is there, and the record knows of a handler of the present connection.
HandledInv ==
  \A c \in Conns \ untidy :
    /\ cccd[c] \/ c \in recordedBy => handler[c]
    /\ ~ InProgress(c) /\ handler[c] => cccd[c] /\ (connected /\ att = c => c \in recordedBy)

\* There is a record exactly if somebody made one.
RecordInv == recorded <=> recordedBy # {}

IInv ==
  /\ TypeOK /\ AgreesWithSocket /\ LossReportedOnce
  /\ FreshInv /\ OneByOne /\ HandledInv /\ RecordInv
====
