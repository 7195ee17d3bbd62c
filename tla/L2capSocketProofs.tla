---- MODULE L2capSocketProofs ----
(***************************************************************************)
(* What the code awaits on a socket, the event loop watches: for any       *)
(* senders, any send buffer and any number of sockets one after the other. *)
(* The argument is IInv of L2capSocket, which follows the one slot that    *)
(* the loop has for the descriptor number: whose it is while a socket is   *)
(* open, and what may be left of it when none is.                          *)
(***************************************************************************)
EXTENDS L2capSocket, TLAPS

USE CapAssumption, BoundAssumption, CallbackAssumption
USE DEF fdVars, Waiting, NoKey, RemoveWriter, AddWriter

-----------------------------------------------------------------------------
(* TypeOK in two parts: the flags, and what they do not touch.             *)

FlagsTyped == {link, reader, keyed, watched, collided, leftOver} \subseteq BOOLEAN

RestTyped ==
  /\ sock \in {"none", "connecting", "open", "closed"}
  /\ conns \in 0 .. MaxConns
  /\ writer \in Senders \cup {Connector, Nobody}
  /\ buf \in 0 .. Cap
  /\ spc \in [Senders -> {"idle", "blocked", "woken", "stranded", "sent", "failed"}]

\* The flags, which are Booleans, apart from the rest.
LEMMA TypeParts ==
  /\ TypeOK <=> FlagsTyped /\ RestTyped
  /\ TypeOK' <=> FlagsTyped' /\ RestTyped'
  BY DEF TypeOK, FlagsTyped, RestTyped

-----------------------------------------------------------------------------
(* A new socket.                                                           *)

\* An attempt that raises leaves the slot as it was.
LEMMA ConnectRaisesKeeps ==
  ASSUME IInv, ConnectRaises
  PROVE  IInv'
<1>1. FlagsTyped'
  BY Zenon DEF ConnectRaises, NewSocket, IInv, TypeOK, FlagsTyped
<1>2. RestTyped'
  BY TypeParts DEF ConnectRaises, NewSocket, IInv, RestTyped
<1>3. OpenInv' /\ ConnectIsWatched'
  BY DEF ConnectRaises, OpenInv, ConnectIsWatched
<1>4. ClosedInv' /\ NoneWaits'
  BY DEF ConnectRaises, NewSocket, IInv, ClosedInv, NoneWaits
<1> QED BY <1>1, <1>2, <1>3, <1>4, TypeParts DEF IInv

\* A stale key is dropped, a fresh one has the reader alone.
LEMMA ConnectAtOnceKeeps ==
  ASSUME IInv, ConnectAtOnce
  PROVE  IInv'
<1>1. FlagsTyped'
  BY Zenon DEF ConnectAtOnce, NewSocket, Stale, IInv, TypeOK, FlagsTyped
<1>2. RestTyped'
  BY TypeParts DEF ConnectAtOnce, NewSocket, Stale, IInv, RestTyped
<1>3. OpenInv'
  BY DEF ConnectAtOnce, NewSocket, Stale, IInv, TypeOK, OpenInv, ClosedInv, NoneWaits
<1>4. ClosedInv' /\ NoneWaits' /\ ConnectIsWatched'
  BY DEF ConnectAtOnce, ClosedInv, NoneWaits, ConnectIsWatched
<1> QED BY <1>1, <1>2, <1>3, <1>4, TypeParts DEF IInv

\* A stale key is not watched; then some send was waiting when its socket closed.
LEMMA ConnectWaitsKeeps ==
  ASSUME IInv, ConnectWaits
  PROVE  IInv'
<1>1. FlagsTyped'
  BY Zenon DEF ConnectWaits, NewSocket, IInv, TypeOK, FlagsTyped
<1>2. RestTyped'
  BY TypeParts DEF ConnectWaits, NewSocket, IInv, RestTyped
<1>3. ConnectIsWatched'
  BY DEF ConnectWaits, NewSocket, IInv, ClosedInv, ConnectIsWatched
<1>4. NoneWaits'
  BY DEF ConnectWaits, NewSocket, IInv, NoneWaits
<1>5. OpenInv' /\ ClosedInv'
  BY DEF ConnectWaits, OpenInv, ClosedInv
<1> QED BY <1>1, <1>2, <1>3, <1>4, <1>5, TypeParts DEF IInv

\* The callback unregisters itself; the reader takes its place, or nothing.
LEMMA ConnectDoneKeeps ==
  ASSUME IInv, ConnectDone
  PROVE  IInv'
<1>1. FlagsTyped'
  BY Zenon DEF ConnectDone, IInv, TypeOK, FlagsTyped
<1>2. RestTyped'
  BY TypeParts DEF ConnectDone, IInv, RestTyped
<1>3. OpenInv' /\ ClosedInv' /\ NoneWaits' /\ ConnectIsWatched'
  BY DEF ConnectDone, IInv, OpenInv, ClosedInv, NoneWaits, ConnectIsWatched
<1> QED BY <1>1, <1>2, <1>3, TypeParts DEF IInv

\* A wait given up leaves no registration.
LEMMA ConnectGivesUpKeeps ==
  ASSUME IInv, ConnectGivesUp
  PROVE  IInv'
<1>1. FlagsTyped'
  BY Zenon DEF ConnectGivesUp, WaitUnregisters, IInv, TypeOK, FlagsTyped
<1>2. RestTyped'
  BY TypeParts DEF ConnectGivesUp, WaitUnregisters, IInv, RestTyped
<1>3. OpenInv' /\ ClosedInv' /\ NoneWaits' /\ ConnectIsWatched'
  BY DEF ConnectGivesUp, WaitUnregisters, IInv, OpenInv, ClosedInv, NoneWaits, ConnectIsWatched
<1> QED BY <1>1, <1>2, <1>3, TypeParts DEF IInv

-----------------------------------------------------------------------------
(* send.                                                                   *)

\* A send has one of three outcomes; only with room is it taken.
LEMMA Outcomes ==
  ASSUME TypeOK
  PROVE  /\ SendOutcome \in {"sent", "failed", "blocked"}
         /\ SendOutcome = "sent" => buf < Cap
         /\ SendOutcome = "blocked" => sock = "open"
  BY DEF SendOutcome, Usable, TypeOK

\* A send that blocks takes the slot; if no other waits, nobody loses it.
LEMMA SendKeeps ==
  ASSUME IInv, NEW s \in Senders, Send(s)
  PROVE  IInv'
<1>1. FlagsTyped'
  BY Zenon DEF Send, Turn, IInv, TypeOK, FlagsTyped
<1>2. RestTyped'
  BY TypeParts, Outcomes DEF Send, Turn, IInv, RestTyped
<1>3. OpenInv'
  <2>1. spc \in [Senders -> {"idle", "blocked", "woken", "stranded", "sent", "failed"}]
    BY DEF IInv, TypeOK
  <2>2. CASE SendOutcome = "blocked"
    BY <2>1, <2>2 DEF Send, Turn, IInv, OpenInv
  <2>3. CASE SendOutcome # "blocked"
    BY <2>1, <2>3, Outcomes DEF Send, Turn, IInv, OpenInv
  <2> QED BY <2>2, <2>3
<1>4. ClosedInv' /\ ConnectIsWatched'
  BY Outcomes DEF Send, IInv, ClosedInv, ConnectIsWatched
<1>5. NoneWaits'
  BY Outcomes DEF Send, Turn, IInv, TypeOK, NoneWaits
<1> QED BY <1>1, <1>2, <1>3, <1>4, <1>5, TypeParts DEF IInv

\* The callback that runs is the registered sender's.
LEMMA WritableKeeps ==
  ASSUME IInv, Writable
  PROVE  IInv'
<1>1. FlagsTyped'
  BY Zenon DEF Writable, IInv, TypeOK, FlagsTyped
<1>2. RestTyped'
  BY TypeParts DEF Writable, IInv, RestTyped
<1>3. OpenInv'
  BY DEF Writable, IInv, TypeOK, OpenInv
<1>4. ClosedInv' /\ NoneWaits' /\ ConnectIsWatched'
  BY DEF Writable, ClosedInv, NoneWaits, ConnectIsWatched
<1> QED BY <1>1, <1>2, <1>3, <1>4, TypeParts DEF IInv

\* A sender that blocks again takes the slot again; one that is done clears it.
LEMMA SendRetryKeeps ==
  ASSUME IInv, NEW s \in Senders, SendRetry(s)
  PROVE  IInv'
<1>1. FlagsTyped'
  BY Zenon DEF SendRetry, Turn, Reregister, IInv, TypeOK, FlagsTyped
<1>2. RestTyped'
  BY TypeParts, Outcomes DEF SendRetry, Turn, Reregister, IInv, RestTyped
<1>3. OpenInv'
  <2>1. spc \in [Senders -> {"idle", "blocked", "woken", "stranded", "sent", "failed"}]
    BY DEF IInv, TypeOK
  <2>2. CASE SendOutcome = "blocked"
    BY <2>1, <2>2 DEF SendRetry, Turn, Reregister, IInv, OpenInv
  <2>3. CASE SendOutcome # "blocked"
    BY <2>1, <2>3, Outcomes DEF SendRetry, Turn, Reregister, IInv, OpenInv, TypeOK
  <2> QED BY <2>2, <2>3
<1>4. ClosedInv' /\ NoneWaits' /\ ConnectIsWatched'
  BY DEF SendRetry, ClosedInv, NoneWaits, ConnectIsWatched
<1> QED BY <1>1, <1>2, <1>3, <1>4, TypeParts DEF IInv

\* A cancelled send clears the slot, whoever has it; a stranded one cannot.
LEMMA CancelSendKeeps ==
  ASSUME IInv, NEW s \in Senders, CancelSend(s)
  PROVE  IInv'
<1>1. FlagsTyped'
  BY Zenon DEF CancelSend, IInv, TypeOK, FlagsTyped
<1>2. RestTyped'
  BY TypeParts DEF CancelSend, IInv, RestTyped
<1>3. OpenInv'
  BY DEF CancelSend, IInv, TypeOK, OpenInv
<1>4. ClosedInv' /\ NoneWaits' /\ ConnectIsWatched'
  BY DEF CancelSend, IInv, TypeOK, ClosedInv, NoneWaits, ConnectIsWatched
<1> QED BY <1>1, <1>2, <1>3, <1>4, TypeParts DEF IInv

-----------------------------------------------------------------------------
(* close and _fail, the kernel and the radio.                              *)

\* What close leaves in the slot is the callback of a send that waited.
LEMMA ShutKeeps ==
  ASSUME IInv, sock = "open", NEW ran, Shut(ran)
  PROVE  IInv'
<1>1. FlagsTyped'
  BY Zenon DEF Shut, IInv, TypeOK, FlagsTyped
<1>2. RestTyped'
  BY TypeParts DEF Shut, IInv, RestTyped
<1>3. NoneWaits'
  BY DEF Shut, IInv, TypeOK, NoneWaits
<1>4. ClosedInv'
  BY DEF Shut, IInv, OpenInv, ClosedInv
<1>5. OpenInv' /\ ConnectIsWatched'
  BY DEF Shut, OpenInv, ConnectIsWatched
<1> QED BY <1>1, <1>2, <1>3, <1>4, <1>5, TypeParts DEF IInv

\* The buffer and the link have no part in the slot.
LEMMA DrainKeeps ==
  ASSUME IInv, Drain
  PROVE  IInv'
<1>1. FlagsTyped'
  BY Zenon DEF Drain, IInv, TypeOK, FlagsTyped
<1>2. RestTyped'
  BY TypeParts DEF Drain, IInv, RestTyped
<1>3. OpenInv' /\ ClosedInv' /\ NoneWaits' /\ ConnectIsWatched'
  BY DEF Drain, IInv, OpenInv, ClosedInv, NoneWaits, ConnectIsWatched
<1> QED BY <1>1, <1>2, <1>3, TypeParts DEF IInv

\* A lost link changes nothing until somebody is told of it.
LEMMA LinkDownKeeps ==
  ASSUME IInv, LinkDown
  PROVE  IInv'
<1>1. FlagsTyped'
  BY Zenon DEF LinkDown, IInv, TypeOK, FlagsTyped
<1>2. RestTyped'
  BY TypeParts DEF LinkDown, IInv, RestTyped
<1>3. OpenInv' /\ ClosedInv' /\ NoneWaits' /\ ConnectIsWatched'
  BY DEF LinkDown, IInv, OpenInv, ClosedInv, NoneWaits, ConnectIsWatched
<1> QED BY <1>1, <1>2, <1>3, TypeParts DEF IInv

-----------------------------------------------------------------------------
(* The theorems.                                                           *)

\* IInv is inductive, so it holds throughout.
THEOREM Invariance == Spec => []IInv
<1>1. ASSUME Init PROVE IInv
  <2>1. FlagsTyped
    BY <1>1, Zenon DEF Init, FlagsTyped
  <2>2. RestTyped
    BY <1>1 DEF Init, RestTyped
  <2>3. OpenInv /\ ClosedInv /\ NoneWaits /\ ConnectIsWatched
    BY <1>1 DEF Init, OpenInv, ClosedInv, NoneWaits, ConnectIsWatched
  <2> QED BY <2>1, <2>2, <2>3, TypeParts DEF IInv
<1>2. ASSUME IInv, [Next]_vars PROVE IInv'
  <2>1. CASE UNCHANGED vars
    <3>1. FlagsTyped' /\ RestTyped'
      BY <1>2, <2>1, Zenon DEF vars, IInv, TypeOK, FlagsTyped, RestTyped
    <3>2. OpenInv' /\ ClosedInv' /\ NoneWaits' /\ ConnectIsWatched'
      BY <1>2, <2>1 DEF vars, IInv, OpenInv, ClosedInv, NoneWaits, ConnectIsWatched
    <3> QED BY <3>1, <3>2, TypeParts DEF IInv
  <2>2. CASE Next
    BY <1>2, <2>2, ConnectRaisesKeeps, ConnectAtOnceKeeps, ConnectWaitsKeeps,
       ConnectDoneKeeps, ConnectGivesUpKeeps, SendKeeps, WritableKeeps, SendRetryKeeps,
       CancelSendKeeps, ShutKeeps, DrainKeeps, LinkDownKeeps DEF Next, Close, Fail
  <2> QED BY <1>2, <2>1, <2>2
<1> QED BY <1>1, <1>2, PTL DEF Spec

\* A send that waits alone stays registered with a key that the kernel watches,
\* and a connection attempt hears from the kernel unless a send was waiting when
\* an earlier socket was closed: whatever is cancelled, given up or closed.
THEOREM AwaitedIsWatched == Spec => []WaitersAreWatched
<1>1. IInv => WaitersAreWatched
  BY DEF IInv, OpenInv, WaitersAreWatched, LoneSenderRegistered
<1> QED BY <1>1, Invariance, PTL
====
