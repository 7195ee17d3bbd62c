---- MODULE Scanner ----
(***************************************************************************)
(* bluek/scanner.py (BleakScanner.start and stop) and the                  *)
(* prescan of bluek/client.py (_ensure_kernel_knows_peer), each on a       *)
(* MgmtSocket of bluek/_mgmt.py with its command futures.                  *)
(*                                                                         *)
(* Several tasks use one scanner. A step is what runs between two awaits.  *)
(* The kernel answers a command once, late or never; which status it sends *)
(* makes no difference to the callers, which ignore it. _send has the text *)
(* of L2CAPSocket.send (module L2capSocket); here it succeeds or raises.   *)
(***************************************************************************)
EXTENDS Integers, FiniteSets

CONSTANTS
  Users,     \* tasks that call start and stop
  Scans,     \* tasks that run a prescan, one each
  Nobody,    \* None
  MaxSocks   \* bound: mgmt sockets opened

Tasks == Users \cup Scans
Socks == 1 .. MaxSocks
None == 0
Ops == {"start", "stop"}

ASSUME TasksAssumption == Users \cap Scans = {} /\ Nobody \notin Tasks
ASSUME BoundAssumption == MaxSocks \in Nat

VARIABLES
  running,   \* self._running
  mgmt,      \* self._mgmt
  sock,      \* each mgmt socket: new, closed, or open for a scan or a prescan
  pending,   \* each socket's _pending: whose future awaits each command
  asked,     \* commands that the kernel has not answered
  pc,        \* each task: idle, start, stop (awaiting a command), listen, done
  own,       \* the socket whose command it awaits
  fut,       \* its future: none, pending, answer, gone (timed out, cancelled)
  overlapped,\* ghost: a start began while another call was going on
  leaked,    \* ghost: a start failed after it had opened its socket
  misled     \* ghost: a future was resolved by the answer to another's command

taskVars == <<pc, own, fut>>
sockVars == <<sock, pending, asked>>
ghostVars == <<overlapped, leaked, misled>>
vars == <<running, mgmt, sockVars, taskVars, ghostVars>>

TypeOK ==
  /\ running \in BOOLEAN
  /\ mgmt \in Socks \cup {None}
  /\ mgmt # None => sock[mgmt] = "scan"
  /\ sock \in [Socks -> {"new", "scan", "prescan", "closed"}]
  /\ pending \in [Socks -> [Ops -> Tasks \cup {Nobody}]]
  /\ asked \subseteq [on : Socks, op : Ops, by : Tasks]
  /\ pc \in [Tasks -> {"idle", "start", "stop", "listen", "done"}]
  /\ own \in [Tasks -> Socks \cup {None}]
  /\ fut \in [Tasks -> {"none", "pending", "answer", "gone"}]
  /\ {overlapped, leaked, misled} \subseteq BOOLEAN
  /\ \A t \in Tasks : fut[t] # "none" => pc[t] \in Ops

Init ==
  /\ running = FALSE /\ mgmt = None
  /\ sock = [s \in Socks |-> "new"]
  /\ pending = [s \in Socks |-> [o \in Ops |-> Nobody]]
  /\ asked = {}
  /\ pc = [t \in Tasks |-> "idle"] /\ own = [t \in Tasks |-> None]
  /\ fut = [t \in Tasks |-> "none"]
  /\ overlapped = FALSE /\ leaked = FALSE /\ misled = FALSE

Busy == {t \in Users : pc[t] # "idle"}

-----------------------------------------------------------------------------
(* MgmtSocket.                                                             *)

\* The next socket, if it can be opened.
Opens(s) == sock[s] = "new" /\ \A r \in Socks : r < s => sock[r] # "new"

\* command, over the registrations reg: the future is registered under the
\* opcode and the command sent.
Command(t, s, op, reg) ==
  /\ pending' = [reg EXCEPT ![s][op] = t]
  /\ asked' = asked \cup {[on |-> s, op |-> op, by |-> t]}
  /\ pc' = [pc EXCEPT ![t] = op]
  /\ own' = [own EXCEPT ![t] = s]
  /\ fut' = [fut EXCEPT ![t] = "pending"]

\* _send raises: the future stays registered, command's try is not reached.
CommandRaises(t, s, op, reg) == pending' = [reg EXCEPT ![s][op] = t]

\* The finally clause of command.
PopPending(t) == [pending EXCEPT ![own[t]][pc[t]] = Nobody]

\* A slip: futures not told apart by opcode.
WaiterForAny(c) ==
  IF pending[c.on]["stop"] # Nobody THEN pending[c.on]["stop"] ELSE pending[c.on]["start"]

WaiterFor(c) == pending[c.on][c.op]

\* _read_ready and _resolve.
Answer(c) ==
  /\ c \in asked /\ sock[c.on] # "closed"
  /\ asked' = asked \ {c}
  /\ LET t == WaiterFor(c)
     IN /\ pending' = [pending EXCEPT ![c.on][c.op] = Nobody]
        /\ IF t # Nobody /\ fut[t] = "pending"
             THEN /\ fut' = [fut EXCEPT ![t] = "answer"]
                  /\ misled' = (misled \/ c.by # t \/ c.op # pc[t])
             ELSE UNCHANGED <<fut, misled>>
  /\ UNCHANGED <<running, mgmt, sock, pc, own, overlapped, leaked>>

\* A slip: the wait has no timer.
AwaitingUntimed(t) == fut[t] = "answer"

Awaiting(t) == fut[t] \in {"pending", "answer"}

\* command's timer, or the task is cancelled, before or after the answer.
GivesUp(t) ==
  /\ Awaiting(t)
  /\ fut' = [fut EXCEPT ![t] = "gone"]
  /\ UNCHANGED <<running, mgmt, sockVars, pc, own, ghostVars>>

\* The task resumes after its command.
Resumes(t, op) ==
  /\ pc[t] = op /\ fut[t] \notin {"none", "pending"}

Ends(t, where) ==
  /\ pc' = [pc EXCEPT ![t] = where]
  /\ own' = [own EXCEPT ![t] = None]
  /\ fut' = [fut EXCEPT ![t] = "none"]

CloseSock(s) ==
  /\ sock' = [sock EXCEPT ![s] = "closed"]
  /\ asked' = {c \in asked : c.on # s}

-----------------------------------------------------------------------------
(* BleakScanner.start and stop.                                            *)

\* A slip: _running set before the await.
RunningAtStartEarly == TRUE

RunningAtStart == running

\* start, if a socket can be opened; what send raises leaves it open.
Start(u) ==
  /\ pc[u] = "idle" /\ ~ running
  /\ overlapped' = (overlapped \/ Busy # {})
  /\ \E s \in Socks :
       /\ Opens(s)
       /\ sock' = [sock EXCEPT ![s] = "scan"]
       /\ mgmt' = s
       /\ running' = RunningAtStart
       /\ \/ Command(u, s, "start", pending) /\ UNCHANGED leaked
          \/ CommandRaises(u, s, "start", pending) /\ leaked' = TRUE /\ UNCHANGED <<asked, taskVars>>
  /\ UNCHANGED misled

StartReturns(u) ==
  /\ Resumes(u, "start") /\ fut[u] = "answer"
  /\ running' = TRUE
  /\ pending' = PopPending(u)
  /\ Ends(u, "idle")
  /\ UNCHANGED <<mgmt, sock, asked, ghostVars>>

\* The error leaves start; nothing closes the socket.
StartFails(u) ==
  /\ Resumes(u, "start") /\ fut[u] # "answer"
  /\ leaked' = TRUE
  /\ pending' = PopPending(u)
  /\ Ends(u, "idle")
  /\ UNCHANGED <<running, mgmt, sock, asked, overlapped, misled>>

\* A slip: the closed socket stays in _mgmt.
CloseScanKeeps ==
  IF mgmt = None THEN UNCHANGED <<sock, asked, mgmt>>
  ELSE CloseSock(mgmt) /\ UNCHANGED mgmt

\* A slip: stop forgets to close.
LeaveOpen == UNCHANGED <<sock, asked>> /\ mgmt' = None

\* The finally clause of stop, on the _mgmt of that moment. Without one it
\* raises AttributeError.
CloseScan ==
  IF mgmt = None THEN UNCHANGED <<sock, asked, mgmt>>
  ELSE CloseSock(mgmt) /\ mgmt' = None

\* stop awaits the command, or goes straight to its finally clause because
\* send raises (OSError is swallowed) or there is no socket to ask.
Stop(u) ==
  /\ pc[u] = "idle" /\ running
  /\ running' = FALSE
  /\ \/ /\ mgmt # None
        /\ Command(u, mgmt, "stop", pending)
        /\ UNCHANGED <<mgmt, sock>>
     \/ /\ IF mgmt = None THEN UNCHANGED pending ELSE CommandRaises(u, mgmt, "stop", pending)
        /\ CloseScan
        /\ UNCHANGED taskVars
  /\ UNCHANGED ghostVars

StopReturns(u) ==
  /\ u \in Users /\ Resumes(u, "stop")
  /\ pending' = PopPending(u)
  /\ CloseScan
  /\ Ends(u, "idle")
  /\ UNCHANGED <<running, ghostVars>>

-----------------------------------------------------------------------------
(* _ensure_kernel_knows_peer.                                              *)

Prescan(p) ==
  /\ pc[p] = "idle"
  /\ \E s \in Socks :
       /\ Opens(s)
       /\ sock' = [sock EXCEPT ![s] = "prescan"]
       /\ Command(p, s, "start", pending)
  /\ UNCHANGED <<running, mgmt, ghostVars>>

\* The answer is there: listen until the peer is seen or the budget is over.
PrescanListens(p) ==
  /\ p \in Scans /\ Resumes(p, "start") /\ fut[p] = "answer"
  /\ pending' = PopPending(p)
  /\ pc' = [pc EXCEPT ![p] = "listen"]
  /\ fut' = [fut EXCEPT ![p] = "none"]
  /\ UNCHANGED <<running, mgmt, sock, asked, own, ghostVars>>

\* The finally clause of a first command that failed.
Unregistered(p) == [pending EXCEPT ![own[p]]["start"] = Nobody]

\* The finally clause: stop_discovery, sent or not, whether the listening is over, was
\* cancelled, or the first command failed.
PrescanStops(p) ==
  /\ p \in Scans
  /\ pc[p] = "listen" \/ (Resumes(p, "start") /\ fut[p] # "answer")
  /\ \/ Command(p, own[p], "stop", Unregistered(p)) /\ UNCHANGED sock
     \/ /\ CommandRaises(p, own[p], "stop", Unregistered(p))
        /\ CloseSock(own[p])
        /\ Ends(p, "done")
  /\ UNCHANGED <<running, mgmt, ghostVars>>

\* A slip: the socket is closed only if stop_discovery was answered.
PrescanClosesOnAnswer(p) ==
  IF fut[p] = "answer" THEN CloseSock(own[p]) ELSE UNCHANGED <<sock, asked>>

\* The inner finally clause.
PrescanCloses(p) == CloseSock(own[p])

PrescanEnds(p) ==
  /\ p \in Scans /\ Resumes(p, "stop")
  /\ pending' = PopPending(p)
  /\ PrescanCloses(p)
  /\ Ends(p, "done")
  /\ UNCHANGED <<running, mgmt, ghostVars>>

-----------------------------------------------------------------------------

\* The sockets on which DEVICE_FOUND reaches the scanner's callback.
ScanSocks == {s \in Socks : sock[s] = "scan"}

Next ==
  \/ \E u \in Users : Start(u) \/ StartReturns(u) \/ StartFails(u) \/ Stop(u) \/ StopReturns(u)
  \/ \E p \in Scans : Prescan(p) \/ PrescanListens(p) \/ PrescanStops(p) \/ PrescanEnds(p)
  \/ \E t \in Tasks : GivesUp(t)
  \/ \E c \in asked : Answer(c)

Spec == Init /\ [][Next]_vars

\* The loop runs ready tasks and timers, the kernel need not answer.
FairSpec ==
  /\ Spec
  /\ \A u \in Users : WF_vars(StartReturns(u) \/ StartFails(u)) /\ WF_vars(StopReturns(u))
  /\ \A p \in Scans : WF_vars(PrescanListens(p)) /\ WF_vars(PrescanStops(p)) /\ WF_vars(PrescanEnds(p))
  /\ \A t \in Tasks : WF_vars(fut[t] = "pending" /\ GivesUp(t))

-----------------------------------------------------------------------------
Careful == ~ overlapped /\ ~ leaked

\* A scanner that is used from one place at a time and whose starts succeed
\* has one socket while it runs or a call goes on, and none otherwise: an
\* advertisement calls back once, and not at all after stop. While it runs, also
\* after failed starts, _mgmt is the open socket that stop will close (else stop
\* raises AttributeError, or closes another's).
OneSocketPerScan ==
  /\ Careful => /\ Cardinality(ScanSocks) <= 1
                /\ ~ running /\ Busy = {} => ScanSocks = {}
  /\ ~ overlapped /\ running => mgmt \in ScanSocks

\* A prescan leaves no socket behind, whichever of its awaits fails, however
\* the scanner is used beside it.
PrescanCleansUp ==
  Cardinality({s \in Socks : sock[s] = "prescan"}) <=
  Cardinality({p \in Scans : pc[p] \notin {"idle", "done"}})

\* An answer resolves its own command's future, although futures are keyed by
\* opcode alone and a scanner's socket is shared.
AnswersOwnCommand == ~ overlapped => ~ misled

\* Every call ends, whatever the kernel answers.
CallsEnd == \A t \in Tasks : pc[t] \notin {"idle", "done"} ~> pc[t] \in {"idle", "done"}

-----------------------------------------------------------------------------
(* Why the safety properties hold: the inductive invariant of ScannerProofs.*)

\* A task holds a socket while its call goes on.
TaskInv ==
  /\ \A u \in Users : pc[u] \in {"idle", "start", "stop"}
  /\ \A t \in Tasks : own[t] = None <=> pc[t] \in {"idle", "done"}

\* The prescans that go on and the sockets open for one are in bijection.
PrescanInv ==
  /\ \A p \in Scans : own[p] # None => sock[own[p]] = "prescan"
  /\ \A p, q \in Scans : own[p] = own[q] /\ own[p] # None => p = q
  /\ \A s \in Socks : sock[s] = "prescan" => \E p \in Scans : own[p] = s

\* Calls that do not overlap follow one another on _mgmt; if no start failed
\* either, there is no other socket and this one is closed by the call to come.
ScanInv ==
  /\ ~ overlapped =>
       /\ \A u, v \in Users : own[u] # None /\ own[v] # None => u = v
       /\ \A u \in Users : own[u] # None => own[u] = mgmt /\ ~ running
       /\ running => mgmt # None
  /\ Careful =>
       /\ \A s \in Socks : sock[s] = "scan" => s = mgmt
       /\ mgmt # None => running \/ \E u \in Users : own[u] # None

\* A future that is registered under a command that the kernel still owes an
\* answer is that command's. A stop is owed one only while its call goes on.
AskedInv ==
  /\ \A c \in asked : sock[c.on] \in {"scan", "prescan"}
  /\ ~ overlapped => \A c \in asked :
       /\ pending[c.on][c.op] # Nobody =>
            pending[c.on][c.op] = c.by /\ pc[c.by] = c.op /\ own[c.by] = c.on
       /\ c.op = "stop" => pc[c.by] = "stop" /\ own[c.by] = c.on

IInv == TypeOK /\ TaskInv /\ PrescanInv /\ ScanInv /\ AskedInv /\ AnswersOwnCommand
====
