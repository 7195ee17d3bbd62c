---- MODULE L2capSocket ----
(***************************************************************************)
(* bluek/_l2cap.py, L2CAPSocket: one L2CAP channel after another on the    *)
(* same event loop, with several tasks sending. What the PDUs say is       *)
(* AttClient's; here a PDU is a send that goes through.                    *)
(*                                                                         *)
(* The loop keeps one reader and one writer callback per file descriptor   *)
(* number (its selector's key), and the kernel watches an open file and    *)
(* forgets it on close. A closed socket's number is taken by the next one, *)
(* so a registration that outlives its socket meets the next socket.       *)
(***************************************************************************)
EXTENDS Integers

CONSTANTS
  Senders,   \* tasks that send one PDU each
  Cap,       \* SDUs the kernel's send buffer holds
  MaxConns,  \* bound: sockets opened
  Connector, \* _wait_connected's callback
  Nobody     \* no callback

ASSUME CapAssumption == Cap \in Nat \ {0}
ASSUME BoundAssumption == MaxConns \in Nat
ASSUME CallbackAssumption ==
  Connector \notin Senders /\ Nobody \notin Senders /\ Nobody # Connector

VARIABLES
  sock,     \* none, connecting, open, closed
  conns,    \* sockets opened so far
  link,     \* the connection is up
  reader,   \* the loop has our read callback for the number
  writer,   \* whose write callback the loop has for the number
  keyed,    \* the selector has a key for the number
  watched,  \* the kernel watches the open file behind that key
  buf,      \* SDUs in the send buffer
  spc,      \* each sender: idle, blocked, woken, stranded, sent, failed
  collided, \* ghost: two sends waited for this socket at once
  leftOver  \* ghost: some socket was closed while a send waited for it

fdVars == <<reader, writer, keyed, watched>>
vars == <<sock, conns, link, fdVars, buf, spc, collided, leftOver>>

TypeOK ==
  /\ sock \in {"none", "connecting", "open", "closed"}
  /\ conns \in 0 .. MaxConns
  /\ {link, reader, keyed, watched, collided, leftOver} \subseteq BOOLEAN
  /\ writer \in Senders \cup {Connector, Nobody}
  /\ buf \in 0 .. Cap
  /\ spc \in [Senders -> {"idle", "blocked", "woken", "stranded", "sent", "failed"}]

Init ==
  /\ sock = "none" /\ conns = 0 /\ link = FALSE
  /\ reader = FALSE /\ writer = Nobody /\ keyed = FALSE /\ watched = FALSE
  /\ buf = 0 /\ spc = [s \in Senders |-> "idle"]
  /\ collided = FALSE /\ leftOver = FALSE

Waiting(s) == spc[s] \in {"blocked", "woken"}

-----------------------------------------------------------------------------
(* asyncio's selector loop, for the number of an open file.                *)

\* A registration that the kernel knows nothing of.
Stale == keyed /\ ~ watched

\* A new key is given to the kernel; a key that already waits for writing is
\* only given its new callback; a key that waits for reading is widened.
AddWriter(w) ==
  /\ writer' = w /\ reader' = reader
  /\ keyed' = TRUE
  /\ watched' = (keyed => watched)

\* What is left is the reader's; a key that nobody uses goes.
RemoveWriter ==
  /\ writer' = Nobody /\ reader' = reader
  /\ keyed' = reader
  /\ watched' = (reader /\ watched)

NoKey == writer' = Nobody /\ reader' = FALSE /\ keyed' = FALSE /\ watched' = FALSE

-----------------------------------------------------------------------------
(* connect and _wait_connected; start_reader follows with no await between.*)

NewSocket ==
  /\ sock \in {"none", "closed"} /\ conns < MaxConns
  /\ conns' = conns + 1
  /\ buf' = 0 /\ collided' = FALSE
  /\ UNCHANGED <<spc, leftOver>>

\* socket, bind or connect fails: the socket is closed again.
ConnectRaises ==
  /\ NewSocket
  /\ sock' = "closed" /\ link' = FALSE
  /\ UNCHANGED fdVars

\* The link exists already and connect succeeds at once. Adding the reader to
\* a stale key asks the kernel about a file it does not know, which raises.
ConnectAtOnce ==
  /\ NewSocket
  /\ sock' = "open" /\ link' = TRUE
  /\ IF Stale THEN NoKey
     ELSE reader' = TRUE /\ keyed' = TRUE /\ watched' = TRUE /\ UNCHANGED writer

\* connect is in progress: wait for the socket to be writable.
ConnectWaits ==
  /\ NewSocket
  /\ sock' = "connecting" /\ link' = FALSE
  /\ AddWriter(Connector)

\* The kernel has the outcome, the callback runs and unregisters, SO_ERROR is
\* read.
ConnectDone ==
  /\ sock = "connecting" /\ watched
  /\ \/ /\ sock' = "open" /\ link' = TRUE
        /\ writer' = Nobody /\ reader' = TRUE /\ keyed' = TRUE /\ watched' = TRUE
     \/ /\ sock' = "closed" /\ NoKey /\ UNCHANGED link
  /\ UNCHANGED <<conns, buf, spc, collided, leftOver>>

\* A slip: nothing unregistered when the wait fails.
ForgetUnregister == /\ watched' = FALSE /\ UNCHANGED <<writer, reader, keyed>>

\* The finally clause of _wait_connected.
WaitUnregisters == NoKey

\* The wait expires or is cancelled.
ConnectGivesUp ==
  /\ sock = "connecting"
  /\ sock' = "closed"
  /\ WaitUnregisters
  /\ UNCHANGED <<conns, link, buf, spc, collided, leftOver>>

-----------------------------------------------------------------------------
(* send.                                                                   *)

Usable == sock = "open" /\ link

\* A slip: "try later" taken for success.
SendOutcomeUnchecked == IF Usable THEN "sent" ELSE "failed"

\* The kernel's answer to one sock.send: taken, try later, or an error.
SendOutcome ==
  CASE ~ Usable -> "failed"
    [] Usable /\ buf < Cap -> "sent"
    [] OTHER -> "blocked"

\* One turn of send's loop.
Turn(s, outcome) ==
  /\ spc' = [spc EXCEPT ![s] = outcome]
  /\ buf' = IF outcome = "sent" THEN buf + 1 ELSE buf
  /\ collided' = (collided \/ (outcome = "blocked" /\ \E t \in Senders \ {s} : Waiting(t)))

Send(s) ==
  /\ spc[s] = "idle" /\ sock \in {"open", "closed"}
  /\ Turn(s, SendOutcome)
  /\ IF SendOutcome = "blocked" THEN AddWriter(s) ELSE UNCHANGED fdVars
  /\ UNCHANGED <<sock, conns, link, leftOver>>

\* The socket is writable, or in error, and the registered callback runs.
Writable ==
  /\ sock = "open" /\ watched
  /\ buf < Cap \/ ~ link
  /\ \E s \in Senders : /\ writer = s /\ spc[s] = "blocked"
                        /\ spc' = [spc EXCEPT ![s] = "woken"]
  /\ UNCHANGED <<sock, conns, link, fdVars, buf, collided, leftOver>>

\* A slip: a second turn does not wait again.
RetryWaits(s) == RemoveWriter

\* The finally clause, which unregisters whatever callback is there, and the
\* next turn of the loop, which may register this sender's again.
Reregister(s) ==
  IF SendOutcome = "blocked"
    THEN writer' = s /\ UNCHANGED <<reader, keyed, watched>>
    ELSE RemoveWriter

SendRetry(s) ==
  /\ spc[s] = "woken" /\ sock = "open"
  /\ Turn(s, SendOutcome)
  /\ Reregister(s)
  /\ UNCHANGED <<sock, conns, link, leftOver>>

\* The sender's task is cancelled. After close the socket has no number any
\* more and remove_writer raises without touching the key.
CancelSend(s) ==
  /\ Waiting(s) \/ spc[s] = "stranded"
  /\ spc' = [spc EXCEPT ![s] = "failed"]
  /\ IF Waiting(s) THEN RemoveWriter ELSE UNCHANGED fdVars
  /\ UNCHANGED <<sock, conns, link, buf, collided, leftOver>>

-----------------------------------------------------------------------------
(* close and _fail.                                                        *)

\* close: the reader is removed, the writer is not, and the kernel forgets
\* the file. A woken sender raises when it runs; one whose callback never ran
\* waits for ever.
Shut(ran) ==
  /\ sock' = "closed"
  /\ reader' = FALSE /\ writer' = writer
  /\ keyed' = (writer # Nobody)
  /\ watched' = FALSE
  /\ spc' = [s \in Senders |->
               CASE spc[s] = "woken" -> "failed"
                 [] spc[s] = "blocked" -> IF s \in ran THEN "failed" ELSE "stranded"
                 [] OTHER -> spc[s]]
  /\ leftOver' = (leftOver \/ \E s \in Senders : Waiting(s))
  /\ UNCHANGED <<conns, link, buf, collided>>

Close ==
  /\ sock = "open"
  /\ Shut({})

\* _read_ready meets an error or the end of the stream. The same event made
\* the socket writable, so the registered sender's callback runs too.
Fail ==
  /\ sock = "open" /\ ~ link /\ reader
  /\ Shut({writer})

-----------------------------------------------------------------------------
(* The kernel and the radio.                                               *)

Drain ==
  /\ Usable /\ buf > 0
  /\ buf' = buf - 1
  /\ UNCHANGED <<sock, conns, link, fdVars, spc, collided, leftOver>>

LinkDown ==
  /\ Usable
  /\ link' = FALSE
  /\ UNCHANGED <<sock, conns, fdVars, buf, spc, collided, leftOver>>

-----------------------------------------------------------------------------
Next ==
  \/ ConnectRaises \/ ConnectAtOnce \/ ConnectWaits \/ ConnectDone \/ ConnectGivesUp
  \/ \E s \in Senders : Send(s) \/ SendRetry(s) \/ CancelSend(s)
  \/ Writable \/ Close \/ Fail \/ Drain \/ LinkDown

Spec == Init /\ [][Next]_vars

\* Callbacks that are due run, woken senders run and the controller sends
\* what it was given. A full buffer stays writable only until the next send,
\* so a waiting sender relies on being told more than once.
FairSpec ==
  /\ Spec
  /\ WF_vars(Fail) /\ WF_vars(Drain) /\ SF_vars(Writable)
  /\ \A s \in Senders : WF_vars(SendRetry(s))

-----------------------------------------------------------------------------
\* A blocked sender is the registered one as long as no other waits for the
\* same socket: nothing else takes its place or removes it.
LoneSenderRegistered ==
  sock = "open" /\ ~ collided =>
    \A s \in Senders : spc[s] = "blocked" => writer = s /\ watched

\* A connection attempt hears from the kernel, unless a send was waiting when
\* some earlier socket was closed.
ConnectIsWatched ==
  sock = "connecting" => writer = Connector /\ (watched \/ leftOver)

\* What the code awaits on a socket, the event loop is watching.
WaitersAreWatched == LoneSenderRegistered /\ ConnectIsWatched

\* A sender that waits alone is done in the end, whatever the others sent
\* before it, unless the socket is closed.
LoneSendEnds ==
  \A s \in Senders :
    spc[s] = "blocked" ~> spc[s] # "blocked" \/ collided \/ sock # "open"

\* send sends its PDU (its docstring), however many tasks are sending.
EverySendEnds ==
  \A s \in Senders : spc[s] = "blocked" ~> spc[s] # "blocked" \/ sock # "open"

-----------------------------------------------------------------------------
(* Why it holds: the inductive invariant of L2capSocketProofs.             *)

\* While a socket is open its registration is live and belongs to a sender
\* that waits; a lone sender that waits is the one.
OpenInv ==
  sock = "open" =>
    /\ reader => keyed
    /\ keyed <=> watched
    /\ writer # Nobody => writer \in Senders /\ Waiting(writer)
    /\ ~ collided => \A s \in Senders : Waiting(s) => writer = s /\ watched

\* Without a socket what is left of the slot is a stale key, the callback of a
\* send that waited when its socket was closed.
ClosedInv ==
  sock \in {"none", "closed"} =>
    /\ ~ reader /\ ~ watched
    /\ keyed <=> writer # Nobody
    /\ keyed => leftOver

\* Nobody is sending on what is not open.
NoneWaits == sock # "open" => \A s \in Senders : ~ Waiting(s)

IInv == TypeOK /\ OpenInv /\ ClosedInv /\ NoneWaits /\ ConnectIsWatched
====
