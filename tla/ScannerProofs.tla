---- MODULE ScannerProofs ----
(***************************************************************************)
(* What a scanner and the prescans beside it promise about their mgmt      *)
(* sockets, for any tasks and any number of sockets. The argument is IInv  *)
(* of Scanner: a prescan and its socket come and go together, and calls of *)
(* a scanner that do not overlap hand one socket on through _mgmt.         *)
(***************************************************************************)
EXTENDS Scanner, FiniteSetTheorems, TLAPS

USE TasksAssumption, BoundAssumption
USE DEF Tasks, Socks, None, Ops, taskVars, sockVars, ghostVars

-----------------------------------------------------------------------------
(* The two parts of TypeOK, and what the shared steps do point by point.   *)

Registrations == [Socks -> [Ops -> Tasks \cup {Nobody}]]
Commands == [on : Socks, op : Ops, by : Tasks]

FlagsTyped == {running, overlapped, leaked, misled} \subseteq BOOLEAN

SocksTyped ==
  /\ mgmt \in Socks \cup {None}
  /\ mgmt # None => sock[mgmt] = "scan"
  /\ sock \in [Socks -> {"new", "scan", "prescan", "closed"}]

TasksTyped ==
  /\ pc \in [Tasks -> {"idle", "start", "stop", "listen", "done"}]
  /\ own \in [Tasks -> Socks \cup {None}]
  /\ fut \in [Tasks -> {"none", "pending", "answer", "gone"}]
  /\ \A t \in Tasks : fut[t] # "none" => pc[t] \in Ops

AskedTyped == pending \in Registrations /\ asked \subseteq Commands

\* TypeOK is the types of the flags, the sockets, the commands and the tasks.
LEMMA TypeParts ==
  /\ TypeOK <=> FlagsTyped /\ SocksTyped /\ TasksTyped /\ AskedTyped
  /\ TypeOK' <=> FlagsTyped' /\ SocksTyped' /\ TasksTyped' /\ AskedTyped'
  BY DEF TypeOK, FlagsTyped, SocksTyped, TasksTyped, AskedTyped, Registrations, Commands

\* A command is registered, asked and awaited.
LEMMA Commanded ==
  ASSUME TasksTyped, AskedTyped, NEW t \in Tasks, NEW s \in Socks, NEW op \in Ops,
         NEW reg \in Registrations, Command(t, s, op, reg)
  PROVE  /\ TasksTyped' /\ AskedTyped'
         /\ pc'[t] = op /\ own'[t] = s
         /\ \A u \in Tasks : u # t => pc'[u] = pc[u] /\ own'[u] = own[u]
         /\ pending'[s][op] = t
         /\ \A r \in Socks, o \in Ops : r # s \/ o # op => pending'[r][o] = reg[r][o]
         /\ \A c \in asked' : c \in asked \/ (c.on = s /\ c.op = op /\ c.by = t)
<1>1. /\ pending' \in Registrations /\ pending'[s][op] = t
      /\ \A r \in Socks, o \in Ops : r # s \/ o # op => pending'[r][o] = reg[r][o]
  BY DEF Command, Registrations
<1>2. /\ asked' \subseteq Commands
      /\ \A c \in asked' : c \in asked \/ (c.on = s /\ c.op = op /\ c.by = t)
  BY DEF Command, AskedTyped, Commands
<1>3. /\ TasksTyped' /\ pc'[t] = op /\ own'[t] = s
      /\ \A u \in Tasks : u # t => pc'[u] = pc[u] /\ own'[u] = own[u]
  BY DEF Command, TasksTyped
<1> QED BY <1>1, <1>2, <1>3 DEF AskedTyped

\* A call is over.
LEMMA Ended ==
  ASSUME TasksTyped, NEW t \in Tasks, NEW where \in {"idle", "done"}, Ends(t, where)
  PROVE  /\ TasksTyped' /\ pc'[t] = where /\ own'[t] = None
         /\ \A u \in Tasks : u # t => pc'[u] = pc[u] /\ own'[u] = own[u]
  BY DEF Ends, TasksTyped

\* A call that is over has its future out of the way.
LEMMA Popped ==
  ASSUME TasksTyped, AskedTyped, TaskInv, NEW t \in Tasks, pc[t] \in Ops
  PROVE  /\ own[t] \in Socks /\ PopPending(t) \in Registrations
         /\ PopPending(t)[own[t]][pc[t]] = Nobody
         /\ \A r \in Socks, o \in Ops :
              r # own[t] \/ o # pc[t] => PopPending(t)[r][o] = pending[r][o]
<1>1. own[t] \in Socks
  BY DEF TasksTyped, TaskInv
<1>2. pending \in Registrations
  BY DEF AskedTyped
<1> QED BY <1>1, <1>2 DEF PopPending, Registrations

-----------------------------------------------------------------------------
(* BleakScanner.                                                           *)

\* start opens a socket and asks, or fails to ask.
LEMMA StartKeeps ==
  ASSUME IInv, NEW u \in Users, Start(u)
  PROVE  IInv'
<1>1. FlagsTyped /\ SocksTyped /\ TasksTyped /\ AskedTyped /\ TaskInv /\ PrescanInv
  BY TypeParts DEF IInv
<1>2. PICK s \in Socks :
        /\ sock[s] = "new" /\ sock' = [sock EXCEPT ![s] = "scan"] /\ mgmt' = s
        /\ \/ Command(u, s, "start", pending) /\ UNCHANGED leaked
           \/ CommandRaises(u, s, "start", pending) /\ leaked' = TRUE /\ UNCHANGED <<asked, taskVars>>
  BY DEF Start, Opens
<1>3. /\ pc[u] = "idle" /\ ~ running /\ running' = running /\ misled' = misled
      /\ overlapped' = (overlapped \/ Busy # {})
  BY DEF Start, RunningAtStart
<1>4. ~ overlapped' => ~ overlapped /\ \A v \in Users : own[v] = None
  BY <1>1, <1>3 DEF Busy, TaskInv
<1>5. /\ SocksTyped' /\ sock'[s] = "scan" /\ \A r \in Socks : r # s => sock'[r] = sock[r]
      /\ \A c \in asked : c.on # s /\ c.on \in Socks /\ c.op \in Ops /\ c.by \in Tasks
  BY <1>1, <1>2 DEF SocksTyped, AskedTyped, Commands, IInv, AskedInv
<1>6. own[u] = None /\ \A t \in Tasks : own[t] # s \/ t \in Users
  BY <1>1, <1>2, <1>3 DEF TaskInv, PrescanInv
<1>7. ~ overlapped' /\ ~ leaked => \A r \in Socks : sock[r] # "scan"
  BY <1>1, <1>3, <1>4 DEF IInv, ScanInv, Careful, SocksTyped
<1>8. AnswersOwnCommand'
  BY <1>3, <1>4 DEF IInv, AnswersOwnCommand
<1>9. CASE Command(u, s, "start", pending) /\ UNCHANGED leaked
  <2>1. /\ TasksTyped' /\ AskedTyped' /\ pc'[u] = "start" /\ own'[u] = s
        /\ \A t \in Tasks : t # u => pc'[t] = pc[t] /\ own'[t] = own[t]
        /\ pending'[s]["start"] = u
        /\ \A r \in Socks, o \in Ops : r # s \/ o # "start" => pending'[r][o] = pending[r][o]
        /\ \A c \in asked' : c \in asked \/ (c.on = s /\ c.op = "start" /\ c.by = u)
    BY <1>1, <1>9, Commanded DEF AskedTyped
  <2>2. FlagsTyped'
    <3>1. overlapped' \in BOOLEAN
      BY <1>1, <1>3, Zenon DEF FlagsTyped
    <3> QED BY <1>1, <1>3, <1>9, <3>1, Zenon DEF FlagsTyped
  <2>3. TaskInv'
    BY <1>1, <2>1 DEF TaskInv
  <2>4. PrescanInv'
    BY <1>1, <1>2, <1>5, <2>1 DEF PrescanInv
  <2>5. ScanInv'
    BY <1>2, <1>3, <1>4, <1>5, <1>7, <1>9, <2>1 DEF ScanInv, Careful
  <2>6. AskedInv'
    BY <1>3, <1>4, <1>5, <2>1 DEF IInv, AskedInv
  <2> QED BY <1>5, <1>8, <2>1, <2>2, <2>3, <2>4, <2>5, <2>6, TypeParts DEF IInv
<1>10. CASE CommandRaises(u, s, "start", pending) /\ leaked' = TRUE /\ UNCHANGED <<asked, taskVars>>
  <2>1. /\ AskedTyped'
        /\ \A r \in Socks, o \in Ops : r # s \/ o # "start" => pending'[r][o] = pending[r][o]
    BY <1>1, <1>10 DEF CommandRaises, AskedTyped, Registrations
  <2>2. FlagsTyped'
    <3>1. overlapped' \in BOOLEAN
      BY <1>1, <1>3, Zenon DEF FlagsTyped
    <3> QED BY <1>1, <1>3, <1>10, <3>1, Zenon DEF FlagsTyped
  <2>3. TaskInv' /\ TasksTyped'
    BY <1>1, <1>10 DEF TaskInv, TasksTyped
  <2>4. PrescanInv'
    BY <1>1, <1>2, <1>5, <1>10 DEF PrescanInv
  <2>5. ScanInv'
    BY <1>2, <1>3, <1>4, <1>5, <1>10 DEF ScanInv, Careful
  <2>6. AskedInv'
    BY <1>4, <1>5, <1>10, <2>1 DEF IInv, AskedInv
  <2> QED BY <1>5, <1>8, <2>1, <2>2, <2>3, <2>4, <2>5, <2>6, TypeParts DEF IInv
<1> QED BY <1>2, <1>9, <1>10

\* start returns.
LEMMA StartEnds ==
  ASSUME IInv, NEW u \in Users, StartReturns(u) \/ StartFails(u)
  PROVE  IInv'
<1>1. FlagsTyped /\ SocksTyped /\ TasksTyped /\ AskedTyped /\ TaskInv /\ PrescanInv
  BY TypeParts DEF IInv
<1>2. /\ pc[u] = "start" /\ pending' = PopPending(u) /\ Ends(u, "idle")
      /\ UNCHANGED <<mgmt, sock, asked, overlapped, misled>>
      /\ \/ running' = TRUE /\ leaked' = leaked
         \/ running' = running /\ leaked' = TRUE
  BY DEF StartReturns, StartFails, Resumes
<1>3. /\ own[u] \in Socks /\ pending' \in Registrations /\ pending'[own[u]]["start"] = Nobody
      /\ \A r \in Socks, o \in Ops : r # own[u] \/ o # "start" => pending'[r][o] = pending[r][o]
  BY <1>1, <1>2, Popped
<1>4. /\ TasksTyped' /\ pc'[u] = "idle" /\ own'[u] = None
      /\ \A t \in Tasks : t # u => pc'[t] = pc[t] /\ own'[t] = own[t]
  BY <1>1, <1>2, Ended
<1>5. FlagsTyped'
  <2>1. running' \in BOOLEAN /\ leaked' \in BOOLEAN
    BY <1>1, <1>2, Zenon DEF FlagsTyped
  <2> QED BY <1>1, <1>2, <2>1, Zenon DEF FlagsTyped
<1>6. SocksTyped' /\ AskedTyped'
  BY <1>1, <1>2, <1>3 DEF SocksTyped, AskedTyped
<1>7. TaskInv' /\ PrescanInv'
  BY <1>1, <1>2, <1>4 DEF TaskInv, PrescanInv
<1>8. ScanInv'
  BY <1>2, <1>3, <1>4 DEF IInv, ScanInv, Careful
<1>9. AskedInv'
  <2>1. \A c \in asked : c.on \in Socks /\ c.op \in Ops /\ c.by \in Tasks
    BY <1>1 DEF AskedTyped, Commands
  <2> QED BY <1>2, <1>3, <1>4, <2>1 DEF IInv, AskedInv
<1>10. AnswersOwnCommand'
  BY <1>2 DEF IInv, AnswersOwnCommand
<1> QED BY <1>4, <1>5, <1>6, <1>7, <1>8, <1>9, <1>10, TypeParts DEF IInv

\* stop closes what _mgmt is at the time.
LEMMA ScanCloses ==
  ASSUME SocksTyped, AskedTyped, CloseScan
  PROVE  /\ SocksTyped' /\ mgmt' = None /\ asked' \subseteq asked
         /\ \A s \in Socks : sock'[s] = IF s = mgmt THEN "closed" ELSE sock[s]
         /\ \A c \in asked' : c.on # mgmt
  BY DEF SocksTyped, AskedTyped, Commands, CloseScan, CloseSock

\* stop asks, or goes straight on to close.
LEMMA StopKeeps ==
  ASSUME IInv, NEW u \in Users, Stop(u)
  PROVE  IInv'
<1>1. FlagsTyped /\ SocksTyped /\ TasksTyped /\ AskedTyped /\ TaskInv /\ PrescanInv
  BY TypeParts DEF IInv
<1>2. /\ pc[u] = "idle" /\ running /\ running' = FALSE /\ UNCHANGED ghostVars
      /\ \/ mgmt # None /\ Command(u, mgmt, "stop", pending) /\ UNCHANGED <<mgmt, sock>>
         \/ /\ IF mgmt = None THEN UNCHANGED pending ELSE CommandRaises(u, mgmt, "stop", pending)
            /\ CloseScan /\ UNCHANGED taskVars
  BY DEF Stop
<1>3. FlagsTyped'
  BY <1>1, <1>2, Zenon DEF FlagsTyped
<1>4. AnswersOwnCommand'
  BY <1>2 DEF IInv, AnswersOwnCommand
<1>5. ~ overlapped => \A v \in Users : own[v] = None
  BY <1>2 DEF IInv, ScanInv
<1>6. \A c \in asked : c.on \in Socks /\ c.op \in Ops /\ c.by \in Tasks
  BY <1>1 DEF AskedTyped, Commands
<1>7. own[u] = None
  BY <1>1, <1>2 DEF TaskInv
<1>8. CASE mgmt # None /\ Command(u, mgmt, "stop", pending) /\ UNCHANGED <<mgmt, sock>>
  <2>1. mgmt \in Socks /\ sock[mgmt] = "scan"
    BY <1>1, <1>8 DEF SocksTyped
  <2>2. /\ TasksTyped' /\ AskedTyped' /\ pc'[u] = "stop" /\ own'[u] = mgmt
        /\ \A t \in Tasks : t # u => pc'[t] = pc[t] /\ own'[t] = own[t]
        /\ pending'[mgmt]["stop"] = u
        /\ \A r \in Socks, o \in Ops : r # mgmt \/ o # "stop" => pending'[r][o] = pending[r][o]
        /\ \A c \in asked' : c \in asked \/ (c.on = mgmt /\ c.op = "stop" /\ c.by = u)
    BY <1>1, <1>8, <2>1, Commanded DEF AskedTyped
  <2>3. SocksTyped'
    BY <1>1, <1>8 DEF SocksTyped
  <2>4. TaskInv' /\ PrescanInv'
    BY <1>1, <1>8, <2>1, <2>2 DEF TaskInv, PrescanInv
  <2>5. ScanInv'
    BY <1>2, <1>5, <1>8, <2>2 DEF IInv, ScanInv, Careful
  <2>6. ~ overlapped => \A c \in asked :
          /\ c.by = u => pending[c.on][c.op] = Nobody /\ c.op # "stop"
          /\ c.on = mgmt => c.op # "stop"
    <3>1. ~ overlapped => \A c \in asked : c.by = u => pending[c.on][c.op] = Nobody /\ c.op # "stop"
      BY <1>2, <1>6 DEF IInv, AskedInv
    <3>2. \A t \in Tasks : own[t] = mgmt => t \in Users
      BY <1>1, <1>8, <2>1 DEF PrescanInv
    <3>3. ~ overlapped => \A c \in asked : c.on = mgmt => c.op # "stop"
      BY <1>5, <1>6, <1>8, <3>2 DEF IInv, AskedInv
    <3> QED BY <3>1, <3>3
  <2>7. AskedInv'
    BY <1>2, <1>5, <1>6, <1>8, <2>1, <2>2, <2>6 DEF IInv, AskedInv
  <2> QED BY <1>3, <1>4, <2>2, <2>3, <2>4, <2>5, <2>7, TypeParts DEF IInv
<1>9. CASE /\ IF mgmt = None THEN UNCHANGED pending ELSE CommandRaises(u, mgmt, "stop", pending)
           /\ CloseScan /\ UNCHANGED taskVars
  <2>1. /\ SocksTyped' /\ mgmt' = None /\ asked' \subseteq asked
        /\ \A s \in Socks : sock'[s] = IF s = mgmt THEN "closed" ELSE sock[s]
        /\ \A c \in asked' : c.on # mgmt
    BY <1>1, <1>9, ScanCloses
  <2>2. TasksTyped' /\ TaskInv'
    BY <1>1, <1>9 DEF TasksTyped, TaskInv
  <2>3. /\ AskedTyped'
        /\ \A r \in Socks, o \in Ops : r # mgmt => pending'[r][o] = pending[r][o]
    <3>1. CASE mgmt = None
      BY <1>1, <1>9, <2>1, <3>1 DEF AskedTyped
    <3>2. CASE mgmt # None
      <4>1. mgmt \in Socks
        BY <1>1, <3>2 DEF SocksTyped
      <4>2. pending' = [pending EXCEPT ![mgmt]["stop"] = u]
        BY <1>9, <3>2 DEF CommandRaises
      <4> QED BY <1>1, <2>1, <4>1, <4>2 DEF AskedTyped, Registrations
    <3> QED BY <3>1, <3>2
  <2>4. PrescanInv'
    BY <1>1, <1>9, <2>1 DEF PrescanInv, SocksTyped, TasksTyped
  <2>5. ScanInv'
    BY <1>2, <1>5, <1>9, <2>1 DEF IInv, ScanInv, Careful
  <2>6. AskedInv'
    BY <1>2, <1>6, <1>9, <2>1, <2>3 DEF IInv, AskedInv
  <2> QED BY <1>3, <1>4, <2>1, <2>2, <2>3, <2>4, <2>5, <2>6, TypeParts DEF IInv
<1> QED BY <1>2, <1>8, <1>9

\* stop returns.
LEMMA StopReturnsKeeps ==
  ASSUME IInv, NEW u \in Users, StopReturns(u)
  PROVE  IInv'
<1>1. FlagsTyped /\ SocksTyped /\ TasksTyped /\ AskedTyped /\ TaskInv /\ PrescanInv
  BY TypeParts DEF IInv
<1>2. /\ pc[u] = "stop" /\ pending' = PopPending(u) /\ CloseScan /\ Ends(u, "idle")
      /\ UNCHANGED <<running, ghostVars>>
  BY DEF StopReturns, Resumes
<1>3. /\ own[u] \in Socks /\ pending' \in Registrations /\ pending'[own[u]]["stop"] = Nobody
      /\ \A r \in Socks, o \in Ops : r # own[u] \/ o # "stop" => pending'[r][o] = pending[r][o]
  BY <1>1, <1>2, Popped
<1>4. /\ TasksTyped' /\ pc'[u] = "idle" /\ own'[u] = None
      /\ \A t \in Tasks : t # u => pc'[t] = pc[t] /\ own'[t] = own[t]
  BY <1>1, <1>2, Ended
<1>5. /\ SocksTyped' /\ mgmt' = None /\ asked' \subseteq asked
      /\ \A s \in Socks : sock'[s] = IF s = mgmt THEN "closed" ELSE sock[s]
      /\ \A c \in asked' : c.on # mgmt
  BY <1>1, <1>2, ScanCloses
<1>6. FlagsTyped'
  BY <1>1, <1>2, Zenon DEF FlagsTyped
<1>7. AskedTyped'
  BY <1>1, <1>3, <1>5 DEF AskedTyped
<1>8. TaskInv'
  BY <1>1, <1>4 DEF TaskInv
<1>9. PrescanInv'
  BY <1>1, <1>4, <1>5 DEF PrescanInv, SocksTyped, TasksTyped
<1>10. ~ overlapped => own[u] = mgmt /\ ~ running /\ \A v \in Users : own'[v] = None
  BY <1>3, <1>4 DEF IInv, ScanInv
<1>11. ScanInv'
  BY <1>2, <1>5, <1>10 DEF IInv, ScanInv, Careful
<1>12. AskedInv'
  <2>1. \A c \in asked : c.on \in Socks /\ c.op \in Ops /\ c.by \in Tasks
    BY <1>1 DEF AskedTyped, Commands
  <2>2. \A c \in asked' : sock'[c.on] \in {"scan", "prescan"}
    BY <1>5, <2>1 DEF IInv, AskedInv
  <2>3. ~ overlapped => \A c \in asked' :
          /\ pending'[c.on][c.op] = pending[c.on][c.op]
          /\ c.by = u => pending[c.on][c.op] = Nobody /\ c.op # "stop"
    BY <1>2, <1>3, <1>5, <1>10, <2>1 DEF IInv, AskedInv
  <2> QED BY <1>2, <1>4, <1>5, <2>1, <2>2, <2>3 DEF IInv, AskedInv
<1>13. AnswersOwnCommand'
  BY <1>2 DEF IInv, AnswersOwnCommand
<1> QED BY <1>4, <1>5, <1>6, <1>7, <1>8, <1>9, <1>11, <1>12, <1>13, TypeParts DEF IInv

-----------------------------------------------------------------------------
(* The prescan.                                                            *)

\* A prescan opens a socket and asks.
LEMMA PrescanKeeps ==
  ASSUME IInv, NEW p \in Scans, Prescan(p)
  PROVE  IInv'
<1>1. FlagsTyped /\ SocksTyped /\ TasksTyped /\ AskedTyped /\ TaskInv /\ PrescanInv
  BY TypeParts DEF IInv
<1>2. PICK s \in Socks :
        /\ sock[s] = "new" /\ sock' = [sock EXCEPT ![s] = "prescan"]
        /\ Command(p, s, "start", pending)
  BY DEF Prescan, Opens
<1>3. pc[p] = "idle" /\ UNCHANGED <<running, mgmt, ghostVars>> /\ own[p] = None
  BY <1>1 DEF Prescan, TaskInv
<1>4. /\ TasksTyped' /\ AskedTyped' /\ pc'[p] = "start" /\ own'[p] = s
      /\ \A t \in Tasks : t # p => pc'[t] = pc[t] /\ own'[t] = own[t]
      /\ pending'[s]["start"] = p
      /\ \A r \in Socks, o \in Ops : r # s \/ o # "start" => pending'[r][o] = pending[r][o]
      /\ \A c \in asked' : c \in asked \/ (c.on = s /\ c.op = "start" /\ c.by = p)
  BY <1>1, <1>2, Commanded DEF AskedTyped
<1>5. /\ SocksTyped' /\ sock'[s] = "prescan" /\ \A r \in Socks : r # s => sock'[r] = sock[r]
      /\ \A c \in asked : c.on # s /\ c.on \in Socks /\ c.op \in Ops /\ c.by \in Tasks
  BY <1>1, <1>2, <1>3 DEF SocksTyped, AskedTyped, Commands, IInv, AskedInv
<1>6. FlagsTyped'
  BY <1>1, <1>3, Zenon DEF FlagsTyped
<1>7. TaskInv'
  BY <1>1, <1>4 DEF TaskInv
<1>8. PrescanInv'
  BY <1>1, <1>2, <1>3, <1>4, <1>5 DEF PrescanInv
<1>9. ScanInv'
  BY <1>3, <1>4, <1>5 DEF IInv, ScanInv, Careful
<1>10. AskedInv'
  BY <1>3, <1>4, <1>5 DEF IInv, AskedInv
<1>11. AnswersOwnCommand'
  BY <1>3 DEF IInv, AnswersOwnCommand
<1> QED BY <1>4, <1>5, <1>6, <1>7, <1>8, <1>9, <1>10, <1>11, TypeParts DEF IInv

\* The prescan listens.
LEMMA PrescanListensKeeps ==
  ASSUME IInv, NEW p \in Scans, PrescanListens(p)
  PROVE  IInv'
<1>1. FlagsTyped /\ SocksTyped /\ TasksTyped /\ AskedTyped /\ TaskInv /\ PrescanInv
  BY TypeParts DEF IInv
<1>2. /\ pc[p] = "start" /\ pending' = PopPending(p) /\ pc' = [pc EXCEPT ![p] = "listen"]
      /\ fut' = [fut EXCEPT ![p] = "none"]
      /\ UNCHANGED <<running, mgmt, sock, asked, own, ghostVars>>
  BY DEF PrescanListens, Resumes
<1>3. /\ own[p] \in Socks /\ pending' \in Registrations /\ pending'[own[p]]["start"] = Nobody
      /\ \A r \in Socks, o \in Ops : r # own[p] \/ o # "start" => pending'[r][o] = pending[r][o]
  BY <1>1, <1>2, Popped
<1>4. TasksTyped' /\ TaskInv' /\ pc'[p] = "listen" /\ \A t \in Tasks : t # p => pc'[t] = pc[t]
  BY <1>1, <1>2 DEF TasksTyped, TaskInv
<1>5. FlagsTyped'
  BY <1>1, <1>2, Zenon DEF FlagsTyped
<1>6. SocksTyped' /\ AskedTyped' /\ PrescanInv'
  BY <1>1, <1>2, <1>3 DEF SocksTyped, AskedTyped, PrescanInv
<1>7. ScanInv'
  BY <1>2 DEF IInv, ScanInv, Careful
<1>8. AskedInv'
  <2>1. \A c \in asked : c.on \in Socks /\ c.op \in Ops /\ c.by \in Tasks
    BY <1>1 DEF AskedTyped, Commands
  <2> QED BY <1>2, <1>3, <1>4, <2>1 DEF IInv, AskedInv
<1>9. AnswersOwnCommand'
  BY <1>2 DEF IInv, AnswersOwnCommand
<1> QED BY <1>4, <1>5, <1>6, <1>7, <1>8, <1>9, TypeParts DEF IInv

\* The finally clause takes back the first command's future and asks to stop, or
\* fails to and closes.
LEMMA PrescanStopsKeeps ==
  ASSUME IInv, NEW p \in Scans, PrescanStops(p)
  PROVE  IInv'
<1>1. FlagsTyped /\ SocksTyped /\ TasksTyped /\ AskedTyped /\ TaskInv /\ PrescanInv
  BY TypeParts DEF IInv
<1>2. /\ pc[p] \in {"listen", "start"} /\ UNCHANGED <<running, mgmt, ghostVars>>
      /\ \/ Command(p, own[p], "stop", Unregistered(p)) /\ UNCHANGED sock
         \/ /\ CommandRaises(p, own[p], "stop", Unregistered(p))
            /\ CloseSock(own[p]) /\ Ends(p, "done")
  BY DEF PrescanStops, Resumes
<1>3. own[p] \in Socks /\ own[p] # None /\ sock[own[p]] = "prescan"
  BY <1>1, <1>2 DEF TasksTyped, TaskInv, PrescanInv
<1>4. /\ Unregistered(p) \in Registrations
      /\ Unregistered(p)[own[p]]["start"] = Nobody
      /\ \A r \in Socks, o \in Ops : r # own[p] \/ o # "start" => Unregistered(p)[r][o] = pending[r][o]
  BY <1>1, <1>3 DEF Unregistered, AskedTyped, Registrations
<1>5. FlagsTyped'
  BY <1>1, <1>2, Zenon DEF FlagsTyped
<1>6. \A c \in asked : c.on \in Socks /\ c.op \in Ops /\ c.by \in Tasks
  BY <1>1 DEF AskedTyped, Commands
<1>7. ~ overlapped => \A c \in asked : c.by = p => /\ c.op # "stop"
                                                 /\ Unregistered(p)[c.on][c.op] = Nobody
  BY <1>2, <1>3, <1>4, <1>6 DEF IInv, AskedInv
<1>8. AnswersOwnCommand'
  BY <1>2 DEF IInv, AnswersOwnCommand
<1>9. CASE Command(p, own[p], "stop", Unregistered(p)) /\ UNCHANGED sock
  <2>1. /\ TasksTyped' /\ AskedTyped' /\ pc'[p] = "stop" /\ own'[p] = own[p]
        /\ \A t \in Tasks : t # p => pc'[t] = pc[t] /\ own'[t] = own[t]
        /\ pending'[own[p]]["stop"] = p
        /\ \A r \in Socks, o \in Ops :
             r # own[p] \/ o # "stop" => pending'[r][o] = Unregistered(p)[r][o]
        /\ \A c \in asked' : c \in asked \/ (c.on = own[p] /\ c.op = "stop" /\ c.by = p)
    BY <1>1, <1>3, <1>4, <1>9, Commanded
  <2>2. SocksTyped'
    BY <1>1, <1>2, <1>9 DEF SocksTyped
  <2>3. TaskInv' /\ PrescanInv'
    BY <1>1, <1>2, <1>9, <2>1 DEF TaskInv, PrescanInv
  <2>4. ScanInv'
    BY <1>2, <1>9, <2>1 DEF IInv, ScanInv, Careful
  <2>5. ~ overlapped => \A c \in asked : c.on = own[p] => c.op # "stop"
    <3>1. ~ overlapped => \A u \in Users : own[u] # own[p]
      BY <1>1, <1>3 DEF IInv, ScanInv, SocksTyped
    <3>2. ~ overlapped => \A t \in Tasks : own[t] = own[p] => t = p
      BY <1>1, <1>3, <3>1 DEF PrescanInv
    <3> QED BY <1>2, <1>6, <1>7, <3>2 DEF IInv, AskedInv
  <2>6. AskedInv'
    <3>1. \A c \in asked' : sock'[c.on] \in {"scan", "prescan"}
      BY <1>3, <1>9, <2>1 DEF IInv, AskedInv
    <3>2. ~ overlapped => \A c \in asked : c.by # p =>
            /\ pending'[c.on][c.op] = Nobody \/ pending'[c.on][c.op] = pending[c.on][c.op]
            /\ pc'[c.by] = pc[c.by] /\ own'[c.by] = own[c.by]
      BY <1>4, <1>6, <2>1, <2>5
    <3>3. ~ overlapped => \A c \in asked : c.by = p => c.op # "stop" /\ pending'[c.on][c.op] = Nobody
      BY <1>6, <1>7, <2>1
    <3> QED BY <1>2, <2>1, <3>1, <3>2, <3>3 DEF IInv, AskedInv
  <2> QED BY <1>5, <1>8, <2>1, <2>2, <2>3, <2>4, <2>6, TypeParts DEF IInv
<1>10. CASE /\ CommandRaises(p, own[p], "stop", Unregistered(p))
            /\ CloseSock(own[p]) /\ Ends(p, "done")
  <2>1. /\ TasksTyped' /\ pc'[p] = "done" /\ own'[p] = None
        /\ \A t \in Tasks : t # p => pc'[t] = pc[t] /\ own'[t] = own[t]
    BY <1>1, <1>10, Ended
  <2>2. /\ pending' \in Registrations
        /\ \A r \in Socks, o \in Ops : r # own[p] => pending'[r][o] = pending[r][o]
    BY <1>3, <1>4, <1>10 DEF CommandRaises, Registrations
  <2>3. /\ SocksTyped' /\ AskedTyped' /\ asked' = {c \in asked : c.on # own[p]}
        /\ sock'[own[p]] = "closed" /\ \A r \in Socks : r # own[p] => sock'[r] = sock[r]
    BY <1>1, <1>2, <1>3, <1>10, <2>2 DEF CloseSock, SocksTyped, AskedTyped
  <2>4. TaskInv' /\ PrescanInv'
    <3>1. TaskInv'
      BY <1>1, <2>1 DEF TaskInv
    <3>2. PrescanInv'
      BY <1>1, <1>3, <2>1, <2>3 DEF PrescanInv, TasksTyped
    <3> QED BY <3>1, <3>2
  <2>5. ScanInv'
    BY <1>2, <1>3, <2>1, <2>3 DEF IInv, ScanInv, Careful
  <2>6. AskedInv'
    BY <1>2, <1>3, <1>4, <1>6, <1>7, <2>1, <2>2, <2>3 DEF IInv, AskedInv
  <2> QED BY <1>5, <1>8, <2>1, <2>3, <2>4, <2>5, <2>6, TypeParts DEF IInv
<1> QED BY <1>2, <1>9, <1>10

\* The prescan closes its socket.
LEMMA PrescanEndsKeeps ==
  ASSUME IInv, NEW p \in Scans, PrescanEnds(p)
  PROVE  IInv'
<1>1. FlagsTyped /\ SocksTyped /\ TasksTyped /\ AskedTyped /\ TaskInv /\ PrescanInv
  BY TypeParts DEF IInv
<1>2. /\ pc[p] = "stop" /\ pending' = PopPending(p) /\ CloseSock(own[p]) /\ Ends(p, "done")
      /\ UNCHANGED <<running, mgmt, ghostVars>>
  BY DEF PrescanEnds, PrescanCloses, Resumes
<1>3. /\ own[p] \in Socks /\ pending' \in Registrations
      /\ \A r \in Socks, o \in Ops : r # own[p] \/ o # "stop" => pending'[r][o] = pending[r][o]
  BY <1>1, <1>2, Popped
<1>4. /\ TasksTyped' /\ pc'[p] = "done" /\ own'[p] = None
      /\ \A t \in Tasks : t # p => pc'[t] = pc[t] /\ own'[t] = own[t]
  BY <1>1, <1>2, Ended
<1>5. own[p] # None /\ sock[own[p]] = "prescan"
  BY <1>1, <1>2 DEF TaskInv, PrescanInv
<1>6. /\ SocksTyped' /\ AskedTyped' /\ asked' = {c \in asked : c.on # own[p]}
      /\ sock'[own[p]] = "closed" /\ \A r \in Socks : r # own[p] => sock'[r] = sock[r]
  BY <1>1, <1>2, <1>3, <1>5 DEF CloseSock, SocksTyped, AskedTyped
<1>7. FlagsTyped'
  BY <1>1, <1>2, Zenon DEF FlagsTyped
<1>8. TaskInv' /\ PrescanInv'
  <2>1. TaskInv'
    BY <1>1, <1>4 DEF TaskInv
  <2>2. PrescanInv'
    BY <1>1, <1>3, <1>4, <1>5, <1>6 DEF PrescanInv, TasksTyped
  <2> QED BY <2>1, <2>2
<1>9. ScanInv'
  BY <1>2, <1>4, <1>5, <1>6 DEF IInv, ScanInv, Careful
<1>10. AskedInv'
  <2>1. \A c \in asked : c.on \in Socks /\ c.op \in Ops /\ c.by \in Tasks
    BY <1>1 DEF AskedTyped, Commands
  <2>2. ~ overlapped => \A c \in asked' :
          /\ pending'[c.on][c.op] = pending[c.on][c.op]
          /\ c.by = p => pending[c.on][c.op] = Nobody /\ c.op # "stop"
    BY <1>2, <1>3, <1>6, <2>1 DEF IInv, AskedInv
  <2>3. \A c \in asked' : sock'[c.on] \in {"scan", "prescan"}
    BY <1>6, <2>1 DEF IInv, AskedInv
  <2>4. overlapped' = overlapped /\ asked' \subseteq asked
    BY <1>2, <1>6
  <2>5. ASSUME ~ overlapped, NEW c \in asked'
        PROVE  /\ pending'[c.on][c.op] # Nobody =>
                    pending'[c.on][c.op] = c.by /\ pc'[c.by] = c.op /\ own'[c.by] = c.on
               /\ c.op = "stop" => pc'[c.by] = "stop" /\ own'[c.by] = c.on
    <3>1. CASE c.by = p
      BY <2>2, <2>5, <3>1
    <3>2. CASE c.by # p
      <4>1. /\ pc'[c.by] = pc[c.by] /\ own'[c.by] = own[c.by] /\ c \in asked
            /\ pending'[c.on][c.op] = pending[c.on][c.op]
        BY <1>4, <2>1, <2>2, <2>4, <2>5, <3>2
      <4> QED BY <2>5, <4>1 DEF IInv, AskedInv
    <3> QED BY <3>1, <3>2
  <2> QED BY <2>3, <2>4, <2>5 DEF AskedInv
<1>11. AnswersOwnCommand'
  BY <1>2 DEF IInv, AnswersOwnCommand
<1> QED BY <1>4, <1>6, <1>7, <1>8, <1>9, <1>10, <1>11, TypeParts DEF IInv

-----------------------------------------------------------------------------
(* Both.                                                                   *)

\* A command is given up; what is registered for it stays.
LEMMA GivesUpKeeps ==
  ASSUME IInv, NEW t \in Tasks, GivesUp(t)
  PROVE  IInv'
<1>1. FlagsTyped /\ SocksTyped /\ TasksTyped /\ AskedTyped
  BY TypeParts DEF IInv
<1>2. /\ fut[t] # "none" /\ fut' = [fut EXCEPT ![t] = "gone"]
      /\ UNCHANGED <<running, mgmt, sockVars, pc, own, ghostVars>>
  BY DEF GivesUp, Awaiting
<1>3. FlagsTyped'
  BY <1>1, <1>2, Zenon DEF FlagsTyped
<1>4. SocksTyped' /\ TasksTyped' /\ AskedTyped'
  BY <1>1, <1>2 DEF SocksTyped, TasksTyped, AskedTyped
<1>5. TaskInv' /\ PrescanInv' /\ ScanInv' /\ AskedInv' /\ AnswersOwnCommand'
  BY <1>2 DEF IInv, TaskInv, PrescanInv, ScanInv, Careful, AskedInv, AnswersOwnCommand
<1> QED BY <1>3, <1>4, <1>5, TypeParts DEF IInv

\* The kernel answers a command, and whoever is registered for its opcode is told.
LEMMA AnswerKeeps ==
  ASSUME IInv, NEW c \in asked, Answer(c)
  PROVE  IInv'
<1>1. FlagsTyped /\ SocksTyped /\ TasksTyped /\ AskedTyped
  BY TypeParts DEF IInv
<1>2. /\ asked' = asked \ {c}
      /\ pending' = [pending EXCEPT ![c.on][c.op] = Nobody]
      /\ UNCHANGED <<running, mgmt, sock, pc, own, overlapped, leaked>>
  BY DEF Answer
<1>3. PICK t : t = pending[c.on][c.op]
  OBVIOUS
<1>4. IF t # Nobody /\ fut[t] = "pending"
        THEN /\ fut' = [fut EXCEPT ![t] = "answer"]
             /\ misled' = (misled \/ c.by # t \/ c.op # pc[t])
        ELSE UNCHANGED <<fut, misled>>
  BY <1>3 DEF Answer, WaiterFor
<1>5. c.on \in Socks /\ c.op \in Ops /\ c.by \in Tasks
  BY <1>1 DEF AskedTyped, Commands
<1>6. t \in Tasks \cup {Nobody}
  BY <1>1, <1>3, <1>5 DEF AskedTyped, Registrations
<1>7. FlagsTyped'
  <2>1. misled' \in BOOLEAN
    BY <1>1, <1>4, Zenon DEF FlagsTyped
  <2> QED BY <1>1, <1>2, <2>1, Zenon DEF FlagsTyped
<1>8. SocksTyped' /\ TasksTyped'
  BY <1>1, <1>2, <1>4, <1>6 DEF SocksTyped, TasksTyped
<1>9. /\ pending' \in Registrations
      /\ \A r \in Socks, o \in Ops : pending'[r][o] = Nobody \/ pending'[r][o] = pending[r][o]
  BY <1>1, <1>2, <1>5 DEF AskedTyped, Registrations
<1>10. AskedTyped'
  BY <1>1, <1>2, <1>9 DEF AskedTyped
<1>11. TaskInv' /\ PrescanInv' /\ ScanInv'
  BY <1>2 DEF IInv, TaskInv, PrescanInv, ScanInv, Careful
<1>12. AskedInv'
  <2>1. \A d \in asked : d.on \in Socks /\ d.op \in Ops
    BY <1>1 DEF AskedTyped, Commands
  <2> QED BY <1>2, <1>9, <2>1 DEF IInv, AskedInv
<1>13. AnswersOwnCommand'
  <2>1. ~ overlapped /\ t # Nobody => c.by = t /\ c.op = pc[t]
    BY <1>3 DEF IInv, AskedInv
  <2> QED BY <1>2, <1>4, <2>1 DEF IInv, AnswersOwnCommand
<1> QED BY <1>7, <1>8, <1>10, <1>11, <1>12, <1>13, TypeParts DEF IInv

-----------------------------------------------------------------------------
\* No socket has been opened.
LEMMA InitKeeps ==
  ASSUME Init
  PROVE  IInv
<1>1. FlagsTyped
  BY Zenon DEF Init, FlagsTyped
<1>2. SocksTyped /\ TasksTyped /\ AskedTyped
  BY DEF Init, SocksTyped, TasksTyped, AskedTyped, Registrations
<1>3. TaskInv /\ PrescanInv /\ ScanInv /\ AskedInv /\ AnswersOwnCommand
  BY DEF Init, TaskInv, PrescanInv, ScanInv, AskedInv, AnswersOwnCommand
<1> QED BY <1>1, <1>2, <1>3, TypeParts DEF IInv

\* A step that changes nothing.
LEMMA StutterKeeps ==
  ASSUME IInv, UNCHANGED vars
  PROVE  IInv'
<1>1. UNCHANGED <<running, mgmt, sockVars, taskVars, ghostVars>>
  BY DEF vars
<1>2. FlagsTyped'
  BY <1>1, TypeParts, Zenon DEF IInv, FlagsTyped
<1>3. SocksTyped' /\ TasksTyped' /\ AskedTyped'
  BY <1>1, TypeParts DEF IInv, SocksTyped, TasksTyped, AskedTyped
<1>4. TaskInv' /\ PrescanInv' /\ ScanInv' /\ AskedInv' /\ AnswersOwnCommand'
  BY <1>1 DEF IInv, TaskInv, PrescanInv, ScanInv, Careful, AskedInv, AnswersOwnCommand
<1> QED BY <1>2, <1>3, <1>4, TypeParts DEF IInv

\* The strengthening is inductive, for any users, prescans and sockets.
THEOREM Invariance == Spec => []IInv
<1>1. Init => IInv
  BY InitKeeps
<1>2. IInv /\ [Next]_vars => IInv'
  BY StartKeeps, StartEnds, StopKeeps, StopReturnsKeeps, PrescanKeeps, PrescanListensKeeps,
     PrescanStopsKeeps, PrescanEndsKeeps, GivesUpKeeps, AnswerKeeps, StutterKeeps
     DEF Next
<1> QED BY <1>1, <1>2, PTL DEF Spec

\* A scanner that is used from one place and whose starts succeed has one socket
\* while it runs and none after; while it runs, _mgmt is the open one.
THEOREM OneSocket == Spec => []OneSocketPerScan
<1>1. ASSUME IInv
      PROVE  OneSocketPerScan
  <2>1. SocksTyped /\ TaskInv /\ ScanInv
    BY <1>1, TypeParts DEF IInv
  <2>2. Careful => Cardinality(ScanSocks) <= 1
    <3>1. Careful => ScanSocks \subseteq {mgmt}
      BY <2>1 DEF ScanSocks, ScanInv
    <3>2. IsFiniteSet({mgmt}) /\ Cardinality({mgmt}) = 1
      BY FS_Singleton
    <3> QED BY <3>1, <3>2, FS_Subset
  <2>3. Careful /\ ~ running /\ Busy = {} => ScanSocks = {}
    BY <2>1 DEF ScanSocks, ScanInv, SocksTyped, TaskInv, Busy
  <2>4. ~ overlapped /\ running => mgmt \in ScanSocks
    BY <2>1 DEF ScanSocks, ScanInv, SocksTyped
  <2> QED BY <2>2, <2>3, <2>4 DEF OneSocketPerScan
<1> QED BY <1>1, Invariance, PTL

\* There are never more sockets open for a prescan than prescans going on.
THEOREM PrescansCleanUp == Spec => []PrescanCleansUp
<1>1. ASSUME IInv
      PROVE  PrescanCleansUp
  <2> DEFINE S == {s \in Socks : sock[s] = "prescan"}
             P == {p \in Scans : pc[p] \notin {"idle", "done"}}
             f == [s \in S |-> CHOOSE p \in Scans : own[p] = s]
  <2>1. TasksTyped /\ TaskInv /\ PrescanInv
    BY <1>1, TypeParts DEF IInv
  <2>2. \A s \in S : f[s] \in P /\ own[f[s]] = s
    BY <2>1 DEF PrescanInv, TaskInv
  <2>3. \A p \in P : own[p] \in S /\ f[own[p]] = p
    BY <2>1, <2>2 DEF PrescanInv, TaskInv, TasksTyped
  <2>4. f \in Bijection(S, P)
    <3>1. f \in [S -> P]
      BY <2>2
    <3>2. \A r, s \in S : f[r] = f[s] => r = s
      BY <2>2
    <3>3. \A p \in P : \E s \in S : f[s] = p
      BY <2>3
    <3> HIDE DEF f, S, P
    <3>4. f \in Injection(S, P)
      BY <3>1, <3>2 DEF Injection, IsInjective
    <3>5. f \in Surjection(S, P)
      BY <3>1, <3>3 DEF Surjection
    <3> QED BY <3>4, <3>5 DEF Bijection
  <2>5. IsFiniteSet(S)
    <3>1. IsFiniteSet(Socks)
      BY FS_Interval
    <3>2. S \in SUBSET Socks
      OBVIOUS
    <3> QED BY <3>1, <3>2, FS_Subset
  <2>6. Cardinality(P) = Cardinality(S) /\ Cardinality(S) \in Nat
    BY <2>4, <2>5, FS_Bijection, FS_CardinalityType DEF ExistsBijection
  <2> QED BY <2>6 DEF PrescanCleansUp
<1> QED BY <1>1, Invariance, PTL

\* An answer resolves its own command's future.
THEOREM AnswersReachTheirOwn == Spec => []AnswersOwnCommand
<1>1. IInv => AnswersOwnCommand
  BY DEF IInv
<1> QED BY <1>1, Invariance, PTL
====
