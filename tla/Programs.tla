---- MODULE Programs ----
(***************************************************************************)
(* The programs around bluek, each a sequence of Coroutine's steps:        *)
(*                                                                         *)
(*   runner     bench/runner.py: scenarios on stacks, in a fixed order     *)
(*   echo       bench/microbench/echo.py: a daemon, two servers, clients   *)
(*   pair       bluek/pairing.py: a dialogue with bluetoothctl             *)
(*   establish  _shadow/bleak_retry_connector: connect with retries        *)
(*                                                                         *)
(* What these have to get right is the same: a failure stays where it      *)
(* happened, is told, and leaves nothing behind.                           *)
(***************************************************************************)
EXTENDS Stacks, FiniteSets

CONSTANT Jobs \* the programs to run: records of Job

Job ==
  [ kind : {"runner", "echo", "pair", "establish"},
    stacks : Seq(DOMAIN Stack),
    mock : BOOLEAN,     \* --use-mock-peripheral
    target : BOOLEAN,   \* --target: there is a target
    bluez : BOOLEAN,    \* BlueZ is connected to it already
    callback : BOOLEAN  \* pair was given a callback
  ]

ASSUME JobsAssumption == 
  \A j \in Jobs : j \in Job /\ (j.kind = "runner" => j.stacks # <<>> /\ IsInjective(j.stacks))

VARIABLES
  job,     \* the program that runs
  before,  \* ghost: what was held when the present cell began
  results, \* the runner's results
  paired   \* pairing: success

programVars == <<job, before, results, paired>>
vars == <<machineVars, programVars>>

Scenarios == <<"advert", "read_write", "notify">>
Children == {"peripheral", "daemon", "dbus_server", "sock_server", "bluetoothctl"}

-----------------------------------------------------------------------------
(* bench/scenarios: an error is noted in the cell's result.                *)

Noting(body) == Except(body, <<>>)

Advert(stack) == <<Noting(Stack[stack].scan)>>

ReadWrite(stack) ==
  Append(Stack[stack].setup,
         Finally(<<Noting(<<Stack[stack].sampling>>)>>, <<Soft(Stack[stack].teardown)>>))

Notify(stack) ==
  Append(Stack[stack].setup,
         Finally(<<Noting(Stack[stack].notify)>>, <<Soft(Stack[stack].teardown)>>))

-----------------------------------------------------------------------------
(* bench/runner.py.                                                        *)

\* Without a target, the scenarios that need one are an error. The mock
\* peripheral is one.
RunScenario(stack, scenario) ==
  IF scenario = "advert" THEN Advert(stack)
  ELSE IF ~ job.target /\ ~ job.mock THEN <<Raise("error")>>
  ELSE IF scenario = "read_write" THEN ReadWrite(stack) ELSE Notify(stack)

RecordStep(stack, scenario) == [kind |-> "record", stack |-> stack, scenario |-> scenario]

\* A slip: the result is recorded only if there is one.
CellInsideTry(stack, scenario) ==
  <<Noting(Append(RunScenario(stack, scenario), RecordStep(stack, scenario)))>>

Cell(stack, scenario) ==
  <<Noting(RunScenario(stack, scenario)), RecordStep(stack, scenario)>>

CellStep(stack, scenario) == [kind |-> "cell", stack |-> stack, scenario |-> scenario]

StackSteps(stack) == [i \in 1 .. Len(Scenarios) |-> CellStep(stack, Scenarios[i])]

Matrix(stacks) == [i \in 1 .. Len(stacks) |-> [kind |-> "stack", stack |-> stacks[i]]]

\* raw_l2cap looks its adapter up, lib_bleak refuses to be bluek's shadow.
MayNotLoad == {"raw_l2cap", "lib_bleak"}

LoadStack ==
  /\ At("stack")
  /\ todo' = StackSteps(Step.stack) \o Tail(todo)
  /\ UNCHANGED <<raised, held, caught, programVars>> /\ Calm

StackFailsToLoad ==
  /\ At("stack") /\ Step.stack \in MayNotLoad
  /\ Faulty
  /\ results' = Append(results, [stack |-> Step.stack, scenario |-> "*", ok |-> FALSE])
  /\ Continue
  /\ UNCHANGED <<held, interrupted, failed, lost, smothered, job, before, paired>>

BeginCell ==
  /\ At("cell")
  /\ todo' = Cell(Step.stack, Step.scenario) \o Tail(todo)
  /\ caught' = FALSE /\ failed' = {} /\ lost' = {}
  /\ before' = held
  /\ UNCHANGED <<raised, held, faults, interrupted, smothered, job, results, paired>>

Record ==
  /\ At("record")
  /\ results' = Append(results, [stack |-> Step.stack, scenario |-> Step.scenario, ok |-> ~ caught])
  /\ Continue
  /\ UNCHANGED <<held, job, before, paired>> /\ Calm

\* A child is asked to end, and killed after five seconds.
Stop(child) == Freeing({child}, Wait("stop"))

\* bumble_peripheral, around the matrix; hciconfig failing is ignored.
Supervised(body) ==
  << Sync("adapter_down"),
     Getting({"peripheral"}, Await("spawn_peripheral")),
     Finally(<<Needing({"peripheral"}, Getting({"peer"}, Await("read_ready")))>> \o body,
             <<Freeing({"peer"}, Stop("peripheral"))>>) >>

\* main: the results are written when the matrix is done, and only then.
Runner ==
  Append(IF job.mock THEN Supervised(Matrix(job.stacks)) ELSE Matrix(job.stacks),
         Opening("write_run"))

-----------------------------------------------------------------------------
(* bench/microbench/echo.py.                                               *)

\* The D-Bus client: it disconnects if nothing was raised.
ClientDbus ==
  << Needing({"daemon", "dbus_server"}, Getting({"client_bus"}, Await("client_bus_connect"))),
     Needing({"daemon", "dbus_server"}, Await("call_echo")),
     Freeing({"client_bus"}, Sync("client_bus_disconnect")) >>

\* The socket client blocks the event loop: it cannot be cancelled.
ClientSocket ==
  << Needing({"sock_server"}, Late(Getting({"client_sock"}, Opening("client_sock_connect")))),
     Finally(<<Needing({"sock_server"}, Opening("send_recv"))>>,
             <<Freeing({"client_sock"}, Sync("client_sock_close"))>>) >>

\* orchestrate, and the caller that writes what it returns. What comes before
\* the try block, three of the children included, nothing cleans up.
Echo ==
  << Opening("which"),
     Late(Getting({"tmp"}, Opening("mkdtemp"))),
     Getting({"daemon"}, Await("spawn_daemon")),
     Await("bus_socket"),
     Getting({"dbus_server"}, Await("spawn_dbus_server")),
     Getting({"sock_server"}, Await("spawn_sock_server")),
     Finally(<<Await("dbus_ready"), Await("sock_ready")>> \o ClientDbus \o ClientSocket,
             << Sync("terminate"), Stop("dbus_server"), Stop("sock_server"), Stop("daemon"),
                Soft(Late(Freeing({"tmp"}, Opening("rmtree")))) >>),
     Opening("write_json") >>

-----------------------------------------------------------------------------
(* bluek/pairing.py.                                                       *)

Ask(kind) == [kind |-> kind]

\* The loop over bluetoothctl's lines. It ends without success by the
\* deadline, by "Failed to pair" and by the end of the output.
ReadLines == Wait("readline")

Reading == At("call") /\ Step.call = "readline"

\* pair_with_bluetoothctl: agent, default-agent and pair are sent, and select
\* if the controller's address is known; then lines are read and answered.
Pair ==
  << Getting({"bluetoothctl"}, Await("spawn_bluetoothctl")),
     Maybe(<<Ask("send")>>), Ask("send"), Ask("send"), Ask("send"),
     Finally(<<ReadLines>>, <<Ask("trust"), Ask("send"), Stop("bluetoothctl")>>),
     Ask("verdict") >>

\* A line to bluetoothctl, too short for drain to wait. If it has ended the pipe
\* may break, now or later.
Send ==
  /\ At("send") \/ (At("trust") /\ paired)
  /\ \/ Continue /\ UNCHANGED smothered
     \/ /\ "bluetoothctl" \notin held
        /\ Unwind(Tail(todo), "error")
        /\ smothered' = IF Unwinding THEN smothered \cup {"send"} ELSE smothered
  /\ UNCHANGED <<held, faults, interrupted, failed, lost, programVars>>

SkipTrust ==
  /\ At("trust") /\ ~ paired
  /\ Continue
  /\ UNCHANGED <<held, programVars>> /\ Calm

Succeeds ==
  /\ Reading
  /\ paired' = TRUE
  /\ Continue
  /\ UNCHANGED <<held, job, before, results>> /\ Calm

\* The callback may raise; its answer is sent, or it gives none.
Prompted ==
  /\ Reading /\ job.callback
  /\ todo' = <<Opening("callback"), Maybe(<<Ask("send")>>)>> \o todo
  /\ UNCHANGED <<raised, held, caught, programVars>> /\ Calm

\* A slip: no error is raised for a pairing that did not succeed.
VerdictForgotten == At("verdict") /\ Continue

Verdict ==
  /\ At("verdict")
  /\ IF paired THEN Continue ELSE Unwind(Tail(todo), "error")

Judge ==
  /\ Verdict
  /\ UNCHANGED <<held, programVars>> /\ Calm

-----------------------------------------------------------------------------
(* establish_connection: MAX_CONNECT_ATTEMPTS is 4.                        *)

Attempt ==
  << Opening("client_class"),
     Except(Append(BluekConnect, Raise("return")), <<BluekTeardown, Wait("sleep")>>) >>

Establish == Attempt \o Attempt \o Attempt \o Attempt \o <<Raise("error")>>

-----------------------------------------------------------------------------
Program ==
  CASE job.kind = "runner" -> Runner
    [] job.kind = "echo" -> Echo
    [] job.kind = "pair" -> Pair
    [] job.kind = "establish" -> Establish

AtFirst ==
  (IF job.target /\ ~ job.mock THEN {"peer"} ELSE {}) \cup (IF job.bluez THEN {"bluez"} ELSE {})

Init ==
  /\ job \in Jobs
  /\ todo = Program /\ held = AtFirst /\ before = AtFirst
  /\ raised = "no" /\ caught = FALSE /\ faults = 0 /\ interrupted = FALSE
  /\ failed = {} /\ lost = {} /\ smothered = {}
  /\ results = <<>> /\ paired = FALSE

Machine == Steps /\ UNCHANGED programVars

Proceeds ==
  \/ Machine
  \/ LoadStack \/ BeginCell \/ Record
  \/ Send \/ SkipTrust \/ Succeeds \/ Prompted \/ Judge

Happens ==
  \/ StackFailsToLoad
  \/ (Interrupt \/ PeerLost \/ \E c \in Children : ChildDies(c)) /\ UNCHANGED programVars

Next == Proceeds \/ Happens

Spec == Init /\ [][Next]_vars

-----------------------------------------------------------------------------
Ended == todo = <<>>

Rows == [stack : DOMAIN Stack, scenario : Range(Scenarios) \cup {"*"}, ok : BOOLEAN]

Resources ==
  Links \cup Children \cup
  {"peer", "mgmt", "discovery", "session", "cccd", "handler", "pump", "bus", "signals",
   "added", "match", "props", "tmp", "client_bus", "client_sock"}

CallNames ==
  { "AddMatch", "BleakClient", "BleakScanner", "Connect", "Connected", "Disconnect",
    "GetManagedObjects", "ServicesResolved", "SetDiscoveryFilter", "StartDiscovery",
    "StartNotify", "StopDiscovery", "StopNotify", "adapter_down", "adapter_iface",
    "add_message_handler", "appears", "att.close", "bleak.start_notify",
    "bleak.stop_notify", "bus", "bus_socket", "call_echo", "callback", "char_iface",
    "char_proxy", "client.connect", "client.disconnect", "client_bus_connect",
    "client_bus_disconnect", "client_class", "client_sock_close",
    "client_sock_connect", "collect", "connect", "connect_discover", "connect_mtu",
    "dbus_ready", "device_proxy", "disconnect", "discover", "end_find", "end_prescan",
    "exchange_mtu", "find", "mgmt.close", "mgmt.open", "mkdtemp", "notify_off",
    "notify_on", "on_interfaces_added", "on_properties_changed", "peripheral.close",
    "prescan", "read_ready", "readline", "remove_message_handler",
    "remove_notify_handler", "resolve", "rmtree", "root_proxy", "sampling",
    "scanner.start", "scanner.stop", "seen", "send_recv", "set_notify_handler",
    "setup_adapter_iface", "sleep", "sock_ready", "spawn_bluetoothctl", "spawn_daemon",
    "spawn_dbus_server", "spawn_peripheral", "spawn_sock_server", "start_discovery",
    "start_notify", "start_notify_pump", "start_write", "stop", "stop_discovery",
    "stop_notify", "stop_write", "terminate", "walk", "which", "write_json", "write_run" }

\* The types; and while the program goes on, an exception in flight has a
\* place where it will be raised again.
TypeOK ==
  /\ job \in Jobs
  /\ raised \in {"no", "error", "cancel", "return"}
  /\ held \subseteq Resources /\ before \subseteq Resources
  /\ {caught, interrupted, paired} \subseteq BOOLEAN /\ lost \subseteq Measuring
  /\ faults \in 0 .. MaxFaults
  /\ failed \subseteq CallNames \cup Children \cup {"link"}
  /\ smothered \subseteq CallNames \cup {"send"}
  /\ results \in Seq(Rows)
  /\ ~ Ended /\ raised # "no" => \E i \in 1 .. Len(todo) : todo[i].kind = "end"

Row(stack, rows) == {r.scenario : r \in {x \in Range(rows) : x.stack = stack}}

\* bench/README.md:186: a run that writes its results has one for each cell of
\* the matrix, or one for a stack that did not load, whatever raised where;
\* and at no time are there two for one cell.
OneResultPerCell ==
  /\ \A i, j \in 1 .. Len(results) :
       results[i].stack = results[j].stack /\ results[i].scenario = results[j].scenario => i = j
  /\ job.kind = "runner" /\ Ended /\ raised = "no" =>
       \A s \in Range(job.stacks) : Row(s, results) \in {{"*"}, Range(Scenarios)}

\* What is left when a call fails: by the code outside any try block, and by
\* the cleanup itself failing.
Leaves(call) ==
  CASE call = "start_discovery" -> {"mgmt", "discovery"}
    [] call \in {"stop_discovery", "end_prescan"} -> {"discovery"}
    [] call \in {"exchange_mtu", "discover"} -> {"channel"}
    [] call \in {"scanner.stop", "StopDiscovery", "end_find"} -> {"session"}
    [] call \in {"client.disconnect", "Disconnect"} -> {"bluez", "cccd"}
    [] call \in {"Connect", "ServicesResolved", "walk"} -> {"bluez"}
    [] call = "adapter_iface" -> {"signals"}
    [] call = "StartDiscovery" -> {"signals", "session"}
    [] call \in {"mkdtemp", "spawn_daemon", "rmtree"} -> {"tmp"}
    [] call = "bus_socket" -> {"tmp", "daemon"}
    [] call = "spawn_dbus_server" -> {"tmp", "daemon"}
    [] call = "spawn_sock_server" -> {"tmp", "daemon", "dbus_server"}
    [] call \in {"call_echo", "daemon", "dbus_server"} -> {"client_bus"}
    [] call = "client_sock_connect" -> {"client_sock"}
    [] call = "stop" -> {"tmp"} \cup Children
    [] OTHER -> {}

Explained == UNION {Leaves(c) : c \in failed}

\* A cell ends with what it began with, what its stack keeps, and what a call
\* that failed in it leaves by its own row of Leaves: so no failure leaves
\* more than that, and a cell without one leaves nothing. The same holds of
\* the other programs at their end, and of the children of all.
LeftIsExplained ==
  /\ At("record") => held \subseteq before \cup Kept(Step.stack) \cup Explained
  /\ Ended => held \cap Children \subseteq Explained
  /\ Ended /\ job.kind # "runner" /\ raised # "return" => held \subseteq AtFirst \cup Explained

\* Where a loss of the link shows in no error: the two raw stacks swallow the
\* write that ends the notifications, and bluek's client a BleakError of it.
Untold(stack) ==
  CASE stack = "raw_l2cap" -> {"collect", "notify_off"}
    [] stack = "raw_dbus" -> {"collect", "StopNotify"}
    [] stack = "lib_bluek" -> {"stop_write"}
    [] OTHER -> {}

\* A cell whose link is lost while it measures is an error: reads and writes on
\* every stack, and notifications but for those of Untold. The libraries'
\* stacks count no loss out while they collect.
LossIsTold ==
  At("record") /\ ~ caught /\ Step.scenario # "advert" =>
    lost \subseteq IF Step.scenario = "notify" THEN Untold(Step.stack) ELSE {}

Smothering == {"stop_notify", "bleak.stop_notify", "scanner.stop", "send"}

\* Ctrl-C ends the program with a CancelledError. Only an error of one of
\* these calls, all in finally clauses, replaces it, and then a cell's error
\* handling takes it for the cell's and the run goes on.
CtrlCEnds ==
  interrupted /\ (At("cell") \/ Ended) => raised = "cancel" \/ smothered \cap Smothering # {}

\* pair returns if and only if bluetoothctl said so, but for a bluetoothctl
\* that ended before it got the last commands; establish_connection returns a
\* connected client, and raises without leaving a connection.
OutcomeIsTrue ==
  /\ job.kind = "pair" /\ Ended =>
       /\ raised = "no" => paired
       /\ raised = "error" /\ paired => "bluetoothctl" \in failed
  /\ job.kind = "establish" /\ Ended =>
       /\ raised = "return" => "channel" \in held \/ "link" \in failed
       /\ raised # "return" => raised # "no" /\ "channel" \notin held

-----------------------------------------------------------------------------
(* The inductive invariant, in three parts. The first: what a cleanup       *)
(* consists of, and which steps are ever ahead, the nesting of blocks being *)
(* no deeper than what is written out.                                      *)

Kinds == {"no", "error", "cancel", "return"}

Calls ==
  [ kind : {"call"}, call : CallNames, can : SUBSET {"error", "cancel"},
    needs : SUBSET Resources, bars : SUBSET Resources, gets : SUBSET Resources,
    frees : SUBSET Resources, soft : BOOLEAN, late : BOOLEAN, lazy : BOOLEAN ]

\* Calls that replace no CancelledError but by one of Smothering.
CleanCalls ==
  { c \in Calls :
      /\ c.call # "readline"
      /\ c.soft \/ c.call \in Smothering \/ ("error" \notin c.can /\ c.needs = {} /\ c.bars = {}) }

\* After i, and up to the next end, there are only steps of S.
OnlyUpToEnd(S, t, i) ==
  \A k \in i + 1 .. Len(t) : (\A m \in i + 1 .. k : t[m].kind # "end") => t[k] \in S

\* A CancelledError lands only where a cleanup follows.
Tidy(S, t) == \A i \in 1 .. Len(t) : t[i].kind \in {"finally", "undo"} => OnlyUpToEnd(S, t, i)

Closing == CleanCalls \cup {Mark("finally", <<>>)}

Cleanup ==
  CleanCalls \cup {Ask("send"), Ask("trust")}
  \cup [kind : {"block"}, inner : {b \in Seq(Closing) : Tidy(CleanCalls, b)}]

Marks == [kind : {"finally", "undo", "except"}, handler : Seq(Cleanup)]

Ends == [kind : {"end"}, saved : Kinds]

Bodies(S) == {b \in Seq(S \cup Marks) : Tidy(Cleanup, b)}

Nest(S) == S \cup [kind : {"block"}, inner : Bodies(S)] \cup [kind : {"maybe"}, inner : Seq(S)]

Level0 == Calls \cup Cleanup \cup {Raise("error"), Ask("verdict")}
Level1 == Nest(Level0)
Level2 == Nest(Level1)
Level3 == Nest(Level2)
Level4 == Nest(Level3)

\* Steps that stand for rows of the results.
RowSteps ==
  [kind : {"record", "cell"}, stack : DOMAIN Stack, scenario : Range(Scenarios)]
  \cup [kind : {"stack"}, stack : DOMAIN Stack]

Returning == Level4 \cup {Raise("return")}
Level5 == Returning \cup RowSteps

Planned == Nest(Level5)

Ahead == Planned \cup Marks \cup Ends

\* Behind a mark, and behind an end that raises again, there is an end.
EndBehind(t, i) == \E k \in i + 1 .. Len(t) : t[k].kind = "end"

Closed(t) ==
  \A i \in 1 .. Len(t) :
    t[i] \in Marks \/ (t[i] \in Ends /\ t[i].saved # "no") => EndBehind(t, i)

Sound(t) == t \in Seq(Ahead) /\ Tidy(Cleanup, t) /\ Closed(t)

\* A CancelledError is under way: it is raised, or kept for the end of the
\* cleanup of a cleanup, and what runs before it goes on replaces it by
\* nothing but an error of Smothering.
Cancelling(r, t) ==
  \/ r = "cancel" /\ OnlyUpToEnd(Cleanup, t, 0)
  \/ /\ r = "no"
     /\ \E i \in 1 .. Len(t) :
          /\ t[i] = End("cancel") /\ OnlyUpToEnd(Cleanup, t, i)
          /\ \A k \in 1 .. i - 1 : t[k] \in Closing

CancelInv == interrupted => smothered \cap Smothering # {} \/ Cancelling(raised, todo)

StepsInv == TypeOK /\ Sound(todo) /\ CancelInv

-----------------------------------------------------------------------------
(* The second part: the runner's results, and the rows that are ahead. What *)
(* is ahead is a part of a cell, where its errors are noted, rows, and what *)
(* is behind the matrix.                                                    *)

AnyScenario == Range(Scenarios) \cup {"*"}

\* The rows that a step stands for.
Promises(step) ==
  {step.stack} \X (IF step.kind = "stack" THEN AnyScenario ELSE {step.scenario})

Key(row) == <<row.stack, row.scenario>>

\* No row is there twice.
Single(there) == \A i, j \in 1 .. Len(there) : Key(there[i]) = Key(there[j]) => i = j

Due(stack, rows) ==
  {c \in AnyScenario : \E i \in 1 .. Len(rows) : <<stack, c>> \in Promises(rows[i])}

\* No row is ahead twice or there already, and with those ahead all are there.
Complete(stacks, rows, there) ==
  /\ \A i, j \in 1 .. Len(rows) : i # j => Promises(rows[i]) \cap Promises(rows[j]) = {}
  /\ \A i \in 1 .. Len(rows), k \in 1 .. Len(there) : Key(there[k]) \notin Promises(rows[i])
  /\ \A s \in Range(stacks) :
       \/ \E i \in 1 .. Len(rows) : rows[i] = [kind |-> "stack", stack |-> s]
       \/ Row(s, there) \cup Due(s, rows) \in {{"*"}, Range(Scenarios)}

ReadReady == Needing({"peripheral"}, Getting({"peer"}, Await("read_ready")))
SpawnPeripheral == Getting({"peripheral"}, Await("spawn_peripheral"))
StopPeripheral == Freeing({"peer"}, Stop("peripheral"))
AroundMatrix == Finally(<<ReadReady>> \o Matrix(job.stacks), <<StopPeripheral>>)

\* What is behind the matrix.
Behind ==
  IF job.mock
    THEN <<Mark("finally", <<>>), StopPeripheral, End("no"), Opening("write_run")>>
    ELSE <<Opening("write_run")>>

Starting ==
  /\ job.mock /\ raised = "no" /\ results = <<>>
  /\ todo \in { <<Sync("adapter_down"), SpawnPeripheral, AroundMatrix, Opening("write_run")>>,
                <<SpawnPeripheral, AroundMatrix, Opening("write_run")>>,
                <<AroundMatrix, Opening("write_run")>>,
                <<ReadReady>> \o (Matrix(job.stacks) \o Behind) }

\* Steps of a scenario: none of them returns, or stands for a row.
Inside == Level4 \cup Marks \cup [kind : {"end"}, saved : Kinds \ {"return"}]

\* Within the steps of a set, an exception in flight has a place there.
Within(S, steps, r) ==
  /\ steps \in Seq(S) /\ Sound(steps)
  /\ r # "return" /\ (r # "no" => EndBehind(steps, 0))

\* Where the errors of a cell are noted.
Noted == <<Mark("except", <<>>), End("no")>>

\* A cell that begins is one step, of one of these.
CellBodies == UNION {{Advert(s), ReadWrite(s), Notify(s), <<Raise("error")>>} : s \in DOMAIN Stack}

InCell(steps, noted, r) ==
  \/ noted = Noted
  \/ noted \in {<<>>, <<End("no")>>} /\ steps = <<>>
  \/ noted = <<>> /\ r = "no" /\ steps \in {<<Noting(body)>> : body \in CellBodies}

InMatrix ==
  \E i \in 0 .. Len(todo), noted \in {<<>>, <<End("no")>>, Noted} :
    LET steps == SubSeq(todo, 1, i)
        rows == SubSeq(todo, i + Len(noted) + 1, Len(todo) - Len(Behind))
    IN /\ todo = steps \o (noted \o (rows \o Behind))
       /\ Within(Inside, steps, raised) /\ InCell(steps, noted, raised)
       /\ rows \in Seq(RowSteps) /\ Complete(job.stacks, rows, results)

\* The matrix is done, or given up.
Finishing ==
  /\ \E n \in 1 .. Len(Behind) : todo = SubSeq(Behind, n + 1, Len(Behind))
  /\ raised # "return" /\ (raised = "no" => Complete(job.stacks, <<>>, results))

\* The steps of the other programs: none of them stands for a row.
Rowless == Nest(Returning) \cup Marks \cup Ends

RunnerInv ==
  /\ Single(results)
  /\ job.kind = "runner" => Starting \/ InMatrix \/ Finishing
  /\ job.kind # "runner" => results = <<>> /\ todo \in Seq(Rowless)

-----------------------------------------------------------------------------
(* The third part. pair: the steps before its loop, in it, and behind it.   *)

PairBlock == Finally(<<ReadLines>>, <<Ask("trust"), Ask("send"), Stop("bluetoothctl")>>)
PairFront == Seq({Ask("send"), Maybe(<<Ask("send")>>)})
PairPrompts == Seq({Opening("callback"), Ask("send"), Maybe(<<Ask("send")>>)})

PairEnd ==
  << Mark("finally", <<>>), Ask("trust"), Ask("send"), Stop("bluetoothctl"), End("no"), Ask("verdict") >>

\* It runs, or its end is known.
ChildKnown == "bluetoothctl" \in held \cup failed

\* What is ahead is some steps of a set, and then the given ones.
PartOf(set, rest) == \E i \in 0 .. Len(todo) : LET p == SubSeq(todo, 1, i) IN p \in set /\ todo = p \o rest

\* Before the loop and in it.
PairAhead ==
  /\ ~ paired /\ raised = "no"
  /\ \/ todo = Pair
     \/ ChildKnown /\ PartOf(PairFront, <<PairBlock, Ask("verdict")>>)
     \/ ChildKnown /\ PartOf(PairPrompts, <<ReadLines>> \o PairEnd)

\* The loop is left: success is told as long as the child can hear of it.
PairBehind(n) ==
  /\ todo = SubSeq(PairEnd, n + 1, Len(PairEnd))
  /\ raised # "return"
  /\ paired => raised = "no" /\ (n <= 2 => ChildKnown)

PairOver ==
  /\ Ended /\ raised # "return"
  /\ IF paired THEN raised = "error" => "bluetoothctl" \in failed ELSE raised # "no"

PairInv == PairAhead \/ PairOver \/ \E n \in 0 .. Len(PairEnd) - 1 : PairBehind(n)

-----------------------------------------------------------------------------
(* establish_connection: an attempt before, in and after its connection.   *)

AttemptBlock == Attempt[2]
AfterConnect == <<Raise("return"), AttemptBlock.inner[5], End("no")>>
DiscoverBlock == BluekConnect[3]

\* Calls that get no link, and blocks of them.
QuietSteps ==
  {c \in Calls : c.call # "readline" /\ c.gets \subseteq {"mgmt", "discovery"}}
  \cup {Mark("finally", <<>>)} \cup Ends

Blocks(S) == S \cup [kind : {"block", "maybe"}, inner : Seq(S)]

PrescanSteps == Inside \cap Blocks(Blocks(Blocks(QuietSteps)))

\* The attempts that are left, and the error behind the last.
Attempts(r) ==
  /\ r \in Seq({Opening("client_class"), AttemptBlock, Raise("error")})
  /\ r # <<>> /\ r[Len(r)] = Raise("error")

\* What is ahead is a, then b, then attempts.
Trying(a, b) ==
  \E i \in 0 .. Len(todo) :
    LET r == SubSeq(todo, i + 1, Len(todo)) IN Attempts(r) /\ todo = a \o (b \o r)

Unconnected == "channel" \notin held
Established == "channel" \in held \/ "link" \in failed

AtAttempt == Unconnected /\ raised = "no" /\ Trying(<<>>, <<>>)

BeforeConnect ==
  /\ Unconnected
  /\ \E i \in 0 .. Len(todo) :
       LET p == SubSeq(todo, 1, i)
       IN Within(PrescanSteps, p, raised) /\ Trying(p, <<Connecting, DiscoverBlock>> \o AfterConnect)

Connected ==
  /\ Established /\ raised = "no"
  /\ \E a \in { <<DiscoverBlock>>,
                <<Request("connect_mtu"), Request("connect_discover"),
                  Mark("undo", <<BluekTeardown>>), End("no")>>,
                <<Request("connect_discover"), Mark("undo", <<BluekTeardown>>), End("no")>>,
                <<Mark("undo", <<BluekTeardown>>), End("no")>>,
                <<End("no")>>,
                <<>> } : Trying(a, AfterConnect)

\* The exception handlers of connect and of establish_connection.
Undoing ==
  /\ raised \in {"error", "cancel"}
  /\ \/ Trying(<<BluekTeardown, End("no")>>, AfterConnect)
     \/ Unconnected /\ Trying(<<End("no")>>, AfterConnect)

Retrying ==
  /\ raised = "no"
  /\ \/ Trying(<<BluekTeardown, Wait("sleep")>>, <<End("no")>>)
     \/ Unconnected /\ (Trying(<<Wait("sleep")>>, <<End("no")>>) \/ Trying(<<>>, <<End("no")>>))

GivenOut == Ended /\ IF raised = "return" THEN Established ELSE raised \in {"error", "cancel"} /\ Unconnected

EstablishInv ==
  /\ "peripheral" \notin held
  /\ AtAttempt \/ BeforeConnect \/ Connected \/ Undoing \/ Retrying \/ GivenOut

\* What pair and establish_connection return is true of what they leave.
OutcomeInv ==
  /\ job.kind = "pair" => PairInv
  /\ job.kind = "establish" => EstablishInv

\* The inductive invariant of all programs.
IInv == StepsInv /\ RunnerInv /\ OutcomeInv
====
