# A verification of bluek

bluek is a BLE central for Linux that talks to the kernel's BlueZ over sockets:
scanning through the Bluetooth management ("mgmt") socket, GATT through an
L2CAP socket on the ATT channel, with the ATT protocol in Python. It is
single-threaded asyncio code. Its difficulties are what happens between two
`await`s; in which order callbacks, timers and tasks run; what a peer that
answers late, twice, never or out of turn makes of the client; and what a local
close, a lost link or a cancellation leaves behind. Around the library are
programs (a pairing dialogue, a connector with retries, benchmarks) whose
difficulty is what an exception or Ctrl-C in the middle skips.

This directory holds TLA+ models of those parts, configurations that TLC
checks, and theorems that TLAPS checks. `PROJECT.json` lists the components,
the runs, the source lines of every definition, the hazards, the findings and
the theorems. Paths below are relative to the repository (`bluek/...`,
`tests/...`, `README.md`).

Contents: [1 The system](#1-the-system) ·
[2 Modules](#2-modules-and-how-they-correspond-to-the-code) ·
[3 Runs](#3-what-the-runs-check) · [4 Findings](#4-findings) ·
[5 Fairness](#5-fairness) · [6 Bounds](#6-bounds-and-why-they-are-enough) ·
[7 Proofs](#7-what-is-proved) · [8 Not modelled](#8-what-is-not-modelled) ·
[9 Plan](#9-plan)

## 1 The system

| Component | Source | State | Operations |
|---|---|---|---|
| ATT transaction engine | `bluek/_att.py` | `_txn_lock`, `_pending`, `_pending_opcode`, `_mtu`, `_peer_initiated_mtu` | `_request` (under every read, write and discovery request), `exchange_mtu`, `_on_data`, `_send_mtu_rsp`, `_on_close`, `close` |
| ATT long read | `bluek/_att.py` `read`, `_read_blob` | the value so far, a snapshot of the MTU | one Read, then Read Blobs while PDUs come back full |
| ATT discovery | `bluek/_att.py` `discover` and its three paged loops | the next handle of each loop, services, characteristics | read by group type, read by type, find information |
| ATT notification dispatch | `bluek/_att.py` `_dispatch_notify`, `_confirm` | handlers by value handle | set, remove, dispatch, confirm |
| L2CAP socket | `bluek/_l2cap.py` | the file descriptor and its reader and writer registrations with the event loop | `connect`, `start_reader`, `send`, `_read_ready`, `_fail`, `close` |
| Client connect | `bluek/client.py` `connect`, `_ensure_kernel_knows_peer` | `_peer_type`, the deadline, candidate types | prescan, attempts, retries |
| Client lifecycle and subscriptions | `bluek/client.py` | `_att`, `_l2`, `_connected`, `_services`, `_cccd_handles` | `connect`'s setup, `disconnect`, `_on_disconnect`, `_teardown`, `start_notify`, `stop_notify` |
| Management socket | `bluek/_mgmt.py` | `_pending`: one future per opcode | `command`, `_send`, `_read_ready`, `_resolve`, discovery start and stop |
| Scanner and prescan | `bluek/scanner.py`, `bluek/client.py` | `_running`, `_mgmt` | `start`, `stop`, the prescan of `connect` |
| Pairing | `bluek/pairing.py` | a `bluetoothctl` process, `success` | commands, the loop over its lines, prompts, the verdict |
| Retry connector | `bluek/_shadow/bleak_retry_connector/` | the attempt's client, the last error | `establish_connection` |
| Benchmarks | `bench/runner.py`, `scenarios/`, `stacks/`, `fixtures/peripheral_supervisor.py`, `microbench/echo.py` | child processes, sockets, D-Bus listeners, results | the matrix of stacks and scenarios; the echo benchmark's children and clients |
| HCI adapter lookup, data types, bleak shadow | `bluek/_hci.py`, `device.py` ..., `_shadow/bleak` | none | see section 8 |

How they interact:

- `BleakClient` owns one `L2CAPSocket` and one `ATTClient` per connection. The
  socket calls `ATTClient._on_data` for each PDU and `_on_close` when it fails;
  `_on_close` fails the pending future and calls `BleakClient._on_disconnect`,
  which calls the application. A local `close` calls nobody.
- A request is a task that takes the lock, sends, and awaits a future which a
  *callback* resolves. The callback only marks the future; the task runs on a
  later turn of the loop. In that gap another PDU, a timer, a cancellation or a
  close may run. Most of what is hard in bluek lives in such gaps.
- `connect` runs a prescan on a mgmt socket of its own beside any
  `BleakScanner`; the kernel's answers to commands find their future by opcode.
- The benchmarks drive five stacks one after the other against one peripheral,
  which has one ATT channel: what one cell leaves behind, the next one meets.
  `bluek`'s own stack is `BleakClient` and `BleakScanner`; the retry connector
  and `pair` are called by applications.
- The event loop keeps one reader and one writer callback per file descriptor
  *number*. Two senders on one socket, or an old registration met by the next
  socket of the same number, share that slot.

What makes each component correct:

- *Engine*: one request in flight; requests served in order; an answer goes to
  the request it answers; no call hangs; an MTU is only "negotiated" if somebody
  negotiated it.
- *Long read*: the whole value, whatever its length and whenever the MTU moves.
- *Discovery*: the tree of the attribute table, whatever the page boundaries;
  progress and well-formed requests whatever the server answers.
- *L2CAP socket*: a blocked send is woken; a connection attempt is watched.
- *Notification dispatch*: no value is missed between subscribing and
  unsubscribing.
- *Connect*: the deadline is kept; fast failures are retried and timeouts not;
  both address types are tried when the type is unknown, only one when known.
- *Lifecycle*: `is_connected` tells the truth; the application hears of each
  loss once; handler, CCCD and record of a subscription agree on the connection
  that made it.
- *Scanner, mgmt*: no socket outlives its scan; `stop` closes the running
  scan's socket; an answer resolves its own command; every call ends.
- *Programs*: a failure is told, in its own cell, and leaves nothing behind; Ctrl-C ends the program; the outcome returned is the one that was.

`PROJECT.json` "hazards" lists, line by line, where each of these may go wrong
in a way that a unit test would hardly reach, and the property that watches it.

## 2 Modules and how they correspond to the code

In every module a step is the code between two awaits (or one whole callback),
because asyncio interleaves nowhere else. Awaiting tasks, resolved-but-not-yet
-resumed futures, timers and cancellations are explicit. "Ghost" variables
record history for the properties and never appear in a guard of the code.
A definition introduced as "A slip" is a plausible bug that nothing uses: it is
the mutated form of the definition below it, which shows that the run's
properties would notice.

| Module | Models | Uses |
|---|---|---|
| `AttBearer` | abstract specification: what an ATT client promises its callers | |
| `AttClient`, `MCAttClient` | the transaction engine | implements `AttBearer` |
| `AttClientProofs` | theorems about `AttClient`, that it implements `AttBearer` among them | |
| `LongRead`, `MCLongRead` | `read` and `_read_blob` | the engine as one request at a time |
| `LongReadProofs` | theorems about `LongRead` | |
| `Discovery`, `MCDiscovery` | `discover` and its loops | each transaction is one step |
| `DiscoveryProofs` | theorems about `Discovery` | |
| `L2capSocket` | `L2CAPSocket` over the selector event loop | |
| `L2capSocketProofs` | theorems about `L2capSocket` | |
| `Connect`, `MCConnect` | `connect` up to a connected socket | the prescan as one await |
| `ConnectProofs` | theorems about `Connect` | |
| `Scanner` | `BleakScanner` and the prescan on `MgmtSocket`s | |
| `ScannerProofs` | theorems about `Scanner` | |
| `Client` | connections in succession, subscriptions | requests are answered, refused or lost |
| `ClientProofs` | theorems about `Client` | |
| `Coroutine` | Python's exceptions, `finally` clauses and cancellation, over programs given as data | |
| `Stacks` | the five benchmarked stacks, `BleakClient.connect`'s error path | steps of `Coroutine` |
| `Programs`, `MCPrograms` | the runner, the echo benchmark, pairing, `establish_connection` | `Stacks` |
| `ProgramsProofs` | theorems about `Programs` | |

**AttClient.** `pc`, `fut`, `reply`, `outcome` are the requests' tasks and
futures; `holder` and `waiters` are `_txn_lock`; `pending`, `pendingOpcode`,
`mtu`, `peerInitiatedMtu` are the fields of those names; `out` and `inq` are the
ordered channel with the peer. `Call` is `_request` (with `exchange_mtu`'s reset
of the flag) up to its first await: the lock's fast path or its queue. `Begin`
is the code under the lock up to the send, which goes out, blocks, or raises.
`_confirm`, `_send_mtu_rsp` and `write_command` send without the lock; they are
the `Asides`, of which only a *blocked* one matters here: it takes the loop's one
write callback (`writer`) from a request that is blocked too (`Block`), or
removes it when it ends (`Unblock`). `Wake` is that callback; a woken send goes
through, blocks again or raises (`SendThrough`, `SendBlocksAgain`, `SendFail`).
`OnResponse`, `OnMtuReq` are `_on_data`; `Resume` is the task's next run with the
`finally` clause and the opcode checks; `Timeout`, `CancelAwait`, `CancelSend`,
`CancelWait` are the ways to be interrupted at each await; `Fail` and `Close`
are a failing socket and `ATTClient.close`, which differ in that only the first
tells the pending future. The peer answers, refuses, ignores or answers twice
and may start an MTU exchange. `wait_for` can time out on a future that has been
resolved in the same turn of the loop; `Timeout` allows for that.

**AttBearer.** A queue of requests; only its head is served; each ends once; the
answer is the request's own, or that of a "loosened" request, one whose own
answer nobody awaited any more or that the peer answered twice. `AttClient`'s
`Bearer == INSTANCE AttBearer WITH ...` gives the mapping: the queue is the
lock's holder followed by its waiters, the results are the outcomes.

**LongRead.** The attribute's bytes are positions, so a value is its length.
The client's `mtu` and the peer's `peerMtu` change at different moments, which
is the point: the PDU's size is fixed when the peer sends it, the snapshot is
taken when the reader resumes.

**Discovery.** The server's attribute table `db` is any function satisfying
`ValidDb`. `Page` answers with any non-empty prefix of the matches and, for
services, any group end that no other service contradicts; `Lie` answers with
anything two bytes can say. `Collect` is what `discover` does with a finished
loop up to its next request.

**L2capSocket.** `writer`, `reader`, `keyed`, `watched` are the event loop's slot
for the descriptor number: the callbacks, whether the selector has a key, and
whether the kernel (epoll) still knows the file behind it. `AddWriter` and
`RemoveWriter` are asyncio's; `Shut` is `close`, which removes the reader and
leaves a writer registered.

**Connect.** `left` counts down to the caller's deadline; time passes only in
awaits. `Try`, `GoOn`, `RoundOver` are the loop over `_candidate_types` with its
breaks, the retry sleep and the final error. Successive calls share `peerType`.

**Scanner.** `mgmt` and `running` are the scanner's fields, `sock` and `pending`
each `MgmtSocket` and its futures by opcode, `asked` what the kernel has yet to
answer. A start or stop may be interrupted by a timeout, a cancellation or a
send that raises; the prescan does the same with `try/finally` around it.

**Client.** `sock`, `up`, `handler`, `cccd` belong to each connection; `att`,
`connected`, `recorded` (`_cccd_handles`) are the client's fields; `_services` is
data, and a characteristic may be passed in as an object. A task's late step
may meet another connection than the one it began with. `StartRaises` is
`start_notify` on a characteristic without CCCD, which leaves the handler set.
The ghost `recordedBy` says on which connections the record was made.

**Coroutine, Stacks, Programs.** A program is a sequence of steps, `todo`: calls
and blocks. A call has what it needs, acquires (`gets`), frees, and the kinds of
exception it can raise: an `Opening` raises but does not await, a `Wait` awaits
and handles its own timeout, an `Await` does both, a `Late` call may take effect
although it raises (a D-Bus method whose answer is lost), a `Soft` one stands
in `try: ... except Exception: pass`. `Fault` and `Interrupt` make the present
call raise an error or a CancelledError; `Unwind` skips to the first mark where
it lands; `Enter` and `Leave` bracket a block, and `Leave` raises again what a
`finally` clause interrupted. An error raised while a CancelledError unwinds
replaces it (`smothered`). `held` is what has been acquired.
In `Stacks` each operation of a stack is such a sequence, to be read beside the
method that it stands for: the order of calls, and which of them are inside the
`try`, is all there is to it. `Programs` composes them: `LoadStack`,
`BeginCell` and `Record` are the runner's two loops, `Noting` the scenarios'
`except Exception`, `Send`, `Succeeds`, `Prompted` and `Judge` the parts of
`pair_with_bluetoothctl`, whose loop may end at any line.

The modules overlap on purpose where a boundary is a hazard: `AttClient` has the
states of a blocked send that `L2capSocket` explains, `Client` the outcomes of a
request that `AttClient` derives, `Scanner` the prescan that `Connect` counts.

## 3 What the runs check

Each passing run checks these properties and an invariant: the type invariant in
`connect`, in the others `IInv`, the inductive invariant of section 7, of which
the type invariant is the first part.

| Run | States | Properties |
|---|---|---|
| `att_client` | 666,792 | `OnlyUnsettledStray`: an answer strays only if its own request had ended or was answered twice. `NoUnexpectedOpcode`: `_request`'s last check has nothing to catch. `SilenceIsNotNegotiated`: `exchange_mtu` succeeds after a timeout only if the peer's exchange came while it ran. `ServesInOrder`: the engine implements `AttBearer`. `EveryCallEnds`: every call ends, unless a request is blocked in send and `close`, or a blocked send outside the lock, took its write callback |
| `long_read` | 32,969 | `WholeUnlessRaced`: the whole value if no MTU exchange overlaps. `NotCutByOurMtu`: a read that goes past its first PDU is not cut by our MTU changing. `ReadIsBounded`: it ends, within the requests that the smallest PDU needs |
| `l2cap_socket` | 2,704 | `WaitersAreWatched`: a send that waits alone stays registered, and a connection attempt hears from the kernel unless a send was waiting when an earlier socket was closed. `LoneSendEnds`: a send that waits alone ends |
| `discovery` | 4,301,089 | `Complete`: a truthful server's table is found completely and attributed rightly. `RangeIsProper`, `MovesForward`: also after an untrue response, every request has a proper range and every loop advances |
| `connect` | 2,178 | `DeadlineKept`: attempts and sleeps stay within the caller's timeout. `RetriesRightly`: fast failures, and only they, are retried while there is time. `KnownTypeOnly`: no attempt uses a type known to be wrong. `ConnectEnds` |
| `scanner` | 43,477 | `OneSocketPerScan`: a scan has one socket, and it is the one `stop` will close. `PrescanCleansUp`: whichever await fails. `AnswersOwnCommand`, `CallsEnd` |
| `client` | 629,558 | `AgreesWithSocket`: `is_connected` and the sockets agree. `LossReportedOnce`. `SubscriptionsAgree`: handler and CCCD agree, and the record with them unless it is inherited from an earlier connection; no value is missed while a subscription begins or ends |
| `programs` | 257,779 | `OneResultPerCell`: a run that writes its results has one for each cell. `LeftIsExplained`: a cell or a program leaves nothing but what a call that failed in it leaves by its row of `Leaves`. `LossIsTold`: a measurement that lost its link is an error, but for the losses of `Untold`. `CtrlCEnds`: Ctrl-C ends the program. `OutcomeIsTrue`: what `pair` and `establish_connection` return is so |

Several properties carry an exception ("unless a send was waiting", "unless
starts overlapped"). Each exception was put there because TLC showed that the
unconditional form fails, and it names the circumstance of the failure. Where a document,
comment or test of the repository states the unconditional form, that form is
checked as well, by a run that expects a violation (section 4). The others are
limits of the code that nothing in the repository contradicts: a `start` that
overlaps another scanner call, or that fails, leaves a mgmt socket open
(`Careful`); `connect` on a client whose connection was lost but not yet noticed
replaces `_att` under the old socket (`stacked`); overlapping or failed
subscriptions, and a `start_notify` that raises, leave handler and CCCD apart
(`untidy`); a loss does not clear `_cccd_handles` (`client.py:193`), and a
`start_notify` that returns late makes its record whatever connection there is
(`client.py:282`), so the record may be one that calls on earlier connections
made, with neither handler nor CCCD on this one (`Inherited`): `stop_notify` then
writes to a CCCD that is off. A request whose send is blocked keeps the
transaction lock, and it and all behind it never end, in two cases (`Stranded` in
`EveryCallEnds`; `ATT_TIMEOUT` does not cover the send, `_att.py:224`):
`disconnect` closes the socket, which neither wakes nor fails it; or a send
outside the lock (`_confirm`, `_send_mtu_rsp`, `write_command`) is blocked at the
same time and takes or removes its write callback (`crossed`), on a healthy link.
The second is finding 3 as the engine meets it.

The exceptions of `programs` are a list of what the programs around the library
get wrong when something fails:

- `raw_l2cap.setup_gatt` keeps its socket if `exchange_mtu` or `discover` fails
  (`raw_l2cap.py:159`), and every later cell, of any stack, then fails to
  connect; `raw_dbus` likewise leaves its discovery, its message handler or a
  BlueZ connection (which only `bluek`'s stacks mind); `echo.py` its daemon,
  servers and directory for what fails before its `try` (`Leaves`).
- the two raw stacks swallow the failing write that would tell of a lost link, so
  a notification count cut short looks like a good one. `lib_bluek` tells of a
  loss while it collects, because `stop_notify` raises when the client is not
  connected any more; a loss during `stop_notify`'s own write it does not tell,
  as that swallows the BleakError "disconnected" (`client.py:291`). `Untold` is
  the list of these.
- after Ctrl-C, a failing `stop_notify` (either library) or bleak's `scanner.stop`
  replaces the CancelledError; the scenario notes an error and the matrix goes
  on. In pairing, `send` does the same when bluetoothctl has ended (`CtrlCEnds`).
- a pairing that succeeded raises BrokenPipeError if bluetoothctl ended before
  `trust` or `quit` (`OutcomeIsTrue`).
- results are written when the whole matrix is done, so Ctrl-C loses those of the
  finished cells.

Runs do not check for deadlock: all the systems may really stop, when every
call is over or the bound on calls, sockets or connections is reached. That
nothing stops too early is what the liveness properties say.

## 4 Findings

Four runs end in a counterexample. Each checks one sentence of the repository.

1. **`stale_answer`** (`bluek/_att.py:187`). A response resolves whatever request
   is pending and awaits its opcode. After a timeout or a cancellation the
   bearer stays in use, so a late answer reaches the next request of the same
   kind: a read of one handle returns another's value. The comment at
   `_att.py:178` says "Deliver only the response this transaction is actually
   waiting for".
2. **`truncated_read`** (`bluek/_att.py:270`). `read` takes its snapshot of the
   MTU after the first response. If the peer's MTU request was handled between
   the sizing of that PDU and the reader's resumption, a full PDU looks short
   and the value is cut, which the comment at 268 and
   `tests/test_unit.py:505` exclude. The test moves the MTU only later.
3. **`blocked_sender`** (`bluek/_l2cap.py:150`). Two sends that find the buffer
   full share one writer slot; the first is never woken, on a healthy link.
4. **`random_untried`** (`bluek/client.py:152`). The PUBLIC attempt gets all the
   remaining time, so if it times out RANDOM is never tried, although line 117
   and `tests/test_unit.py:197` say that both are.

## 5 Fairness

Liveness is checked under `FairSpec` of each module.

- *Ready tasks and due callbacks run* (weak fairness of resuming actions): the
  event loop guarantees it.
- *Timers fire*: `wait_for` around every awaited answer. Weak fairness is put on
  "time out a future that is still pending", so an answered future does not
  have to time out.
- *The selector reports a failed link* (`Fail`).
- *L2capSocket*: the controller drains the send buffer, and the writer callback
  has strong fairness, because another sender may fill the buffer again between
  two of its chances. The finding of run `blocked_sender` holds in spite of it.
- *LongRead*: the peer answers. Without that, the timeout of `AttClient` applies
  (`GiveUp`); what is at stake here is that the loop does not go round for ever.
- Nothing is assumed of the peer or of the sends outside the lock in `AttClient`,
  of the kernel's answers in `Scanner`, nor that a writer callback runs after a
  local `close`.
- *AttClient*: the write callback that the loop has runs (`Wake`), and a request
  woken again and again gets through or fails (strong fairness), as in
  `L2capSocket`. A request whose callback is gone has no such promise.
- `Connect`: each await has a timer. `Discovery`, `Client` and
  `Programs` check safety only: whether a D-Bus call of `raw_dbus`, a blocking
  `recv` of the echo benchmark or a send of bluek's returns at all is up to
  others.

## 6 Bounds and why they are enough

- `AttClient`: two reads and an `exchange_mtu`, beside one send outside the lock
  that may block any number of times, one duplicated answer, one MTU
  exchange of the peer. A stray answer needs two requests of one kind; the
  interplay with the MTU shortcut needs an exchange beside them; a third
  waiter shows that the lock serves in order. The theorems need no bounds.
- `LongRead`: lengths of 0, just below, at and above one and two PDUs for MTUs
  of 23, 100 and 247, and 512, the longest attribute; a peer announcing less
  than the minimum, a middling and a large MTU; two exchanges, so that one may
  end before and one begin during the read.
- `Discovery`: *all* 57 valid tables of five handles, which include empty services,
  adjacent characteristics, descriptors at a service's end and attributes at
  the last handle; pages of one or two entries, in which every position of a
  page boundary occurs; one untrue response. The theorems need no bounds.
- `L2capSocket`: three senders (one too many for the slot, and a third that
  fills the buffer), a buffer of one SDU, three sockets on one number.
- `Connect`: timeouts of 0, too short for a prescan, just enough, and ample, in
  ticks of which the prescan takes three; two calls, for what the first leaves
  in `_peer_type`.
- `Scanner`: two users, one prescan, three sockets: a leaked one, its successor
  and the prescan's.
- `Client`: two tasks, two connections, six calls: enough to connect,
  subscribe, lose the link, reconnect and subscribe again with a late step of
  the first connection still to come.
- `Programs`: two faults of any kind, at any call: one that leaves something and
  one that hits its cleanup, or Ctrl-C during another failure's unwinding. Every
  ordered pair of the four real stacks, since a cell meets what earlier cells
  left; the mock peripheral, a target already connected to BlueZ, and no target
  as further runs; four attempts, the code's own number. The repetitions of
  reads and writes are one call, as nothing is acquired between them.

Symmetry is not used: with it TLC's liveness checking would not be sound.

## 7 What is proved

TLAPS proves, for every value of the constants that the modules' assumptions
allow (types, non-emptiness, naturals; each has a name):

| Theorem | States |
|---|---|
| `AttClientProofs!Invariance`, `TypeCorrect` | `Spec => []IInv`, `Spec => []TypeOK` |
| `AttClientProofs!StrayOnlyUnsettled` | `Spec => []OnlyUnsettledStray` |
| `AttClientProofs!OpcodeAlwaysExpected` | `Spec => []NoUnexpectedOpcode` |
| `AttClientProofs!SilenceNeverNegotiates` | `Spec => []SilenceIsNotNegotiated` |
| `AttClientProofs!Refinement` | `Spec => ServesInOrder`, which is `Bearer!BearerSpec` |
| `LongReadProofs!Invariance` | `Spec => []IInv` |
| `LongReadProofs!ReadsWholeUnlessRaced` | `Spec => []WholeUnlessRaced` |
| `LongReadProofs!OurMtuNeverCuts` | `Spec => []NotCutByOurMtu` |
| `LongReadProofs!RequestsAreFew` | `Spec => []FewRequests`, the safety half of `ReadIsBounded` |
| `DiscoveryProofs!Invariance`, `TypeCorrect` | `Spec => []IInv`, `Spec => []TypeOK` |
| `DiscoveryProofs!DiscoveryIsComplete` | `Spec => []Complete` |
| `DiscoveryProofs!RangesAreProper` | `Spec => []RangeIsProper` |
| `DiscoveryProofs!LoopsMoveForward` | `Spec => MovesForward` |
| `L2capSocketProofs!Invariance` | `Spec => []IInv` |
| `L2capSocketProofs!AwaitedIsWatched` | `Spec => []WaitersAreWatched` |
| `ConnectProofs!Invariance`, `TypeCorrect` | `Spec => []IInv`, `Spec => []TypeOK` |
| `ConnectProofs!AttemptsKeepDeadline` | `Spec => []DeadlineKept` |
| `ConnectProofs!RetriesAreRight` | `Spec => []RetriesRightly` |
| `ConnectProofs!KnownTypesAreUsed` | `Spec => []KnownTypeOnly` |
| `ScannerProofs!Invariance` | `Spec => []IInv` |
| `ScannerProofs!OneSocket` | `Spec => []OneSocketPerScan` |
| `ScannerProofs!PrescansCleanUp` | `Spec => []PrescanCleansUp` |
| `ScannerProofs!AnswersReachTheirOwn` | `Spec => []AnswersOwnCommand` |
| `ClientProofs!Invariance` | `Spec => []IInv` |
| `ClientProofs!ConnectedIsTrue` | `Spec => []AgreesWithSocket` |
| `ClientProofs!LossIsReportedOnce` | `Spec => []LossReportedOnce` |
| `ClientProofs!SubscriptionsStayTrue` | `Spec => []SubscriptionsAgree` |
| `ProgramsProofs!Invariance`, `TypeCorrect` | `Spec => []IInv`, `Spec => []TypeOK` |
| `ProgramsProofs!CtrlCIsHeeded` | `Spec => []CtrlCEnds` |
| `ProgramsProofs!OneResult` | `Spec => []OneResultPerCell` |
| `ProgramsProofs!OutcomeTrue` | `Spec => []OutcomeIsTrue` |

Each module that has an `IInv` states it at its end, and the run of that module
checks it. The proofs have one lemma per action, each with one step per part of
the invariant that the action can disturb; `Invariance` joins them.

**AttClient.** `OnlyUnsettledStray` is not inductive: it says nothing of PDUs
that are still on their way. `IInv` adds

- `LockInv`: the one request past the lock is its holder, `_pending` and
  `_pending_opcode` are the holder's, and a request waits for the lock once;
- `FutInv`: a future holds a PDU only of the opcode its request waits for;
- `WireInv`: no request is sent twice (`SentOnce`); none is answered twice
  unless it counts as unsettled (`AnsweredOnce`); the peer forgets a request it
  has answered (`OutOrBack`); only MTU requests answer nobody (`OwnedInv`); and
  the heart of it, `FlightInv`: *unsettled requests aside, only the lock's
  holder has anything in flight*. An arriving answer is therefore the holder's
  own or that of an unsettled request;
- `FlagInv`: while `_peer_initiated_mtu` is set, each exchange of ours that runs
  has heard the peer's.

Lemmas about sequences (`Appended`, `Removed`, `HeadTail`) carry the wire's
invariants across the steps that send, take and deliver; there is one lemma per
action; `NextKeeps` joins them.

**AttBearer.** `IInv` makes the holder and its waiters a queue without
repetitions, of calls that are not over. Under the mapping, `Call` is the
bearer's `Submit` (or `Refuse`, if the socket is closed), a `Resume` with an
answer is its `Serve`, every other way for a call to end its `Leave`, a
duplicated answer its `Loosen`; all else is a stutter. That `Serve` hands out
only the head's own answer or a loosened one is `OnlyUnsettledStray` again, in
the terms of the abstract specification. `EndedInv` (a call has an outcome
exactly when it is over) is all that the mapping needs besides.

**LongRead.** Nothing in `WholeUnlessRaced` speaks of the reader's progress.
`ReaderInv` does: past the first PDU the reader has at least what the MTU of its
snapshot holds, and each further PDU but the last brought 22 bytes. `FlightInv`:
one request or one answer of the reader is in flight, and the answer is cut by
the peer's MTU, which is ours unless an exchange overlaps the read.
`ExchangeInv`: an exchange of the peer is in one place at a time, and both sides'
MTUs agree outside of it.

**Discovery.** `RangeIsProper` needs the types alone: they bound every handle
taken from a response, lies included, and the loops' guards (`LoopEnds`,
`NextService`, `NextChar`) are what makes the next range proper. `MovesForward`
is the same step lemma read as an action property. `Complete` needs `TruthInv`,
which says for each loop that its results are exactly what the table holds from
the loop's first handle to just below its next request (`FoundServices`,
`FoundChars`, `FoundDescs`), and that `tree` and `descs` are right for all that
comes before. Two facts about valid tables carry the rest: between a
characteristic's value and its end there is nothing but its descriptors
(`OnlyDescs`, `DescsOfChar`), so a characteristic without room behind its value
may be passed over; and behind a service's reported end nothing is its own
(`GroupEnds`), so its range may stop there.

**L2capSocket.** `OpenInv` and `ClosedInv` say what the event loop's slot for the
descriptor number may hold while there is a socket and while there is none. A
stale key of an earlier socket exists only where a send was waiting when that
socket was closed (`leftOver`).

**Connect.** `PhaseInv` says what each phase implies: a sleeping call has failed
fast and has time for the delay, an attempting one has time left, a prescanning
one has tried nothing. `LoopStep` is a contract of the loop over candidate
types from any point in it, proved once and used by all the actions that enter
it.

**Scanner.** `PrescanInv` is a bijection between the prescans under way and the
sockets open for one, from which the theorem gets the two cardinalities.
`ScanInv` says who holds which socket as long as calls do not overlap, and
`AskedInv` that a future registered for a command that the kernel still owes an
answer is that command's own. The attempt to prove this showed that `TypeOK`
did not constrain `mgmt`, because of a conjunct that read as the premise of an
implication; it does now.

**Client.** `FreshInv`: nothing is left over on a connection that has not begun,
although late steps of earlier ones are still to come. `OneByOne`: on a tidy
connection one task at a time subscribes or unsubscribes, and the answer it has
received still describes the CCCD. `HandledInv`: the peer never has
notifications on without our handler, between calls the two agree, and
`recordedBy` has the present connection exactly if there is a handler.
`RecordInv`: the record is there exactly while `recordedBy` is not empty. The two
give the record's part of `SubscriptionsAgree`.

**Programs.** A program is nested data, and an induction over data is out of the
prover's reach; but how deep the data goes is fixed, so the sets `Level0` to
`Level4` and `Planned` write out every step that can ever be ahead, and each
stack's and each program's sequences are shown to be made of them. The three
parts of `IInv` have a theorem each (`StepsInvariance`, `RunnerInvariance`,
`OutcomeInvariance`), and each may use those before it.

- `StepsInv`: behind every mark of a `finally` or `except` clause there is its
  end (`Closed`), and between a mark that a CancelledError lands on and the next
  end there is nothing but cleanup (`Tidy`, `Cleanup`). So an exception in flight
  always has a place ahead where it is raised again (the last part of `TypeOK`),
  and a CancelledError under way is replaced by no error but one of the four calls
  of `Smothering` (`CancelInv`). A cell cannot begin, and the program cannot end,
  while there are only cleanups up to the next end; that is `CtrlCEnds`.
- `RunnerInv`: what is ahead of the runner is a part of the present cell, the
  place where the cell's errors are noted, the rows that are still due, and what
  is behind the matrix. No row is due twice or there already (`Single`,
  `Complete`), and the rows there and due are all of them, until an exception
  leaves the matrix, after which no results are written. The heart is that no
  error or step of a cell disturbs what is behind the cell: `PartStep` says of
  every action that, while a self-contained part of the steps is ahead, it
  changes that part alone or lets an exception out of it.
- `OutcomeInv`: `pair` is before its loop, in it with any number of prompts
  answered or to be answered, or behind it, and it knows bluetoothctl's end if
  there is one (`ChildKnown`) as long as that decides what is told.
  `establish_connection` is before, in or after the connection of one of its
  attempts; the link is there or lost in exactly the states where it returns, and
  has been torn down in all where it raises or tries again.

The constants are the jobs, any set of them with any sequence of different
stacks, and the bound on the faults.

Only model-checked:

- liveness (`EveryCallEnds`, `ReadIsBounded`'s first half, `LoneSendEnds`,
  `ConnectEnds`, `CallsEnd`), which is out of the prover's reach;
- `LeftIsExplained` and `LossIsTold` of `Programs`. Each is an account of what
  single calls of single stacks leave or tell (`Leaves`, `Kept`, `Untold`): its
  inductive invariant is a table of what is held at each step of each stack, with
  or without each failure, which is what TLC goes through. The first also needs
  a theory of what *cells before* this one may have left. And `LossIsTold` is a
  fact about the jobs of the run, not about all: `micro_fake` talks to a fake
  peripheral inside the process, so a link that BlueZ had to the target may be
  lost behind its cells without an error of theirs, rightly.

## 8 What is not modelled

- *`remove_with_bluetoothctl`*: one awaited process and its exit status.
- *Management codecs*, *advertisement parsing*, *UUIDs*, *device and GATT data
  types*: pure data, well covered by unit tests.
- *HCI adapter lookup*: stateless; its hazard (an index cached by the client) is
  listed.
- *bleak shadow*: import redirection.
- Of the *benchmarks*: the simulated peripherals and echo servers, which run as
  other processes and are resources here; timers, CPU tracking, statistics and
  reports, which are data; the functions of `fixtures/bluetoothd.py` that nothing
  calls.
- *Which indications are confirmed*: `_confirm` may be stranded in its send like
  any other (`blocked_sender`), and a callback that raises leaves `_on_data` before
  it (`_att.py:152`), so no useful promise is left to check.
- *Whether the programs end*: there is no clock in `Programs`, so neither
  `pairing.py:63`'s deadline nor any other timer is checked there.
- *What a cell inherits*: a leftover link, or one of BlueZ's to the target, makes
  later GATT cells fail. `bench/README.md:149` says that the runner calls
  `bluetoothctl disconnect` before bluek's; no code of the runner does. `Programs`
  has that link (`bluez`) as a state, but no property speaks of it.
- Inside the modelled parts: the bytes of PDUs, error texts, logging; the
  kernel's own bookkeeping of discovery; Python's running time.

## 9 Plan

The order puts the most important behaviour first. Done: all steps but 9.

1. `AttClient` with `AttBearer`: the engine, its cross-talk and its liveness.
2. `LongRead`: MTU races.
3. `L2capSocket`: registrations and descriptor reuse.
4. `Discovery`: completeness and progress.
5. `Connect`: deadline, types, retries.
6. `Scanner`, `Client`: sockets, lifecycle, subscriptions.
7. Proofs of `AttClient`'s, `Discovery`'s and `Connect`'s safety.
8. `Coroutine`, `Stacks`, `Programs`: pairing, the retry connector, the benchmarks;
   sends outside the lock in `AttClient`.
9. Extend `Connect` by the adapter's index (`README.md:45` says it is resolved on
    each connect, `client.py:98` resolves it once).
10. Proofs: `AttClient` implements `AttBearer`; the safety of `LongRead`,
    `L2capSocket`, `Scanner` and `Client`; `Complete` of `Discovery`.
11. Proofs: what holds of every program of `Coroutine` (an exception in flight is
    raised again, a CancelledError goes on to the end), on which `CtrlCEnds` rests;
    `OneResultPerCell` and `OutcomeIsTrue`.
