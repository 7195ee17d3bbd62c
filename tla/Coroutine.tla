---- MODULE Coroutine ----
(***************************************************************************)
(* A Python coroutine with try, except and finally, run one call at a time.*)
(*                                                                         *)
(* The programs built around bluek (its benchmarks, pairing, the retry     *)
(* connector) are straight-line code whose difficulty is what an exception *)
(* or a cancellation in the middle skips. A program is a sequence of steps:*)
(* calls, which acquire and free resources and may raise, and blocks. This *)
(* module is their semantics, that of Python and asyncio; the programs are *)
(* modules Stacks and Programs.                                            *)
(***************************************************************************)
EXTENDS Integers, Sequences, SequencesExt

CONSTANT MaxFaults \* bound: failing calls, lost links, dead children and Ctrl-C, together

ASSUME FaultsAssumption == MaxFaults \in Nat

VARIABLES
  todo,        \* the steps ahead
  raised,      \* what is unwinding: no, error, cancel (CancelledError), return
  held,        \* the resources held
  caught,      \* an except clause of the present cell or attempt has caught an error
  faults,      \* how many faults so far
  interrupted, \* Ctrl-C has come: asyncio.run cancels its main task, once
  failed,      \* ghost: the calls of the present cell that a fault made fail
  lost,        \* ghost: the calls of Measuring during which its link was lost
  smothered    \* ghost: calls whose error replaced a CancelledError

machineVars == <<todo, raised, held, caught, faults, interrupted, failed, lost, smothered>>

-----------------------------------------------------------------------------
(* Steps.                                                                  *)

\* A call that can raise the kinds in can.
Call(name, can) ==
  [kind |-> "call", call |-> name, can |-> can, needs |-> {}, bars |-> {},
   gets |-> {}, frees |-> {}, soft |-> FALSE, late |-> FALSE, lazy |-> FALSE]

Sync(name) == Call(name, {})                     \* neither awaits nor raises
Opening(name) == Call(name, {"error"})           \* raises, but does not await
Wait(name) == Call(name, {"cancel"})             \* awaits, and catches its own timeout
Await(name) == Call(name, {"error", "cancel"})

Getting(r, s) == [s EXCEPT !.gets = @ \cup r]
Freeing(r, s) == [s EXCEPT !.frees = @ \cup r]
Needing(r, s) == [s EXCEPT !.needs = @ \cup r]          \* raises unless all of r is held
BarredBy(r, s) == [s EXCEPT !.bars = @ \cup r]          \* raises if any of r is held
Soft(s) == [s EXCEPT !.soft = TRUE]              \* except Exception: pass
Late(s) == [s EXCEPT !.late = TRUE]              \* may take effect although it raises
Once(s) == [s EXCEPT !.lazy = TRUE]              \* skipped if it has what it gets

\* Blocks: the steps of one, with a mark where an exception lands.
Block(steps) == [kind |-> "block", inner |-> steps]
Mark(kind, handler) == [kind |-> kind, handler |-> handler]
Finally(body, after) == Block(body \o <<Mark("finally", <<>>)>> \o after)
Except(body, handler) == Block(Append(body, Mark("except", handler)))
Undo(body, handler) == Block(Append(body, Mark("undo", handler))) \* except BaseException: ...; raise
Maybe(body) == [kind |-> "maybe", inner |-> body]         \* a branch on what is not modelled
Raise(how) == [kind |-> "raise", how |-> how]
End(saved) == [kind |-> "end", saved |-> saved]           \* where an unwinding goes on

-----------------------------------------------------------------------------
(* Raising.                                                                *)

Lands(m, how) ==
  \/ m.kind = "finally"
  \/ m.kind = "undo" /\ how # "return"
  \/ m.kind = "except" /\ how = "error"

Unwinding == raised = "cancel" \/ \E i \in 1 .. Len(todo) : todo[i] = End("cancel")

\* how is raised with the steps rest ahead: the steps up to the first mark
\* where it lands are skipped. An except clause has caught it, a finally
\* clause runs and its end raises it again.
Unwind(rest, how) ==
  \/ \E i \in 1 .. Len(rest) :
       /\ Lands(rest[i], how) /\ \A j \in 1 .. i - 1 : ~ Lands(rest[j], how)
       /\ todo' = rest[i].handler \o SubSeq(rest, i + 1, Len(rest))
       /\ IF rest[i].kind = "except" THEN raised' = "no" /\ caught' = TRUE
                                     ELSE raised' = how /\ UNCHANGED caught
  \/ /\ \A i \in 1 .. Len(rest) : ~ Lands(rest[i], how)
     /\ todo' = <<>> /\ raised' = how /\ UNCHANGED caught

Step == Head(todo)
At(kind) == todo # <<>> /\ Step.kind = kind
Continue == todo' = Tail(todo) /\ UNCHANGED <<raised, caught>>

Calm == UNCHANGED <<faults, interrupted, failed, lost, smothered>>

Effect(s) == (held \cup s.gets) \ s.frees
Skipped(s) == s.lazy /\ s.gets \subseteq held
Possible(s) == s.needs \subseteq held /\ s.bars \cap held = {}

\* The step's error: swallowed by a soft call, else raised.
Errs ==
  IF Step.soft
    THEN Continue /\ UNCHANGED smothered
    ELSE /\ Unwind(Tail(todo), "error")
         /\ smothered' = IF Unwinding THEN smothered \cup {Step.call} ELSE smothered

-----------------------------------------------------------------------------
(* Actions.                                                                *)

Do ==
  /\ At("call")
  /\ Skipped(Step) \/ Possible(Step)
  /\ held' = Effect(Step)
  /\ Continue
  /\ Calm

Refused ==
  /\ At("call")
  /\ ~ (Skipped(Step) \/ Possible(Step))
  /\ Errs
  /\ UNCHANGED <<held, faults, interrupted, failed, lost>>

Faulty == faults < MaxFaults /\ faults' = faults + 1

\* A call raises; what it asked of the kernel, BlueZ or the peer may be done.
Outcomes(s) == IF s.late THEN {held, Effect(s)} ELSE {held}

Fault ==
  /\ At("call") /\ "error" \in Step.can /\ ~ Skipped(Step) /\ Possible(Step)
  /\ Faulty
  /\ held' \in Outcomes(Step)
  /\ failed' = failed \cup {Step.call}
  /\ Errs
  /\ UNCHANGED <<interrupted, lost>>

Interrupt ==
  /\ At("call") /\ "cancel" \in Step.can /\ ~ interrupted /\ ~ Skipped(Step)
  /\ Faulty
  /\ held' \in Outcomes(Step)
  /\ failed' = failed \cup {Step.call}
  /\ interrupted' = TRUE
  /\ Unwind(Tail(todo), "cancel")
  /\ UNCHANGED <<lost, smothered>>

Enter ==
  /\ At("block")
  /\ todo' = Step.inner \o <<End(raised)>> \o Tail(todo)
  /\ raised' = "no"
  /\ UNCHANGED <<held, caught>> /\ Calm

\* A mark met without an exception is passed.
Pass ==
  /\ At("finally") \/ At("except")
  /\ Continue
  /\ UNCHANGED held /\ Calm

PassUndo ==
  /\ At("undo")
  /\ Continue
  /\ UNCHANGED held /\ Calm

\* A slip: the end of a finally clause forgets to raise again.
LeaveForgets == At("end") /\ todo' = Tail(todo) /\ UNCHANGED <<raised, caught, held>> /\ Calm

Leave ==
  /\ At("end")
  /\ IF raised = "no"
       THEN todo' = Tail(todo) /\ raised' = Step.saved /\ UNCHANGED caught
       ELSE Unwind(Tail(todo), raised)
  /\ UNCHANGED held /\ Calm

Branch ==
  /\ At("maybe")
  /\ \E steps \in {<<>>, Step.inner} : todo' = steps \o Tail(todo)
  /\ UNCHANGED <<raised, caught, held>> /\ Calm

Raises ==
  /\ At("raise")
  /\ Unwind(Tail(todo), Step.how)
  /\ UNCHANGED held /\ Calm

Steps == Do \/ Refused \/ Fault \/ Enter \/ Pass \/ PassUndo \/ Leave \/ Branch \/ Raises

-----------------------------------------------------------------------------
(* What happens around the program.                                        *)

Links == {"channel", "bluez"}

\* The calls that measure, and those that end the notifications measured.
Measuring == {"collect", "sampling", "stop_write", "notify_off", "bleak.stop_notify", "StopNotify"}

\* The peer goes out of reach or disconnects; it forgets the subscription.
\* L2CAPSocket closes itself then.
Drop(r) ==
  /\ held' = held \ (r \cup Links \cup {"cccd"})
  /\ lost' = IF held \cap Links # {} /\ At("call") THEN lost \cup ({Step.call} \cap Measuring)
                                                   ELSE lost

PeerLost ==
  /\ todo # <<>> /\ held \cap Links # {}
  /\ Faulty
  /\ Drop({})
  /\ failed' = failed \cup {"link"}
  /\ UNCHANGED <<todo, raised, caught, interrupted, smothered>>

\* A child process ends by itself; with the simulated peripheral goes the peer.
ChildDies(child) ==
  /\ todo # <<>> /\ child \in held
  /\ Faulty
  /\ IF child = "peripheral" THEN Drop({child, "peer"})
                             ELSE held' = held \ {child} /\ UNCHANGED lost
  /\ failed' = failed \cup {child}
  /\ UNCHANGED <<todo, raised, caught, interrupted, smothered>>
====
