---- MODULE Connect ----
(***************************************************************************)
(* bluek/client.py, BleakClient.connect up to the connected socket: the    *)
(* prescan, the address types tried in turn, the retries of transient      *)
(* failures, all against the caller's deadline. Successive calls on one    *)
(* client share _peer_type.                                                *)
(*                                                                         *)
(* Time is counted in ticks and passes inside the awaits; Python's own     *)
(* running time is nothing.                                                *)
(***************************************************************************)
EXTENDS Integers

CONSTANTS
  Timeouts,      \* the timeouts that callers pass
  PrescanBudget, \* _CONNECT_PRESCAN_BUDGET_S
  PrescanSpare,  \* the second that is kept for connecting
  RetryDelay,    \* _CONNECT_RETRY_DELAY
  MgmtTimeout,   \* a mgmt command's timeout
  MaxCalls       \* bound: calls of connect

Public == "public"
Random == "random"
Unknown == "unknown"
Types == {Public, Random}

ASSUME TimesAssumption ==
  /\ Timeouts \subseteq Nat /\ PrescanBudget \in Nat /\ PrescanSpare \in Nat
  /\ RetryDelay \in Nat \ {0} /\ MgmtTimeout \in Nat /\ MaxCalls \in Nat

VARIABLES
  phase,     \* idle, prescan, attempt (awaiting L2CAPSocket.connect), sleep
  outcome,   \* of the last call: none, connected, not_found, prescan_raised
  calls,     \* calls of connect so far
  left,      \* ticks until the deadline
  peerType,  \* self._peer_type
  trying,    \* the address type being tried
  transient, \* the local variable of that name
  tried,     \* ghost: types tried in this call
  again,     \* ghost: this call went round the loop again
  failedFast, \* ghost: an attempt of this call failed fast
  latest,    \* ghost: how the last attempt ended: none, fast, expired
  probed     \* ghost: ticks left when the attempts began

ghostVars == <<again, failedFast, latest, probed>>
vars == <<phase, outcome, calls, left, peerType, trying, transient, tried, ghostVars>>

Larger(a, b) == IF a >= b THEN a ELSE b
Smaller(a, b) == IF a <= b THEN a ELSE b

TypeOK ==
  /\ phase \in {"idle", "prescan", "attempt", "sleep"}
  /\ outcome \in {"none", "connected", "not_found", "prescan_raised"}
  /\ calls \in 0 .. MaxCalls
  /\ left \in Int /\ probed \in Int
  /\ peerType \in Types \cup {Unknown}
  /\ trying \in Types
  /\ transient \in BOOLEAN /\ failedFast \in BOOLEAN
  /\ tried \subseteq Types
  /\ again \in BOOLEAN
  /\ latest \in {"none", "fast", "expired"}
  /\ phase = "attempt" => left > 0

Init ==
  /\ phase = "idle" /\ outcome = "none" /\ calls = 0 /\ left = 0
  /\ peerType \in Types \cup {Unknown}  \* a BLEDevice's hint, or a bare address
  /\ trying = Public /\ transient = FALSE
  /\ tried = {} /\ again = FALSE /\ failedFast = FALSE /\ latest = "none" /\ probed = 0

-----------------------------------------------------------------------------
(* The loop over candidate types. The first argument is the time left.     *)

\* A slip: what is known of the type is not used.
FirstTypePublic(known) == Public

\* _candidate_types.
FirstType(known) == IF known = Unknown THEN Public ELSE known
HasNext(known, ty) == known = Unknown /\ ty = Public

\* A slip: no look at the time before an attempt.
MayTryAlways(time) == TRUE

MayTry(time) == time > 0

\* A slip: failures are retried whatever their kind.
RetriesAlways(time, fast) == time > RetryDelay

\* A slip: the sleep need not fit into the time left.
RetriesLate(time, fast) == fast /\ time > 0

\* A slip: no retry.
RetriesNever(time, fast) == FALSE

Retries(time, fast) == fast /\ time > RetryDelay

End(how) == phase' = "idle" /\ outcome' = how /\ UNCHANGED <<trying, tried>>

\* The candidates are used up, or the time is.
RoundOver(time, fast) ==
  IF Retries(time, fast)
    THEN phase' = "sleep" /\ UNCHANGED <<outcome, trying, tried>>
    ELSE End("not_found")

Try(time, ty, fast) ==
  IF MayTry(time)
    THEN /\ phase' = "attempt" /\ trying' = ty
         /\ tried' = tried \cup {ty}
         /\ UNCHANGED outcome
    ELSE RoundOver(time, fast)

Round(time, known) ==
  /\ transient' = FALSE
  /\ Try(time, FirstType(known), FALSE)

\* After an attempt without a socket.
GoOn(time, fast) ==
  IF HasNext(peerType, trying) THEN Try(time, Random, fast) ELSE RoundOver(time, fast)

-----------------------------------------------------------------------------
(* The awaits' ends.                                                       *)

Connected ==
  /\ phase = "attempt"
  /\ left' \in 0 .. left
  /\ peerType' = trying
  /\ End("connected")
  /\ UNCHANGED <<calls, transient, ghostVars>>

\* asyncio.TimeoutError: the remaining time is over, or sooner the kernel's own
\* ETIMEDOUT, which is the same exception.
AttemptExpires ==
  /\ phase = "attempt"
  /\ left' \in 0 .. left - 1
  /\ latest' = "expired"
  /\ GoOn(left', transient)
  /\ UNCHANGED <<calls, peerType, transient, again, failedFast, probed>>

\* Any other OSError: a fast failure.
AttemptFails ==
  /\ phase = "attempt"
  /\ left' \in 0 .. left
  /\ transient' = TRUE
  /\ failedFast' = TRUE /\ latest' = "fast"
  /\ GoOn(left', TRUE)
  /\ UNCHANGED <<calls, peerType, again, probed>>

\* A slip: every round has the whole time again.
LeftAfterSleepRenewed == probed

LeftAfterSleep == left - RetryDelay

Wake ==
  /\ phase = "sleep"
  /\ left' = LeftAfterSleep
  /\ again' = TRUE
  /\ Round(left', peerType)
  /\ UNCHANGED <<calls, peerType, failedFast, latest, probed>>

-----------------------------------------------------------------------------
(* connect's first half and _ensure_kernel_knows_peer.                     *)

Budget(time) == Smaller(PrescanBudget, Larger(0, time - PrescanSpare))

NewCall ==
  /\ phase = "idle" /\ calls < MaxCalls
  /\ calls' = calls + 1
  /\ left' \in Timeouts
  /\ probed' = left' /\ failedFast' = FALSE /\ latest' = "none" /\ again' = FALSE
  /\ UNCHANGED peerType

Call ==
  /\ NewCall
  /\ Budget(left') > 0
  /\ phase' = "prescan" /\ outcome' = "none"
  /\ tried' = {}
  /\ UNCHANGED <<trying, transient>>

\* No time to scan: the attempts begin at once.
CallWithoutPrescan ==
  /\ NewCall
  /\ Budget(left') <= 0
  /\ transient' = FALSE
  /\ IF MayTry(left')
       THEN /\ phase' = "attempt" /\ outcome' = "none"
            /\ trying' = FirstType(peerType) /\ tried' = {FirstType(peerType)}
       ELSE /\ phase' = "idle" /\ outcome' = "not_found"
            /\ tried' = {} /\ UNCHANGED trying

\* The prescan saw the peer, did not, or could not run. Its mgmt commands have
\* a timeout of their own, outside the budget.
PrescanOver ==
  /\ phase = "prescan"
  /\ left' \in left - Budget(left) - 2 * MgmtTimeout .. left
  /\ probed' = left'
  /\ peerType' \in {peerType} \cup Types
  /\ Round(left', peerType')
  /\ UNCHANGED <<calls, again, failedFast, latest>>

\* START_DISCOVERY is not answered, or cannot be sent: the error leaves connect.
PrescanRaises ==
  /\ phase = "prescan"
  /\ left' \in left - 2 * MgmtTimeout .. left
  /\ probed' = left'
  /\ End("prescan_raised")
  /\ UNCHANGED <<calls, peerType, transient, again, failedFast, latest>>

Next ==
  \/ Call \/ CallWithoutPrescan \/ PrescanOver \/ PrescanRaises
  \/ Connected \/ AttemptExpires \/ AttemptFails \/ Wake

Spec == Init /\ [][Next]_vars

\* Every await of connect has a timer.
FairSpec ==
  /\ Spec
  /\ WF_vars(PrescanOver \/ PrescanRaises)
  /\ WF_vars(Connected \/ AttemptExpires \/ AttemptFails)
  /\ WF_vars(Wake)

-----------------------------------------------------------------------------
\* The attempts and the sleeps between them stay within the caller's timeout,
\* unless the prescan alone has used it up; then no attempt is made.
DeadlineKept == left >= 0 \/ (left = probed /\ tried = {})

\* "A genuine asyncio.TimeoutError is NOT retried" (client.py:24): a call in
\* which no attempt failed fast tries each candidate once.
AbsentIsNotRetried == again => failedFast

\* A fast failure of the last attempt is not final while there is time for
\* another (client.py:18-24), with either address type.
TransientIsRetried ==
  outcome = "not_found" /\ latest = "fast" => left <= RetryDelay

\* Fast failures, and only they, are retried while there is time (client.py:18-24).
RetriesRightly == AbsentIsNotRetried /\ TransientIsRetried

\* Once the type is known, from a hint, this call's prescan or an earlier
\* connection, no attempt is wasted on the other (client.py:136-138).
KnownTypeOnly == phase = "attempt" => peerType \in {Unknown, trying}

\* However often attempts fail fast, connect ends.
ConnectEnds == phase # "idle" ~> phase = "idle"

\* test_connect_prescan_no_observation_tries_both: without an observation both
\* candidate types are probed before the device counts as not found.
BothTypesTried ==
  outcome = "not_found" /\ peerType = Unknown /\ probed > 0 => tried = Types
====
