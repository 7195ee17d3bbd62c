---- MODULE ConnectProofs ----
(***************************************************************************)
(* The safety properties of Connect hold for all timeouts, budgets and     *)
(* delays and for any number of calls. What they need beyond themselves is *)
(* how the phases limit the other variables (PhaseInv): a call that sleeps *)
(* has failed fast and has time left, one that prescans has tried nothing. *)
(***************************************************************************)
EXTENDS Connect, TLAPS

USE TimesAssumption
USE DEF ghostVars

\* The address types there are.
LEMMA TypesKnown ==
  Public \in Types /\ Random \in Types
  BY DEF Types

\* What is known in each phase.
PhaseInv ==
  /\ phase # "idle" => outcome = "none"
  /\ phase = "prescan" => left = probed /\ left >= 0 /\ tried = {} /\ latest = "none"
                          /\ again = FALSE
  /\ phase = "attempt" => left > 0 /\ (transient => failedFast)
  /\ phase = "sleep" => left > RetryDelay /\ failedFast

IInv ==
  /\ TypeOK /\ PhaseInv
  /\ DeadlineKept /\ AbsentIsNotRetried /\ TransientIsRetried /\ KnownTypeOnly

\* What the loop over candidate types may do, from any point in it: try a
\* type while there is time, sleep after a fast failure, or give up.
LoopStep(time, known, fast) ==
  /\ phase' \in {"attempt", "sleep", "idle"}
  /\ trying' \in Types
  /\ outcome' \in {outcome, "not_found"}
  /\ tried' \subseteq Types
  /\ phase' = "attempt" => time > 0 /\ outcome' = outcome /\ known \in {Unknown, trying'}
  /\ phase' = "sleep" => time > RetryDelay /\ fast /\ outcome' = outcome
  /\ phase' = "idle" => ~ (fast /\ time > RetryDelay)
  /\ time <= 0 => tried' = tried

\* A candidate type is tried, or the round is over, as the time allows.
LEMMA TryIsLoopStep ==
  ASSUME NEW time \in Int, NEW known \in Types \cup {Unknown}, NEW ty \in Types,
         NEW fast \in BOOLEAN, known \in {Unknown, ty}, TypeOK, Try(time, ty, fast)
  PROVE  LoopStep(time, known, fast)
<1>1. CASE time > 0
  BY <1>1 DEF Try, MayTry, LoopStep, TypeOK
<1>2. CASE ~ (time > 0) /\ Retries(time, fast)
  BY <1>2 DEF Try, MayTry, RoundOver, Retries, LoopStep, TypeOK
<1>3. CASE ~ (time > 0) /\ ~ Retries(time, fast)
  BY <1>3 DEF Try, MayTry, RoundOver, Retries, End, LoopStep, TypeOK
<1> QED BY <1>1, <1>2, <1>3

\* A new round begins with the first candidate.
LEMMA RoundIsLoopStep ==
  ASSUME NEW time \in Int, NEW known \in Types \cup {Unknown}, TypeOK, Round(time, known)
  PROVE  LoopStep(time, known, FALSE) /\ transient' = FALSE
<1>1. FirstType(known) \in Types /\ known \in {Unknown, FirstType(known)}
  BY TypesKnown DEF FirstType
<1> QED BY <1>1, TryIsLoopStep DEF Round

\* After an attempt comes the next candidate, or the round is over.
LEMMA GoOnIsLoopStep ==
  ASSUME NEW time \in Int, NEW fast \in BOOLEAN, TypeOK, GoOn(time, fast)
  PROVE  LoopStep(time, peerType, fast)
<1>1. peerType \in Types \cup {Unknown}
  BY DEF TypeOK
<1>2. CASE HasNext(peerType, trying)
  BY <1>1, <1>2, TypesKnown, TryIsLoopStep DEF GoOn, HasNext
<1>3. CASE ~ HasNext(peerType, trying)
  BY <1>3 DEF GoOn, RoundOver, Retries, End, LoopStep, TypeOK
<1> QED BY <1>2, <1>3

-----------------------------------------------------------------------------
(* The attempts.                                                           *)

\* An attempt that connects ends the call.
LEMMA ConnectedKeeps ==
  ASSUME IInv, Connected
  PROVE  IInv'
  BY DEF Connected, End, IInv, TypeOK, PhaseInv, DeadlineKept, AbsentIsNotRetried,
         TransientIsRetried, KnownTypeOnly

\* An attempt that times out has used up the time.
LEMMA ExpiresKeeps ==
  ASSUME IInv, AttemptExpires
  PROVE  IInv'
<1>1. LoopStep(left', peerType, transient)
  BY GoOnIsLoopStep DEF AttemptExpires, IInv, TypeOK
<1>4. TypeOK'
  BY <1>1 DEF AttemptExpires, LoopStep, IInv, TypeOK
<1>5. PhaseInv'
  BY <1>1 DEF AttemptExpires, LoopStep, IInv, PhaseInv, TypeOK
<1>6. DeadlineKept'
  BY <1>1 DEF AttemptExpires, LoopStep, IInv, DeadlineKept, PhaseInv, TypeOK
<1>7. AbsentIsNotRetried'
  BY <1>1 DEF AttemptExpires, LoopStep, IInv, AbsentIsNotRetried, PhaseInv, TypeOK
<1>8. TransientIsRetried'
  BY <1>1 DEF AttemptExpires, LoopStep, IInv, TransientIsRetried, PhaseInv, TypeOK
<1>9. KnownTypeOnly'
  BY <1>1 DEF AttemptExpires, LoopStep, IInv, KnownTypeOnly, TypeOK
<1> QED BY <1>4, <1>5, <1>6, <1>7, <1>8, <1>9 DEF IInv

\* An attempt that fails fast leaves time, and is not final while it does.
LEMMA FailsKeeps ==
  ASSUME IInv, AttemptFails
  PROVE  IInv'
<1>1. left' \in Int /\ left' >= 0 /\ left' <= left
  BY DEF AttemptFails, IInv, TypeOK
<1>2. LoopStep(left', peerType, TRUE)
  BY <1>1, GoOnIsLoopStep DEF AttemptFails, IInv
<1>4. TypeOK'
  BY <1>1, <1>2 DEF AttemptFails, LoopStep, IInv, TypeOK
<1>5. PhaseInv'
  BY <1>1, <1>2 DEF AttemptFails, LoopStep, IInv, PhaseInv, TypeOK
<1>6. DeadlineKept'
  BY <1>1, <1>2 DEF AttemptFails, LoopStep, IInv, DeadlineKept, PhaseInv, TypeOK
<1>7. AbsentIsNotRetried'
  BY <1>1, <1>2 DEF AttemptFails, LoopStep, IInv, AbsentIsNotRetried, PhaseInv, TypeOK
<1>8. TransientIsRetried'
  BY <1>1, <1>2 DEF AttemptFails, LoopStep, IInv, TransientIsRetried, PhaseInv, TypeOK
<1>9. KnownTypeOnly'
  BY <1>1, <1>2 DEF AttemptFails, LoopStep, IInv, KnownTypeOnly, TypeOK
<1> QED BY <1>4, <1>5, <1>6, <1>7, <1>8, <1>9 DEF IInv

\* The sleep fitted into the time left, so another round begins.
LEMMA WakeKeeps ==
  ASSUME IInv, Wake
  PROVE  IInv'
<1>1. left' \in Int /\ left' > 0
  BY DEF Wake, LeftAfterSleep, IInv, TypeOK, PhaseInv
<1>2. LoopStep(left', peerType, FALSE) /\ transient' = FALSE
  BY <1>1, RoundIsLoopStep DEF Wake, IInv, TypeOK
<1>3. phase' = "attempt"
  BY <1>1 DEF Wake, Round, Try, MayTry
<1>4. TypeOK'
  BY <1>1, <1>2, <1>3 DEF Wake, LoopStep, IInv, TypeOK
<1>5. PhaseInv'
  BY <1>1, <1>2, <1>3 DEF Wake, LoopStep, IInv, PhaseInv, TypeOK
<1>6. DeadlineKept'
  BY <1>1, <1>2, <1>3 DEF Wake, LoopStep, IInv, DeadlineKept, PhaseInv, TypeOK
<1>7. AbsentIsNotRetried'
  BY <1>1, <1>2, <1>3 DEF Wake, LoopStep, IInv, AbsentIsNotRetried, PhaseInv, TypeOK
<1>8. TransientIsRetried'
  BY <1>1, <1>2, <1>3 DEF Wake, LoopStep, IInv, TransientIsRetried, PhaseInv, TypeOK
<1>9. KnownTypeOnly'
  BY <1>1, <1>2, <1>3 DEF Wake, LoopStep, IInv, KnownTypeOnly, TypeOK
<1> QED BY <1>4, <1>5, <1>6, <1>7, <1>8, <1>9 DEF IInv

-----------------------------------------------------------------------------
(* The calls and their prescans.                                           *)

\* A call with time for a prescan begins with one.
LEMMA CallKeeps ==
  ASSUME IInv, Call
  PROVE  IInv'
<1>1. left' \in Nat /\ calls' \in 0 .. MaxCalls
  BY DEF Call, NewCall, IInv, TypeOK
<1>2. again' \in BOOLEAN /\ failedFast' \in BOOLEAN /\ transient' \in BOOLEAN
  BY Zenon DEF Call, NewCall, IInv, TypeOK
<1>3. tried' \subseteq Types /\ probed' \in Int
  BY <1>1 DEF Call, NewCall
<1>4. TypeOK'
  BY <1>1, <1>2, <1>3 DEF Call, NewCall, IInv, TypeOK
<1>5. PhaseInv'
  BY <1>1 DEF Call, NewCall, IInv, PhaseInv, TypeOK
<1>6. DeadlineKept'
  BY <1>1 DEF Call, NewCall, IInv, DeadlineKept, PhaseInv, TypeOK
<1>7. AbsentIsNotRetried'
  BY <1>1 DEF Call, NewCall, IInv, AbsentIsNotRetried, PhaseInv, TypeOK
<1>8. TransientIsRetried'
  BY <1>1 DEF Call, NewCall, IInv, TransientIsRetried, PhaseInv, TypeOK
<1>9. KnownTypeOnly'
  BY <1>1 DEF Call, NewCall, IInv, KnownTypeOnly, TypeOK
<1> QED BY <1>4, <1>5, <1>6, <1>7, <1>8, <1>9 DEF IInv

\* A call without is in its first round at once.
LEMMA CallWithoutKeeps ==
  ASSUME IInv, CallWithoutPrescan
  PROVE  IInv'
<1>1. left' \in Nat /\ calls' \in 0 .. MaxCalls
  BY DEF CallWithoutPrescan, NewCall, IInv, TypeOK
<1>2. FirstType(peerType) \in Types /\ peerType \in {Unknown, FirstType(peerType)}
  BY TypesKnown DEF FirstType, IInv, TypeOK
<1>3. again' \in BOOLEAN /\ failedFast' \in BOOLEAN /\ transient' \in BOOLEAN
  BY Zenon DEF CallWithoutPrescan, NewCall
<1>4. TypeOK'
  <2>1. tried' \subseteq Types /\ trying' \in Types /\ probed' \in Int
    BY <1>1, <1>2 DEF CallWithoutPrescan, NewCall, IInv, TypeOK
  <2> QED BY <1>1, <1>3, <2>1 DEF CallWithoutPrescan, NewCall, MayTry, IInv, TypeOK
<1>5. PhaseInv'
  BY <1>1, <1>2 DEF CallWithoutPrescan, NewCall, MayTry, IInv, PhaseInv, TypeOK
<1>6. DeadlineKept'
  BY <1>1, <1>2 DEF CallWithoutPrescan, NewCall, MayTry, IInv, DeadlineKept, PhaseInv, TypeOK
<1>7. AbsentIsNotRetried'
  BY <1>1, <1>2 DEF CallWithoutPrescan, NewCall, MayTry, IInv, AbsentIsNotRetried, PhaseInv, TypeOK
<1>8. TransientIsRetried'
  BY <1>1, <1>2 DEF CallWithoutPrescan, NewCall, MayTry, IInv, TransientIsRetried, PhaseInv, TypeOK
<1>9. KnownTypeOnly'
  BY <1>1, <1>2 DEF CallWithoutPrescan, NewCall, MayTry, IInv, KnownTypeOnly, TypeOK
<1> QED BY <1>4, <1>5, <1>6, <1>7, <1>8, <1>9 DEF IInv

\* The prescan may have taken longer than there was; then nothing is tried.
LEMMA PrescanOverKeeps ==
  ASSUME IInv, PrescanOver
  PROVE  IInv'
<1>1. left' \in Int
  BY DEF PrescanOver, Budget, Smaller, Larger, IInv, TypeOK
<1>2. peerType' \in Types \cup {Unknown}
  BY DEF PrescanOver, IInv, TypeOK
<1>3. LoopStep(left', peerType', FALSE) /\ transient' = FALSE
  BY <1>1, <1>2, RoundIsLoopStep DEF PrescanOver, IInv
<1>4. TypeOK'
  BY <1>1, <1>2, <1>3 DEF PrescanOver, LoopStep, IInv, TypeOK
<1>5. PhaseInv'
  BY <1>1, <1>2, <1>3 DEF PrescanOver, LoopStep, IInv, PhaseInv, TypeOK
<1>6. DeadlineKept'
  BY <1>1, <1>2, <1>3 DEF PrescanOver, LoopStep, IInv, DeadlineKept, PhaseInv, TypeOK
<1>7. AbsentIsNotRetried'
  BY <1>1, <1>2, <1>3 DEF PrescanOver, LoopStep, IInv, AbsentIsNotRetried, PhaseInv, TypeOK
<1>8. TransientIsRetried'
  BY <1>1, <1>2, <1>3 DEF PrescanOver, LoopStep, IInv, TransientIsRetried, PhaseInv, TypeOK
<1>9. KnownTypeOnly'
  BY <1>1, <1>2, <1>3 DEF PrescanOver, LoopStep, IInv, KnownTypeOnly, TypeOK
<1> QED BY <1>4, <1>5, <1>6, <1>7, <1>8, <1>9 DEF IInv

\* A prescan that raises ends the call before anything was tried.
LEMMA PrescanRaisesKeeps ==
  ASSUME IInv, PrescanRaises
  PROVE  IInv'
<1>1. left' \in Int
  BY DEF PrescanRaises, IInv, TypeOK
<1> QED
  BY <1>1 DEF PrescanRaises, End, IInv, TypeOK, PhaseInv, DeadlineKept, AbsentIsNotRetried,
              TransientIsRetried, KnownTypeOnly

-----------------------------------------------------------------------------
\* The strengthening is inductive.
THEOREM Invariance == Spec => []IInv
<1>1. Init => IInv
  <2>1. ASSUME Init PROVE TypeOK
    <3>1. again \in BOOLEAN /\ failedFast \in BOOLEAN /\ transient \in BOOLEAN
      BY <2>1, Zenon DEF Init
    <3> QED BY <2>1, <3>1, TypesKnown DEF Init, TypeOK
  <2> QED BY <2>1 DEF Init, IInv, PhaseInv, DeadlineKept, AbsentIsNotRetried,
                      TransientIsRetried, KnownTypeOnly
<1>2. ASSUME IInv, [Next]_vars PROVE IInv'
  <2>1. CASE UNCHANGED vars
    BY <1>2, <2>1 DEF vars, IInv, TypeOK, PhaseInv, DeadlineKept, AbsentIsNotRetried,
                      TransientIsRetried, KnownTypeOnly
  <2>2. CASE Next
    BY <1>2, <2>2, ConnectedKeeps, ExpiresKeeps, FailsKeeps, WakeKeeps, CallKeeps,
       CallWithoutKeeps, PrescanOverKeeps, PrescanRaisesKeeps DEF Next
  <2> QED BY <1>2, <2>1, <2>2
<1> QED BY <1>1, <1>2, PTL DEF Spec

\* Every variable of connect keeps its type, and no attempt begins without
\* time left (L2CAPSocket.connect gets a positive timeout).
THEOREM TypeCorrect == Spec => []TypeOK
<1>1. IInv => TypeOK
  BY DEF IInv
<1> QED BY <1>1, Invariance, PTL

\* Attempts and sleeps stay within the caller's timeout, whatever the caller's
\* timeout and the constants are; only the prescan may exceed it.
THEOREM AttemptsKeepDeadline == Spec => []DeadlineKept
<1>1. IInv => DeadlineKept
  BY DEF IInv
<1> QED BY <1>1, Invariance, PTL

\* A call that goes round again has met a fast failure (timeouts alone are never
\* retried), and it does not end with a fast failure while there is time for
\* another try.
THEOREM RetriesAreRight == Spec => []RetriesRightly
<1>1. IInv => RetriesRightly
  BY DEF IInv, RetriesRightly
<1> QED BY <1>1, Invariance, PTL

\* No attempt uses an address type that is known to be the wrong one.
THEOREM KnownTypesAreUsed == Spec => []KnownTypeOnly
<1>1. IInv => KnownTypeOnly
  BY DEF IInv
<1> QED BY <1>1, Invariance, PTL
====
