---- MODULE AttBearer ----
(***************************************************************************)
(* What an ATT client promises its callers: requests are served one at a   *)
(* time in the order they were made, each ends once, and an answer handed  *)
(* to a request is its own unless it belongs to a request that had been    *)
(* "loosened": one whose own answer was no longer awaited (its caller gave *)
(* up, or the peer answered it out of turn) or was sent twice.             *)
(* AttClient implements this specification.                                *)
(***************************************************************************)
EXTENDS Sequences, SequencesExt

CONSTANTS Reqs,     \* the requests the callers make
          NoReq     \* no request: the answer came from nobody's request

VARIABLES queue,    \* requests accepted and not yet over, oldest first
          result,   \* how each request stands
          from,     \* whose answer each request was handed
          loose     \* requests whose answer may reach another request

bearerVars == <<queue, result, from, loose>>

Results == {"none", "answered", "unanswered"}

BearerInit ==
  /\ queue = <<>>
  /\ result = [r \in Reqs |-> "none"]
  /\ from = [r \in Reqs |-> NoReq]
  /\ loose = {}

\* A caller makes a request.
Submit(r) ==
  /\ result[r] = "none"
  /\ ~ Contains(queue, r)
  /\ queue' = Append(queue, r)
  /\ UNCHANGED <<result, from, loose>>

\* A request fails before it is ever queued: the socket refuses it.
Refuse(r) ==
  /\ result[r] = "none"
  /\ ~ Contains(queue, r)
  /\ result' = [result EXCEPT ![r] = "unanswered"]
  /\ UNCHANGED <<queue, from, loose>>

\* The oldest request, and no other, is handed an answer: its own, or that of
\* a loosened request, in which case its own is still to come.
Serve(r, a) ==
  /\ queue # <<>> /\ r = Head(queue)
  /\ a \in {r} \cup {NoReq} \cup loose
  /\ queue' = Tail(queue)
  /\ result' = [result EXCEPT ![r] = "answered"]
  /\ from' = [from EXCEPT ![r] = a]
  /\ loose' = IF a = r THEN loose ELSE loose \cup {r}

\* A queued request ends without an answer: timeout, cancellation, lost link.
\* If it had been sent, its answer may still arrive.
Leave(r) ==
  /\ \E k \in 1 .. Len(queue) : queue[k] = r /\ queue' = RemoveAt(queue, k)
  /\ result' = [result EXCEPT ![r] = "unanswered"]
  /\ loose' \in {loose, loose \cup {r}}
  /\ UNCHANGED from

\* The peer answers a request twice.
Loosen(r) ==
  /\ loose' = loose \cup {r}
  /\ UNCHANGED <<queue, result, from>>

BearerNext ==
  \E r \in Reqs :
    \/ Submit(r)
    \/ Refuse(r)
    \/ \E a \in Reqs \cup {NoReq} : Serve(r, a)
    \/ Leave(r)
    \/ Loosen(r)

BearerSpec == BearerInit /\ [][BearerNext]_bearerVars
====
