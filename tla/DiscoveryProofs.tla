---- MODULE DiscoveryProofs ----
(***************************************************************************)
(* Discovery asks only for proper ranges and its loops move forward, for   *)
(* every highest handle, every page size, every set of attribute tables    *)
(* and any number of untrue responses; without such responses it finds the *)
(* whole table. The ranges need the types alone: discover checks each      *)
(* range before it begins a loop, and each page before it goes on.         *)
(* Completeness needs TruthInv: what the loops have found so far is what   *)
(* the table holds below the next request.                                 *)
(***************************************************************************)
EXTENDS Discovery, SequenceTheorems, TLAPS

USE SizeAssumption, DbsAssumption
USE DEF Types, Handles, Wire

-----------------------------------------------------------------------------
(* Pages.                                                                  *)

\* A function on 1 .. n is a sequence.
LEMMA FunctionIsSeq ==
  ASSUME NEW S, NEW n \in Nat, NEW f \in [1 .. n -> S]
  PROVE  f \in Seq(S) /\ Len(f) = n
  OBVIOUS

\* The entries a truthful server sends are pairs of handles.
LEMMA TrueEntriesTyped ==
  ASSUME TypeOK, NEW h \in Matching
  PROVE  EntriesOf(h) \subseteq Entries
<1>1. h \in Handles
  BY DEF TypeOK, Matching
<1>2. GroupEnds(db, h) \subseteq Wire
  BY <1>1 DEF GroupEnds
<1>3. ASSUME phase = "chars" PROVE h + 1 \in Wire
  <2>1. db \in [Handles -> Types] /\ ValidDb(db)
    BY DEF TypeOK
  <2>2. db[h] = "char"
    BY <1>3 DEF Matching
  <2> QED BY <1>1, <2>1, <2>2 DEF ValidDb
<1> QED BY <1>1, <1>2, <1>3 DEF EntriesOf, Entries

\* Every page, true or not, is a sequence of entries.
LEMMA PagesTyped ==
  ASSUME TypeOK
  PROVE  /\ \A p \in TruePages : p \in Seq(Entries)
         /\ \A p \in AnyPages : p \in Seq(Entries)
<1>1. ASSUME NEW p \in TruePages PROVE p \in Seq(Entries)
  <2> DEFINE T == UNION {EntriesOf(h) : h \in Matching}
  <2>1. PICK n \in 1 .. MaxPage : p \in [1 .. n -> T]
    BY <1>1 DEF TruePages
  <2>2. T \subseteq Entries
    BY TrueEntriesTyped
  <2> HIDE DEF T
  <2>3. n \in Nat /\ p \in [1 .. n -> Entries]
    BY <2>1, <2>2
  <2> QED BY <2>3, FunctionIsSeq
<1>2. ASSUME NEW p \in AnyPages PROVE p \in Seq(Entries)
  <2>1. PICK n \in 0 .. MaxPage : p \in [1 .. n -> Entries]
    BY <1>2 DEF AnyPages
  <2> QED BY <2>1, FunctionIsSeq
<1> QED BY <1>1, <1>2

-----------------------------------------------------------------------------
(* discover between two loops.                                             *)

\* The next service's loop has a range that is not empty, and is another's.
LEMMA NextServiceOpens ==
  ASSUME TypeOK, NEW svcs \in Seq(Entries), NEW k \in 0 .. Len(svcs), NextService(svcs, k)
  PROVE  /\ phase' \in {"chars", "done"}
         /\ start' \in Wire /\ limit' \in Wire
         /\ results' \in Seq(Entries)
         /\ chars' = <<>> /\ ci' = 0
         /\ si' \in 0 .. Len(svcs)
         /\ phase' = "chars" => si' \in k + 1 .. Len(svcs) /\ start' <= limit'
<1>1. CASE \E j \in k + 1 .. Len(svcs) :
             /\ svcs[j].handle <= svcs[j].other
             /\ si' = j
             /\ OpenLoop("chars", svcs[j].handle, svcs[j].other)
  <2>1. PICK j \in k + 1 .. Len(svcs) :
          /\ svcs[j].handle <= svcs[j].other
          /\ si' = j
          /\ OpenLoop("chars", svcs[j].handle, svcs[j].other)
    BY <1>1
  <2>2. Len(svcs) \in Nat /\ j \in 1 .. Len(svcs)
    BY LenProperties
  <2>3. svcs[j] \in Entries
    BY <2>2, ElementOfSeq
  <2>4. <<>> \in Seq(Entries)
    BY EmptySeq
  <2> QED BY <2>1, <2>2, <2>3, <2>4 DEF OpenLoop, NextService, Entries
<1>2. CASE phase' = "done" /\ si' = 0 /\ UNCHANGED <<start, limit, results>>
  BY <1>2, LenProperties DEF NextService, TypeOK
<1> QED BY <1>1, <1>2 DEF NextService

\* So has the next characteristic's, or it is the next service's turn.
LEMMA NextCharOpens ==
  ASSUME TypeOK, si \in 1 .. Len(services),
         NEW chs \in Seq(Chars), NEW k \in 0 .. Len(chs), NextChar(chs, k)
  PROVE  /\ phase' \in {"chars", "descs", "done"}
         /\ start' \in Wire /\ limit' \in Wire
         /\ results' \in Seq(Entries)
         /\ chars' \in Seq(Chars)
         /\ si' \in 0 .. Len(services) /\ ci' \in 0 .. Len(chars')
         /\ phase' = "descs" => si' = si /\ ci' \in k + 1 .. Len(chars')
         /\ phase' = "chars" => si' \in si + 1 .. Len(services)
         /\ phase' # "done" => start' <= limit'
<1>1. CASE \E j \in k + 1 .. Len(chs) :
             /\ chs[j].end > chs[j].value
             /\ chars' = chs /\ ci' = j /\ si' = si
             /\ OpenLoop("descs", chs[j].value + 1, chs[j].end)
  <2>1. PICK j \in k + 1 .. Len(chs) :
          /\ chs[j].end > chs[j].value
          /\ chars' = chs /\ ci' = j /\ si' = si
          /\ OpenLoop("descs", chs[j].value + 1, chs[j].end)
    BY <1>1
  <2>2. Len(chs) \in Nat /\ j \in 1 .. Len(chs)
    BY LenProperties
  <2>3. chs[j] \in Chars
    BY <2>2, ElementOfSeq
  <2>4. /\ phase' = "descs" /\ si' = si /\ chars' = chs /\ ci' = j
        /\ start' = chs[j].value + 1 /\ limit' = chs[j].end
        /\ results' = <<>>
    BY <2>1 DEF OpenLoop
  <2>5. results' \in Seq(Entries) /\ chars' \in Seq(Chars)
    BY <2>4, EmptySeq
  <2>6. start' \in Wire /\ limit' \in Wire /\ start' <= limit'
    <3>1. /\ chs[j].value \in 0 .. MaxHandle /\ chs[j].end \in -1 .. MaxHandle
          /\ chs[j].end > chs[j].value
      BY <2>1, <2>3 DEF Chars, Wire
    <3> QED BY <2>4, <3>1, SizeAssumption, SMTT(40) DEF Wire
  <2>7. ci' \in k + 1 .. Len(chars') /\ ci' \in 0 .. Len(chars')
    BY <2>2, <2>4
  <2>8. si' \in 0 .. Len(services)
    BY <2>4
  <2> QED BY <2>4, <2>5, <2>6, <2>7, <2>8
<1>2. CASE NextService(services, si)
  <2>1. services \in Seq(Entries) /\ Len(services) \in Nat /\ si \in 0 .. Len(services)
    BY LenProperties DEF TypeOK
  <2>2. <<>> \in Seq(Chars) /\ Len(<<>>) = 0
    BY EmptySeq
  <2>3. /\ phase' \in {"chars", "done"}
        /\ start' \in Wire /\ limit' \in Wire
        /\ results' \in Seq(Entries)
        /\ chars' = <<>> /\ ci' = 0
        /\ si' \in 0 .. Len(services)
        /\ phase' = "chars" => si' \in si + 1 .. Len(services) /\ start' <= limit'
    BY <1>2, <2>1, NextServiceOpens
  <2> QED BY <2>2, <2>3
<1> QED BY <1>1, <1>2 DEF NextChar

\* The end of a characteristic is a handle, or the one before the first.
LEMMA CharsTyped ==
  ASSUME TypeOK, si \in 1 .. Len(services), NEW got \in Seq(Entries)
  PROVE  [i \in DOMAIN got |-> [handle |-> got[i].handle, value |-> got[i].other,
                                end |-> CharEnd(got, i)]] \in Seq(Chars)
<1>1. Len(got) \in Nat /\ DOMAIN got = 1 .. Len(got)
  BY LenProperties
<1>2. \A i \in 1 .. Len(got) : got[i] \in Entries
  BY ElementOfSeq
<1>3. services[si] \in Entries
  BY ElementOfSeq DEF TypeOK
<1>4. ASSUME NEW i \in 1 .. Len(got) PROVE CharEnd(got, i) \in -1 .. MaxHandle
  <2>1. CASE i < Len(got)
    <3>1. i + 1 \in 1 .. Len(got)
      BY <1>1, <2>1
    <3>2. got[i + 1].handle \in Wire
      BY <1>2, <3>1 DEF Entries
    <3> QED BY <2>1, <3>2 DEF CharEnd
  <2>2. CASE ~ (i < Len(got))
    BY <1>3, <2>2 DEF CharEnd, Entries
  <2> QED BY <2>1, <2>2
<1> DEFINE c == [i \in 1 .. Len(got) |-> [handle |-> got[i].handle, value |-> got[i].other,
                                          end |-> CharEnd(got, i)]]
<1>5. c \in [1 .. Len(got) -> Chars]
  BY <1>2, <1>4 DEF Chars, Entries
<1> HIDE DEF c
<1>6. c \in Seq(Chars)
  BY <1>1, <1>5, FunctionIsSeq
<1> QED BY <1>1, <1>6 DEF c

\* A loop's end keeps the types, and what follows is another loop over a range
\* that is not empty, or the end.
LEMMA CollectKeeps ==
  ASSUME TypeOK, Running, NEW got \in Seq(Entries), Collect(got),
         db' = db, lies' \in 0 .. MaxLies
  PROVE  TypeOK' /\ RangeIsProper' /\ ~ SameLoop
<1>1. CASE phase = "services"
  <2>1. services' = got /\ NextService(got, 0) /\ UNCHANGED <<tree, descs>>
    BY <1>1 DEF Collect
  <2>2. 0 \in 0 .. Len(got)
    BY LenProperties
  <2>3. <<>> \in Seq(Chars) /\ Len(<<>>) = 0
    BY EmptySeq
  <2>4. /\ phase' \in {"chars", "done"}
        /\ start' \in Wire /\ limit' \in Wire
        /\ results' \in Seq(Entries)
        /\ chars' = <<>> /\ ci' = 0
        /\ si' \in 0 .. Len(got)
        /\ phase' = "chars" => si' \in 0 + 1 .. Len(got) /\ start' <= limit'
    BY <2>1, <2>2, NextServiceOpens
  <2> QED BY <1>1, <2>1, <2>3, <2>4, SMTT(40) DEF TypeOK, RangeIsProper, Running, SameLoop
<1>2. CASE phase = "chars"
  <2> DEFINE chs == [i \in DOMAIN got |-> [handle |-> got[i].handle, value |-> got[i].other,
                                           end |-> CharEnd(got, i)]]
             new == {[service |-> services[si].handle, handle |-> got[i].handle,
                      value |-> got[i].other] : i \in DOMAIN got}
  <2>1. /\ tree' = tree \cup new /\ NextChar(chs, 0)
        /\ UNCHANGED <<services, descs>>
    BY <1>2 DEF Collect
  <2>2. si \in 1 .. Len(services)
    BY <1>2, LenProperties DEF TypeOK
  <2>3. chs \in Seq(Chars)
    BY <2>2, CharsTyped
  <2>4. new \subseteq [service : Wire, handle : Wire, value : Wire]
    <3>1. services[si] \in Entries
      BY <2>2, ElementOfSeq DEF TypeOK
    <3>2. \A i \in DOMAIN got : got[i] \in Entries
      BY LenProperties, ElementOfSeq
    <3> QED BY <3>1, <3>2 DEF Entries
  <2> HIDE DEF chs, new
  <2>5. 0 \in 0 .. Len(chs)
    BY <2>3, LenProperties
  <2>6. /\ phase' \in {"chars", "descs", "done"}
        /\ start' \in Wire /\ limit' \in Wire
        /\ results' \in Seq(Entries)
        /\ chars' \in Seq(Chars)
        /\ si' \in 0 .. Len(services) /\ ci' \in 0 .. Len(chars')
        /\ phase' = "descs" => si' = si /\ ci' \in 0 + 1 .. Len(chars')
        /\ phase' = "chars" => si' \in si + 1 .. Len(services)
        /\ phase' # "done" => start' <= limit'
    BY <2>1, <2>2, <2>3, <2>5, NextCharOpens
  <2>7. tree' \subseteq [service : Wire, handle : Wire, value : Wire]
    BY <2>1, <2>4 DEF TypeOK
  <2>8. si # si + 1 /\ \A n \in si + 1 .. Len(services) : n # si
    BY <2>2
  <2> QED BY <1>2, <2>1, <2>2, <2>6, <2>7, <2>8, SMTT(40) DEF TypeOK, RangeIsProper, Running, SameLoop
<1>3. CASE phase = "descs"
  <2> DEFINE new == {[char |-> chars[ci].handle, handle |-> got[i].handle] : i \in DOMAIN got}
  <2>1. /\ descs' = descs \cup new /\ NextChar(chars, ci)
        /\ UNCHANGED <<services, tree>>
    BY <1>3 DEF Collect
  <2>2. si \in 1 .. Len(services) /\ ci \in 1 .. Len(chars)
    BY <1>3, LenProperties DEF TypeOK
  <2>3. chars \in Seq(Chars) /\ ci \in 0 .. Len(chars)
    BY DEF TypeOK
  <2>4. new \subseteq [char : Wire, handle : Wire]
    <3>1. chars[ci] \in Chars
      BY <2>2, ElementOfSeq DEF TypeOK
    <3>2. \A i \in DOMAIN got : got[i] \in Entries
      BY LenProperties, ElementOfSeq
    <3> QED BY <3>1, <3>2, SMTT(40) DEF Entries, Chars
  <2> HIDE DEF new
  <2>6. /\ phase' \in {"chars", "descs", "done"}
        /\ start' \in Wire /\ limit' \in Wire
        /\ results' \in Seq(Entries)
        /\ chars' \in Seq(Chars)
        /\ si' \in 0 .. Len(services) /\ ci' \in 0 .. Len(chars')
        /\ phase' = "descs" => si' = si /\ ci' \in ci + 1 .. Len(chars')
        /\ phase' = "chars" => si' \in si + 1 .. Len(services)
        /\ phase' # "done" => start' <= limit'
    BY <2>1, <2>2, <2>3, NextCharOpens
  <2>7. descs' \subseteq [char : Wire, handle : Wire]
    BY <2>1, <2>4 DEF TypeOK
  <2>8. ci \in Nat /\ si \in Nat
    BY <2>2
  <2> QED BY <1>3, <2>1, <2>2, <2>6, <2>7, <2>8, SMTT(40) DEF TypeOK, RangeIsProper, Running, SameLoop
<1> QED BY <1>1, <1>2, <1>3 DEF Running

-----------------------------------------------------------------------------
(* A page within a loop.                                                   *)

\* After a page the loop is over, or goes on above it and within its limit.
LEMMA TakePageKeeps ==
  ASSUME TypeOK, Running, NEW page \in Seq(Entries), TakePage(page),
         db' = db, lies' \in 0 .. MaxLies
  PROVE  TypeOK' /\ RangeIsProper' /\ (SameLoop => start' > start)
<1>1. results \o page \in Seq(Entries)
  BY ConcatProperties DEF TypeOK
<1>2. CASE LoopEnds(LastOf(page))
  BY <1>1, <1>2, CollectKeeps DEF TakePage
<1>3. CASE ~ LoopEnds(LastOf(page))
  <2>1. LastOf(page) \in Wire
    <3>1. CASE page = <<>>
      BY <3>1 DEF LastOf, TypeOK
    <3>2. CASE page # <<>>
      <4>1. Len(page) \in 1 .. Len(page)
        BY <3>2, EmptySeq, LenProperties
      <4>2. page[Len(page)] \in Entries
        BY <4>1, ElementOfSeq
      <4> QED BY <3>2, <4>2 DEF LastOf, Entries
    <3> QED BY <3>1, <3>2
  <2>2. /\ results' = results \o page
        /\ start' = LastOf(page) + 1
        /\ UNCHANGED <<phase, limit, treeVars>>
    BY <1>3 DEF TakePage
  <2>3. start' \in Wire /\ start' > start /\ start' <= limit
    BY <1>3, <2>1, <2>2 DEF LoopEnds, TypeOK
  <2>4. TypeOK'
    BY <1>1, <2>2, <2>3 DEF TypeOK, treeVars
  <2> QED BY <2>2, <2>3, <2>4 DEF RangeIsProper
<1> QED BY <1>2, <1>3

-----------------------------------------------------------------------------
\* One step of discovery keeps the types and the ranges, and does not let a
\* loop stand still.
LEMMA StepKeeps ==
  ASSUME TypeOK, Next
  PROVE  TypeOK' /\ RangeIsProper' /\ (SameLoop => start' > start)
<1>1. CASE Page
  <2>1. lies \in 0 .. MaxLies
    BY DEF TypeOK
  <2> QED BY <1>1, <2>1, PagesTyped, TakePageKeeps DEF Page
<1>2. CASE NotFound
  <2>1. lies \in 0 .. MaxLies /\ results \in Seq(Entries)
    BY DEF TypeOK
  <2> QED BY <1>2, <2>1, CollectKeeps DEF NotFound
<1>3. CASE Lie
  <2>1. lies' \in 0 .. MaxLies /\ results \in Seq(Entries)
    BY <1>3 DEF Lie, TypeOK
  <2> QED BY <1>3, <2>1, PagesTyped, TakePageKeeps, CollectKeeps DEF Lie
<1>4. CASE Fail
  BY <1>4 DEF Fail, Running, TypeOK, RangeIsProper, SameLoop, treeVars
<1> QED BY <1>1, <1>2, <1>3, <1>4 DEF Next

\* discover begins with a proper range.
LEMMA InitHolds ==
  ASSUME Init
  PROVE  TypeOK /\ RangeIsProper
  BY EmptySeq DEF Init, TypeOK, RangeIsProper

\* Nothing changes, nothing breaks.
LEMMA StutterKeeps ==
  ASSUME TypeOK, RangeIsProper, UNCHANGED vars
  PROVE  TypeOK' /\ RangeIsProper'
  BY DEF TypeOK, RangeIsProper, Running, vars, loopVars, treeVars

\* Every variable of discover keeps its type: handles taken from responses stay
\* within two bytes, and the services and characteristics that a loop is about
\* are among those found (client code indexes them without a check).
THEOREM TypeCorrect == Spec => []TypeOK
<1>1. Init => TypeOK
  BY InitHolds
<1>2. TypeOK /\ [Next]_vars => TypeOK'
  <2>1. ASSUME TypeOK, UNCHANGED vars PROVE TypeOK'
    BY <2>1 DEF TypeOK, vars, loopVars, treeVars
  <2> QED BY <2>1, StepKeeps
<1> QED BY <1>1, <1>2, PTL DEF Spec

\* Every request asks for a range that is not empty and that two bytes hold,
\* whatever the server has answered before.
THEOREM RangesAreProper == Spec => []RangeIsProper
<1>1. Init => TypeOK /\ RangeIsProper
  BY InitHolds
<1>2. TypeOK /\ RangeIsProper /\ [Next]_vars => TypeOK' /\ RangeIsProper'
  BY StepKeeps, StutterKeeps
<1> QED BY <1>1, <1>2, PTL DEF Spec

\* A loop's next request starts above its last one, whatever the server answers.
THEOREM LoopsMoveForward == Spec => MovesForward
<1>1. TypeOK /\ [Next]_vars => [SameLoop => start' > start]_vars
  BY StepKeeps
<1> QED BY <1>1, TypeCorrect, PTL DEF Spec, MovesForward

-----------------------------------------------------------------------------
(* The attribute table: what belongs to a service and to a characteristic. *)

\* Where a sequence joined to another keeps its elements.
LEMMA Joined ==
  ASSUME NEW S, NEW s \in Seq(S), NEW t \in Seq(S)
  PROVE  /\ Len(s) \in Nat /\ Len(t) \in Nat /\ Len(s \o t) = Len(s) + Len(t)
         /\ \A i \in 1 .. Len(s) : (s \o t)[i] = s[i]
         /\ \A i \in 1 .. Len(t) : (s \o t)[Len(s) + i] = t[i]
  BY ConcatProperties, LenProperties

\* The handles of two lists joined are those of both.
LEMMA HandlesJoined ==
  ASSUME NEW s \in Seq(Entries), NEW t \in Seq(Entries)
  PROVE  HandlesOf(s \o t) = HandlesOf(s) \cup HandlesOf(t)
<1>1. ASSUME NEW i \in 1 .. Len(s \o t)
      PROVE  (s \o t)[i].handle \in HandlesOf(s) \cup HandlesOf(t)
  <2>1. CASE i \in 1 .. Len(s)
    BY <2>1, Joined DEF HandlesOf
  <2>2. CASE i \notin 1 .. Len(s)
    <3>1. i - Len(s) \in 1 .. Len(t) /\ Len(s) + (i - Len(s)) = i
      BY <2>2, Joined
    <3> QED BY <3>1, Joined DEF HandlesOf
  <2> QED BY <2>1, <2>2
<1>2. \A i \in 1 .. Len(s) : s[i].handle \in HandlesOf(s \o t)
  <2>1. \A i \in 1 .. Len(s) : i \in 1 .. Len(s \o t) /\ (s \o t)[i] = s[i]
    BY Joined
  <2> QED BY <2>1 DEF HandlesOf
<1>3. \A i \in 1 .. Len(t) : t[i].handle \in HandlesOf(s \o t)
  <2>1. \A i \in 1 .. Len(t) : Len(s) + i \in 1 .. Len(s \o t) /\ (s \o t)[Len(s) + i] = t[i]
    BY Joined
  <2> QED BY <2>1 DEF HandlesOf
<1> QED BY <1>1, <1>2, <1>3 DEF HandlesOf

\* What is said of each pair of elements, one before the other, holds of a list
\* joined to another if it holds within both and across them.
LEMMA InOrderJoined ==
  ASSUME NEW s \in Seq(Entries), NEW t \in Seq(Entries), NEW i, NEW j,
         i \in 1 .. Len(s \o t), j \in 1 .. Len(s \o t), i < j
  PROVE  \/ /\ i \in 1 .. Len(s) /\ j \in 1 .. Len(s)
            /\ (s \o t)[i] = s[i] /\ (s \o t)[j] = s[j]
         \/ /\ i \in 1 .. Len(s) /\ j - Len(s) \in 1 .. Len(t)
            /\ (s \o t)[i] = s[i] /\ (s \o t)[j] = t[j - Len(s)]
         \/ /\ i - Len(s) \in 1 .. Len(t) /\ j - Len(s) \in 1 .. Len(t)
            /\ i - Len(s) < j - Len(s)
            /\ (s \o t)[i] = t[i - Len(s)] /\ (s \o t)[j] = t[j - Len(s)]
<1>1. ASSUME NEW k \in 1 .. Len(s \o t)
      PROVE  \/ k \in 1 .. Len(s) /\ (s \o t)[k] = s[k]
             \/ k > Len(s) /\ k - Len(s) \in 1 .. Len(t) /\ (s \o t)[k] = t[k - Len(s)]
  <2>1. CASE k \in 1 .. Len(s)
    BY <2>1, Joined
  <2>2. CASE k \notin 1 .. Len(s)
    <3>1. k - Len(s) \in 1 .. Len(t) /\ Len(s) + (k - Len(s)) = k /\ k > Len(s)
      BY <2>2, Joined
    <3> QED BY <3>1, Joined
  <2> QED BY <2>1, <2>2
<1> QED BY <1>1, Joined

\* Behind what is reported as the end of a group there is nothing of its own.
LEMMA EndsGroup ==
  ASSUME NEW a, NEW s, NEW e \in GroupEnds(a, s)
  PROVE  \A h \in e + 1 .. MaxHandle : InGroup(a, s, h) => a[h] = "none"
  BY DEF GroupEnds

\* A characteristic's handles hold neither a declaration nor a service behind
\* its own declaration, and belong to its service.
LEMMA CharAlone ==
  ASSUME NEW a \in [Handles -> Types], NEW chs \in Seq(Chars), NEW svc \in Entries,
         svc.other \in GroupEnds(a, svc.handle), AllChars(a, chs, svc),
         NEW i \in 1 .. Len(chs), NEW k \in chs[i].handle + 1 .. chs[i].end
  PROVE  /\ a[k] \notin {"service", "char"} /\ InGroup(a, svc.handle, k)
         /\ k \in Handles
<1>1. Len(chs) \in Nat /\ chs[i] \in Chars
  BY LenProperties, ElementOfSeq
<1>2. \A j \in 1 .. Len(chs) : chs[j].handle \in Handles /\ InGroup(a, svc.handle, chs[j].handle)
  BY DEF AllChars, HandlesOf
<1>3. chs[i].end <= svc.other /\ InGroup(a, svc.handle, chs[i].end)
  <2>1. CASE i < Len(chs)
    <3>1. i + 1 \in 1 .. Len(chs) /\ chs[i].end = chs[i + 1].handle - 1 /\ chs[i].handle < chs[i + 1].handle
      BY <1>1, <2>1 DEF AllChars, Increasing
    <3>2. InGroup(a, svc.handle, chs[i + 1].handle) /\ a[chs[i + 1].handle] = "char"
          /\ chs[i + 1].handle \in Handles
      BY <3>1 DEF AllChars, HandlesOf
    <3>3. ~ (chs[i + 1].handle > svc.other)
      BY <3>2 DEF GroupEnds, Entries
    <3>4. chs[i].handle \in Handles /\ svc.handle \in Wire /\ svc.other \in Wire
      BY <1>2 DEF Entries
    <3>5. chs[i].end <= svc.other
      BY <3>1, <3>2, <3>3, <3>4
    <3>6. svc.handle <= chs[i].end
      BY <1>2, <3>1, <3>2, <3>4 DEF InGroup
    <3>7. \A h \in svc.handle + 1 .. chs[i].end : h \in svc.handle + 1 .. chs[i + 1].handle
      BY <3>1, <3>2, <3>4
    <3> QED BY <3>2, <3>5, <3>6, <3>7 DEF InGroup
  <2>2. CASE ~ (i < Len(chs))
    BY <2>2 DEF AllChars, GroupEnds, Entries
  <2> QED BY <2>1, <2>2
<1>4. k \in Int /\ k <= chs[i].end /\ k > chs[i].handle /\ chs[i].handle \in Handles
      /\ chs[i].end \in -1 .. MaxHandle /\ svc.handle \in Wire
  BY <1>1, <1>2 DEF Chars, Entries
<1>5. InGroup(a, svc.handle, k) /\ k \in Handles /\ a[k] # "service"
  BY <1>2, <1>3, <1>4 DEF InGroup
<1>6. ASSUME a[k] = "char" PROVE FALSE
  <2>1. PICK j \in 1 .. Len(chs) : k = chs[j].handle
    BY <1>5, <1>6 DEF AllChars, HandlesOf
  <2>2. j > i
    BY <1>1, <1>2, <1>4, <2>1 DEF AllChars, Increasing
  <2>3. i + 1 \in 1 .. Len(chs) /\ chs[i].end = chs[i + 1].handle - 1
    BY <1>1, <2>2 DEF AllChars
  <2>4. chs[i + 1].handle <= chs[j].handle
    BY <1>1, <1>2, <2>2, <2>3, SMTT(30) DEF AllChars, Increasing
  <2> QED BY <1>2, <1>4, <2>1, <2>3, <2>4
<1> QED BY <1>5, <1>6

\* A characteristic's value is behind its declaration, and its end is a handle.
LEMMA ValueBehind ==
  ASSUME NEW a \in [Handles -> Types], ValidDb(a), NEW chs \in Seq(Chars), NEW i \in 1 .. Len(chs),
         chs[i].handle \in Handles, a[chs[i].handle] = "char"
  PROVE  a[chs[i].handle + 1] = "value" /\ chs[i].end \in -1 .. MaxHandle
<1>1. a[chs[i].handle + 1] = "value"
  BY DEF ValidDb
<1>2. chs[i] \in Chars
  BY ElementOfSeq
<1> QED BY <1>1, <1>2 DEF Chars

\* Behind a characteristic's value there are only descriptors,
LEMMA OnlyDescs ==
  ASSUME NEW a \in [Handles -> Types], ValidDb(a), NEW chs \in Seq(Chars), NEW svc \in Entries,
         svc.other \in GroupEnds(a, svc.handle), AllChars(a, chs, svc),
         NEW i \in 1 .. Len(chs), NEW h \in chs[i].value + 1 .. chs[i].end
  PROVE  h \in Handles /\ a[h] \in {"none", "desc"}
<1>1. chs[i].handle \in Handles /\ a[chs[i].handle] = "char" /\ chs[i].value = chs[i].handle + 1
  BY DEF AllChars, HandlesOf
<1>2. a[chs[i].value] = "value" /\ chs[i].end \in -1 .. MaxHandle
  BY <1>1, ValueBehind
<1>3. h \in chs[i].handle + 1 .. chs[i].end
  BY <1>1, <1>2
<1>4. h \in Handles /\ a[h] \notin {"service", "char"}
  BY <1>3, CharAlone
<1>5. ASSUME a[h] = "value" PROVE FALSE
  <2>1. h - 1 \in Handles /\ h - 1 < MaxHandle /\ a[(h - 1) + 1] = "value"
    BY <1>1, <1>2, <1>4, <1>5
  <2>2. a[h - 1] = "char"
    BY <2>1 DEF ValidDb
  <2>3. h - 1 # chs[i].value
    BY <1>2, <2>2
  <2>4. h - 1 \in chs[i].handle + 1 .. chs[i].end
    BY <1>1, <1>2, <2>3
  <2> QED BY <2>2, <2>4, CharAlone
<1> QED BY <1>4, <1>5

\* and they are all of its own.
LEMMA DescsOfChar ==
  ASSUME NEW a \in [Handles -> Types], ValidDb(a), NEW chs \in Seq(Chars), NEW svc \in Entries,
         svc.other \in GroupEnds(a, svc.handle), AllChars(a, chs, svc),
         NEW i \in 1 .. Len(chs), NEW d
  PROVE  d \in DescsOf(a) /\ d.char = chs[i].handle
           <=> \E h \in chs[i].value + 1 .. chs[i].end :
                 a[h] = "desc" /\ d = [char |-> chs[i].handle, handle |-> h]
<1>1. /\ chs[i].handle \in Handles /\ a[chs[i].handle] = "char" /\ chs[i].value = chs[i].handle + 1
      /\ InGroup(a, svc.handle, chs[i].handle)
  BY DEF AllChars, HandlesOf
<1>2. /\ a[chs[i].value] = "value" /\ chs[i].end \in -1 .. MaxHandle
      /\ svc.handle \in Wire /\ svc.other \in Wire /\ Len(chs) \in Nat
  BY <1>1, ValueBehind, LenProperties DEF Entries
<1>3. ASSUME d \in DescsOf(a), d.char = chs[i].handle
      PROVE  \E h \in chs[i].value + 1 .. chs[i].end :
                 a[h] = "desc" /\ d = [char |-> chs[i].handle, handle |-> h]
  <2>1. /\ d.handle \in Handles /\ a[d.handle] = "desc" /\ chs[i].handle < d.handle
        /\ \A k \in chs[i].handle + 1 .. d.handle : a[k] \notin {"service", "char"}
        /\ d = [char |-> chs[i].handle, handle |-> d.handle]
    BY <1>3 DEF DescsOf
  <2>2. d.handle # chs[i].value
    BY <1>2, <2>1
  <2>3. d.handle <= chs[i].end
    <3>1. CASE i < Len(chs)
      <4>1. /\ chs[i].end = chs[i + 1].handle - 1 /\ chs[i].handle < chs[i + 1].handle
            /\ i + 1 \in 1 .. Len(chs)
        BY <1>2, <3>1 DEF AllChars, Increasing
      <4>2. chs[i + 1].handle \in Handles /\ a[chs[i + 1].handle] = "char"
        BY <4>1 DEF AllChars, HandlesOf
      <4>3. ~ (chs[i + 1].handle <= d.handle)
        BY <1>1, <2>1, <4>1, <4>2
      <4> QED BY <2>1, <4>1, <4>2, <4>3
    <3>2. CASE ~ (i < Len(chs))
      <4>1. chs[i].end = svc.other
        BY <3>2 DEF AllChars
      <4>2. InGroup(a, svc.handle, d.handle)
        BY <1>1, <1>2, <2>1 DEF InGroup
      <4>3. \A h \in svc.other + 1 .. MaxHandle : InGroup(a, svc.handle, h) => a[h] = "none"
        BY EndsGroup
      <4>4. d.handle \notin svc.other + 1 .. MaxHandle
        BY <2>1, <4>2, <4>3
      <4> QED BY <1>2, <2>1, <4>1, <4>4, SMTT(30)
    <3> QED BY <3>1, <3>2
  <2> QED BY <1>1, <1>2, <2>1, <2>2, <2>3
<1>4. ASSUME NEW h \in chs[i].value + 1 .. chs[i].end, a[h] = "desc",
             d = [char |-> chs[i].handle, handle |-> h]
      PROVE  d \in DescsOf(a) /\ d.char = chs[i].handle
  <2>1. h \in Handles /\ h > chs[i].handle
    BY <1>1, <1>2, <1>4
  <2>2. \A k \in chs[i].handle + 1 .. h : a[k] \notin {"service", "char"}
    <3>1. ASSUME NEW k \in chs[i].handle + 1 .. h PROVE k \in chs[i].handle + 1 .. chs[i].end
      BY <1>1, <1>2, <1>4, <3>1
    <3> QED BY <3>1, CharAlone
  <2> QED BY <1>1, <1>4, <2>1, <2>2 DEF DescsOf
<1> QED BY <1>3, <1>4

-----------------------------------------------------------------------------
(* A page of a server that tells the truth.                                *)

\* It has matches, in order, and leaves none out before its last.
LEMMA TruePageFacts ==
  ASSUME TypeOK, NEW p \in TruePages
  PROVE  /\ p \in Seq(Entries) /\ Len(p) \in Nat /\ Len(p) \in 1 .. Len(p)
         /\ \A i \in 1 .. Len(p) : p[i].handle \in Matching /\ p[i] \in EntriesOf(p[i].handle)
         /\ Increasing(p)
         /\ HandlesOf(p) = {h \in Matching : h <= p[Len(p)].handle}
<1> DEFINE T == UNION {EntriesOf(h) : h \in Matching}
<1>1. PICK n \in 1 .. MaxPage : p \in [1 .. n -> T]
  BY DEF TruePages
<1>2. /\ \A i, j \in DOMAIN p : i < j => p[i].handle < p[j].handle
      /\ \A h \in Matching : h < p[Len(p)].handle => \E i \in DOMAIN p : p[i].handle = h
  BY DEF TruePages
<1>3. \A e \in T : e.handle \in Matching /\ e \in EntriesOf(e.handle)
  BY DEF EntriesOf
<1> HIDE DEF T
<1>4. p \in Seq(Entries)
  BY PagesTyped
<1>5. n \in Nat /\ DOMAIN p = 1 .. n /\ Len(p) = n
  BY <1>1, <1>4, LenProperties
<1>6. \A i \in 1 .. Len(p) : p[i].handle \in Matching /\ p[i] \in EntriesOf(p[i].handle)
  BY <1>1, <1>3, <1>5
<1>7. Matching \subseteq Handles
  BY DEF Matching, TypeOK
<1>8. Increasing(p)
  BY <1>2, <1>5 DEF Increasing
<1>9. \A i \in 1 .. Len(p) : p[i].handle <= p[Len(p)].handle
  <2>1. ASSUME NEW i \in 1 .. Len(p) PROVE p[i].handle <= p[Len(p)].handle
    <3>1. Len(p) \in 1 .. Len(p) /\ (i = Len(p) \/ i < Len(p))
      BY <1>5
    <3>2. p[i].handle \in Handles /\ p[Len(p)].handle \in Handles
      BY <1>6, <1>7, <3>1
    <3>3. i < Len(p) => p[i].handle < p[Len(p)].handle
      BY <1>8, <3>1 DEF Increasing
    <3> QED BY <3>1, <3>2, <3>3
  <2> QED BY <2>1
<1>10. HandlesOf(p) = {h \in Matching : h <= p[Len(p)].handle}
  <2>1. \A h \in HandlesOf(p) : h \in Matching /\ h <= p[Len(p)].handle
    BY <1>6, <1>9 DEF HandlesOf
  <2>2. \A h \in Matching : h <= p[Len(p)].handle => h \in HandlesOf(p)
    <3>1. ASSUME NEW h \in Matching, h <= p[Len(p)].handle PROVE h \in HandlesOf(p)
      <4>1. Len(p) \in 1 .. Len(p)
        BY <1>5
      <4>2. h \in Handles
        BY <1>7
      <4>3. p[Len(p)].handle \in Handles
        BY <1>6, <1>7, <4>1
      <4>4. CASE h = p[Len(p)].handle
        BY <4>1, <4>4 DEF HandlesOf
      <4>5. CASE h < p[Len(p)].handle
        BY <1>2, <1>5, <4>5 DEF HandlesOf
      <4> QED BY <3>1, <4>2, <4>3, <4>4, <4>5
    <3> QED BY <3>1
  <2> QED BY <2>1, <2>2
<1> QED BY <1>1, <1>4, <1>5, <1>6, <1>8, <1>10

\* The services up to where the page's last one ends are found with it.
LEMMA ServicesPage ==
  ASSUME TypeOK, phase = "services", limit = MaxHandle, FoundServices(db, results, start),
         NEW p \in TruePages
  PROVE  /\ FoundServices(db, results \o p, LastOf(p) + 1)
         /\ start <= LastOf(p) /\ LastOf(p) <= limit
<1>1. /\ p \in Seq(Entries) /\ Len(p) \in Nat /\ Len(p) \in 1 .. Len(p)
      /\ \A i \in 1 .. Len(p) : p[i].handle \in Matching /\ p[i] \in EntriesOf(p[i].handle)
      /\ Increasing(p)
      /\ HandlesOf(p) = {h \in Matching : h <= p[Len(p)].handle}
  BY TruePageFacts
<1>2. results \in Seq(Entries) /\ start \in Wire /\ p # <<>>
  BY <1>1, EmptySeq DEF TypeOK
<1>3. Matching = {h \in ServicesOf(db) : start <= h}
  BY <1>2 DEF Matching, ServicesOf
<1>4. \A i \in 1 .. Len(p) : /\ p[i].handle \in Handles /\ p[i].other \in GroupEnds(db, p[i].handle)
                            /\ start <= p[i].handle /\ db[p[i].handle] = "service"
  BY <1>1, <1>3 DEF EntriesOf, ServicesOf
<1>5. \A i \in 1 .. Len(p) : /\ p[i].other \in p[i].handle .. MaxHandle
                            /\ \A k \in p[i].handle + 1 .. p[i].other : db[k] # "service"
  BY <1>4 DEF GroupEnds, InGroup
<1>6. LastOf(p) = p[Len(p)].other
  BY <1>2 DEF LastOf
<1>7. LastOf(p) \in Handles /\ start <= LastOf(p) /\ LastOf(p) <= limit
  BY <1>1, <1>2, <1>4, <1>5, <1>6
<1>8. \A i, j \in 1 .. Len(p) : i < j => p[i].other < p[j].handle
  <2>1. ASSUME NEW i \in 1 .. Len(p), NEW j \in 1 .. Len(p), i < j, p[j].handle <= p[i].other
        PROVE  FALSE
    <3>1. p[i].handle < p[j].handle
      BY <1>1, <2>1 DEF Increasing
    <3>2. /\ p[i].handle \in Handles /\ p[j].handle \in Handles
          /\ p[i].other \in p[i].handle .. MaxHandle
      BY <1>4, <1>5
    <3>3. p[j].handle \in p[i].handle + 1 .. p[i].other
      BY <2>1, <3>1, <3>2, SMTT(30)
    <3> QED BY <1>4, <1>5, <3>3
  <2> QED BY <1>4, <1>5, <2>1
<1>9. \A i \in 1 .. Len(p) : p[i].other <= LastOf(p)
  BY <1>1, <1>4, <1>5, <1>6, <1>8
<1>10. HandlesOf(results \o p) = {h \in ServicesOf(db) : h < LastOf(p) + 1}
  <2>1. HandlesOf(results \o p) = HandlesOf(results) \cup HandlesOf(p)
    BY <1>1, <1>2, HandlesJoined
  <2>2. HandlesOf(results) = {h \in ServicesOf(db) : h < start}
    BY DEF FoundServices
  <2>3. \A h \in ServicesOf(db) : h <= LastOf(p) => h <= p[Len(p)].handle
    BY <1>1, <1>4, <1>5, <1>6 DEF ServicesOf
  <2>4. p[Len(p)].handle <= LastOf(p) /\ p[Len(p)].handle \in Handles
    BY <1>1, <1>4, <1>5, <1>6
  <2>5. \A h \in ServicesOf(db) : h \in Handles
    BY DEF ServicesOf
  <2> QED BY <1>1, <1>2, <1>3, <1>7, <2>1, <2>2, <2>3, <2>4, <2>5
<1>11. \A i \in 1 .. Len(results) : /\ results[i].other \in GroupEnds(db, results[i].handle)
                                   /\ results[i].other < start /\ results[i].other \in Int
  <2>1. \A i \in 1 .. Len(results) : results[i] \in Entries
    BY <1>2, ElementOfSeq
  <2> QED BY <2>1 DEF FoundServices, Entries
<1>12. ASSUME NEW i \in 1 .. Len(results \o p)
       PROVE  /\ (results \o p)[i].other \in GroupEnds(db, (results \o p)[i].handle)
              /\ (results \o p)[i].other < LastOf(p) + 1
  <2>1. CASE i \in 1 .. Len(results)
    BY <1>1, <1>2, <1>7, <1>11, <2>1, Joined
  <2>2. CASE i \notin 1 .. Len(results)
    <3>1. i - Len(results) \in 1 .. Len(p) /\ Len(results) + (i - Len(results)) = i
      BY <1>1, <1>2, <2>2, Joined
    <3>2. (results \o p)[i] = p[i - Len(results)]
      BY <1>1, <1>2, <3>1, Joined
    <3> QED BY <1>4, <1>5, <1>7, <1>9, <3>1, <3>2
  <2> QED BY <2>1, <2>2
<1>13. ASSUME NEW i \in 1 .. Len(results \o p), NEW j \in 1 .. Len(results \o p), i < j
       PROVE  (results \o p)[i].other < (results \o p)[j].handle
  <2>1. \A k, l \in 1 .. Len(results) : k < l => results[k].other < results[l].handle
    BY DEF FoundServices
  <2>2. \A k \in 1 .. Len(results), l \in 1 .. Len(p) : results[k].other < p[l].handle
    BY <1>2, <1>4, <1>11
  <2> QED BY <1>1, <1>2, <1>8, <1>13, <2>1, <2>2, InOrderJoined
<1> QED BY <1>7, <1>10, <1>12, <1>13 DEF FoundServices

\* The declarations up to the page's last are found with it.
LEMMA CharsPage ==
  ASSUME TypeOK, phase = "chars", NEW from \in Handles, start >= from,
         FoundChars(db, results, from, start), NEW p \in TruePages
  PROVE  /\ FoundChars(db, results \o p, from, LastOf(p) + 1)
         /\ start <= LastOf(p) /\ LastOf(p) <= limit
<1>1. /\ p \in Seq(Entries) /\ Len(p) \in Nat /\ Len(p) \in 1 .. Len(p)
      /\ \A i \in 1 .. Len(p) : p[i].handle \in Matching /\ p[i] \in EntriesOf(p[i].handle)
      /\ Increasing(p)
      /\ HandlesOf(p) = {h \in Matching : h <= p[Len(p)].handle}
  BY TruePageFacts
<1>2. results \in Seq(Entries) /\ start \in Wire /\ limit \in Wire /\ p # <<>>
  BY <1>1, EmptySeq DEF TypeOK
<1>3. Matching = {h \in start .. limit : db[h] = "char"}
  BY <1>2 DEF Matching
<1>4. \A i \in 1 .. Len(p) : p[i].other = p[i].handle + 1 /\ p[i].handle \in start .. limit
  BY <1>1, <1>3 DEF EntriesOf
<1>5. LastOf(p) = p[Len(p)].handle
  BY <1>2 DEF LastOf
<1>6. LastOf(p) \in start .. limit
  BY <1>1, <1>4, <1>5
<1>7. HandlesOf(results \o p) = {h \in from .. (LastOf(p) + 1) - 1 : db[h] = "char"}
  <2>1. HandlesOf(results \o p) = HandlesOf(results) \cup HandlesOf(p)
    BY <1>1, <1>2, HandlesJoined
  <2>2. HandlesOf(results) = {h \in from .. start - 1 : db[h] = "char"}
    BY DEF FoundChars
  <2> QED BY <1>1, <1>2, <1>3, <1>5, <1>6, <2>1, <2>2
<1>8. ASSUME NEW i \in 1 .. Len(results \o p)
      PROVE  (results \o p)[i].other = (results \o p)[i].handle + 1
  <2>1. CASE i \in 1 .. Len(results)
    BY <1>1, <1>2, <2>1, Joined DEF FoundChars
  <2>2. CASE i \notin 1 .. Len(results)
    <3>1. i - Len(results) \in 1 .. Len(p) /\ Len(results) + (i - Len(results)) = i
      BY <1>1, <1>2, <2>2, Joined
    <3>2. (results \o p)[i] = p[i - Len(results)]
      BY <1>1, <1>2, <3>1, Joined
    <3> QED BY <1>4, <3>1, <3>2
  <2> QED BY <2>1, <2>2
<1>9. Increasing(results \o p)
  <2>1. ASSUME NEW i \in 1 .. Len(results \o p), NEW j \in 1 .. Len(results \o p), i < j
        PROVE  (results \o p)[i].handle < (results \o p)[j].handle
    <3>1. \A k, l \in 1 .. Len(results) : k < l => results[k].handle < results[l].handle
      BY DEF FoundChars, Increasing
    <3>2. \A k \in 1 .. Len(results) : results[k].handle \in from .. start - 1
      BY DEF FoundChars, HandlesOf
    <3>3. \A k \in 1 .. Len(results), l \in 1 .. Len(p) : results[k].handle < p[l].handle
      BY <1>2, <1>4, <3>2
    <3>4. \A k, l \in 1 .. Len(p) : k < l => p[k].handle < p[l].handle
      BY <1>1 DEF Increasing
    <3> QED BY <1>1, <1>2, <2>1, <3>1, <3>3, <3>4, InOrderJoined, SMTT(30)
  <2> QED BY <2>1 DEF Increasing
<1> QED BY <1>2, <1>6, <1>7, <1>8, <1>9 DEF FoundChars

\* The descriptors up to the page's last are found with it, if there is nothing else.
LEMMA DescsPage ==
  ASSUME TypeOK, phase = "descs", NEW value \in Nat, start > value,
         \A h \in value + 1 .. limit : db[h] \in {"none", "desc"},
         FoundDescs(db, results, value, start), NEW p \in TruePages
  PROVE  /\ FoundDescs(db, results \o p, value, LastOf(p) + 1)
         /\ start <= LastOf(p) /\ LastOf(p) <= limit
<1>1. /\ p \in Seq(Entries) /\ Len(p) \in Nat /\ Len(p) \in 1 .. Len(p)
      /\ \A i \in 1 .. Len(p) : p[i].handle \in Matching
      /\ HandlesOf(p) = {h \in Matching : h <= p[Len(p)].handle}
  BY TruePageFacts
<1>2. results \in Seq(Entries) /\ start \in Wire /\ limit \in Wire /\ p # <<>>
  BY <1>1, EmptySeq DEF TypeOK
<1>3. Matching = {h \in start .. limit : db[h] = "desc"}
  BY <1>2 DEF Matching
<1>4. LastOf(p) = p[Len(p)].handle /\ LastOf(p) \in start .. limit
  BY <1>1, <1>2, <1>3 DEF LastOf
<1>5. HandlesOf(results \o p) = HandlesOf(results) \cup HandlesOf(p)
  BY <1>1, <1>2, HandlesJoined
<1>6. HandlesOf(results) = {h \in value + 1 .. start - 1 : db[h] = "desc"}
  BY DEF FoundDescs
<1> QED BY <1>1, <1>2, <1>3, <1>4, <1>5, <1>6 DEF FoundDescs

-----------------------------------------------------------------------------
(* What a loop's end means.                                                *)

\* Where the services end, the next service is the next one in the list: every
\* range is one of at least one handle.
LEMMA NextServiceTruth ==
  ASSUME TypeOK, NEW svcs \in Seq(Entries), FoundServices(db, svcs, MaxHandle + 1),
         NEW k \in 0 .. Len(svcs), NextService(svcs, k), services' = svcs, db' = db,
         tree' = TreeUpTo(db, svcs, k), descs' = DescsUpTo(db, svcs, k, <<>>, 0)
  PROVE  TruthInv'
<1>1. Len(svcs) \in Nat /\ db \in [Handles -> Types] /\ ValidDb(db)
  BY LenProperties DEF TypeOK
<1>2. \A i \in 1 .. Len(svcs) : svcs[i].handle \in Handles /\ db[svcs[i].handle] = "service"
  BY DEF FoundServices, HandlesOf, ServicesOf
<1>3. \A i \in 1 .. Len(svcs) : svcs[i].handle <= svcs[i].other
  BY <1>2 DEF FoundServices, GroupEnds
<1>4. CASE \E j \in k + 1 .. Len(svcs) :
             /\ \A i \in k + 1 .. j - 1 : svcs[i].handle > svcs[i].other
             /\ si' = j /\ OpenLoop("chars", svcs[j].handle, svcs[j].other)
  <2>1. PICK j \in k + 1 .. Len(svcs) :
             /\ \A i \in k + 1 .. j - 1 : svcs[i].handle > svcs[i].other
             /\ si' = j /\ OpenLoop("chars", svcs[j].handle, svcs[j].other)
    BY <1>4
  <2>2. \A i \in 1 .. Len(svcs) : ~ (svcs[i].handle > svcs[i].other)
    <3>1. \A i \in 1 .. Len(svcs) : svcs[i] \in Entries
      BY ElementOfSeq
    <3> QED BY <1>3, <3>1 DEF Entries
  <2>3. j = k + 1 /\ j \in 1 .. Len(svcs)
    <3>1. CASE j > k + 1
      <4>1. k + 1 \in k + 1 .. j - 1 /\ k + 1 \in 1 .. Len(svcs)
        BY <1>1, <2>1, <3>1
      <4> QED BY <2>1, <2>2, <4>1
    <3> QED BY <1>1, <2>1, <3>1
  <2>4. /\ phase' = "chars" /\ si' = k + 1 /\ results' = <<>> /\ si' - 1 = k
        /\ start' = services'[si'].handle /\ limit' = services'[si'].other
    BY <2>1, <2>3 DEF OpenLoop
  <2>5. FoundChars(db, <<>>, start', start')
    <3>1. start' \in Handles
      BY <1>2, <2>3, <2>4
    <3>2. HandlesOf(<<>>) = {} /\ {h \in start' .. start' - 1 : db[h] = "char"} = {}
      BY <3>1 DEF HandlesOf
    <3> QED BY <3>2 DEF FoundChars, Increasing
  <2>6. DescsUpTo(db, svcs, k, <<>>, 0) = DescsUpTo(db, svcs, k, chars', 0)
    BY DEF DescsUpTo
  <2>7. start' >= start'
    BY <1>2, <2>3, <2>4
  <2> QED BY <2>4, <2>5, <2>6, <2>7 DEF TruthInv
<1>5. CASE (\A j \in k + 1 .. Len(svcs) : svcs[j].handle > svcs[j].other) /\ phase' = "done"
  <2>1. k = Len(svcs)
    <3>1. CASE k < Len(svcs)
      <4>1. k + 1 \in k + 1 .. Len(svcs) /\ k + 1 \in 1 .. Len(svcs)
        BY <1>1, <3>1
      <4>2. svcs[k + 1].handle <= svcs[k + 1].other /\ svcs[k + 1] \in Entries
        BY <1>3, <4>1, ElementOfSeq
      <4> QED BY <1>5, <4>1, <4>2 DEF Entries
    <3> QED BY <1>1, <3>1
  <2>2. \A h \in ServicesOf(db) : \E i \in 1 .. Len(svcs) : svcs[i].handle = h
    <3>1. \A h \in ServicesOf(db) : h < MaxHandle + 1
      BY DEF ServicesOf
    <3> QED BY <3>1 DEF FoundServices, HandlesOf
  <2>3. tree' = CharsOf(db)
    <3>1. \A t \in CharsOf(db) : t.service \in ServicesOf(db)
      BY DEF CharsOf, ServicesOf
    <3> QED BY <2>1, <2>2, <3>1 DEF TreeUpTo
  <2>4. descs' = DescsOf(db)
    <3>1. ASSUME NEW d \in DescsOf(db) PROVE \E i \in 1 .. k : InGroup(db, svcs[i].handle, d.char)
      <4>1. d.char \in Handles /\ db[d.char] # "none"
        BY DEF DescsOf
      <4>2. PICK s \in Handles : db[s] = "service" /\ InGroup(db, s, d.char)
        BY <1>1, <4>1 DEF ValidDb
      <4>3. s \in ServicesOf(db)
        BY <4>2 DEF ServicesOf
      <4> QED BY <2>1, <2>2, <4>2, <4>3
    <3> QED BY <3>1 DEF DescsUpTo
  <2> QED BY <1>5, <2>3, <2>4 DEF TruthInv
<1> QED BY <1>4, <1>5 DEF NextService

\* The characteristics that are passed over have no descriptors.
LEMMA NextCharTruth ==
  ASSUME TypeOK, si \in 1 .. Len(services), FoundServices(db, services, MaxHandle + 1),
         NEW chs \in Seq(Chars), AllChars(db, chs, services[si]), NEW k \in 0 .. Len(chs),
         NextChar(chs, k), services' = services, db' = db,
         tree' = TreeUpTo(db, services, si), descs' = DescsUpTo(db, services, si - 1, chs, k)
  PROVE  TruthInv'
<1>1. /\ Len(chs) \in Nat /\ db \in [Handles -> Types] /\ ValidDb(db)
      /\ services \in Seq(Entries) /\ Len(services) \in Nat
  BY LenProperties DEF TypeOK
<1>2. services[si] \in Entries /\ services[si].other \in GroupEnds(db, services[si].handle)
  BY <1>1, ElementOfSeq DEF FoundServices
<1>3. \A i \in 1 .. Len(chs) : chs[i] \in Chars
  BY ElementOfSeq
<1>4. ASSUME NEW i \in 1 .. Len(chs), chs[i].end <= chs[i].value, NEW d \in DescsOf(db)
      PROVE  d.char # chs[i].handle
  <2>1. chs[i].value + 1 .. chs[i].end = {}
    BY <1>3, <1>4, SMTT(30) DEF Chars
  <2> QED BY <1>1, <1>2, <2>1, DescsOfChar
<1>5. CASE \E j \in k + 1 .. Len(chs) :
             /\ \A i \in k + 1 .. j - 1 : chs[i].end <= chs[i].value
             /\ chars' = chs /\ ci' = j /\ si' = si
             /\ OpenLoop("descs", chs[j].value + 1, chs[j].end)
  <2>1. PICK j \in k + 1 .. Len(chs) :
             /\ \A i \in k + 1 .. j - 1 : chs[i].end <= chs[i].value
             /\ chars' = chs /\ ci' = j /\ si' = si
             /\ OpenLoop("descs", chs[j].value + 1, chs[j].end)
    BY <1>5
  <2>2. /\ phase' = "descs" /\ results' = <<>> /\ start' = chs[j].value + 1 /\ limit' = chs[j].end
        /\ chars' = chs /\ ci' = j /\ si' = si /\ j \in 1 .. Len(chs)
    BY <1>1, <2>1 DEF OpenLoop
  <2>3. DescsUpTo(db, services, si - 1, chs, k) = DescsUpTo(db, services, si - 1, chs, j - 1)
    <3>1. ASSUME NEW d \in DescsOf(db)
          PROVE  (\E i \in 1 .. k : d.char = chs[i].handle)
                   <=> (\E i \in 1 .. j - 1 : d.char = chs[i].handle)
      <4>1. \A i \in 1 .. k : i \in 1 .. j - 1
        BY <1>1, <2>1
      <4>2. \A i \in 1 .. j - 1 : i \in 1 .. k \/ (i \in k + 1 .. j - 1 /\ i \in 1 .. Len(chs))
        BY <1>1, <2>1
      <4> QED BY <1>4, <2>1, <4>1, <4>2
    <3> QED BY <3>1 DEF DescsUpTo
  <2>4. FoundDescs(db, <<>>, chs[j].value, chs[j].value + 1)
    <3>1. chs[j].value \in Wire
      BY <1>3, <2>2 DEF Chars
    <3>2. HandlesOf(<<>>) = {} /\ chs[j].value + 1 .. (chs[j].value + 1) - 1 = {}
      BY <3>1 DEF HandlesOf
    <3> QED BY <3>2 DEF FoundDescs
  <2>5. chs[j].value + 1 > chs[j].value
    BY <1>3, <2>2, SMTT(30) DEF Chars
  <2> QED BY <2>2, <2>3, <2>4, <2>5 DEF TruthInv
<1>6. CASE (\A j \in k + 1 .. Len(chs) : chs[j].end <= chs[j].value) /\ NextService(services, si)
  <2>1. DescsUpTo(db, services, si - 1, chs, k) = DescsUpTo(db, services, si, <<>>, 0)
    <3>1. ASSUME NEW d \in DescsOf(db)
          PROVE  InGroup(db, services[si].handle, d.char) <=> \E i \in 1 .. k : d.char = chs[i].handle
      <4>1. d.char \in Handles /\ db[d.char] = "char"
        BY DEF DescsOf
      <4>2. InGroup(db, services[si].handle, d.char) <=> \E i \in 1 .. Len(chs) : d.char = chs[i].handle
        BY <4>1 DEF AllChars, HandlesOf
      <4>3. \A i \in 1 .. Len(chs) : i \in 1 .. k \/ i \in k + 1 .. Len(chs)
        BY <1>1
      <4>4. \A i \in 1 .. k : i \in 1 .. Len(chs)
        BY <1>1
      <4>5. \A i \in k + 1 .. Len(chs) : d.char # chs[i].handle
        <5>1. \A i \in k + 1 .. Len(chs) : i \in 1 .. Len(chs)
          BY <1>1
        <5> QED BY <1>4, <1>6, <5>1
      <4> QED BY <4>2, <4>3, <4>4, <4>5
    <3>2. \A i \in 1 .. si : i \in 1 .. si - 1 \/ i = si
      BY <1>1
    <3>3. (\A i \in 1 .. si - 1 : i \in 1 .. si) /\ si \in 1 .. si
      BY <1>1
    <3>4. ASSUME NEW d \in DescsOf(db)
          PROVE  (\E i \in 1 .. si : InGroup(db, services[i].handle, d.char))
                   <=> \/ \E i \in 1 .. si - 1 : InGroup(db, services[i].handle, d.char)
                       \/ InGroup(db, services[si].handle, d.char)
      BY <3>2, <3>3
    <3> QED BY <3>1, <3>4 DEF DescsUpTo
  <2>2. si \in 0 .. Len(services)
    BY <1>1
  <2> QED BY <1>1, <1>6, <2>1, <2>2, NextServiceTruth
<1> QED BY <1>5, <1>6 DEF NextChar

\* The declarations of a service, each with its end, are its characteristics.
LEMMA CharsCollected ==
  ASSUME TypeOK, si \in 1 .. Len(services), FoundServices(db, services, MaxHandle + 1),
         NEW got \in Seq(Entries),
         FoundChars(db, got, services[si].handle, services[si].other + 1)
  PROVE  /\ AllChars(db, [i \in DOMAIN got |-> [handle |-> got[i].handle, value |-> got[i].other,
                                               end |-> CharEnd(got, i)]], services[si])
         /\ {[service |-> services[si].handle, handle |-> got[i].handle, value |-> got[i].other] :
                i \in DOMAIN got} = {t \in CharsOf(db) : t.service = services[si].handle}
<1> DEFINE svc == services[si]
           chs == [i \in DOMAIN got |-> [handle |-> got[i].handle, value |-> got[i].other,
                                         end |-> CharEnd(got, i)]]
<1>1. /\ Len(got) \in Nat /\ DOMAIN got = 1 .. Len(got)
      /\ db \in [Handles -> Types] /\ ValidDb(db) /\ services \in Seq(Entries)
  BY LenProperties DEF TypeOK
<1>2. svc.other \in GroupEnds(db, svc.handle) /\ svc.handle \in Handles /\ db[svc.handle] = "service"
  BY DEF FoundServices, HandlesOf, ServicesOf
<1>3. HandlesOf(got) = {h \in Handles : db[h] = "char" /\ InGroup(db, svc.handle, h)}
  <2>1. svc.other \in svc.handle .. MaxHandle /\ InGroup(db, svc.handle, svc.other)
    BY <1>2 DEF GroupEnds
  <2>2. HandlesOf(got) = {h \in svc.handle .. svc.other : db[h] = "char"}
    <3>1. svc.handle .. (svc.other + 1) - 1 = svc.handle .. svc.other
      BY <1>2, <2>1
    <3> QED BY <3>1 DEF FoundChars
  <2>3. \A h \in svc.handle .. svc.other : h \in Handles /\ InGroup(db, svc.handle, h)
    BY <1>2, <2>1 DEF InGroup
  <2>4. ASSUME NEW h \in Handles, db[h] = "char", InGroup(db, svc.handle, h)
        PROVE  h \in svc.handle .. svc.other
    <3>1. ~ (h \in svc.other + 1 .. MaxHandle)
      BY <1>2, <2>4 DEF GroupEnds
    <3>2. svc.handle <= h
      BY <2>4 DEF InGroup
    <3> QED BY <1>2, <2>1, <3>1, <3>2
  <2> QED BY <2>2, <2>3, <2>4
<1>4. AllChars(db, chs, svc)
  <2>1. Len(chs) = Len(got) /\ \A i \in 1 .. Len(got) : /\ chs[i].handle = got[i].handle
                                                      /\ chs[i].value = got[i].other
                                                      /\ chs[i].end = CharEnd(got, i)
    <3>1. chs \in Seq(Chars)
      BY CharsTyped
    <3>2. DOMAIN chs = 1 .. Len(got)
      BY <1>1
    <3>3. Len(chs) = Len(got)
      <4> HIDE DEF chs
      <4>1. chs \in [1 .. Len(got) -> Chars]
        BY <3>1, <3>2, LenProperties
      <4> QED BY <1>1, <4>1, FunctionIsSeq
    <3> QED BY <1>1, <3>3
  <2> HIDE DEF chs
  <2>2. HandlesOf(chs) = HandlesOf(got)
    BY <2>1 DEF HandlesOf
  <2>3. Increasing(chs)
    BY <2>1 DEF Increasing, FoundChars
  <2>4. ASSUME NEW i \in 1 .. Len(chs)
        PROVE  /\ chs[i].value = chs[i].handle + 1
               /\ chs[i].end = IF i < Len(chs) THEN chs[i + 1].handle - 1 ELSE svc.other
    <3>1. i < Len(chs) => i + 1 \in 1 .. Len(got)
      BY <1>1, <2>1
    <3> QED BY <2>1, <3>1 DEF FoundChars, CharEnd
  <2> QED BY <1>3, <2>2, <2>3, <2>4 DEF AllChars
<1>5. {[service |-> svc.handle, handle |-> got[i].handle, value |-> got[i].other] : i \in DOMAIN got}
        = {t \in CharsOf(db) : t.service = svc.handle}
  <2>1. ASSUME NEW i \in 1 .. Len(got)
        PROVE  [service |-> svc.handle, handle |-> got[i].handle, value |-> got[i].other] \in CharsOf(db)
    <3>1. /\ got[i].handle \in Handles /\ db[got[i].handle] = "char"
          /\ InGroup(db, svc.handle, got[i].handle)
      BY <1>3 DEF HandlesOf
    <3>2. got[i].other = got[i].handle + 1
      BY DEF FoundChars
    <3>3. got[i].handle < MaxHandle
      BY <1>1, <3>1 DEF ValidDb
    <3>4. got[i].other \in Handles
      BY <3>1, <3>2, <3>3
    <3> QED BY <1>2, <3>1, <3>2, <3>4 DEF CharsOf
  <2>2. ASSUME NEW t \in CharsOf(db), t.service = svc.handle
        PROVE  \E i \in 1 .. Len(got) :
                 t = [service |-> svc.handle, handle |-> got[i].handle, value |-> got[i].other]
    <3>1. /\ t.handle \in HandlesOf(got) /\ t.value = t.handle + 1
          /\ t = [service |-> svc.handle, handle |-> t.handle, value |-> t.value]
      BY <1>3, <2>2 DEF CharsOf
    <3>2. PICK i \in 1 .. Len(got) : t.handle = got[i].handle
      BY <3>1 DEF HandlesOf
    <3>3. t.value = got[i].other
      BY <3>1, <3>2 DEF FoundChars
    <3> QED BY <3>1, <3>2, <3>3
  <2> QED BY <1>1, <2>1, <2>2
<1> QED BY <1>4, <1>5

\* A loop that has found what its range holds hands on the truth.
LEMMA CollectTruth ==
  ASSUME TypeOK, TruthInv, lies = 0, Running, NEW got \in Seq(Entries), Collect(got), db' = db,
         phase = "services" => FoundServices(db, got, MaxHandle + 1),
         phase = "chars" => FoundChars(db, got, services[si].handle, limit + 1),
         phase = "descs" => FoundDescs(db, got, chars[ci].value, limit + 1)
  PROVE  TruthInv'
<1>1. /\ Len(services) \in Nat /\ services \in Seq(Entries) /\ si \in 0 .. Len(services)
      /\ Len(chars) \in Nat /\ chars \in Seq(Chars) /\ ci \in 0 .. Len(chars)
      /\ Len(got) \in Nat /\ DOMAIN got = 1 .. Len(got)
      /\ db \in [Handles -> Types] /\ ValidDb(db)
  BY LenProperties DEF TypeOK
<1>2. CASE phase = "services"
  <2>1. /\ services' = got /\ NextService(got, 0) /\ tree' = {} /\ descs' = {}
    BY <1>2 DEF Collect, TruthInv
  <2>2. TreeUpTo(db, got, 0) = {} /\ DescsUpTo(db, got, 0, <<>>, 0) = {}
    BY DEF TreeUpTo, DescsUpTo
  <2>3. 0 \in 0 .. Len(got)
    BY <1>1
  <2> QED BY <1>2, <2>1, <2>2, <2>3, NextServiceTruth
<1>3. CASE phase = "chars"
  <2> DEFINE chs == [i \in DOMAIN got |-> [handle |-> got[i].handle, value |-> got[i].other,
                                           end |-> CharEnd(got, i)]]
             new == {[service |-> services[si].handle, handle |-> got[i].handle,
                      value |-> got[i].other] : i \in DOMAIN got}
  <2>1. tree' = tree \cup new /\ NextChar(chs, 0) /\ services' = services /\ descs' = descs
    BY <1>3 DEF Collect
  <2>2. si \in 1 .. Len(services)
    BY <1>1, <1>3 DEF TypeOK
  <2>3. /\ FoundServices(db, services, MaxHandle + 1)
        /\ FoundChars(db, got, services[si].handle, services[si].other + 1)
        /\ tree = TreeUpTo(db, services, si - 1)
        /\ descs = DescsUpTo(db, services, si - 1, chars, 0)
    BY <1>3 DEF TruthInv
  <2>4. chs \in Seq(Chars)
    BY <2>2, CharsTyped
  <2>5. AllChars(db, chs, services[si]) /\ new = {t \in CharsOf(db) : t.service = services[si].handle}
    BY <2>2, <2>3, CharsCollected
  <2> HIDE DEF chs, new
  <2>6. tree' = TreeUpTo(db, services, si)
    <3>1. \A i \in 1 .. si : i \in 1 .. si - 1 \/ i = si
      BY <1>1
    <3>2. (\A i \in 1 .. si - 1 : i \in 1 .. si) /\ si \in 1 .. si
      BY <2>2
    <3> QED BY <2>1, <2>3, <2>5, <3>1, <3>2 DEF TreeUpTo
  <2>7. descs' = DescsUpTo(db, services, si - 1, chs, 0)
    BY <2>1, <2>3 DEF DescsUpTo
  <2>8. 0 \in 0 .. Len(chs)
    BY <2>4, LenProperties
  <2> QED BY <2>1, <2>2, <2>3, <2>4, <2>5, <2>6, <2>7, <2>8, NextCharTruth
<1>4. CASE phase = "descs"
  <2> DEFINE new == {[char |-> chars[ci].handle, handle |-> got[i].handle] : i \in DOMAIN got}
  <2>1. descs' = descs \cup new /\ NextChar(chars, ci) /\ services' = services /\ tree' = tree
    BY <1>4 DEF Collect
  <2>2. si \in 1 .. Len(services) /\ ci \in 1 .. Len(chars)
    BY <1>1, <1>4 DEF TypeOK
  <2>3. /\ FoundServices(db, services, MaxHandle + 1) /\ AllChars(db, chars, services[si])
        /\ HandlesOf(got) = {h \in chars[ci].value + 1 .. chars[ci].end : db[h] = "desc"}
        /\ tree = TreeUpTo(db, services, si)
        /\ descs = DescsUpTo(db, services, si - 1, chars, ci - 1)
    <3>1. (limit + 1) - 1 = limit
      BY DEF TypeOK
    <3> QED BY <1>4, <3>1 DEF TruthInv, FoundDescs
  <2>4. services[si] \in Entries /\ services[si].other \in GroupEnds(db, services[si].handle)
    BY <1>1, <2>2, <2>3, ElementOfSeq DEF FoundServices
  <2>5. new = {d \in DescsOf(db) : d.char = chars[ci].handle}
    <3>1. \A d : d \in DescsOf(db) /\ d.char = chars[ci].handle
                <=> \E h \in chars[ci].value + 1 .. chars[ci].end :
                      db[h] = "desc" /\ d = [char |-> chars[ci].handle, handle |-> h]
      BY <1>1, <2>2, <2>3, <2>4, DescsOfChar, ZenonT(30)
    <3>2. \A d : d \in new <=> \E h \in HandlesOf(got) : d = [char |-> chars[ci].handle, handle |-> h]
      BY <1>1 DEF HandlesOf
    <3> QED BY <2>3, <3>1, <3>2
  <2> HIDE DEF new
  <2>6. descs' = DescsUpTo(db, services, si - 1, chars, ci)
    <3>1. \A i \in 1 .. ci : i \in 1 .. ci - 1 \/ i = ci
      BY <1>1
    <3>2. (\A i \in 1 .. ci - 1 : i \in 1 .. ci) /\ ci \in 1 .. ci
      BY <2>2
    <3> QED BY <2>1, <2>3, <2>5, <3>1, <3>2 DEF DescsUpTo
  <2> QED BY <1>1, <2>1, <2>2, <2>3, <2>6, NextCharTruth
<1> QED BY <1>2, <1>3, <1>4 DEF Running

-----------------------------------------------------------------------------
(* The steps of a discovery that no answer has misled.                     *)

\* What a loop under a truthful server is about.
LEMMA LoopContext ==
  ASSUME TypeOK, RangeIsProper, TruthInv, lies = 0, Running
  PROVE  /\ start \in Wire /\ limit \in Wire /\ start <= limit /\ results \in Seq(Entries)
         /\ phase = "chars" => services[si].handle \in Handles /\ start >= services[si].handle
         /\ phase = "descs" => /\ chars[ci].value \in Nat /\ start > chars[ci].value
                              /\ \A h \in chars[ci].value + 1 .. limit : db[h] \in {"none", "desc"}
<1>1. /\ start \in Wire /\ limit \in Wire /\ start <= limit /\ results \in Seq(Entries)
      /\ db \in [Handles -> Types] /\ ValidDb(db)
  BY DEF TypeOK, RangeIsProper
<1>2. /\ Len(services) \in Nat /\ services \in Seq(Entries) /\ si \in 0 .. Len(services)
      /\ Len(chars) \in Nat /\ chars \in Seq(Chars) /\ ci \in 0 .. Len(chars)
  BY LenProperties DEF TypeOK
<1>3. ASSUME phase \in {"chars", "descs"}
      PROVE  /\ si \in 1 .. Len(services) /\ services[si] \in Entries /\ services[si].handle \in Handles
             /\ services[si].other \in GroupEnds(db, services[si].handle)
  <2>1. si \in 1 .. Len(services)
    BY <1>2, <1>3 DEF TypeOK
  <2>2. services[si] \in Entries
    BY <1>2, <2>1, ElementOfSeq
  <2>3. FoundServices(db, services, MaxHandle + 1)
    BY <1>3 DEF TruthInv
  <2>4. services[si].handle \in ServicesOf(db) /\ services[si].other \in GroupEnds(db, services[si].handle)
    BY <2>1, <2>3 DEF FoundServices, HandlesOf
  <2> QED BY <2>1, <2>2, <2>4 DEF ServicesOf
<1>4. phase = "chars" => services[si].handle \in Handles /\ start >= services[si].handle
  BY <1>3 DEF TruthInv
<1>5. CASE phase = "descs"
  <2>1. ci \in 1 .. Len(chars)
    BY <1>2, <1>5 DEF TypeOK
  <2>2. chars[ci] \in Chars
    BY <1>2, <2>1, ElementOfSeq
  <2>3. AllChars(db, chars, services[si]) /\ limit = chars[ci].end /\ start > chars[ci].value
    BY <1>5 DEF TruthInv
  <2>4. \A h \in chars[ci].value + 1 .. chars[ci].end : db[h] \in {"none", "desc"}
    BY <1>1, <1>2, <1>3, <1>5, <2>1, <2>3, OnlyDescs
  <2>5. chars[ci].value \in Nat
    BY <2>2 DEF Chars
  <2> QED BY <1>1, <1>4, <1>5, <2>3, <2>4, <2>5
<1> QED BY <1>1, <1>4, <1>5

\* A page extends what the loop has found, up to where the page ends.
LEMMA PageExtends ==
  ASSUME TypeOK, RangeIsProper, TruthInv, lies = 0, Running, NEW p \in TruePages
  PROVE  /\ start <= LastOf(p) /\ LastOf(p) <= limit /\ LastOf(p) \in Int
         /\ results \o p \in Seq(Entries)
         /\ phase = "services" => FoundServices(db, results \o p, LastOf(p) + 1)
         /\ phase = "chars" => FoundChars(db, results \o p, services[si].handle, LastOf(p) + 1)
         /\ phase = "descs" => FoundDescs(db, results \o p, chars[ci].value, LastOf(p) + 1)
<1>1. /\ start \in Wire /\ limit \in Wire /\ results \in Seq(Entries)
      /\ phase = "chars" => services[si].handle \in Handles /\ start >= services[si].handle
      /\ phase = "descs" => /\ chars[ci].value \in Nat /\ start > chars[ci].value
                           /\ \A h \in chars[ci].value + 1 .. limit : db[h] \in {"none", "desc"}
  BY LoopContext
<1>2. p \in Seq(Entries) /\ Len(p) \in 1 .. Len(p) /\ p # <<>>
  BY TruePageFacts, EmptySeq
<1>3. LastOf(p) \in Int /\ results \o p \in Seq(Entries)
  <2>1. p[Len(p)] \in Entries
    BY <1>2, ElementOfSeq
  <2>2. LastOf(p) \in Int
    BY <1>2, <2>1 DEF LastOf, Entries
  <2> QED BY <1>1, <1>2, <2>2, ConcatProperties
<1>4. CASE phase = "services"
  <2>1. limit = MaxHandle /\ FoundServices(db, results, start)
    BY <1>4 DEF TruthInv
  <2> QED BY <1>3, <1>4, <2>1, ServicesPage
<1>5. CASE phase = "chars"
  <2>1. FoundChars(db, results, services[si].handle, start)
    BY <1>5 DEF TruthInv
  <2> QED BY <1>1, <1>3, <1>5, <2>1, CharsPage
<1>6. CASE phase = "descs"
  <2>1. FoundDescs(db, results, chars[ci].value, start)
    BY <1>6 DEF TruthInv
  <2> QED BY <1>1, <1>3, <1>6, <2>1, DescsPage
<1> QED BY <1>4, <1>5, <1>6 DEF Running

\* A page that ends the loop has found all; another begins the next request
\* behind what is found.
LEMMA PageTruth ==
  ASSUME TypeOK, RangeIsProper, TruthInv, lies = 0, Page
  PROVE  TruthInv'
<1>1. Running /\ db' = db /\ lies' = lies
  BY DEF Page
<1>2. PICK p \in TruePages : TakePage(p)
  BY DEF Page
<1> DEFINE last == LastOf(p)
<1>3. /\ start <= last /\ last <= limit /\ last \in Int /\ results \o p \in Seq(Entries)
      /\ phase = "services" => FoundServices(db, results \o p, last + 1)
      /\ phase = "chars" => FoundChars(db, results \o p, services[si].handle, last + 1)
      /\ phase = "descs" => FoundDescs(db, results \o p, chars[ci].value, last + 1)
  BY <1>1, PageExtends
<1>4. start \in Wire /\ limit \in Wire
  BY DEF TypeOK
<1>5. CASE LoopEnds(last)
  <2>1. last = limit
    BY <1>3, <1>4, <1>5 DEF LoopEnds
  <2>2. Collect(results \o p)
    BY <1>2, <1>5 DEF TakePage
  <2>3. phase = "services" => limit = MaxHandle
    BY DEF TruthInv
  <2> QED BY <1>1, <1>3, <2>1, <2>2, <2>3, CollectTruth
<1>6. CASE ~ LoopEnds(last)
  <2>1. results' = results \o p /\ start' = last + 1 /\ UNCHANGED <<phase, limit, treeVars>>
    BY <1>2, <1>6 DEF TakePage
  <2> HIDE DEF last
  <2>2. phase = "chars" => last + 1 >= services[si].handle
    <3>1. phase = "chars" => services[si].handle \in Handles /\ start >= services[si].handle
      BY <1>1, LoopContext
    <3> QED BY <1>3, <1>4, <3>1
  <2>3. phase = "descs" => last + 1 > chars[ci].value
    <3>1. phase = "descs" => chars[ci].value \in Nat /\ start > chars[ci].value
      BY <1>1, LoopContext
    <3> QED BY <1>3, <1>4, <3>1
  <2> QED BY <1>1, <1>3, <2>1, <2>2, <2>3 DEF TruthInv, Running, treeVars
<1> QED BY <1>5, <1>6

\* When nothing is left to find, the loop has found all.
LEMMA NotFoundTruth ==
  ASSUME TypeOK, RangeIsProper, TruthInv, lies = 0, NotFound
  PROVE  TruthInv'
<1>1. Running /\ Matching = {} /\ Collect(results) /\ db' = db
  BY DEF NotFound
<1>2. /\ start \in Wire /\ limit \in Wire /\ start <= limit /\ results \in Seq(Entries)
      /\ phase = "chars" => services[si].handle \in Handles /\ start >= services[si].handle
      /\ phase = "descs" => /\ chars[ci].value \in Nat /\ start > chars[ci].value
                           /\ \A h \in chars[ci].value + 1 .. limit : db[h] \in {"none", "desc"}
  BY <1>1, LoopContext
<1>3. ASSUME phase = "services" PROVE FoundServices(db, results, MaxHandle + 1)
  <2>1. limit = MaxHandle /\ FoundServices(db, results, start)
    BY <1>3 DEF TruthInv
  <2>2. \A h \in ServicesOf(db) : h < start
    BY <1>1, <1>2, <1>3, <2>1 DEF Matching, ServicesOf
  <2>3. {h \in ServicesOf(db) : h < start} = {h \in ServicesOf(db) : h < MaxHandle + 1}
    BY <2>2 DEF ServicesOf
  <2>4. ASSUME NEW i \in 1 .. Len(results) PROVE results[i].other < MaxHandle + 1
    <3>1. results[i] \in Entries
      BY <1>2, ElementOfSeq
    <3> QED BY <3>1 DEF Entries
  <2> QED BY <2>1, <2>3, <2>4 DEF FoundServices
<1>4. ASSUME phase = "chars" PROVE FoundChars(db, results, services[si].handle, limit + 1)
  <2>1. FoundChars(db, results, services[si].handle, start)
    BY <1>4 DEF TruthInv
  <2>2. \A h \in start .. limit : db[h] # "char"
    BY <1>1, <1>2, <1>4 DEF Matching
  <2>3. {h \in services[si].handle .. start - 1 : db[h] = "char"}
          = {h \in services[si].handle .. (limit + 1) - 1 : db[h] = "char"}
    BY <1>2, <1>4, <2>2
  <2> QED BY <2>1, <2>3 DEF FoundChars
<1>5. ASSUME phase = "descs" PROVE FoundDescs(db, results, chars[ci].value, limit + 1)
  <2>1. FoundDescs(db, results, chars[ci].value, start)
    BY <1>5 DEF TruthInv
  <2>2. \A h \in start .. limit : db[h] # "desc"
    BY <1>1, <1>2, <1>5 DEF Matching
  <2>3. {h \in chars[ci].value + 1 .. start - 1 : db[h] = "desc"}
          = {h \in chars[ci].value + 1 .. (limit + 1) - 1 : db[h] = "desc"}
    BY <1>2, <1>5, <2>2
  <2> QED BY <2>1, <2>3 DEF FoundDescs
<1> QED BY <1>1, <1>2, <1>3, <1>4, <1>5, CollectTruth

\* Every step keeps the truth, until the server lies.
LEMMA StepKeepsTruth ==
  ASSUME IInv, Next
  PROVE  TruthInv'
<1>1. TypeOK /\ RangeIsProper /\ TruthInv
  BY DEF IInv
<1>2. CASE Page
  <2>1. lies # 0 => TruthInv'
    BY <1>2 DEF Page, TruthInv
  <2> QED BY <1>1, <1>2, <2>1, PageTruth
<1>3. CASE NotFound
  <2>1. lies # 0 => TruthInv'
    BY <1>3 DEF NotFound, TruthInv
  <2> QED BY <1>1, <1>3, <2>1, NotFoundTruth
<1>4. CASE Lie
  <2>1. lies' # 0
    BY <1>1, <1>4 DEF Lie, TypeOK
  <2> QED BY <2>1 DEF TruthInv
<1>5. CASE Fail
  BY <1>5 DEF Fail, TruthInv
<1> QED BY <1>2, <1>3, <1>4, <1>5 DEF Next

\* What the loops have found is true and nothing is left out below the next
\* request: the inductive invariant.
THEOREM Invariance == Spec => []IInv
<1>1. Init => IInv
  <2>1. ASSUME Init PROVE TruthInv
    <3>1. HandlesOf(<<>>) = {} /\ {h \in ServicesOf(db) : h < 1} = {}
      BY DEF HandlesOf, ServicesOf
    <3>2. FoundServices(db, <<>>, 1)
      BY <3>1 DEF FoundServices
    <3> QED BY <2>1, <3>2 DEF Init, TruthInv
  <2> QED BY <2>1, InitHolds DEF IInv
<1>2. IInv /\ [Next]_vars => IInv'
  <2>1. ASSUME IInv, Next PROVE IInv'
    BY <2>1, StepKeeps, StepKeepsTruth DEF IInv
  <2>2. ASSUME IInv, UNCHANGED vars PROVE IInv'
    <3>1. TruthInv'
      BY <2>2 DEF IInv, TruthInv, vars, loopVars, treeVars
    <3> QED BY <2>2, <3>1, StutterKeeps DEF IInv
  <2> QED BY <2>1, <2>2
<1> QED BY <1>1, <1>2, PTL DEF Spec

\* A server that tells the truth is discovered completely, wherever it ends its
\* pages and its groups: every service, characteristic and descriptor, each
\* under its own, and nothing else.
THEOREM DiscoveryIsComplete == Spec => []Complete
<1>1. IInv => Complete
  <2>1. ASSUME TruthInv, phase = "done", lies = 0
        PROVE  /\ HandlesOf(services) = ServicesOf(db)
               /\ \A i, j \in 1 .. Len(services) : i < j => services[i].other < services[j].handle
               /\ tree = CharsOf(db) /\ descs = DescsOf(db)
    <3>1. FoundServices(db, services, MaxHandle + 1) /\ tree = CharsOf(db) /\ descs = DescsOf(db)
      BY <2>1 DEF TruthInv
    <3>2. {h \in ServicesOf(db) : h < MaxHandle + 1} = ServicesOf(db)
      BY DEF ServicesOf
    <3> QED BY <3>1, <3>2 DEF FoundServices
  <2> QED BY <2>1 DEF IInv, Complete
<1> QED BY <1>1, Invariance, PTL
====
