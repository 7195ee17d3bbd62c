---- MODULE Discovery ----
(***************************************************************************)
(* bluek/_att.py, ATTClient.discover and the three paged loops under it:   *)
(* read_by_group_type (primary services), read_by_type (characteristics)   *)
(* and find_information (descriptors).                                     *)
(*                                                                         *)
(* A step is one ATT transaction and what runs after it without awaiting.  *)
(* The server pages as it likes. It may also lie: answer with any entries, *)
(* or with none, as a broken server or one whose database changes under    *)
(* the client does.                                                        *)
(***************************************************************************)
EXTENDS Integers, Sequences

CONSTANTS
  MaxHandle, \* the highest handle, 0xFFFF
  MaxPage,   \* entries that fit one response
  Dbs,       \* the attribute tables a server may have
  MaxLies    \* bound: untrue responses

Types == {"none", "service", "char", "value", "desc"}
Handles == 1 .. MaxHandle
Wire == 0 .. MaxHandle  \* what two bytes of a response can say

\* In the attribute table a, h belongs to the service at s.
InGroup(a, s, h) == s <= h /\ \A k \in s + 1 .. h : a[k] # "service"

\* Every attribute belongs to a service, each characteristic's value is right
\* behind its declaration, descriptors are behind a value of the same service.
ValidDb(a) ==
  \A h \in Handles :
    /\ a[h] = "char" <=> h < MaxHandle /\ a[h + 1] = "value"
    /\ a[h] # "none" =>
         \E s \in Handles : a[s] = "service" /\ InGroup(a, s, h)
    /\ a[h] = "desc" =>
         \E v \in 1 .. h - 1 : a[v] = "value" /\ \A k \in v .. h : a[k] # "service"

ASSUME SizeAssumption == MaxHandle \in Nat \ {0} /\ MaxPage \in Nat \ {0} /\ MaxLies \in Nat
ASSUME DbsAssumption == \A a \in Dbs : a \in [Handles -> Types] /\ ValidDb(a)

VARIABLES
  db,       \* the server's attributes
  lies,     \* untrue responses so far
  phase,    \* services, chars, descs (the loop that runs), done, failed
  start,    \* the loop's next starting handle
  limit,    \* the loop's end
  results,  \* the loop's results
  services, \* discover's services
  si,       \* the service whose characteristics are read
  chars,    \* its characteristics
  ci,       \* the one whose descriptors are read
  tree,     \* characteristics attributed to services so far
  descs     \* descriptors attributed to characteristics so far

loopVars == <<phase, start, limit, results>>
treeVars == <<services, si, chars, ci, tree, descs>>
vars == <<db, lies, loopVars, treeVars>>

\* other: a service's end, a characteristic's value handle.
Entries == [handle : Wire, other : Wire]
Chars == [handle : Wire, value : Wire, end : -1 .. MaxHandle]
Running == phase \in {"services", "chars", "descs"}

TypeOK ==
  /\ db \in Dbs /\ lies \in 0 .. MaxLies
  /\ phase \in {"services", "chars", "descs", "done", "failed"}
  /\ start \in Wire /\ limit \in Wire
  /\ results \in Seq(Entries) /\ services \in Seq(Entries)
  /\ chars \in Seq(Chars)
  /\ si \in 0 .. Len(services) /\ ci \in 0 .. Len(chars)
  /\ phase \in {"chars", "descs"} => si # 0
  /\ phase = "descs" => ci # 0
  /\ tree \subseteq [service : Wire, handle : Wire, value : Wire]
  /\ descs \subseteq [char : Wire, handle : Wire]

Init ==
  /\ db \in Dbs /\ lies = 0
  /\ phase = "services" /\ start = 1 /\ limit = MaxHandle /\ results = <<>>
  /\ services = <<>> /\ si = 0 /\ chars = <<>> /\ ci = 0
  /\ tree = {} /\ descs = {}

-----------------------------------------------------------------------------
(* The server.                                                             *)

\* What a server may report as the end of the group at s: the group's last
\* attribute, or any handle behind it that no other service claims.
GroupEnds(a, s) ==
  {h \in s .. MaxHandle :
     InGroup(a, s, h) /\ \A k \in h + 1 .. MaxHandle : InGroup(a, s, k) => a[k] = "none"}

Matching ==
  CASE phase = "services" -> {h \in start .. limit : h # 0 /\ db[h] = "service"}
    [] phase = "chars" -> {h \in start .. limit : h # 0 /\ db[h] = "char"}
    [] OTHER -> {h \in start .. limit : h # 0 /\ db[h] # "none"}

EntriesOf(h) ==
  [handle : {h},
   other : CASE phase = "services" -> GroupEnds(db, h)
             [] phase = "chars" -> {h + 1}
             [] OTHER -> {0}]

\* The first few matches, in order.
TruePages ==
  {p \in UNION {[1 .. n -> UNION {EntriesOf(h) : h \in Matching}] : n \in 1 .. MaxPage} :
     /\ \A i, j \in DOMAIN p : i < j => p[i].handle < p[j].handle
     /\ \A h \in Matching : h < p[Len(p)].handle => \E i \in DOMAIN p : p[i].handle = h}

AnyPages == UNION {[1 .. n -> Entries] : n \in 0 .. MaxPage}

-----------------------------------------------------------------------------
(* discover.                                                               *)

\* Begin a loop over a range that is not empty.
OpenLoop(what, from, to) ==
  /\ phase' = what
  /\ start' = from /\ limit' = to /\ results' = <<>>

\* The services after the k-th: a loop for the first whose range is not empty.
NextService(svcs, k) ==
  /\ chars' = <<>> /\ ci' = 0
  /\ \/ \E j \in k + 1 .. Len(svcs) :
          /\ svcs[j].handle <= svcs[j].other
          /\ \A i \in k + 1 .. j - 1 : svcs[i].handle > svcs[i].other
          /\ si' = j
          /\ OpenLoop("chars", svcs[j].handle, svcs[j].other)
     \/ /\ \A j \in k + 1 .. Len(svcs) : svcs[j].handle > svcs[j].other
        /\ phase' = "done" /\ si' = 0
        /\ UNCHANGED <<start, limit, results>>

\* The characteristics after the k-th: a loop for the first that has room for
\* descriptors behind its value.
NextChar(chs, k) ==
  \/ \E j \in k + 1 .. Len(chs) :
       /\ chs[j].end > chs[j].value
       /\ \A i \in k + 1 .. j - 1 : chs[i].end <= chs[i].value
       /\ chars' = chs /\ ci' = j /\ si' = si
       /\ OpenLoop("descs", chs[j].value + 1, chs[j].end)
  \/ /\ \A j \in k + 1 .. Len(chs) : chs[j].end <= chs[j].value
     /\ NextService(services, si)

\* A slip: a characteristic's handles reach up to the next declaration.
CharEndAtNext(got, i) ==
  IF i < Len(got) THEN got[i + 1].handle ELSE services[si].other

\* A characteristic ends before the next declaration, or with its service.
CharEnd(got, i) ==
  IF i < Len(got) THEN got[i + 1].handle - 1 ELSE services[si].other

\* What discover does with a loop's results, up to its next request.
Collect(got) ==
  CASE phase = "services" ->
         /\ services' = got
         /\ NextService(got, 0)
         /\ UNCHANGED <<tree, descs>>
    [] phase = "chars" ->
         /\ tree' = tree \cup {[service |-> services[si].handle, handle |-> got[i].handle,
                                value |-> got[i].other] : i \in DOMAIN got}
         /\ NextChar([i \in DOMAIN got |-> [handle |-> got[i].handle, value |-> got[i].other,
                                            end |-> CharEnd(got, i)]], 0)
         /\ UNCHANGED <<services, descs>>
    [] OTHER ->
         /\ descs' = descs \cup {[char |-> chars[ci].handle, handle |-> got[i].handle] :
                                   i \in DOMAIN got}
         /\ NextChar(chars, ci)
         /\ UNCHANGED <<services, tree>>

-----------------------------------------------------------------------------
(* The paged loops.                                                        *)

\* Where a page ends: at the last entry's end for services, else its handle.
LastOf(page) ==
  IF page = <<>> THEN start
  ELSE IF phase = "services" THEN page[Len(page)].other
  ELSE page[Len(page)].handle

\* A slip: a page that ends before it starts is followed all the same.
LoopEndsUnguarded(last) == last >= MaxHandle \/ last + 1 > limit

\* A slip: the loop does not stop at its limit.
LoopEndsLate(last) == last < start

LoopEnds(last) == last >= MaxHandle \/ last < start \/ last + 1 > limit

TakePage(page) ==
  IF LoopEnds(LastOf(page))
    THEN Collect(results \o page)
    ELSE /\ results' = results \o page
         /\ start' = LastOf(page) + 1
         /\ UNCHANGED <<phase, limit, treeVars>>

\* A response with some of what was asked for.
Page ==
  /\ Running
  /\ \E p \in TruePages : TakePage(p)
  /\ UNCHANGED <<db, lies>>

\* Attribute Not Found: the loop is over.
NotFound ==
  /\ Running
  /\ Matching = {}
  /\ Collect(results)
  /\ UNCHANGED <<db, lies>>

\* An untrue response, or an untrue Attribute Not Found.
Lie ==
  /\ Running
  /\ lies < MaxLies
  /\ lies' = lies + 1
  /\ \/ \E p \in AnyPages : TakePage(p)
     \/ Collect(results)
  /\ UNCHANGED db

\* Any other error, a timeout, a lost link, a response that does not parse.
Fail ==
  /\ Running
  /\ phase' = "failed"
  /\ UNCHANGED <<db, lies, start, limit, results, treeVars>>

Next == Page \/ NotFound \/ Lie \/ Fail

Spec == Init /\ [][Next]_vars

-----------------------------------------------------------------------------
\* What the attribute table a says.
ServicesOf(a) == {h \in Handles : a[h] = "service"}
CharsOf(a) ==
  {t \in [service : Handles, handle : Handles, value : Handles] :
     /\ a[t.service] = "service" /\ a[t.handle] = "char" /\ t.value = t.handle + 1
     /\ InGroup(a, t.service, t.handle)}
DescsOf(a) ==
  {d \in [char : Handles, handle : Handles] :
     /\ a[d.char] = "char" /\ a[d.handle] = "desc" /\ d.char < d.handle
     /\ \A k \in d.char + 1 .. d.handle : a[k] \notin {"service", "char"}}

HandlesOf(got) == {got[i].handle : i \in 1 .. Len(got)}

\* Whatever the page boundaries, a server that tells the truth is discovered
\* completely: every service once and in order, every characteristic under its
\* own service, every descriptor under its own characteristic, nothing else,
\* up to and including the highest handle.
Complete ==
  phase = "done" /\ lies = 0 =>
    /\ HandlesOf(services) = ServicesOf(db)
    /\ \A i, j \in 1 .. Len(services) : i < j => services[i].other < services[j].handle
    /\ tree = CharsOf(db)
    /\ descs = DescsOf(db)

\* Every request asks for a range of handles that is not empty and that two
\* bytes hold (to_bytes(2) would raise), also after a lie.
RangeIsProper == Running => start <= limit

\* However the server answers, a loop's next request starts above the last
\* one, so the loop ends.
SameLoop == <<phase, si, ci>>' = <<phase, si, ci>>
MovesForward == [][SameLoop => start' > start]_vars

-----------------------------------------------------------------------------
(* Why discovery is complete: the inductive invariant of DiscoveryProofs,  *)
(* of what the loops have found in the attribute table a.                  *)

Increasing(got) == \A i, j \in 1 .. Len(got) : i < j => got[i].handle < got[j].handle

\* The services below a handle,
FoundServices(a, got, below) ==
  /\ HandlesOf(got) = {h \in ServicesOf(a) : h < below}
  /\ \A i \in 1 .. Len(got) : got[i].other \in GroupEnds(a, got[i].handle) /\ got[i].other < below
  /\ \A i, j \in 1 .. Len(got) : i < j => got[i].other < got[j].handle

\* the declarations from a service up to there,
FoundChars(a, got, from, below) ==
  /\ HandlesOf(got) = {h \in from .. below - 1 : a[h] = "char"}
  /\ Increasing(got)
  /\ \A i \in 1 .. Len(got) : got[i].other = got[i].handle + 1

\* the descriptors behind a value.
FoundDescs(a, got, value, below) ==
  HandlesOf(got) = {h \in value + 1 .. below - 1 : a[h] = "desc"}

\* The characteristics of a service, and where each ends.
AllChars(a, chs, svc) ==
  /\ HandlesOf(chs) = {h \in Handles : a[h] = "char" /\ InGroup(a, svc.handle, h)}
  /\ Increasing(chs)
  /\ \A i \in 1 .. Len(chs) :
       /\ chs[i].value = chs[i].handle + 1
       /\ chs[i].end = IF i < Len(chs) THEN chs[i + 1].handle - 1 ELSE svc.other

\* The characteristics of the first k services, and the descriptors of theirs
\* and of the next service's first n characteristics.
TreeUpTo(a, svcs, k) == {t \in CharsOf(a) : \E i \in 1 .. k : t.service = svcs[i].handle}
DescsUpTo(a, svcs, k, chs, n) ==
  {d \in DescsOf(a) : \/ \E i \in 1 .. k : InGroup(a, svcs[i].handle, d.char)
                      \/ \E i \in 1 .. n : d.char = chs[i].handle}

TruthInv ==
  lies = 0 =>
    /\ phase = "services" =>
         /\ limit = MaxHandle /\ FoundServices(db, results, start)
         /\ tree = {} /\ descs = {}
    /\ phase \in {"chars", "descs", "done"} => FoundServices(db, services, MaxHandle + 1)
    /\ phase = "chars" =>
         /\ limit = services[si].other /\ start >= services[si].handle
         /\ FoundChars(db, results, services[si].handle, start)
         /\ tree = TreeUpTo(db, services, si - 1)
         /\ descs = DescsUpTo(db, services, si - 1, chars, 0)
    /\ phase = "descs" =>
         /\ AllChars(db, chars, services[si])
         /\ limit = chars[ci].end /\ start > chars[ci].value
         /\ FoundDescs(db, results, chars[ci].value, start)
         /\ tree = TreeUpTo(db, services, si)
         /\ descs = DescsUpTo(db, services, si - 1, chars, ci - 1)
    /\ phase = "done" => tree = CharsOf(db) /\ descs = DescsOf(db)

IInv == TypeOK /\ RangeIsProper /\ TruthInv
====
