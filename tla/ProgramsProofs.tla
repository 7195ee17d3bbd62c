---- MODULE ProgramsProofs ----
(***************************************************************************)
(* The programs' safety properties for all jobs and any number of faults,  *)
(* in three parts, one for each part of IInv of Programs:                  *)
(*                                                                         *)
(*   StepsInv    what is ahead is made of a fixed set of steps, marks have *)
(*               an end behind them, and a CancelledError lands only where *)
(*               a cleanup follows                                         *)
(*   RunnerInv   the rows of the results, there and ahead                  *)
(*   OutcomeInv  where pair and establish_connection are, and what is held *)
(*               there                                                     *)
(*                                                                         *)
(* The first begins with sequences, with the steps and with the programs   *)
(* that are built of them; each ends with its actions and its theorems.    *)
(***************************************************************************)
EXTENDS Programs, SequenceTheorems, TLAPS

-----------------------------------------------------------------------------
(* Sequences.                                                              *)

\* Positions in s \o t.
LEMMA Joined ==
  ASSUME NEW S, NEW s \in Seq(S), NEW t \in Seq(S)
  PROVE  /\ s \o t \in Seq(S)
         /\ Len(s) \in Nat /\ Len(t) \in Nat /\ Len(s \o t) = Len(s) + Len(t)
         /\ \A i \in 1 .. Len(s) : (s \o t)[i] = s[i]
         /\ \A i \in 1 .. Len(t) : (s \o t)[Len(s) + i] = t[i]
  BY ConcatProperties, LenProperties

\* The sequence t without its first n elements.
Without(u, t, n) ==
  /\ Len(u) = Len(t) - n
  /\ \A i \in 1 .. Len(u) : u[i] = t[n + i]

\* What SubSeq leaves beyond position n.
LEMMA Beyond ==
  ASSUME NEW S, NEW t \in Seq(S), NEW n \in 1 .. Len(t)
  PROVE  LET u == SubSeq(t, n + 1, Len(t))
         IN u \in Seq(S) /\ Without(u, t, n)
<1> DEFINE u == SubSeq(t, n + 1, Len(t))
<1>1. Len(t) \in Nat
  BY LenProperties
<1>2. \A i \in n + 1 .. Len(t) : t[i] \in S
  <2>1. ASSUME NEW i \in n + 1 .. Len(t)
        PROVE  t[i] \in S
    <3>1. i \in 1 .. Len(t)
      BY <1>1
    <3> QED BY <3>1, ElementOfSeq
  <2> QED BY <2>1
<1>3. n + 1 \in Int /\ Len(t) \in Int
  BY <1>1
<1>4. /\ u \in Seq(S)
      /\ Len(u) = IF n + 1 <= Len(t) THEN Len(t) - (n + 1) + 1 ELSE 0
      /\ \A i \in 1 .. Len(t) - (n + 1) + 1 : u[i] = t[(n + 1) + i - 1]
  BY <1>2, <1>3, SubSeqProperties
<1> HIDE DEF u
<1>5. Len(u) = Len(t) - n
  BY <1>1, <1>4
<1>6. ASSUME NEW i \in 1 .. Len(u)
      PROVE  u[i] = t[n + i]
  <2>1. i \in 1 .. Len(t) - (n + 1) + 1 /\ (n + 1) + i - 1 = n + i
    BY <1>1, <1>5
  <2> QED BY <1>4, <2>1
<1> QED BY <1>4, <1>5, <1>6 DEF Without, u

\* The first element and the others.
LEMMA HeadAndTail ==
  ASSUME NEW S, NEW t \in Seq(S), t # <<>>
  PROVE  /\ Len(t) \in Nat /\ Len(t) >= 1
         /\ Head(t) = t[1] /\ Head(t) \in S
         /\ Tail(t) \in Seq(S) /\ Without(Tail(t), t, 1)
<1>1. Len(t) \in Nat /\ Len(t) >= 1
  BY EmptySeq, LenProperties
<1>2. Head(t) \in S /\ Tail(t) \in Seq(S) /\ Len(Tail(t)) = Len(t) - 1
  BY HeadTailProperties
<1>3. Tail(t) = SubSeq(t, 2, Len(t))
  BY TailIsSubSeq
<1>4. 1 \in 1 .. Len(t) /\ 1 + 1 = 2
  BY <1>1
<1>5. SubSeq(t, 1 + 1, Len(t)) \in Seq(S) /\ Without(SubSeq(t, 1 + 1, Len(t)), t, 1)
  BY <1>4, Beyond
<1>6. Head(t) = t[1]
  OBVIOUS
<1> QED BY <1>1, <1>2, <1>3, <1>4, <1>5, <1>6

\* What is beyond a position of s \o t.
LEMMA BeyondJoined ==
  ASSUME NEW S, NEW s \in Seq(S), NEW t \in Seq(S)
  PROVE  /\ \A i \in 1 .. Len(s) : SubSeq(s \o t, i + 1, Len(s \o t)) = SubSeq(s, i + 1, Len(s)) \o t
         /\ \A i \in 1 .. Len(t) :
              SubSeq(s \o t, Len(s) + i + 1, Len(s \o t)) = SubSeq(t, i + 1, Len(t))
<1> DEFINE u == s \o t
<1>1. /\ u \in Seq(S)
      /\ Len(s) \in Nat /\ Len(t) \in Nat /\ Len(u) = Len(s) + Len(t)
      /\ \A i \in 1 .. Len(s) : u[i] = s[i]
      /\ \A i \in 1 .. Len(t) : u[Len(s) + i] = t[i]
  BY Joined
<1> HIDE DEF u
<1>2. ASSUME NEW i \in 1 .. Len(s)
      PROVE  SubSeq(u, i + 1, Len(u)) = SubSeq(s, i + 1, Len(s)) \o t
  <2> DEFINE a == SubSeq(u, i + 1, Len(u))
             b == SubSeq(s, i + 1, Len(s))
  <2>1. i \in 1 .. Len(u)
    BY <1>1
  <2>2. a \in Seq(S) /\ Without(a, u, i)
    BY <1>1, <2>1, Beyond
  <2>3. b \in Seq(S) /\ Without(b, s, i)
    BY Beyond
  <2> HIDE DEF a, b
  <2>4. /\ b \o t \in Seq(S)
        /\ Len(b) \in Nat /\ Len(b \o t) = Len(b) + Len(t)
        /\ \A k \in 1 .. Len(b) : (b \o t)[k] = b[k]
        /\ \A k \in 1 .. Len(t) : (b \o t)[Len(b) + k] = t[k]
    BY <2>3, Joined
  <2>5. Len(a) = Len(b \o t)
    BY <1>1, <2>2, <2>3, <2>4 DEF Without
  <2>6. ASSUME NEW k \in 1 .. Len(a)
        PROVE  a[k] = (b \o t)[k]
    <3>1. CASE k \in 1 .. Len(b)
      <4>1. i + k \in 1 .. Len(s)
        BY <1>1, <2>3, <3>1 DEF Without
      <4> QED BY <1>1, <2>2, <2>3, <2>4, <3>1, <4>1 DEF Without
    <3>2. CASE k \notin 1 .. Len(b)
      <4>1. k - Len(b) \in 1 .. Len(t) /\ Len(b) + (k - Len(b)) = k /\ i + k = Len(s) + (k - Len(b))
        BY <1>1, <2>3, <2>4, <2>5, <3>2 DEF Without
      <4>2. (b \o t)[k] = t[k - Len(b)] /\ u[i + k] = t[k - Len(b)]
        BY <1>1, <2>4, <4>1
      <4> QED BY <2>2, <4>2 DEF Without
    <3> QED BY <3>1, <3>2
  <2>7. a = b \o t
    BY <2>2, <2>4, <2>5, <2>6, SeqEqual
  <2> QED BY <2>7 DEF a, b
<1>3. ASSUME NEW i \in 1 .. Len(t)
      PROVE  SubSeq(u, Len(s) + i + 1, Len(u)) = SubSeq(t, i + 1, Len(t))
  <2> DEFINE n == Len(s) + i
             a == SubSeq(u, n + 1, Len(u))
             b == SubSeq(t, i + 1, Len(t))
  <2>1. n \in 1 .. Len(u)
    BY <1>1
  <2>2. a \in Seq(S) /\ Without(a, u, n)
    BY <1>1, <2>1, Beyond
  <2>3. b \in Seq(S) /\ Without(b, t, i)
    BY Beyond
  <2> HIDE DEF a, b
  <2>4. Len(a) = Len(b)
    BY <1>1, <2>2, <2>3 DEF Without
  <2>5. ASSUME NEW k \in 1 .. Len(a)
        PROVE  a[k] = b[k]
    <3>1. i + k \in 1 .. Len(t) /\ n + k = Len(s) + (i + k)
      BY <1>1, <2>3, <2>4 DEF Without
    <3>2. u[n + k] = t[i + k]
      BY <1>1, <3>1
    <3> QED BY <2>2, <2>3, <2>4, <3>2 DEF Without
  <2>6. a = b
    BY <2>2, <2>3, <2>4, <2>5, SeqEqual
  <2> QED BY <2>6 DEF a, b
<1> QED BY <1>2, <1>3 DEF u

\* The head and the tail of s \o t.
LEMMA HeadAndTailJoined ==
  ASSUME NEW S, NEW s \in Seq(S), NEW t \in Seq(S), s # <<>>
  PROVE  /\ s \o t # <<>> /\ Head(s \o t) = s[1] /\ s[1] \in S
         /\ Tail(s \o t) = Tail(s) \o t /\ Tail(s) \in Seq(S)
<1>1. /\ s \o t \in Seq(S)
      /\ Len(s) \in Nat /\ Len(t) \in Nat /\ Len(s \o t) = Len(s) + Len(t)
      /\ \A i \in 1 .. Len(s) : (s \o t)[i] = s[i]
  BY Joined
<1>2. /\ Len(s) >= 1 /\ Head(s) = s[1] /\ Head(s) \in S
      /\ Tail(s) \in Seq(S)
  BY HeadAndTail
<1>3. s \o t # <<>>
  BY <1>1, <1>2, EmptySeq
<1>4. Head(s \o t) = (s \o t)[1]
  BY <1>1, <1>3, HeadAndTail
<1>5. 1 \in 1 .. Len(s)
  BY <1>1, <1>2
<1>6. Tail(s \o t) = SubSeq(s \o t, 1 + 1, Len(s \o t)) /\ Tail(s) = SubSeq(s, 1 + 1, Len(s))
  BY <1>1, <1>3, TailIsSubSeq
<1> QED BY <1>1, <1>2, <1>3, <1>4, <1>5, <1>6, BeyondJoined

\* What holds up to the next end holds of what is left of the sequence.
LEMMA OnlyOfSuffix ==
  ASSUME NEW S, NEW u, NEW t, NEW n \in Nat, NEW i \in Nat,
         Len(t) \in Nat, Without(u, t, n), OnlyUpToEnd(S, t, n + i)
  PROVE  OnlyUpToEnd(S, u, i)
<1>1. SUFFICES ASSUME NEW k \in i + 1 .. Len(u), \A m \in i + 1 .. k : u[m].kind # "end"
               PROVE  u[k] \in S
  BY DEF OnlyUpToEnd
<1>2. Len(u) = Len(t) - n /\ \A j \in 1 .. Len(u) : u[j] = t[n + j]
  BY DEF Without
<1>3. n + k \in (n + i) + 1 .. Len(t)
  BY <1>2
<1>4. ASSUME NEW m \in (n + i) + 1 .. n + k
      PROVE  t[m].kind # "end"
  <2>1. m - n \in i + 1 .. k /\ m - n \in 1 .. Len(u) /\ n + (m - n) = m
    BY <1>2
  <2>2. u[m - n] = t[m]
    BY <1>2, <2>1
  <2> QED BY <1>1, <2>1, <2>2
<1>5. t[n + k] \in S
  BY <1>3, <1>4 DEF OnlyUpToEnd
<1>6. k \in 1 .. Len(u)
  BY <1>2
<1> QED BY <1>2, <1>5, <1>6

\* ... and what holds of what is left held of the whole.
LEMMA OnlyOfWhole ==
  ASSUME NEW S, NEW u, NEW t, NEW n \in Nat, NEW i \in Nat,
         Len(t) \in Nat, Without(u, t, n), OnlyUpToEnd(S, u, i)
  PROVE  OnlyUpToEnd(S, t, n + i)
<1>1. SUFFICES ASSUME NEW k \in (n + i) + 1 .. Len(t),
                      \A m \in (n + i) + 1 .. k : t[m].kind # "end"
               PROVE  t[k] \in S
  BY DEF OnlyUpToEnd
<1>2. Len(u) = Len(t) - n /\ \A j \in 1 .. Len(u) : u[j] = t[n + j]
  BY DEF Without
<1>3. k - n \in i + 1 .. Len(u) /\ k - n \in 1 .. Len(u) /\ n + (k - n) = k
  BY <1>2
<1>4. ASSUME NEW m \in i + 1 .. k - n
      PROVE  u[m].kind # "end"
  <2>1. n + m \in (n + i) + 1 .. k /\ m \in 1 .. Len(u)
    BY <1>2
  <2>2. u[m] = t[n + m]
    BY <1>2, <2>1
  <2> QED BY <1>1, <2>1, <2>2
<1>5. u[k - n] \in S
  BY <1>3, <1>4 DEF OnlyUpToEnd
<1> QED BY <1>2, <1>3, <1>5

\* A sound sequence stays sound when its first steps are gone.
LEMMA SoundSuffix ==
  ASSUME NEW t, NEW u \in Seq(Ahead), NEW n \in Nat, Sound(t), Without(u, t, n)
  PROVE  Sound(u)
<1>1. Len(t) \in Nat /\ Len(u) \in Nat
  BY LenProperties DEF Sound
<1>2. Len(u) = Len(t) - n /\ \A j \in 1 .. Len(u) : u[j] = t[n + j]
  BY DEF Without
<1>3. Tidy(Cleanup, u)
  <2>1. ASSUME NEW i \in 1 .. Len(u), u[i].kind \in {"finally", "undo"}
        PROVE  OnlyUpToEnd(Cleanup, u, i)
    <3>1. n + i \in 1 .. Len(t) /\ t[n + i].kind \in {"finally", "undo"}
      BY <1>1, <1>2, <2>1
    <3>2. OnlyUpToEnd(Cleanup, t, n + i)
      BY <3>1 DEF Sound, Tidy
    <3> QED BY <1>1, <3>2, OnlyOfSuffix
  <2> QED BY <2>1 DEF Tidy
<1>4. Closed(u)
  <2>1. ASSUME NEW i \in 1 .. Len(u), u[i] \in Marks \/ (u[i] \in Ends /\ u[i].saved # "no")
        PROVE  EndBehind(u, i)
    <3>1. n + i \in 1 .. Len(t) /\ t[n + i] = u[i]
      BY <1>1, <1>2
    <3>2. EndBehind(t, n + i)
      BY <2>1, <3>1 DEF Sound, Closed
    <3>3. PICK k \in n + i + 1 .. Len(t) : t[k].kind = "end"
      BY <3>2 DEF EndBehind
    <3>4. k - n \in i + 1 .. Len(u) /\ k - n \in 1 .. Len(u) /\ n + (k - n) = k
      BY <1>1, <1>2
    <3>5. u[k - n] = t[k]
      BY <1>2, <3>4
    <3> QED BY <3>3, <3>4, <3>5 DEF EndBehind
  <2> QED BY <2>1 DEF Closed
<1> QED BY <1>3, <1>4 DEF Sound

\* Steps that neither mark a place nor end a block.
Flat(S) == \A s \in S : s.kind \notin {"finally", "undo", "except", "end"}

\* Such steps may be put before a sound sequence.
LEMMA SoundPrefix ==
  ASSUME NEW S, S \subseteq Ahead, Flat(S), NEW p \in Seq(S), NEW t, Sound(t)
  PROVE  Sound(p \o t)
<1> DEFINE u == p \o t
<1>1. t \in Seq(Ahead) /\ p \in Seq(Ahead)
  BY SeqMonotonic DEF Sound
<1>2. /\ u \in Seq(Ahead)
      /\ Len(p) \in Nat /\ Len(t) \in Nat /\ Len(u) = Len(p) + Len(t)
      /\ \A i \in 1 .. Len(p) : u[i] = p[i]
      /\ \A i \in 1 .. Len(t) : u[Len(p) + i] = t[i]
  BY <1>1, Joined
<1> HIDE DEF u
<1>3. Without(t, u, Len(p))
  BY <1>2 DEF Without
<1>4. ASSUME NEW i \in 1 .. Len(p)
      PROVE  u[i] \notin Marks /\ u[i] \notin Ends /\ u[i].kind \notin {"finally", "undo"}
  <2>1. u[i] = p[i] /\ p[i] \in S
    BY <1>2, ElementOfSeq
  <2> QED BY <2>1 DEF Flat, Marks, Ends
<1>5. ASSUME NEW i \in 1 .. Len(u), i \notin 1 .. Len(p)
      PROVE  i - Len(p) \in 1 .. Len(t) /\ u[i] = t[i - Len(p)] /\ Len(p) + (i - Len(p)) = i
  <2>1. i - Len(p) \in 1 .. Len(t) /\ Len(p) + (i - Len(p)) = i
    BY <1>2, <1>5
  <2> QED BY <1>2, <2>1
<1>6. Tidy(Cleanup, u)
  <2>1. ASSUME NEW i \in 1 .. Len(u), u[i].kind \in {"finally", "undo"}
        PROVE  OnlyUpToEnd(Cleanup, u, i)
    <3>1. i \notin 1 .. Len(p)
      BY <1>4, <2>1
    <3>2. i - Len(p) \in 1 .. Len(t) /\ u[i] = t[i - Len(p)] /\ Len(p) + (i - Len(p)) = i
      BY <1>5, <3>1
    <3>3. OnlyUpToEnd(Cleanup, t, i - Len(p))
      BY <2>1, <3>2 DEF Sound, Tidy
    <3>4. i - Len(p) \in Nat /\ Len(u) \in Nat
      BY <1>2, <3>2
    <3>5. OnlyUpToEnd(Cleanup, u, Len(p) + (i - Len(p)))
      BY <1>2, <1>3, <3>3, <3>4, OnlyOfWhole
    <3> QED BY <3>2, <3>5
  <2> QED BY <2>1 DEF Tidy
<1>7. Closed(u)
  <2>1. ASSUME NEW i \in 1 .. Len(u), u[i] \in Marks \/ (u[i] \in Ends /\ u[i].saved # "no")
        PROVE  EndBehind(u, i)
    <3>1. i \notin 1 .. Len(p)
      BY <1>4, <2>1
    <3>2. i - Len(p) \in 1 .. Len(t) /\ u[i] = t[i - Len(p)] /\ Len(p) + (i - Len(p)) = i
      BY <1>5, <3>1
    <3>3. EndBehind(t, i - Len(p))
      BY <2>1, <3>2 DEF Sound, Closed
    <3>4. PICK k \in (i - Len(p)) + 1 .. Len(t) : t[k].kind = "end"
      BY <3>3 DEF EndBehind
    <3>5. k \in 1 .. Len(t) /\ Len(p) + k \in i + 1 .. Len(u)
      BY <1>2, <3>2
    <3> QED BY <1>2, <3>4, <3>5 DEF EndBehind
  <2> QED BY <2>1 DEF Closed
<1> QED BY <1>2, <1>6, <1>7 DEF Sound, u

\* An end that raises again what was raised outside may be put before a sound
\* sequence that has a place for that.
LEMMA SoundEnd ==
  ASSUME NEW x \in Kinds, NEW t, Sound(t), x # "no" => EndBehind(t, 0)
  PROVE  /\ Sound(<<End(x)>> \o t)
         /\ Len(<<End(x)>> \o t) = 1 + Len(t) /\ (<<End(x)>> \o t)[1] = End(x)
         /\ Without(t, <<End(x)>> \o t, 1)
<1> DEFINE p == <<End(x)>>
           u == p \o t
<1>1. End(x) \in Ends /\ End(x).kind = "end" /\ End(x).saved = x
  BY DEF End, Ends
<1>2. End(x) \in Ahead
  BY <1>1 DEF Ahead
<1>3. p \in Seq(Ahead) /\ Len(p) = 1 /\ p[1] = End(x)
  BY <1>2
<1>4. t \in Seq(Ahead)
  BY DEF Sound
<1> HIDE DEF p
<1>5. /\ u \in Seq(Ahead)
      /\ Len(p) \in Nat /\ Len(t) \in Nat /\ Len(u) = Len(p) + Len(t)
      /\ \A i \in 1 .. Len(p) : u[i] = p[i]
      /\ \A i \in 1 .. Len(t) : u[Len(p) + i] = t[i]
  BY <1>3, <1>4, Joined
<1> HIDE DEF u
<1>6. Len(u) = 1 + Len(t) /\ u[1] = End(x) /\ \A i \in 1 .. Len(t) : u[1 + i] = t[i]
  BY <1>3, <1>5
<1>7. Without(t, u, 1)
  BY <1>5, <1>6 DEF Without
<1>8. ASSUME NEW i \in 1 .. Len(u), i # 1
      PROVE  i - 1 \in 1 .. Len(t) /\ u[i] = t[i - 1] /\ 1 + (i - 1) = i
  <2>1. i - 1 \in 1 .. Len(t) /\ 1 + (i - 1) = i
    BY <1>5, <1>6, <1>8
  <2> QED BY <1>6, <2>1
<1>9. Tidy(Cleanup, u)
  <2>1. ASSUME NEW i \in 1 .. Len(u), u[i].kind \in {"finally", "undo"}
        PROVE  OnlyUpToEnd(Cleanup, u, i)
    <3>1. i # 1
      BY <1>1, <1>6, <2>1
    <3>2. i - 1 \in 1 .. Len(t) /\ u[i] = t[i - 1] /\ 1 + (i - 1) = i
      BY <1>8, <3>1
    <3>3. OnlyUpToEnd(Cleanup, t, i - 1)
      BY <2>1, <3>2 DEF Sound, Tidy
    <3>4. i - 1 \in Nat /\ Len(u) \in Nat
      BY <1>5, <1>6, <3>2
    <3>5. OnlyUpToEnd(Cleanup, u, 1 + (i - 1))
      BY <1>7, <3>3, <3>4, OnlyOfWhole
    <3> QED BY <3>2, <3>5
  <2> QED BY <2>1 DEF Tidy
<1>10. Closed(u)
  <2>1. ASSUME NEW i \in 1 .. Len(u), u[i] \in Marks \/ (u[i] \in Ends /\ u[i].saved # "no")
        PROVE  EndBehind(u, i)
    <3>1. CASE i = 1
      <4>1. End(x) \notin Marks
        BY <1>1 DEF Marks
      <4>2. x # "no"
        BY <1>1, <1>6, <2>1, <3>1, <4>1
      <4>3. PICK k \in 0 + 1 .. Len(t) : t[k].kind = "end"
        BY <4>2 DEF EndBehind
      <4>4. k \in 1 .. Len(t) /\ 1 + k \in i + 1 .. Len(u)
        BY <1>5, <1>6, <3>1
      <4> QED BY <1>6, <4>3, <4>4 DEF EndBehind
    <3>2. CASE i # 1
      <4>1. i - 1 \in 1 .. Len(t) /\ u[i] = t[i - 1] /\ 1 + (i - 1) = i
        BY <1>8, <3>2
      <4>2. EndBehind(t, i - 1)
        BY <2>1, <4>1 DEF Sound, Closed
      <4>3. PICK k \in (i - 1) + 1 .. Len(t) : t[k].kind = "end"
        BY <4>2 DEF EndBehind
      <4>4. k \in 1 .. Len(t) /\ 1 + k \in i + 1 .. Len(u)
        BY <1>5, <1>6, <4>1
      <4> QED BY <1>6, <4>3, <4>4 DEF EndBehind
    <3> QED BY <3>1, <3>2
  <2> QED BY <2>1 DEF Closed
<1>11. Sound(u)
  BY <1>5, <1>9, <1>10 DEF Sound
<1> QED BY <1>6, <1>7, <1>11 DEF u, p

\* The steps of a block may be put before an end.
LEMMA SoundBody ==
  ASSUME NEW S, S \subseteq Ahead, NEW b \in Bodies(S), NEW t, Sound(t),
         Len(t) >= 1, t[1].kind = "end"
  PROVE  Sound(b \o t)
<1> DEFINE u == b \o t
<1>1. b \in Seq(S \cup Marks) /\ Tidy(Cleanup, b)
  BY DEF Bodies
<1>2. t \in Seq(Ahead) /\ b \in Seq(Ahead)
  <2>1. S \cup Marks \subseteq Ahead
    BY DEF Ahead
  <2>2. b \in Seq(Ahead)
    BY <1>1, <2>1, SeqMonotonic
  <2> QED BY <2>2 DEF Sound
<1>3. /\ u \in Seq(Ahead)
      /\ Len(b) \in Nat /\ Len(t) \in Nat /\ Len(u) = Len(b) + Len(t)
      /\ \A i \in 1 .. Len(b) : u[i] = b[i]
      /\ \A i \in 1 .. Len(t) : u[Len(b) + i] = t[i]
  BY <1>2, Joined
<1> HIDE DEF u
<1>4. Without(t, u, Len(b))
  BY <1>3 DEF Without
<1>5. ASSUME NEW i \in 1 .. Len(u), i \notin 1 .. Len(b)
      PROVE  i - Len(b) \in 1 .. Len(t) /\ u[i] = t[i - Len(b)] /\ Len(b) + (i - Len(b)) = i
  <2>1. i - Len(b) \in 1 .. Len(t) /\ Len(b) + (i - Len(b)) = i
    BY <1>3, <1>5
  <2> QED BY <1>3, <2>1
<1>6. Len(b) + 1 \in 1 .. Len(u) /\ u[Len(b) + 1].kind = "end"
  BY <1>3
<1>7. Tidy(Cleanup, u)
  <2>1. ASSUME NEW i \in 1 .. Len(u), u[i].kind \in {"finally", "undo"}
        PROVE  OnlyUpToEnd(Cleanup, u, i)
    <3>1. CASE i \in 1 .. Len(b)
      <4>1. OnlyUpToEnd(Cleanup, b, i)
        BY <1>1, <1>3, <2>1, <3>1 DEF Tidy
      <4>2. ASSUME NEW k \in i + 1 .. Len(u), \A m \in i + 1 .. k : u[m].kind # "end"
            PROVE  u[k] \in Cleanup
        <5>1. k <= Len(b)
          BY <1>3, <1>6, <3>1, <4>2
        <5>2. k \in i + 1 .. Len(b) /\ k \in 1 .. Len(b) /\ \A m \in i + 1 .. k : m \in 1 .. Len(b)
          BY <1>3, <3>1, <5>1
        <5>3. \A m \in i + 1 .. k : b[m].kind # "end"
          BY <1>3, <4>2, <5>2
        <5> QED BY <1>3, <4>1, <5>2, <5>3 DEF OnlyUpToEnd
      <4> QED BY <4>2 DEF OnlyUpToEnd
    <3>2. CASE i \notin 1 .. Len(b)
      <4>1. i - Len(b) \in 1 .. Len(t) /\ u[i] = t[i - Len(b)] /\ Len(b) + (i - Len(b)) = i
        BY <1>5, <3>2
      <4>2. OnlyUpToEnd(Cleanup, t, i - Len(b))
        BY <2>1, <4>1 DEF Sound, Tidy
      <4>3. i - Len(b) \in Nat /\ Len(u) \in Nat
        BY <1>3, <4>1
      <4>4. OnlyUpToEnd(Cleanup, u, Len(b) + (i - Len(b)))
        BY <1>3, <1>4, <4>2, <4>3, OnlyOfWhole
      <4> QED BY <4>1, <4>4
    <3> QED BY <3>1, <3>2
  <2> QED BY <2>1 DEF Tidy
<1>8. Closed(u)
  <2>1. ASSUME NEW i \in 1 .. Len(u), u[i] \in Marks \/ (u[i] \in Ends /\ u[i].saved # "no")
        PROVE  EndBehind(u, i)
    <3>1. CASE i \in 1 .. Len(b)
      <4>1. Len(b) + 1 \in i + 1 .. Len(u)
        BY <1>3, <1>6, <3>1
      <4> QED BY <1>6, <4>1 DEF EndBehind
    <3>2. CASE i \notin 1 .. Len(b)
      <4>1. i - Len(b) \in 1 .. Len(t) /\ u[i] = t[i - Len(b)] /\ Len(b) + (i - Len(b)) = i
        BY <1>5, <3>2
      <4>2. EndBehind(t, i - Len(b))
        BY <2>1, <4>1 DEF Sound, Closed
      <4>3. PICK k \in (i - Len(b)) + 1 .. Len(t) : t[k].kind = "end"
        BY <4>2 DEF EndBehind
      <4>4. k \in 1 .. Len(t) /\ Len(b) + k \in i + 1 .. Len(u)
        BY <1>3, <4>1
      <4> QED BY <1>3, <4>3, <4>4 DEF EndBehind
    <3> QED BY <3>1, <3>2
  <2> QED BY <2>1 DEF Closed
<1> QED BY <1>3, <1>7, <1>8 DEF Sound, u

-----------------------------------------------------------------------------
(* The steps, by how they are written.                                     *)

\* The sets of steps, one in the other; none but Marks and Ends has marks or
\* ends in it.
LEMMA Levels ==
  /\ CleanCalls \subseteq Calls /\ CleanCalls \subseteq Cleanup /\ Closing \subseteq Cleanup \cup Marks
  /\ Calls \subseteq Level0 /\ Cleanup \subseteq Level0
  /\ Level0 \subseteq Level1 /\ Level1 \subseteq Level2
  /\ Level2 \subseteq Level3 /\ Level3 \subseteq Level4
  /\ Level4 \subseteq Returning /\ Returning \subseteq Level5 /\ Level4 \subseteq Level5
  /\ Returning \subseteq Nest(Returning)
  /\ RowSteps \subseteq Level5 /\ Level5 \subseteq Planned /\ Planned \subseteq Ahead
<1>1. <<>> \in Seq(Cleanup)
  BY EmptySeq
<1>2. Mark("finally", <<>>) \in Marks
  BY <1>1 DEF Mark, Marks
<1>3. Closing \subseteq Cleanup \cup Marks
  BY <1>2 DEF Closing, Cleanup
<1>4. CleanCalls \subseteq Calls /\ CleanCalls \subseteq Cleanup
  BY DEF CleanCalls, Cleanup
<1>5. Calls \subseteq Level0 /\ Cleanup \subseteq Level0
  BY DEF Level0
<1>6. /\ Level0 \subseteq Level1 /\ Level1 \subseteq Level2
      /\ Level2 \subseteq Level3 /\ Level3 \subseteq Level4
  BY DEF Level1, Level2, Level3, Level4, Nest
<1>7. /\ Level4 \subseteq Returning /\ Returning \subseteq Level5 /\ Level4 \subseteq Level5
      /\ Returning \subseteq Nest(Returning)
      /\ RowSteps \subseteq Level5 /\ Level5 \subseteq Planned
  BY DEF Returning, Level5, Planned, Nest
<1>8. Planned \subseteq Ahead
  BY DEF Ahead
<1> QED BY <1>3, <1>4, <1>5, <1>6, <1>7, <1>8

\* A nest of flat steps is flat.
LEMMA FlatNest ==
  ASSUME NEW S, Flat(S)
  PROVE  Flat(Nest(S))
  BY DEF Flat, Nest

\* ... so that all the levels are.
LEMMA FlatLevels ==
  /\ Flat(Cleanup) /\ Flat(Level0) /\ Flat(Level1) /\ Flat(Level2) /\ Flat(Level3) /\ Flat(Level4)
  /\ Flat(RowSteps) /\ Flat(Returning) /\ Flat(Level5) /\ Flat(Planned)
<1>1. Flat(Calls)
  BY DEF Flat, Calls
<1>2. Flat(Cleanup)
  BY <1>1 DEF Flat, Cleanup, CleanCalls, Ask
<1>3. Flat(Level0)
  BY <1>1, <1>2 DEF Flat, Level0, Ask, Raise
<1>4. Flat(RowSteps)
  BY DEF Flat, RowSteps
<1>5. Flat(Level1) /\ Flat(Level2) /\ Flat(Level3) /\ Flat(Level4)
  BY <1>3, FlatNest DEF Level1, Level2, Level3, Level4
<1>6. Flat(Returning) /\ Flat(Level5)
  BY <1>4, <1>5 DEF Flat, Returning, Level5, Raise
<1>7. Flat(Planned)
  BY <1>6, FlatNest DEF Planned
<1> QED BY <1>2, <1>3, <1>4, <1>5, <1>6, <1>7

\* The calls of one name.
Named(n) == {c \in Calls : c.call = n}

\* What is written as a call is one, of the name it is given.
LEMMA CallsBuilt ==
  ASSUME NEW n \in CallNames
  PROVE  /\ Sync(n) \in Named(n) /\ Opening(n) \in Named(n)
         /\ Wait(n) \in Named(n) /\ Await(n) \in Named(n)
         /\ \A c \in Named(n) : c \in Calls /\ Soft(c) \in Named(n) /\ Late(c) \in Named(n) /\ Once(c) \in Named(n)
         /\ \A c \in Named(n), r \in SUBSET Resources :
              /\ Getting(r, c) \in Named(n) /\ Freeing(r, c) \in Named(n)
              /\ Needing(r, c) \in Named(n) /\ BarredBy(r, c) \in Named(n)
<1>1. ASSUME NEW k \in SUBSET {"error", "cancel"}
      PROVE  Call(n, k) \in Named(n)
  BY DEF Call, Named, Calls
<1>2. Sync(n) \in Named(n) /\ Opening(n) \in Named(n) /\ Wait(n) \in Named(n) /\ Await(n) \in Named(n)
  BY <1>1 DEF Sync, Opening, Wait, Await
<1>3. ASSUME NEW c \in Named(n)
      PROVE  c \in Calls /\ Soft(c) \in Named(n) /\ Late(c) \in Named(n) /\ Once(c) \in Named(n)
  BY DEF Named, Calls, Soft, Late, Once
<1>4. ASSUME NEW c \in Named(n), NEW r \in SUBSET Resources
      PROVE  Getting(r, c) \in Named(n) /\ Freeing(r, c) \in Named(n)
  BY DEF Named, Calls, Getting, Freeing
<1>5. ASSUME NEW c \in Named(n), NEW r \in SUBSET Resources
      PROVE  Needing(r, c) \in Named(n) /\ BarredBy(r, c) \in Named(n)
  BY DEF Named, Calls, Needing, BarredBy
<1> QED BY <1>2, <1>3, <1>4, <1>5

\* The calls that a cleanup may be made of.
LEMMA CleanBuilt ==
  ASSUME NEW n \in CallNames, n # "readline"
  PROVE  /\ Sync(n) \in CleanCalls /\ Wait(n) \in CleanCalls
         /\ \A c \in Named(n) : Soft(c) \in CleanCalls
         /\ n \in Smothering => Named(n) \subseteq CleanCalls
         /\ \A r \in SUBSET Resources :
              Freeing(r, Sync(n)) \in CleanCalls /\ Freeing(r, Wait(n)) \in CleanCalls
<1>1. Sync(n) \in CleanCalls /\ Wait(n) \in CleanCalls
  BY CallsBuilt DEF Named, CleanCalls, Sync, Wait, Call
<1>2. ASSUME NEW c \in Named(n)
      PROVE  Soft(c) \in CleanCalls
  <2>1. Soft(c).soft = TRUE
    BY DEF Soft, Named, Calls
  <2> QED BY <2>1, CallsBuilt DEF Named, CleanCalls
<1>3. n \in Smothering => Named(n) \subseteq CleanCalls
  BY DEF Named, CleanCalls
<1>4. ASSUME NEW c \in CleanCalls, NEW r \in SUBSET Resources
      PROVE  Freeing(r, c) \in CleanCalls
  <2>1. c \in Calls
    BY DEF CleanCalls
  <2>2. Freeing(r, c) \in Calls
    BY <2>1 DEF Calls, Freeing
  <2>3. /\ Freeing(r, c).call = c.call /\ Freeing(r, c).soft = c.soft /\ Freeing(r, c).can = c.can
        /\ Freeing(r, c).needs = c.needs /\ Freeing(r, c).bars = c.bars
    BY <2>1 DEF Calls, Freeing
  <2> QED BY <2>2, <2>3 DEF CleanCalls
<1> QED BY <1>1, <1>2, <1>3, <1>4

\* The steps of a block: what it is about, a mark, and what follows the mark.
LEMMA BodyBuilt ==
  ASSUME NEW S, NEW C, NEW M, Flat(S), C \subseteq S, NEW m \in M,
         NEW body \in Seq(S), NEW after \in Seq(C)
  PROVE  /\ body \o <<m>> \o after \in Seq(S \cup M)
         /\ Tidy(C, body \o <<m>> \o after)
<1> DEFINE U == S \cup M
           one == <<m>>
           b == (body \o one) \o after
<1>1. body \in Seq(U) /\ after \in Seq(U)
  <2>1. S \subseteq U /\ C \subseteq U
    OBVIOUS
  <2> QED BY <2>1, SeqMonotonic
<1>2. one \in Seq(U) /\ Len(one) = 1 /\ one[1] = m
  OBVIOUS
<1> HIDE DEF one, U, b
<1>3. /\ body \o one \in Seq(U)
      /\ Len(body) \in Nat /\ Len(body \o one) = Len(body) + 1
      /\ \A i \in 1 .. Len(body) : (body \o one)[i] = body[i]
  <2>1. body \in Seq(U) /\ one \in Seq(U)
    BY <1>1, <1>2
  <2>2. /\ body \o one \in Seq(U)
        /\ Len(body) \in Nat /\ Len(body \o one) = Len(body) + Len(one)
        /\ \A i \in 1 .. Len(body) : (body \o one)[i] = body[i]
    BY <2>1, Joined
  <2> QED BY <1>2, <2>2
<1>4. /\ b \in Seq(U)
      /\ Len(after) \in Nat /\ Len(b) = Len(body) + 1 + Len(after)
      /\ \A i \in 1 .. Len(body) + 1 : b[i] = (body \o one)[i]
      /\ \A i \in 1 .. Len(after) : b[Len(body) + 1 + i] = after[i]
  <2>1. body \o one \in Seq(U) /\ after \in Seq(U)
    BY <1>1, <1>3
  <2>2. /\ b \in Seq(U)
        /\ Len(after) \in Nat /\ Len(b) = Len(body \o one) + Len(after)
        /\ \A i \in 1 .. Len(body \o one) : b[i] = (body \o one)[i]
        /\ \A i \in 1 .. Len(after) : b[Len(body \o one) + i] = after[i]
    BY <2>1, Joined DEF b
  <2> QED BY <1>3, <2>2
<1>5. ASSUME NEW i \in 1 .. Len(b), b[i].kind \in {"finally", "undo"},
             NEW k \in i + 1 .. Len(b)
      PROVE  b[k] \in C
  <2>1. i \notin 1 .. Len(body)
    <3>1. ASSUME i \in 1 .. Len(body)
          PROVE  FALSE
      <4>1. i \in 1 .. Len(body) + 1
        BY <1>3, <3>1
      <4>2. b[i] = body[i]
        BY <1>3, <1>4, <3>1, <4>1
      <4>3. body[i] \in S
        BY <3>1, ElementOfSeq
      <4> QED BY <1>5, <4>2, <4>3 DEF Flat
    <3> QED BY <3>1
  <2>2. k - (Len(body) + 1) \in 1 .. Len(after) /\ Len(body) + 1 + (k - (Len(body) + 1)) = k
    BY <1>3, <1>4, <2>1
  <2>3. b[k] = after[k - (Len(body) + 1)]
    BY <1>4, <2>2
  <2> QED BY <2>2, <2>3, ElementOfSeq
<1>6. Tidy(C, b)
  BY <1>5 DEF Tidy, OnlyUpToEnd
<1> QED BY <1>4, <1>6 DEF b, U, one

\* The same with nothing behind the mark.
LEMMA BodyEndsWithMark ==
  ASSUME NEW S, NEW C, NEW M, Flat(S), C \subseteq S, NEW m \in M, NEW body \in Seq(S)
  PROVE  Append(body, m) \in Seq(S \cup M) /\ Tidy(C, Append(body, m))
<1>1. <<>> \in Seq(C)
  BY EmptySeq
<1>2. body \in Seq(S \cup M) /\ <<m>> \in Seq(S \cup M)
  <2>1. S \subseteq S \cup M
    OBVIOUS
  <2>2. body \in Seq(S \cup M)
    BY <2>1, SeqMonotonic
  <2> QED BY <2>2
<1>3. body \o <<m>> \in Seq(S \cup M)
  BY <1>2, ConcatProperties
<1>4. (body \o <<m>>) \o <<>> = body \o <<m>>
  BY <1>3, ConcatEmptySeq
<1>5. Append(body, m) = body \o <<m>>
  <2>1. m \in S \cup M
    OBVIOUS
  <2> QED BY <1>2, <2>1, AppendIsConcat
<1>6. (body \o <<m>>) \o <<>> \in Seq(S \cup M) /\ Tidy(C, (body \o <<m>>) \o <<>>)
  BY <1>1, BodyBuilt
<1> QED BY <1>4, <1>5, <1>6

\* try ... finally, of steps of S, is a step of the nest of S.
LEMMA FinallyBuilt ==
  ASSUME NEW S, Flat(S), Cleanup \subseteq S, NEW body \in Seq(S), NEW after \in Seq(Cleanup)
  PROVE  Finally(body, after) \in Nest(S)
<1>1. Mark("finally", <<>>) \in Marks
  BY EmptySeq DEF Mark, Marks
<1>2. body \o <<Mark("finally", <<>>)>> \o after \in Bodies(S)
  BY <1>1, BodyBuilt DEF Bodies
<1> QED BY <1>2 DEF Finally, Block, Nest

\* try ... except, likewise.
LEMMA ExceptBuilt ==
  ASSUME NEW S, Flat(S), Cleanup \subseteq S, NEW body \in Seq(S), NEW handler \in Seq(Cleanup)
  PROVE  Except(body, handler) \in Nest(S)
<1>1. Mark("except", handler) \in Marks
  BY DEF Mark, Marks
<1>2. Append(body, Mark("except", handler)) \in Bodies(S)
  BY <1>1, BodyEndsWithMark DEF Bodies
<1> QED BY <1>2 DEF Except, Block, Nest

\* try ... except BaseException, which raises again.
LEMMA UndoBuilt ==
  ASSUME NEW S, Flat(S), Cleanup \subseteq S, NEW body \in Seq(S), NEW handler \in Seq(Cleanup)
  PROVE  Undo(body, handler) \in Nest(S)
<1>1. Mark("undo", handler) \in Marks
  BY DEF Mark, Marks
<1>2. Append(body, Mark("undo", handler)) \in Bodies(S)
  BY <1>1, BodyEndsWithMark DEF Bodies
<1> QED BY <1>2 DEF Undo, Block, Nest

\* A nest of more steps has the nest of fewer.
LEMMA NestGrows ==
  ASSUME NEW S, NEW T, S \subseteq T
  PROVE  Bodies(S) \subseteq Bodies(T) /\ Nest(S) \subseteq Nest(T)
<1>1. S \cup Marks \subseteq T \cup Marks
  OBVIOUS
<1>2. Bodies(S) \subseteq Bodies(T)
  BY <1>1, SeqMonotonic DEF Bodies
<1>3. Seq(S) \subseteq Seq(T)
  BY SeqMonotonic
<1> QED BY <1>2, <1>3 DEF Nest

\* An if.
LEMMA MaybeBuilt ==
  ASSUME NEW S, NEW body \in Seq(S)
  PROVE  Maybe(body) \in Nest(S)
  BY DEF Maybe, Nest

\* A try ... finally of clean calls is a cleanup.
LEMMA CleanupBuilt ==
  ASSUME NEW body \in Seq(CleanCalls), NEW after \in Seq(CleanCalls)
  PROVE  Finally(body, after) \in Cleanup
<1> DEFINE m == Mark("finally", <<>>)
<1>1. Flat(CleanCalls)
  BY DEF Flat, CleanCalls, Calls
<1>2. m \in {m}
  OBVIOUS
<1> HIDE DEF m
<1>3. /\ body \o <<m>> \o after \in Seq(CleanCalls \cup {m})
      /\ Tidy(CleanCalls, body \o <<m>> \o after)
  BY <1>1, <1>2, BodyBuilt
<1> QED BY <1>3 DEF Finally, Block, Cleanup, Closing, m

-----------------------------------------------------------------------------
(* What the stacks offer is built of those steps.                          *)

\* The resources that the calls name.
LEMMA ResourcesNamed ==
  /\ \A r \in Resources : {r} \in SUBSET Resources
  /\ \A r, q \in Resources : {r, q} \in SUBSET Resources
  /\ \A r, q, p \in Resources : {r, q, p} \in SUBSET Resources
  /\ {"channel", "bluez", "peer", "mgmt", "discovery", "session", "cccd", "handler", "pump",
      "bus", "signals", "added", "match", "props", "tmp", "client_bus", "client_sock",
      "peripheral", "daemon", "dbus_server", "sock_server", "bluetoothctl"} \subseteq Resources
  BY DEF Resources, Links, Children

\* Calls that several stacks share.
LEMMA SharedCalls ==
  /\ Collect \in Calls
  /\ \A n \in CallNames : {StartDiscovery(n), Request(n), Asked(n)} \subseteq Named(n)
  /\ \A n \in CallNames \ {"readline"} : StopDiscovery(n) \in CleanCalls
  /\ CloseMgmt \in CleanCalls
  /\ Connecting \in Calls
<1>1. {"collect", "mgmt.close", "connect"} \subseteq CallNames
  BY DEF CallNames
<1>2. Collect \in Calls
  BY <1>1, CallsBuilt DEF Collect
<1>3. ASSUME NEW n \in CallNames
      PROVE  {StartDiscovery(n), Request(n), Asked(n)} \subseteq Named(n)
  BY CallsBuilt, ResourcesNamed DEF StartDiscovery, Request, Asked
<1>4. ASSUME NEW n \in CallNames \ {"readline"}
      PROVE  StopDiscovery(n) \in CleanCalls
  BY CallsBuilt, CleanBuilt, ResourcesNamed DEF StopDiscovery
<1>5. CloseMgmt \in CleanCalls
  BY <1>1, CleanBuilt, ResourcesNamed DEF CloseMgmt
<1>6. Connecting \in Named("connect")
  BY <1>1, CallsBuilt, ResourcesNamed DEF Connecting
<1> QED BY <1>1, <1>2, <1>3, <1>4, <1>5, <1>6, CallsBuilt

\* The end of a discovery: stop it, whatever happens close the socket.
LEMMA StopAndCloseBuilt ==
  ASSUME NEW n \in CallNames, n # "readline"
  PROVE  StopAndClose(n) \in Seq(Cleanup)
<1>1. <<StopDiscovery(n)>> \in Seq(CleanCalls) /\ <<CloseMgmt>> \in Seq(CleanCalls)
  BY SharedCalls
<1>2. Finally(<<StopDiscovery(n)>>, <<CloseMgmt>>) \in Cleanup
  BY <1>1, CleanupBuilt
<1> QED BY <1>2 DEF StopAndClose

\* A try ... finally around calls, the collection of events for one.
LEMMA Collecting ==
  ASSUME NEW after \in Seq(Cleanup)
  PROVE  Finally(<<Collect>>, after) \in Level1
<1>1. <<Collect>> \in Seq(Level0)
  BY SharedCalls, Levels
<1> QED BY <1>1, FinallyBuilt, FlatLevels, Levels DEF Level1

\* ... and any others.
LEMMA TryCalls ==
  ASSUME NEW body \in Seq(Level0), NEW after \in Seq(Cleanup)
  PROVE  Finally(body, after) \in Level1
  BY FinallyBuilt, FlatLevels, Levels DEF Level1

\* What a stack has to offer: a setup may have an if around a try block.
Offer ==
  [ scan : Seq(Level1), setup : Seq(Level2), teardown : {c \in Calls : Soft(c) \in CleanCalls},
    sampling : Calls, notify : Seq(Level1) ]

\* raw_l2cap's.
LEMMA RawBuilt ==
  [scan |-> RawScan, setup |-> RawSetup, teardown |-> RawTeardown,
   sampling |-> RawSampling, notify |-> RawNotify] \in Offer
<1>1. {"mgmt.open", "start_discovery", "stop_discovery", "prescan", "seen", "end_prescan",
       "exchange_mtu", "discover", "att.close", "sampling", "resolve", "set_notify_handler",
       "notify_on", "notify_off", "remove_notify_handler"} \subseteq CallNames
  BY DEF CallNames
<1>2. Getting({"mgmt"}, Opening("mgmt.open")) \in Level0
  BY <1>1, CallsBuilt, ResourcesNamed, Levels
<1>3. Connecting \in Level0
  BY SharedCalls, Levels
<1>4. RawScan \in Seq(Level1)
  <2>1. StartDiscovery("start_discovery") \in Level0
    BY <1>1, SharedCalls, CallsBuilt, Levels
  <2>2. StopAndClose("stop_discovery") \in Seq(Cleanup)
    BY <1>1, StopAndCloseBuilt
  <2>3. Finally(<<Collect>>, StopAndClose("stop_discovery")) \in Level1
    BY <2>2, Collecting
  <2> QED BY <1>2, <2>1, <2>3, Levels DEF RawScan
<1>5. RawSetup \in Seq(Level2)
  <2>1. <<StartDiscovery("prescan"), Wait("seen")>> \in Seq(Level0)
    BY <1>1, SharedCalls, CallsBuilt, Levels
  <2>2. StopAndClose("end_prescan") \in Seq(Cleanup)
    BY <1>1, StopAndCloseBuilt
  <2>3. Finally(<<StartDiscovery("prescan"), Wait("seen")>>, StopAndClose("end_prescan")) \in Level1
    BY <2>1, <2>2, TryCalls
  <2>4. Request("exchange_mtu") \in Level0 /\ Request("discover") \in Level0
    BY <1>1, SharedCalls, CallsBuilt, Levels
  <2> QED BY <1>2, <1>3, <2>3, <2>4, Levels DEF RawSetup
<1>6. RawTeardown \in Calls /\ Soft(RawTeardown) \in CleanCalls
  BY <1>1, CallsBuilt, CleanBuilt, ResourcesNamed DEF RawTeardown
<1>7. RawSampling \in Calls
  BY <1>1, SharedCalls, CallsBuilt DEF RawSampling
<1>8. RawNotify \in Seq(Level1)
  <2>1. Opening("resolve") \in Level0 /\ Getting({"handler"}, Sync("set_notify_handler")) \in Level0
    BY <1>1, CallsBuilt, ResourcesNamed, Levels
  <2>2. Late(Getting({"cccd"}, Request("notify_on"))) \in Level0
    BY <1>1, SharedCalls, CallsBuilt, ResourcesNamed, Levels
  <2>3. Soft(Late(Freeing({"cccd"}, Request("notify_off")))) \in Cleanup
    BY <1>1, SharedCalls, CallsBuilt, CleanBuilt, ResourcesNamed, Levels
  <2>4. Freeing({"handler"}, Sync("remove_notify_handler")) \in Cleanup
    BY <1>1, CleanBuilt, ResourcesNamed, Levels
  <2>5. <<Soft(Late(Freeing({"cccd"}, Request("notify_off")))),
          Freeing({"handler"}, Sync("remove_notify_handler"))>> \in Seq(Cleanup)
    BY <2>3, <2>4
  <2>6. Finally(<<Collect>>,
                <<Soft(Late(Freeing({"cccd"}, Request("notify_off")))),
                  Freeing({"handler"}, Sync("remove_notify_handler"))>>) \in Level1
    BY <2>5, Collecting
  <2> QED BY <2>1, <2>2, <2>6, Levels DEF RawNotify
<1> QED BY <1>4, <1>5, <1>6, <1>7, <1>8 DEF Offer

\* connect of bluek's client, with its teardown.
LEMMA BluekConnectBuilt ==
  BluekConnect \in Seq(Level2) /\ BluekTeardown \in CleanCalls
<1>1. {"mgmt.open", "prescan", "seen", "end_prescan", "connect_mtu", "connect_discover",
       "disconnect"} \subseteq CallNames
  BY DEF CallNames
<1>2. BluekTeardown \in CleanCalls
  BY <1>1, CleanBuilt, ResourcesNamed DEF BluekTeardown
<1>3. Getting({"mgmt"}, Sync("mgmt.open")) \in Level1
  BY <1>1, CallsBuilt, ResourcesNamed, Levels
<1>4. Finally(<<StartDiscovery("prescan"), Wait("seen")>>, StopAndClose("end_prescan")) \in Level1
  <2>1. <<StartDiscovery("prescan"), Wait("seen")>> \in Seq(Level0)
    BY <1>1, SharedCalls, CallsBuilt, Levels
  <2>2. StopAndClose("end_prescan") \in Seq(Cleanup)
    BY <1>1, StopAndCloseBuilt
  <2> QED BY <2>1, <2>2, TryCalls
<1>5. Maybe(<<Getting({"mgmt"}, Sync("mgmt.open")),
              Finally(<<StartDiscovery("prescan"), Wait("seen")>>, StopAndClose("end_prescan"))>>)
        \in Level2
  <2>1. <<Getting({"mgmt"}, Sync("mgmt.open")),
          Finally(<<StartDiscovery("prescan"), Wait("seen")>>, StopAndClose("end_prescan"))>>
          \in Seq(Level1)
    BY <1>3, <1>4
  <2> QED BY <2>1, MaybeBuilt DEF Level2
<1>6. Undo(<<Request("connect_mtu"), Request("connect_discover")>>, <<BluekTeardown>>) \in Level1
  <2>1. <<Request("connect_mtu"), Request("connect_discover")>> \in Seq(Level0)
    BY <1>1, SharedCalls, CallsBuilt, Levels
  <2>2. <<BluekTeardown>> \in Seq(Cleanup)
    BY <1>2, Levels
  <2> QED BY <2>1, <2>2, UndoBuilt, FlatLevels, Levels DEF Level1
<1>7. Connecting \in Level2 /\ Level1 \subseteq Level2
  BY SharedCalls, Levels
<1> QED BY <1>2, <1>5, <1>6, <1>7 DEF BluekConnect

\* lib_bluek's.
LEMMA BluekBuilt ==
  [scan |-> BluekScan, setup |-> BluekSetup, teardown |-> BluekTeardown,
   sampling |-> BluekSampling, notify |-> BluekNotify] \in Offer
<1>1. {"BleakScanner", "mgmt.open", "start_discovery", "stop_discovery", "disconnect",
       "BleakClient", "sampling", "start_notify", "start_write", "stop_notify",
       "stop_write"} \subseteq CallNames
  BY DEF CallNames
<1>2. BluekScan \in Seq(Level1)
  <2>1. Opening("BleakScanner") \in Level0 /\ Getting({"mgmt"}, Opening("mgmt.open")) \in Level0
    BY <1>1, CallsBuilt, ResourcesNamed, Levels
  <2>2. StartDiscovery("start_discovery") \in Level0
    BY <1>1, SharedCalls, CallsBuilt, Levels
  <2>3. StopAndClose("stop_discovery") \in Seq(Cleanup)
    BY <1>1, StopAndCloseBuilt
  <2>4. Finally(<<Collect>>, StopAndClose("stop_discovery")) \in Level1
    BY <2>3, Collecting
  <2> QED BY <2>1, <2>2, <2>4, Levels DEF BluekScan
<1>3. BluekSetup \in Seq(Level2)
  <2>1. Opening("BleakClient") \in Level2
    BY <1>1, CallsBuilt, Levels
  <2>2. <<Opening("BleakClient")>> \in Seq(Level2)
    BY <2>1
  <2> QED BY <2>2, BluekConnectBuilt, ConcatProperties DEF BluekSetup
<1>4. BluekTeardown \in Calls /\ Soft(BluekTeardown) \in CleanCalls
  BY <1>1, CallsBuilt, CleanBuilt, ResourcesNamed DEF BluekTeardown
<1>5. BluekSampling \in Calls
  BY <1>1, SharedCalls, CallsBuilt DEF BluekSampling
<1>6. BluekNotify \in Seq(Level1)
  <2>1. Late(Getting({"handler"}, Needing({"channel"}, Opening("start_notify")))) \in Level0
    BY <1>1, CallsBuilt, ResourcesNamed, Levels
  <2>2. Late(Getting({"cccd"}, Request("start_write"))) \in Level0
    BY <1>1, SharedCalls, CallsBuilt, ResourcesNamed, Levels
  <2>3. BluekStartNotify \in Seq(Level1)
    BY <2>1, <2>2, Levels DEF BluekStartNotify
  <2>4. Needing({"channel"}, Sync("stop_notify")) \in Cleanup
    <3>1. Needing({"channel"}, Sync("stop_notify")) \in Named("stop_notify")
      BY <1>1, CallsBuilt, ResourcesNamed
    <3> QED BY <1>1, <3>1, CleanBuilt, Levels DEF Smothering
  <2>5. Soft(Late(Freeing({"cccd"}, Request("stop_write")))) \in Cleanup
    BY <1>1, SharedCalls, CallsBuilt, CleanBuilt, ResourcesNamed, Levels
  <2>6. Freeing({"handler"}, Opening("stop_notify")) \in Cleanup
    <3>1. Freeing({"handler"}, Opening("stop_notify")) \in Named("stop_notify")
      BY <1>1, CallsBuilt, ResourcesNamed
    <3> QED BY <1>1, <3>1, CleanBuilt, Levels DEF Smothering
  <2>7. <<Needing({"channel"}, Sync("stop_notify"))>> \o BluekStopWrite \in Seq(Cleanup)
    BY <2>4, <2>5, <2>6 DEF BluekStopWrite
  <2>8. Finally(<<Collect>>, <<Needing({"channel"}, Sync("stop_notify"))>> \o BluekStopWrite) \in Level1
    BY <2>7, Collecting
  <2>9. <<Finally(<<Collect>>, <<Needing({"channel"}, Sync("stop_notify"))>> \o BluekStopWrite)>>
          \in Seq(Level1)
    BY <2>8
  <2> QED BY <2>3, <2>9, ConcatProperties DEF BluekNotify
<1> QED BY <1>2, <1>3, <1>4, <1>5, <1>6 DEF Offer

\* lib_bleak's.
LEMMA BleakBuilt ==
  [scan |-> BleakScan, setup |-> BleakSetup, teardown |-> BleakTeardown,
   sampling |-> BleakSampling, notify |-> BleakNotify] \in Offer
<1>1. {"scanner.start", "scanner.stop", "client.connect", "client.disconnect", "sampling",
       "bleak.start_notify", "bleak.stop_notify"} \subseteq CallNames
  BY DEF CallNames
<1>2. "scanner.stop" \in Smothering /\ "bleak.stop_notify" \in Smothering
  BY DEF Smothering
<1>3. BleakScan \in Seq(Level1)
  <2>1. Getting({"session"}, Await("scanner.start")) \in Level1
    BY <1>1, CallsBuilt, ResourcesNamed, Levels
  <2>2. Late(Freeing({"session"}, Await("scanner.stop"))) \in Named("scanner.stop")
    BY <1>1, CallsBuilt, ResourcesNamed
  <2>3. Late(Freeing({"session"}, Await("scanner.stop"))) \in Cleanup
    BY <1>1, <1>2, <2>2, CleanBuilt, Levels
  <2>4. <<Late(Freeing({"session"}, Await("scanner.stop")))>> \in Seq(Cleanup)
    BY <2>3
  <2>5. Finally(<<Collect>>, <<Late(Freeing({"session"}, Await("scanner.stop")))>>) \in Level1
    BY <2>4, Collecting
  <2> QED BY <2>1, <2>5 DEF BleakScan
<1>4. BleakSetup \in Seq(Level2)
  <2>1. Needing({"peer"}, BarredBy({"channel"}, Getting({"bluez"}, Await("client.connect")))) \in Level2
    BY <1>1, CallsBuilt, ResourcesNamed, Levels
  <2> QED BY <2>1 DEF BleakSetup
<1>5. BleakTeardown \in Calls /\ Soft(BleakTeardown) \in CleanCalls
  <2>1. {"bluez", "cccd"} \in SUBSET Resources
    BY ResourcesNamed
  <2>2. BleakTeardown \in Named("client.disconnect")
    BY <1>1, <2>1, CallsBuilt DEF BleakTeardown
  <2> QED BY <1>1, <2>2, CallsBuilt, CleanBuilt
<1>6. BleakSampling \in Calls
  BY <1>1, SharedCalls, CallsBuilt DEF BleakSampling
<1>7. BleakNotify \in Seq(Level1)
  <2>1. Late(Getting({"cccd"}, Asked("bleak.start_notify"))) \in Level1
    BY <1>1, SharedCalls, CallsBuilt, ResourcesNamed, Levels
  <2>2. Late(Freeing({"cccd"}, Asked("bleak.stop_notify"))) \in Named("bleak.stop_notify")
    BY <1>1, SharedCalls, CallsBuilt, ResourcesNamed
  <2>3. Late(Freeing({"cccd"}, Asked("bleak.stop_notify"))) \in Cleanup
    BY <1>1, <1>2, <2>2, CleanBuilt, Levels
  <2>4. <<Late(Freeing({"cccd"}, Asked("bleak.stop_notify")))>> \in Seq(Cleanup)
    BY <2>3
  <2>5. Finally(<<Collect>>, <<Late(Freeing({"cccd"}, Asked("bleak.stop_notify")))>>) \in Level1
    BY <2>4, Collecting
  <2> QED BY <2>1, <2>5 DEF BleakNotify
<1> QED BY <1>3, <1>4, <1>5, <1>6, <1>7 DEF Offer

\* raw_dbus's.
LEMMA DbusBuilt ==
  [scan |-> DbusScan, setup |-> DbusSetup, teardown |-> DbusTeardown,
   sampling |-> DbusSampling, notify |-> DbusNotify] \in Offer
<1>1. {"bus", "root_proxy", "on_interfaces_added", "AddMatch", "add_message_handler",
       "adapter_iface", "SetDiscoveryFilter", "StartDiscovery", "StopDiscovery",
       "remove_message_handler", "Connect", "GetManagedObjects", "setup_adapter_iface", "find",
       "appears", "end_find", "device_proxy", "Connected", "ServicesResolved", "walk",
       "Disconnect", "sampling", "char_iface", "char_proxy", "on_properties_changed",
       "StartNotify", "StopNotify"} \subseteq CallNames
  BY DEF CallNames
<1>2. BusHandle \in Level1 /\ BusHandle \in Level2
  BY <1>1, CallsBuilt, ResourcesNamed, Levels DEF BusHandle
<1>3. DbusScan \in Seq(Level1)
  <2>1. Await("root_proxy") \in Level1 /\ Await("adapter_iface") \in Level1
    BY <1>1, CallsBuilt, Levels
  <2>2. Getting({"added"}, Sync("on_interfaces_added")) \in Level1
    BY <1>1, CallsBuilt, ResourcesNamed, Levels
  <2>3. Getting({"match"}, Await("AddMatch")) \in Level1
    BY <1>1, CallsBuilt, ResourcesNamed, Levels
  <2>4. Getting({"signals"}, Sync("add_message_handler")) \in Level1
    BY <1>1, CallsBuilt, ResourcesNamed, Levels
  <2>5. Soft(Await("SetDiscoveryFilter")) \in Level1
    BY <1>1, CallsBuilt, Levels
  <2>6. Late(Getting({"session"}, Await("StartDiscovery"))) \in Level1
    BY <1>1, CallsBuilt, ResourcesNamed, Levels
  <2>7. Soft(Late(Freeing({"session"}, Await("StopDiscovery")))) \in Cleanup
    BY <1>1, CallsBuilt, CleanBuilt, ResourcesNamed, Levels
  <2>8. Freeing({"signals"}, Sync("remove_message_handler")) \in Cleanup
    BY <1>1, CleanBuilt, ResourcesNamed, Levels
  <2>9. <<Soft(Late(Freeing({"session"}, Await("StopDiscovery")))),
          Freeing({"signals"}, Sync("remove_message_handler"))>> \in Seq(Cleanup)
    BY <2>7, <2>8
  <2>10. Finally(<<Collect>>,
                 <<Soft(Late(Freeing({"session"}, Await("StopDiscovery")))),
                   Freeing({"signals"}, Sync("remove_message_handler"))>>) \in Level1
    BY <2>9, Collecting
  <2> QED BY <1>2, <2>1, <2>2, <2>3, <2>4, <2>5, <2>6, <2>10 DEF DbusScan
<1>4. DbusSetup \in Seq(Level2)
  <2>1. Await("setup_adapter_iface") \in Level1
    BY <1>1, CallsBuilt, Levels
  <2>2. Late(Getting({"session"}, Await("find"))) \in Level0 /\ Await("appears") \in Level0
    BY <1>1, CallsBuilt, ResourcesNamed, Levels
  <2>3. Soft(Late(Freeing({"session"}, Await("end_find")))) \in Cleanup
    BY <1>1, CallsBuilt, CleanBuilt, ResourcesNamed, Levels
  <2>4. /\ <<Late(Getting({"session"}, Await("find"))), Await("appears")>> \in Seq(Level0)
        /\ <<Soft(Late(Freeing({"session"}, Await("end_find"))))>> \in Seq(Cleanup)
    BY <2>2, <2>3
  <2>5. Finally(<<Late(Getting({"session"}, Await("find"))), Await("appears")>>,
                <<Soft(Late(Freeing({"session"}, Await("end_find"))))>>) \in Level1
    BY <2>4, TryCalls
  <2>6. <<Await("setup_adapter_iface"),
          Finally(<<Late(Getting({"session"}, Await("find"))), Await("appears")>>,
                  <<Soft(Late(Freeing({"session"}, Await("end_find"))))>>)>> \in Seq(Level1)
    BY <2>1, <2>5
  <2>7. Maybe(<<Await("setup_adapter_iface"),
                Finally(<<Late(Getting({"session"}, Await("find"))), Await("appears")>>,
                        <<Soft(Late(Freeing({"session"}, Await("end_find"))))>>)>>) \in Level2
    BY <2>6, MaybeBuilt DEF Level2
  <2>8. /\ Await("GetManagedObjects") \in Level2 /\ Await("device_proxy") \in Level2
        /\ Await("Connected") \in Level2 /\ Await("ServicesResolved") \in Level2
        /\ Await("walk") \in Level2
    BY <1>1, CallsBuilt, Levels
  <2>9. DbusConnect \in Level2
    BY <1>1, CallsBuilt, ResourcesNamed, Levels DEF DbusConnect
  <2> QED BY <1>2, <2>7, <2>8, <2>9 DEF DbusSetup
<1>5. DbusTeardown \in Calls /\ Soft(DbusTeardown) \in CleanCalls
  <2>1. {"bluez", "cccd"} \in SUBSET Resources
    BY ResourcesNamed
  <2>2. DbusTeardown \in Named("Disconnect")
    BY <1>1, <2>1, CallsBuilt DEF DbusTeardown
  <2> QED BY <1>1, <2>2, CallsBuilt, CleanBuilt
<1>6. DbusSampling \in Calls
  BY <1>1, SharedCalls, CallsBuilt DEF DbusSampling
<1>7. DbusNotify \in Seq(Level1)
  <2>1. Await("char_iface") \in Level1 /\ Await("char_proxy") \in Level1
    BY <1>1, CallsBuilt, Levels
  <2>2. Getting({"props"}, Sync("on_properties_changed")) \in Level1
    BY <1>1, CallsBuilt, ResourcesNamed, Levels
  <2>3. Late(Getting({"cccd"}, Asked("StartNotify"))) \in Level1
    BY <1>1, SharedCalls, CallsBuilt, ResourcesNamed, Levels
  <2>4. Soft(Late(Freeing({"cccd"}, Asked("StopNotify")))) \in Cleanup
    BY <1>1, SharedCalls, CallsBuilt, CleanBuilt, ResourcesNamed, Levels
  <2>5. <<Soft(Late(Freeing({"cccd"}, Asked("StopNotify"))))>> \in Seq(Cleanup)
    BY <2>4
  <2>6. Finally(<<Collect>>, <<Soft(Late(Freeing({"cccd"}, Asked("StopNotify"))))>>) \in Level1
    BY <2>5, Collecting
  <2> QED BY <1>2, <2>1, <2>2, <2>3, <2>6 DEF DbusNotify
<1> QED BY <1>3, <1>4, <1>5, <1>6, <1>7 DEF Offer

\* micro_fake's.
LEMMA MicroBuilt ==
  [scan |-> MicroScan, setup |-> MicroSetup, teardown |-> MicroTeardown,
   sampling |-> MicroSampling, notify |-> MicroNotify] \in Offer
<1>1. {"exchange_mtu", "discover", "start_notify_pump", "peripheral.close", "sampling",
       "set_notify_handler", "notify_on", "notify_off", "remove_notify_handler"} \subseteq CallNames
  BY DEF CallNames
<1>2. MicroScan \in Seq(Level1)
  <2>1. Collect \in Level1
    BY SharedCalls, Levels
  <2> QED BY <2>1 DEF MicroScan
<1>3. MicroSetup \in Seq(Level2)
  <2>1. Wait("exchange_mtu") \in Level2 /\ Wait("discover") \in Level2
    BY <1>1, CallsBuilt, Levels
  <2>2. Getting({"pump"}, Sync("start_notify_pump")) \in Level2
    BY <1>1, CallsBuilt, ResourcesNamed, Levels
  <2> QED BY <2>1, <2>2 DEF MicroSetup
<1>4. MicroTeardown \in Calls /\ Soft(MicroTeardown) \in CleanCalls
  <2>1. {"pump", "cccd"} \in SUBSET Resources
    BY ResourcesNamed
  <2>2. MicroTeardown \in Named("peripheral.close")
    BY <1>1, <2>1, CallsBuilt DEF MicroTeardown
  <2> QED BY <1>1, <2>2, CallsBuilt, CleanBuilt
<1>5. MicroSampling \in Calls
  BY <1>1, CallsBuilt DEF MicroSampling
<1>6. MicroNotify \in Seq(Level1)
  <2>1. Getting({"handler"}, Sync("set_notify_handler")) \in Level1
    BY <1>1, CallsBuilt, ResourcesNamed, Levels
  <2>2. Getting({"cccd"}, Wait("notify_on")) \in Level1
    BY <1>1, CallsBuilt, ResourcesNamed, Levels
  <2>3. Soft(Late(Freeing({"cccd"}, Wait("notify_off")))) \in Cleanup
    BY <1>1, CallsBuilt, CleanBuilt, ResourcesNamed, Levels
  <2>4. Freeing({"handler"}, Sync("remove_notify_handler")) \in Cleanup
    BY <1>1, CleanBuilt, ResourcesNamed, Levels
  <2>5. <<Soft(Late(Freeing({"cccd"}, Wait("notify_off")))),
          Freeing({"handler"}, Sync("remove_notify_handler"))>> \in Seq(Cleanup)
    BY <2>3, <2>4
  <2>6. Finally(<<Collect>>,
                <<Soft(Late(Freeing({"cccd"}, Wait("notify_off")))),
                  Freeing({"handler"}, Sync("remove_notify_handler"))>>) \in Level1
    BY <2>5, Collecting
  <2> QED BY <2>1, <2>2, <2>6 DEF MicroNotify
<1> QED BY <1>2, <1>3, <1>4, <1>5, <1>6 DEF Offer

\* Every stack offers what the scenarios ask for.
LEMMA StacksOffer ==
  ASSUME NEW s \in DOMAIN Stack
  PROVE  Stack[s] \in Offer
<1>1. Stack \in [{"raw_l2cap", "lib_bluek", "lib_bleak", "raw_dbus", "micro_fake"} -> Offer]
  BY RawBuilt, BluekBuilt, BleakBuilt, DbusBuilt, MicroBuilt DEF Stack
<1> QED BY <1>1

-----------------------------------------------------------------------------
(* The programs are built of those steps.                                  *)

\* A function on 1 .. n is a sequence of n elements.
LEMMA FunctionIsSeq ==
  ASSUME NEW S, NEW n \in Nat, NEW f \in [1 .. n -> S]
  PROVE  f \in Seq(S) /\ Len(f) = n
  BY SeqDef, LenProperties

\* Noting takes what a level has one level up.
LEMMA NotingBuilt ==
  /\ \A b \in Seq(Level0) : Noting(b) \in Level1
  /\ \A b \in Seq(Level1) : Noting(b) \in Level2
  /\ \A b \in Seq(Level3) : Noting(b) \in Level4
<1>1. <<>> \in Seq(Cleanup)
  BY EmptySeq
<1>2. ASSUME NEW b \in Seq(Level0)
      PROVE  Noting(b) \in Level1
  BY <1>1, ExceptBuilt, FlatLevels, Levels DEF Noting, Level1
<1>3. ASSUME NEW b \in Seq(Level1)
      PROVE  Noting(b) \in Level2
  <2>1. Cleanup \subseteq Level1 /\ Flat(Level1)
    BY FlatLevels, Levels
  <2> QED BY <1>1, <2>1, ExceptBuilt DEF Noting, Level2
<1>4. ASSUME NEW b \in Seq(Level3)
      PROVE  Noting(b) \in Level4
  <2>1. Cleanup \subseteq Level3 /\ Flat(Level3)
    BY FlatLevels, Levels
  <2> QED BY <1>1, <2>1, ExceptBuilt DEF Noting, Level4
<1> QED BY <1>2, <1>3, <1>4

\* The setup of a stack, then a scenario of calls in a try block with the teardown.
LEMMA ScenarioBuilt ==
  ASSUME NEW s \in DOMAIN Stack, NEW note \in Level2
  PROVE  Append(Stack[s].setup, Finally(<<note>>, <<Soft(Stack[s].teardown)>>)) \in Seq(Level3)
<1>1. /\ Stack[s].setup \in Seq(Level2)
      /\ Soft(Stack[s].teardown) \in CleanCalls
  BY StacksOffer DEF Offer
<1>2. <<note>> \in Seq(Level2) /\ <<Soft(Stack[s].teardown)>> \in Seq(Cleanup)
  BY <1>1, Levels
<1>3. Cleanup \subseteq Level2 /\ Flat(Level2) /\ Level2 \subseteq Level3
  BY FlatLevels, Levels
<1>4. Finally(<<note>>, <<Soft(Stack[s].teardown)>>) \in Level3
  BY <1>2, <1>3, FinallyBuilt DEF Level3
<1>5. Stack[s].setup \in Seq(Level3)
  BY <1>1, <1>3, SeqMonotonic
<1> QED BY <1>4, <1>5, AppendProperties

\* What a cell runs, whichever its stack and its scenario are.
LEMMA CellBodiesBuilt ==
  /\ \A body \in CellBodies : body \in Seq(Level3)
  /\ \A s \in DOMAIN Stack, c \in Range(Scenarios) : RunScenario(s, c) \in CellBodies
<1>1. ASSUME NEW s \in DOMAIN Stack
      PROVE  /\ Advert(s) \in Seq(Level3) /\ ReadWrite(s) \in Seq(Level3)
             /\ Notify(s) \in Seq(Level3)
  <2>1. /\ Stack[s].scan \in Seq(Level1) /\ Stack[s].notify \in Seq(Level1)
        /\ Stack[s].sampling \in Calls
    BY StacksOffer DEF Offer
  <2>2. Advert(s) \in Seq(Level3)
    <3>1. Noting(Stack[s].scan) \in Level3
      BY <2>1, NotingBuilt, Levels
    <3> QED BY <3>1 DEF Advert
  <2>3. ReadWrite(s) \in Seq(Level3)
    <3>1. <<Stack[s].sampling>> \in Seq(Level0)
      BY <2>1, Levels
    <3>2. Noting(<<Stack[s].sampling>>) \in Level2
      BY <3>1, NotingBuilt, Levels
    <3> QED BY <3>2, ScenarioBuilt DEF ReadWrite
  <2>4. Notify(s) \in Seq(Level3)
    <3>1. Noting(Stack[s].notify) \in Level2
      BY <2>1, NotingBuilt
    <3> QED BY <3>1, ScenarioBuilt DEF Notify
  <2> QED BY <2>2, <2>3, <2>4
<1>2. <<Raise("error")>> \in Seq(Level3)
  <2>1. Raise("error") \in Level0
    BY DEF Raise, Level0
  <2> QED BY <2>1, Levels
<1>3. \A s \in DOMAIN Stack, c \in Range(Scenarios) : RunScenario(s, c) \in CellBodies
  BY DEF RunScenario, CellBodies
<1> QED BY <1>1, <1>2, <1>3 DEF CellBodies

\* A cell of the matrix: the scenario, with an except clause, and its row.
LEMMA CellBuilt ==
  ASSUME NEW s \in DOMAIN Stack, NEW c \in Range(Scenarios)
  PROVE  /\ Noting(RunScenario(s, c)) \in Level4 /\ RecordStep(s, c) \in RowSteps
         /\ Cell(s, c) \in Seq(Level5)
<1>1. RunScenario(s, c) \in Seq(Level3)
  BY CellBodiesBuilt
<1>2. Noting(RunScenario(s, c)) \in Level4
  BY <1>1, NotingBuilt
<1>3. RecordStep(s, c) \in RowSteps
  BY DEF RecordStep, RowSteps
<1> QED BY <1>2, <1>3, Levels DEF Cell

\* The cells of a stack and the stacks of the matrix.
LEMMA RowsBuilt ==
  /\ \A s \in DOMAIN Stack : StackSteps(s) \in Seq(RowSteps)
  /\ \A q \in Seq(DOMAIN Stack) :
       /\ Matrix(q) \in Seq(RowSteps) /\ Len(Matrix(q)) = Len(q)
       /\ \A i \in 1 .. Len(q) : Matrix(q)[i] = [kind |-> "stack", stack |-> q[i]]
<1>1. ASSUME NEW s \in DOMAIN Stack
      PROVE  StackSteps(s) \in Seq(RowSteps)
  <2>1. Len(Scenarios) \in Nat
    BY DEF Scenarios
  <2>2. ASSUME NEW i \in 1 .. Len(Scenarios)
        PROVE  CellStep(s, Scenarios[i]) \in RowSteps
    <3>1. Scenarios[i] \in Range(Scenarios)
      BY DEF Scenarios, Range
    <3> QED BY <3>1 DEF CellStep, RowSteps
  <2>3. StackSteps(s) \in [1 .. Len(Scenarios) -> RowSteps]
    BY <2>2 DEF StackSteps
  <2> QED BY <2>1, <2>3, FunctionIsSeq
<1>2. ASSUME NEW q \in Seq(DOMAIN Stack)
      PROVE  /\ Matrix(q) \in Seq(RowSteps) /\ Len(Matrix(q)) = Len(q)
             /\ \A i \in 1 .. Len(q) : Matrix(q)[i] = [kind |-> "stack", stack |-> q[i]]
  <2>1. Len(q) \in Nat
    BY LenProperties
  <2>2. ASSUME NEW i \in 1 .. Len(q)
        PROVE  [kind |-> "stack", stack |-> q[i]] \in RowSteps
    <3>1. q[i] \in DOMAIN Stack
      BY ElementOfSeq
    <3> QED BY <3>1 DEF RowSteps
  <2>3. Matrix(q) \in [1 .. Len(q) -> RowSteps]
    BY <2>2 DEF Matrix
  <2>4. Matrix(q) \in Seq(RowSteps) /\ Len(Matrix(q)) = Len(q)
    BY <2>1, <2>3, FunctionIsSeq
  <2> QED BY <2>4 DEF Matrix
<1> QED BY <1>1, <1>2

\* A child's end is clean.
LEMMA StopBuilt ==
  ASSUME NEW c \in Children
  PROVE  Stop(c) \in CleanCalls /\ Freeing({"peer"}, Stop(c)) \in Named("stop") \cap CleanCalls
<1>1. "stop" \in CallNames /\ "stop" # "readline"
  BY DEF CallNames
<1>2. {c} \in SUBSET Resources
  BY DEF Resources
<1>3. Stop(c) \in CleanCalls
  BY <1>1, <1>2, CleanBuilt DEF Stop
<1>4. Freeing({"peer"}, Stop(c)) \in Named("stop")
  BY <1>1, <1>2, CallsBuilt, ResourcesNamed DEF Stop
<1>5. Freeing({"peer"}, Stop(c)) \in CleanCalls
  <2>1. /\ Stop(c).call = "stop" /\ Stop(c).can = {"cancel"} /\ Stop(c).needs = {} /\ Stop(c).bars = {}
    BY DEF Stop, Freeing, Wait, Call
  <2>2. Stop(c) \in Calls
    BY <1>3 DEF CleanCalls
  <2>3. /\ Freeing({"peer"}, Stop(c)).call = "stop" /\ Freeing({"peer"}, Stop(c)).can = {"cancel"}
        /\ Freeing({"peer"}, Stop(c)).needs = {} /\ Freeing({"peer"}, Stop(c)).bars = {}
    BY <2>1, <2>2 DEF Freeing, Calls
  <2> QED BY <1>4, <2>3 DEF Named, CleanCalls
<1> QED BY <1>3, <1>4, <1>5

\* bench/runner.py.
LEMMA RunnerBuilt ==
  ASSUME job \in Job
  PROVE  Runner \in Seq(Planned)
<1>1. {"adapter_down", "spawn_peripheral", "read_ready", "write_run"} \subseteq CallNames
  BY DEF CallNames
<1>2. "peripheral" \in Children /\ {"peripheral"} \in SUBSET Resources /\ {"peer"} \in SUBSET Resources
  BY DEF Children, Resources
<1>3. Matrix(job.stacks) \in Seq(RowSteps)
  BY RowsBuilt DEF Job
<1>4. Matrix(job.stacks) \in Seq(Level5)
  BY <1>3, Levels, SeqMonotonic
<1>5. Matrix(job.stacks) \in Seq(Planned)
  BY <1>4, Levels, SeqMonotonic
<1>6. Calls \subseteq Level5 /\ Calls \subseteq Planned
  BY Levels
<1>7. Supervised(Matrix(job.stacks)) \in Seq(Planned)
  <2>1. Needing({"peripheral"}, Getting({"peer"}, Await("read_ready"))) \in Level5
    BY <1>1, <1>2, <1>6, CallsBuilt
  <2>2. <<Needing({"peripheral"}, Getting({"peer"}, Await("read_ready")))>> \in Seq(Level5)
    BY <2>1
  <2>3. <<Needing({"peripheral"}, Getting({"peer"}, Await("read_ready")))>> \o Matrix(job.stacks)
          \in Seq(Level5)
    BY <1>4, <2>2, ConcatProperties
  <2>4. <<Freeing({"peer"}, Stop("peripheral"))>> \in Seq(Cleanup)
    <3>1. Freeing({"peer"}, Stop("peripheral")) \in Cleanup
      BY <1>2, StopBuilt, Levels
    <3> QED BY <3>1
  <2>5. Cleanup \subseteq Level5 /\ Flat(Level5)
    BY FlatLevels, Levels
  <2>6. Finally(<<Needing({"peripheral"}, Getting({"peer"}, Await("read_ready")))>> \o Matrix(job.stacks),
                <<Freeing({"peer"}, Stop("peripheral"))>>) \in Planned
    BY <2>3, <2>4, <2>5, FinallyBuilt DEF Planned
  <2>7. Sync("adapter_down") \in Planned /\ Getting({"peripheral"}, Await("spawn_peripheral")) \in Planned
    BY <1>1, <1>2, <1>6, CallsBuilt
  <2> QED BY <2>6, <2>7 DEF Supervised
<1>8. Opening("write_run") \in Planned
  BY <1>1, <1>6, CallsBuilt
<1> QED BY <1>5, <1>7, <1>8, AppendProperties DEF Runner

\* bench/microbench/echo.py.
LEMMA EchoBuilt ==
  Echo \in Seq(Nest(Returning))
<1>1. {"which", "mkdtemp", "spawn_daemon", "bus_socket", "spawn_dbus_server", "spawn_sock_server",
       "dbus_ready", "sock_ready", "terminate", "rmtree", "write_json", "client_bus_connect",
       "call_echo", "client_bus_disconnect", "client_sock_connect", "send_recv",
       "client_sock_close"} \subseteq CallNames
  BY DEF CallNames
<1>2. {"daemon", "dbus_server"} \in SUBSET Resources
  BY ResourcesNamed
<1>3. ClientDbus \in Seq(Level1)
  <2>1. Needing({"daemon", "dbus_server"}, Getting({"client_bus"}, Await("client_bus_connect"))) \in Level1
    BY <1>1, <1>2, CallsBuilt, ResourcesNamed, Levels
  <2>2. Needing({"daemon", "dbus_server"}, Await("call_echo")) \in Level1
    BY <1>1, <1>2, CallsBuilt, Levels
  <2>3. Freeing({"client_bus"}, Sync("client_bus_disconnect")) \in Level1
    BY <1>1, CallsBuilt, ResourcesNamed, Levels
  <2> QED BY <2>1, <2>2, <2>3 DEF ClientDbus
<1>4. ClientSocket \in Seq(Level1)
  <2>1. Needing({"sock_server"}, Late(Getting({"client_sock"}, Opening("client_sock_connect")))) \in Level1
    BY <1>1, CallsBuilt, ResourcesNamed, Levels
  <2>2. Needing({"sock_server"}, Opening("send_recv")) \in Level0
    BY <1>1, CallsBuilt, ResourcesNamed, Levels
  <2>3. Freeing({"client_sock"}, Sync("client_sock_close")) \in Cleanup
    BY <1>1, CleanBuilt, ResourcesNamed, Levels
  <2>4. /\ <<Needing({"sock_server"}, Opening("send_recv"))>> \in Seq(Level0)
        /\ <<Freeing({"client_sock"}, Sync("client_sock_close"))>> \in Seq(Cleanup)
    BY <2>2, <2>3
  <2>5. Finally(<<Needing({"sock_server"}, Opening("send_recv"))>>,
                <<Freeing({"client_sock"}, Sync("client_sock_close"))>>) \in Level1
    BY <2>4, TryCalls
  <2> QED BY <2>1, <2>5 DEF ClientSocket
<1>5. <<Await("dbus_ready"), Await("sock_ready")>> \in Seq(Level1)
  <2>1. Await("dbus_ready") \in Level1 /\ Await("sock_ready") \in Level1
    BY <1>1, CallsBuilt, Levels
  <2> QED BY <2>1
<1>6. <<Await("dbus_ready"), Await("sock_ready")>> \o ClientDbus \o ClientSocket \in Seq(Level1)
  <2>1. <<Await("dbus_ready"), Await("sock_ready")>> \o ClientDbus \in Seq(Level1)
    BY <1>3, <1>5, ConcatProperties
  <2> QED BY <1>4, <2>1, ConcatProperties
<1>7. << Sync("terminate"), Stop("dbus_server"), Stop("sock_server"), Stop("daemon"),
         Soft(Late(Freeing({"tmp"}, Opening("rmtree")))) >> \in Seq(Cleanup)
  <2>1. Sync("terminate") \in Cleanup
    BY <1>1, CleanBuilt, Levels
  <2>2. Stop("dbus_server") \in Cleanup /\ Stop("sock_server") \in Cleanup /\ Stop("daemon") \in Cleanup
    BY StopBuilt, Levels DEF Children
  <2>3. Soft(Late(Freeing({"tmp"}, Opening("rmtree")))) \in Cleanup
    BY <1>1, CallsBuilt, CleanBuilt, ResourcesNamed, Levels
  <2> QED BY <2>1, <2>2, <2>3
<1>8. Finally(<<Await("dbus_ready"), Await("sock_ready")>> \o ClientDbus \o ClientSocket,
              << Sync("terminate"), Stop("dbus_server"), Stop("sock_server"), Stop("daemon"),
                 Soft(Late(Freeing({"tmp"}, Opening("rmtree")))) >>) \in Nest(Returning)
  <2>1. Cleanup \subseteq Level1 /\ Flat(Level1)
    BY FlatLevels, Levels
  <2> QED BY <1>6, <1>7, <2>1, FinallyBuilt, Levels DEF Level2
<1>9. Opening("which") \in Nest(Returning) /\ Await("bus_socket") \in Nest(Returning) /\ Opening("write_json") \in Nest(Returning)
  BY <1>1, CallsBuilt, Levels
<1>10. /\ Late(Getting({"tmp"}, Opening("mkdtemp"))) \in Nest(Returning)
       /\ Getting({"daemon"}, Await("spawn_daemon")) \in Nest(Returning)
  BY <1>1, CallsBuilt, ResourcesNamed, Levels
<1>11. /\ Getting({"dbus_server"}, Await("spawn_dbus_server")) \in Nest(Returning)
       /\ Getting({"sock_server"}, Await("spawn_sock_server")) \in Nest(Returning)
  BY <1>1, CallsBuilt, ResourcesNamed, Levels
<1> QED BY <1>8, <1>9, <1>10, <1>11 DEF Echo

\* bluek/pairing.py.
LEMMA PairBuilt ==
  Pair \in Seq(Nest(Returning))
<1>1. {"spawn_bluetoothctl", "readline"} \subseteq CallNames /\ "bluetoothctl" \in Children
  BY DEF CallNames, Children
<1>2. Getting({"bluetoothctl"}, Await("spawn_bluetoothctl")) \in Nest(Returning)
  BY <1>1, CallsBuilt, ResourcesNamed, Levels
<1>3. Ask("send") \in Cleanup /\ Ask("trust") \in Cleanup
  BY DEF Cleanup
<1>4. Ask("verdict") \in Nest(Returning)
  <2>1. Ask("verdict") \in Level0
    BY DEF Level0
  <2> QED BY <2>1, Levels
<1>5. Maybe(<<Ask("send")>>) \in Nest(Returning)
  <2>1. <<Ask("send")>> \in Seq(Level0)
    BY <1>3, Levels
  <2> QED BY <2>1, MaybeBuilt, Levels DEF Level1
<1>6. Finally(<<ReadLines>>, <<Ask("trust"), Ask("send"), Stop("bluetoothctl")>>) \in Nest(Returning)
  <2>1. ReadLines \in Level0
    BY <1>1, CallsBuilt, Levels DEF ReadLines
  <2>2. <<ReadLines>> \in Seq(Level0)
    BY <2>1
  <2>3. Stop("bluetoothctl") \in Cleanup
    BY <1>1, StopBuilt, Levels
  <2>4. <<Ask("trust"), Ask("send"), Stop("bluetoothctl")>> \in Seq(Cleanup)
    BY <1>3, <2>3
  <2> QED BY <2>2, <2>4, TryCalls, Levels
<1>7. Ask("send") \in Nest(Returning)
  BY <1>3, Levels
<1> QED BY <1>2, <1>4, <1>5, <1>6, <1>7 DEF Pair

\* An attempt of establish_connection, and the four of them.
LEMMA EstablishBuilt ==
  /\ Except(Append(BluekConnect, Raise("return")), <<BluekTeardown, Wait("sleep")>>) \in Nest(Returning)
  /\ Establish \in Seq(Nest(Returning))
<1>1. {"client_class", "sleep"} \subseteq CallNames
  BY DEF CallNames
<1>2. Raise("return") \in Returning /\ Raise("error") \in Level0
  BY DEF Returning, Level0
<1>3. Append(BluekConnect, Raise("return")) \in Seq(Returning)
  <2>1. Level2 \subseteq Returning
    BY Levels
  <2>2. BluekConnect \in Seq(Returning)
    BY <2>1, BluekConnectBuilt, SeqMonotonic
  <2> QED BY <1>2, <2>2, AppendProperties
<1>4. <<BluekTeardown, Wait("sleep")>> \in Seq(Cleanup)
  BY <1>1, BluekConnectBuilt, CleanBuilt, Levels
<1>5. Cleanup \subseteq Returning /\ Flat(Returning)
  BY FlatLevels, Levels
<1>6. Except(Append(BluekConnect, Raise("return")), <<BluekTeardown, Wait("sleep")>>) \in Nest(Returning)
  BY <1>3, <1>4, <1>5, ExceptBuilt
<1>7. Opening("client_class") \in Nest(Returning)
  BY <1>1, CallsBuilt, Levels
<1>8. Attempt \in Seq(Nest(Returning))
  BY <1>6, <1>7, Levels DEF Attempt
<1>9. <<Raise("error")>> \in Seq(Nest(Returning))
  BY <1>2, Levels
<1>10. Attempt \o Attempt \in Seq(Nest(Returning))
  BY <1>8, ConcatProperties
<1>11. Attempt \o Attempt \o Attempt \in Seq(Nest(Returning))
  BY <1>8, <1>10, ConcatProperties
<1>12. Attempt \o Attempt \o Attempt \o Attempt \in Seq(Nest(Returning))
  BY <1>8, <1>11, ConcatProperties
<1>13. Establish \in Seq(Nest(Returning))
  BY <1>9, <1>12, ConcatProperties DEF Establish
<1> QED BY <1>6, <1>13

\* Nothing ahead is sound, and so is a program that has not begun.
LEMMA PlannedIsSound ==
  /\ Sound(<<>>)
  /\ \A p \in Seq(Planned) : Sound(p)
<1>1. Sound(<<>>)
  BY EmptySeq DEF Sound, Tidy, Closed
<1>2. ASSUME NEW p \in Seq(Planned)
      PROVE  Sound(p)
  <2>1. Sound(p \o <<>>)
    BY <1>1, FlatLevels, Levels, SoundPrefix
  <2> QED BY <2>1, ConcatEmptySeq
<1> QED BY <1>1, <1>2

\* The invariant holds at first.
LEMMA InitStepsInv ==
  ASSUME Init
  PROVE  StepsInv
<1>1. job \in Jobs /\ job \in Job
  BY JobsAssumption DEF Init
<1>2. Program \in Seq(Planned)
  <2>1. job.kind \in {"runner", "echo", "pair", "establish"}
    BY <1>1 DEF Job
  <2>2. Nest(Returning) \subseteq Planned
    BY Levels, NestGrows DEF Planned
  <2>3. Echo \in Seq(Planned) /\ Pair \in Seq(Planned) /\ Establish \in Seq(Planned)
    BY <2>2, EchoBuilt, PairBuilt, EstablishBuilt, SeqMonotonic
  <2> QED BY <1>1, <2>1, <2>3, RunnerBuilt DEF Program
<1>3. Sound(todo)
  BY <1>2, PlannedIsSound DEF Init
<1>4. AtFirst \subseteq Resources
  BY ResourcesNamed DEF AtFirst
<1>5. TypeOK
  <2>1. faults \in 0 .. MaxFaults
    BY FaultsAssumption DEF Init
  <2>2. results \in Seq(Rows)
    BY EmptySeq DEF Init
  <2> QED BY <1>1, <1>4, <2>1, <2>2 DEF TypeOK, Init
<1>6. CancelInv
  BY DEF Init, CancelInv
<1> QED BY <1>3, <1>5, <1>6 DEF StepsInv

-----------------------------------------------------------------------------
(* What a step can be.                                                     *)

\* A step of a nest is one of what it is made of, or a block, or an if.
LEMMA NestKinds ==
  ASSUME NEW S, NEW s \in Nest(S)
  PROVE  \/ s \in S
         \/ s.kind = "block" /\ s.inner \in Bodies(S)
         \/ s.kind = "maybe" /\ s.inner \in Seq(S)
  BY DEF Nest

\* The steps of a cleanup by their kind.
LEMMA CleanupKinds ==
  ASSUME NEW s \in Cleanup
  PROVE  /\ s.kind \in {"call", "send", "trust", "block"}
         /\ s.kind = "call" => s \in CleanCalls
         /\ s.kind = "block" => s.inner \in Seq(Closing)
  BY DEF Cleanup, CleanCalls, Calls, Ask

\* The steps ahead by their kind.
LEMMA StepKinds ==
  ASSUME NEW s \in Ahead
  PROVE  /\ s.kind = "call" => s \in Calls
         /\ s.kind = "block" => s.inner \in Bodies(Level5)
         /\ s.kind = "maybe" => s.inner \in Seq(Level5)
         /\ s.kind = "end" => s \in Ends
         /\ s.kind \in {"finally", "undo", "except"} => s \in Marks
         /\ s.kind \in {"record", "cell", "stack"} => s \in RowSteps
         /\ s.kind = "raise" => s.how \in {"error", "return"}
<1> DEFINE L == Level5
<1>1. Level0 \subseteq L /\ Level1 \subseteq L /\ Level2 \subseteq L /\ Level3 \subseteq L /\ Level4 \subseteq L
  BY Levels
<1>2. /\ Bodies(Level0) \subseteq Bodies(L) /\ Bodies(Level1) \subseteq Bodies(L)
      /\ Bodies(Level2) \subseteq Bodies(L) /\ Bodies(Level3) \subseteq Bodies(L)
  BY <1>1, NestGrows
<1>3. ASSUME NEW M \in {Level0, Level1, Level2, Level3, L}, NEW q \in Seq(M)
      PROVE  q \in Seq(L)
  <2>1. M \subseteq L
    BY <1>1, <1>3
  <2> QED BY <2>1, SeqMonotonic
<1>4. ASSUME NEW c \in Cleanup, c.kind = "block"
      PROVE  c.inner \in Bodies(L)
  <2>1. c.inner \in Seq(Closing) /\ Tidy(CleanCalls, c.inner)
    BY <1>4 DEF Cleanup, CleanCalls, Calls, Ask
  <2>2. Closing \subseteq L \cup Marks
    BY <1>1, Levels
  <2>3. c.inner \in Seq(L \cup Marks)
    BY <2>1, <2>2, SeqMonotonic
  <2>4. Tidy(Cleanup, c.inner)
    BY <2>1, Levels DEF Tidy, OnlyUpToEnd
  <2> QED BY <2>3, <2>4 DEF Bodies
<1>5. \/ s \in Level0 \cup RowSteps \cup {Raise("return")} \cup Marks \cup Ends
      \/ s.kind = "block" /\ s.inner \in Bodies(L)
      \/ s.kind = "maybe" /\ s.inner \in Seq(L)
  <2>1. CASE s \in Marks \cup Ends
    BY <2>1
  <2>2. CASE s \in Planned
    <3>1. \/ s \in L
          \/ s.kind = "block" /\ s.inner \in Bodies(L)
          \/ s.kind = "maybe" /\ s.inner \in Seq(L)
      BY <2>2, NestKinds DEF Planned
    <3>2. ASSUME s \in Level4
          PROVE  \/ s \in Level3
                 \/ s.kind = "block" /\ s.inner \in Bodies(L)
                 \/ s.kind = "maybe" /\ s.inner \in Seq(L)
      BY <1>2, <1>3, <3>2, NestKinds DEF Level4
    <3>3. ASSUME s \in Level3
          PROVE  \/ s \in Level2
                 \/ s.kind = "block" /\ s.inner \in Bodies(L)
                 \/ s.kind = "maybe" /\ s.inner \in Seq(L)
      BY <1>2, <1>3, <3>3, NestKinds DEF Level3
    <3>4. ASSUME s \in Level2
          PROVE  \/ s \in Level1
                 \/ s.kind = "block" /\ s.inner \in Bodies(L)
                 \/ s.kind = "maybe" /\ s.inner \in Seq(L)
      BY <1>2, <1>3, <3>4, NestKinds DEF Level2
    <3>5. ASSUME s \in Level1
          PROVE  \/ s \in Level0
                 \/ s.kind = "block" /\ s.inner \in Bodies(L)
                 \/ s.kind = "maybe" /\ s.inner \in Seq(L)
      BY <1>2, <1>3, <3>5, NestKinds DEF Level1
    <3> QED BY <3>1, <3>2, <3>3, <3>4, <3>5 DEF Level5, Returning
  <2> QED BY <2>1, <2>2 DEF Ahead
<1> HIDE DEF L
<1>6. CASE s \in Level0
  <2>1. CASE s \in Calls
    BY <2>1 DEF Calls
  <2>2. CASE s \in Cleanup
    <3>1. s.kind \in {"call", "send", "trust", "block"}
      BY <2>2, CleanupKinds
    <3>2. s.kind = "call" => s \in Calls
      BY <2>2, CleanupKinds, Levels
    <3>3. s.kind = "block" => s.inner \in Bodies(Level5)
      BY <1>4, <2>2 DEF L
    <3> QED BY <3>1, <3>2, <3>3
  <2>3. CASE s = Raise("error")
    BY <2>3 DEF Raise
  <2>4. CASE s = Ask("verdict")
    BY <2>4 DEF Ask
  <2> QED BY <1>6, <2>1, <2>2, <2>3, <2>4 DEF Level0
<1>7. CASE s \in RowSteps
  BY <1>7 DEF RowSteps
<1>8. CASE s \in Marks \cup Ends
  BY <1>8 DEF Marks, Ends
<1>9. CASE s = Raise("return")
  BY <1>9 DEF Raise
<1> QED BY <1>5, <1>6, <1>7, <1>8, <1>9 DEF L

-----------------------------------------------------------------------------
(* How the sequence of the steps ahead moves.                              *)

\* An exception in flight has a place where it will be raised again.
InFlight(r, t) == t # <<>> /\ r # "no" => EndBehind(t, 0)

\* The next step, and what is left without it.
LEMMA NextStep ==
  ASSUME NEW t, Sound(t), t # <<>>
  PROVE  /\ Len(t) \in Nat /\ Len(t) >= 1 /\ Head(t) = t[1] /\ t[1] \in Ahead
         /\ Sound(Tail(t)) /\ Without(Tail(t), t, 1)
<1>1. t \in Seq(Ahead)
  BY DEF Sound
<1>2. /\ Len(t) \in Nat /\ Len(t) >= 1 /\ Head(t) = t[1] /\ Head(t) \in Ahead
      /\ Tail(t) \in Seq(Ahead) /\ Without(Tail(t), t, 1)
  BY <1>1, HeadAndTail
<1> QED BY <1>2, SoundSuffix

\* Past a step that is no end, what was in flight still is.
LEMMA TailInFlight ==
  ASSUME NEW t, Sound(t), t # <<>>, t[1].kind # "end", NEW r, InFlight(r, t)
  PROVE  (r # "no" => EndBehind(Tail(t), 0)) /\ InFlight(r, Tail(t))
<1>1. /\ Len(t) \in Nat /\ Len(t) >= 1 /\ Len(Tail(t)) = Len(t) - 1
      /\ \A i \in 1 .. Len(Tail(t)) : Tail(t)[i] = t[1 + i]
  BY NextStep DEF Without
<1>2. ASSUME r # "no"
      PROVE  EndBehind(Tail(t), 0)
  <2>1. PICK k \in 0 + 1 .. Len(t) : t[k].kind = "end"
    BY <1>2 DEF InFlight, EndBehind
  <2>2. k # 1
    BY <2>1
  <2>3. k - 1 \in 0 + 1 .. Len(Tail(t)) /\ k - 1 \in 1 .. Len(Tail(t)) /\ 1 + (k - 1) = k
    BY <1>1, <2>2
  <2>4. Tail(t)[k - 1] = t[k]
    BY <1>1, <2>3
  <2> QED BY <2>1, <2>3, <2>4 DEF EndBehind
<1> QED BY <1>2 DEF InFlight

\* ... and a CancelledError is still under way.
LEMMA TailCancelling ==
  ASSUME NEW t, Sound(t), t # <<>>, t[1].kind # "end", NEW r, Cancelling(r, t)
  PROVE  Cancelling(r, Tail(t))
<1>1. /\ Len(t) \in Nat /\ Len(t) >= 1 /\ Len(Tail(t)) = Len(t) - 1
      /\ \A i \in 1 .. Len(Tail(t)) : Tail(t)[i] = t[1 + i]
      /\ Without(Tail(t), t, 1)
  BY NextStep DEF Without
<1>2. CASE r = "cancel" /\ OnlyUpToEnd(Cleanup, t, 0)
  <2>1. OnlyUpToEnd(Cleanup, t, 1 + 0)
    <3>1. ASSUME NEW k \in (1 + 0) + 1 .. Len(t), \A m \in (1 + 0) + 1 .. k : t[m].kind # "end"
          PROVE  t[k] \in Cleanup
      <4>1. k \in 0 + 1 .. Len(t) /\ \A m \in 0 + 1 .. k : m = 1 \/ m \in (1 + 0) + 1 .. k
        BY <1>1
      <4>2. \A m \in 0 + 1 .. k : t[m].kind # "end"
        BY <3>1, <4>1
      <4> QED BY <1>2, <4>1, <4>2 DEF OnlyUpToEnd
    <3> QED BY <3>1 DEF OnlyUpToEnd
  <2>2. OnlyUpToEnd(Cleanup, Tail(t), 0)
    BY <1>1, <2>1, OnlyOfSuffix
  <2> QED BY <1>2, <2>2 DEF Cancelling
<1>3. CASE /\ r = "no"
           /\ \E i \in 1 .. Len(t) :
                /\ t[i] = End("cancel") /\ OnlyUpToEnd(Cleanup, t, i)
                /\ \A k \in 1 .. i - 1 : t[k] \in Closing
  <2>1. PICK i \in 1 .. Len(t) :
               /\ t[i] = End("cancel") /\ OnlyUpToEnd(Cleanup, t, i)
               /\ \A k \in 1 .. i - 1 : t[k] \in Closing
    BY <1>3
  <2>2. i # 1
    BY <2>1 DEF End
  <2>3. i - 1 \in 1 .. Len(Tail(t)) /\ i - 1 \in Nat /\ 1 + (i - 1) = i
    BY <1>1, <2>2
  <2>4. Tail(t)[i - 1] = End("cancel")
    BY <1>1, <2>1, <2>3
  <2>5. OnlyUpToEnd(Cleanup, Tail(t), i - 1)
    BY <1>1, <2>1, <2>3, OnlyOfSuffix
  <2>6. ASSUME NEW k \in 1 .. (i - 1) - 1
        PROVE  Tail(t)[k] \in Closing
    <3>1. k \in 1 .. Len(Tail(t)) /\ 1 + k \in 1 .. i - 1
      BY <1>1, <2>3
    <3> QED BY <1>1, <2>1, <3>1
  <2> QED BY <1>3, <2>3, <2>4, <2>5, <2>6 DEF Cancelling
<1> QED BY <1>2, <1>3 DEF Cancelling

\* Where an exception lands on a mark: what is ahead then, of the same steps,
\* has a place to raise it again, and is a cleanup if it is not caught.
LEMMA LandingAt ==
  ASSUME NEW rest, Sound(rest), NEW i \in 1 .. Len(rest),
         rest[i].kind \in {"finally", "undo", "except"}
  PROVE  LET t == rest[i].handler \o SubSeq(rest, i + 1, Len(rest))
         IN /\ rest[i] \in Marks /\ Sound(t) /\ EndBehind(t, 0)
            /\ rest[i].kind # "except" => OnlyUpToEnd(Cleanup, t, 0)
            /\ \A S : rest \in Seq(S) /\ rest[i].handler \in Seq(S) => t \in Seq(S)
<1> DEFINE m == rest[i]
           beyond == SubSeq(rest, i + 1, Len(rest))
           t == m.handler \o beyond
<1>1. rest \in Seq(Ahead) /\ Len(rest) \in Nat /\ i \in Nat
  BY LenProperties DEF Sound
<1>2. m \in Marks
  <2>1. rest[i] \in Ahead
    BY <1>1, ElementOfSeq
  <2> QED BY <2>1, StepKinds
<1>3. m.handler \in Seq(Cleanup)
  BY <1>2 DEF Marks
<1>4. beyond \in Seq(Ahead) /\ Without(beyond, rest, i)
  BY <1>1, Beyond
<1>5. Sound(beyond)
  BY <1>1, <1>4, SoundSuffix
<1>6. EndBehind(beyond, 0)
  <2>1. EndBehind(rest, i)
    BY <1>2 DEF Sound, Closed
  <2>2. PICK k \in i + 1 .. Len(rest) : rest[k].kind = "end"
    BY <2>1 DEF EndBehind
  <2>3. /\ k - i \in 0 + 1 .. Len(beyond) /\ k - i \in 1 .. Len(beyond) /\ i + (k - i) = k
    BY <1>1, <1>4 DEF Without
  <2>4. beyond[k - i] = rest[k]
    BY <1>4, <2>3 DEF Without
  <2> QED BY <2>2, <2>3, <2>4 DEF EndBehind
<1>7. ASSUME m.kind # "except"
      PROVE  OnlyUpToEnd(Cleanup, beyond, 0)
  <2>1. rest[i].kind \in {"finally", "undo"}
    BY <1>7
  <2>2. OnlyUpToEnd(Cleanup, rest, i + 0)
    BY <2>1 DEF Sound, Tidy
  <2> QED BY <1>1, <1>4, <2>2, OnlyOfSuffix
<1>8. ASSUME NEW S, rest \in Seq(S), m.handler \in Seq(S)
      PROVE  t \in Seq(S)
  <2>1. beyond \in Seq(S)
    BY <1>8, Beyond
  <2> QED BY <1>8, <2>1, ConcatProperties
<1> HIDE DEF m, beyond
<1>9. Sound(t)
  BY <1>3, <1>5, FlatLevels, Levels, SoundPrefix
<1>10. /\ Len(m.handler) \in Nat /\ Len(beyond) \in Nat
       /\ Len(t) = Len(m.handler) + Len(beyond)
       /\ \A k \in 1 .. Len(m.handler) : t[k] = m.handler[k]
       /\ \A k \in 1 .. Len(beyond) : t[Len(m.handler) + k] = beyond[k]
  <2>1. m.handler \in Seq(Ahead)
    BY <1>3, Levels, SeqMonotonic
  <2> QED BY <1>4, <2>1, Joined
<1> HIDE DEF t
<1>11. EndBehind(t, 0)
  <2>1. PICK k \in 0 + 1 .. Len(beyond) : beyond[k].kind = "end"
    BY <1>6 DEF EndBehind
  <2>2. k \in 1 .. Len(beyond) /\ Len(m.handler) + k \in 0 + 1 .. Len(t)
    BY <1>10
  <2>3. t[Len(m.handler) + k].kind = "end"
    BY <1>10, <2>1, <2>2
  <2> QED BY <2>2, <2>3 DEF EndBehind
<1>12. ASSUME m.kind # "except"
       PROVE  OnlyUpToEnd(Cleanup, t, 0)
  <2>1. ASSUME NEW k \in 0 + 1 .. Len(t), \A j \in 0 + 1 .. k : t[j].kind # "end"
        PROVE  t[k] \in Cleanup
    <3>1. CASE k \in 1 .. Len(m.handler)
      BY <1>3, <1>10, <3>1, ElementOfSeq
    <3>2. CASE k \notin 1 .. Len(m.handler)
      <4>1. /\ k - Len(m.handler) \in 0 + 1 .. Len(beyond)
            /\ k - Len(m.handler) \in 1 .. Len(beyond)
            /\ Len(m.handler) + (k - Len(m.handler)) = k
        BY <1>10, <3>2
      <4>2. ASSUME NEW j \in 0 + 1 .. k - Len(m.handler)
            PROVE  beyond[j].kind # "end"
        <5>1. j \in 1 .. Len(beyond) /\ Len(m.handler) + j \in 0 + 1 .. k
          BY <1>10, <4>1
        <5> QED BY <1>10, <2>1, <5>1
      <4>3. beyond[k - Len(m.handler)] \in Cleanup
        BY <1>7, <1>12, <4>1, <4>2 DEF OnlyUpToEnd
      <4> QED BY <1>10, <4>1, <4>3
    <3> QED BY <3>1, <3>2
  <2> QED BY <2>1 DEF OnlyUpToEnd
<1> QED BY <1>2, <1>8, <1>9, <1>11, <1>12 DEF m, beyond, t

\* What an exception leaves ahead is sound; where it lands on a mark it is
\* in flight, unless an except clause caught an error; and a CancelledError
\* lands before a cleanup.
LEMMA Landing ==
  ASSUME NEW rest, Sound(rest), NEW how \in {"error", "cancel", "return"}, Unwind(rest, how),
         caught \in BOOLEAN
  PROVE  /\ Sound(todo') /\ InFlight(raised', todo')
         /\ raised' = how \/ (raised' = "no" /\ how = "error")
         /\ caught' \in BOOLEAN
         /\ how = "cancel" => Cancelling(raised', todo')
<1>1. CASE \E i \in 1 .. Len(rest) :
             /\ Lands(rest[i], how) /\ \A j \in 1 .. i - 1 : ~ Lands(rest[j], how)
             /\ todo' = rest[i].handler \o SubSeq(rest, i + 1, Len(rest))
             /\ IF rest[i].kind = "except" THEN raised' = "no" /\ caught' = TRUE
                                           ELSE raised' = how /\ UNCHANGED caught
  <2>1. PICK i \in 1 .. Len(rest) :
             /\ Lands(rest[i], how)
             /\ todo' = rest[i].handler \o SubSeq(rest, i + 1, Len(rest))
             /\ IF rest[i].kind = "except" THEN raised' = "no" /\ caught' = TRUE
                                           ELSE raised' = how /\ UNCHANGED caught
    BY <1>1
  <2>2. /\ rest[i].kind \in {"finally", "undo", "except"}
        /\ rest[i].kind = "except" => how = "error"
    BY <2>1 DEF Lands
  <2>3. /\ Sound(todo') /\ EndBehind(todo', 0)
        /\ rest[i].kind # "except" => OnlyUpToEnd(Cleanup, todo', 0)
    BY <2>1, <2>2, LandingAt
  <2>4. \/ raised' = "no" /\ how = "error" /\ caught' = TRUE
        \/ raised' = how /\ caught' = caught
    BY <2>1, <2>2
  <2>5. how = "cancel" => raised' = "cancel" /\ OnlyUpToEnd(Cleanup, todo', 0)
    BY <2>2, <2>3, <2>4
  <2> QED BY <2>3, <2>4, <2>5 DEF Cancelling, InFlight
<1>2. CASE /\ \A i \in 1 .. Len(rest) : ~ Lands(rest[i], how)
           /\ todo' = <<>> /\ raised' = how /\ UNCHANGED caught
  <2>1. Sound(todo')
    BY <1>2, PlannedIsSound
  <2>2. InFlight(raised', todo')
    BY <1>2 DEF InFlight
  <2>3. OnlyUpToEnd(Cleanup, todo', 0)
    BY <1>2, EmptySeq DEF OnlyUpToEnd
  <2> QED BY <1>2, <2>1, <2>2, <2>3 DEF Cancelling
<1> QED BY <1>1, <1>2 DEF Unwind

\* While a CancelledError is under way, a step that is no end is of a cleanup
\* and what it raises replaces the CancelledError.
LEMMA CancellingStep ==
  ASSUME Sound(todo), todo # <<>>, Step.kind # "end", Cancelling(raised, todo)
  PROVE  /\ Unwinding
         /\ \/ raised = "cancel" /\ Step \in Cleanup
            \/ raised = "no" /\ Step \in Closing
<1>1. Len(todo) \in Nat /\ Len(todo) >= 1 /\ Step = todo[1]
  BY NextStep DEF Step
<1>2. CASE raised = "cancel" /\ OnlyUpToEnd(Cleanup, todo, 0)
  <2>1. 1 \in 0 + 1 .. Len(todo) /\ \A m \in 0 + 1 .. 1 : todo[m].kind # "end"
    BY <1>1
  <2>2. todo[1] \in Cleanup
    BY <1>2, <2>1 DEF OnlyUpToEnd
  <2> QED BY <1>1, <1>2, <2>2 DEF Unwinding
<1>3. CASE /\ raised = "no"
           /\ \E i \in 1 .. Len(todo) :
                /\ todo[i] = End("cancel") /\ OnlyUpToEnd(Cleanup, todo, i)
                /\ \A k \in 1 .. i - 1 : todo[k] \in Closing
  <2>1. PICK i \in 1 .. Len(todo) :
               todo[i] = End("cancel") /\ \A k \in 1 .. i - 1 : todo[k] \in Closing
    BY <1>3
  <2>2. i # 1
    BY <1>1, <2>1 DEF End
  <2>3. 1 \in 1 .. i - 1
    BY <1>1, <2>2
  <2> QED BY <1>1, <1>3, <2>1, <2>3 DEF Unwinding
<1> QED BY <1>2, <1>3 DEF Cancelling

\* The call at which a CancelledError can be replaced.
LEMMA CancellingCall ==
  ASSUME Sound(todo), At("call"), Cancelling(raised, todo)
  PROVE  Unwinding /\ Step \in CleanCalls
<1>1. todo # <<>> /\ Step.kind = "call"
  BY DEF At
<1>2. Unwinding /\ (Step \in Cleanup \/ Step \in Closing)
  BY <1>1, CancellingStep
<1>3. Step \in CleanCalls
  BY <1>1, <1>2, CleanupKinds DEF Closing, Mark
<1> QED BY <1>2, <1>3

\* A step that is done and is no end.
LEMMA Advance ==
  ASSUME StepsInv, todo # <<>>, Step.kind # "end", Continue
  PROVE  /\ Sound(todo') /\ InFlight(raised', todo')
         /\ raised' \in Kinds /\ caught' \in BOOLEAN
         /\ Cancelling(raised, todo) => Cancelling(raised', todo')
<1>1. Sound(todo) /\ InFlight(raised, todo) /\ raised \in Kinds /\ caught \in BOOLEAN
  BY DEF StepsInv, TypeOK, InFlight, EndBehind, Ended, Kinds
<1>2. todo' = Tail(todo) /\ raised' = raised /\ caught' = caught
  BY DEF Continue
<1>3. Step = todo[1] /\ Sound(Tail(todo))
  BY <1>1, NextStep DEF Step
<1>4. InFlight(raised, Tail(todo))
  BY <1>1, <1>3, TailInFlight
<1>5. Cancelling(raised, todo) => Cancelling(raised, Tail(todo))
  BY <1>1, <1>3, TailCancelling
<1> QED BY <1>1, <1>2, <1>3, <1>4, <1>5

\* A step that raises.
LEMMA Throwing ==
  ASSUME StepsInv, todo # <<>>, NEW how \in {"error", "cancel", "return"}, Unwind(Tail(todo), how)
  PROVE  /\ Sound(todo') /\ InFlight(raised', todo')
         /\ raised' \in Kinds /\ caught' \in BOOLEAN
         /\ how = "cancel" => Cancelling(raised', todo')
<1>1. Sound(todo) /\ caught \in BOOLEAN
  BY DEF StepsInv, TypeOK
<1>2. Sound(Tail(todo))
  BY <1>1, NextStep
<1>3. /\ Sound(todo') /\ InFlight(raised', todo')
      /\ raised' = how \/ (raised' = "no" /\ how = "error")
      /\ caught' \in BOOLEAN
      /\ how = "cancel" => Cancelling(raised', todo')
  BY <1>1, <1>2, Landing
<1> QED BY <1>3 DEF Kinds

\* A call that fails: if a CancelledError was under way, either it still is
\* or the call is one of Smothering.
LEMMA Erring ==
  ASSUME StepsInv, At("call"), Errs, "error" \in Step.can \/ ~ Possible(Step)
  PROVE  /\ Step \in Calls
         /\ Sound(todo') /\ InFlight(raised', todo')
         /\ raised' \in Kinds /\ caught' \in BOOLEAN
         /\ smothered \subseteq smothered' /\ smothered' \subseteq CallNames \cup {"send"}
         /\ interrupted => smothered' \cap Smothering # {} \/ Cancelling(raised', todo')
<1>1. Sound(todo) /\ CancelInv /\ smothered \subseteq CallNames \cup {"send"}
  BY DEF StepsInv, TypeOK
<1>2. todo # <<>> /\ Step.kind = "call"
  BY DEF At
<1>3. Step \in Calls
  BY <1>1, <1>2, NextStep, StepKinds DEF Step
<1>4. CASE Step.soft
  <2>1. Continue /\ smothered' = smothered
    BY <1>4 DEF Errs
  <2>2. /\ Sound(todo') /\ InFlight(raised', todo')
        /\ raised' \in Kinds /\ caught' \in BOOLEAN
        /\ Cancelling(raised, todo) => Cancelling(raised', todo')
    BY <1>2, <2>1, Advance
  <2> QED BY <1>1, <1>3, <2>1, <2>2 DEF CancelInv
<1>5. CASE ~ Step.soft
  <2>1. /\ Unwind(Tail(todo), "error")
        /\ smothered' = IF Unwinding THEN smothered \cup {Step.call} ELSE smothered
    BY <1>5 DEF Errs
  <2>2. /\ Sound(todo') /\ InFlight(raised', todo')
        /\ raised' \in Kinds /\ caught' \in BOOLEAN
    BY <1>2, <2>1, Throwing
  <2>3. smothered \subseteq smothered' /\ smothered' \subseteq CallNames \cup {"send"}
    BY <1>1, <1>3, <2>1 DEF Calls
  <2>4. ASSUME Cancelling(raised, todo)
        PROVE  smothered' \cap Smothering # {}
    <3>1. Unwinding /\ Step \in CleanCalls
      BY <1>1, <2>4, CancellingCall
    <3>2. Step.call \in Smothering
      BY <1>5, <3>1 DEF CleanCalls, Possible
    <3> QED BY <2>1, <3>1, <3>2
  <2> QED BY <1>1, <1>3, <2>2, <2>3, <2>4 DEF CancelInv
<1> QED BY <1>4, <1>5

-----------------------------------------------------------------------------
(* The actions of Coroutine.                                               *)

\* The invariant in parts, as the actions change them.
LEMMA StepsInvParts ==
  /\ StepsInv => /\ job \in Jobs /\ job \in Job /\ raised \in Kinds
                 /\ held \subseteq Resources /\ before \subseteq Resources
                 /\ caught \in BOOLEAN /\ interrupted \in BOOLEAN /\ lost \subseteq Measuring /\ paired \in BOOLEAN
                 /\ faults \in 0 .. MaxFaults /\ failed \subseteq CallNames \cup Children \cup {"link"}
                 /\ smothered \subseteq CallNames \cup {"send"} /\ results \in Seq(Rows)
                 /\ Sound(todo) /\ InFlight(raised, todo)
                 /\ interrupted => smothered \cap Smothering # {} \/ Cancelling(raised, todo)
  /\ /\ job' \in Jobs /\ raised' \in Kinds
     /\ held' \subseteq Resources /\ before' \subseteq Resources
     /\ caught' \in BOOLEAN /\ interrupted' \in BOOLEAN /\ lost' \subseteq Measuring /\ paired' \in BOOLEAN
     /\ faults' \in 0 .. MaxFaults /\ failed' \subseteq CallNames \cup Children \cup {"link"}
     /\ smothered' \subseteq CallNames \cup {"send"} /\ results' \in Seq(Rows)
     /\ Sound(todo') /\ InFlight(raised', todo')
     /\ interrupted' => smothered' \cap Smothering # {} \/ Cancelling(raised', todo')
     => StepsInv'
<1>1. ASSUME StepsInv
      PROVE  job \in Job
  BY <1>1, JobsAssumption DEF StepsInv, TypeOK
<1>2. ASSUME StepsInv
      PROVE  InFlight(raised, todo) /\ raised \in Kinds
  BY <1>2 DEF StepsInv, TypeOK, InFlight, EndBehind, Ended, Kinds
<1>3. ASSUME StepsInv
      PROVE  /\ job \in Jobs /\ held \subseteq Resources /\ before \subseteq Resources
             /\ faults \in 0 .. MaxFaults /\ failed \subseteq CallNames \cup Children \cup {"link"}
             /\ smothered \subseteq CallNames \cup {"send"} /\ results \in Seq(Rows)
  BY <1>3 DEF StepsInv, TypeOK
<1>4. ASSUME StepsInv
      PROVE  caught \in BOOLEAN /\ interrupted \in BOOLEAN /\ lost \subseteq Measuring /\ paired \in BOOLEAN
  BY <1>4 DEF StepsInv, TypeOK
<1>5. ASSUME StepsInv
      PROVE  /\ Sound(todo)
             /\ interrupted => smothered \cap Smothering # {} \/ Cancelling(raised, todo)
  BY <1>5 DEF StepsInv, CancelInv
<1>6. ASSUME /\ job' \in Jobs /\ raised' \in Kinds
             /\ held' \subseteq Resources /\ before' \subseteq Resources
             /\ caught' \in BOOLEAN /\ interrupted' \in BOOLEAN /\ lost' \subseteq Measuring /\ paired' \in BOOLEAN
             /\ faults' \in 0 .. MaxFaults /\ failed' \subseteq CallNames \cup Children \cup {"link"}
             /\ smothered' \subseteq CallNames \cup {"send"} /\ results' \in Seq(Rows)
             /\ Sound(todo') /\ InFlight(raised', todo')
             /\ interrupted' => smothered' \cap Smothering # {} \/ Cancelling(raised', todo')
      PROVE  StepsInv'
  <2>1. (~ Ended /\ raised # "no" => \E i \in 1 .. Len(todo) : todo[i].kind = "end")'
    BY <1>6 DEF InFlight, EndBehind, Ended
  <2>2. {caught', interrupted', paired'} \subseteq BOOLEAN
    BY <1>6
  <2>3. TypeOK'
    BY <1>6, <2>1, <2>2 DEF TypeOK, Kinds
  <2> QED BY <1>6, <2>3 DEF StepsInv, CancelInv
<1> QED BY <1>1, <1>2, <1>3, <1>4, <1>5, <1>6

\* What a call does to the resources.
LEMMA EffectTyped ==
  ASSUME held \subseteq Resources, NEW s \in Calls
  PROVE  /\ Effect(s) \subseteq Resources
         /\ \A h \in Outcomes(s) : h \subseteq Resources
<1>1. Effect(s) \subseteq Resources
  BY DEF Effect, Calls
<1> QED BY <1>1 DEF Outcomes

\* Do, and every step that is passed.
LEMMA DoStep ==
  ASSUME StepsInv, Do, UNCHANGED programVars
  PROVE  StepsInv'
<1>1. todo # <<>> /\ Step.kind = "call" /\ Continue
  BY DEF Do, At
<1>2. Step \in Calls
  BY <1>1, StepsInvParts, NextStep, StepKinds DEF Step
<1>3. held' \subseteq Resources
  BY <1>2, StepsInvParts, EffectTyped DEF Do
<1>4. /\ Sound(todo') /\ InFlight(raised', todo')
      /\ raised' \in Kinds /\ caught' \in BOOLEAN
      /\ Cancelling(raised, todo) => Cancelling(raised', todo')
  BY <1>1, Advance
<1>5. /\ faults' = faults /\ interrupted' = interrupted /\ failed' = failed
      /\ lost' = lost /\ smothered' = smothered
  BY DEF Do, Calm
<1>6. job' = job /\ before' = before /\ results' = results /\ paired' = paired
  BY DEF programVars
<1> QED BY <1>3, <1>4, <1>5, <1>6, StepsInvParts

\* Refused: the error of a call that is not possible.
LEMMA RefusedStep ==
  ASSUME StepsInv, Refused, UNCHANGED programVars
  PROVE  StepsInv'
<1>1. /\ Sound(todo') /\ InFlight(raised', todo')
      /\ raised' \in Kinds /\ caught' \in BOOLEAN
      /\ smothered \subseteq smothered' /\ smothered' \subseteq CallNames \cup {"send"}
      /\ interrupted => smothered' \cap Smothering # {} \/ Cancelling(raised', todo')
  BY Erring DEF Refused
<1>2. /\ faults' = faults /\ interrupted' = interrupted /\ failed' = failed
      /\ lost' = lost /\ held' = held
  BY DEF Refused
<1>3. job' = job /\ before' = before /\ results' = results /\ paired' = paired
  BY DEF programVars
<1> QED BY <1>1, <1>2, <1>3, StepsInvParts

\* Fault: a call raises, and may have had its effect.
LEMMA FaultStep ==
  ASSUME StepsInv, Fault, UNCHANGED programVars
  PROVE  StepsInv'
<1>1. /\ Step \in Calls
      /\ Sound(todo') /\ InFlight(raised', todo')
      /\ raised' \in Kinds /\ caught' \in BOOLEAN
      /\ smothered \subseteq smothered' /\ smothered' \subseteq CallNames \cup {"send"}
      /\ interrupted => smothered' \cap Smothering # {} \/ Cancelling(raised', todo')
  BY Erring DEF Fault
<1>2. held' \subseteq Resources
  BY <1>1, StepsInvParts, EffectTyped DEF Fault
<1>3. faults' \in 0 .. MaxFaults
  BY StepsInvParts, FaultsAssumption DEF Fault, Faulty
<1>4. failed' \subseteq CallNames \cup Children \cup {"link"}
  BY <1>1, StepsInvParts DEF Fault, Calls
<1>5. interrupted' = interrupted /\ lost' = lost
  BY DEF Fault
<1>6. job' = job /\ before' = before /\ results' = results /\ paired' = paired
  BY DEF programVars
<1> QED BY <1>1, <1>2, <1>3, <1>4, <1>5, <1>6, StepsInvParts

\* Interrupt: the CancelledError comes.
LEMMA InterruptStep ==
  ASSUME StepsInv, Interrupt, UNCHANGED programVars
  PROVE  StepsInv'
<1>1. todo # <<>> /\ Step.kind = "call" /\ Unwind(Tail(todo), "cancel")
  BY DEF Interrupt, At
<1>2. Step \in Calls
  BY <1>1, StepsInvParts, NextStep, StepKinds DEF Step
<1>3. /\ Sound(todo') /\ InFlight(raised', todo')
      /\ raised' \in Kinds /\ caught' \in BOOLEAN
      /\ Cancelling(raised', todo')
  BY <1>1, Throwing
<1>4. held' \subseteq Resources
  BY <1>2, StepsInvParts, EffectTyped DEF Interrupt
<1>5. faults' \in 0 .. MaxFaults
  BY StepsInvParts, FaultsAssumption DEF Interrupt, Faulty
<1>6. failed' \subseteq CallNames \cup Children \cup {"link"}
  BY <1>2, StepsInvParts DEF Interrupt, Calls
<1>7. interrupted' = TRUE /\ lost' = lost /\ smothered' = smothered
  BY DEF Interrupt
<1>8. job' = job /\ before' = before /\ results' = results /\ paired' = paired
  BY DEF programVars
<1> QED BY <1>3, <1>4, <1>5, <1>6, <1>7, <1>8, StepsInvParts

\* Steps put before others leave the end behind them where it was.
LEMMA PrefixEnd ==
  ASSUME NEW p \in Seq(Ahead), NEW t, Sound(t), EndBehind(t, 0)
  PROVE  EndBehind(p \o t, 0)
<1>1. /\ Len(p) \in Nat /\ Len(t) \in Nat /\ Len(p \o t) = Len(p) + Len(t)
      /\ \A i \in 1 .. Len(t) : (p \o t)[Len(p) + i] = t[i]
  <2>1. t \in Seq(Ahead)
    BY DEF Sound
  <2> QED BY <2>1, Joined
<1>2. PICK k \in 0 + 1 .. Len(t) : t[k].kind = "end"
  BY DEF EndBehind
<1>3. k \in 1 .. Len(t) /\ Len(p) + k \in 0 + 1 .. Len(p \o t)
  BY <1>1
<1> QED BY <1>1, <1>2, <1>3 DEF EndBehind

\* A step that is replaced by planned ones, if no CancelledError is under way.
LEMMA Replaced ==
  ASSUME StepsInv, todo # <<>>, Step.kind # "end", NEW p \in Seq(Level5),
         todo' = p \o Tail(todo), raised' = raised
  PROVE  Sound(todo') /\ InFlight(raised', todo')
<1>1. Sound(todo) /\ InFlight(raised, todo)
  BY StepsInvParts
<1>2. Step = todo[1] /\ Sound(Tail(todo))
  BY <1>1, NextStep DEF Step
<1>3. raised # "no" => EndBehind(Tail(todo), 0)
  BY <1>1, <1>2, TailInFlight
<1>4. Level5 \subseteq Ahead /\ Flat(Level5)
  BY FlatLevels, Levels
<1>5. p \in Seq(Ahead)
  BY <1>4, SeqMonotonic
<1>6. Sound(todo')
  BY <1>2, <1>4, SoundPrefix
<1>7. raised # "no" => EndBehind(p \o Tail(todo), 0)
  BY <1>2, <1>3, <1>5, PrefixEnd
<1> QED BY <1>6, <1>7 DEF InFlight

\* Enter: a block is opened, its end keeps what was in flight.
LEMMA EnterStep ==
  ASSUME StepsInv, Enter, UNCHANGED programVars
  PROVE  StepsInv'
<1> DEFINE b == Step.inner
           t == Tail(todo)
           u == <<End(raised)>> \o t
<1>1. /\ todo # <<>> /\ Step.kind = "block"
      /\ todo' = b \o <<End(raised)>> \o t /\ raised' = "no"
      /\ held' = held /\ caught' = caught
  BY DEF Enter, At
<1>2. /\ Sound(todo) /\ InFlight(raised, todo) /\ raised \in Kinds
  BY StepsInvParts
<1>3. Step = todo[1] /\ Step \in Ahead /\ Sound(t)
  BY <1>1, <1>2, NextStep DEF Step
<1>4. b \in Bodies(Level5)
  BY <1>1, <1>3, StepKinds
<1>5. raised # "no" => EndBehind(t, 0)
  BY <1>1, <1>2, <1>3, TailInFlight
<1>6. /\ Sound(u) /\ Len(u) = 1 + Len(t) /\ u[1] = End(raised) /\ Without(t, u, 1)
  BY <1>2, <1>3, <1>5, SoundEnd
<1>7. Level5 \subseteq Ahead
  BY Levels
<1>8. Len(t) \in Nat /\ Len(u) \in Nat
  BY <1>3, <1>6, LenProperties DEF Sound
<1>9. b \in Seq(Ahead) /\ u \in Seq(Ahead) /\ <<End(raised)>> \in Seq(Ahead) /\ t \in Seq(Ahead)
  <2>1. Level5 \cup Marks \subseteq Ahead
    BY <1>7 DEF Ahead
  <2>2. b \in Seq(Ahead)
    BY <1>4, <2>1, SeqMonotonic DEF Bodies
  <2>3. End(raised) \in Ahead
    BY <1>2 DEF End, Ends, Ahead
  <2> QED BY <1>3, <1>6, <2>2, <2>3 DEF Sound
<1>10. todo' = b \o u
  <2>1. PICK p, x, q : p = b /\ x = <<End(raised)>> /\ q = t
    OBVIOUS
  <2>2. p \in Seq(Ahead) /\ x \in Seq(Ahead) /\ q \in Seq(Ahead)
    BY <1>9, <2>1
  <2>3. (p \o x) \o q = p \o (x \o q)
    BY <2>2, ConcatAssociative
  <2> QED BY <1>1, <2>1, <2>3
<1> HIDE DEF b, u, t
<1>11. Sound(todo')
  <2>1. Len(u) >= 1 /\ u[1].kind = "end"
    BY <1>6, <1>8 DEF End
  <2> QED BY <1>4, <1>6, <1>7, <1>10, <2>1, SoundBody
<1>12. ASSUME Cancelling(raised, todo)
       PROVE  Cancelling("no", todo')
  <2>1. \/ raised = "cancel" /\ Step \in Cleanup
        \/ raised = "no" /\ Step \in Closing
    BY <1>1, <1>2, <1>12, CancellingStep
  <2>2. Step \notin Closing
    BY <1>1 DEF Closing, CleanCalls, Calls, Mark
  <2>3. raised = "cancel" /\ b \in Seq(Closing)
    BY <1>1, <2>1, <2>2, CleanupKinds DEF b
  <2>4. Cancelling(raised, t)
    BY <1>1, <1>2, <1>3, <1>12, TailCancelling DEF t
  <2>5. OnlyUpToEnd(Cleanup, t, 0)
    BY <2>3, <2>4 DEF Cancelling
  <2>6. OnlyUpToEnd(Cleanup, u, 1 + 0)
    BY <1>6, <1>8, <2>5, OnlyOfWhole
  <2>7. /\ Len(b) \in Nat /\ Len(todo') = Len(b) + Len(u)
        /\ \A k \in 1 .. Len(b) : todo'[k] = b[k]
        /\ \A k \in 1 .. Len(u) : todo'[Len(b) + k] = u[k]
    BY <1>9, <1>10, Joined
  <2>8. Without(u, todo', Len(b))
    BY <1>8, <2>7 DEF Without
  <2>9. OnlyUpToEnd(Cleanup, todo', Len(b) + 1)
    <3>1. Len(todo') \in Nat /\ 1 + 0 = 1 /\ 1 \in Nat
      BY <1>8, <2>7
    <3> QED BY <2>6, <2>7, <2>8, <3>1, OnlyOfWhole
  <2>10. Len(b) + 1 \in 1 .. Len(todo') /\ todo'[Len(b) + 1] = End("cancel")
    <3>1. 1 \in 1 .. Len(u)
      BY <1>6, <1>8
    <3> QED BY <1>6, <1>8, <2>3, <2>7, <3>1
  <2>11. ASSUME NEW k \in 1 .. (Len(b) + 1) - 1
         PROVE  todo'[k] \in Closing
    <3>1. k \in 1 .. Len(b)
      BY <2>7
    <3> QED BY <2>3, <2>7, <3>1, ElementOfSeq
  <2> QED BY <2>9, <2>10, <2>11 DEF Cancelling
<1>13. /\ faults' = faults /\ interrupted' = interrupted /\ failed' = failed
       /\ lost' = lost /\ smothered' = smothered
  BY DEF Enter, Calm
<1>14. job' = job /\ before' = before /\ results' = results /\ paired' = paired
  BY DEF programVars
<1>15. InFlight(raised', todo') /\ raised' \in Kinds
  BY <1>1 DEF InFlight, Kinds
<1> QED BY <1>1, <1>11, <1>12, <1>13, <1>14, <1>15, StepsInvParts

\* Pass and PassUndo: a mark without an exception.
LEMMA PassStep ==
  ASSUME StepsInv, Pass \/ PassUndo, UNCHANGED programVars
  PROVE  StepsInv'
<1>1. todo # <<>> /\ Step.kind # "end" /\ Continue /\ held' = held /\ Calm
  BY DEF Pass, PassUndo, At
<1>2. /\ Sound(todo') /\ InFlight(raised', todo')
      /\ raised' \in Kinds /\ caught' \in BOOLEAN
      /\ Cancelling(raised, todo) => Cancelling(raised', todo')
  BY <1>1, Advance
<1>3. /\ faults' = faults /\ interrupted' = interrupted /\ failed' = failed
      /\ lost' = lost /\ smothered' = smothered
  BY <1>1 DEF Calm
<1>4. job' = job /\ before' = before /\ results' = results /\ paired' = paired
  BY DEF programVars
<1> QED BY <1>1, <1>2, <1>3, <1>4, StepsInvParts

\* Past an end that keeps an exception there is another.
LEMMA EndOfTail ==
  ASSUME NEW t, Sound(t), t # <<>>, t[1] \in Ends, t[1].saved # "no"
  PROVE  EndBehind(Tail(t), 0)
<1>1. Len(t) \in Nat /\ Len(t) >= 1 /\ Without(Tail(t), t, 1)
  BY NextStep
<1>2. 1 \in 1 .. Len(t)
  BY <1>1
<1>3. EndBehind(t, 1)
  BY <1>2 DEF Sound, Closed
<1>4. PICK k \in 1 + 1 .. Len(t) : t[k].kind = "end"
  BY <1>3 DEF EndBehind
<1>5. k - 1 \in 0 + 1 .. Len(Tail(t)) /\ k - 1 \in 1 .. Len(Tail(t)) /\ 1 + (k - 1) = k
  BY <1>1 DEF Without
<1>6. Tail(t)[k - 1] = t[k]
  BY <1>1, <1>5 DEF Without
<1> QED BY <1>4, <1>5, <1>6 DEF EndBehind

\* Leave: the end of a block raises again what it kept, or what is in flight.
LEMMA LeaveStep ==
  ASSUME StepsInv, Leave, UNCHANGED programVars
  PROVE  StepsInv'
<1>1. todo # <<>> /\ Step.kind = "end" /\ held' = held /\ Calm
  BY DEF Leave, At
<1>2. Sound(todo) /\ raised \in Kinds /\ caught \in BOOLEAN
  BY StepsInvParts
<1>3. /\ Step = todo[1] /\ Step \in Ahead /\ Sound(Tail(todo)) /\ Without(Tail(todo), todo, 1)
      /\ Len(todo) \in Nat /\ Len(todo) >= 1
  BY <1>1, <1>2, NextStep DEF Step
<1>4. Step \in Ends
  BY <1>1, <1>3, StepKinds
<1>5. /\ Sound(todo') /\ InFlight(raised', todo')
      /\ raised' \in Kinds /\ caught' \in BOOLEAN
      /\ Cancelling(raised, todo) => Cancelling(raised', todo')
  <2>1. CASE raised = "no"
    <3>1. todo' = Tail(todo) /\ raised' = Step.saved /\ caught' = caught
      BY <2>1 DEF Leave
    <3>2. Step.saved # "no" => EndBehind(Tail(todo), 0)
      BY <1>1, <1>2, <1>3, <1>4, EndOfTail
    <3>3. ASSUME Cancelling(raised, todo)
          PROVE  Cancelling(Step.saved, Tail(todo))
      <4>1. PICK i \in 1 .. Len(todo) :
                   /\ todo[i] = End("cancel") /\ OnlyUpToEnd(Cleanup, todo, i)
                   /\ \A k \in 1 .. i - 1 : todo[k] \in Closing
        BY <2>1, <3>3 DEF Cancelling
      <4>2. i = 1
        <5>1. ASSUME i # 1
              PROVE  FALSE
          <6>1. todo[1] \in Closing
            BY <1>3, <4>1, <5>1
          <6> QED BY <1>1, <1>3, <6>1 DEF Closing, CleanCalls, Calls, Mark
        <5> QED BY <5>1
      <4>3. Step.saved = "cancel" /\ OnlyUpToEnd(Cleanup, todo, 1 + 0)
        BY <1>3, <4>1, <4>2 DEF End
      <4>4. OnlyUpToEnd(Cleanup, Tail(todo), 0)
        BY <1>3, <4>3, OnlyOfSuffix
      <4> QED BY <4>3, <4>4 DEF Cancelling
    <3> QED BY <1>2, <1>3, <1>4, <3>1, <3>2, <3>3 DEF InFlight, Ends
  <2>2. CASE raised # "no"
    <3>1. raised \in {"error", "cancel", "return"} /\ Unwind(Tail(todo), raised)
      BY <1>2, <2>2 DEF Leave, Kinds
    <3>2. Cancelling(raised, todo) => raised = "cancel"
      BY <2>2 DEF Cancelling
    <3> QED BY <1>1, <3>1, <3>2, Throwing
  <2> QED BY <2>1, <2>2
<1>6. /\ faults' = faults /\ interrupted' = interrupted /\ failed' = failed
      /\ lost' = lost /\ smothered' = smothered
  BY <1>1 DEF Calm
<1>7. job' = job /\ before' = before /\ results' = results /\ paired' = paired
  BY DEF programVars
<1> QED BY <1>1, <1>5, <1>6, <1>7, StepsInvParts

\* While a CancelledError is under way there is no branch and no raise, and
\* nothing of the runner's matrix begins or is recorded.
LEMMA OnlyCleanups ==
  ASSUME StepsInv, todo # <<>>, Step.kind \notin {"call", "send", "trust", "block", "finally", "end"}
  PROVE  ~ Cancelling(raised, todo)
<1>1. SUFFICES ASSUME Cancelling(raised, todo)
               PROVE  FALSE
  OBVIOUS
<1>2. Sound(todo)
  BY StepsInvParts
<1>3. Step \in Cleanup \/ Step \in Closing
  BY <1>1, <1>2, CancellingStep
<1>4. Step \in Closing => Step.kind \in {"call", "finally"}
  BY DEF Closing, CleanCalls, Calls, Mark
<1> QED BY <1>3, <1>4, CleanupKinds

\* Branch: the one branch or the other of an if.
LEMMA BranchStep ==
  ASSUME StepsInv, Branch, UNCHANGED programVars
  PROVE  StepsInv'
<1>1. /\ todo # <<>> /\ Step.kind = "maybe"
      /\ raised' = raised /\ caught' = caught /\ held' = held /\ Calm
  BY DEF Branch, At
<1>2. Step \in Ahead
  BY <1>1, StepsInvParts, NextStep DEF Step
<1>3. PICK p \in {<<>>, Step.inner} : todo' = p \o Tail(todo)
  BY DEF Branch
<1>4. p \in Seq(Level5)
  BY <1>1, <1>2, <1>3, StepKinds, EmptySeq
<1>5. Sound(todo') /\ InFlight(raised', todo')
  BY <1>1, <1>3, <1>4, Replaced
<1>6. ~ Cancelling(raised, todo)
  BY <1>1, OnlyCleanups
<1>7. /\ faults' = faults /\ interrupted' = interrupted /\ failed' = failed
      /\ lost' = lost /\ smothered' = smothered
  BY <1>1 DEF Calm
<1>8. job' = job /\ before' = before /\ results' = results /\ paired' = paired
  BY DEF programVars
<1> QED BY <1>1, <1>5, <1>6, <1>7, <1>8, StepsInvParts

\* Raises: return, or the error of a raise statement.
LEMMA RaisesStep ==
  ASSUME StepsInv, Raises, UNCHANGED programVars
  PROVE  StepsInv'
<1>1. /\ todo # <<>> /\ Step.kind = "raise"
      /\ Unwind(Tail(todo), Step.how) /\ held' = held /\ Calm
  BY DEF Raises, At
<1>2. Step \in Ahead
  BY <1>1, StepsInvParts, NextStep DEF Step
<1>3. Step.how \in {"error", "cancel", "return"}
  BY <1>1, <1>2, StepKinds
<1>4. Sound(todo') /\ InFlight(raised', todo') /\ raised' \in Kinds /\ caught' \in BOOLEAN
  BY <1>1, <1>3, Throwing
<1>5. ~ Cancelling(raised, todo)
  BY <1>1, OnlyCleanups
<1>6. /\ faults' = faults /\ interrupted' = interrupted /\ failed' = failed
      /\ lost' = lost /\ smothered' = smothered
  BY <1>1 DEF Calm
<1>7. job' = job /\ before' = before /\ results' = results /\ paired' = paired
  BY DEF programVars
<1> QED BY <1>1, <1>4, <1>5, <1>6, <1>7, StepsInvParts

-----------------------------------------------------------------------------
(* The actions of Programs.                                                *)

\* LoadStack: a stack of the matrix becomes its cells.
LEMMA LoadStackStep ==
  ASSUME StepsInv, LoadStack
  PROVE  StepsInv'
<1>1. /\ todo # <<>> /\ Step.kind = "stack" /\ todo' = StackSteps(Step.stack) \o Tail(todo)
      /\ raised' = raised /\ caught' = caught /\ held' = held /\ Calm
  BY DEF LoadStack, At
<1>2. Step \in Ahead
  BY <1>1, StepsInvParts, NextStep DEF Step
<1>3. Step.stack \in DOMAIN Stack
  BY <1>1, <1>2, StepKinds DEF RowSteps
<1>4. StackSteps(Step.stack) \in Seq(Level5)
  <2>1. StackSteps(Step.stack) \in Seq(RowSteps)
    BY <1>3, RowsBuilt
  <2> QED BY <2>1, Levels, SeqMonotonic
<1>5. Sound(todo') /\ InFlight(raised', todo')
  BY <1>1, <1>4, Replaced
<1>6. ~ Cancelling(raised, todo)
  BY <1>1, OnlyCleanups
<1>7. /\ faults' = faults /\ interrupted' = interrupted /\ failed' = failed
      /\ lost' = lost /\ smothered' = smothered
  BY <1>1 DEF Calm
<1>8. job' = job /\ before' = before /\ results' = results /\ paired' = paired
  BY DEF LoadStack, programVars
<1> QED BY <1>1, <1>5, <1>6, <1>7, <1>8, StepsInvParts

\* BeginCell: a cell becomes its scenario and its record.
LEMMA BeginCellStep ==
  ASSUME StepsInv, BeginCell
  PROVE  StepsInv'
<1>1. /\ todo # <<>> /\ Step.kind = "cell"
      /\ todo' = Cell(Step.stack, Step.scenario) \o Tail(todo)
      /\ raised' = raised /\ caught' = FALSE /\ held' = held /\ before' = held
      /\ failed' = {} /\ lost' = {}
  BY DEF BeginCell, At
<1>2. Step \in Ahead
  BY <1>1, StepsInvParts, NextStep DEF Step
<1>3. Step.stack \in DOMAIN Stack /\ Step.scenario \in Range(Scenarios)
  BY <1>1, <1>2, StepKinds DEF RowSteps
<1>4. Cell(Step.stack, Step.scenario) \in Seq(Level5)
  BY <1>3, CellBuilt
<1>5. Sound(todo') /\ InFlight(raised', todo')
  BY <1>1, <1>4, Replaced
<1>6. ~ Cancelling(raised, todo)
  BY <1>1, OnlyCleanups
<1>7. /\ faults' = faults /\ interrupted' = interrupted /\ smothered' = smothered
      /\ job' = job /\ results' = results /\ paired' = paired
  BY DEF BeginCell
<1> QED BY <1>1, <1>5, <1>6, <1>7, StepsInvParts

\* Record, and StackFailsToLoad: a row of the results.
LEMMA RowStep ==
  ASSUME StepsInv, Record \/ StackFailsToLoad
  PROVE  StepsInv'
<1>1. /\ todo # <<>> /\ Step.kind \in {"record", "stack"} /\ Continue /\ held' = held
      /\ interrupted' = interrupted /\ failed' = failed /\ lost' = lost
      /\ smothered' = smothered /\ job' = job /\ before' = before /\ paired' = paired
  BY DEF Record, StackFailsToLoad, At, Calm
<1>2. Step \in Ahead
  BY <1>1, StepsInvParts, NextStep DEF Step
<1>3. Step \in RowSteps
  BY <1>1, <1>2, StepKinds
<1>4. results' \in Seq(Rows)
  <2>1. CASE Record
    <3>1. /\ Step.kind = "record"
          /\ results' = Append(results, [stack |-> Step.stack, scenario |-> Step.scenario, ok |-> ~ caught])
      BY <2>1 DEF Record, At
    <3>2. Step.stack \in DOMAIN Stack /\ Step.scenario \in Range(Scenarios)
      BY <1>3, <3>1 DEF RowSteps
    <3>3. [stack |-> Step.stack, scenario |-> Step.scenario, ok |-> ~ caught] \in Rows
      BY <3>2, StepsInvParts DEF Rows
    <3> QED BY <3>1, <3>3, StepsInvParts, AppendProperties
  <2>2. CASE StackFailsToLoad
    <3>1. results' = Append(results, [stack |-> Step.stack, scenario |-> "*", ok |-> FALSE])
      BY <2>2 DEF StackFailsToLoad
    <3>2. Step.stack \in DOMAIN Stack
      BY <1>3 DEF RowSteps
    <3>3. [stack |-> Step.stack, scenario |-> "*", ok |-> FALSE] \in Rows
      BY <3>2 DEF Rows
    <3> QED BY <3>1, <3>3, StepsInvParts, AppendProperties
  <2> QED BY <2>1, <2>2
<1>5. /\ Sound(todo') /\ InFlight(raised', todo')
      /\ raised' \in Kinds /\ caught' \in BOOLEAN
      /\ Cancelling(raised, todo) => Cancelling(raised', todo')
  BY <1>1, Advance
<1>6. faults' \in 0 .. MaxFaults
  BY StepsInvParts, FaultsAssumption DEF Record, Calm, StackFailsToLoad, Faulty
<1> QED BY <1>1, <1>4, <1>5, <1>6, StepsInvParts

\* Send: a line to bluetoothctl, whose pipe may break.
LEMMA SendStep ==
  ASSUME StepsInv, Send
  PROVE  StepsInv'
<1>1. /\ todo # <<>> /\ Step.kind \in {"send", "trust"}
      /\ \/ Continue /\ smothered' = smothered
         \/ /\ Unwind(Tail(todo), "error")
            /\ smothered' = IF Unwinding THEN smothered \cup {"send"} ELSE smothered
      /\ held' = held /\ faults' = faults /\ interrupted' = interrupted /\ failed' = failed
      /\ lost' = lost /\ job' = job /\ before' = before /\ results' = results /\ paired' = paired
  BY DEF Send, At, programVars
<1>2. Sound(todo) /\ smothered \subseteq CallNames \cup {"send"}
  BY StepsInvParts
<1>3. CASE Continue /\ smothered' = smothered
  <2>1. /\ Sound(todo') /\ InFlight(raised', todo')
        /\ raised' \in Kinds /\ caught' \in BOOLEAN
        /\ Cancelling(raised, todo) => Cancelling(raised', todo')
    BY <1>1, <1>3, Advance
  <2> QED BY <1>1, <1>3, <2>1, StepsInvParts
<1>4. CASE /\ Unwind(Tail(todo), "error")
           /\ smothered' = IF Unwinding THEN smothered \cup {"send"} ELSE smothered
  <2>1. Sound(todo') /\ InFlight(raised', todo') /\ raised' \in Kinds /\ caught' \in BOOLEAN
    BY <1>1, <1>4, Throwing
  <2>2. Cancelling(raised, todo) => Unwinding
    BY <1>1, <1>2, CancellingStep
  <2>3. /\ smothered \subseteq smothered' /\ smothered' \subseteq CallNames \cup {"send"}
        /\ Unwinding => "send" \in smothered'
    BY <1>2, <1>4
  <2>4. interrupted => smothered' \cap Smothering # {}
    BY <2>2, <2>3, StepsInvParts DEF Smothering
  <2> QED BY <1>1, <2>1, <2>3, <2>4, StepsInvParts
<1> QED BY <1>1, <1>3, <1>4

\* SkipTrust and Succeeds: steps of the dialogue that go on.
LEMMA DialogueStep ==
  ASSUME StepsInv, SkipTrust \/ Succeeds
  PROVE  StepsInv'
<1>1. /\ todo # <<>> /\ Step.kind # "end" /\ Continue /\ held' = held /\ Calm
      /\ job' = job /\ before' = before /\ results' = results /\ paired' \in BOOLEAN
  BY StepsInvParts DEF SkipTrust, Succeeds, Reading, At, programVars
<1>2. /\ Sound(todo') /\ InFlight(raised', todo')
      /\ raised' \in Kinds /\ caught' \in BOOLEAN
      /\ Cancelling(raised, todo) => Cancelling(raised', todo')
  BY <1>1, Advance
<1>3. /\ faults' = faults /\ interrupted' = interrupted /\ failed' = failed
      /\ lost' = lost /\ smothered' = smothered
  BY <1>1 DEF Calm
<1> QED BY <1>1, <1>2, <1>3, StepsInvParts

\* What a prompt puts before the line that is read next.
Answer == <<Opening("callback"), Maybe(<<Ask("send")>>)>>

\* ... in which nothing waits or is read.
LEMMA AnswerBuilt ==
  Answer \in Seq(Level4) /\ Answer \in Seq(Level5)
<1>1. Opening("callback") \in Level4
  <2>1. "callback" \in CallNames
    BY DEF CallNames
  <2> QED BY <2>1, CallsBuilt, Levels
<1>2. Maybe(<<Ask("send")>>) \in Level4
  <2>1. Ask("send") \in Level0
    <3>1. Ask("send") \in Cleanup
      BY DEF Cleanup
    <3> QED BY <3>1, Levels
  <2>2. <<Ask("send")>> \in Seq(Level0)
    BY <2>1
  <2>3. Maybe(<<Ask("send")>>) \in Level1
    BY <2>2, MaybeBuilt DEF Level1
  <2> QED BY <2>3, Levels
<1>3. Answer \in Seq(Level4)
  BY <1>1, <1>2 DEF Answer
<1> QED BY <1>3, Levels, SeqMonotonic

\* Prompted: the callback is asked, and its answer may be sent.
LEMMA PromptedStep ==
  ASSUME StepsInv, Prompted
  PROVE  StepsInv'
<1>1. /\ todo # <<>> /\ Step.kind = "call" /\ Step.call = "readline" /\ todo' = Answer \o todo
      /\ raised' = raised /\ caught' = caught /\ held' = held /\ Calm
  BY DEF Prompted, Reading, At, Answer
<1>2. Sound(todo) /\ InFlight(raised, todo)
  BY StepsInvParts
<1>3. Answer \in Seq(Level5)
  BY AnswerBuilt
<1>4. Level5 \subseteq Ahead /\ Flat(Level5)
  BY FlatLevels, Levels
<1>5. Sound(todo')
  BY <1>1, <1>2, <1>3, <1>4, SoundPrefix
<1>6. InFlight(raised', todo')
  <2>1. Answer \in Seq(Ahead)
    BY <1>3, <1>4, SeqMonotonic
  <2>2. raised # "no" => EndBehind(Answer \o todo, 0)
    BY <1>1, <1>2, <2>1, PrefixEnd DEF InFlight
  <2> QED BY <1>1, <2>2 DEF InFlight
<1>7. ~ Cancelling(raised, todo)
  <2>1. Step \notin CleanCalls
    BY <1>1 DEF CleanCalls
  <2> QED BY <1>1, <1>2, <2>1, CancellingCall DEF At
<1>8. /\ faults' = faults /\ interrupted' = interrupted /\ failed' = failed
       /\ lost' = lost /\ smothered' = smothered
  BY <1>1 DEF Calm
<1>9. job' = job /\ before' = before /\ results' = results /\ paired' = paired
  BY DEF Prompted, programVars
<1> QED BY <1>1, <1>5, <1>6, <1>7, <1>8, <1>9, StepsInvParts

\* Judge: pair raises if it did not succeed.
LEMMA JudgeStep ==
  ASSUME StepsInv, Judge
  PROVE  StepsInv'
<1>1. /\ todo # <<>> /\ Step.kind = "verdict" /\ held' = held /\ Calm
      /\ Continue \/ Unwind(Tail(todo), "error")
  BY DEF Judge, Verdict, At
<1>2. Sound(todo') /\ InFlight(raised', todo') /\ raised' \in Kinds /\ caught' \in BOOLEAN
  <2>1. CASE Continue
    BY <1>1, <2>1, Advance
  <2>2. CASE Unwind(Tail(todo), "error")
    BY <1>1, <2>2, Throwing
  <2> QED BY <1>1, <2>1, <2>2
<1>3. ~ Cancelling(raised, todo)
  BY <1>1, OnlyCleanups
<1>4. /\ faults' = faults /\ interrupted' = interrupted /\ failed' = failed
      /\ lost' = lost /\ smothered' = smothered
  BY <1>1 DEF Calm
<1>5. job' = job /\ before' = before /\ results' = results /\ paired' = paired
  BY DEF Judge, programVars
<1> QED BY <1>1, <1>2, <1>3, <1>4, <1>5, StepsInvParts

\* PeerLost and ChildDies: what happens around the program.
LEMMA SurroundingsStep ==
  ASSUME StepsInv, PeerLost \/ \E c \in Children : ChildDies(c), UNCHANGED programVars
  PROVE  StepsInv'
<1>1. /\ todo' = todo /\ raised' = raised /\ caught' = caught
      /\ interrupted' = interrupted /\ smothered' = smothered
      /\ held' \subseteq held /\ lost' \subseteq Measuring /\ Faulty
      /\ failed' \subseteq failed \cup Children \cup {"link"}
  <2>1. CASE PeerLost
    BY <2>1, StepsInvParts DEF PeerLost, Drop
  <2>2. CASE \E c \in Children : ChildDies(c)
    BY <2>2, StepsInvParts DEF ChildDies, Drop
  <2> QED BY <2>1, <2>2
<1>2. faults' \in 0 .. MaxFaults
  BY <1>1, StepsInvParts, FaultsAssumption DEF Faulty
<1>3. job' = job /\ before' = before /\ results' = results /\ paired' = paired
  BY DEF programVars
<1>4. held' \subseteq Resources /\ failed' \subseteq CallNames \cup Children \cup {"link"}
  BY <1>1, StepsInvParts
<1> QED BY <1>1, <1>2, <1>3, <1>4, StepsInvParts

\* A stuttering step changes nothing of the invariant.
LEMMA Stuttering ==
  ASSUME StepsInv, UNCHANGED vars
  PROVE  StepsInv'
<1>1. /\ todo' = todo /\ raised' = raised /\ held' = held /\ caught' = caught
      /\ faults' = faults /\ interrupted' = interrupted /\ failed' = failed
      /\ lost' = lost /\ smothered' = smothered
      /\ job' = job /\ before' = before /\ results' = results /\ paired' = paired
  BY DEF vars, machineVars, programVars
<1> QED BY <1>1, StepsInvParts

\* The invariant is inductive.
LEMMA NextStepsInv ==
  ASSUME StepsInv, [Next]_vars
  PROVE  StepsInv'
<1>1. CASE Machine
  <2>1. UNCHANGED programVars
        /\ (Do \/ Refused \/ Fault \/ Enter \/ Pass \/ PassUndo \/ Leave \/ Branch \/ Raises)
    BY <1>1 DEF Machine, Steps
  <2> QED BY <2>1, DoStep, RefusedStep, FaultStep, EnterStep, PassStep, LeaveStep, BranchStep, RaisesStep
<1>2. CASE LoadStack \/ BeginCell \/ Record
  BY <1>2, LoadStackStep, BeginCellStep, RowStep
<1>3. CASE Send \/ SkipTrust \/ Succeeds \/ Prompted \/ Judge
  BY <1>3, SendStep, DialogueStep, PromptedStep, JudgeStep
<1>4. CASE StackFailsToLoad
  BY <1>4, RowStep
<1>5. CASE (Interrupt \/ PeerLost \/ \E c \in Children : ChildDies(c)) /\ UNCHANGED programVars
  BY <1>5, InterruptStep, SurroundingsStep
<1>6. CASE UNCHANGED vars
  BY <1>6, Stuttering
<1> QED BY <1>1, <1>2, <1>3, <1>4, <1>5, <1>6 DEF Next, Proceeds, Happens

-----------------------------------------------------------------------------
(* The theorems.                                                           *)

\* The invariant holds of every program, in every state of every run.
THEOREM StepsInvariance == Spec => []StepsInv
<1>1. Init => StepsInv
  BY InitStepsInv
<1>2. StepsInv /\ [Next]_vars => StepsInv'
  BY NextStepsInv
<1> QED BY <1>1, <1>2, PTL DEF Spec

\* The variables keep their types, and an exception in flight has a place
\* ahead where it is raised again: no cleanup swallows it by forgetting it.
THEOREM TypeCorrect == Spec => []TypeOK
<1>1. StepsInv => TypeOK
  BY DEF StepsInv
<1> QED BY <1>1, StepsInvariance, PTL

\* A Ctrl-C ends any of the programs with a CancelledError, if it is not
\* replaced by an error of one of four calls; so with any number of faults.
THEOREM CtrlCIsHeeded == Spec => []CtrlCEnds
<1>1. StepsInv => CtrlCEnds
  <2>1. SUFFICES ASSUME StepsInv, interrupted, At("cell") \/ Ended, smothered \cap Smothering = {}
                 PROVE  raised = "cancel"
    BY DEF CtrlCEnds
  <2>2. Cancelling(raised, todo)
    BY <2>1, StepsInvParts
  <2>3. CASE At("cell")
    BY <2>1, <2>2, <2>3, OnlyCleanups DEF At
  <2>4. CASE Ended
    <3>1. 1 .. Len(todo) = {}
      BY <2>4, EmptySeq DEF Ended
    <3> QED BY <2>2, <3>1 DEF Cancelling
  <2> QED BY <2>1, <2>3, <2>4
<1> QED BY <1>1, StepsInvariance, PTL

-----------------------------------------------------------------------------
(* The steps ahead move at their front: what an action does to a part of   *)
(* them, whatever is behind it.                                            *)

\* What is put before a part is put before what is behind it.
LEMMA Regrouped ==
  ASSUME NEW q \in Seq(Ahead), NEW a \in Seq(Ahead), NEW b \in Seq(Ahead)
  PROVE  a \o (b \o q) = (a \o b) \o q
BY ConcatAssociative

\* An exception that passes p lands in q, or ends the program.
LEMMA UnwindJoined ==
  ASSUME NEW p \in Seq(Ahead), NEW q \in Seq(Ahead), NEW how, Unwind(p \o q, how)
  PROVE  \/ \E i \in 1 .. Len(p) :
              /\ Lands(p[i], how)
              /\ todo' = (p[i].handler \o SubSeq(p, i + 1, Len(p))) \o q
              /\ IF p[i].kind = "except" THEN raised' = "no" /\ caught' = TRUE
                                         ELSE raised' = how /\ UNCHANGED caught
         \/ (\A i \in 1 .. Len(p) : ~ Lands(p[i], how)) /\ Unwind(q, how)
<1> DEFINE u == p \o q
<1>1. /\ u \in Seq(Ahead)
      /\ Len(p) \in Nat /\ Len(q) \in Nat /\ Len(u) = Len(p) + Len(q)
      /\ \A i \in 1 .. Len(p) : u[i] = p[i]
      /\ \A i \in 1 .. Len(q) : u[Len(p) + i] = q[i]
  BY Joined
<1>2. /\ \A i \in 1 .. Len(p) : SubSeq(u, i + 1, Len(u)) = SubSeq(p, i + 1, Len(p)) \o q
      /\ \A i \in 1 .. Len(q) : SubSeq(u, Len(p) + i + 1, Len(u)) = SubSeq(q, i + 1, Len(q))
  BY BeyondJoined
<1>3. \/ \E i \in 1 .. Len(u) :
           /\ Lands(u[i], how) /\ \A j \in 1 .. i - 1 : ~ Lands(u[j], how)
           /\ todo' = u[i].handler \o SubSeq(u, i + 1, Len(u))
           /\ IF u[i].kind = "except" THEN raised' = "no" /\ caught' = TRUE
                                      ELSE raised' = how /\ UNCHANGED caught
      \/ /\ \A i \in 1 .. Len(u) : ~ Lands(u[i], how)
         /\ todo' = <<>> /\ raised' = how /\ UNCHANGED caught
  BY DEF Unwind
<1> HIDE DEF u
<1>4. ASSUME NEW i \in 1 .. Len(u),
             Lands(u[i], how), \A j \in 1 .. i - 1 : ~ Lands(u[j], how),
             todo' = u[i].handler \o SubSeq(u, i + 1, Len(u)),
             IF u[i].kind = "except" THEN raised' = "no" /\ caught' = TRUE
                                     ELSE raised' = how /\ UNCHANGED caught,
             i \in 1 .. Len(p)
      PROVE  /\ Lands(p[i], how)
             /\ todo' = (p[i].handler \o SubSeq(p, i + 1, Len(p))) \o q
             /\ IF p[i].kind = "except" THEN raised' = "no" /\ caught' = TRUE
                                        ELSE raised' = how /\ UNCHANGED caught
  <2>1. u[i] = p[i] /\ SubSeq(u, i + 1, Len(u)) = SubSeq(p, i + 1, Len(p)) \o q
    BY <1>1, <1>2, <1>4
  <2>2. p[i] \in Ahead /\ SubSeq(p, i + 1, Len(p)) \in Seq(Ahead)
    BY <1>4, ElementOfSeq, Beyond
  <2>3. p[i].handler \in Seq(Ahead)
    <3>1. p[i].kind \in {"finally", "undo", "except"}
      BY <1>4, <2>1 DEF Lands
    <3>2. p[i].handler \in Seq(Cleanup)
      BY <2>2, <3>1, StepKinds DEF Marks
    <3> QED BY <3>2, Levels, SeqMonotonic
  <2>4. p[i].handler \o (SubSeq(p, i + 1, Len(p)) \o q) = (p[i].handler \o SubSeq(p, i + 1, Len(p))) \o q
    <3>1. PICK h, w : h = p[i].handler /\ w = SubSeq(p, i + 1, Len(p))
      OBVIOUS
    <3>2. h \in Seq(Ahead) /\ w \in Seq(Ahead)
      BY <2>2, <2>3, <3>1
    <3>3. h \o (w \o q) = (h \o w) \o q
      BY <3>2, Regrouped
    <3> QED BY <3>1, <3>3
  <2> QED BY <1>4, <2>1, <2>4
<1>5. ASSUME NEW i \in 1 .. Len(u),
             Lands(u[i], how), \A j \in 1 .. i - 1 : ~ Lands(u[j], how),
             todo' = u[i].handler \o SubSeq(u, i + 1, Len(u)),
             IF u[i].kind = "except" THEN raised' = "no" /\ caught' = TRUE
                                     ELSE raised' = how /\ UNCHANGED caught,
             i \notin 1 .. Len(p)
      PROVE  (\A k \in 1 .. Len(p) : ~ Lands(p[k], how)) /\ Unwind(q, how)
  <2>1. PICK n \in 1 .. Len(q) : i = Len(p) + n
    <3>1. i - Len(p) \in 1 .. Len(q) /\ i = Len(p) + (i - Len(p))
      BY <1>1, <1>5
    <3> QED BY <3>1
  <2>2. u[i] = q[n] /\ SubSeq(u, i + 1, Len(u)) = SubSeq(q, n + 1, Len(q))
    BY <1>1, <1>2, <2>1
  <2>3. ASSUME NEW k \in 1 .. Len(p)
        PROVE  ~ Lands(p[k], how)
    <3>1. k \in 1 .. i - 1
      BY <1>1, <2>1
    <3> QED BY <1>1, <1>5, <3>1
  <2>4. ASSUME NEW k \in 1 .. n - 1
        PROVE  ~ Lands(q[k], how)
    <3>1. k \in 1 .. Len(q) /\ Len(p) + k \in 1 .. i - 1
      BY <1>1, <2>1
    <3> QED BY <1>1, <1>5, <3>1
  <2> QED BY <1>5, <2>2, <2>3, <2>4 DEF Unwind
<1>6. ASSUME \A i \in 1 .. Len(u) : ~ Lands(u[i], how),
             todo' = <<>>, raised' = how, UNCHANGED caught
      PROVE  (\A i \in 1 .. Len(p) : ~ Lands(p[i], how)) /\ Unwind(q, how)
  <2>1. ASSUME NEW k \in 1 .. Len(p)
        PROVE  ~ Lands(p[k], how)
    <3>1. k \in 1 .. Len(u)
      BY <1>1
    <3> QED BY <1>1, <1>6, <3>1
  <2>2. ASSUME NEW k \in 1 .. Len(q)
        PROVE  ~ Lands(q[k], how)
    <3>1. Len(p) + k \in 1 .. Len(u)
      BY <1>1
    <3> QED BY <1>1, <1>6, <3>1
  <2> QED BY <1>6, <2>1, <2>2 DEF Unwind
<1> QED BY <1>3, <1>4, <1>5, <1>6

\* What an action can do to the steps ahead, those of the rows aside: go on,
\* raise, enter a block and leave it, take a branch, and be prompted.
Stays == todo' = todo /\ raised' = raised

GoesOn ==
  /\ todo # <<>> /\ Step.kind \in {"call", "send", "trust", "verdict", "finally", "except", "undo"}
  /\ todo' = Tail(todo) /\ raised' = raised

Throws(how) ==
  /\ todo # <<>>
  /\ \/ Step.kind \in {"call", "send", "trust", "verdict"} /\ how = "error"
     \/ Step.kind = "call" /\ "cancel" \in Step.can /\ how = "cancel"
     \/ Step.kind = "raise" /\ how = Step.how
     \/ Step.kind = "end" /\ raised # "no" /\ how = raised
  /\ Unwind(Tail(todo), how)

Opens ==
  /\ todo # <<>> /\ Step.kind = "block"
  /\ todo' = Step.inner \o <<End(raised)>> \o Tail(todo) /\ raised' = "no"

Closes ==
  /\ todo # <<>> /\ Step.kind = "end" /\ raised = "no"
  /\ todo' = Tail(todo) /\ raised' = Step.saved

Turns ==
  /\ todo # <<>> /\ Step.kind = "maybe" /\ raised' = raised
  /\ \E p \in {<<>>, Step.inner} : todo' = p \o Tail(todo)

Asks ==
  /\ todo # <<>> /\ Step.kind = "call" /\ Step.call = "readline" /\ raised' = raised
  /\ todo' = Answer \o todo

Moves ==
  \/ Stays \/ GoesOn \/ Opens \/ Closes \/ Turns \/ Asks
  \/ \E how \in {"error", "cancel", "return"} : Throws(how)

\* Every other action moves so, and leaves the results alone.
LEMMA AllMove ==
  ASSUME StepsInv, [Next]_vars
  PROVE  /\ job' = job
         /\ \/ LoadStack \/ StackFailsToLoad \/ BeginCell \/ Record
            \/ Moves /\ results' = results
<1>1. CASE Machine
  <2>1. job' = job /\ results' = results
    BY <1>1 DEF Machine, programVars
  <2>2. CASE Do
    <3>1. GoesOn
      BY <2>2 DEF Do, At, Continue, GoesOn
    <3> QED BY <2>1, <3>1 DEF Moves
  <2>3. CASE Refused \/ Fault
    <3>1. At("call") /\ Errs
      BY <2>3 DEF Refused, Fault
    <3>2. CASE Continue
      <4>1. GoesOn
        BY <3>1, <3>2 DEF At, Continue, GoesOn
      <4> QED BY <2>1, <4>1 DEF Moves
    <3>3. CASE Unwind(Tail(todo), "error")
      <4>1. Throws("error")
        BY <3>1, <3>3 DEF At, Throws
      <4> QED BY <2>1, <4>1 DEF Moves
    <3> QED BY <3>1, <3>2, <3>3 DEF Errs
  <2>4. CASE Enter
    <3>1. Opens
      BY <2>4 DEF Enter, At, Opens
    <3> QED BY <2>1, <3>1 DEF Moves
  <2>5. CASE Pass \/ PassUndo
    <3>1. GoesOn
      BY <2>5 DEF Pass, PassUndo, At, Continue, GoesOn
    <3> QED BY <2>1, <3>1 DEF Moves
  <2>6. CASE Leave
    <3>1. At("end")
      BY <2>6 DEF Leave
    <3>2. CASE raised = "no"
      <4>1. Closes
        BY <2>6, <3>2 DEF Leave, At, Closes
      <4> QED BY <2>1, <4>1 DEF Moves
    <3>3. CASE raised # "no"
      <4>1. Throws(raised)
        BY <2>6, <3>1, <3>3 DEF Leave, At, Throws
      <4>2. raised \in {"error", "cancel", "return"}
        BY <3>3, StepsInvParts DEF Kinds
      <4> QED BY <2>1, <4>1, <4>2 DEF Moves
    <3> QED BY <3>2, <3>3
  <2>7. CASE Branch
    <3>1. Turns
      BY <2>7 DEF Branch, At, Turns
    <3> QED BY <2>1, <3>1 DEF Moves
  <2>8. CASE Raises
    <3>1. Throws(Step.how) /\ Step.kind = "raise" /\ todo # <<>>
      BY <2>8 DEF Raises, At, Throws
    <3>2. Step \in Ahead
      BY <3>1, StepsInvParts, NextStep DEF Step
    <3>3. Step.how \in {"error", "cancel", "return"}
      BY <3>1, <3>2, StepKinds
    <3> QED BY <2>1, <3>1, <3>3 DEF Moves
  <2> QED BY <1>1, <2>1, <2>2, <2>3, <2>4, <2>5, <2>6, <2>7, <2>8 DEF Machine, Steps
<1>2. CASE LoadStack \/ StackFailsToLoad \/ BeginCell \/ Record
  BY <1>2 DEF LoadStack, StackFailsToLoad, BeginCell, Record, programVars
<1>3. CASE Send
  <2>1. job' = job /\ results' = results
    BY <1>3 DEF Send, programVars
  <2>2. Continue => GoesOn
    BY <1>3 DEF Send, At, Continue, GoesOn
  <2>3. Unwind(Tail(todo), "error") => Throws("error")
    BY <1>3 DEF Send, At, Throws
  <2> QED BY <1>3, <2>1, <2>2, <2>3 DEF Send, Moves
<1>4. CASE SkipTrust \/ Succeeds
  <2>1. job' = job /\ results' = results
    BY <1>4 DEF SkipTrust, Succeeds, programVars
  <2>2. GoesOn
    BY <1>4 DEF SkipTrust, Succeeds, Reading, At, Continue, GoesOn
  <2> QED BY <2>1, <2>2 DEF Moves
<1>5. CASE Prompted
  <2>1. job' = job /\ results' = results
    BY <1>5 DEF Prompted, programVars
  <2>2. Asks
    BY <1>5 DEF Prompted, Reading, At, Asks, Answer
  <2> QED BY <2>1, <2>2 DEF Moves
<1>6. CASE Judge
  <2>1. job' = job /\ results' = results
    BY <1>6 DEF Judge, programVars
  <2>2. Continue => GoesOn
    BY <1>6 DEF Judge, Verdict, At, Continue, GoesOn
  <2>3. Unwind(Tail(todo), "error") => Throws("error")
    BY <1>6 DEF Judge, Verdict, At, Throws
  <2> QED BY <1>6, <2>1, <2>2, <2>3 DEF Judge, Verdict, Moves
<1>7. CASE (Interrupt \/ PeerLost \/ \E c \in Children : ChildDies(c)) /\ UNCHANGED programVars
  <2>1. job' = job /\ results' = results
    BY <1>7 DEF programVars
  <2>2. CASE Interrupt
    <3>1. Throws("cancel")
      BY <2>2 DEF Interrupt, At, Throws
    <3> QED BY <2>1, <3>1 DEF Moves
  <2>3. CASE PeerLost \/ \E c \in Children : ChildDies(c)
    <3>1. Stays
      BY <2>3 DEF PeerLost, ChildDies, Stays
    <3> QED BY <2>1, <3>1 DEF Moves
  <2> QED BY <1>7, <2>2, <2>3
<1>8. CASE UNCHANGED vars
  <2>1. job' = job /\ results' = results /\ Stays
    BY <1>8 DEF vars, machineVars, programVars, Stays
  <2> QED BY <2>1 DEF Moves
<1> QED BY <1>1, <1>2, <1>3, <1>4, <1>5, <1>6, <1>7, <1>8 DEF Next, Proceeds, Happens

\* A set of steps that leads to no others, and does not return.
SelfContained(S) ==
  /\ S \subseteq Ahead
  /\ [kind : {"end"}, saved : Kinds \ {"return"}] \subseteq S
  /\ \A s \in S :
       /\ s.kind \in {"block", "maybe"} => s.inner \in Seq(S)
       /\ s.kind \in {"finally", "undo", "except"} => s.handler \in Seq(S)
       /\ s.kind = "raise" => s.how = "error"
       /\ s.kind = "end" => s.saved # "return"
       /\ s.kind = "call" /\ s.call = "readline" => Answer \in Seq(S)

\* The first step of a sound sequence of such steps.
LEMMA PartStep ==
  ASSUME NEW S, SelfContained(S), NEW y, y \in Seq(S), Sound(y), NEW q \in Seq(Ahead),
         y # <<>>, todo = y \o q
  PROVE  /\ todo # <<>> /\ Step = y[1] /\ Step \in S /\ Step \in Ahead
         /\ Tail(todo) = Tail(y) \o q /\ Tail(y) \in Seq(S) /\ Sound(Tail(y))
         /\ y \in Seq(Ahead) /\ Tail(y) \in Seq(Ahead)
<1>1. S \subseteq Ahead
  BY DEF SelfContained
<1>2. y \in Seq(S) /\ Sound(y)
  OBVIOUS
<1>3. y \in Seq(Ahead)
  BY <1>2 DEF Sound
<1>4. /\ todo # <<>> /\ Head(todo) = y[1] /\ y[1] \in Ahead
      /\ Tail(todo) = Tail(y) \o q /\ Tail(y) \in Seq(Ahead)
  BY <1>3, HeadAndTailJoined
<1>5. y[1] \in S /\ Tail(y) \in Seq(S)
  BY <1>2, HeadAndTail
<1>6. Sound(Tail(y))
  BY <1>2, NextStep
<1> QED BY <1>3, <1>4, <1>5, <1>6 DEF Step

\* An exception in such a sequence lands there, or passes it.
LEMMA PartUnwind ==
  ASSUME NEW S, SelfContained(S), NEW y, y \in Seq(S), Sound(y), NEW q \in Seq(Ahead),
         NEW rest, rest = y \o q, NEW how \in {"error", "cancel"}, Unwind(rest, how)
  PROVE  \/ \E z : Within(S, z, raised') /\ todo' = z \o q
         \/ Unwind(q, how)
<1>1. y \in Seq(Ahead)
  BY DEF Sound
<1>2. \/ \E i \in 1 .. Len(y) :
              /\ Lands(y[i], how)
              /\ todo' = (y[i].handler \o SubSeq(y, i + 1, Len(y))) \o q
              /\ IF y[i].kind = "except" THEN raised' = "no" /\ caught' = TRUE
                                         ELSE raised' = how /\ UNCHANGED caught
      \/ Unwind(q, how)
  BY <1>1, UnwindJoined
<1>3. ASSUME NEW i \in 1 .. Len(y),
             Lands(y[i], how),
             todo' = (y[i].handler \o SubSeq(y, i + 1, Len(y))) \o q,
             IF y[i].kind = "except" THEN raised' = "no" /\ caught' = TRUE
                                     ELSE raised' = how /\ UNCHANGED caught
      PROVE  \E z : Within(S, z, raised') /\ todo' = z \o q
  <2> DEFINE z == y[i].handler \o SubSeq(y, i + 1, Len(y))
  <2>1. y[i].kind \in {"finally", "undo", "except"}
    BY <1>3 DEF Lands
  <2>2. y[i].handler \in Seq(S)
    <3>1. y[i] \in S
      BY ElementOfSeq
    <3> QED BY <2>1, <3>1 DEF SelfContained
  <2>3. z \in Seq(S) /\ Sound(z) /\ EndBehind(z, 0)
    BY <2>1, <2>2, LandingAt
  <2>4. raised' # "return"
    BY <1>3
  <2>5. Within(S, z, raised')
    BY <2>3, <2>4 DEF Within
  <2>6. todo' = z \o q
    BY <1>3
  <2> QED BY <2>5, <2>6
<1> QED BY <1>2, <1>3

\* What comes of a part of what is ahead: another one in its place, or an
\* exception that leaves it.
LEMMA PartMoves ==
  ASSUME NEW S, SelfContained(S), NEW y, NEW q \in Seq(Ahead),
         y \in Seq(S), Sound(y), raised # "return", raised # "no" => EndBehind(y, 0),
         y # <<>>, todo = y \o q, raised \in Kinds, Moves
  PROVE  \/ \E z : Within(S, z, raised') /\ todo' = z \o q
         \/ \E how \in {"error", "cancel"} : Throws(how) /\ Unwind(q, how)
<1>1. PICK t : t = Tail(y)
  OBVIOUS
<1>2. /\ todo # <<>> /\ Step = y[1] /\ Step \in S /\ Step \in Ahead
      /\ Tail(todo) = t \o q /\ t \in Seq(S) /\ Sound(t)
      /\ y \in Seq(Ahead) /\ t \in Seq(Ahead)
  <2>1. /\ todo # <<>> /\ Step = y[1] /\ Step \in S /\ Step \in Ahead
        /\ Tail(todo) = Tail(y) \o q /\ Tail(y) \in Seq(S) /\ Sound(Tail(y))
        /\ y \in Seq(Ahead) /\ Tail(y) \in Seq(Ahead)
    BY PartStep
  <2> QED BY <1>1, <2>1
<1>3. /\ y \in Seq(S) /\ Sound(y)
      /\ raised # "return" /\ (raised # "no" => EndBehind(y, 0))
  OBVIOUS
<1>4. /\ S \subseteq Ahead
      /\ [kind : {"end"}, saved : Kinds \ {"return"}] \subseteq S
      /\ Step.kind \in {"block", "maybe"} => Step.inner \in Seq(S)
      /\ Step.kind = "raise" => Step.how = "error"
      /\ Step.kind = "end" => Step.saved # "return"
      /\ Step.kind = "call" /\ Step.call = "readline" => Answer \in Seq(S)
  BY <1>2 DEF SelfContained
<1>5. Step.kind # "end" => (raised # "no" => EndBehind(t, 0))
  <2>1. InFlight(raised, y)
    BY <1>3 DEF InFlight
  <2> QED BY <1>1, <1>2, <1>3, <2>1, TailInFlight
<1>6. \A a, b \in Seq(Ahead) : a \o (b \o q) = (a \o b) \o q
  BY Regrouped
<1>7. \A a, b \in Seq(S) : a \o b \in Seq(S)
  BY ConcatProperties
<1>8. CASE Stays
  <2>1. Within(S, y, raised') /\ todo' = y \o q
    BY <1>3, <1>8 DEF Stays, Within
  <2> QED BY <2>1
<1>9. CASE GoesOn
  <2>1. Step.kind # "end" /\ todo' = t \o q /\ raised' = raised
    BY <1>2, <1>9 DEF GoesOn
  <2>2. Within(S, t, raised')
    BY <1>2, <1>3, <1>5, <2>1 DEF Within
  <2> QED BY <2>1, <2>2
<1>10. CASE Closes
  <2>1. Step.kind = "end" /\ todo' = t \o q /\ raised' = Step.saved
    BY <1>2, <1>10 DEF Closes
  <2>2. y[1] \in Ends
    BY <1>2, <2>1, StepKinds
  <2>3. Step.saved # "no" => EndBehind(t, 0)
    BY <1>2, <1>3, <2>2, <1>1, EndOfTail
  <2>4. Within(S, t, raised')
    BY <1>2, <1>4, <2>1, <2>3 DEF Within
  <2> QED BY <2>1, <2>4
<1>11. CASE Opens
  <2>1. PICK b, e : b = Step.inner /\ e = <<End(raised)>>
    OBVIOUS
  <2> DEFINE u == e \o t
             z == b \o u
  <2>2. Step.kind = "block" /\ todo' = b \o e \o (t \o q) /\ raised' = "no"
    BY <1>2, <1>11, <2>1 DEF Opens
  <2>3. Sound(u) /\ Len(u) = 1 + Len(t) /\ u[1] = End(raised)
    <3>1. raised # "no" => EndBehind(t, 0)
      BY <1>5, <2>2
    <3> QED BY <1>2, <2>1, <3>1, SoundEnd
  <2>4. b \in Bodies(Level5)
    BY <1>2, <2>1, <2>2, StepKinds
  <2>5. Level5 \subseteq Ahead
    BY Levels
  <2>6. Sound(z)
    <3>1. Len(t) \in Nat
      BY <1>2, LenProperties
    <3>2. Len(u) >= 1 /\ u[1].kind = "end"
      BY <2>3, <3>1 DEF End
    <3> QED BY <2>3, <2>4, <2>5, <3>2, SoundBody
  <2>7. End(raised) \in S
    BY <1>3, <1>4 DEF End
  <2>8. e \in Seq(S) /\ b \in Seq(S)
    BY <1>4, <2>1, <2>2, <2>7
  <2>9. z \in Seq(S)
    BY <1>2, <1>7, <2>8
  <2>10. todo' = z \o q
    <3>1. e \in Seq(Ahead) /\ b \in Seq(Ahead)
      BY <1>4, <2>8, SeqMonotonic
    <3>2. u \in Seq(Ahead)
      BY <2>3 DEF Sound
    <3>3. (b \o e) \o (t \o q) = b \o (e \o (t \o q))
      <4>1. t \o q \in Seq(Ahead)
        BY <1>2, ConcatProperties
      <4>2. \A r \in Seq(Ahead) : (b \o e) \o r = b \o (e \o r)
        BY <3>1, ConcatAssociative
      <4> QED BY <4>1, <4>2
    <3>4. e \o (t \o q) = u \o q
      BY <1>2, <1>6, <3>1
    <3>5. b \o (u \o q) = z \o q
      <4> HIDE DEF u
      <4> QED BY <1>6, <3>1, <3>2
    <3> QED BY <2>2, <3>3, <3>4, <3>5
  <2> HIDE DEF z
  <2>11. Within(S, z, raised')
    BY <2>2, <2>6, <2>9 DEF Within
  <2> QED BY <2>10, <2>11
<1>12. CASE Turns
  <2>1. Step.kind = "maybe" /\ raised' = raised
    BY <1>12 DEF Turns
  <2>2. PICK p \in {<<>>, Step.inner} : todo' = p \o (t \o q)
    BY <1>2, <1>12 DEF Turns
  <2>3. p \in Seq(S) /\ p \in Seq(Level5)
    BY <1>2, <1>4, <2>1, <2>2, StepKinds, EmptySeq
  <2>4. Level5 \subseteq Ahead /\ Flat(Level5)
    BY FlatLevels, Levels
  <2>5. Sound(p \o t)
    BY <1>2, <2>3, <2>4, SoundPrefix
  <2>6. raised # "no" => EndBehind(p \o t, 0)
    <3>1. p \in Seq(Ahead)
      BY <1>4, <2>3, SeqMonotonic
    <3>2. raised # "no" => EndBehind(t, 0)
      BY <1>5, <2>1
    <3> QED BY <1>2, <3>1, <3>2, PrefixEnd
  <2>7. p \o t \in Seq(S)
    BY <1>2, <1>7, <2>3
  <2>8. Within(S, p \o t, raised')
    BY <1>3, <2>1, <2>5, <2>6, <2>7 DEF Within
  <2>9. todo' = (p \o t) \o q
    <3>1. p \in Seq(Ahead)
      BY <1>4, <2>3, SeqMonotonic
    <3> QED BY <1>2, <1>6, <2>2, <3>1
  <2> QED BY <2>8, <2>9
<1>13. CASE Asks
  <2>1. todo' = Answer \o (y \o q) /\ raised' = raised /\ Answer \in Seq(S)
    BY <1>4, <1>13 DEF Asks
  <2>2. Sound(Answer \o y) /\ (raised # "no" => EndBehind(Answer \o y, 0))
    <3>1. Answer \in Seq(Level5)
      BY AnswerBuilt
    <3>2. Level5 \subseteq Ahead /\ Flat(Level5)
      BY FlatLevels, Levels
    <3>3. Sound(Answer \o y)
      BY <1>3, <3>1, <3>2, SoundPrefix
    <3>4. Answer \in Seq(Ahead)
      BY <1>4, <2>1, SeqMonotonic
    <3> QED BY <1>3, <3>3, <3>4, PrefixEnd
  <2>3. Answer \o y \in Seq(S)
    BY <1>3, <1>7, <2>1
  <2>4. Within(S, Answer \o y, raised')
    BY <1>3, <2>1, <2>2, <2>3 DEF Within
  <2>5. todo' = (Answer \o y) \o q
    <3>1. Answer \in Seq(Ahead)
      BY <1>4, <2>1, SeqMonotonic
    <3>2. todo' = Answer \o (y \o q)
      BY <1>6, <2>1
    <3> QED BY <1>2, <3>1, <3>2
  <2> QED BY <2>4, <2>5
<1>14. ASSUME NEW how \in {"error", "cancel", "return"}, Throws(how)
       PROVE  \/ \E z : Within(S, z, raised') /\ todo' = z \o q
              \/ Throws(how) /\ how # "return" /\ Unwind(q, how)
  <2>1. PICK u : u = t \o q
    OBVIOUS
  <2>2. how \in {"error", "cancel"} /\ Unwind(t \o q, how)
    <3>1. how # "return"
      BY <1>3, <1>4, <1>14 DEF Throws
    <3>2. Unwind(Tail(todo), how)
      BY <1>14 DEF Throws
    <3> QED BY <1>2, <3>1, <3>2
  <2>3. Unwind(u, how)
    BY <2>1, <2>2 DEF Unwind
  <2>4. (\E z : Within(S, z, raised') /\ todo' = z \o q) \/ Unwind(q, how)
    <3>1. t \in Seq(S) /\ Sound(t) /\ how \in {"error", "cancel"}
      BY <1>2, <2>2
    <3> QED BY <3>1, <2>1, <2>3, PartUnwind, ZenonT(60)
  <2> QED BY <1>14, <2>2, <2>4
<1> QED BY <1>8, <1>9, <1>10, <1>11, <1>12, <1>13, <1>14 DEF Moves

\* The steps of a scenario by their kind.
LEMMA LevelKinds ==
  ASSUME NEW s \in Level4
  PROVE  /\ s.kind \in {"call", "send", "trust", "verdict", "raise", "block", "maybe"}
         /\ s.kind = "block" => s.inner \in Seq(Level4 \cup Marks)
         /\ s.kind = "maybe" => s.inner \in Seq(Level4)
         /\ s.kind = "raise" => s.how = "error"
<1> DEFINE L == Level4
<1>1. Level0 \subseteq L /\ Level1 \subseteq L /\ Level2 \subseteq L /\ Level3 \subseteq L
  BY Levels
<1>2. ASSUME NEW M, M \subseteq L, NEW q \in Nest(M)
      PROVE  \/ q \in M
             \/ q.kind = "block" /\ q.inner \in Seq(L \cup Marks)
             \/ q.kind = "maybe" /\ q.inner \in Seq(L)
  <2>1. M \cup Marks \subseteq L \cup Marks
    BY <1>2
  <2>2. Bodies(M) \subseteq Seq(L \cup Marks) /\ Seq(M) \subseteq Seq(L)
    BY <1>2, <2>1, SeqMonotonic DEF Bodies
  <2> QED BY <2>2, NestKinds
<1>3. \/ s \in Level0
      \/ s.kind = "block" /\ s.inner \in Seq(L \cup Marks)
      \/ s.kind = "maybe" /\ s.inner \in Seq(L)
  <2>1. \/ s \in Level3
        \/ s.kind = "block" /\ s.inner \in Seq(L \cup Marks)
        \/ s.kind = "maybe" /\ s.inner \in Seq(L)
    BY <1>1, <1>2 DEF Level4
  <2> HIDE DEF L
  <2>2. s \in Level3 => \/ s \in Level2
                        \/ s.kind = "block" /\ s.inner \in Seq(L \cup Marks)
                        \/ s.kind = "maybe" /\ s.inner \in Seq(L)
    BY <1>1, <1>2 DEF Level3
  <2>3. s \in Level2 => \/ s \in Level1
                        \/ s.kind = "block" /\ s.inner \in Seq(L \cup Marks)
                        \/ s.kind = "maybe" /\ s.inner \in Seq(L)
    BY <1>1, <1>2 DEF Level2
  <2>4. s \in Level1 => \/ s \in Level0
                        \/ s.kind = "block" /\ s.inner \in Seq(L \cup Marks)
                        \/ s.kind = "maybe" /\ s.inner \in Seq(L)
    BY <1>1, <1>2 DEF Level1
  <2> QED BY <2>1, <2>2, <2>3, <2>4
<1>4. Closing \subseteq L \cup Marks
  BY <1>1, Levels
<1> HIDE DEF L
<1>5. CASE s \in Level0
  <2>1. CASE s \in Calls
    BY <2>1 DEF Calls
  <2>2. CASE s \in Cleanup
    <3>1. /\ s.kind \in {"call", "send", "trust", "block"}
          /\ s.kind = "block" => s.inner \in Seq(Closing)
      BY <2>2, CleanupKinds
    <3>2. Seq(Closing) \subseteq Seq(L \cup Marks)
      BY <1>4, SeqMonotonic
    <3> QED BY <3>1, <3>2 DEF L
  <2>3. CASE s = Raise("error")
    BY <2>3 DEF Raise
  <2>4. CASE s = Ask("verdict")
    BY <2>4 DEF Ask
  <2> QED BY <1>5, <2>1, <2>2, <2>3, <2>4 DEF Level0
<1> QED BY <1>3, <1>5 DEF L

\* The steps of a scenario lead to no others.
LEMMA InsideContained == SelfContained(Inside)
<1>1. Level4 \subseteq Inside /\ Marks \subseteq Inside /\ Level4 \cup Marks \subseteq Inside
  BY DEF Inside
<1>2. Cleanup \subseteq Inside
  BY <1>1, Levels
<1>3. Answer \in Seq(Inside)
  BY <1>1, AnswerBuilt, SeqMonotonic
<1>4. Inside \subseteq Ahead
  BY Levels DEF Inside, Ahead, Ends
<1>5. [kind : {"end"}, saved : Kinds \ {"return"}] \subseteq Inside
  BY DEF Inside
<1>6. /\ Seq(Level4) \subseteq Seq(Inside) /\ Seq(Level4 \cup Marks) \subseteq Seq(Inside)
      /\ Seq(Cleanup) \subseteq Seq(Inside)
  BY <1>1, <1>2, SeqMonotonic
<1>7. ASSUME NEW s \in Inside
      PROVE  /\ s.kind \in {"block", "maybe"} => s.inner \in Seq(Inside)
             /\ s.kind \in {"finally", "undo", "except"} => s.handler \in Seq(Inside)
             /\ s.kind = "raise" => s.how = "error"
             /\ s.kind = "end" => s.saved # "return"
  <2>1. CASE s \in Level4
    BY <1>6, <2>1, LevelKinds
  <2>2. CASE s \in Marks
    BY <1>6, <2>2 DEF Marks
  <2>3. CASE s \in [kind : {"end"}, saved : Kinds \ {"return"}]
    BY <2>3
  <2> QED BY <2>1, <2>2, <2>3 DEF Inside
<1> QED BY <1>3, <1>4, <1>5, <1>7 DEF SelfContained

-----------------------------------------------------------------------------
(* The programs that have no results.                                      *)

\* The steps of the other programs by their kind: none stands for a row.
LEMMA RowlessKinds ==
  ASSUME NEW s \in Rowless
  PROVE  /\ s.kind \notin {"record", "cell", "stack"}
         /\ s.kind \in {"block", "maybe"} => s.inner \in Seq(Rowless)
         /\ s.kind \in {"finally", "undo", "except"} => s.handler \in Seq(Rowless)
<1>1. /\ Level4 \cup Marks \subseteq Rowless /\ Returning \cup Marks \subseteq Rowless
      /\ Level4 \subseteq Rowless /\ Returning \subseteq Rowless /\ Cleanup \subseteq Rowless
  BY Levels DEF Rowless
<1>2. /\ Seq(Level4 \cup Marks) \subseteq Seq(Rowless) /\ Seq(Returning \cup Marks) \subseteq Seq(Rowless)
      /\ Seq(Level4) \subseteq Seq(Rowless) /\ Seq(Returning) \subseteq Seq(Rowless)
      /\ Seq(Cleanup) \subseteq Seq(Rowless)
  BY <1>1, SeqMonotonic
<1>3. CASE s \in Level4
  BY <1>2, <1>3, LevelKinds
<1>4. CASE s = Raise("return")
  BY <1>4 DEF Raise
<1>5. CASE s \in Marks
  BY <1>2, <1>5 DEF Marks
<1>6. CASE s \in Ends
  BY <1>6 DEF Ends
<1>7. CASE s \in Nest(Returning)
  <2>1. Bodies(Returning) \subseteq Seq(Rowless)
    BY <1>2 DEF Bodies
  <2>2. s \in Returning => s \in Level4 \/ s = Raise("return")
    BY DEF Returning
  <2> QED BY <1>2, <1>3, <1>4, <1>7, <2>1, <2>2, NestKinds
<1> QED BY <1>5, <1>6, <1>7 DEF Rowless

\* What such a program moves to has none either.
LEMMA RowlessMoves ==
  ASSUME todo \in Seq(Rowless), raised \in Kinds, Moves
  PROVE  todo' \in Seq(Rowless)
<1>1. Level4 \subseteq Rowless
  BY Levels DEF Rowless
<1>2. Answer \in Seq(Rowless)
  BY <1>1, AnswerBuilt, SeqMonotonic
<1>3. <<End(raised)>> \in Seq(Rowless)
  <2>1. End(raised) \in Rowless
    BY DEF End, Ends, Rowless
  <2> QED BY <2>1
<1>4. \A a, b \in Seq(Rowless) : a \o b \in Seq(Rowless)
  BY ConcatProperties
<1>5. todo # <<>> => Step \in Rowless /\ Tail(todo) \in Seq(Rowless)
  BY HeadAndTail DEF Step
<1>6. CASE Stays \/ GoesOn \/ Closes \/ Asks
  BY <1>2, <1>4, <1>5, <1>6 DEF Stays, GoesOn, Closes, Asks
<1>7. CASE Opens
  <2>1. Step.inner \in Seq(Rowless) /\ Tail(todo) \in Seq(Rowless)
    BY <1>5, <1>7, RowlessKinds DEF Opens
  <2>2. Step.inner \o <<End(raised)>> \in Seq(Rowless)
    BY <1>3, <1>4, <2>1
  <2> QED BY <1>4, <1>7, <2>1, <2>2 DEF Opens
<1>8. CASE Turns
  <2>1. Step.inner \in Seq(Rowless) /\ Tail(todo) \in Seq(Rowless) /\ <<>> \in Seq(Rowless)
    BY <1>5, <1>8, RowlessKinds, EmptySeq DEF Turns
  <2> QED BY <1>4, <1>8, <2>1 DEF Turns
<1>9. ASSUME NEW how, Throws(how)
      PROVE  todo' \in Seq(Rowless)
  <2>1. PICK rest : rest = Tail(todo)
    OBVIOUS
  <2>2. rest \in Seq(Rowless) /\ Unwind(Tail(todo), how)
    BY <1>5, <1>9, <2>1 DEF Throws
  <2>3. \/ \E i \in 1 .. Len(rest) :
             Lands(rest[i], how) /\ todo' = rest[i].handler \o SubSeq(rest, i + 1, Len(rest))
        \/ todo' = <<>>
    BY <2>1, <2>2 DEF Unwind
  <2>4. ASSUME NEW i \in 1 .. Len(rest), Lands(rest[i], how),
               todo' = rest[i].handler \o SubSeq(rest, i + 1, Len(rest))
        PROVE  todo' \in Seq(Rowless)
    <3>1. rest[i] \in Rowless /\ SubSeq(rest, i + 1, Len(rest)) \in Seq(Rowless)
      BY <2>2, ElementOfSeq, Beyond
    <3>2. rest[i].handler \in Seq(Rowless)
      BY <2>4, <3>1, RowlessKinds DEF Lands
    <3> QED BY <1>4, <2>4, <3>1, <3>2
  <2> QED BY <2>3, <2>4, EmptySeq
<1> QED BY <1>6, <1>7, <1>8, <1>9 DEF Moves

-----------------------------------------------------------------------------
(* The runner. First, the pieces of what is ahead of it.                   *)

\* What stands between a and d.
LEMMA Between ==
  ASSUME NEW S, NEW a \in Seq(S), NEW c \in Seq(S), NEW d \in Seq(S)
  PROVE  SubSeq(a \o (c \o d), Len(a) + 1, Len(a) + Len(c)) = c
<1>1. PICK v : v = c \o d
  OBVIOUS
<1>2. PICK u : u = a \o v
  OBVIOUS
<1>3. /\ v \in Seq(S) /\ Len(c) \in Nat /\ Len(d) \in Nat /\ Len(v) = Len(c) + Len(d)
      /\ \A i \in 1 .. Len(c) : v[i] = c[i]
  BY <1>1, Joined
<1>4. /\ u \in Seq(S) /\ Len(a) \in Nat /\ Len(u) = Len(a) + Len(v)
      /\ \A i \in 1 .. Len(v) : u[Len(a) + i] = v[i]
  <2>1. v \in Seq(S)
    BY <1>3
  <2>2. /\ a \o v \in Seq(S) /\ Len(a) \in Nat /\ Len(a \o v) = Len(a) + Len(v)
        /\ \A i \in 1 .. Len(v) : (a \o v)[Len(a) + i] = v[i]
    BY <2>1, Joined
  <2> QED BY <1>2, <2>2
<1> DEFINE m == Len(a) + 1
           n == Len(a) + Len(c)
<1>5. m \in Int /\ n \in Int /\ n - m + 1 = Len(c) /\ (m <= n \/ Len(c) = 0)
  BY <1>3, <1>4
<1>6. ASSUME NEW i \in m .. n
      PROVE  u[i] \in S
  <2>1. i \in 1 .. Len(u)
    BY <1>3, <1>4, <1>6
  <2> QED BY <1>4, <2>1, ElementOfSeq
<1>7. /\ SubSeq(u, m, n) \in Seq(S)
      /\ Len(SubSeq(u, m, n)) = IF m <= n THEN n - m + 1 ELSE 0
      /\ \A i \in 1 .. n - m + 1 : SubSeq(u, m, n)[i] = u[m + i - 1]
  BY <1>5, <1>6, SubSeqProperties
<1>8. Len(SubSeq(u, m, n)) = Len(c)
  BY <1>5, <1>7
<1>9. ASSUME NEW i \in 1 .. Len(c)
       PROVE  SubSeq(u, m, n)[i] = c[i]
  <2>1. i \in 1 .. n - m + 1 /\ i \in 1 .. Len(v) /\ m + i - 1 = Len(a) + i
    BY <1>3, <1>4, <1>5
  <2> QED BY <1>3, <1>4, <1>7, <2>1
<1>10. SubSeq(u, m, n) = c
  BY <1>7, <1>8, <1>9, SeqEqual
<1> QED BY <1>1, <1>2, <1>10

\* The parts of a cell, of the rows, and of what is behind them, found again.
LEMMA Pieces ==
  ASSUME NEW S, NEW a \in Seq(S), NEW b \in Seq(S), NEW c \in Seq(S), NEW d \in Seq(S),
         NEW t, t = a \o (b \o (c \o d))
  PROVE  /\ t \in Seq(S)
         /\ Len(a) \in 0 .. Len(t) /\ SubSeq(t, 1, Len(a)) = a
         /\ SubSeq(t, Len(a) + Len(b) + 1, Len(t) - Len(d)) = c
<1>1. PICK x, y, z : x = c \o d /\ y = b \o x /\ z = a \o b
  OBVIOUS
<1>2. x \in Seq(S) /\ Len(c) \in Nat /\ Len(d) \in Nat /\ Len(x) = Len(c) + Len(d)
  BY <1>1, Joined
<1>3. y \in Seq(S) /\ Len(b) \in Nat /\ Len(y) = Len(b) + Len(x)
  BY <1>1, <1>2, Joined
<1>4. t = a \o y
  BY <1>1
<1>5. t \in Seq(S) /\ Len(a) \in Nat /\ Len(t) = Len(a) + Len(y)
  BY <1>3, <1>4, Joined
<1>6. z \in Seq(S) /\ Len(z) = Len(a) + Len(b)
  BY <1>1, Joined
<1>7. SubSeq(t, 1, Len(a)) = a
  <2>1. PICK e : e = <<>>
    OBVIOUS
  <2>2. e \in Seq(S) /\ Len(e) = 0 /\ e \o t = t
    BY <1>5, <2>1, EmptySeq, ConcatEmptySeq
  <2>3. SubSeq(e \o (a \o y), Len(e) + 1, Len(e) + Len(a)) = a
    <3>1. e \in Seq(S) /\ y \in Seq(S)
      BY <1>3, <2>2
    <3>2. \A f \in Seq(S), g \in Seq(S), h \in Seq(S) :
            SubSeq(f \o (g \o h), Len(f) + 1, Len(f) + Len(g)) = g
      BY Between
    <3> QED BY <3>1, <3>2
  <2>4. Len(e) + 1 = 1 /\ Len(e) + Len(a) = Len(a)
    BY <1>5, <2>2
  <2> QED BY <1>4, <2>2, <2>3, <2>4
<1>8. t = z \o x
  <2>1. x \in Seq(S)
    BY <1>2
  <2>2. (a \o b) \o x = a \o (b \o x)
    BY <2>1, ConcatAssociative, SMTT(30)
  <2> QED BY <1>1, <1>4, <2>2
<1>9. SubSeq(z \o (c \o d), Len(z) + 1, Len(z) + Len(c)) = c
  BY <1>6, Between
<1>10. Len(z) + 1 = Len(a) + Len(b) + 1 /\ Len(z) + Len(c) = Len(t) - Len(d)
  BY <1>2, <1>3, <1>5, <1>6
<1>11. SubSeq(t, Len(a) + Len(b) + 1, Len(t) - Len(d)) = c
  BY <1>1, <1>8, <1>9, <1>10
<1>12. Len(a) \in 0 .. Len(t)
  BY <1>2, <1>3, <1>5
<1> QED BY <1>5, <1>7, <1>11, <1>12

\* The three ways that a cell's errors are noted.
Notings == {<<>>, <<End("no")>>, Noted}

\* What is ahead of the runner and behind its cell is made of known steps.
LEMMA AroundBuilt ==
  /\ Seq(Inside) \subseteq Seq(Ahead) /\ Seq(RowSteps) \subseteq Seq(Ahead)
  /\ \A noted \in Notings : noted \in Seq(Ahead)
  /\ Behind \in Seq(Ahead)
<1>1. Inside \subseteq Ahead
  BY InsideContained DEF SelfContained
<1>2. RowSteps \subseteq Ahead
  BY Levels
<1>3. Seq(Inside) \subseteq Seq(Ahead) /\ Seq(RowSteps) \subseteq Seq(Ahead)
  BY <1>1, <1>2, SeqMonotonic
<1>4. End("no") \in Ahead
  BY DEF End, Ends, Kinds, Ahead
<1>5. \A k \in {"except", "finally"} : Mark(k, <<>>) \in Ahead
  <2>1. <<>> \in Seq(Cleanup)
    BY EmptySeq
  <2> QED BY <2>1 DEF Mark, Marks, Ahead
<1>6. <<>> \in Seq(Ahead) /\ <<End("no")>> \in Seq(Ahead) /\ Noted \in Seq(Ahead)
  BY <1>4, <1>5, EmptySeq DEF Noted
<1>7. Opening("write_run") \in Ahead /\ StopPeripheral \in Ahead
  <2>1. "write_run" \in CallNames /\ "peripheral" \in Children
    BY DEF CallNames, Children
  <2>2. Opening("write_run") \in Ahead
    BY <2>1, CallsBuilt, Levels
  <2>3. StopPeripheral \in Ahead
    BY <2>1, StopBuilt, CleanBuilt, ResourcesNamed, Levels DEF StopPeripheral
  <2> QED BY <2>2, <2>3
<1>8. <<Opening("write_run")>> \in Seq(Ahead)
  BY <1>7
<1>9. <<Mark("finally", <<>>), StopPeripheral, End("no"), Opening("write_run")>> \in Seq(Ahead)
  BY <1>4, <1>5, <1>7
<1>10. Behind \in Seq(Ahead)
  BY <1>8, <1>9 DEF Behind
<1> QED BY <1>3, <1>6, <1>10 DEF Notings

\* In the matrix: the parts that are ahead.
LEMMA MatrixParts ==
  ASSUME InMatrix
  PROVE  \E steps, noted, rows :
           /\ todo = steps \o (noted \o (rows \o Behind))
           /\ steps \in Seq(Inside) /\ Sound(steps)
           /\ raised # "return" /\ (raised # "no" => EndBehind(steps, 0))
           /\ noted \in Notings /\ InCell(steps, noted, raised)
           /\ rows \in Seq(RowSteps) /\ Complete(job.stacks, rows, results)
<1>1. PICK i \in 0 .. Len(todo), noted \in Notings :
        LET steps == SubSeq(todo, 1, i)
            rows == SubSeq(todo, i + Len(noted) + 1, Len(todo) - Len(Behind))
        IN /\ todo = steps \o (noted \o (rows \o Behind))
           /\ Within(Inside, steps, raised) /\ InCell(steps, noted, raised)
           /\ rows \in Seq(RowSteps) /\ Complete(job.stacks, rows, results)
  BY DEF InMatrix, Notings
<1>2. PICK steps, rows : /\ steps = SubSeq(todo, 1, i)
                         /\ rows = SubSeq(todo, i + Len(noted) + 1, Len(todo) - Len(Behind))
  OBVIOUS
<1>3. /\ todo = steps \o (noted \o (rows \o Behind))
      /\ Within(Inside, steps, raised) /\ InCell(steps, noted, raised)
      /\ rows \in Seq(RowSteps) /\ Complete(job.stacks, rows, results)
  BY <1>1, <1>2
<1>4. /\ steps \in Seq(Inside) /\ Sound(steps)
      /\ raised # "return" /\ (raised # "no" => EndBehind(steps, 0))
  BY <1>3 DEF Within
<1> QED BY <1>3, <1>4

\* ... and such parts are in the matrix.
LEMMA MatrixAgain ==
  ASSUME NEW steps \in Seq(Inside), NEW noted \in Notings, NEW rows \in Seq(RowSteps),
         NEW b \in Seq(Ahead), Behind' = b,
         todo' = steps \o (noted \o (rows \o b)),
         Sound(steps), raised' # "return", raised' # "no" => EndBehind(steps, 0),
         InCell(steps, noted, raised'), Complete(job'.stacks, rows, results')
  PROVE  InMatrix'
<1>1. PICK t : t = todo'
  OBVIOUS
<1>2. steps \in Seq(Ahead) /\ noted \in Seq(Ahead) /\ rows \in Seq(Ahead)
  BY AroundBuilt
<1>3. t = steps \o (noted \o (rows \o b))
  BY <1>1
<1>4. /\ Len(steps) \in 0 .. Len(t) /\ SubSeq(t, 1, Len(steps)) = steps
      /\ SubSeq(t, Len(steps) + Len(noted) + 1, Len(t) - Len(b)) = rows
  BY <1>2, <1>3, Pieces
<1>5. Within(Inside, steps, raised')
  BY DEF Within
<1>6. \E i \in 0 .. Len(todo'), n \in Notings :
        LET s == SubSeq(todo', 1, i)
            r == SubSeq(todo', i + Len(n) + 1, Len(todo') - Len(Behind'))
        IN /\ todo' = s \o (n \o (r \o Behind'))
           /\ Within(Inside, s, raised') /\ InCell(s, n, raised')
           /\ r \in Seq(RowSteps) /\ Complete(job'.stacks, r, results')
  BY <1>1, <1>3, <1>4, <1>5
<1> QED BY <1>6 DEF InMatrix, Notings

\* The rows of two sequences of steps, of one step, and of none.
LEMMA DueJoined ==
  ASSUME NEW s, NEW p \in Seq(RowSteps), NEW q \in Seq(RowSteps)
  PROVE  Due(s, p \o q) = Due(s, p) \cup Due(s, q)
<1>1. PICK u : u = p \o q
  OBVIOUS
<1>2. /\ Len(p) \in Nat /\ Len(q) \in Nat /\ Len(u) = Len(p) + Len(q)
      /\ \A i \in 1 .. Len(p) : u[i] = p[i]
      /\ \A i \in 1 .. Len(q) : u[Len(p) + i] = q[i]
  BY <1>1, Joined
<1>3. ASSUME NEW c \in Due(s, u)
      PROVE  c \in Due(s, p) \cup Due(s, q)
  <2>1. c \in AnyScenario
    BY <1>3 DEF Due
  <2>2. PICK i \in 1 .. Len(u) : <<s, c>> \in Promises(u[i])
    BY <1>3 DEF Due
  <2>3. CASE i \in 1 .. Len(p)
    BY <1>2, <2>1, <2>2, <2>3 DEF Due
  <2>4. CASE i \notin 1 .. Len(p)
    <3>1. PICK j \in 1 .. Len(q) : i = Len(p) + j
      <4>1. i - Len(p) \in 1 .. Len(q) /\ i = Len(p) + (i - Len(p))
        BY <1>2, <2>4
      <4> QED BY <4>1
    <3>2. u[i] = q[j]
      BY <1>2, <3>1
    <3> QED BY <2>1, <2>2, <3>2 DEF Due
  <2> QED BY <2>3, <2>4
<1>4. ASSUME NEW c \in Due(s, p)
      PROVE  c \in Due(s, u)
  <2>1. c \in AnyScenario
    BY <1>4 DEF Due
  <2>2. PICK i \in 1 .. Len(p) : <<s, c>> \in Promises(p[i])
    BY <1>4 DEF Due
  <2>3. i \in 1 .. Len(u) /\ u[i] = p[i]
    BY <1>2
  <2> QED BY <2>1, <2>2, <2>3 DEF Due
<1>5. ASSUME NEW c \in Due(s, q)
      PROVE  c \in Due(s, u)
  <2>1. c \in AnyScenario
    BY <1>5 DEF Due
  <2>2. PICK i \in 1 .. Len(q) : <<s, c>> \in Promises(q[i])
    BY <1>5 DEF Due
  <2>3. Len(p) + i \in 1 .. Len(u) /\ u[Len(p) + i] = q[i]
    BY <1>2
  <2> QED BY <2>1, <2>2, <2>3 DEF Due
<1> QED BY <1>1, <1>3, <1>4, <1>5

\* The scenarios of one step, and of none.
LEMMA DueOfOne ==
  ASSUME NEW s
  PROVE  /\ Due(s, <<>>) = {}
         /\ \A r \in RowSteps : Due(s, <<r>>) = {c \in AnyScenario : <<s, c>> \in Promises(r)}
<1>1. Due(s, <<>>) = {}
  <2>1. 1 .. Len(<<>>) = {}
    BY EmptySeq
  <2> QED BY <2>1 DEF Due
<1>2. ASSUME NEW r \in RowSteps
      PROVE  Due(s, <<r>>) = {c \in AnyScenario : <<s, c>> \in Promises(r)}
  <2>1. Len(<<r>>) = 1 /\ <<r>>[1] = r
    OBVIOUS
  <2>2. 1 .. Len(<<r>>) = {1}
    BY <2>1
  <2> QED BY <2>1, <2>2 DEF Due
<1> QED BY <1>1, <1>2

\* The rows of a stack, with one more.
LEMMA RowAppended ==
  ASSUME NEW s, NEW there \in Seq(Rows), NEW e \in Rows
  PROVE  Row(s, Append(there, e)) = Row(s, there) \cup (IF e.stack = s THEN {e.scenario} ELSE {})
<1>1. Range(Append(there, e)) = Range(there) \cup {e}
  <2>1. PICK u : u = Append(there, e)
    OBVIOUS
  <2>2. /\ u \in Seq(Rows) /\ Len(there) \in Nat /\ Len(u) = Len(there) + 1
        /\ \A i \in 1 .. Len(there) : u[i] = there[i]
        /\ u[Len(there) + 1] = e
    BY <2>1, AppendProperties, LenProperties
  <2>3. DOMAIN u = 1 .. Len(u) /\ DOMAIN there = 1 .. Len(there)
    BY <2>2, LenProperties
  <2>4. 1 .. Len(u) = 1 .. Len(there) \cup {Len(there) + 1}
    BY <2>2
  <2>5. Range(u) = {u[i] : i \in 1 .. Len(there)} \cup {e}
    BY <2>2, <2>3, <2>4 DEF Range
  <2>6. Range(there) = {u[i] : i \in 1 .. Len(there)}
    BY <2>2, <2>3 DEF Range
  <2> QED BY <2>1, <2>5, <2>6
<1> QED BY <1>1 DEF Row

\* What a step stands for is of its own stack.
LEMMA PromisesOfStep ==
  ASSUME NEW r \in RowSteps
  PROVE  /\ r.stack \in DOMAIN Stack /\ Promises(r) \subseteq {r.stack} \X AnyScenario
         /\ r.kind \in {"record", "cell", "stack"}
         /\ r.kind = "stack" =>
              /\ r = [kind |-> "stack", stack |-> r.stack]
              /\ Promises(r) = {r.stack} \X AnyScenario
         /\ r.kind # "stack" =>
              r.scenario \in Range(Scenarios) /\ Promises(r) = {<<r.stack, r.scenario>>}
<1>1. CASE r \in [kind : {"record", "cell"}, stack : DOMAIN Stack, scenario : Range(Scenarios)]
  BY <1>1 DEF Promises, AnyScenario
<1>2. CASE r \in [kind : {"stack"}, stack : DOMAIN Stack]
  BY <1>2 DEF Promises
<1> QED BY <1>1, <1>2 DEF RowSteps

\* The next step gives way to n, whose rows are among its own, or to a row of
\* the results: then the rows are as complete as they were.
LEMMA RowsGoOn ==
  ASSUME NEW stacks, NEW r \in RowSteps, NEW q \in Seq(RowSteps), NEW n \in Seq(RowSteps),
         NEW there \in Seq(Rows), NEW then \in Seq(Rows),
         Complete(stacks, <<r>> \o q, there),
         \A i \in 1 .. Len(n) : Promises(n[i]) \subseteq Promises(r),
         \A i, j \in 1 .. Len(n) : i # j => Promises(n[i]) \cap Promises(n[j]) = {},
         \/ then = there
         \/ /\ n = <<>>
            /\ \E e \in Rows : Key(e) \in Promises(r) /\ then = Append(there, e),
         \/ r.stack \notin Range(stacks)
         \/ \E i \in 1 .. Len(n \o q) : (n \o q)[i] = [kind |-> "stack", stack |-> r.stack]
         \/ Row(r.stack, then) \cup Due(r.stack, n \o q) \in {{"*"}, Range(Scenarios)}
  PROVE  Complete(stacks, n \o q, then)
<1>1. PICK u, v : u = <<r>> \o q /\ v = n \o q
  OBVIOUS
<1>2. <<r>> \in Seq(RowSteps) /\ Len(<<r>>) = 1 /\ <<r>>[1] = r
  OBVIOUS
<1>3. /\ Len(q) \in Nat /\ Len(u) = 1 + Len(q) /\ u[1] = r
      /\ \A i \in 1 .. Len(q) : u[1 + i] = q[i]
  <2>1. /\ Len(q) \in Nat /\ Len(<<r>> \o q) = Len(<<r>>) + Len(q)
        /\ \A i \in 1 .. Len(<<r>>) : (<<r>> \o q)[i] = <<r>>[i]
        /\ \A i \in 1 .. Len(q) : (<<r>> \o q)[Len(<<r>>) + i] = q[i]
    BY <1>2, Joined
  <2> QED BY <1>1, <1>2, <2>1
<1>4. /\ v \in Seq(RowSteps) /\ Len(n) \in Nat /\ Len(v) = Len(n) + Len(q)
      /\ \A i \in 1 .. Len(n) : v[i] = n[i]
      /\ \A i \in 1 .. Len(q) : v[Len(n) + i] = q[i]
  BY <1>1, Joined
<1>5. /\ \A i, j \in 1 .. Len(u) : i # j => Promises(u[i]) \cap Promises(u[j]) = {}
      /\ \A i \in 1 .. Len(u), k \in 1 .. Len(there) : Key(there[k]) \notin Promises(u[i])
      /\ \A s \in Range(stacks) :
           \/ \E i \in 1 .. Len(u) : u[i] = [kind |-> "stack", stack |-> s]
           \/ Row(s, there) \cup Due(s, u) \in {{"*"}, Range(Scenarios)}
  BY <1>1 DEF Complete
<1>6. /\ \A i \in 1 .. Len(q) : Promises(q[i]) \cap Promises(r) = {}
      /\ \A i, j \in 1 .. Len(q) : i # j => Promises(q[i]) \cap Promises(q[j]) = {}
  <2>1. ASSUME NEW i \in 1 .. Len(q)
        PROVE  1 + i \in 1 .. Len(u) /\ 1 \in 1 .. Len(u) /\ 1 + i # 1 /\ u[1 + i] = q[i]
    BY <1>3
  <2>2. ASSUME NEW i \in 1 .. Len(q)
        PROVE  Promises(q[i]) \cap Promises(r) = {}
    BY <1>3, <1>5, <2>1
  <2>3. ASSUME NEW i \in 1 .. Len(q), NEW j \in 1 .. Len(q), i # j
        PROVE  Promises(q[i]) \cap Promises(q[j]) = {}
    <3>1. 1 + i # 1 + j
      BY <1>3, <2>3
    <3> QED BY <1>5, <2>1, <3>1
  <2> QED BY <2>2, <2>3
<1>7. ASSUME NEW i \in 1 .. Len(v)
      PROVE  \/ i \in 1 .. Len(n) /\ v[i] = n[i]
             \/ \E k \in 1 .. Len(q) : i = Len(n) + k /\ v[i] = q[k]
  <2>1. CASE i \notin 1 .. Len(n)
    <3>1. i - Len(n) \in 1 .. Len(q) /\ i = Len(n) + (i - Len(n))
      BY <1>3, <1>4, <2>1
    <3> QED BY <1>4, <3>1
  <2> QED BY <1>4, <2>1
<1>8. ASSUME NEW i \in 1 .. Len(v), NEW j \in 1 .. Len(v), i # j
      PROVE  Promises(v[i]) \cap Promises(v[j]) = {}
  <2>1. CASE v[i] = n[i] /\ v[j] = n[j] /\ i \in 1 .. Len(n) /\ j \in 1 .. Len(n)
    BY <1>8, <2>1
  <2>2. ASSUME i \in 1 .. Len(n), v[i] = n[i], NEW k \in 1 .. Len(q), v[j] = q[k]
        PROVE  Promises(v[i]) \cap Promises(v[j]) = {}
    BY <1>6, <2>2
  <2>3. ASSUME j \in 1 .. Len(n), v[j] = n[j], NEW k \in 1 .. Len(q), v[i] = q[k]
        PROVE  Promises(v[i]) \cap Promises(v[j]) = {}
    BY <1>6, <2>3
  <2>4. ASSUME NEW k \in 1 .. Len(q), NEW m \in 1 .. Len(q), i = Len(n) + k, j = Len(n) + m,
               v[i] = q[k], v[j] = q[m]
        PROVE  Promises(v[i]) \cap Promises(v[j]) = {}
    <3>1. k # m
      BY <1>8, <2>4
    <3> QED BY <1>6, <2>4, <3>1
  <2> QED BY <1>7, <2>1, <2>2, <2>3, <2>4
<1>9. ASSUME NEW i \in 1 .. Len(v), NEW k \in 1 .. Len(then)
      PROVE  Key(then[k]) \notin Promises(v[i])
  <2>1. ASSUME NEW m \in 1 .. Len(there)
        PROVE  Key(there[m]) \notin Promises(v[i])
    <3>1. CASE i \in 1 .. Len(n) /\ v[i] = n[i]
      <4>1. Key(there[m]) \notin Promises(r)
        <5>1. 1 \in 1 .. Len(u)
          BY <1>3
        <5>2. Key(there[m]) \notin Promises(u[1])
          BY <1>5, <5>1
        <5> QED BY <1>3, <5>2
      <4> QED BY <3>1, <4>1
    <3>2. ASSUME NEW j \in 1 .. Len(q), v[i] = q[j]
          PROVE  Key(there[m]) \notin Promises(v[i])
      <4>1. 1 + j \in 1 .. Len(u) /\ u[1 + j] = q[j]
        BY <1>3
      <4>2. Key(there[m]) \notin Promises(u[1 + j])
        BY <1>5, <4>1
      <4> QED BY <3>2, <4>1, <4>2
    <3> QED BY <1>7, <3>1, <3>2
  <2>2. CASE then = there
    BY <2>1, <2>2
  <2>3. ASSUME n = <<>>, NEW e \in Rows, Key(e) \in Promises(r), then = Append(there, e)
        PROVE  Key(then[k]) \notin Promises(v[i])
    <3>1. /\ Len(there) \in Nat /\ Len(then) = Len(there) + 1
          /\ \A m \in 1 .. Len(there) : then[m] = there[m]
          /\ then[Len(there) + 1] = e
      BY <2>3, AppendProperties, LenProperties
    <3>2. CASE k \in 1 .. Len(there)
      BY <2>1, <3>1, <3>2
    <3>3. CASE k \notin 1 .. Len(there)
      <4>1. then[k] = e
        <5>1. k = Len(there) + 1
          BY <3>1, <3>3
        <5> QED BY <3>1, <5>1
      <4>2. 1 .. Len(n) = {}
        BY <2>3, EmptySeq
      <4> QED BY <1>6, <1>7, <2>3, <4>1, <4>2
    <3> QED BY <3>2, <3>3
  <2> QED BY <2>2, <2>3
<1>10. ASSUME NEW s \in Range(stacks), s # r.stack
       PROVE  \/ \E i \in 1 .. Len(v) : v[i] = [kind |-> "stack", stack |-> s]
              \/ Row(s, then) \cup Due(s, v) \in {{"*"}, Range(Scenarios)}
  <2>1. ASSUME NEW i \in 1 .. Len(u), u[i] = [kind |-> "stack", stack |-> s]
        PROVE  \E k \in 1 .. Len(v) : v[k] = [kind |-> "stack", stack |-> s]
    <3>1. i # 1
      BY <1>3, <1>10, <2>1
    <3>2. i - 1 \in 1 .. Len(q) /\ 1 + (i - 1) = i
      BY <1>3, <3>1
    <3>3. Len(n) + (i - 1) \in 1 .. Len(v) /\ v[Len(n) + (i - 1)] = u[i]
      BY <1>3, <1>4, <3>2
    <3> QED BY <2>1, <3>3
  <2>2. Due(s, v) = Due(s, u)
    <3>1. Due(s, v) = Due(s, n) \cup Due(s, q) /\ Due(s, u) = Due(s, <<r>>) \cup Due(s, q)
      BY <1>1, <1>2, DueJoined
    <3>2. \A c : <<s, c>> \notin Promises(r)
      BY <1>10, PromisesOfStep
    <3>3. Due(s, n) = {}
      BY <3>2 DEF Due
    <3>4. Due(s, <<r>>) = {}
      <4>1. Due(s, <<r>>) = {c \in AnyScenario : <<s, c>> \in Promises(r)}
        BY DueOfOne
      <4> QED BY <3>2, <4>1
    <3> QED BY <3>1, <3>3, <3>4
  <2>3. Row(s, then) = Row(s, there)
    <3>1. ASSUME NEW e \in Rows, Key(e) \in Promises(r), then = Append(there, e)
          PROVE  Row(s, then) = Row(s, there)
      <4>1. e.stack = r.stack
        <5>1. Promises(r) \subseteq {r.stack} \X AnyScenario
          BY PromisesOfStep
        <5>2. <<e.stack, e.scenario>> \in {r.stack} \X AnyScenario
          BY <3>1, <5>1 DEF Key
        <5> QED BY <5>2
      <4>2. Row(s, Append(there, e)) = Row(s, there) \cup (IF e.stack = s THEN {e.scenario} ELSE {})
        BY RowAppended
      <4>3. e.stack # s
        BY <1>10, <4>1
      <4> QED BY <3>1, <4>2, <4>3
    <3> QED BY <3>1
  <2> QED BY <1>5, <2>1, <2>2, <2>3
<1>11. \A s \in Range(stacks) :
         \/ \E i \in 1 .. Len(v) : v[i] = [kind |-> "stack", stack |-> s]
         \/ Row(s, then) \cup Due(s, v) \in {{"*"}, Range(Scenarios)}
  BY <1>1, <1>10
<1> QED BY <1>1, <1>8, <1>9, <1>11 DEF Complete

\* Nothing else stands for a row that the next step stands for.
LEMMA Alone ==
  ASSUME NEW stacks, NEW r \in RowSteps, NEW q \in Seq(RowSteps), NEW there \in Seq(Rows),
         Complete(stacks, <<r>> \o q, there)
  PROVE  /\ \A k \in 1 .. Len(there) : Key(there[k]) \notin Promises(r)
         /\ \A c : <<r.stack, c>> \in Promises(r) => c \notin Due(r.stack, q) /\ c \notin Row(r.stack, there)
         /\ r.stack \in Range(stacks) /\ r.kind # "stack" =>
              \/ \E i \in 1 .. Len(q) : q[i] = [kind |-> "stack", stack |-> r.stack]
              \/ Row(r.stack, there) \cup (Due(r.stack, <<r>>) \cup Due(r.stack, q))
                   \in {{"*"}, Range(Scenarios)}
<1>1. PICK u : u = <<r>> \o q
  OBVIOUS
<1>2. <<r>> \in Seq(RowSteps) /\ Len(<<r>>) = 1 /\ <<r>>[1] = r
  OBVIOUS
<1>3. /\ Len(q) \in Nat /\ Len(u) = 1 + Len(q) /\ u[1] = r
      /\ \A i \in 1 .. Len(q) : u[1 + i] = q[i]
  <2>1. /\ Len(q) \in Nat /\ Len(<<r>> \o q) = Len(<<r>>) + Len(q)
        /\ \A i \in 1 .. Len(<<r>>) : (<<r>> \o q)[i] = <<r>>[i]
        /\ \A i \in 1 .. Len(q) : (<<r>> \o q)[Len(<<r>>) + i] = q[i]
    BY <1>2, Joined
  <2> QED BY <1>1, <1>2, <2>1
<1>4. /\ \A i, j \in 1 .. Len(u) : i # j => Promises(u[i]) \cap Promises(u[j]) = {}
      /\ \A i \in 1 .. Len(u), k \in 1 .. Len(there) : Key(there[k]) \notin Promises(u[i])
      /\ \A s \in Range(stacks) :
           \/ \E i \in 1 .. Len(u) : u[i] = [kind |-> "stack", stack |-> s]
           \/ Row(s, there) \cup Due(s, u) \in {{"*"}, Range(Scenarios)}
  BY <1>1 DEF Complete
<1>5. 1 \in 1 .. Len(u)
  BY <1>3
<1>6. \A k \in 1 .. Len(there) : Key(there[k]) \notin Promises(r)
  BY <1>3, <1>4, <1>5
<1>7. ASSUME NEW c, <<r.stack, c>> \in Promises(r)
      PROVE  c \notin Due(r.stack, q) /\ c \notin Row(r.stack, there)
  <2>1. ASSUME NEW i \in 1 .. Len(q)
        PROVE  <<r.stack, c>> \notin Promises(q[i])
    <3>1. 1 + i \in 1 .. Len(u) /\ 1 + i # 1 /\ u[1 + i] = q[i]
      BY <1>3
    <3> QED BY <1>3, <1>4, <1>5, <1>7, <3>1
  <2>2. c \notin Due(r.stack, q)
    BY <2>1 DEF Due
  <2>3. ASSUME c \in Row(r.stack, there)
        PROVE  FALSE
    <3>1. PICK e \in Range(there) : e.stack = r.stack /\ e.scenario = c
      BY <2>3 DEF Row
    <3>2. Range(there) = {there[k] : k \in 1 .. Len(there)}
      BY RangeEquality
    <3>3. PICK k \in 1 .. Len(there) : e = there[k]
      BY <3>1, <3>2
    <3>4. Key(there[k]) = <<r.stack, c>>
      BY <3>1, <3>3 DEF Key
    <3> QED BY <1>6, <1>7, <3>4
  <2> QED BY <2>2, <2>3
<1>8. ASSUME r.stack \in Range(stacks), r.kind # "stack"
      PROVE  \/ \E i \in 1 .. Len(q) : q[i] = [kind |-> "stack", stack |-> r.stack]
             \/ Row(r.stack, there) \cup (Due(r.stack, <<r>>) \cup Due(r.stack, q))
                  \in {{"*"}, Range(Scenarios)}
  <2>1. Due(r.stack, u) = Due(r.stack, <<r>>) \cup Due(r.stack, q)
    BY <1>1, <1>2, DueJoined
  <2>2. ASSUME NEW i \in 1 .. Len(u), u[i] = [kind |-> "stack", stack |-> r.stack]
        PROVE  \E k \in 1 .. Len(q) : q[k] = [kind |-> "stack", stack |-> r.stack]
    <3>1. i # 1
      BY <1>3, <1>8, <2>2
    <3>2. i - 1 \in 1 .. Len(q) /\ 1 + (i - 1) = i
      BY <1>3, <3>1
    <3> QED BY <1>3, <2>2, <3>2
  <2> QED BY <1>4, <1>8, <2>1, <2>2
<1> QED BY <1>6, <1>7, <1>8

\* The scenarios are three, and "*" is none of them.
LEMMA ThreeScenarios ==
  /\ Len(Scenarios) = 3
  /\ Scenarios[1] = "advert" /\ Scenarios[2] = "read_write" /\ Scenarios[3] = "notify"
  /\ Range(Scenarios) = {"advert", "read_write", "notify"}
<1>1. /\ Len(Scenarios) = 3 /\ DOMAIN Scenarios = {1, 2, 3}
      /\ Scenarios[1] = "advert" /\ Scenarios[2] = "read_write" /\ Scenarios[3] = "notify"
  BY DEF Scenarios
<1> QED BY <1>1 DEF Range

\* A stack that loads has the rows of its three scenarios ahead.
LEMMA StackExpands ==
  ASSUME NEW stacks, NEW s \in DOMAIN Stack, NEW q \in Seq(RowSteps), NEW there \in Seq(Rows),
         Complete(stacks, <<[kind |-> "stack", stack |-> s]>> \o q, there)
  PROVE  Complete(stacks, StackSteps(s) \o q, there)
<1>1. PICK r : r = [kind |-> "stack", stack |-> s]
  OBVIOUS
<1>2. r \in RowSteps /\ r.stack = s /\ r.kind = "stack"
  BY <1>1 DEF RowSteps
<1>3. Complete(stacks, <<r>> \o q, there)
  BY <1>1
<1>4. Promises(r) = {s} \X AnyScenario
  BY <1>2, PromisesOfStep
<1>5. PICK n : n = StackSteps(s)
  OBVIOUS
<1>6. n \in Seq(RowSteps) /\ Len(n) = 3
  BY <1>5, RowsBuilt, ThreeScenarios DEF StackSteps
<1>7. \A i \in 1 .. Len(n) : Promises(n[i]) = {<<s, Scenarios[i]>>}
  BY <1>5, <1>6, ThreeScenarios DEF StackSteps, CellStep, Promises
<1>8. \A i \in 1 .. Len(n) : Scenarios[i] \in AnyScenario
  BY <1>6, ThreeScenarios DEF AnyScenario
<1>9. \A i \in 1 .. Len(n) : Promises(n[i]) \subseteq Promises(r)
  BY <1>4, <1>7, <1>8
<1>10. \A i, j \in 1 .. Len(n) : i # j => Promises(n[i]) \cap Promises(n[j]) = {}
  <2>1. 1 .. Len(n) = {1, 2, 3}
    BY <1>6
  <2>2. \A i, j \in {1, 2, 3} : i # j => Scenarios[i] # Scenarios[j]
    BY ThreeScenarios
  <2>3. \A i, j \in 1 .. Len(n) : i # j => Scenarios[i] # Scenarios[j]
    BY <2>1, <2>2
  <2>4. SUFFICES ASSUME NEW i \in 1 .. Len(n), NEW j \in 1 .. Len(n), i # j
                 PROVE  Promises(n[i]) \cap Promises(n[j]) = {}
    OBVIOUS
  <2>5. /\ Scenarios[i] # Scenarios[j]
        /\ Promises(n[i]) = {<<s, Scenarios[i]>>} /\ Promises(n[j]) = {<<s, Scenarios[j]>>}
    BY <1>7, <2>3, <2>4
  <2> QED BY <2>5
<1>11. Row(s, there) \cup Due(s, n \o q) = Range(Scenarios)
  <2>1. Row(s, there) \subseteq AnyScenario
    <3>1. Range(there) \subseteq Rows
      BY RangeOfSeq
    <3> QED BY <3>1 DEF Row, Rows, AnyScenario
  <2>2. Due(s, q) \subseteq AnyScenario
    BY DEF Due
  <2>3. \A c \in AnyScenario : c \notin Due(s, q) /\ c \notin Row(s, there)
    BY <1>2, <1>3, <1>4, Alone
  <2>4. Due(s, n \o q) = Due(s, n) \cup Due(s, q)
    BY <1>6, DueJoined
  <2>5. Due(s, n) = Range(Scenarios)
    <3>1. 1 .. Len(n) = {1, 2, 3}
      BY <1>6
    <3>2. \A c : (\E i \in {1, 2, 3} : <<s, c>> \in Promises(n[i])) <=> c \in {"advert", "read_write", "notify"}
      <4>1. /\ Promises(n[1]) = {<<s, "advert">>} /\ Promises(n[2]) = {<<s, "read_write">>}
            /\ Promises(n[3]) = {<<s, "notify">>}
        <5>1. 1 \in 1 .. Len(n) /\ 2 \in 1 .. Len(n) /\ 3 \in 1 .. Len(n)
          BY <3>1
        <5> QED BY <1>7, <5>1, ThreeScenarios
      <4> QED BY <4>1
    <3>3. Range(Scenarios) \subseteq AnyScenario
      BY DEF AnyScenario
    <3> QED BY <3>1, <3>2, <3>3, ThreeScenarios DEF Due
  <2> QED BY <2>1, <2>2, <2>3, <2>4, <2>5
<1>12. Complete(stacks, n \o q, there)
  <2>1. Row(r.stack, there) \cup Due(r.stack, n \o q) \in {{"*"}, Range(Scenarios)}
    BY <1>2, <1>11
  <2> QED BY <1>2, <1>3, <1>6, <1>9, <1>10, <2>1, RowsGoOn
<1> QED BY <1>5, <1>12

\* The result that a step for rows leads to, if it is the last of them.
LEMMA StepDone ==
  ASSUME NEW stacks, NEW r \in RowSteps, NEW q \in Seq(RowSteps), NEW there \in Seq(Rows),
         NEW e \in Rows, Key(e) \in Promises(r),
         Complete(stacks, <<r>> \o q, there),
         \/ r.stack \notin Range(stacks)
         \/ \E i \in 1 .. Len(q) : q[i] = [kind |-> "stack", stack |-> r.stack]
         \/ Row(r.stack, Append(there, e)) \cup Due(r.stack, q) \in {{"*"}, Range(Scenarios)}
  PROVE  Complete(stacks, q, Append(there, e))
<1>1. PICK n, then : n = <<>> /\ then = Append(there, e)
  OBVIOUS
<1>2. n \in Seq(RowSteps) /\ 1 .. Len(n) = {} /\ n \o q = q
  BY <1>1, EmptySeq, ConcatEmptySeq
<1>3. then \in Seq(Rows)
  BY <1>1, AppendProperties
<1>4. \/ r.stack \notin Range(stacks)
      \/ \E i \in 1 .. Len(n \o q) : (n \o q)[i] = [kind |-> "stack", stack |-> r.stack]
      \/ Row(r.stack, then) \cup Due(r.stack, n \o q) \in {{"*"}, Range(Scenarios)}
  BY <1>1, <1>2
<1>5. Complete(stacks, n \o q, then)
  BY <1>1, <1>2, <1>3, <1>4, RowsGoOn
<1> QED BY <1>1, <1>2, <1>5

\* A stack that does not load has its one row.
LEMMA StackGivenUp ==
  ASSUME NEW stacks, NEW r \in RowSteps, r.kind = "stack", NEW q \in Seq(RowSteps),
         NEW there \in Seq(Rows), NEW e \in Rows, e.stack = r.stack, e.scenario = "*",
         Complete(stacks, <<r>> \o q, there)
  PROVE  Complete(stacks, q, Append(there, e))
<1>1. Promises(r) = {r.stack} \X AnyScenario
  BY PromisesOfStep
<1>2. Key(e) \in Promises(r)
  BY <1>1 DEF Key, AnyScenario
<1>3. Row(r.stack, there) \subseteq AnyScenario
  <2>1. Range(there) \subseteq Rows
    BY RangeOfSeq
  <2> QED BY <2>1 DEF Row, Rows, AnyScenario
<1>4. Due(r.stack, q) \subseteq AnyScenario
  BY DEF Due
<1>5. \A c \in AnyScenario : c \notin Due(r.stack, q) /\ c \notin Row(r.stack, there)
  BY <1>1, Alone
<1>6. Row(r.stack, Append(there, e)) = Row(r.stack, there) \cup (IF e.stack = r.stack THEN {e.scenario} ELSE {})
  BY RowAppended
<1>7. Row(r.stack, Append(there, e)) \cup Due(r.stack, q) = {"*"}
  BY <1>3, <1>4, <1>5, <1>6
<1> QED BY <1>2, <1>7, StepDone

\* A cell that has begun has its row ahead.
LEMMA CellRecords ==
  ASSUME NEW stacks, NEW s \in DOMAIN Stack, NEW c \in Range(Scenarios), NEW q \in Seq(RowSteps),
         NEW there \in Seq(Rows), Complete(stacks, <<CellStep(s, c)>> \o q, there)
  PROVE  Complete(stacks, <<RecordStep(s, c)>> \o q, there)
<1>1. PICK r, m : r = CellStep(s, c) /\ m = RecordStep(s, c)
  OBVIOUS
<1>2. /\ r \in RowSteps /\ r.stack = s /\ r.kind = "cell"
      /\ m \in RowSteps /\ m.stack = s
  BY <1>1 DEF RowSteps, CellStep, RecordStep
<1>3. Promises(r) = {<<s, c>>} /\ Promises(m) = {<<s, c>>}
  BY <1>1 DEF Promises, CellStep, RecordStep
<1>4. Complete(stacks, <<r>> \o q, there)
  BY <1>1
<1>5. PICK n : n = <<m>>
  OBVIOUS
<1>6. n \in Seq(RowSteps) /\ Len(n) = 1 /\ 1 .. Len(n) = {1} /\ n[1] = m
  BY <1>2, <1>5
<1>7. Due(s, n \o q) = Due(s, <<r>>) \cup Due(s, q)
  <2>1. Due(s, n \o q) = Due(s, n) \cup Due(s, q)
    BY <1>6, DueJoined
  <2>2. /\ Due(s, <<m>>) = {x \in AnyScenario : <<s, x>> \in Promises(m)}
        /\ Due(s, <<r>>) = {x \in AnyScenario : <<s, x>> \in Promises(r)}
    BY <1>2, DueOfOne
  <2> QED BY <1>3, <1>5, <2>1, <2>2
<1>8. ASSUME NEW i \in 1 .. Len(q), q[i] = [kind |-> "stack", stack |-> s]
      PROVE  \E k \in 1 .. Len(n \o q) : (n \o q)[k] = [kind |-> "stack", stack |-> s]
  <2>1. n \in Seq(RowSteps)
    BY <1>6
  <2>2. /\ Len(q) \in Nat /\ Len(n \o q) = Len(n) + Len(q)
        /\ \A k \in 1 .. Len(q) : (n \o q)[Len(n) + k] = q[k]
    BY <2>1, Joined
  <2>3. Len(n) + i \in 1 .. Len(n \o q) /\ (n \o q)[Len(n) + i] = q[i]
    BY <1>6, <2>2
  <2> QED BY <1>8, <2>3
<1>9. \/ r.stack \notin Range(stacks)
      \/ \E i \in 1 .. Len(q) : q[i] = [kind |-> "stack", stack |-> r.stack]
      \/ Row(r.stack, there) \cup (Due(r.stack, <<r>>) \cup Due(r.stack, q)) \in {{"*"}, Range(Scenarios)}
  BY <1>2, <1>4, Alone
<1>10. \/ r.stack \notin Range(stacks)
       \/ \E i \in 1 .. Len(n \o q) : (n \o q)[i] = [kind |-> "stack", stack |-> r.stack]
       \/ Row(r.stack, there) \cup Due(r.stack, n \o q) \in {{"*"}, Range(Scenarios)}
  BY <1>2, <1>7, <1>8, <1>9
<1>11. /\ \A i \in 1 .. Len(n) : Promises(n[i]) \subseteq Promises(r)
       /\ \A i, j \in 1 .. Len(n) : i # j => Promises(n[i]) \cap Promises(n[j]) = {}
  BY <1>3, <1>6
<1>12. Complete(stacks, n \o q, there)
  BY <1>2, <1>4, <1>6, <1>10, <1>11, RowsGoOn
<1> QED BY <1>1, <1>5, <1>12

\* A cell that is done has its row.
LEMMA RecordDone ==
  ASSUME NEW stacks, NEW r \in RowSteps, r.kind = "record", NEW q \in Seq(RowSteps),
         NEW there \in Seq(Rows), NEW e \in Rows, e.stack = r.stack, e.scenario = r.scenario,
         Complete(stacks, <<r>> \o q, there)
  PROVE  Complete(stacks, q, Append(there, e))
<1>1. Promises(r) = {<<r.stack, r.scenario>>} /\ r.scenario \in AnyScenario
  BY PromisesOfStep DEF AnyScenario
<1>2. Key(e) \in Promises(r)
  BY <1>1 DEF Key
<1>3. Row(r.stack, Append(there, e)) = Row(r.stack, there) \cup (IF e.stack = r.stack THEN {e.scenario} ELSE {})
  BY RowAppended
<1>4. Due(r.stack, <<r>>) = {r.scenario}
  <2>1. Due(r.stack, <<r>>) = {x \in AnyScenario : <<r.stack, x>> \in Promises(r)}
    BY DueOfOne
  <2> QED BY <1>1, <2>1
<1>5. Row(r.stack, Append(there, e)) \cup Due(r.stack, q)
        = Row(r.stack, there) \cup (Due(r.stack, <<r>>) \cup Due(r.stack, q))
  BY <1>3, <1>4
<1>6. \/ r.stack \notin Range(stacks)
      \/ \E i \in 1 .. Len(q) : q[i] = [kind |-> "stack", stack |-> r.stack]
      \/ Row(r.stack, there) \cup (Due(r.stack, <<r>>) \cup Due(r.stack, q)) \in {{"*"}, Range(Scenarios)}
  BY Alone
<1> QED BY <1>2, <1>5, <1>6, StepDone

\* Before it begins the matrix has all the rows ahead.
LEMMA MatrixComplete ==
  ASSUME NEW stacks \in Seq(DOMAIN Stack), IsInjective(stacks)
  PROVE  Complete(stacks, Matrix(stacks), <<>>)
<1>1. PICK m : m = Matrix(stacks)
  OBVIOUS
<1>2. /\ Len(m) = Len(stacks) /\ Len(m) \in Nat /\ DOMAIN stacks = 1 .. Len(m)
      /\ \A i \in 1 .. Len(m) : m[i] = [kind |-> "stack", stack |-> stacks[i]]
  <2>1. /\ Len(Matrix(stacks)) = Len(stacks)
        /\ \A i \in 1 .. Len(stacks) : Matrix(stacks)[i] = [kind |-> "stack", stack |-> stacks[i]]
    BY RowsBuilt
  <2>2. Len(stacks) \in Nat /\ DOMAIN stacks = 1 .. Len(stacks)
    BY LenProperties
  <2> QED BY <1>1, <2>1, <2>2
<1>3. ASSUME NEW i \in 1 .. Len(m), NEW j \in 1 .. Len(m), i # j
      PROVE  Promises(m[i]) \cap Promises(m[j]) = {}
  <2>1. stacks[i] # stacks[j]
    BY <1>2, <1>3 DEF IsInjective
  <2>2. /\ Promises(m[i]) = {stacks[i]} \X AnyScenario
        /\ Promises(m[j]) = {stacks[j]} \X AnyScenario
    <3>1. \A s : Promises([kind |-> "stack", stack |-> s]) = {s} \X AnyScenario
      BY DEF Promises
    <3>2. m[i] = [kind |-> "stack", stack |-> stacks[i]] /\ m[j] = [kind |-> "stack", stack |-> stacks[j]]
      BY <1>2
    <3> QED BY <3>1, <3>2
  <2> QED BY <2>1, <2>2
<1>4. 1 .. Len(<<>>) = {}
  BY EmptySeq
<1>5. ASSUME NEW s \in Range(stacks)
      PROVE  \E i \in 1 .. Len(m) : m[i] = [kind |-> "stack", stack |-> s]
  BY <1>2, <1>5 DEF Range
<1> QED BY <1>1, <1>3, <1>4, <1>5 DEF Complete

\* The matrix given up, or done.
LEMMA FinishAgain ==
  ASSUME NEW b, Behind' = b, NEW n \in 1 .. Len(b), todo' = SubSeq(b, n + 1, Len(b)),
         raised' # "return", raised' = "no" => Complete(job'.stacks, <<>>, results')
  PROVE  Finishing'
  BY DEF Finishing

\* What is behind the matrix: the cleanup of the peripheral, if there is one,
\* which an exception does not pass.
LEMMA BehindParts ==
  /\ Len(Behind) \in Nat /\ Len(Behind) >= 1
  /\ Behind[1].kind # "finally" => Len(Behind) = 1 /\ ~ job.mock
  /\ Behind[1].kind = "finally" => job.mock /\ Len(Behind) = 4 /\ Behind[1] = Mark("finally", <<>>)
  /\ Behind[1].kind \in {"finally", "call"}
  /\ \A i \in 2 .. Len(Behind) : Behind[i].kind \in {"call", "end"}
  /\ \A i \in 1 .. Len(Behind) :
       /\ Behind[i].kind = "call" => Behind[i].call # "readline"
       /\ Behind[i].kind = "end" => Behind[i].saved = "no"
<1>1. /\ Mark("finally", <<>>).kind = "finally" /\ End("no").kind = "end" /\ End("no").saved = "no"
      /\ StopPeripheral.kind = "call" /\ StopPeripheral.call = "stop"
      /\ Opening("write_run").kind = "call" /\ Opening("write_run").call = "write_run"
  BY DEF Mark, StopPeripheral, Stop, Freeing, Wait, Call, End, Opening
<1>2. CASE job.mock
  <2>1. Behind = <<Mark("finally", <<>>), StopPeripheral, End("no"), Opening("write_run")>>
    BY <1>2 DEF Behind
  <2>2. /\ Len(Behind) = 4 /\ Behind[1] = Mark("finally", <<>>) /\ Behind[2] = StopPeripheral
        /\ Behind[3] = End("no") /\ Behind[4] = Opening("write_run")
    BY <2>1
  <2>3. 1 .. Len(Behind) = {1, 2, 3, 4} /\ 2 .. Len(Behind) = {2, 3, 4}
    BY <2>2
  <2> QED BY <1>1, <1>2, <2>2, <2>3
<1>3. CASE ~ job.mock
  <2>1. Behind = <<Opening("write_run")>>
    BY <1>3 DEF Behind
  <2>2. Len(Behind) = 1 /\ Behind[1] = Opening("write_run")
    BY <2>1
  <2>3. 1 .. Len(Behind) = {1} /\ 2 .. Len(Behind) = {}
    BY <2>2
  <2> QED BY <1>1, <1>3, <2>2, <2>3
<1> QED BY <1>2, <1>3

\* An exception that comes to it finishes the run.
LEMMA BehindUnwound ==
  ASSUME NEW b, b = Behind, b = Behind', NEW how \in {"error", "cancel"}, Unwind(b, how)
  PROVE  Finishing'
<1>1. /\ Len(b) \in Nat /\ Len(b) >= 1 /\ b \in Seq(Ahead)
      /\ b[1].kind # "finally" => Len(b) = 1
      /\ b[1].kind = "finally" => b[1] = Mark("finally", <<>>)
      /\ b[1].kind \in {"finally", "call"}
      /\ \A i \in 2 .. Len(b) : b[i].kind \in {"call", "end"}
  BY BehindParts, AroundBuilt
<1>2. \/ \E i \in 1 .. Len(b) :
           /\ Lands(b[i], how) /\ \A j \in 1 .. i - 1 : ~ Lands(b[j], how)
           /\ todo' = b[i].handler \o SubSeq(b, i + 1, Len(b))
           /\ IF b[i].kind = "except" THEN raised' = "no" /\ caught' = TRUE
                                      ELSE raised' = how /\ UNCHANGED caught
      \/ /\ \A i \in 1 .. Len(b) : ~ Lands(b[i], how)
         /\ todo' = <<>> /\ raised' = how /\ UNCHANGED caught
  BY DEF Unwind
<1>3. 1 \in 1 .. Len(b)
  BY <1>1
<1>4. ASSUME NEW i \in 1 .. Len(b), Lands(b[i], how),
             todo' = b[i].handler \o SubSeq(b, i + 1, Len(b)),
             IF b[i].kind = "except" THEN raised' = "no" /\ caught' = TRUE
                                     ELSE raised' = how /\ UNCHANGED caught
      PROVE  Finishing'
  <2>1. i = 1
    <3>1. i \in 2 .. Len(b) \/ i = 1
      BY <1>1
    <3> QED BY <1>1, <1>4, <3>1 DEF Lands
  <2>2. b[1].kind = "finally" /\ b[1].handler = <<>>
    BY <1>1, <1>4, <2>1 DEF Lands, Mark
  <2>3. SubSeq(b, 1 + 1, Len(b)) \in Seq(Ahead)
    BY <1>1, <1>3, Beyond
  <2>4. todo' = SubSeq(b, 1 + 1, Len(b)) /\ raised' = how
    BY <1>4, <2>1, <2>2, <2>3, ConcatEmptySeq
  <2> QED BY <1>3, <2>4, FinishAgain
<1>5. ASSUME \A i \in 1 .. Len(b) : ~ Lands(b[i], how), todo' = <<>>, raised' = how
      PROVE  Finishing'
  <2>1. b[1].kind # "finally"
    BY <1>3, <1>5 DEF Lands
  <2>2. SubSeq(b, 1 + 1, Len(b)) = <<>>
    <3>1. Len(b) < 1 + 1 /\ 1 + 1 \in Int /\ Len(b) \in Int
      BY <1>1, <2>1
    <3> QED BY <3>1, SubSeqEmpty
  <2> QED BY <1>3, <1>5, <2>2, FinishAgain
<1> QED BY <1>2, <1>4, <1>5

\* An exception passes the rows that are ahead.
LEMMA RowsPassed ==
  ASSUME NEW rows \in Seq(RowSteps), NEW b, b = Behind, b = Behind',
         NEW how \in {"error", "cancel"}, NEW q, q = rows \o b, Unwind(q, how)
  PROVE  Finishing'
<1>1. rows \in Seq(Ahead) /\ b \in Seq(Ahead)
  BY AroundBuilt
<1>2. ASSUME NEW i \in 1 .. Len(rows)
      PROVE  ~ Lands(rows[i], how)
  <2>1. rows[i] \in RowSteps
    BY ElementOfSeq
  <2> QED BY <2>1, PromisesOfStep DEF Lands
<1>3. Unwind(b, how)
  <2>1. Unwind(rows \o b, how)
    OBVIOUS
  <2> QED BY <1>1, <1>2, <2>1, UnwindJoined
<1> QED BY <1>3, BehindUnwound

\* An error that leaves the steps of a cell is noted; a CancelledError passes.
LEMMA NotedUnwound ==
  ASSUME NEW rows \in Seq(RowSteps), NEW b, b = Behind, b = Behind',
         NEW how \in {"error", "cancel"}, NEW r, r = rows \o b, NEW q, q = Noted \o r,
         Unwind(q, how)
  PROVE  \/ Finishing'
         \/ todo' = <<End("no")>> \o r /\ raised' = "no"
<1>1. rows \in Seq(Ahead) /\ b \in Seq(Ahead) /\ Noted \in Seq(Ahead)
  BY AroundBuilt DEF Notings
<1>2. r \in Seq(Ahead)
  BY <1>1, ConcatProperties
<1>3. PICK p : p = Noted
  OBVIOUS
<1>4. /\ p \in Seq(Ahead) /\ Len(p) = 2 /\ p[1] = Mark("except", <<>>) /\ p[2] = End("no")
      /\ 1 .. Len(p) = {1, 2} /\ SubSeq(p, 1 + 1, Len(p)) = <<End("no")>>
  <2>1. Noted = <<Mark("except", <<>>), End("no")>>
    BY DEF Noted
  <2>2. Len(Noted) = 2 /\ Noted[1] = Mark("except", <<>>) /\ Noted[2] = End("no")
    BY <2>1
  <2>3. Tail(<<Mark("except", <<>>), End("no")>>) = <<End("no")>>
    OBVIOUS
  <2>4. Tail(p) = SubSeq(p, 2, Len(p))
    <3>1. p # <<>>
      BY <1>3, <2>1
    <3> QED BY <1>1, <1>3, <3>1, TailIsSubSeq
  <2>5. Tail(p) = <<End("no")>>
    BY <1>3, <2>1, <2>3
  <2>6. Len(p) = 2 /\ p[1] = Mark("except", <<>>) /\ p[2] = End("no")
    BY <1>3, <2>2
  <2>7. 1 .. Len(p) = {1, 2} /\ 1 + 1 = 2
    BY <2>6
  <2>8. SubSeq(p, 1 + 1, Len(p)) = <<End("no")>>
    BY <2>4, <2>5, <2>7
  <2> QED BY <1>1, <1>3, <2>6, <2>7, <2>8
<1>5. Unwind(p \o r, how)
  BY <1>3
<1>6. \/ \E i \in 1 .. Len(p) :
           /\ Lands(p[i], how)
           /\ todo' = (p[i].handler \o SubSeq(p, i + 1, Len(p))) \o r
           /\ IF p[i].kind = "except" THEN raised' = "no" /\ caught' = TRUE
                                      ELSE raised' = how /\ UNCHANGED caught
      \/ Unwind(r, how)
  BY <1>2, <1>4, <1>5, UnwindJoined
<1>7. CASE Unwind(r, how)
  BY <1>7, RowsPassed
<1>8. ASSUME NEW i \in 1 .. Len(p), Lands(p[i], how),
             todo' = (p[i].handler \o SubSeq(p, i + 1, Len(p))) \o r,
             IF p[i].kind = "except" THEN raised' = "no" /\ caught' = TRUE
                                     ELSE raised' = how /\ UNCHANGED caught
      PROVE  todo' = <<End("no")>> \o r /\ raised' = "no"
  <2>1. i = 1
    BY <1>4, <1>8 DEF Lands, End
  <2>2. p[1].kind = "except" /\ p[1].handler = <<>>
    BY <1>4 DEF Mark
  <2>3. <<End("no")>> \in Seq(Ahead)
    BY AroundBuilt DEF Notings
  <2>4. <<>> \o <<End("no")>> = <<End("no")>>
    BY <2>3, ConcatEmptySeq
  <2> QED BY <1>4, <1>8, <2>1, <2>2, <2>4
<1> QED BY <1>6, <1>7, <1>8

\* What is ahead of the runner, taken apart and put together again.
LEMMA MatrixTail ==
  ASSUME NEW noted \in Notings, NEW rows \in Seq(RowSteps), NEW b, b = Behind
  PROVE  /\ b \in Seq(Ahead) /\ rows \o b \in Seq(Ahead) /\ noted \o (rows \o b) \in Seq(Ahead)
         /\ <<>> \o (rows \o b) = rows \o b
         /\ <<>> \o (noted \o (rows \o b)) = noted \o (rows \o b)
<1>1. b \in Seq(Ahead) /\ rows \in Seq(Ahead) /\ noted \in Seq(Ahead)
  BY AroundBuilt
<1>2. rows \o b \in Seq(Ahead)
  BY <1>1, ConcatProperties
<1>3. noted \o (rows \o b) \in Seq(Ahead)
  BY <1>1, <1>2, ConcatProperties
<1> QED BY <1>1, <1>2, <1>3, ConcatEmptySeq

\* The moves within a cell whose errors are noted.
LEMMA CellMoves ==
  ASSUME StepsInv, Moves, NEW b, b = Behind, b = Behind',
         NEW steps \in Seq(Inside), steps # <<>>, NEW rows \in Seq(RowSteps),
         todo = steps \o (Noted \o (rows \o b)),
         Sound(steps), raised # "return", raised # "no" => EndBehind(steps, 0),
         Complete(job'.stacks, rows, results')
  PROVE  InMatrix' \/ Finishing'
<1>1. PICK r, q : r = rows \o b /\ q = Noted \o r
  OBVIOUS
<1>2. Noted \in Notings /\ <<End("no")>> \in Notings
  BY DEF Notings
<1>3. b \in Seq(Ahead) /\ r \in Seq(Ahead) /\ q \in Seq(Ahead)
  BY <1>1, <1>2, MatrixTail
<1>4. todo = steps \o q
  BY <1>1
<1>5. \/ \E z : Within(Inside, z, raised') /\ todo' = z \o q
      \/ \E how \in {"error", "cancel"} : Throws(how) /\ Unwind(q, how)
  <2>1. raised \in Kinds
    BY StepsInvParts
  <2> QED BY <1>3, <1>4, <2>1, PartMoves, InsideContained
<1>6. ASSUME NEW z, Within(Inside, z, raised'), todo' = z \o q
      PROVE  InMatrix'
  <2>1. /\ z \in Seq(Inside) /\ Sound(z)
        /\ raised' # "return" /\ (raised' # "no" => EndBehind(z, 0))
    BY <1>6 DEF Within
  <2>2. InCell(z, Noted, raised')
    BY DEF InCell
  <2>3. todo' = z \o (Noted \o (rows \o b))
    BY <1>1, <1>6
  <2> QED BY <1>2, <1>3, <2>1, <2>2, <2>3, MatrixAgain
<1>7. ASSUME NEW how \in {"error", "cancel"}, Unwind(q, how)
      PROVE  InMatrix' \/ Finishing'
  <2>1. Finishing' \/ (todo' = <<End("no")>> \o r /\ raised' = "no")
    BY <1>1, <1>7, NotedUnwound
  <2>2. ASSUME todo' = <<End("no")>> \o r, raised' = "no"
        PROVE  InMatrix'
    <3>1. <<>> \in Seq(Inside) /\ Sound(<<>>) /\ InCell(<<>>, <<End("no")>>, raised')
      BY EmptySeq, PlannedIsSound DEF InCell
    <3>2. <<End("no")>> \o r \in Seq(Ahead)
      BY <1>1, <1>2, MatrixTail
    <3>3. todo' = <<>> \o (<<End("no")>> \o (rows \o b))
      BY <1>1, <2>2, <3>2, ConcatEmptySeq
    <3> QED BY <1>2, <1>3, <2>2, <3>1, <3>3, MatrixAgain
  <2> QED BY <2>1, <2>2
<1> QED BY <1>5, <1>6, <1>7

\* The next step, if it is written out.
LEMMA NextIs ==
  ASSUME NEW s \in Ahead, NEW u, u = <<s>>, NEW q \in Seq(Ahead), todo = u \o q
  PROVE  todo # <<>> /\ Step = s /\ Tail(todo) = q
<1>1. PICK e : e = <<>>
  OBVIOUS
<1>2. u \in Seq(Ahead) /\ u # <<>> /\ u[1] = s /\ Tail(u) = e
  <2>1. <<s>> \in Seq(Ahead) /\ <<s>> # <<>> /\ <<s>>[1] = s /\ Tail(<<s>>) = <<>>
    OBVIOUS
  <2> QED BY <1>1, <2>1
<1>3. u \o q # <<>> /\ Head(u \o q) = u[1] /\ Tail(u \o q) = Tail(u) \o q
  BY <1>2, HeadAndTailJoined
<1>4. e \o q = q
  BY <1>1, ConcatEmptySeq
<1> QED BY <1>2, <1>3, <1>4 DEF Step

\* Two steps, one by one.
LEMMA TwoJoined ==
  ASSUME NEW a \in Ahead, NEW b \in Ahead
  PROVE  <<a>> \o <<b>> = <<a, b>>
<1>1. PICK s, t : s = <<a>> /\ t = <<b>>
  OBVIOUS
<1>2. /\ s \in Seq(Ahead) /\ Len(s) = 1 /\ s[1] = a
      /\ t \in Seq(Ahead) /\ Len(t) = 1 /\ t[1] = b
  BY <1>1
<1>3. PICK u, v : u = s \o t /\ v = <<a, b>>
  OBVIOUS
<1>4. u \in Seq(Ahead) /\ Len(u) = 2 /\ u[1] = a /\ u[2] = b
  <2>1. /\ s \o t \in Seq(Ahead) /\ Len(s \o t) = Len(s) + Len(t)
        /\ \A i \in 1 .. Len(s) : (s \o t)[i] = s[i]
        /\ \A i \in 1 .. Len(t) : (s \o t)[Len(s) + i] = t[i]
    BY <1>2, Joined
  <2>2. 1 \in 1 .. Len(s) /\ 1 \in 1 .. Len(t) /\ Len(s) + 1 = 2 /\ Len(s) + Len(t) = 2
    BY <1>2
  <2> QED BY <1>2, <1>3, <2>1, <2>2
<1>5. v \in Seq(Ahead) /\ Len(v) = 2 /\ v[1] = a /\ v[2] = b
  BY <1>3
<1>6. \A i \in 1 .. Len(u) : u[i] = v[i]
  BY <1>4, <1>5
<1>7. u = v
  BY <1>4, <1>5, <1>6, SeqEqual
<1> QED BY <1>1, <1>3, <1>7

\* No place is left where an exception in flight could go on.
LEMMA NothingInFlight ==
  ASSUME raised # "no" => EndBehind(<<>>, 0)
  PROVE  raised = "no"
<1>1. 0 + 1 .. Len(<<>>) = {}
  BY EmptySeq
<1> QED BY <1>1 DEF EndBehind

\* The moves of a cell's scenario, before its first step.
LEMMA CellOpens ==
  ASSUME Moves, NEW b, b = Behind, b = Behind',
         NEW body \in CellBodies, NEW rows \in Seq(RowSteps),
         <<Noting(body)>> \in Seq(Inside), Sound(<<Noting(body)>>),
         todo = <<Noting(body)>> \o (<<>> \o (rows \o b)), raised = "no",
         Complete(job'.stacks, rows, results')
  PROVE  InMatrix'
<1>1. PICK r, m, e, k : r = rows \o b /\ m = Noting(body) /\ e = <<End("no")>>
                         /\ k = Mark("except", <<>>)
  OBVIOUS
<1>2. <<>> \in Notings /\ <<End("no")>> \in Notings /\ Noted \in Notings
  BY DEF Notings
<1>3. b \in Seq(Ahead) /\ r \in Seq(Ahead) /\ <<>> \o (rows \o b) = rows \o b
  BY <1>1, <1>2, MatrixTail
<1>4. body \in Seq(Level3) /\ body \in Seq(Inside) /\ body \in Seq(Ahead) /\ Sound(body)
  <2>1. body \in Seq(Level3)
    BY CellBodiesBuilt
  <2>2. Level3 \subseteq Inside /\ Level3 \subseteq Planned /\ Level3 \subseteq Ahead
    BY Levels DEF Inside
  <2>3. body \in Seq(Inside) /\ body \in Seq(Planned) /\ body \in Seq(Ahead)
    BY <2>1, <2>2, SeqMonotonic
  <2> QED BY <2>1, <2>3, PlannedIsSound
<1>5. m \in Ahead /\ m.kind = "block" /\ m.inner = Append(body, k)
  <2>1. m = [kind |-> "block", inner |-> Append(body, Mark("except", <<>>))]
    BY <1>1 DEF Noting, Except, Block
  <2>2. Noting(body) \in Level4
    BY <1>4, NotingBuilt
  <2> QED BY <1>1, <2>1, <2>2, Levels
<1>6. todo = <<m>> \o r
  BY <1>1, <1>3
<1>7. todo # <<>> /\ Step = m /\ Tail(todo) = r
  <2>1. PICK u : u = <<m>>
    OBVIOUS
  <2>2. todo = u \o r
    BY <1>6, <2>1
  <2> QED BY <1>3, <1>5, <2>1, <2>2, NextIs
<1>8. Stays \/ Opens
  BY <1>5, <1>7 DEF Moves, GoesOn, Closes, Turns, Asks, Throws
<1>9. CASE Stays
  <2>1. todo' = <<Noting(body)>> \o (<<>> \o (rows \o b)) /\ raised' = "no"
    BY <1>9 DEF Stays
  <2>2. InCell(<<Noting(body)>>, <<>>, raised')
    BY <2>1 DEF InCell
  <2> QED BY <1>2, <1>3, <2>1, <2>2, MatrixAgain
<1>10. CASE Opens
  <2>1. todo' = Append(body, k) \o e \o r /\ raised' = "no"
    BY <1>1, <1>5, <1>7, <1>10 DEF Opens
  <2>2. k \in Ahead /\ e \in Seq(Ahead)
    <3>1. <<>> \in Seq(Cleanup)
      BY EmptySeq
    <3>2. Mark("except", <<>>) \in Ahead
      BY <3>1 DEF Mark, Marks, Ahead
    <3> QED BY <1>1, <1>2, <3>2, AroundBuilt
  <2>3. PICK u : u = <<k>>
    OBVIOUS
  <2>4. u \in Seq(Ahead) /\ Append(body, k) = body \o u
    BY <1>4, <2>2, <2>3, AppendIsConcat
  <2>5. (body \o u) \o e = body \o (u \o e)
    BY <1>4, <2>2, <2>4, ConcatAssociative
  <2>6. u \o e = Noted
    <3>1. End("no") \in Ahead
      BY DEF End, Ends, Kinds, Ahead
    <3>2. <<k>> \o <<End("no")>> = <<k, End("no")>>
      BY <2>2, <3>1, TwoJoined
    <3> QED BY <1>1, <2>3, <3>2 DEF Noted
  <2>7. (body \o Noted) \o r = body \o (Noted \o r)
    <3>1. PICK n : n = Noted
      OBVIOUS
    <3>2. n \in Seq(Ahead)
      BY <1>2, <3>1, AroundBuilt
    <3>3. r \in Seq(Ahead) /\ body \in Seq(Ahead)
      BY <1>3, <1>4
    <3>4. body \o (n \o r) = (body \o n) \o r
      BY <3>2, <3>3, Regrouped
    <3> QED BY <3>1, <3>4
  <2>8. todo' = body \o (Noted \o (rows \o b))
    BY <1>1, <2>1, <2>4, <2>5, <2>6, <2>7
  <2>9. InCell(body, Noted, raised')
    BY DEF InCell
  <2> QED BY <1>2, <1>3, <1>4, <2>1, <2>8, <2>9, MatrixAgain
<1> QED BY <1>8, <1>9, <1>10

\* What can come of a step, by its kind.
LEMMA MovesByKind ==
  ASSUME Moves, todo # <<>>
  PROVE  /\ Step.kind \in {"record", "cell", "stack"} => Stays
         /\ Step.kind \in {"finally", "except", "undo"} => Stays \/ GoesOn
         /\ Step.kind = "block" => Stays \/ Opens
         /\ Step.kind = "end" =>
              Stays \/ Closes \/ (raised # "no" /\ Unwind(Tail(todo), raised))
         /\ Step.kind = "call" /\ Step.call # "readline" =>
              Stays \/ GoesOn \/ \E how \in {"error", "cancel"} : Unwind(Tail(todo), how)
<1>1. Stays \/ GoesOn \/ Opens \/ Closes \/ Turns \/ Asks
      \/ \E how \in {"error", "cancel", "return"} : Throws(how)
  BY DEF Moves
<1>2. ASSUME NEW how \in {"error", "cancel", "return"}, Throws(how)
      PROVE  /\ Step.kind \in {"call", "send", "trust", "verdict", "raise", "end"}
             /\ Step.kind = "end" => raised # "no" /\ how = raised
             /\ Step.kind = "call" => how \in {"error", "cancel"}
             /\ Unwind(Tail(todo), how)
  BY <1>2 DEF Throws
<1>3. GoesOn => Step.kind \in {"call", "send", "trust", "verdict", "finally", "except", "undo"}
  BY DEF GoesOn
<1>4. /\ Opens => Step.kind = "block"
      /\ Closes => Step.kind = "end"
      /\ Turns => Step.kind = "maybe"
      /\ Asks => Step.kind = "call" /\ Step.call = "readline"
  BY DEF Opens, Closes, Turns, Asks
<1>5. ASSUME NEW how \in {"error", "cancel", "return"}, Throws(how), Step.kind = "end"
      PROVE  raised # "no" /\ Unwind(Tail(todo), raised)
  <2>1. raised # "no" /\ how = raised /\ Unwind(Tail(todo), how)
    BY <1>2, <1>5
  <2> QED BY <2>1
<1>6. ASSUME NEW how \in {"error", "cancel", "return"}, Throws(how), Step.kind = "call"
      PROVE  \E h \in {"error", "cancel"} : Unwind(Tail(todo), h)
  <2>1. how \in {"error", "cancel"} /\ Unwind(Tail(todo), how)
    BY <1>2, <1>6
  <2> QED BY <2>1
<1> QED BY <1>1, <1>2, <1>3, <1>4, <1>5, <1>6

\* The moves where a cell's errors are noted, and it is over.
LEMMA NotingMoves ==
  ASSUME Moves, NEW b, b = Behind, b = Behind', NEW rows \in Seq(RowSteps),
         NEW noted \in {<<End("no")>>, Noted}, NEW r, r = rows \o b,
         todo = noted \o r, raised = "no", Complete(job'.stacks, rows, results')
  PROVE  InMatrix'
<1>1. <<>> \in Notings /\ <<End("no")>> \in Notings /\ Noted \in Notings
  BY DEF Notings
<1>2. b \in Seq(Ahead) /\ r \in Seq(Ahead) /\ <<>> \o r = r
  BY <1>1, MatrixTail
<1>3. <<>> \in Seq(Inside) /\ Sound(<<>>)
  BY EmptySeq, PlannedIsSound
<1>4. End("no") \in Ahead /\ Mark("except", <<>>) \in Ahead
  <2>1. <<>> \in Seq(Cleanup)
    BY EmptySeq
  <2> QED BY <2>1 DEF End, Ends, Kinds, Mark, Marks, Ahead
<1>5. ASSUME NEW n \in Notings, todo' = n \o r, raised' = "no"
      PROVE  InMatrix'
  <2>1. InCell(<<>>, n, raised')
    BY <1>5 DEF InCell, Notings
  <2>2. n \o r \in Seq(Ahead)
    BY <1>2, AroundBuilt, ConcatProperties
  <2>3. todo' = <<>> \o (n \o (rows \o b))
    BY <1>5, <2>2, ConcatEmptySeq
  <2> QED BY <1>2, <1>3, <1>5, <2>1, <2>3, MatrixAgain
<1>6. CASE Stays
  BY <1>1, <1>5, <1>6 DEF Stays
<1>7. PICK e, k : e = <<End("no")>> /\ k = <<Mark("except", <<>>)>>
  OBVIOUS
<1>8. CASE noted = Noted
  <2>1. k \o e = Noted
    BY <1>4, <1>7, TwoJoined DEF Noted
  <2>2. k \in Seq(Ahead) /\ e \in Seq(Ahead)
    BY <1>4, <1>7
  <2>3. (k \o e) \o r = k \o (e \o r)
    <3>1. r \in Seq(Ahead)
      BY <1>2
    <3> QED BY <2>2, <3>1, Regrouped
  <2>4. PICK q : q = e \o r
    OBVIOUS
  <2>5. q \in Seq(Ahead) /\ todo = k \o q
    <3>1. e \o r \in Seq(Ahead)
      BY <1>2, <2>2, ConcatProperties
    <3>2. todo = k \o (e \o r)
      BY <1>8, <2>1, <2>3
    <3> QED BY <2>4, <3>1, <3>2
  <2>6. todo # <<>> /\ Step = Mark("except", <<>>) /\ Tail(todo) = q
    BY <1>4, <1>7, <2>5, NextIs
  <2>7. Stays \/ GoesOn
    <3>1. Step.kind = "except"
      BY <2>6 DEF Mark
    <3> QED BY <2>6, <3>1, MovesByKind
  <2>8. CASE GoesOn
    <3>1. todo' = <<End("no")>> \o r /\ raised' = "no"
      BY <1>7, <2>4, <2>6, <2>8 DEF GoesOn
    <3> QED BY <1>1, <1>5, <3>1
  <2> QED BY <1>6, <2>7, <2>8
<1>9. CASE noted = <<End("no")>>
  <2>1. todo = e \o r
    BY <1>7, <1>9
  <2>2. todo # <<>> /\ Step = End("no") /\ Tail(todo) = r
    BY <1>2, <1>4, <1>7, <2>1, NextIs
  <2>3. Stays \/ Closes
    <3>1. Step.kind = "end"
      BY <2>2 DEF End
    <3> QED BY <2>2, <3>1, MovesByKind
  <2>4. CASE Closes
    <3>1. todo' = <<>> \o r /\ raised' = "no"
      BY <1>2, <2>2, <2>4 DEF Closes, End
    <3> QED BY <1>1, <1>5, <3>1
  <2> QED BY <1>6, <2>3, <2>4
<1> QED BY <1>8, <1>9

\* The moves behind the matrix.
LEMMA FinishMoves ==
  ASSUME StepsInv, Moves, NEW b, b = Behind, b = Behind', NEW n \in 0 .. Len(b),
         todo = SubSeq(b, n + 1, Len(b)), raised # "return",
         raised = "no" => Complete(job'.stacks, <<>>, results')
  PROVE  Finishing' \/ (n = 0 /\ Stays)
<1>1. /\ Len(b) \in Nat /\ Len(b) >= 1 /\ b \in Seq(Ahead)
      /\ b[1].kind # "finally" => Len(b) = 1
      /\ b[1].kind \in {"finally", "call"}
      /\ \A i \in 2 .. Len(b) : b[i].kind \in {"call", "end"}
      /\ \A i \in 1 .. Len(b) : /\ b[i].kind = "call" => b[i].call # "readline"
                                /\ b[i].kind = "end" => b[i].saved = "no"
  BY BehindParts, AroundBuilt
<1>2. ASSUME Stays, n # 0
      PROVE  Finishing'
  <2>1. n \in 1 .. Len(b)
    BY <1>1, <1>2
  <2>2. /\ todo' = SubSeq(b, n + 1, Len(b)) /\ raised' # "return"
        /\ raised' = "no" => Complete(job'.stacks, <<>>, results')
    BY <1>2 DEF Stays
  <2> QED BY <2>1, <2>2, FinishAgain
<1>3. CASE n = Len(b)
  <2>1. todo = <<>>
    <3>1. Len(b) < n + 1 /\ n + 1 \in Int /\ Len(b) \in Int
      BY <1>1, <1>3
    <3> QED BY <3>1, SubSeqEmpty
  <2>2. Stays
    BY <2>1 DEF Moves, GoesOn, Opens, Closes, Turns, Asks, Throws
  <2> QED BY <1>1, <1>2, <1>3, <2>2
<1>4. CASE n # Len(b)
  <2>1. n + 1 \in 1 .. Len(b)
    BY <1>1, <1>4
  <2> DEFINE rest == SubSeq(b, (n + 1) + 1, Len(b))
  <2>2. todo # <<>> /\ Step = b[n + 1] /\ Tail(todo) = rest
    <3>1. todo = <<b[n + 1]>> \o rest
      <4>1. n + 1 <= Len(b) /\ n + 1 \in Int /\ Len(b) \in Int
        BY <1>1, <2>1
      <4>2. \A i \in n + 1 .. Len(b) : b[i] \in Ahead
        BY <1>1, ElementOfSeq
      <4> QED BY <4>1, <4>2, SubSeqRecursiveFirst
    <3>2. b[n + 1] \in Ahead /\ rest \in Seq(Ahead)
      BY <1>1, <2>1, ElementOfSeq, Beyond
    <3>3. PICK s, u : s = b[n + 1] /\ u = <<s>>
      OBVIOUS
    <3>4. s \in Ahead /\ todo = u \o rest
      BY <3>1, <3>2, <3>3
    <3> HIDE DEF rest
    <3> QED BY <3>2, <3>3, <3>4, NextIs
  <2>3. ASSUME NEW how, Unwind(rest, how), how \notin {"no", "return"}
        PROVE  Finishing'
    <3>1. rest \in Seq(Ahead) /\ Without(rest, b, n + 1)
      BY <1>1, <2>1, Beyond
    <3>2. ASSUME NEW i \in 1 .. Len(rest)
          PROVE  ~ Lands(rest[i], how)
      <4>1. (n + 1) + i \in 2 .. Len(b) /\ rest[i] = b[(n + 1) + i]
        BY <1>1, <3>1, <3>2 DEF Without
      <4> QED BY <1>1, <4>1 DEF Lands
    <3>3. todo' = <<>> /\ raised' = how
      BY <2>3, <3>2 DEF Unwind
    <3>4. SubSeq(b, Len(b) + 1, Len(b)) = <<>>
      <4>1. Len(b) < Len(b) + 1 /\ Len(b) + 1 \in Int /\ Len(b) \in Int
        BY <1>1
      <4> QED BY <4>1, SubSeqEmpty
    <3>5. Len(b) \in 1 .. Len(b)
      BY <1>1
    <3> QED BY <2>3, <3>3, <3>4, <3>5, FinishAgain
  <2>4. ASSUME todo' = rest, raised' = raised
        PROVE  Finishing'
    BY <2>1, <2>4, FinishAgain
  <2>5. Step.kind \in {"finally", "call", "end"}
    <3>1. n + 1 = 1 \/ n + 1 \in 2 .. Len(b)
      BY <2>1
    <3> QED BY <1>1, <2>2, <3>1
  <2> HIDE DEF rest
  <2>6. Stays => Finishing' \/ (n = 0 /\ Stays)
    BY <1>2
  <2>11. CASE GoesOn
    <3>1. todo' = rest /\ raised' = raised
      BY <2>2, <2>11 DEF GoesOn
    <3> QED BY <2>4, <3>1
  <2>7. CASE Step.kind = "end" /\ Closes
    <3>1. todo' = rest /\ raised = "no" /\ raised' = "no"
      BY <1>1, <2>1, <2>2, <2>7 DEF Closes
    <3> QED BY <2>4, <3>1
  <2>8. CASE Step.kind = "end" /\ raised # "no" /\ Unwind(Tail(todo), raised)
    <3>1. PICK h : h = raised
      OBVIOUS
    <3>2. Unwind(rest, h)
      <4>1. Unwind(Tail(todo), h)
        BY <2>8, <3>1
      <4> QED BY <2>2, <4>1 DEF Unwind
    <3> QED BY <2>3, <2>8, <3>1, <3>2
  <2>9. ASSUME NEW how \in {"error", "cancel"}, Unwind(Tail(todo), how)
        PROVE  Finishing'
    <3>1. Unwind(rest, how)
      BY <2>2, <2>9 DEF Unwind
    <3> QED BY <2>3, <3>1
  <2>10. Step.kind = "call" => Step.call # "readline"
    BY <1>1, <2>1, <2>2
  <2> QED BY <2>2, <2>5, <2>6, <2>7, <2>8, <2>9, <2>10, <2>11, MovesByKind
<1> QED BY <1>3, <1>4

\* The next row is in the matrix.
LEMMA BetweenAgain ==
  ASSUME NEW b, b = Behind', b = Behind, NEW rows \in Seq(RowSteps), todo' = rows \o b,
         raised' = "no", Complete(job'.stacks, rows, results')
  PROVE  InMatrix'
<1>1. <<>> \in Notings
  BY DEF Notings
<1>2. b \in Seq(Ahead) /\ rows \o b \in Seq(Ahead) /\ <<>> \o (rows \o b) = rows \o b
  BY <1>1, MatrixTail
<1>3. <<>> \in Seq(Inside) /\ Sound(<<>>)
  BY EmptySeq, PlannedIsSound
<1>4. InCell(<<>>, <<>>, raised')
  BY DEF InCell
<1>5. todo' = <<>> \o (<<>> \o (rows \o b))
  BY <1>2
<1> QED BY <1>1, <1>2, <1>3, <1>4, <1>5, MatrixAgain

\* The moves between two cells.
LEMMA BetweenMoves ==
  ASSUME StepsInv, Moves, NEW b, b = Behind, b = Behind', NEW rows \in Seq(RowSteps),
         todo = rows \o b, raised = "no", Complete(job'.stacks, rows, results')
  PROVE  InMatrix' \/ Finishing'
<1>1. <<>> \in Notings
  BY DEF Notings
<1>2. b \in Seq(Ahead) /\ rows \o b \in Seq(Ahead)
  BY <1>1, MatrixTail
<1>3. CASE Stays
  <2>1. todo' = rows \o b /\ raised' = "no"
    BY <1>3 DEF Stays
  <2> QED BY <2>1, BetweenAgain
<1>4. CASE rows # <<>>
  <2>1. rows \in Seq(Ahead)
    BY AroundBuilt
  <2>2. rows \o b # <<>> /\ Head(rows \o b) = rows[1]
    BY <1>2, <1>4, <2>1, HeadAndTailJoined
  <2>3. rows[1] \in RowSteps
    BY <1>4, HeadAndTail
  <2>4. todo # <<>> /\ Step.kind \in {"record", "cell", "stack"}
    BY <2>2, <2>3, PromisesOfStep DEF Step
  <2> QED BY <1>3, <2>4, MovesByKind
<1>5. CASE rows = <<>>
  <2>1. <<>> \o b = b
    BY <1>2, ConcatEmptySeq
  <2>2. /\ Len(b) \in Nat /\ b = SubSeq(b, 0 + 1, Len(b))
    BY <1>2, LenProperties, SubSeqFull
  <2>3. todo = SubSeq(b, 0 + 1, Len(b)) /\ 0 \in 0 .. Len(b)
    BY <1>5, <2>1, <2>2
  <2>4. raised # "return" /\ (raised = "no" => Complete(job'.stacks, <<>>, results'))
    BY <1>5
  <2> QED BY <1>3, <2>3, <2>4, FinishMoves
<1> QED BY <1>4, <1>5

\* The moves in the matrix, those of the rows aside.
LEMMA MatrixMoves ==
  ASSUME StepsInv, InMatrix, Moves, job' = job, results' = results
  PROVE  InMatrix' \/ Finishing'
<1>1. PICK b : b = Behind
  OBVIOUS
<1>2. b = Behind'
  BY <1>1 DEF Behind
<1>3. PICK steps, noted, rows :
           /\ todo = steps \o (noted \o (rows \o Behind))
           /\ steps \in Seq(Inside) /\ Sound(steps)
           /\ raised # "return" /\ (raised # "no" => EndBehind(steps, 0))
           /\ noted \in Notings /\ InCell(steps, noted, raised)
           /\ rows \in Seq(RowSteps) /\ Complete(job.stacks, rows, results)
  BY MatrixParts
<1>4. todo = steps \o (noted \o (rows \o b))
  BY <1>1, <1>3
<1>5. Complete(job'.stacks, rows, results')
  BY <1>3
<1>6. CASE noted = Noted /\ steps # <<>>
  <2>1. todo = steps \o (Noted \o (rows \o b))
    BY <1>4, <1>6
  <2> QED BY <1>1, <1>2, <1>3, <1>5, <1>6, <2>1, CellMoves
<1>7. CASE steps = <<>>
  <2>1. raised = "no"
    BY <1>3, <1>7, NothingInFlight
  <2>2. PICK r : r = rows \o b
    OBVIOUS
  <2>3. r \in Seq(Ahead) /\ noted \o r \in Seq(Ahead) /\ <<>> \o r = r
        /\ <<>> \o (noted \o r) = noted \o r
    BY <1>1, <1>3, <2>2, MatrixTail
  <2>4. todo = noted \o r
    BY <1>4, <1>7, <2>2, <2>3
  <2>5. CASE noted \in {<<End("no")>>, Noted}
    BY <1>1, <1>2, <1>3, <1>5, <2>1, <2>2, <2>4, <2>5, NotingMoves
  <2>6. CASE noted = <<>>
    <3>1. todo = rows \o b
      BY <2>2, <2>3, <2>4, <2>6
    <3> QED BY <1>1, <1>2, <1>3, <1>5, <2>1, <3>1, BetweenMoves
  <2> QED BY <1>3, <2>5, <2>6 DEF Notings
<1>8. CASE noted = <<>> /\ raised = "no" /\ steps \in {<<Noting(body)>> : body \in CellBodies}
  <2>1. PICK body \in CellBodies : steps = <<Noting(body)>>
    BY <1>8
  <2>2. /\ <<Noting(body)>> \in Seq(Inside) /\ Sound(<<Noting(body)>>)
        /\ todo = <<Noting(body)>> \o (<<>> \o (rows \o b))
    BY <1>3, <1>4, <1>8, <2>1
  <2> QED BY <1>1, <1>2, <1>3, <1>5, <1>8, <2>2, CellOpens
<1> QED BY <1>3, <1>6, <1>7, <1>8 DEF InCell

\* If a step for rows is next, no cell has begun.
LEMMA RowIsNext ==
  ASSUME InMatrix, todo # <<>>, Step.kind \in {"record", "cell", "stack"}
  PROVE  \E rest \in Seq(RowSteps) :
           /\ Step \in RowSteps /\ Tail(todo) = rest \o Behind /\ raised = "no"
           /\ Complete(job.stacks, <<Step>> \o rest, results)
<1>1. PICK b : b = Behind
  OBVIOUS
<1>2. PICK steps, noted, rows :
           /\ todo = steps \o (noted \o (rows \o Behind))
           /\ steps \in Seq(Inside) /\ Sound(steps)
           /\ raised # "return" /\ (raised # "no" => EndBehind(steps, 0))
           /\ noted \in Notings /\ InCell(steps, noted, raised)
           /\ rows \in Seq(RowSteps) /\ Complete(job.stacks, rows, results)
  BY MatrixParts
<1>3. PICK r : r = rows \o b
  OBVIOUS
<1>4. /\ b \in Seq(Ahead) /\ r \in Seq(Ahead) /\ noted \o r \in Seq(Ahead)
      /\ <<>> \o r = r /\ <<>> \o (noted \o r) = noted \o r
      /\ steps \in Seq(Ahead) /\ rows \in Seq(Ahead)
  BY <1>1, <1>2, <1>3, MatrixTail, AroundBuilt
<1>5. todo = steps \o (noted \o r)
  BY <1>1, <1>2, <1>3
<1>6. steps = <<>>
  <2>1. SUFFICES ASSUME steps # <<>>
                 PROVE  FALSE
    OBVIOUS
  <2>2. PICK q : q = noted \o r
    OBVIOUS
  <2>3. Head(steps \o q) = steps[1]
    BY <1>4, <2>1, <2>2, HeadAndTailJoined
  <2>4. steps[1] \in Inside
    BY <1>2, <2>1, HeadAndTail
  <2>5. steps[1].kind \notin {"record", "cell", "stack"}
    BY <2>4, LevelKinds DEF Inside, Marks
  <2> QED BY <1>5, <2>2, <2>3, <2>5 DEF Step
<1>7. raised = "no"
  BY <1>2, <1>6, NothingInFlight
<1>8. todo = noted \o r
  BY <1>4, <1>5, <1>6
<1>9. noted = <<>>
  <2>1. SUFFICES ASSUME noted # <<>>
                 PROVE  FALSE
    OBVIOUS
  <2>2. noted \in Seq(Ahead)
    BY <1>2, AroundBuilt
  <2>3. Head(noted \o r) = noted[1]
    BY <1>4, <2>1, <2>2, HeadAndTailJoined
  <2>4. noted[1] = End("no") \/ noted[1] = Mark("except", <<>>)
    <3>1. <<End("no")>>[1] = End("no") /\ <<Mark("except", <<>>), End("no")>>[1] = Mark("except", <<>>)
      OBVIOUS
    <3> QED BY <1>2, <2>1, <3>1 DEF Notings, Noted
  <2> QED BY <1>8, <2>3, <2>4 DEF Step, End, Mark
<1>10. todo = rows \o b
  BY <1>3, <1>4, <1>8, <1>9
<1>11. rows # <<>>
  <2>1. SUFFICES ASSUME rows = <<>>
                 PROVE  FALSE
    OBVIOUS
  <2>2. todo = b
    BY <1>4, <1>10, <2>1, ConcatEmptySeq
  <2>3. Head(b) = b[1] /\ b[1].kind \in {"finally", "call"}
    <3>1. Len(b) >= 1 /\ b[1].kind \in {"finally", "call"}
      BY <1>1, BehindParts
    <3> QED BY <2>2, <3>1
  <2> QED BY <2>2, <2>3 DEF Step
<1>12. PICK rest : rest = Tail(rows)
  OBVIOUS
<1>13. /\ Step = rows[1] /\ rows[1] \in RowSteps /\ rest \in Seq(RowSteps)
       /\ Tail(todo) = rest \o b
  <2>1. rows[1] \in RowSteps /\ Tail(rows) \in Seq(RowSteps)
    BY <1>2, <1>11, HeadAndTail
  <2>2. Head(rows \o b) = rows[1] /\ Tail(rows \o b) = Tail(rows) \o b
    BY <1>4, <1>11, HeadAndTailJoined
  <2> QED BY <1>10, <1>12, <2>1, <2>2 DEF Step
<1>14. rows = <<Step>> \o rest
  <2>1. Len(rows) \in Nat /\ Len(rows) >= 1
    BY <1>2, <1>11, HeadAndTail
  <2>2. 1 \in 1 .. Len(rows) /\ Len(rows) \in 1 .. Len(rows)
    BY <2>1
  <2>3. SubSeq(rows, 1, Len(rows)) = <<rows[1]>> \o SubSeq(rows, 1 + 1, Len(rows))
    BY <1>2, <2>2, SubSeqRecursiveFirst
  <2>4. SubSeq(rows, 1, Len(rows)) = rows
    BY <1>2, SubSeqFull
  <2>5. rest = SubSeq(rows, 1 + 1, Len(rows))
    BY <1>2, <1>11, <1>12, TailIsSubSeq
  <2> QED BY <1>13, <2>3, <2>4, <2>5
<1>15. Complete(job.stacks, <<Step>> \o rest, results)
  BY <1>2, <1>14
<1> QED BY <1>1, <1>7, <1>13, <1>15

\* A result that a step ahead stands for is a new one.
LEMMA NewResult ==
  ASSUME NEW stacks, NEW r \in RowSteps, NEW rest \in Seq(RowSteps), NEW there \in Seq(Rows),
         Complete(stacks, <<r>> \o rest, there), NEW e \in Rows, Key(e) \in Promises(r),
         Single(there)
  PROVE  Single(Append(there, e))
<1> DEFINE then == Append(there, e)
<1>1. \A k \in 1 .. Len(there) : Key(there[k]) \notin Promises(r)
  BY Alone
<1>2. /\ Len(there) \in Nat /\ Len(then) = Len(there) + 1 /\ then[Len(there) + 1] = e
      /\ \A i \in 1 .. Len(there) : then[i] = there[i]
  BY AppendProperties, LenProperties
<1>3. \A i \in 1 .. Len(then) : i \in 1 .. Len(there) \/ i = Len(there) + 1
  BY <1>2
<1> HIDE DEF then
<1>4. SUFFICES ASSUME NEW i \in 1 .. Len(then), NEW j \in 1 .. Len(then), Key(then[i]) = Key(then[j])
               PROVE  i = j
  BY DEF Single, then
<1>5. CASE i \in 1 .. Len(there) /\ j \in 1 .. Len(there)
  <2>1. Key(there[i]) = Key(there[j])
    BY <1>2, <1>4, <1>5
  <2> QED BY <1>5, <2>1 DEF Single
<1>6. CASE i \in 1 .. Len(there) /\ j = Len(there) + 1
  <2>1. Key(there[i]) = Key(e)
    BY <1>2, <1>4, <1>6
  <2> QED BY <1>1, <1>6, <2>1
<1>7. CASE i = Len(there) + 1 /\ j \in 1 .. Len(there)
  <2>1. Key(there[j]) = Key(e)
    BY <1>2, <1>4, <1>7
  <2> QED BY <1>1, <1>7, <2>1
<1> QED BY <1>3, <1>5, <1>6, <1>7

\* A stack that loads, in the matrix.
LEMMA LoadStackRows ==
  ASSUME StepsInv, InMatrix, LoadStack
  PROVE  InMatrix'
<1>1. /\ todo # <<>> /\ Step.kind = "stack" /\ todo' = StackSteps(Step.stack) \o Tail(todo)
      /\ raised' = raised /\ job' = job /\ results' = results
  BY DEF LoadStack, At, programVars
<1>2. PICK b : b = Behind
  OBVIOUS
<1>3. b = Behind'
  BY <1>1, <1>2 DEF Behind
<1>4. PICK rest \in Seq(RowSteps) :
           /\ Step \in RowSteps /\ Tail(todo) = rest \o Behind /\ raised = "no"
           /\ Complete(job.stacks, <<Step>> \o rest, results)
  BY <1>1, RowIsNext
<1>5. PICK s : s = Step.stack
  OBVIOUS
<1>6. s \in DOMAIN Stack /\ Step = [kind |-> "stack", stack |-> s]
  BY <1>1, <1>4, <1>5, PromisesOfStep
<1>7. PICK n : n = StackSteps(s)
  OBVIOUS
<1>8. Complete(job.stacks, n \o rest, results)
  <2>1. results \in Seq(Rows)
    BY StepsInvParts
  <2>2. Complete(job.stacks, <<[kind |-> "stack", stack |-> s]>> \o rest, results)
    BY <1>4, <1>6
  <2> QED BY <1>6, <1>7, <2>1, <2>2, StackExpands
<1>9. n \in Seq(RowSteps)
  BY <1>6, <1>7, RowsBuilt
<1>10. n \o rest \in Seq(RowSteps)
  BY <1>9, ConcatProperties
<1>11. todo' = (n \o rest) \o b
  <2>1. n \in Seq(Ahead) /\ rest \in Seq(Ahead) /\ b \in Seq(Ahead)
    BY <1>2, <1>9, AroundBuilt
  <2>2. n \o (rest \o b) = (n \o rest) \o b
    BY <2>1, Regrouped
  <2> QED BY <1>1, <1>2, <1>4, <1>5, <1>7, <2>2
<1>12. Complete(job'.stacks, n \o rest, results') /\ raised' = "no"
  BY <1>1, <1>4, <1>8
<1> QED BY <1>2, <1>3, <1>10, <1>11, <1>12, BetweenAgain

\* A cell that begins.
LEMMA BeginCellRows ==
  ASSUME StepsInv, InMatrix, BeginCell
  PROVE  InMatrix'
<1>1. /\ todo # <<>> /\ Step.kind = "cell" /\ todo' = Cell(Step.stack, Step.scenario) \o Tail(todo)
      /\ raised' = raised /\ job' = job /\ results' = results
  BY DEF BeginCell, At
<1>2. PICK b : b = Behind
  OBVIOUS
<1>3. b = Behind'
  BY <1>1, <1>2 DEF Behind
<1>4. PICK rest \in Seq(RowSteps) :
           /\ Step \in RowSteps /\ Tail(todo) = rest \o Behind /\ raised = "no"
           /\ Complete(job.stacks, <<Step>> \o rest, results)
  BY <1>1, RowIsNext
<1>5. PICK s, c : s = Step.stack /\ c = Step.scenario
  OBVIOUS
<1>6. s \in DOMAIN Stack /\ c \in Range(Scenarios) /\ Step = CellStep(s, c)
  BY <1>1, <1>4, <1>5 DEF RowSteps, CellStep
<1>7. PICK body, m, d : body = RunScenario(s, c) /\ m = Noting(body) /\ d = RecordStep(s, c)
  OBVIOUS
<1>8. body \in CellBodies /\ m \in Level4 /\ d \in RowSteps
  BY <1>6, <1>7, CellBodiesBuilt, CellBuilt
<1>9. m \in Inside /\ m \in Ahead /\ m \in Planned /\ d \in Ahead
  BY <1>8, Levels DEF Inside, Ahead
<1>10. PICK x, y, rows : x = <<m>> /\ y = <<d>> /\ rows = y \o rest
  OBVIOUS
<1>11. /\ x \in Seq(Inside) /\ x \in Seq(Ahead) /\ x \in Seq(Planned)
       /\ y \in Seq(Ahead) /\ y \in Seq(RowSteps)
  BY <1>8, <1>9, <1>10
<1>12. rows \in Seq(RowSteps)
  BY <1>10, <1>11, ConcatProperties
<1>13. todo' = x \o (<<>> \o (rows \o b))
  <2>1. Cell(s, c) = x \o y
    BY <1>7, <1>9, <1>10, TwoJoined DEF Cell
  <2>2. rest \in Seq(Ahead) /\ b \in Seq(Ahead)
    BY <1>2, AroundBuilt
  <2>3. PICK q : q = rest \o b
    OBVIOUS
  <2>4. q \in Seq(Ahead)
    BY <2>2, <2>3, ConcatProperties
  <2>5. (x \o y) \o q = x \o (y \o q)
    <3>1. x \in Seq(Ahead) /\ y \in Seq(Ahead) /\ q \in Seq(Ahead)
      BY <1>11, <2>4
    <3> QED BY <3>1, Regrouped
  <2>6. y \o (rest \o b) = (y \o rest) \o b
    BY <1>11, <2>2, Regrouped
  <2>7. <<>> \o (rows \o b) = rows \o b
    <3>1. <<>> \in Notings
      BY DEF Notings
    <3> QED BY <1>2, <1>12, <3>1, MatrixTail
  <2>8. todo' = (x \o y) \o q
    BY <1>1, <1>2, <1>4, <1>5, <2>1, <2>3
  <2> QED BY <1>10, <2>3, <2>5, <2>6, <2>7, <2>8
<1>14. Complete(job'.stacks, rows, results')
  <2>1. results \in Seq(Rows)
    BY StepsInvParts
  <2>2. Complete(job.stacks, <<CellStep(s, c)>> \o rest, results)
    BY <1>4, <1>6
  <2>3. Complete(job.stacks, <<RecordStep(s, c)>> \o rest, results)
    BY <1>6, <2>1, <2>2, CellRecords
  <2> QED BY <1>1, <1>7, <1>10, <2>3
<1>15. InCell(x, <<>>, raised')
  BY <1>1, <1>4, <1>7, <1>8, <1>10 DEF InCell
<1>16. Sound(x) /\ raised' = "no" /\ b \in Seq(Ahead) /\ <<>> \in Notings
  BY <1>1, <1>2, <1>4, <1>11, PlannedIsSound, AroundBuilt DEF Notings
<1> QED BY <1>3, <1>11, <1>12, <1>13, <1>14, <1>15, <1>16, MatrixAgain

\* A cell that is recorded, or a stack that does not load.
LEMMA ResultRows ==
  ASSUME StepsInv, InMatrix, Record \/ StackFailsToLoad, Single(results)
  PROVE  InMatrix' /\ Single(results')
<1>1. /\ todo # <<>> /\ Step.kind \in {"record", "stack"} /\ todo' = Tail(todo)
      /\ raised' = raised /\ job' = job
  BY DEF Record, StackFailsToLoad, At, Continue
<1>2. PICK b : b = Behind
  OBVIOUS
<1>3. b = Behind'
  BY <1>1, <1>2 DEF Behind
<1>4. PICK rest \in Seq(RowSteps) :
           /\ Step \in RowSteps /\ Tail(todo) = rest \o Behind /\ raised = "no"
           /\ Complete(job.stacks, <<Step>> \o rest, results)
  BY <1>1, RowIsNext
<1>5. PICK r : r = Step
  OBVIOUS
<1>6. r \in RowSteps /\ Complete(job.stacks, <<r>> \o rest, results) /\ results \in Seq(Rows)
  BY <1>4, <1>5, StepsInvParts
<1>7. todo' = rest \o b /\ raised' = "no"
  BY <1>1, <1>2, <1>4
<1>8. ASSUME NEW e \in Rows, results' = Append(results, e), Key(e) \in Promises(r),
             Complete(job.stacks, rest, Append(results, e))
      PROVE  InMatrix' /\ Single(results')
  <2>1. Single(Append(results, e))
    <3>1. PICK stacks, there : stacks = job.stacks /\ there = results
      OBVIOUS
    <3>2. Complete(stacks, <<r>> \o rest, there) /\ there \in Seq(Rows) /\ Single(there)
      BY <1>6, <3>1
    <3>3. Single(Append(there, e))
      BY <1>6, <1>8, <3>2, NewResult
    <3> QED BY <3>1, <3>3
  <2>2. Single(results')
    BY <1>8, <2>1
  <2>3. Complete(job'.stacks, rest, results')
    BY <1>1, <1>8
  <2> QED BY <1>2, <1>3, <1>7, <2>2, <2>3, BetweenAgain
<1>9. CASE Record
  <2>1. PICK e : e = [stack |-> Step.stack, scenario |-> Step.scenario, ok |-> ~ caught]
    OBVIOUS
  <2>2. results' = Append(results, e) /\ r.kind = "record"
    BY <1>5, <1>9, <2>1 DEF Record, At
  <2>3. /\ r.stack \in DOMAIN Stack /\ r.scenario \in Range(Scenarios)
        /\ Promises(r) = {<<r.stack, r.scenario>>}
    BY <1>6, <2>2, PromisesOfStep
  <2>4. e \in Rows /\ e.stack = r.stack /\ e.scenario = r.scenario
    BY <1>5, <2>1, <2>3, StepsInvParts DEF Rows
  <2>5. Key(e) \in Promises(r)
    BY <2>3, <2>4 DEF Key
  <2>6. Complete(job.stacks, rest, Append(results, e))
    BY <1>6, <2>2, <2>4, RecordDone
  <2> QED BY <1>8, <2>2, <2>4, <2>5, <2>6
<1>10. CASE StackFailsToLoad
  <2>1. PICK e : e = [stack |-> Step.stack, scenario |-> "*", ok |-> FALSE]
    OBVIOUS
  <2>2. results' = Append(results, e) /\ r.kind = "stack"
    BY <1>5, <1>10, <2>1 DEF StackFailsToLoad, At
  <2>3. r.stack \in DOMAIN Stack /\ Promises(r) = {r.stack} \X AnyScenario
    BY <1>6, <2>2, PromisesOfStep
  <2>4. e \in Rows /\ e.stack = r.stack /\ e.scenario = "*"
    BY <1>5, <2>1, <2>3 DEF Rows
  <2>5. Key(e) \in Promises(r)
    BY <2>3, <2>4 DEF Key, AnyScenario
  <2>6. Complete(job.stacks, rest, Append(results, e))
    BY <1>6, <2>2, <2>4, StackGivenUp
  <2> QED BY <1>8, <2>2, <2>4, <2>5, <2>6
<1> QED BY <1>9, <1>10

\* The steps around the matrix, by their kind.
LEMMA AroundKinds ==
  /\ Sync("adapter_down").kind = "call" /\ Sync("adapter_down").call = "adapter_down"
  /\ SpawnPeripheral.kind = "call" /\ SpawnPeripheral.call = "spawn_peripheral"
  /\ ReadReady.kind = "call" /\ ReadReady.call = "read_ready"
  /\ Opening("write_run").kind = "call"
  /\ AroundMatrix.kind = "block"
  /\ AroundMatrix.inner = (<<ReadReady>> \o Matrix(job.stacks)) \o <<Mark("finally", <<>>)>> \o <<StopPeripheral>>
<1>1. AroundMatrix = [kind |-> "block",
                      inner |-> (<<ReadReady>> \o Matrix(job.stacks)) \o <<Mark("finally", <<>>)>>
                                  \o <<StopPeripheral>>]
  BY DEF AroundMatrix, Finally, Block
<1>2. /\ Sync("adapter_down").kind = "call" /\ Sync("adapter_down").call = "adapter_down"
      /\ SpawnPeripheral.kind = "call" /\ SpawnPeripheral.call = "spawn_peripheral"
      /\ ReadReady.kind = "call" /\ ReadReady.call = "read_ready"
      /\ Opening("write_run").kind = "call"
  BY DEF Sync, SpawnPeripheral, ReadReady, Needing, Getting, Await, Opening, Call
<1> QED BY <1>1, <1>2

\* An exception before the matrix, with nothing that it lands in, ends the run.
LEMMA GivenUp ==
  ASSUME NEW rest, \A i \in 1 .. Len(rest) : rest[i].kind \in {"call", "block"},
         NEW how \in {"error", "cancel"}, Unwind(rest, how)
  PROVE  Finishing'
<1>1. PICK b : b = Behind'
  OBVIOUS
<1>2. Len(b) \in Nat /\ Len(b) >= 1
  <2>1. (Len(Behind) \in Nat /\ Len(Behind) >= 1)'
    BY BehindParts, PTL
  <2> QED BY <1>1, <2>1
<1>3. todo' = <<>> /\ raised' = how
  BY DEF Unwind, Lands
<1>4. SubSeq(b, Len(b) + 1, Len(b)) = <<>>
  <2>1. Len(b) < Len(b) + 1 /\ Len(b) + 1 \in Int /\ Len(b) \in Int
    BY <1>2
  <2> QED BY <2>1, SubSeqEmpty
<1>5. Len(b) \in 1 .. Len(b)
  BY <1>2
<1> QED BY <1>1, <1>3, <1>4, <1>5, FinishAgain

\* Four steps, one by one.
LEMMA FourJoined ==
  ASSUME NEW a \in Ahead, NEW b \in Ahead, NEW c \in Ahead, NEW d \in Ahead
  PROVE  <<a>> \o (<<b>> \o (<<c>> \o <<d>>)) = <<a, b, c, d>>
<1>1. PICK p, q, r, s : p = <<a>> /\ q = <<b>> /\ r = <<a, b>> /\ s = <<c, d>>
  OBVIOUS
<1>2. /\ p \in Seq(Ahead) /\ q \in Seq(Ahead)
      /\ r \in Seq(Ahead) /\ Len(r) = 2 /\ r[1] = a /\ r[2] = b
      /\ s \in Seq(Ahead) /\ Len(s) = 2 /\ s[1] = c /\ s[2] = d
  BY <1>1
<1>3. p \o q = r /\ <<c>> \o <<d>> = s
  BY <1>1, TwoJoined
<1>4. p \o (q \o s) = (p \o q) \o s
  BY <1>2, Regrouped
<1>5. /\ r \o s \in Seq(Ahead) /\ Len(r \o s) = Len(r) + Len(s)
      /\ \A i \in 1 .. Len(r) : (r \o s)[i] = r[i]
      /\ \A i \in 1 .. Len(s) : (r \o s)[Len(r) + i] = s[i]
  <2>1. r \in Seq(Ahead) /\ s \in Seq(Ahead)
    BY <1>2
  <2> QED BY <2>1, Joined
<1> DEFINE t == r \o s
<1>6. /\ p \o (q \o s) = t
      /\ t \in Seq(Ahead) /\ Len(t) = Len(r) + Len(s)
      /\ \A i \in 1 .. Len(r) : t[i] = r[i]
      /\ \A i \in 1 .. Len(s) : t[Len(r) + i] = s[i]
  BY <1>3, <1>4, <1>5
<1> HIDE DEF t
<1>7. Len(r) = 2 /\ Len(s) = 2
  BY <1>2
<1>8. t \in Seq(Ahead) /\ Len(t) = 4 /\ t[1] = a /\ t[2] = b /\ t[3] = c /\ t[4] = d
  <2>1. 1 \in 1 .. Len(r) /\ 2 \in 1 .. Len(r) /\ 1 \in 1 .. Len(s) /\ 2 \in 1 .. Len(s)
        /\ Len(r) + 1 = 3 /\ Len(r) + 2 = 4 /\ Len(r) + Len(s) = 4
    BY <1>7
  <2> QED BY <1>2, <1>6, <2>1
<1>9. PICK l : l = <<a, b, c, d>>
  OBVIOUS
<1>10. l \in Seq(Ahead) /\ Len(l) = 4 /\ l[1] = a /\ l[2] = b /\ l[3] = c /\ l[4] = d
  BY <1>9
<1>11. \A i \in 1 .. Len(t) : t[i] = l[i]
  BY <1>8, <1>10
<1>12. t = l
  BY <1>8, <1>10, <1>11, SeqEqual
<1> QED BY <1>1, <1>3, <1>6, <1>9, <1>12

\* The block around the matrix is entered.
LEMMA AroundOpens ==
  ASSUME StepsInv, job.mock, todo = <<AroundMatrix, Opening("write_run")>>, Opens, raised = "no"
  PROVE  todo' = <<ReadReady>> \o (Matrix(job.stacks) \o Behind)
<1>1. PICK m, f, p, e, w : /\ m = Matrix(job.stacks) /\ f = Mark("finally", <<>>)
                            /\ p = StopPeripheral /\ e = End("no") /\ w = Opening("write_run")
  OBVIOUS
<1>2. PICK x, u, v, y, z : /\ x = <<ReadReady>> /\ u = <<f>> /\ v = <<p>> /\ y = <<e>> /\ z = <<w>>
  OBVIOUS
<1>3. todo' = (((((x \o m) \o u) \o v) \o y) \o z)
  <2>1. Step = AroundMatrix /\ Tail(todo) = <<Opening("write_run")>>
    BY DEF Step
  <2>2. todo' = AroundMatrix.inner \o <<End("no")>> \o <<Opening("write_run")>>
    BY <2>1 DEF Opens
  <2> QED BY <1>1, <1>2, <2>2, AroundKinds
<1>4. /\ f \in Ahead /\ p \in Ahead /\ e \in Ahead /\ w \in Ahead
      /\ x \in Seq(Ahead) /\ m \in Seq(Ahead)
  <2>1. {"spawn_peripheral", "read_ready", "write_run"} \subseteq CallNames
    BY DEF CallNames
  <2>2. "peripheral" \in Children /\ {"peripheral"} \in SUBSET Resources /\ {"peer"} \in SUBSET Resources
    BY DEF Children, Resources
  <2>3. ReadReady \in Ahead /\ w \in Ahead
    BY <1>1, <2>1, <2>2, CallsBuilt, Levels DEF ReadReady
  <2>4. p \in Ahead
    BY <1>1, <2>2, StopBuilt, Levels DEF StopPeripheral
  <2>5. f \in Ahead /\ e \in Ahead
    <3>1. <<>> \in Seq(Cleanup)
      BY EmptySeq
    <3> QED BY <1>1, <3>1 DEF Mark, Marks, End, Ends, Kinds, Ahead
  <2>6. m \in Seq(Ahead)
    <3>1. job \in Job
      BY StepsInvParts
    <3>2. Matrix(job.stacks) \in Seq(RowSteps)
      BY <3>1, RowsBuilt DEF Job
    <3> QED BY <1>1, <3>2, AroundBuilt
  <2> QED BY <1>2, <2>3, <2>4, <2>5, <2>6
<1>5. u \in Seq(Ahead) /\ v \in Seq(Ahead) /\ y \in Seq(Ahead) /\ z \in Seq(Ahead)
  BY <1>2, <1>4
<1>6. ((((x \o m) \o u) \o v) \o y) \o z = x \o (m \o (u \o (v \o (y \o z))))
  <2>1. PICK xm, xmu, xmuv : xm = x \o m /\ xmu = xm \o u /\ xmuv = xmu \o v
    OBVIOUS
  <2>2. PICK yz, vyz, t : yz = y \o z /\ vyz = v \o yz /\ t = u \o vyz
    OBVIOUS
  <2>3. xm \in Seq(Ahead) /\ yz \in Seq(Ahead)
    BY <1>4, <1>5, <2>1, <2>2, ConcatProperties
  <2>4. xmu \in Seq(Ahead) /\ vyz \in Seq(Ahead)
    BY <1>5, <2>1, <2>2, <2>3, ConcatProperties
  <2>5. xmuv \in Seq(Ahead) /\ t \in Seq(Ahead)
    BY <1>5, <2>1, <2>2, <2>4, ConcatProperties
  <2>6. (xmuv \o y) \o z = xmuv \o (y \o z)
    <3>1. xmuv \in Seq(Ahead) /\ y \in Seq(Ahead) /\ z \in Seq(Ahead)
      BY <1>5, <2>5
    <3> QED BY <3>1, Regrouped
  <2>7. (xmu \o v) \o yz = xmu \o (v \o yz)
    <3>1. xmu \in Seq(Ahead) /\ v \in Seq(Ahead) /\ yz \in Seq(Ahead)
      BY <1>5, <2>3, <2>4
    <3> QED BY <3>1, Regrouped
  <2>8. (xm \o u) \o vyz = xm \o (u \o vyz)
    <3>1. xm \in Seq(Ahead) /\ u \in Seq(Ahead) /\ vyz \in Seq(Ahead)
      BY <1>5, <2>3, <2>4
    <3> QED BY <3>1, Regrouped
  <2>9. (x \o m) \o t = x \o (m \o t)
    <3>1. x \in Seq(Ahead) /\ m \in Seq(Ahead)
      BY <1>4
    <3> QED BY <2>5, <3>1, Regrouped
  <2> QED BY <2>1, <2>2, <2>6, <2>7, <2>8, <2>9
<1>7. u \o (v \o (y \o z)) = Behind
  <2>1. u \o (v \o (y \o z)) = <<f, p, e, w>>
    BY <1>2, <1>4, FourJoined
  <2> QED BY <1>1, <2>1 DEF Behind
<1> QED BY <1>1, <1>2, <1>3, <1>6, <1>7

\* The moves before the peripheral runs: three steps, one by one.
LEMMA SetupMoves ==
  ASSUME StepsInv, Moves, job' = job, results' = results, job.mock, raised = "no", results = <<>>,
         todo \in { <<Sync("adapter_down"), SpawnPeripheral, AroundMatrix, Opening("write_run")>>,
                    <<SpawnPeripheral, AroundMatrix, Opening("write_run")>>,
                    <<AroundMatrix, Opening("write_run")>> }
  PROVE  Starting' \/ Finishing'
<1>1. /\ AroundMatrix' = AroundMatrix /\ Matrix(job'.stacks) = Matrix(job.stacks) /\ Behind' = Behind
  BY DEF AroundMatrix, Behind
<1>2. ASSUME raised' = "no",
             \/ todo' \in { <<Sync("adapter_down"), SpawnPeripheral, AroundMatrix, Opening("write_run")>>,
                            <<SpawnPeripheral, AroundMatrix, Opening("write_run")>>,
                            <<AroundMatrix, Opening("write_run")>> }
             \/ todo' = <<ReadReady>> \o (Matrix(job.stacks) \o Behind)
      PROVE  Starting'
  BY <1>1, <1>2 DEF Starting
<1>3. CASE Stays
  <2>1. todo' = todo /\ raised' = "no"
    BY <1>3 DEF Stays
  <2> QED BY <1>2, <2>1
<1>4. PICK a, s, m, w : /\ a = Sync("adapter_down") /\ s = SpawnPeripheral
                         /\ m = AroundMatrix /\ w = Opening("write_run")
  OBVIOUS
<1>5. /\ a.kind = "call" /\ a.call # "readline" /\ s.kind = "call" /\ s.call # "readline"
      /\ m.kind = "block" /\ w.kind = "call"
  BY <1>4, AroundKinds
<1>6. ASSUME NEW rest, \A i \in 1 .. Len(rest) : rest[i].kind \in {"call", "block"},
             todo # <<>>, Step.kind = "call", Step.call # "readline", Tail(todo) = rest
      PROVE  Stays \/ (todo' = rest /\ raised' = "no") \/ Finishing'
  <2>1. GoesOn => todo' = rest /\ raised' = "no"
    BY <1>6 DEF GoesOn
  <2>2. ASSUME NEW how \in {"error", "cancel"}, Unwind(Tail(todo), how)
        PROVE  Finishing'
    <3>1. Unwind(rest, how)
      BY <1>6, <2>2 DEF Unwind
    <3> QED BY <1>6, <3>1, GivenUp
  <2> QED BY <1>6, <2>1, <2>2, MovesByKind
<1>7. CASE todo = <<a, s, m, w>>
  <2>1. PICK rest : rest = <<s, m, w>>
    OBVIOUS
  <2>2. \A i \in 1 .. Len(rest) : rest[i].kind \in {"call", "block"}
    BY <1>5, <2>1
  <2>3. todo # <<>> /\ Step = a /\ Tail(todo) = rest
    BY <1>7, <2>1 DEF Step
  <2>4. Stays \/ (todo' = rest /\ raised' = "no") \/ Finishing'
    BY <1>5, <1>6, <2>2, <2>3
  <2> QED BY <1>2, <1>3, <1>4, <2>1, <2>4
<1>8. CASE todo = <<s, m, w>>
  <2>1. PICK rest : rest = <<m, w>>
    OBVIOUS
  <2>2. \A i \in 1 .. Len(rest) : rest[i].kind \in {"call", "block"}
    BY <1>5, <2>1
  <2>3. todo # <<>> /\ Step = s /\ Tail(todo) = rest
    BY <1>8, <2>1 DEF Step
  <2>4. Stays \/ (todo' = rest /\ raised' = "no") \/ Finishing'
    BY <1>5, <1>6, <2>2, <2>3
  <2> QED BY <1>2, <1>3, <1>4, <2>1, <2>4
<1>9. CASE todo = <<m, w>>
  <2>1. todo # <<>> /\ Step = m
    BY <1>9 DEF Step
  <2>2. Stays \/ Opens
    BY <1>5, <2>1, MovesByKind
  <2>3. CASE Opens
    <3>1. todo = <<AroundMatrix, Opening("write_run")>>
      BY <1>4, <1>9
    <3>2. todo' = <<ReadReady>> \o (Matrix(job.stacks) \o Behind)
      BY <2>3, <3>1, AroundOpens
    <3>3. raised' = "no"
      BY <2>3 DEF Opens
    <3> QED BY <1>2, <3>2, <3>3
  <2> QED BY <1>3, <2>2, <2>3
<1> QED BY <1>4, <1>7, <1>8, <1>9

\* The moves while the peripheral gets ready.
LEMMA ReadyMoves ==
  ASSUME StepsInv, Moves, job' = job, results' = results, job.kind = "runner", job.mock, raised = "no",
         results = <<>>, todo = <<ReadReady>> \o (Matrix(job.stacks) \o Behind)
  PROVE  Starting' \/ InMatrix' \/ Finishing'
<1>1. PICK b, m : b = Behind /\ m = Matrix(job.stacks)
  OBVIOUS
<1>2. b = Behind' /\ m = Matrix(job'.stacks)
  BY <1>1 DEF Behind
<1>3. m \in Seq(RowSteps) /\ Complete(job.stacks, m, <<>>)
  <2>1. job \in Job /\ IsInjective(job.stacks)
    BY StepsInvParts, JobsAssumption
  <2>2. job.stacks \in Seq(DOMAIN Stack)
    BY <2>1 DEF Job
  <2> QED BY <1>1, <2>1, <2>2, RowsBuilt, MatrixComplete
<1>4. b \in Seq(Ahead) /\ m \in Seq(Ahead)
  BY <1>1, <1>3, AroundBuilt
<1>5. PICK r, u, q : r = ReadReady /\ u = <<r>> /\ q = m \o b
  OBVIOUS
<1>6. r \in Ahead /\ q \in Seq(Ahead) /\ todo = u \o q
  <2>1. "read_ready" \in CallNames /\ {"peripheral"} \in SUBSET Resources /\ {"peer"} \in SUBSET Resources
    BY DEF CallNames, Resources, Children
  <2>2. ReadReady \in Ahead
    BY <2>1, CallsBuilt, Levels DEF ReadReady
  <2>3. m \o b \in Seq(Ahead)
    BY <1>4, ConcatProperties
  <2> QED BY <1>1, <1>5, <2>2, <2>3
<1>7. todo # <<>> /\ Step = r /\ Tail(todo) = q
  BY <1>5, <1>6, NextIs
<1>8. r.kind = "call" /\ r.call # "readline"
  BY <1>5, AroundKinds
<1>9. CASE Stays
  BY <1>2, <1>9, <1>1 DEF Stays, Starting
<1>10. CASE GoesOn
  <2>1. todo' = m \o b /\ raised' = "no"
    BY <1>5, <1>7, <1>10 DEF GoesOn
  <2>2. Complete(job'.stacks, m, results')
    BY <1>3
  <2> QED BY <1>1, <1>2, <1>3, <2>1, <2>2, BetweenAgain
<1>11. ASSUME NEW how \in {"error", "cancel"}, Unwind(Tail(todo), how)
       PROVE  Finishing'
  <2>1. Unwind(q, how)
    BY <1>7, <1>11 DEF Unwind
  <2> QED BY <1>1, <1>2, <1>3, <1>5, <2>1, RowsPassed
<1> QED BY <1>7, <1>8, <1>9, <1>10, <1>11, MovesByKind

\* Where a row is next, the runner is in the matrix.
LEMMA RowInMatrix ==
  ASSUME RunnerInv, todo # <<>>, Step.kind \in {"record", "cell", "stack"}
  PROVE  job.kind = "runner" /\ InMatrix
<1>1. job.kind = "runner"
  <2>1. SUFFICES ASSUME job.kind # "runner"
                 PROVE  FALSE
    OBVIOUS
  <2>2. todo \in Seq(Rowless)
    BY <2>1 DEF RunnerInv
  <2>3. Step \in Rowless
    BY <2>2, HeadAndTail DEF Step
  <2> QED BY <2>3, RowlessKinds
<1>2. ~ Starting
  <2>1. SUFFICES ASSUME Starting
                 PROVE  FALSE
    OBVIOUS
  <2>2. PICK a, s, m, w : /\ a = Sync("adapter_down") /\ s = SpawnPeripheral
                           /\ m = AroundMatrix /\ w = Opening("write_run")
    OBVIOUS
  <2>3. a.kind = "call" /\ s.kind = "call" /\ m.kind = "block"
    BY <2>2, AroundKinds
  <2>4. todo \in {<<a, s, m, w>>, <<s, m, w>>, <<m, w>>} => Step \in {a, s, m}
    BY DEF Step
  <2>5. todo \in {<<a, s, m, w>>, <<s, m, w>>, <<m, w>>}
        \/ todo = <<ReadReady>> \o (Matrix(job.stacks) \o Behind)
    BY <2>1, <2>2 DEF Starting
  <2>6. CASE todo = <<ReadReady>> \o (Matrix(job.stacks) \o Behind)
    <3>1. PICK q : q = Matrix(job.stacks) \o Behind
      OBVIOUS
    <3>2. Head(<<ReadReady>> \o q) = ReadReady
      OBVIOUS
    <3>3. Step = ReadReady
      BY <2>6, <3>1, <3>2 DEF Step
    <3> QED BY <3>3, AroundKinds
  <2> QED BY <2>3, <2>4, <2>5, <2>6
<1>3. ~ Finishing
  <2>1. SUFFICES ASSUME Finishing
                 PROVE  FALSE
    OBVIOUS
  <2>2. PICK b : b = Behind
    OBVIOUS
  <2>3. PICK n \in 1 .. Len(b) : todo = SubSeq(b, n + 1, Len(b))
    BY <2>1, <2>2 DEF Finishing
  <2>4. /\ Len(b) \in Nat /\ b \in Seq(Ahead)
        /\ \A i \in 2 .. Len(b) : b[i].kind \in {"call", "end"}
    BY <2>2, BehindParts, AroundBuilt
  <2>5. todo \in Seq(Ahead) /\ Without(todo, b, n)
    BY <2>3, <2>4, Beyond
  <2>6. /\ Len(todo) \in Nat /\ Len(todo) >= 1 /\ Head(todo) = todo[1]
    BY <2>5, HeadAndTail
  <2>7. 1 \in 1 .. Len(todo) /\ n + 1 \in 2 .. Len(b)
    BY <2>4, <2>5, <2>6 DEF Without
  <2>8. Step = b[n + 1]
    BY <2>5, <2>6, <2>7 DEF Without, Step
  <2> QED BY <2>4, <2>7, <2>8
<1> QED BY <1>1, <1>2, <1>3 DEF RunnerInv

\* A fourth step behind three.
LEMMA ThreeAppended ==
  ASSUME NEW S, NEW a \in S, NEW b \in S, NEW c \in S, NEW d \in S
  PROVE  Append(<<a, b, c>>, d) = <<a, b, c, d>>
<1>1. PICK p, l : p = <<a, b, c>> /\ l = <<a, b, c, d>>
  OBVIOUS
<1>2. p \in Seq(S) /\ Len(p) = 3 /\ p[1] = a /\ p[2] = b /\ p[3] = c
  BY <1>1
<1>3. l \in Seq(S) /\ Len(l) = 4 /\ l[1] = a /\ l[2] = b /\ l[3] = c /\ l[4] = d
  BY <1>1
<1>4. PICK t : t = Append(p, d)
  OBVIOUS
<1>5. /\ t \in Seq(S) /\ Len(t) = Len(p) + 1
      /\ \A i \in 1 .. Len(p) : t[i] = p[i]
      /\ t[Len(p) + 1] = d
  <2>1. p \in Seq(S)
    BY <1>2
  <2>2. /\ Append(p, d) \in Seq(S) /\ Len(Append(p, d)) = Len(p) + 1
        /\ \A i \in 1 .. Len(p) : Append(p, d)[i] = p[i]
        /\ Append(p, d)[Len(p) + 1] = d
    BY <2>1, AppendProperties
  <2> QED BY <1>4, <2>2
<1>6. t[1] = a /\ t[2] = b /\ t[3] = c /\ t[4] = d /\ Len(t) = 4
  <2>1. 1 \in 1 .. Len(p) /\ 2 \in 1 .. Len(p) /\ 3 \in 1 .. Len(p) /\ Len(p) + 1 = 4
    BY <1>2
  <2> QED BY <1>2, <1>5, <2>1
<1>7. \A i \in 1 .. Len(t) : t[i] = l[i]
  BY <1>3, <1>6
<1>8. t = l
  BY <1>3, <1>5, <1>6, <1>7, SeqEqual
<1> QED BY <1>1, <1>4, <1>8

\* The runner's invariant holds at first.
LEMMA InitRunnerInv ==
  ASSUME Init
  PROVE  RunnerInv
<1>1. /\ job \in Job /\ (job.kind = "runner" => IsInjective(job.stacks))
      /\ todo = Program /\ raised = "no" /\ results = <<>>
  BY JobsAssumption DEF Init
<1>2. Single(results)
  <2>1. 1 .. Len(results) = {}
    BY <1>1, EmptySeq
  <2> QED BY <2>1 DEF Single
<1>3. ASSUME job.kind # "runner"
      PROVE  todo \in Seq(Rowless)
  <2>1. Nest(Returning) \subseteq Rowless
    BY DEF Rowless
  <2>2. Echo \in Seq(Rowless) /\ Pair \in Seq(Rowless) /\ Establish \in Seq(Rowless)
    BY <2>1, EchoBuilt, PairBuilt, EstablishBuilt, SeqMonotonic
  <2>3. job.kind \in {"echo", "pair", "establish"}
    BY <1>1, <1>3 DEF Job
  <2> QED BY <1>1, <2>2, <2>3 DEF Program
<1>4. PICK m, w : m = Matrix(job.stacks) /\ w = Opening("write_run")
  OBVIOUS
<1>5. w \in Ahead
  <2>1. "write_run" \in CallNames
    BY DEF CallNames
  <2> QED BY <1>4, <2>1, CallsBuilt, Levels
<1>6. CASE job.kind = "runner" /\ job.mock
  <2>1. PICK a, s, k : a = Sync("adapter_down") /\ s = SpawnPeripheral /\ k = AroundMatrix
    OBVIOUS
  <2>2. Supervised(m) = <<a, s, k>>
    BY <1>4, <2>1 DEF Supervised, SpawnPeripheral, AroundMatrix, ReadReady, StopPeripheral
  <2>3. todo = Append(<<a, s, k>>, w)
    BY <1>1, <1>4, <1>6, <2>2 DEF Program, Runner
  <2>4. Append(<<a, s, k>>, w) = <<a, s, k, w>>
    <3>1. PICK S : S = {a, s, k, w}
      OBVIOUS
    <3>2. a \in S /\ s \in S /\ k \in S /\ w \in S
      BY <3>1
    <3> QED BY <3>2, ThreeAppended
  <2>5. Starting
    BY <1>1, <1>4, <1>6, <2>1, <2>3, <2>4 DEF Starting
  <2> QED BY <1>2, <1>6, <2>5 DEF RunnerInv
<1>7. CASE job.kind = "runner" /\ ~ job.mock
  <2>1. m \in Seq(RowSteps) /\ m \in Seq(Ahead) /\ Complete(job.stacks, m, <<>>)
    <3>1. job.stacks \in Seq(DOMAIN Stack)
      BY <1>1 DEF Job
    <3> QED BY <1>1, <1>4, <1>7, <3>1, RowsBuilt, MatrixComplete, AroundBuilt
  <2>2. PICK b, e : b = Behind /\ e = <<>>
    OBVIOUS
  <2>3. b = <<w>> /\ b \in Seq(Ahead) /\ e \in Seq(Ahead) /\ Len(e) = 0
    BY <1>4, <1>5, <1>7, <2>2, EmptySeq DEF Behind
  <2>4. todo = m \o b
    <3>1. Append(m, w) = m \o <<w>>
      BY <1>5, <2>1, AppendIsConcat
    <3>2. todo = Append(m, w)
      BY <1>1, <1>4, <1>7 DEF Program, Runner
    <3> QED BY <2>3, <3>1, <3>2
  <2>5. m \o b \in Seq(Ahead) /\ e \o (m \o b) = m \o b
    BY <2>1, <2>2, <2>3, ConcatProperties, ConcatEmptySeq
  <2>6. PICK t : t = todo
    OBVIOUS
  <2>7. t = e \o (e \o (m \o b))
    BY <2>4, <2>5, <2>6
  <2>8. /\ Len(e) \in 0 .. Len(t) /\ SubSeq(t, 1, Len(e)) = e
        /\ SubSeq(t, Len(e) + Len(e) + 1, Len(t) - Len(b)) = m
    BY <2>1, <2>3, <2>7, Pieces
  <2>9. /\ SubSeq(todo, 1, 0) = <<>> /\ 0 \in 0 .. Len(todo)
        /\ SubSeq(todo, 0 + Len(<<>>) + 1, Len(todo) - Len(Behind)) = m
        /\ todo = <<>> \o (<<>> \o (m \o Behind))
    BY <2>2, <2>3, <2>6, <2>7, <2>8
  <2>10. Within(Inside, <<>>, raised) /\ InCell(<<>>, <<>>, raised)
    BY <1>1, EmptySeq, PlannedIsSound DEF Within, InCell
  <2>11. Complete(job.stacks, m, results)
    BY <1>1, <2>1
  <2>12. InMatrix
    BY <2>1, <2>9, <2>10, <2>11 DEF InMatrix
  <2> QED BY <1>2, <1>7, <2>12 DEF RunnerInv
<1> QED BY <1>1, <1>2, <1>3, <1>6, <1>7 DEF RunnerInv

\* Every step preserves it.
LEMMA NextRunnerInv ==
  ASSUME StepsInv, RunnerInv, [Next]_vars
  PROVE  RunnerInv'
<1>1. /\ job' = job
      /\ \/ LoadStack \/ StackFailsToLoad \/ BeginCell \/ Record
         \/ Moves /\ results' = results
  BY AllMove
<1>2. /\ Single(results)
      /\ job.kind = "runner" => Starting \/ InMatrix \/ Finishing
      /\ job.kind # "runner" => results = <<>> /\ todo \in Seq(Rowless)
  BY DEF RunnerInv
<1>3. CASE Moves /\ results' = results
  <2>1. Single(results')
    BY <1>2, <1>3
  <2>2. ASSUME job.kind # "runner"
        PROVE  results' = <<>> /\ todo' \in Seq(Rowless)
    <3>1. todo \in Seq(Rowless) /\ raised \in Kinds
      BY <1>2, <2>2, StepsInvParts
    <3> QED BY <1>2, <1>3, <2>2, <3>1, RowlessMoves
  <2>3. ASSUME job.kind = "runner", Starting
        PROVE  Starting' \/ InMatrix' \/ Finishing'
    <3>1. /\ job.mock /\ raised = "no" /\ results = <<>>
          /\ \/ todo \in { <<Sync("adapter_down"), SpawnPeripheral, AroundMatrix, Opening("write_run")>>,
                           <<SpawnPeripheral, AroundMatrix, Opening("write_run")>>,
                           <<AroundMatrix, Opening("write_run")>> }
             \/ todo = <<ReadReady>> \o (Matrix(job.stacks) \o Behind)
      BY <2>3 DEF Starting
    <3> QED BY <1>1, <1>3, <2>3, <3>1, SetupMoves, ReadyMoves
  <2>4. ASSUME InMatrix
        PROVE  InMatrix' \/ Finishing'
    BY <1>1, <1>3, <2>4, MatrixMoves
  <2>5. ASSUME Finishing
        PROVE  Finishing'
    <3>1. PICK b : b = Behind
      OBVIOUS
    <3>2. b = Behind'
      BY <1>1, <3>1 DEF Behind
    <3>3. PICK n \in 1 .. Len(b) : todo = SubSeq(b, n + 1, Len(b))
      BY <2>5, <3>1 DEF Finishing
    <3>4. raised # "return" /\ (raised = "no" => Complete(job'.stacks, <<>>, results'))
      BY <1>1, <1>3, <2>5 DEF Finishing
    <3>5. n \in 0 .. Len(b) /\ n # 0
      BY <3>3
    <3> QED BY <1>3, <3>1, <3>2, <3>3, <3>4, <3>5, FinishMoves
  <2> QED BY <1>1, <1>2, <2>1, <2>2, <2>3, <2>4, <2>5 DEF RunnerInv
<1>4. CASE LoadStack \/ BeginCell
  <2>1. todo # <<>> /\ Step.kind \in {"stack", "cell"} /\ results' = results
    BY <1>4 DEF LoadStack, BeginCell, At, programVars
  <2>2. job.kind = "runner" /\ InMatrix
    BY <2>1, RowInMatrix
  <2>3. InMatrix'
    BY <1>4, <2>2, LoadStackRows, BeginCellRows
  <2>4. Single(results')
    BY <1>2, <2>1
  <2> QED BY <1>1, <2>2, <2>3, <2>4 DEF RunnerInv
<1>5. CASE Record \/ StackFailsToLoad
  <2>1. todo # <<>> /\ Step.kind \in {"stack", "record"}
    BY <1>5 DEF Record, StackFailsToLoad, At
  <2>2. job.kind = "runner" /\ InMatrix
    BY <2>1, RowInMatrix
  <2>3. InMatrix' /\ Single(results')
    BY <1>2, <1>5, <2>2, ResultRows
  <2> QED BY <1>1, <2>2, <2>3 DEF RunnerInv
<1> QED BY <1>1, <1>3, <1>4, <1>5

\* Whatever raises where, the runner is before, in or behind its matrix, and
\* has all the rows there or ahead until an exception has left the matrix.
THEOREM RunnerInvariance == Spec => []RunnerInv
<1>1. Init => RunnerInv
  BY InitRunnerInv
<1>2. StepsInv /\ RunnerInv /\ [Next]_vars => RunnerInv'
  BY NextRunnerInv
<1> QED BY <1>1, <1>2, StepsInvariance, PTL DEF Spec

\* A run that writes its results has one row for each cell of the matrix, or
\* one for a stack that did not load; and no cell ever has two.
THEOREM OneResult == Spec => []OneResultPerCell
<1>1. StepsInv /\ RunnerInv => OneResultPerCell
  <2>1. SUFFICES ASSUME StepsInv, RunnerInv
                 PROVE  OneResultPerCell
    OBVIOUS
  <2>2. ASSUME NEW i \in 1 .. Len(results), NEW j \in 1 .. Len(results),
               results[i].stack = results[j].stack, results[i].scenario = results[j].scenario
        PROVE  i = j
    <3>1. Key(results[i]) = Key(results[j])
      BY <2>2 DEF Key
    <3> QED BY <2>1, <3>1 DEF RunnerInv, Single
  <2>3. ASSUME job.kind = "runner", Ended, raised = "no", NEW s \in Range(job.stacks)
        PROVE  Row(s, results) \in {{"*"}, Range(Scenarios)}
    <3>1. todo = <<>> /\ 1 .. Len(todo) = {} /\ Len(todo) = 0
      BY <2>3, EmptySeq DEF Ended
    <3>2. ~ Starting
      <4>1. PICK q : q = Matrix(job.stacks) \o Behind
        OBVIOUS
      <4>2. <<ReadReady>> \o q # <<>>
        OBVIOUS
      <4> QED BY <3>1, <4>1, <4>2 DEF Starting
    <3>3. ~ InMatrix
      <4>1. SUFFICES ASSUME InMatrix
                     PROVE  FALSE
        OBVIOUS
      <4>2. PICK steps, noted, rows :
               /\ todo = steps \o (noted \o (rows \o Behind))
               /\ steps \in Seq(Inside) /\ noted \in Notings /\ rows \in Seq(RowSteps)
        BY <4>1, MatrixParts
      <4>3. PICK b, r, q : b = Behind /\ r = rows \o b /\ q = noted \o r
        OBVIOUS
      <4>4. /\ steps \in Seq(Ahead) /\ noted \in Seq(Ahead) /\ rows \in Seq(Ahead) /\ b \in Seq(Ahead)
            /\ Len(b) >= 1
        BY <4>2, <4>3, AroundBuilt, BehindParts
      <4>5. r \in Seq(Ahead) /\ Len(rows) \in Nat /\ Len(b) \in Nat /\ Len(r) = Len(rows) + Len(b)
        BY <4>3, <4>4, Joined
      <4>6. q \in Seq(Ahead) /\ Len(noted) \in Nat /\ Len(q) = Len(noted) + Len(r)
        BY <4>3, <4>4, <4>5, Joined
      <4>7. Len(steps) \in Nat /\ Len(steps \o q) = Len(steps) + Len(q)
        BY <4>4, <4>6, Joined
      <4>8. todo = steps \o q
        BY <4>2, <4>3
      <4>9. Len(steps \o q) = 0
        BY <3>1, <4>8
      <4> QED BY <4>4, <4>5, <4>6, <4>7, <4>9
    <3>4. Finishing
      BY <2>1, <2>3, <3>2, <3>3 DEF RunnerInv
    <3>5. Complete(job.stacks, <<>>, results)
      BY <2>3, <3>4 DEF Finishing
    <3>6. Row(s, results) \cup Due(s, <<>>) \in {{"*"}, Range(Scenarios)}
      <4>1. 1 .. Len(<<>>) = {}
        BY EmptySeq
      <4> QED BY <2>3, <3>5, <4>1 DEF Complete
    <3>7. Due(s, <<>>) = {}
      <4>1. 1 .. Len(<<>>) = {}
        BY EmptySeq
      <4> QED BY <4>1 DEF Due
    <3> QED BY <3>6, <3>7
  <2> QED BY <2>2, <2>3 DEF OneResultPerCell
<1> QED BY <1>1, StepsInvariance, RunnerInvariance, PTL

-----------------------------------------------------------------------------
(* The outcome of pair and of establish_connection. What an action does to  *)
(* the steps ahead, to what is held and to what is known, together.         *)

\* Nothing is done: at most something is lost, and the loss is known.
Idles ==
  /\ Stays /\ paired' = paired /\ held' \subseteq held
  /\ "bluetoothctl" \in held => "bluetoothctl" \in held' \cup failed'
  /\ "channel" \in held /\ "peripheral" \notin held => "channel" \in held' \/ "link" \in failed'

\* A call returns, raises an error, is cancelled, or reads a line.
Returns == GoesOn /\ held' = Effect(Step) /\ paired' = paired

Fails ==
  /\ "error" \in Step.can \/ ~ Possible(Step)
  /\ held' \in Outcomes(Step) /\ paired' = paired
  /\ IF Step.soft THEN GoesOn ELSE Throws("error")

IsCut == "cancel" \in Step.can /\ held' \in Outcomes(Step) /\ paired' = paired /\ Throws("cancel")

Reads ==
  /\ Step.call = "readline" /\ held' = held
  /\ (GoesOn /\ paired' = TRUE) \/ (Asks /\ paired' = paired)

\* A line is sent, or the pipe is broken.
Speaks ==
  /\ held' = held /\ paired' = paired
  /\ GoesOn \/ ("bluetoothctl" \notin held /\ Throws("error"))

Judges == held' = held /\ paired' = paired /\ (IF paired THEN GoesOn ELSE Throws("error"))

Others == held' = held /\ paired' = paired /\ Moves

Acts ==
  /\ job' = job /\ failed \subseteq failed'
  /\ \/ Idles
     \/ /\ todo # <<>>
        /\ \/ Step.kind = "call" /\ (Returns \/ Fails \/ IsCut \/ Reads)
           \/ Step.kind \in {"send", "trust"} /\ Speaks
           \/ Step.kind = "verdict" /\ Judges
           \/ Step.kind \notin {"call", "send", "trust", "verdict"} /\ Others

\* A call of the machine.
LEMMA CallActs ==
  ASSUME Do \/ Refused \/ Fault \/ Interrupt, UNCHANGED programVars
  PROVE  Acts
<1>1. todo # <<>> /\ Step.kind = "call" /\ job' = job /\ paired' = paired
  BY DEF Do, Refused, Fault, Interrupt, At, programVars
<1>2. Continue => GoesOn
  BY <1>1 DEF Continue, GoesOn
<1>3. CASE Do
  <2>1. GoesOn /\ held' = Effect(Step) /\ failed' = failed
    BY <1>2, <1>3 DEF Do, Calm
  <2> QED BY <1>1, <2>1 DEF Returns, Acts
<1>4. CASE Refused \/ Fault
  <2>1. Errs
    BY <1>4 DEF Refused, Fault
  <2>2. IF Step.soft THEN GoesOn ELSE Throws("error")
    BY <1>1, <1>2, <2>1 DEF Errs, Throws
  <2>3. held' \in Outcomes(Step)
    BY <1>4 DEF Refused, Fault, Outcomes
  <2>4. failed \subseteq failed' /\ ("error" \in Step.can \/ ~ Possible(Step))
    BY <1>4 DEF Refused, Fault
  <2> QED BY <1>1, <2>2, <2>3, <2>4 DEF Fails, Acts
<1>5. CASE Interrupt
  <2>1. Throws("cancel")
    BY <1>1, <1>5 DEF Interrupt, Throws
  <2>2. "cancel" \in Step.can /\ held' \in Outcomes(Step) /\ failed \subseteq failed'
    BY <1>5 DEF Interrupt
  <2> QED BY <1>1, <2>1, <2>2 DEF IsCut, Acts
<1> QED BY <1>3, <1>4, <1>5

\* What happens around the program.
LEMMA LossActs ==
  ASSUME PeerLost \/ (\E c \in Children : ChildDies(c)), UNCHANGED programVars
  PROVE  Acts
<1>1. job' = job /\ paired' = paired
  BY DEF programVars
<1>2. ASSUME PeerLost
      PROVE  Acts
  <2>1. /\ Stays /\ failed' = failed \cup {"link"}
        /\ held' = held \ ({} \cup Links \cup {"cccd"})
    BY <1>2 DEF PeerLost, Drop, Stays
  <2>2. "bluetoothctl" \notin {} \cup Links \cup {"cccd"}
    BY DEF Links
  <2> QED BY <1>1, <2>1, <2>2 DEF Idles, Acts
<1>3. ASSUME NEW c \in Children, ChildDies(c)
      PROVE  Acts
  <2>1. Stays /\ failed' = failed \cup {c} /\ c \in held
    BY <1>3 DEF ChildDies, Stays
  <2>2. IF c = "peripheral" THEN held' = held \ ({c, "peer"} \cup Links \cup {"cccd"})
                            ELSE held' = held \ {c}
    BY <1>3 DEF ChildDies, Drop
  <2>3. "bluetoothctl" \notin {"peripheral", "peer"} \cup Links \cup {"cccd"} /\ "channel" \notin Children
    BY DEF Links, Children
  <2>4. CASE c = "peripheral"
    BY <1>1, <2>1, <2>2, <2>3, <2>4 DEF Idles, Acts
  <2>5. CASE c # "peripheral"
    BY <1>1, <2>1, <2>2, <2>3, <2>5 DEF Idles, Acts
  <2> QED BY <2>4, <2>5
<1> QED BY <1>2, <1>3

\* All that the programs without results do.
LEMMA AllAct ==
  ASSUME StepsInv, RunnerInv, job.kind # "runner", [Next]_vars
  PROVE  Acts
<1>1. ~ LoadStack /\ ~ StackFailsToLoad /\ ~ BeginCell /\ ~ Record
  <2>1. todo # <<>> => Step.kind \notin {"record", "cell", "stack"}
    BY RowInMatrix
  <2> QED BY <2>1 DEF LoadStack, StackFailsToLoad, BeginCell, Record, At
<1>2. job' = job /\ Moves
  BY <1>1, AllMove
<1>3. CASE Machine
  <2>1. UNCHANGED programVars /\ Steps
    BY <1>3 DEF Machine
  <2>2. CASE Do \/ Refused \/ Fault
    BY <2>1, <2>2, CallActs
  <2>3. CASE Enter \/ Pass \/ PassUndo \/ Leave \/ Branch \/ Raises
    <3>1. /\ todo # <<>> /\ Step.kind \notin {"call", "send", "trust", "verdict"}
          /\ held' = held /\ failed' = failed
      BY <2>3 DEF Enter, Pass, PassUndo, Leave, Branch, Raises, At, Calm
    <3>2. paired' = paired
      BY <2>1 DEF programVars
    <3> QED BY <1>2, <3>1, <3>2 DEF Others, Acts
  <2> QED BY <2>1, <2>2, <2>3 DEF Steps
<1>4. CASE Send
  <2>1. /\ todo # <<>> /\ Step.kind \in {"send", "trust"}
        /\ held' = held /\ failed' = failed /\ paired' = paired
    BY <1>4 DEF Send, At, programVars
  <2>2. Continue => GoesOn
    BY <2>1 DEF Continue, GoesOn
  <2>3. Unwind(Tail(todo), "error") => Throws("error")
    BY <2>1 DEF Throws
  <2> QED BY <1>2, <1>4, <2>1, <2>2, <2>3 DEF Send, Speaks, Acts
<1>5. CASE SkipTrust
  <2>1. todo # <<>> /\ Step.kind = "trust" /\ GoesOn
    BY <1>5 DEF SkipTrust, At, Continue, GoesOn
  <2>2. held' = held /\ failed' = failed /\ paired' = paired
    BY <1>5 DEF SkipTrust, programVars, Calm
  <2> QED BY <1>2, <2>1, <2>2 DEF Speaks, Acts
<1>6. CASE Succeeds
  <2>1. todo # <<>> /\ Step.kind = "call" /\ Step.call = "readline" /\ GoesOn
    BY <1>6 DEF Succeeds, Reading, At, Continue, GoesOn
  <2>2. held' = held /\ failed' = failed /\ paired' = TRUE
    BY <1>6 DEF Succeeds, Calm
  <2>3. Reads
    BY <2>1, <2>2 DEF Reads
  <2> QED BY <1>2, <2>1, <2>2, <2>3 DEF Acts
<1>7. CASE Prompted
  <2>1. todo # <<>> /\ Step.kind = "call" /\ Step.call = "readline" /\ Asks
    BY <1>7 DEF Prompted, Reading, At, Asks, Answer
  <2>2. held' = held /\ failed' = failed /\ paired' = paired
    BY <1>7 DEF Prompted, programVars, Calm
  <2> QED BY <1>2, <2>1, <2>2 DEF Reads, Acts
<1>8. CASE Judge
  <2>1. /\ todo # <<>> /\ Step.kind = "verdict"
        /\ held' = held /\ failed' = failed /\ paired' = paired
    BY <1>8 DEF Judge, Verdict, At, programVars, Calm
  <2>2. Continue => GoesOn
    BY <2>1 DEF Continue, GoesOn
  <2>3. Unwind(Tail(todo), "error") => Throws("error")
    BY <2>1 DEF Throws
  <2> QED BY <1>2, <1>8, <2>1, <2>2, <2>3 DEF Judge, Verdict, Judges, Acts
<1>9. CASE (Interrupt \/ PeerLost \/ \E c \in Children : ChildDies(c)) /\ UNCHANGED programVars
  BY <1>9, CallActs, LossActs
<1>10. CASE UNCHANGED vars
  <2>1. Stays /\ held' = held /\ failed' = failed /\ paired' = paired
    BY <1>10 DEF vars, machineVars, programVars, Stays
  <2> QED BY <1>2, <2>1 DEF Idles, Acts
<1> QED BY <1>1, <1>3, <1>4, <1>5, <1>6, <1>7, <1>8, <1>9, <1>10 DEF Next, Proceeds, Happens

\* A third element behind two, and a fifth behind four.
LEMMA TwoAppended ==
  ASSUME NEW S, NEW a \in S, NEW b \in S, NEW c \in S
  PROVE  Append(<<a, b>>, c) = <<a, b, c>>
<1>1. PICK p, l : p = <<a, b>> /\ l = <<a, b, c>>
  OBVIOUS
<1>2. p \in Seq(S) /\ Len(p) = 2 /\ p[1] = a /\ p[2] = b
  BY <1>1
<1>3. l \in Seq(S) /\ Len(l) = 3 /\ l[1] = a /\ l[2] = b /\ l[3] = c
  BY <1>1
<1>4. PICK t : t = Append(p, c)
  OBVIOUS
<1>5. /\ t \in Seq(S) /\ Len(t) = Len(p) + 1
      /\ \A i \in 1 .. Len(p) : t[i] = p[i]
      /\ t[Len(p) + 1] = c
  <2>1. p \in Seq(S)
    BY <1>2
  <2>2. /\ Append(p, c) \in Seq(S) /\ Len(Append(p, c)) = Len(p) + 1
        /\ \A i \in 1 .. Len(p) : Append(p, c)[i] = p[i]
        /\ Append(p, c)[Len(p) + 1] = c
    BY <2>1, AppendProperties
  <2> QED BY <1>4, <2>2
<1>6. t[1] = a /\ t[2] = b /\ t[3] = c /\ Len(t) = 3
  <2>1. 1 \in 1 .. Len(p) /\ 2 \in 1 .. Len(p) /\ Len(p) + 1 = 3
    BY <1>2
  <2> QED BY <1>2, <1>5, <2>1
<1>7. \A i \in 1 .. Len(t) : t[i] = l[i]
  BY <1>3, <1>6
<1>8. t = l
  BY <1>3, <1>5, <1>6, <1>7, SeqEqual
<1> QED BY <1>1, <1>4, <1>8

\* See above.
LEMMA FourAppended ==
  ASSUME NEW S, NEW a \in S, NEW b \in S, NEW c \in S, NEW d \in S, NEW e \in S
  PROVE  Append(<<a, b, c, d>>, e) = <<a, b, c, d, e>>
<1>1. PICK p, l : p = <<a, b, c, d>> /\ l = <<a, b, c, d, e>>
  OBVIOUS
<1>2. p \in Seq(S) /\ Len(p) = 4 /\ p[1] = a /\ p[2] = b /\ p[3] = c /\ p[4] = d
  BY <1>1
<1>3. l \in Seq(S) /\ Len(l) = 5 /\ l[1] = a /\ l[2] = b /\ l[3] = c /\ l[4] = d /\ l[5] = e
  BY <1>1
<1>4. PICK t : t = Append(p, e)
  OBVIOUS
<1>5. /\ t \in Seq(S) /\ Len(t) = Len(p) + 1
      /\ \A i \in 1 .. Len(p) : t[i] = p[i]
      /\ t[Len(p) + 1] = e
  <2>1. p \in Seq(S)
    BY <1>2
  <2>2. /\ Append(p, e) \in Seq(S) /\ Len(Append(p, e)) = Len(p) + 1
        /\ \A i \in 1 .. Len(p) : Append(p, e)[i] = p[i]
        /\ Append(p, e)[Len(p) + 1] = e
    BY <2>1, AppendProperties
  <2> QED BY <1>4, <2>2
<1>6. t[1] = a /\ t[2] = b /\ t[3] = c /\ t[4] = d /\ t[5] = e /\ Len(t) = 5
  <2>1. 1 \in 1 .. Len(p) /\ 2 \in 1 .. Len(p) /\ 3 \in 1 .. Len(p) /\ 4 \in 1 .. Len(p) /\ Len(p) + 1 = 5
    BY <1>2
  <2> QED BY <1>2, <1>5, <2>1
<1>7. \A i \in 1 .. Len(t) : t[i] = l[i]
  BY <1>3, <1>6
<1>8. t = l
  BY <1>3, <1>5, <1>6, <1>7, SeqEqual
<1> QED BY <1>1, <1>4, <1>8

\* The steps of an attempt.
LEMMA AttemptSteps ==
  /\ AttemptBlock.kind = "block"
  /\ AttemptBlock.inner = <<BluekConnect[1], Connecting, DiscoverBlock, Raise("return"), AttemptBlock.inner[5]>>
  /\ AttemptBlock.inner[5] = Mark("except", <<BluekTeardown, Wait("sleep")>>)
  /\ DiscoverBlock.kind = "block"
  /\ DiscoverBlock.inner = <<Request("connect_mtu"), Request("connect_discover"), Mark("undo", <<BluekTeardown>>)>>
<1>1. PICK m, u : /\ m = Maybe(<< Getting({"mgmt"}, Sync("mgmt.open")),
                                  Finally(<<StartDiscovery("prescan"), Wait("seen")>>,
                                          StopAndClose("end_prescan")) >>)
                  /\ u = Undo(<<Request("connect_mtu"), Request("connect_discover")>>, <<BluekTeardown>>)
  OBVIOUS
<1>2. PICK c, r, x : c = Connecting /\ r = Raise("return") /\ x = Mark("except", <<BluekTeardown, Wait("sleep")>>)
  OBVIOUS
<1>3. BluekConnect = <<m, c, u>>
  BY <1>1, <1>2 DEF BluekConnect
<1>4. BluekConnect[1] = m /\ DiscoverBlock = u
  BY <1>3 DEF DiscoverBlock
<1>5. PICK S : S = {m, c, u, r, x}
  OBVIOUS
<1>6. Append(<<m, c, u>>, r) = <<m, c, u, r>>
  BY <1>5, ThreeAppended
<1>7. Append(<<m, c, u, r>>, x) = <<m, c, u, r, x>>
  BY <1>5, FourAppended
<1>8. Append(Append(BluekConnect, r), x) = <<m, c, u, r, x>>
  BY <1>3, <1>6, <1>7
<1>9. AttemptBlock = [kind |-> "block", inner |-> <<m, c, u, r, x>>]
  <2>1. AttemptBlock = Except(Append(BluekConnect, r), <<BluekTeardown, Wait("sleep")>>)
    BY <1>2 DEF AttemptBlock, Attempt
  <2>2. AttemptBlock = Block(Append(Append(BluekConnect, r), x))
    BY <1>2, <2>1 DEF Except
  <2> QED BY <1>8, <2>2 DEF Block
<1>10. AttemptBlock.kind = "block" /\ AttemptBlock.inner = <<m, c, u, r, x>>
  BY <1>9
<1>11. AttemptBlock.inner[5] = x
  BY <1>10
<1>12. PICK a, b, d : a = Request("connect_mtu") /\ b = Request("connect_discover") /\ d = Mark("undo", <<BluekTeardown>>)
  OBVIOUS
<1>13. Append(<<a, b>>, d) = <<a, b, d>>
  <2>1. PICK T : T = {a, b, d}
    OBVIOUS
  <2> QED BY <2>1, TwoAppended
<1>14. u = [kind |-> "block", inner |-> <<a, b, d>>]
  <2>1. u = Block(Append(<<a, b>>, d))
    BY <1>1, <1>12 DEF Undo
  <2> QED BY <1>13, <2>1 DEF Block
<1>15. u.kind = "block" /\ u.inner = <<a, b, d>>
  BY <1>14
<1> QED BY <1>2, <1>4, <1>10, <1>11, <1>12, <1>15

\* Its calls.
LEMMA AttemptCalls ==
  /\ \A c \in {Opening("client_class"), Connecting, Request("connect_mtu"), Request("connect_discover"),
               BluekTeardown, Wait("sleep")} :
       c.kind = "call" /\ c.call # "readline" /\ ~ c.soft /\ ~ c.late
  /\ \A c \in {Opening("client_class"), Request("connect_mtu"), Request("connect_discover"), Wait("sleep")} :
       c.gets = {} /\ c.frees = {}
  /\ Connecting.gets = {"channel"} /\ Connecting.frees = {}
  /\ BluekTeardown.gets = {} /\ "channel" \in BluekTeardown.frees
  /\ BluekTeardown.can = {} /\ Wait("sleep").can = {"cancel"}
  /\ \A c \in {BluekTeardown, Wait("sleep")} : c.needs = {} /\ c.bars = {}
<1>1. PICK o : o = Opening("client_class")
  OBVIOUS
<1>2. o.kind = "call" /\ o.call # "readline" /\ ~ o.soft /\ ~ o.late /\ o.gets = {} /\ o.frees = {}
  BY <1>1 DEF Opening, Call
<1>3. PICK c : c = Connecting
  OBVIOUS
<1>4. c.kind = "call" /\ c.call # "readline" /\ ~ c.soft /\ ~ c.late /\ c.gets = {"channel"} /\ c.frees = {}
  BY <1>3 DEF Connecting, Needing, BarredBy, Getting, Await, Call
<1>5. ASSUME NEW n \in {"connect_mtu", "connect_discover"}, NEW r, r = Request(n)
      PROVE  r.kind = "call" /\ r.call # "readline" /\ ~ r.soft /\ ~ r.late /\ r.gets = {} /\ r.frees = {}
  BY <1>5 DEF Request, Needing, Await, Call
<1>6. PICK t : t = BluekTeardown
  OBVIOUS
<1>7. /\ t.kind = "call" /\ t.call # "readline" /\ ~ t.soft /\ ~ t.late
      /\ t.gets = {} /\ "channel" \in t.frees /\ t.can = {} /\ t.needs = {} /\ t.bars = {}
  BY <1>6 DEF BluekTeardown, Freeing, Sync, Call
<1>8. PICK w : w = Wait("sleep")
  OBVIOUS
<1>9. /\ w.kind = "call" /\ w.call # "readline" /\ ~ w.soft /\ ~ w.late
      /\ w.gets = {} /\ w.frees = {} /\ w.can = {"cancel"} /\ w.needs = {} /\ w.bars = {}
  BY <1>8 DEF Wait, Call
<1> QED BY <1>1, <1>2, <1>3, <1>4, <1>5, <1>6, <1>7, <1>8, <1>9

\* All of them may be ahead.
LEMMA AttemptBuilt ==
  /\ {Opening("client_class"), AttemptBlock, Raise("error")} \subseteq Ahead
  /\ {BluekConnect[1], Connecting, DiscoverBlock, Raise("return"), AttemptBlock.inner[5], End("no"),
      Request("connect_mtu"), Request("connect_discover"), Mark("undo", <<BluekTeardown>>),
      BluekTeardown, Wait("sleep")} \subseteq Ahead
  /\ AfterConnect \in Seq(Ahead) /\ <<Connecting, DiscoverBlock>> \o AfterConnect \in Seq(Ahead)
<1>1. {"client_class", "sleep", "connect_mtu", "connect_discover"} \subseteq CallNames
  BY DEF CallNames
<1>2. /\ Opening("client_class") \in Ahead /\ Wait("sleep") \in Ahead
      /\ Request("connect_mtu") \in Ahead /\ Request("connect_discover") \in Ahead
  BY <1>1, SharedCalls, CallsBuilt, Levels
<1>3. AttemptBlock \in Ahead
  <2>1. AttemptBlock \in Nest(Returning)
    BY EstablishBuilt DEF AttemptBlock, Attempt
  <2> QED BY <2>1, Levels, NestGrows DEF Planned
<1>4. Raise("error") \in Ahead /\ Raise("return") \in Ahead
  BY Levels DEF Returning, Level0
<1>5. BluekTeardown \in CleanCalls /\ BluekTeardown \in Ahead
  BY BluekConnectBuilt, Levels
<1>6. /\ BluekConnect[1] \in Ahead /\ DiscoverBlock \in Ahead /\ Connecting \in Ahead
  <2>1. BluekConnect \in Seq(Ahead) /\ Level2 \subseteq Ahead
    BY BluekConnectBuilt, Levels, SeqMonotonic
  <2>2. Len(BluekConnect) = 3
    BY DEF BluekConnect
  <2>3. PICK b : b = BluekConnect
    OBVIOUS
  <2>4. b \in Seq(Ahead) /\ 1 \in 1 .. Len(b) /\ 3 \in 1 .. Len(b)
    BY <2>1, <2>2, <2>3
  <2>5. b[1] \in Ahead /\ b[3] \in Ahead
    BY <2>4, ElementOfSeq
  <2>6. Connecting \in Ahead
    BY SharedCalls, Levels
  <2> QED BY <2>3, <2>5, <2>6 DEF DiscoverBlock
<1>7. /\ Mark("undo", <<BluekTeardown>>) \in Ahead
      /\ Mark("except", <<BluekTeardown, Wait("sleep")>>) \in Ahead
  <2>1. <<BluekTeardown>> \in Seq(Cleanup)
    BY <1>5, Levels
  <2>2. Wait("sleep") \in Cleanup
    BY <1>1, CleanBuilt, Levels
  <2>3. <<BluekTeardown, Wait("sleep")>> \in Seq(Cleanup)
    BY <1>5, <2>2, Levels
  <2> QED BY <2>1, <2>3 DEF Mark, Marks, Ahead
<1>8. AttemptBlock.inner[5] \in Ahead
  BY <1>7, AttemptSteps
<1>9. End("no") \in Ahead
  BY DEF End, Ends, Kinds, Ahead
<1>10. AfterConnect \in Seq(Ahead)
  BY <1>4, <1>8, <1>9 DEF AfterConnect
<1>11. <<Connecting, DiscoverBlock>> \in Seq(Ahead)
  BY <1>6
<1>12. <<Connecting, DiscoverBlock>> \o AfterConnect \in Seq(Ahead)
  BY <1>10, <1>11, ConcatProperties
<1> QED BY <1>2, <1>3, <1>4, <1>5, <1>6, <1>7, <1>8, <1>9, <1>10, <1>12

\* Attempts that are ahead: a call, a block, or the error behind the last.
LEMMA AttemptsAhead ==
  ASSUME NEW r, Attempts(r)
  PROVE  /\ r \in Seq(Ahead) /\ r # <<>>
         /\ \A i \in 1 .. Len(r) : r[i].kind \in {"call", "block", "raise"}
         /\ Head(r) = r[1]
         /\ \/ r[1] \in {Opening("client_class"), AttemptBlock} /\ Attempts(Tail(r))
            \/ r[1] = Raise("error")
         /\ \A i \in 1 .. Len(Tail(r)) : Tail(r)[i].kind \in {"call", "block", "raise"}
<1>1. PICK S : S = {Opening("client_class"), AttemptBlock, Raise("error")}
  OBVIOUS
<1>2. r \in Seq(S) /\ r # <<>> /\ r[Len(r)] = Raise("error")
  BY <1>1 DEF Attempts
<1>3. S \subseteq Ahead
  BY <1>1, AttemptBuilt
<1>4. r \in Seq(Ahead)
  BY <1>2, <1>3, SeqMonotonic
<1>5. ASSUME NEW s \in S
      PROVE  s.kind \in {"call", "block", "raise"}
  <2>1. Raise("error").kind = "raise"
    BY DEF Raise
  <2> QED BY <1>1, <2>1, AttemptSteps, AttemptCalls
<1>6. /\ Len(r) \in Nat /\ Len(r) >= 1 /\ Head(r) = r[1] /\ r[1] \in S
      /\ Tail(r) \in Seq(S) /\ Without(Tail(r), r, 1)
  BY <1>2, HeadAndTail
<1>7. \A i \in 1 .. Len(r) : r[i].kind \in {"call", "block", "raise"}
  BY <1>2, <1>5, ElementOfSeq
<1>8. PICK t : t = Tail(r)
  OBVIOUS
<1>9. t \in Seq(S) /\ Len(t) = Len(r) - 1 /\ \A i \in 1 .. Len(t) : t[i] = r[1 + i]
  BY <1>6, <1>8 DEF Without
<1>10. \A i \in 1 .. Len(t) : t[i].kind \in {"call", "block", "raise"}
  BY <1>5, <1>9, ElementOfSeq
<1>11. CASE r[1] # Raise("error")
  <2>1. Len(r) # 1
    BY <1>2, <1>11
  <2>2. Len(t) \in 1 .. Len(t) /\ 1 + Len(t) = Len(r)
    BY <1>6, <1>9, <2>1
  <2>3. t[Len(t)] = Raise("error")
    BY <1>2, <1>9, <2>2
  <2>4. t # <<>>
    <3>1. 1 .. Len(<<>>) = {}
      BY EmptySeq
    <3> QED BY <2>2, <3>1
  <2>5. Attempts(t)
    BY <1>1, <1>9, <2>3, <2>4 DEF Attempts
  <2> QED BY <1>1, <1>4, <1>6, <1>7, <1>8, <1>10, <1>11, <2>5, <1>2
<1> QED BY <1>2, <1>4, <1>6, <1>7, <1>8, <1>10, <1>11

\* The attempts behind a and b.
LEMMA TryingParts ==
  ASSUME NEW a, NEW b, Trying(a, b)
  PROVE  \E r : Attempts(r) /\ todo = a \o (b \o r)
BY DEF Trying

\* They are still behind what comes in the place of a and b.
LEMMA TryingAgain ==
  ASSUME NEW a \in Seq(Ahead), NEW b \in Seq(Ahead), NEW r, Attempts(r), todo' = a \o (b \o r)
  PROVE  Trying(a, b)'
<1>1. r \in Seq(Ahead)
  BY AttemptsAhead
<1>2. PICK c, t, e : c = a \o b /\ t = a \o (b \o r) /\ e = <<>>
  OBVIOUS
<1>3. c \in Seq(Ahead) /\ Len(c) \in Nat /\ Len(r) \in Nat
  <2>1. a \o b \in Seq(Ahead)
    BY ConcatProperties
  <2> QED BY <1>1, <1>2, <2>1, LenProperties
<1>4. t = c \o r
  BY <1>1, <1>2, Regrouped
<1>5. Len(t) = Len(c) + Len(r)
  <2>1. Len(c \o r) = Len(c) + Len(r)
    BY <1>1, <1>3, ConcatProperties
  <2> QED BY <1>4, <2>1
<1>6. r \o e = r /\ e \in Seq(Ahead)
  BY <1>1, <1>2, ConcatEmptySeq, EmptySeq
<1>7. SubSeq(c \o (r \o e), Len(c) + 1, Len(c) + Len(r)) = r
  BY <1>1, <1>3, <1>6, Between
<1>8. SubSeq(t, Len(c) + 1, Len(t)) = r
  BY <1>4, <1>5, <1>6, <1>7
<1>9. Len(c) \in 0 .. Len(t)
  BY <1>3, <1>5
<1>10. \E i \in 0 .. Len(t) : LET q == SubSeq(t, i + 1, Len(t)) IN Attempts(q) /\ t = a \o (b \o q)
  BY <1>2, <1>8, <1>9
<1>11. todo' = t
  BY <1>2
<1> QED BY <1>10, <1>11 DEF Trying

\* An exception with nothing ahead that it lands in.
LEMMA Uncaught ==
  ASSUME NEW t, NEW how, Unwind(t, how),
         \A i \in 1 .. Len(t) : ~ Lands(t[i], how)
  PROVE  todo' = <<>> /\ raised' = how
BY DEF Unwind

\* What can come of a call that is neither soft nor late.
LEMMA Called ==
  ASSUME Acts, todo # <<>>, NEW s, s = Step, s.kind = "call", s.call # "readline", ~ s.soft, ~ s.late,
         NEW t, t = Tail(todo)
  PROVE  \/ Idles
         \/ todo' = t /\ raised' = raised /\ held' = (held \cup s.gets) \ s.frees
         \/ \E how \in {"error", "cancel"} :
              /\ held' = held /\ Unwind(t, how)
              /\ IF how = "cancel" THEN "cancel" \in s.can ELSE "error" \in s.can \/ ~ Possible(s)
<1>1. Outcomes(Step) = {held}
  BY DEF Outcomes
<1>2. CASE Returns
  BY <1>2 DEF Returns, GoesOn, Effect
<1>3. CASE Fails
  <2>1. held' = held /\ Throws("error") /\ ("error" \in s.can \/ ~ Possible(s))
    BY <1>1, <1>3 DEF Fails
  <2>2. Unwind(t, "error")
    BY <2>1 DEF Throws, Unwind
  <2> QED BY <2>1, <2>2
<1>4. CASE IsCut
  <2>1. held' = held /\ Throws("cancel") /\ "cancel" \in s.can
    BY <1>1, <1>4 DEF IsCut
  <2>2. Unwind(t, "cancel")
    BY <2>1 DEF Throws, Unwind
  <2> QED BY <2>1, <2>2
<1>5. ~ Reads
  BY DEF Reads
<1> QED BY <1>2, <1>3, <1>4, <1>5 DEF Acts

\* What can come of a step that is no call.
LEMMA Uncalled ==
  ASSUME Acts, todo # <<>>, NEW s, s = Step, s.kind \in {"block", "finally", "undo", "except", "end", "raise"},
         NEW t, t = Tail(todo)
  PROVE  \/ Idles
         \/ /\ held' = held
            /\ s.kind \in {"finally", "undo", "except"} => todo' = t /\ raised' = raised
            /\ s.kind = "block" => todo' = s.inner \o <<End(raised)>> \o t /\ raised' = "no"
            /\ s.kind = "end" =>
                 IF raised = "no" THEN todo' = t /\ raised' = s.saved ELSE Unwind(t, raised)
            /\ s.kind = "raise" => Unwind(t, s.how)
<1>1. CASE Others
  <2>1. held' = held /\ paired' = paired /\ Moves
    BY <1>1 DEF Others
  <2>2. CASE Stays
    <3>1. Idles
      BY <2>1, <2>2 DEF Idles
    <3> QED BY <3>1
  <2>3. CASE GoesOn
    BY <2>1, <2>3 DEF GoesOn
  <2>4. CASE Opens
    BY <2>1, <2>4 DEF Opens
  <2>5. CASE Closes
    BY <2>1, <2>5 DEF Closes
  <2>6. ~ Turns /\ ~ Asks
    BY DEF Turns, Asks
  <2>7. ASSUME NEW how \in {"error", "cancel", "return"}, Throws(how)
        PROVE  /\ s.kind \in {"end", "raise"} /\ Unwind(t, how)
               /\ s.kind = "end" => raised # "no" /\ how = raised
               /\ s.kind = "raise" => how = s.how
    <3>1. Unwind(Tail(todo), how)
      BY <2>7 DEF Throws
    <3>2. Unwind(t, how)
      BY <3>1 DEF Unwind
    <3> QED BY <2>7, <3>2 DEF Throws
  <2> QED BY <2>1, <2>2, <2>3, <2>4, <2>5, <2>6, <2>7 DEF Moves
<1> QED BY <1>1 DEF Acts

\* The steps of a prescan lead to no others, and get no link.
LEMMA PrescanContained ==
  /\ SelfContained(PrescanSteps)
  /\ \A s \in PrescanSteps : s.kind = "call" => s.gets \subseteq {"mgmt", "discovery"} /\ s.call # "readline"
<1>1. PICK A, B, C : A = Blocks(QuietSteps) /\ B = Blocks(A) /\ C = Blocks(B)
  OBVIOUS
<1>2. QuietSteps \subseteq A /\ A \subseteq B /\ B \subseteq C /\ PrescanSteps = Inside \cap C
  BY <1>1 DEF Blocks, PrescanSteps
<1>3. ASSUME NEW s \in QuietSteps
      PROVE  /\ s.kind \notin {"block", "maybe"}
             /\ s.kind = "call" => s.gets \subseteq {"mgmt", "discovery"} /\ s.call # "readline"
             /\ s.kind \in {"finally", "undo", "except"} => s.handler = <<>>
  <2>1. CASE s \in Calls
    <3>1. s.kind = "call"
      BY <2>1 DEF Calls
    <3>2. s \notin Ends /\ s # Mark("finally", <<>>)
      BY <3>1 DEF Ends, Mark
    <3> QED BY <1>3, <3>1, <3>2 DEF QuietSteps
  <2>2. CASE s = Mark("finally", <<>>)
    BY <2>2 DEF Mark
  <2>3. CASE s \in Ends
    BY <2>3 DEF Ends
  <2> QED BY <1>3, <2>1, <2>2, <2>3 DEF QuietSteps
<1>4. ASSUME NEW s \in C
      PROVE  /\ s.kind \in {"block", "maybe"} => s.inner \in Seq(C)
             /\ s \in QuietSteps \/ s.kind \in {"block", "maybe"}
  <2>1. Seq(QuietSteps) \subseteq Seq(C) /\ Seq(A) \subseteq Seq(C) /\ Seq(B) \subseteq Seq(C)
    BY <1>2, SeqMonotonic
  <2>2. CASE s \in QuietSteps
    BY <1>3, <2>2
  <2>3. ASSUME NEW T, Seq(T) \subseteq Seq(C), s \in [kind : {"block", "maybe"}, inner : Seq(T)]
        PROVE  s.kind \in {"block", "maybe"} /\ s.inner \in Seq(C)
    BY <2>3
  <2>4. s \in QuietSteps \/ \E T \in {QuietSteps, A, B} : s \in [kind : {"block", "maybe"}, inner : Seq(T)]
    BY <1>1 DEF Blocks
  <2> QED BY <2>1, <2>2, <2>3, <2>4
<1>5. PICK S : S = PrescanSteps
  OBVIOUS
<1>6. S \subseteq Inside /\ S \subseteq C
  BY <1>2, <1>5
<1>7. ASSUME NEW s \in S
      PROVE  /\ s.kind \in {"block", "maybe"} => s.inner \in Seq(S)
             /\ s.kind \in {"finally", "undo", "except"} => s.handler \in Seq(S)
             /\ s.kind = "raise" => s.how = "error"
             /\ s.kind = "end" => s.saved # "return"
             /\ s.kind = "call" => s.gets \subseteq {"mgmt", "discovery"} /\ s.call # "readline"
  <2>1. s \in Inside /\ s \in C
    BY <1>6
  <2>2. /\ s.kind \in {"block", "maybe"} => s.inner \in Seq(Inside)
        /\ s.kind = "raise" => s.how = "error"
        /\ s.kind = "end" => s.saved # "return"
    BY <2>1, InsideContained DEF SelfContained
  <2>3. ASSUME s.kind \in {"block", "maybe"}
        PROVE  s.inner \in Seq(S)
    <3>1. PICK t : t = s.inner
      OBVIOUS
    <3>2. t \in Seq(Inside) /\ t \in Seq(C)
      BY <1>4, <2>1, <2>2, <2>3, <3>1
    <3>3. \A i \in 1 .. Len(t) : t[i] \in S
      <4>1. ASSUME NEW i \in 1 .. Len(t)
            PROVE  t[i] \in S
        <5>1. t[i] \in Inside
          BY <3>2, ElementOfSeq
        <5>2. t[i] \in C
          BY <3>2, ElementOfSeq
        <5> QED BY <1>2, <1>5, <5>1, <5>2
      <4> QED BY <4>1
    <3>4. t \in Seq(S)
      <4>1. Len(t) \in Nat /\ t = [i \in 1 .. Len(t) |-> t[i]]
        BY <3>2, LenProperties
      <4> QED BY <3>3, <4>1, FunctionIsSeq
    <3> QED BY <3>1, <3>4
  <2>4. s.kind \in {"finally", "undo", "except"} => s.handler \in Seq(S)
    <3>1. <<>> \in Seq(S)
      BY EmptySeq
    <3> QED BY <1>3, <1>4, <2>1, <3>1
  <2> QED BY <1>3, <1>4, <2>1, <2>2, <2>3, <2>4
<1>8. [kind : {"end"}, saved : Kinds \ {"return"}] \subseteq S
  <2>1. [kind : {"end"}, saved : Kinds \ {"return"}] \subseteq Ends
    BY DEF Ends
  <2>2. Ends \subseteq C
    BY <1>2 DEF QuietSteps
  <2>3. [kind : {"end"}, saved : Kinds \ {"return"}] \subseteq Inside
    BY DEF Inside
  <2> QED BY <1>2, <1>5, <2>1, <2>2, <2>3
<1>9. S \subseteq Ahead
  BY <1>6, InsideContained DEF SelfContained
<1>10. SelfContained(S)
  BY <1>7, <1>8, <1>9 DEF SelfContained
<1> QED BY <1>5, <1>7, <1>10

\* A prescan is one of them.
LEMMA PrescanBuilt == BluekConnect[1] \in PrescanSteps
<1>1. PICK m, f, g : /\ g = Getting({"mgmt"}, Sync("mgmt.open"))
                     /\ f = Finally(<<StartDiscovery("prescan"), Wait("seen")>>, StopAndClose("end_prescan"))
                     /\ m = Maybe(<<g, f>>)
  OBVIOUS
<1>2. BluekConnect[1] = m
  BY <1>1 DEF BluekConnect
<1>3. {"mgmt.open", "prescan", "seen", "end_prescan", "mgmt.close"} \subseteq CallNames
  BY DEF CallNames
<1>4. PICK A, B, C : A = Blocks(QuietSteps) /\ B = Blocks(A) /\ C = Blocks(B)
  OBVIOUS
<1>5. QuietSteps \subseteq A /\ A \subseteq B /\ B \subseteq C /\ PrescanSteps = Inside \cap C
  BY <1>4 DEF Blocks, PrescanSteps
<1>6. Mark("finally", <<>>) \in QuietSteps
  BY DEF QuietSteps
<1>7. g \in QuietSteps
  <2>1. g \in Calls /\ g.call = "mgmt.open" /\ g.gets = {"mgmt"}
    <3>1. g.call = "mgmt.open" /\ g.gets = {"mgmt"}
      BY <1>1 DEF Getting, Sync, Call
    <3>2. g \in Calls
      BY <1>1, <1>3, CallsBuilt, ResourcesNamed
    <3> QED BY <3>1, <3>2
  <2> QED BY <2>1 DEF QuietSteps
<1>8. StartDiscovery("prescan") \in QuietSteps /\ Wait("seen") \in QuietSteps
  <2>1. PICK s, w : s = StartDiscovery("prescan") /\ w = Wait("seen")
    OBVIOUS
  <2>2. s \in Calls /\ w \in Calls
    BY <1>3, <2>1, SharedCalls, CallsBuilt
  <2>3. s.call = "prescan" /\ s.gets = {"discovery"}
    BY <2>1 DEF StartDiscovery, Late, Getting, Await, Call
  <2>4. w.call = "seen" /\ w.gets = {}
    BY <2>1 DEF Wait, Call
  <2> QED BY <2>1, <2>2, <2>3, <2>4 DEF QuietSteps
<1>9. StopDiscovery("end_prescan") \in QuietSteps /\ CloseMgmt \in QuietSteps
  <2>1. PICK s, w : s = StopDiscovery("end_prescan") /\ w = CloseMgmt
    OBVIOUS
  <2>2. s \in Calls /\ w \in Calls
    BY <1>3, <2>1, SharedCalls, Levels
  <2>3. s.call = "end_prescan" /\ s.gets = {}
    BY <2>1 DEF StopDiscovery, Soft, Late, Freeing, Await, Call
  <2>4. w.call = "mgmt.close" /\ w.gets = {}
    BY <2>1 DEF CloseMgmt, Freeing, Sync, Call
  <2> QED BY <2>1, <2>2, <2>3, <2>4 DEF QuietSteps
<1>10. ASSUME NEW S, NEW p \in Seq(S), NEW q \in Seq(S), Mark("finally", <<>>) \in S
       PROVE  Finally(p, q) \in Blocks(S)
  <2>1. PICK k : k = <<Mark("finally", <<>>)>>
    OBVIOUS
  <2>2. k \in Seq(S)
    BY <1>10, <2>1
  <2>3. p \o k \in Seq(S)
    BY <2>2, ConcatProperties
  <2>4. (p \o k) \o q \in Seq(S)
    BY <2>3, ConcatProperties
  <2>5. Finally(p, q) = [kind |-> "block", inner |-> (p \o k) \o q]
    BY <2>1 DEF Finally, Block
  <2> QED BY <2>4, <2>5 DEF Blocks
<1>11. StopAndClose("end_prescan") \in Seq(A)
  <2>1. <<StopDiscovery("end_prescan")>> \in Seq(QuietSteps) /\ <<CloseMgmt>> \in Seq(QuietSteps)
    BY <1>9
  <2>2. Finally(<<StopDiscovery("end_prescan")>>, <<CloseMgmt>>) \in A
    BY <1>4, <1>6, <1>10, <2>1
  <2> QED BY <2>2 DEF StopAndClose
<1>12. f \in B
  <2>1. <<StartDiscovery("prescan"), Wait("seen")>> \in Seq(A)
    BY <1>5, <1>8
  <2>2. Mark("finally", <<>>) \in A
    BY <1>5, <1>6
  <2> QED BY <1>1, <1>4, <1>10, <1>11, <2>1, <2>2
<1>13. m \in C
  <2>1. <<g, f>> \in Seq(B)
    BY <1>5, <1>7, <1>12
  <2> QED BY <1>1, <1>4, <2>1 DEF Maybe, Blocks
<1>14. m \in Inside
  <2>1. PICK b : b = BluekConnect
    OBVIOUS
  <2>2. Len(BluekConnect) = 3
    BY DEF BluekConnect
  <2>3. b \in Seq(Level2) /\ 1 \in 1 .. Len(b)
    BY <2>1, <2>2, BluekConnectBuilt
  <2>4. b[1] \in Level2
    BY <2>3, ElementOfSeq
  <2> QED BY <1>2, <2>1, <2>4, Levels DEF Inside
<1> QED BY <1>2, <1>5, <1>13, <1>14

\* Three elements and one more.
LEMMA ThreeAndOne ==
  ASSUME NEW S, NEW a \in S, NEW b \in S, NEW c \in S, NEW d \in S
  PROVE  <<a, b, c>> \o <<d>> = <<a, b, c, d>>
<1>1. PICK p, q : p = <<a, b, c>> /\ q = <<d>>
  OBVIOUS
<1>2. p \in Seq(S)
  BY <1>1
<1>3. Append(p, d) = p \o <<d>>
  BY <1>2, AppendIsConcat
<1>4. Append(p, d) = <<a, b, c, d>>
  BY <1>1, ThreeAppended
<1> QED BY <1>1, <1>3, <1>4

\* What is beyond the last element but one.
LEMMA LastLeft ==
  ASSUME NEW S, NEW a \in Seq(S), NEW n \in Nat \ {0}, Len(a) = n + 1
  PROVE  SubSeq(a, n + 1, Len(a)) = <<a[n + 1]>>
<1>1. PICK u, e, l : u = SubSeq(a, n + 1, Len(a)) /\ e = a[n + 1] /\ l = <<e>>
  OBVIOUS
<1>2. n \in 1 .. Len(a) /\ n + 1 \in 1 .. Len(a)
  OBVIOUS
<1>3. u \in Seq(S) /\ Len(u) = Len(a) - n /\ \A i \in 1 .. Len(u) : u[i] = a[n + i]
  BY <1>1, <1>2, Beyond DEF Without
<1>4. e \in S
  BY <1>1, <1>2, ElementOfSeq
<1>5. l \in Seq(S) /\ Len(l) = 1 /\ l[1] = e
  BY <1>1, <1>4
<1>6. Len(u) = 1 /\ 1 \in 1 .. Len(u)
  BY <1>3
<1>7. u[1] = e
  BY <1>1, <1>3, <1>6
<1>8. \A i \in 1 .. Len(u) : u[i] = l[i]
  BY <1>5, <1>6, <1>7
<1>9. u = l
  BY <1>3, <1>5, <1>6, <1>8, SeqEqual
<1> QED BY <1>1, <1>9

SixAhead(m, c, u, r, x, e) == m \in Ahead /\ c \in Ahead /\ u \in Ahead /\ r \in Ahead /\ x \in Ahead /\ e \in Ahead

Regroups(m, c, u, r, x, e, t) ==
  <<m, c, u, r, x>> \o <<e>> \o t = <<m>> \o ((<<c, u>> \o <<r, x, e>>) \o t)

\* The block of an attempt that is entered, as its parts.
LEMMA AttemptOpens ==
  ASSUME NEW m, NEW c, NEW u, NEW r, NEW x, NEW e, SixAhead(m, c, u, r, x, e), NEW t \in Seq(Ahead)
  PROVE  Regroups(m, c, u, r, x, e, t)
<1> m \in Ahead /\ c \in Ahead /\ u \in Ahead /\ r \in Ahead /\ x \in Ahead /\ e \in Ahead
  BY DEF SixAhead
<1>1. PICK p, q, f, g, h : /\ p = <<m>> /\ q = <<c, u>> /\ f = <<r, x, e>>
                           /\ g = <<m, c, u, r>> /\ h = <<x, e>>
  OBVIOUS
<1>2. PICK i, j, k : i = <<m, c, u>> /\ j = <<r>> /\ k = <<c>>
  OBVIOUS
<1>3. PICK v, w, y, z : v = <<x>> /\ w = <<e>> /\ y = <<u>> /\ z = <<m, c>>
  OBVIOUS
<1>4. /\ p \in Seq(Ahead) /\ q \in Seq(Ahead) /\ f \in Seq(Ahead) /\ g \in Seq(Ahead) /\ h \in Seq(Ahead)
      /\ i \in Seq(Ahead) /\ j \in Seq(Ahead) /\ k \in Seq(Ahead)
  BY <1>1, <1>2
<1>5. v \in Seq(Ahead) /\ w \in Seq(Ahead) /\ y \in Seq(Ahead) /\ z \in Seq(Ahead)
  BY <1>3
<1>6. Append(<<m, c, u, r>>, x) = <<m, c, u, r, x>>
  BY FourAppended
<1>7. g \o v = <<m, c, u, r, x>>
  <2>1. Append(g, x) = g \o <<x>>
    BY <1>4, AppendIsConcat
  <2> QED BY <1>1, <1>3, <1>6, <2>1
<1>8. i \o j = g
  BY <1>1, <1>2, ThreeAndOne
<1>9. z \o y = i
  <2>1. Append(z, u) = z \o <<u>>
    BY <1>5, AppendIsConcat
  <2>2. Append(<<m, c>>, u) = <<m, c, u>>
    BY TwoAppended
  <2> QED BY <1>2, <1>3, <2>1, <2>2
<1>10. p \o k = z /\ k \o y = q /\ v \o w = h
  BY <1>1, <1>2, <1>3, TwoJoined
<1>11. j \o h = f
  <2>1. PICK rx : rx = <<r, x>>
    OBVIOUS
  <2>2. rx \in Seq(Ahead) /\ j \o v = rx
    BY <1>2, <1>3, <2>1, TwoJoined
  <2>3. Append(rx, e) = rx \o <<e>>
    BY <2>2, AppendIsConcat
  <2>4. Append(<<r, x>>, e) = <<r, x, e>>
    BY TwoAppended
  <2>5. j \o (v \o w) = (j \o v) \o w
    <3>1. j \in Seq(Ahead) /\ v \in Seq(Ahead) /\ w \in Seq(Ahead)
      BY <1>4, <1>5
    <3> QED BY <3>1, Regrouped
  <2> QED BY <1>1, <1>3, <1>10, <2>1, <2>2, <2>3, <2>4, <2>5
<1>12. (g \o v) \o w = p \o (q \o f)
  <2>1. (g \o v) \o w = g \o h
    <3>1. g \in Seq(Ahead) /\ v \in Seq(Ahead) /\ w \in Seq(Ahead)
      BY <1>4, <1>5
    <3>2. (g \o v) \o w = g \o (v \o w)
      BY <3>1, Regrouped
    <3> QED BY <1>10, <3>2
  <2>2. (i \o j) \o h = i \o (j \o h)
    <3>1. i \in Seq(Ahead) /\ j \in Seq(Ahead) /\ h \in Seq(Ahead)
      BY <1>4
    <3> QED BY <3>1, Regrouped
  <2>3. g \o h = i \o f
    BY <1>8, <1>11, <2>2
  <2>4. (p \o k) \o y = p \o (k \o y)
    <3>1. p \in Seq(Ahead) /\ k \in Seq(Ahead) /\ y \in Seq(Ahead)
      BY <1>4, <1>5
    <3> QED BY <3>1, Regrouped
  <2>5. i = p \o q
    BY <1>9, <1>10, <2>4
  <2>6. (p \o q) \o f = p \o (q \o f)
    <3>1. p \in Seq(Ahead) /\ q \in Seq(Ahead) /\ f \in Seq(Ahead)
      BY <1>4
    <3> QED BY <3>1, Regrouped
  <2> QED BY <2>1, <2>3, <2>5, <2>6
<1>13. q \o f \in Seq(Ahead)
  BY <1>4, ConcatProperties
<1>14. (p \o (q \o f)) \o t = p \o ((q \o f) \o t)
  <2>1. PICK n : n = q \o f
    OBVIOUS
  <2>2. p \in Seq(Ahead) /\ n \in Seq(Ahead) /\ t \in Seq(Ahead)
    BY <1>4, <1>13, <2>1
  <2>3. (p \o n) \o t = p \o (n \o t)
    BY <2>2, Regrouped
  <2> QED BY <2>1, <2>3
<1>15. (g \o v) \o w \o t = p \o ((q \o f) \o t)
  BY <1>12, <1>14
<1> QED BY <1>1, <1>3, <1>7, <1>15 DEF Regroups

\* What is lost while nothing is done.
LEMMA EstablishIdles ==
  ASSUME Idles, failed \subseteq failed', EstablishInv
  PROVE  EstablishInv'
<1>1. todo' = todo /\ raised' = raised /\ held' \subseteq held
  BY DEF Idles, Stays
<1>2. /\ "peripheral" \notin held'
      /\ Unconnected => Unconnected'
      /\ Established => Established'
  BY <1>1 DEF Idles, EstablishInv, Unconnected, Established
<1>3. \A a, b : Trying(a, b) => Trying(a, b)'
  BY <1>1 DEF Trying
<1>4. AtAttempt => AtAttempt'
  BY <1>1, <1>2, <1>3 DEF AtAttempt
<1>5. BeforeConnect => BeforeConnect'
  <2>1. \A p : Within(PrescanSteps, p, raised) => Within(PrescanSteps, p, raised')
    BY <1>1
  <2> QED BY <1>1, <1>2, <1>3, <2>1 DEF BeforeConnect
<1>6. Connected => Connected'
  BY <1>1, <1>2, <1>3 DEF Connected
<1>7. Undoing => Undoing'
  BY <1>1, <1>2, <1>3 DEF Undoing
<1>8. Retrying => Retrying'
  BY <1>1, <1>2, <1>3 DEF Retrying
<1>9. GivenOut => GivenOut'
  BY <1>1, <1>2 DEF GivenOut, Ended
<1> QED BY <1>2, <1>4, <1>5, <1>6, <1>7, <1>8, <1>9 DEF EstablishInv

\* An exception from before or in an attempt's connection.
LEMMA AttemptFails ==
  ASSUME NEW g \in Seq(Ahead), \A i \in 1 .. Len(g) : g[i].kind \in {"call", "block"},
         NEW r, Attempts(r), NEW how \in {"error", "cancel"}, Unwind(g \o (AfterConnect \o r), how),
         Unconnected'
  PROVE  Retrying' \/ GivenOut'
<1>1. PICK x, e, n : x = AttemptBlock.inner[5] /\ e = End("no") /\ n = Raise("return")
  OBVIOUS
<1>2. PICK a, q : a = <<n, x, e>> /\ q = a \o r
  OBVIOUS
<1>3. a = AfterConnect /\ a \in Seq(Ahead) /\ x \in Ahead /\ e \in Ahead /\ n \in Ahead
  BY <1>1, <1>2, AttemptBuilt DEF AfterConnect
<1>4. r \in Seq(Ahead)
  BY AttemptsAhead
<1>5. q \in Seq(Ahead)
  BY <1>2, <1>3, <1>4, ConcatProperties
<1>6. Unwind(g \o q, how)
  BY <1>2, <1>3 DEF Unwind
<1>7. \A i \in 1 .. Len(g) : ~ Lands(g[i], how)
  BY DEF Lands
<1>8. Unwind(q, how)
  BY <1>5, <1>6, <1>7, UnwindJoined
<1>9. Unwind(a \o r, how)
  BY <1>2, <1>8 DEF Unwind
<1>10. Len(a) = 3 /\ a[1] = n /\ a[2] = x /\ a[3] = e
  BY <1>2
<1>11. PICK t, w : t = BluekTeardown /\ w = Wait("sleep")
  OBVIOUS
<1>12. n.kind = "raise" /\ e.kind = "end" /\ x.kind = "except" /\ x.handler = <<t, w>>
  BY <1>1, <1>11, AttemptSteps DEF Raise, End, Mark
<1>13. ~ Lands(a[1], how) /\ ~ Lands(a[3], how) /\ (Lands(a[2], how) => how = "error")
  BY <1>10, <1>12 DEF Lands
<1>14. \A i \in 1 .. Len(r) : ~ Lands(r[i], how)
  BY AttemptsAhead DEF Lands
<1>15. SubSeq(a, 2 + 1, Len(a)) = <<e>>
  <2>1. PICK n2, n3 \in Nat : n2 = 2 /\ n3 = 3
    OBVIOUS
  <2>2. 2 + 1 = n2 + 1 /\ Len(a) = n2 + 1 /\ n2 \in Nat \ {0} /\ a[n2 + 1] = e
    BY <1>10, <2>1
  <2>3. SubSeq(a, n2 + 1, Len(a)) = <<a[n2 + 1]>>
    BY <1>3, <2>2, LastLeft
  <2> QED BY <2>2, <2>3
<1>16. \/ todo' = (<<t, w>> \o <<e>>) \o r /\ raised' = "no"
       \/ Unwind(r, how)
  <2>1. \A i \in 1 .. Len(a) : Lands(a[i], how) => i = 2
    BY <1>10, <1>13
  <2>3. \/ \E i \in 1 .. Len(a) :
             /\ Lands(a[i], how)
             /\ todo' = (a[i].handler \o SubSeq(a, i + 1, Len(a))) \o r
             /\ IF a[i].kind = "except" THEN raised' = "no" /\ caught' = TRUE
                                        ELSE raised' = how /\ UNCHANGED caught
        \/ Unwind(r, how)
    BY <1>3, <1>4, <1>9, UnwindJoined
  <2> QED BY <1>10, <1>12, <1>15, <2>1, <2>3
<1>17. CASE Unwind(r, how)
  <2>1. todo' = <<>> /\ raised' = how
    BY <1>14, <1>17, Uncaught
  <2> QED BY <2>1 DEF GivenOut, Ended
<1>18. CASE todo' = (<<t, w>> \o <<e>>) \o r /\ raised' = "no"
  <2>1. PICK tw, es : tw = <<t, w>> /\ es = <<e>>
    OBVIOUS
  <2>2. t \in Ahead /\ w \in Ahead
    BY <1>11, AttemptBuilt
  <2>3. tw \in Seq(Ahead) /\ es \in Seq(Ahead)
    BY <1>3, <2>1, <2>2
  <2>4. todo' = tw \o (es \o r)
    BY <1>4, <1>18, <2>1, <2>3, Regrouped
  <2>5. Trying(tw, es)'
    BY <2>3, <2>4, TryingAgain
  <2> QED BY <1>1, <1>11, <1>18, <2>1, <2>5 DEF Retrying
<1> QED BY <1>16, <1>17, <1>18

\* Steps of the front of what is ahead.
LEMMA InFront ==
  ASSUME NEW a \in Seq(Ahead), a # <<>>, NEW q \in Seq(Ahead), todo = a \o q
  PROVE  todo # <<>> /\ Step = a[1] /\ Tail(todo) = Tail(a) \o q
BY HeadAndTailJoined DEF Step

\* The steps of a prescan before those of a connection.
LEMMA PrescanAgain ==
  ASSUME NEW p, p \in Seq(Ahead), NEW b, b \in Seq(Ahead), NEW r, Attempts(r),
         b = <<Connecting, DiscoverBlock>> \o AfterConnect,
         todo' = p \o (b \o r), Within(PrescanSteps, p, raised'), "channel" \notin held'
  PROVE  BeforeConnect'
<1>1. PICK t, q, e : t = p \o (b \o r) /\ q = b \o r /\ e = <<>>
  OBVIOUS
<1>2. r \in Seq(Ahead)
  BY AttemptsAhead
<1>3. q \in Seq(Ahead) /\ t = p \o q
  BY <1>1, <1>2, ConcatProperties
<1>4. Len(p) \in Nat /\ Len(q) \in Nat /\ Len(t) = Len(p) + Len(q)
  <2>1. Len(p \o q) = Len(p) + Len(q)
    BY <1>3, ConcatProperties
  <2> QED BY <1>3, <2>1, LenProperties
<1>5. SubSeq(t, 1, Len(p)) = p
  <2>1. e \in Seq(Ahead) /\ Len(e) = 0 /\ e \o t = t
    <3>1. t \in Seq(Ahead)
      BY <1>3, ConcatProperties
    <3> QED BY <1>1, <3>1, EmptySeq, ConcatEmptySeq
  <2>2. SubSeq(e \o (p \o q), Len(e) + 1, Len(e) + Len(p)) = p
    BY <1>3, <2>1, Between
  <2>3. Len(e) + 1 = 1 /\ Len(e) + Len(p) = Len(p)
    BY <1>4, <2>1
  <2> QED BY <1>3, <2>1, <2>2, <2>3
<1>6. Len(p) \in 0 .. Len(t)
  BY <1>4
<1>7. Trying(p, b)'
  BY TryingAgain
<1>8. \E i \in 0 .. Len(t) :
        LET s == SubSeq(t, 1, i) IN Within(PrescanSteps, s, raised') /\ Trying(s, b)'
  BY <1>5, <1>6, <1>7
<1>9. todo' = t
  BY <1>1
<1> QED BY <1>8, <1>9 DEF BeforeConnect, Unconnected

\* Between two attempts.
LEMMA AtAttemptMoves ==
  ASSUME EstablishInv, AtAttempt, Acts
  PROVE  EstablishInv'
<1>1. PICK r : Attempts(r) /\ todo = <<>> \o (<<>> \o r)
  BY TryingParts DEF AtAttempt
<1>2. r \in Seq(Ahead)
  BY <1>1, AttemptsAhead
<1>3. todo = r
  BY <1>1, <1>2, ConcatEmptySeq
<1>4. PICK t : t = Tail(r)
  OBVIOUS
<1>5. /\ todo # <<>> /\ Step = r[1] /\ Tail(todo) = t
      /\ \A i \in 1 .. Len(t) : t[i].kind \in {"call", "block", "raise"}
      /\ (r[1] \in {Opening("client_class"), AttemptBlock} /\ Attempts(t)) \/ r[1] = Raise("error")
  BY <1>1, <1>3, <1>4, AttemptsAhead DEF Step
<1>6. failed \subseteq failed' /\ "peripheral" \notin held /\ "channel" \notin held /\ raised = "no"
  BY DEF Acts, EstablishInv, AtAttempt, Unconnected
<1>7. Idles => EstablishInv'
  BY <1>6, EstablishIdles
<1>8. ASSUME NEW how \in {"error", "cancel"}, Unwind(t, how), held' = held
      PROVE  EstablishInv'
  <2>1. \A i \in 1 .. Len(t) : ~ Lands(t[i], how)
    BY <1>5 DEF Lands
  <2>2. todo' = <<>> /\ raised' = how
    BY <1>8, <2>1, Uncaught
  <2> QED BY <1>6, <1>8, <2>2 DEF GivenOut, Ended, Unconnected, EstablishInv
<1>9. CASE r[1] = Opening("client_class") /\ Attempts(t)
  <2>1. PICK s : s = Step
    OBVIOUS
  <2>2. s.kind = "call" /\ s.call # "readline" /\ ~ s.soft /\ ~ s.late /\ s.gets = {} /\ s.frees = {}
    BY <1>5, <1>9, <2>1, AttemptCalls
  <2>3. \/ Idles
        \/ todo' = t /\ raised' = raised /\ held' = (held \cup s.gets) \ s.frees
        \/ \E how \in {"error", "cancel"} : held' = held /\ Unwind(t, how)
    BY <1>5, <2>1, <2>2, Called
  <2>4. CASE todo' = t /\ raised' = raised /\ held' = (held \cup s.gets) \ s.frees
    <3>1. held' = held
      BY <2>2, <2>4
    <3>2. PICK e : e = <<>>
      OBVIOUS
    <3>3. e \in Seq(Ahead) /\ t \in Seq(Ahead)
      BY <1>9, <3>2, AttemptsAhead, EmptySeq
    <3>4. todo' = e \o (e \o t)
      BY <2>4, <3>2, <3>3, ConcatEmptySeq
    <3>5. Trying(e, e)'
      BY <1>9, <3>3, <3>4, TryingAgain
    <3> QED BY <1>6, <2>4, <3>1, <3>2, <3>5 DEF AtAttempt, Unconnected, EstablishInv
  <2> QED BY <1>7, <1>8, <2>3, <2>4
<1>10. CASE r[1] = AttemptBlock /\ Attempts(t)
  <2>1. PICK s : s = Step
    OBVIOUS
  <2>2. s.kind = "block" /\ s = AttemptBlock
    BY <1>5, <1>10, <2>1, AttemptSteps
  <2>3. Idles \/ (held' = held /\ todo' = s.inner \o <<End(raised)>> \o t /\ raised' = "no")
    BY <1>5, <2>1, <2>2, Uncalled
  <2>4. CASE held' = held /\ todo' = s.inner \o <<End(raised)>> \o t /\ raised' = "no"
    <3>1. PICK m, c, u, n, x, e : /\ m = BluekConnect[1] /\ c = Connecting /\ u = DiscoverBlock
                                  /\ n = Raise("return") /\ x = AttemptBlock.inner[5] /\ e = End("no")
      OBVIOUS
    <3>2. m \in Ahead /\ c \in Ahead /\ u \in Ahead /\ n \in Ahead /\ x \in Ahead /\ e \in Ahead
      BY <3>1, AttemptBuilt
    <3>3. s.inner = <<m, c, u, n, x>>
      BY <2>2, <3>1, AttemptSteps
    <3>4. t \in Seq(Ahead)
      BY <1>10, AttemptsAhead
    <3>5. todo' = <<m, c, u, n, x>> \o <<e>> \o t
      BY <1>6, <2>4, <3>1, <3>3
    <3>6. todo' = <<m>> \o ((<<c, u>> \o <<n, x, e>>) \o t)
      <4>1. <<m, c, u, n, x>> \o <<e>> \o t = <<m>> \o ((<<c, u>> \o <<n, x, e>>) \o t)
        <5>1. SixAhead(m, c, u, n, x, e)
          BY <3>2 DEF SixAhead
        <5>2. Regroups(m, c, u, n, x, e, t)
          BY <3>4, <5>1, AttemptOpens
        <5> QED BY <5>2 DEF Regroups
      <4> QED BY <3>5, <4>1
    <3>7. PICK p, b : p = <<m>> /\ b = <<c, u>> \o <<n, x, e>>
      OBVIOUS
    <3>8. b = <<Connecting, DiscoverBlock>> \o AfterConnect
      BY <3>1, <3>7 DEF AfterConnect
    <3>9. p \in Seq(Ahead) /\ b \in Seq(Ahead)
      BY <3>2, <3>7, <3>8, AttemptBuilt
    <3>10. Trying(p, b)' /\ todo' = p \o (b \o t)
      BY <1>10, <3>6, <3>7, <3>9, TryingAgain
    <3>11. p \in Seq(PrescanSteps)
      BY <3>1, <3>7, PrescanBuilt
    <3>12. Sound(p)
      <4>1. m \in Planned
        <5>1. BluekConnect \in Seq(Level2) /\ Len(BluekConnect) = 3
          BY BluekConnectBuilt DEF BluekConnect
        <5>2. PICK k : k = BluekConnect
          OBVIOUS
        <5>3. k \in Seq(Level2) /\ 1 \in 1 .. Len(k)
          BY <5>1, <5>2
        <5>4. k[1] \in Level2
          BY <5>3, ElementOfSeq
        <5> QED BY <3>1, <5>2, <5>4, Levels
      <4>2. p \in Seq(Planned)
        BY <3>7, <4>1
      <4> QED BY <4>2, PlannedIsSound
    <3>13. Within(PrescanSteps, p, raised')
      BY <2>4, <3>11, <3>12 DEF Within
    <3>14. BeforeConnect'
      <4>1. "channel" \notin held'
        BY <1>6, <2>4
      <4> QED BY <3>8, <3>9, <3>10, <3>13, <4>1, PrescanAgain, <1>10
    <3> QED BY <1>6, <2>4, <3>14 DEF EstablishInv
  <2> QED BY <1>7, <2>3, <2>4
<1>11. CASE r[1] = Raise("error")
  <2>1. PICK s : s = Step
    OBVIOUS
  <2>2. s.kind = "raise" /\ s.how = "error"
    BY <1>5, <1>11, <2>1 DEF Raise
  <2>3. Idles \/ (held' = held /\ Unwind(t, s.how))
    BY <1>5, <2>1, <2>2, Uncalled
  <2>4. Idles \/ (held' = held /\ Unwind(t, "error"))
    BY <2>2, <2>3
  <2> QED BY <1>7, <1>8, <2>4
<1> QED BY <1>5, <1>9, <1>10, <1>11

\* No step of a prescan gets a link.
LEMMA QuietHolds ==
  ASSUME Acts, todo # <<>>, Step \in PrescanSteps, NEW r, r \in {"channel", "peripheral"}, r \notin held
  PROVE  r \notin held'
<1>1. CASE Idles
  BY <1>1 DEF Idles
<1>2. CASE Step.kind = "call"
  <2>1. Step.gets \subseteq {"mgmt", "discovery"}
    BY <1>2, PrescanContained
  <2>2. r \notin Effect(Step)
    BY <2>1 DEF Effect
  <2>3. Outcomes(Step) \subseteq {held, Effect(Step)}
    BY DEF Outcomes
  <2>4. Returns => r \notin held'
    BY <2>2 DEF Returns
  <2>5. Fails \/ IsCut => r \notin held'
    BY <2>2, <2>3 DEF Fails, IsCut
  <2>6. Reads => r \notin held'
    BY DEF Reads
  <2> QED BY <1>1, <1>2, <2>4, <2>5, <2>6 DEF Acts
<1>3. CASE Step.kind # "call" /\ ~ Idles
  BY <1>3 DEF Acts, Speaks, Judges, Others
<1> QED BY <1>1, <1>2, <1>3

\* Before a connection: the prescan, and the call that connects.
LEMMA BeforeConnectMoves ==
  ASSUME EstablishInv, BeforeConnect, Acts, Moves, raised \in Kinds
  PROVE  EstablishInv'
<1>1. PICK c, u : c = Connecting /\ u = DiscoverBlock
  OBVIOUS
<1>2. PICK g, h : g = <<c, u>> /\ h = <<u>>
  OBVIOUS
<1>3. PICK b : b = g \o AfterConnect
  OBVIOUS
<1>4. /\ c \in Ahead /\ u \in Ahead /\ g \in Seq(Ahead) /\ h \in Seq(Ahead) /\ b \in Seq(Ahead)
      /\ AfterConnect \in Seq(Ahead)
  BY <1>1, <1>2, <1>3, AttemptBuilt
<1>5. b = <<Connecting, DiscoverBlock>> \o AfterConnect
  BY <1>1, <1>2, <1>3
<1>6. PICK p : Within(PrescanSteps, p, raised) /\ Trying(p, b)
  BY <1>5 DEF BeforeConnect
<1>7. PICK r : Attempts(r) /\ todo = p \o (b \o r)
  BY <1>6, TryingParts
<1>8. r \in Seq(Ahead)
  BY <1>7, AttemptsAhead
<1>9. PICK q : q = b \o r
  OBVIOUS
<1>10. q \in Seq(Ahead) /\ q = g \o (AfterConnect \o r)
  <2>1. b \o r \in Seq(Ahead)
    BY <1>4, <1>8, ConcatProperties
  <2>2. g \o (AfterConnect \o r) = (g \o AfterConnect) \o r
    BY <1>4, <1>8, Regrouped
  <2> QED BY <1>3, <1>9, <2>1, <2>2
<1>11. /\ p \in Seq(PrescanSteps) /\ Sound(p) /\ p \in Seq(Ahead)
       /\ raised # "return" /\ (raised # "no" => EndBehind(p, 0))
  BY <1>6 DEF Within, Sound
<1>12. "peripheral" \notin held /\ "channel" \notin held
  BY DEF EstablishInv, BeforeConnect, Unconnected
<1>13. g[1].kind = "call" /\ u.kind = "block" /\ Len(g) = 2 /\ g[1] = c /\ g[2] = u /\ Len(h) = 1 /\ h[1] = u
  <2>1. c.kind = "call" /\ u.kind = "block"
    BY <1>1, AttemptCalls, AttemptSteps
  <2> QED BY <1>2, <2>1
<1>14. CASE p # <<>>
  <2>1. todo = p \o q
    BY <1>7, <1>9
  <2>2. SelfContained(PrescanSteps)
    BY PrescanContained
  <2>3. todo # <<>> /\ Step \in PrescanSteps
    <3>1. p \in Seq(PrescanSteps) /\ Sound(p) /\ q \in Seq(Ahead) /\ p # <<>>
      BY <1>10, <1>11, <1>14
    <3> QED BY <2>1, <2>2, <3>1, PartStep
  <2>4. "peripheral" \notin held' /\ "channel" \notin held'
    BY <1>12, <2>3, QuietHolds
  <2>5. \/ \E z : Within(PrescanSteps, z, raised') /\ todo' = z \o q
        \/ \E how \in {"error", "cancel"} : Throws(how) /\ Unwind(q, how)
    BY <1>10, <1>11, <1>14, <2>1, <2>2, PartMoves
  <2>6. ASSUME NEW z, Within(PrescanSteps, z, raised'), todo' = z \o q
        PROVE  BeforeConnect'
    <3>1. z \in Seq(Ahead)
      BY <2>6 DEF Within, Sound
    <3>2. todo' = z \o (b \o r)
      BY <1>9, <2>6
    <3> QED BY <1>4, <1>5, <1>7, <2>4, <2>6, <3>1, <3>2, PrescanAgain
  <2>7. ASSUME NEW how \in {"error", "cancel"}, Unwind(q, how)
        PROVE  Retrying' \/ GivenOut'
    <3>1. Unwind(g \o (AfterConnect \o r), how)
      BY <1>10, <2>7 DEF Unwind
    <3>2. \A i \in 1 .. Len(g) : g[i].kind \in {"call", "block"}
      BY <1>13
    <3>3. Unconnected'
      BY <2>4 DEF Unconnected
    <3> QED BY <1>4, <1>7, <3>1, <3>2, <3>3, AttemptFails
  <2> QED BY <2>4, <2>5, <2>6, <2>7 DEF EstablishInv
<1>15. CASE p = <<>>
  <2>1. raised = "no"
    BY <1>11, <1>15, NothingInFlight
  <2>2. todo = g \o (AfterConnect \o r)
    BY <1>7, <1>9, <1>10, <1>15, ConcatEmptySeq
  <2>3. AfterConnect \o r \in Seq(Ahead)
    BY <1>4, <1>8, ConcatProperties
  <2>4. g # <<>> /\ Tail(g) = h
    BY <1>2
  <2>5. PICK t, s : t = h \o (AfterConnect \o r) /\ s = Step
    OBVIOUS
  <2>6. todo # <<>> /\ s = c /\ Tail(todo) = t
    BY <1>4, <1>13, <2>2, <2>3, <2>4, <2>5, InFront
  <2>7. /\ s.kind = "call" /\ s.call # "readline" /\ ~ s.soft /\ ~ s.late
        /\ s.gets = {"channel"} /\ s.frees = {}
    BY <1>1, <2>6, AttemptCalls
  <2>8. \/ Idles
        \/ todo' = t /\ raised' = raised /\ held' = (held \cup s.gets) \ s.frees
        \/ \E how \in {"error", "cancel"} : held' = held /\ Unwind(t, how)
    <3>1. todo # <<>> /\ s = Step /\ t = Tail(todo)
      BY <2>5, <2>6
    <3>2. s.kind = "call" /\ s.call # "readline" /\ ~ s.soft /\ ~ s.late
      BY <2>7
    <3> QED BY <3>1, <3>2, Called
  <2>9. CASE Idles
    BY <2>9, EstablishIdles DEF Acts
  <2>10. ASSUME todo' = t, raised' = raised, held' = (held \cup s.gets) \ s.frees
         PROVE  EstablishInv'
    <3>1. held' = held \cup {"channel"}
      BY <2>7, <2>10
    <3>2. Trying(h, AfterConnect)'
      BY <1>4, <1>7, <2>5, <2>10, TryingAgain
    <3>3. Trying(<<DiscoverBlock>>, AfterConnect)'
      BY <1>1, <1>2, <3>2
    <3>4. Connected'
      BY <2>1, <2>10, <3>1, <3>3 DEF Connected, Established
    <3> QED BY <1>12, <3>1, <3>4 DEF EstablishInv
  <2>11. ASSUME NEW how \in {"error", "cancel"}, held' = held, Unwind(t, how)
         PROVE  EstablishInv'
    <3>1. Unwind(h \o (AfterConnect \o r), how)
      BY <2>5, <2>11 DEF Unwind
    <3>2. \A i \in 1 .. Len(h) : h[i].kind \in {"call", "block"}
      BY <1>13
    <3>3. Unconnected'
      BY <1>12, <2>11 DEF Unconnected
    <3>4. Retrying' \/ GivenOut'
      BY <1>4, <1>7, <3>1, <3>2, <3>3, AttemptFails
    <3> QED BY <1>12, <2>11, <3>4 DEF EstablishInv
  <2> QED BY <2>8, <2>9, <2>10, <2>11
<1> QED BY <1>14, <1>15

\* A sequence of steps that is not done: its first, and the others.
OpensWith(v, s, w) == v \in Seq(Ahead) /\ v # <<>> /\ v[1] = s /\ Tail(v) = w /\ w \in Seq(Ahead)

\* The next step of an attempt.
LEMMA TryingNext ==
  ASSUME NEW v, NEW s, NEW w, OpensWith(v, s, w), NEW b \in Seq(Ahead), Trying(v, b)
  PROVE  \E r, t : /\ Attempts(r) /\ t = w \o (b \o r)
                   /\ todo # <<>> /\ Step = s /\ Tail(todo) = t
<1>1. PICK r : Attempts(r) /\ todo = v \o (b \o r)
  BY TryingParts
<1>2. r \in Seq(Ahead)
  BY <1>1, AttemptsAhead
<1>3. PICK q : q = b \o r
  OBVIOUS
<1>4. q \in Seq(Ahead)
  BY <1>2, <1>3, ConcatProperties
<1>5. v \in Seq(Ahead) /\ v # <<>> /\ v[1] = s /\ Tail(v) = w
  BY DEF OpensWith
<1>6. todo # <<>> /\ Step = v[1] /\ Tail(todo) = Tail(v) \o q
  BY <1>1, <1>3, <1>4, <1>5, InFront
<1>7. PICK t : t = w \o (b \o r)
  OBVIOUS
<1> QED BY <1>1, <1>3, <1>5, <1>6, <1>7

\* What comes of a call of an attempt.
LEMMA CallNext ==
  ASSUME Acts, NEW v, NEW s, NEW w, OpensWith(v, s, w), NEW b \in Seq(Ahead), Trying(v, b),
         s.kind = "call", s.call # "readline", ~ s.soft, ~ s.late
  PROVE  \/ Idles
         \/ Trying(w, b)' /\ raised' = raised /\ held' = (held \cup s.gets) \ s.frees
         \/ \E r, how : /\ Attempts(r) /\ how \in {"error", "cancel"}
                        /\ held' = held /\ Unwind(w \o (b \o r), how)
                        /\ IF how = "cancel" THEN "cancel" \in s.can ELSE "error" \in s.can \/ ~ Possible(s)
<1>1. PICK r, t : /\ Attempts(r) /\ t = w \o (b \o r)
                  /\ todo # <<>> /\ Step = s /\ Tail(todo) = t
  BY TryingNext
<1>2. todo # <<>> /\ s = Step /\ t = Tail(todo)
  BY <1>1
<1>3. \/ Idles
      \/ todo' = t /\ raised' = raised /\ held' = (held \cup s.gets) \ s.frees
      \/ \E how \in {"error", "cancel"} :
           /\ held' = held /\ Unwind(t, how)
           /\ IF how = "cancel" THEN "cancel" \in s.can ELSE "error" \in s.can \/ ~ Possible(s)
  BY <1>2, Called
<1>4. ASSUME todo' = t
      PROVE  Trying(w, b)'
  <2>1. todo' = w \o (b \o r)
    BY <1>1, <1>4
  <2>2. w \in Seq(Ahead)
    BY DEF OpensWith
  <2> QED BY <1>1, <2>1, <2>2, TryingAgain
<1>5. ASSUME NEW how, Unwind(t, how)
      PROVE  Unwind(w \o (b \o r), how)
  BY <1>1, <1>5 DEF Unwind
<1> QED BY <1>1, <1>3, <1>4, <1>5

\* What comes of a mark, and of the end of a block.
LEMMA MarkNext ==
  ASSUME Acts, NEW v, NEW s, NEW w, OpensWith(v, s, w), NEW b \in Seq(Ahead), Trying(v, b),
         s.kind \in {"undo", "end", "raise"}
  PROVE  \/ Idles
         \/ /\ held' = held
            /\ s.kind = "undo" => Trying(w, b)' /\ raised' = raised
            /\ s.kind = "end" /\ raised = "no" => Trying(w, b)' /\ raised' = s.saved
            /\ s.kind = "end" /\ raised # "no" => \E r : Attempts(r) /\ Unwind(w \o (b \o r), raised)
            /\ s.kind = "raise" => \E r : Attempts(r) /\ Unwind(w \o (b \o r), s.how)
<1>1. PICK r, t : /\ Attempts(r) /\ t = w \o (b \o r)
                  /\ todo # <<>> /\ Step = s /\ Tail(todo) = t
  BY TryingNext
<1>2. todo # <<>> /\ s = Step /\ t = Tail(todo)
  BY <1>1
<1>3. s.kind \in {"block", "finally", "undo", "except", "end", "raise"}
  OBVIOUS
<1>4. \/ Idles
      \/ /\ held' = held
         /\ s.kind \in {"finally", "undo", "except"} => todo' = t /\ raised' = raised
         /\ s.kind = "block" => todo' = s.inner \o <<End(raised)>> \o t /\ raised' = "no"
         /\ s.kind = "end" =>
              IF raised = "no" THEN todo' = t /\ raised' = s.saved ELSE Unwind(t, raised)
         /\ s.kind = "raise" => Unwind(t, s.how)
  BY <1>2, <1>3, Uncalled
<1>5. ASSUME todo' = t
      PROVE  Trying(w, b)'
  <2>1. todo' = w \o (b \o r)
    BY <1>1, <1>5
  <2>2. w \in Seq(Ahead)
    BY DEF OpensWith
  <2> QED BY <1>1, <2>1, <2>2, TryingAgain
<1>6. Unwind(t, raised) => Unwind(w \o (b \o r), raised)
  BY <1>1 DEF Unwind
<1>7. Unwind(t, s.how) => Unwind(w \o (b \o r), s.how)
  BY <1>1 DEF Unwind
<1> QED BY <1>1, <1>4, <1>5, <1>6, <1>7

\* Up to four steps, written out.
LEMMA Fronts ==
  ASSUME NEW a \in Ahead, NEW b \in Ahead, NEW c \in Ahead, NEW d \in Ahead,
         NEW v1, v1 = <<d>>, NEW v2, v2 = <<c, d>>, NEW v3, v3 = <<b, c, d>>, NEW v4, v4 = <<a, b, c, d>>,
         NEW e, e = <<>>
  PROVE  OpensWith(v4, a, v3) /\ OpensWith(v3, b, v2) /\ OpensWith(v2, c, v1) /\ OpensWith(v1, d, e)
<1>1. e \in Seq(Ahead) /\ v1 \in Seq(Ahead) /\ v2 \in Seq(Ahead) /\ v3 \in Seq(Ahead) /\ v4 \in Seq(Ahead)
  BY EmptySeq
<1>2. v1 # <<>> /\ v2 # <<>> /\ v3 # <<>> /\ v4 # <<>>
  OBVIOUS
<1>3. v1[1] = d /\ v2[1] = c /\ v3[1] = b /\ v4[1] = a
  OBVIOUS
<1>4. Tail(v1) = e
  OBVIOUS
<1>5. Tail(v2) = v1
  OBVIOUS
<1>6. Tail(v3) = v2
  OBVIOUS
<1>7. Tail(v4) = v3
  OBVIOUS
<1> QED BY <1>1, <1>2, <1>3, <1>4, <1>5, <1>6, <1>7 DEF OpensWith

\* Nothing comes before b, or nothing behind it.
LEMMA TryingFrom ==
  ASSUME NEW b \in Seq(Ahead), NEW e, e = <<>>, Trying(e, b)
  PROVE  Trying(b, e)
<1>1. PICK i \in 0 .. Len(todo) :
        LET r == SubSeq(todo, i + 1, Len(todo)) IN Attempts(r) /\ todo = e \o (b \o r)
  BY DEF Trying
<1>2. PICK r : r = SubSeq(todo, i + 1, Len(todo))
  OBVIOUS
<1>3. Attempts(r) /\ todo = e \o (b \o r)
  BY <1>1, <1>2
<1>4. r \in Seq(Ahead)
  BY <1>3, AttemptsAhead
<1>5. b \o r \in Seq(Ahead)
  BY <1>4, ConcatProperties
<1>6. e \o (b \o r) = b \o r /\ e \o r = r
  BY <1>4, <1>5, ConcatEmptySeq
<1>7. todo = b \o (e \o r)
  BY <1>3, <1>6
<1> QED BY <1>2, <1>3, <1>7 DEF Trying

\* What fails in a connection is undone.
LEMMA Undone ==
  ASSUME NEW mu, mu = Mark("undo", <<BluekTeardown>>), NEW e, e = End("no"),
         NEW p \in Seq(Ahead), NEW n \in Nat \ {0}, Len(p) = n + 1, p[n] = mu, p[n + 1] = e,
         \A i \in 1 .. n - 1 : p[i].kind = "call",
         NEW b \in Seq(Ahead), NEW r, Attempts(r), NEW how \in {"error", "cancel"}, Unwind(p \o (b \o r), how)
  PROVE  raised' = how /\ Trying(<<BluekTeardown, e>>, b)'
<1>1. PICK t, u, q : t = BluekTeardown /\ u = <<t>> /\ q = b \o r
  OBVIOUS
<1>2. t \in Ahead /\ e \in Ahead /\ u \in Seq(Ahead)
  BY <1>1, AttemptBuilt
<1>3. r \in Seq(Ahead)
  BY AttemptsAhead
<1>4. q \in Seq(Ahead)
  BY <1>1, <1>3, ConcatProperties
<1>5. mu.kind = "undo" /\ mu.handler = u /\ e.kind = "end"
  BY <1>1 DEF Mark, End
<1>6. n \in 1 .. Len(p) /\ Lands(p[n], how) /\ \A i \in 1 .. Len(p) : Lands(p[i], how) => i = n
  <2>1. Lands(p[n], how)
    BY <1>5 DEF Lands
  <2>2. ASSUME NEW i \in 1 .. Len(p), i # n
        PROVE  ~ Lands(p[i], how)
    <3>1. i \in 1 .. n - 1 \/ i = n + 1
      BY <2>2
    <3>2. p[i].kind \in {"call", "end"}
      BY <1>5, <3>1
    <3> QED BY <3>2 DEF Lands
  <2> QED BY <2>1, <2>2
<1>7. SubSeq(p, n + 1, Len(p)) = <<e>>
  BY LastLeft
<1>8. Unwind(p \o q, how)
  BY <1>1 DEF Unwind
<1>9. \/ \E i \in 1 .. Len(p) :
           /\ Lands(p[i], how)
           /\ todo' = (p[i].handler \o SubSeq(p, i + 1, Len(p))) \o q
           /\ IF p[i].kind = "except" THEN raised' = "no" /\ caught' = TRUE
                                      ELSE raised' = how /\ UNCHANGED caught
      \/ (\A i \in 1 .. Len(p) : ~ Lands(p[i], how)) /\ Unwind(q, how)
  BY <1>4, <1>8, UnwindJoined
<1>10. todo' = (u \o <<e>>) \o q /\ raised' = how
  BY <1>5, <1>6, <1>7, <1>9
<1>11. u \o <<e>> = <<t, e>>
  BY <1>1, <1>2, TwoJoined
<1>12. PICK te : te = <<t, e>>
  OBVIOUS
<1>13. te \in Seq(Ahead)
  BY <1>2, <1>12
<1>14. todo' = te \o (b \o r)
  BY <1>1, <1>10, <1>11, <1>12
<1>15. Trying(te, b)'
  BY <1>13, <1>14, TryingAgain
<1> QED BY <1>1, <1>10, <1>12, <1>15

\* What the return statement of an attempt leaves.
LEMMA AttemptReturns ==
  ASSUME NEW r, Attempts(r), NEW x, x = AttemptBlock.inner[5], NEW e, e = End("no"),
         NEW v, v = <<x, e>>, NEW d, d = <<>>, Unwind(v \o (d \o r), "return")
  PROVE  todo' = <<>> /\ raised' = "return"
<1>1. r \in Seq(Ahead) /\ x \in Ahead /\ e \in Ahead
  BY AttemptsAhead, AttemptBuilt
<1>2. v \in Seq(Ahead) /\ Len(v) = 2 /\ v[1] = x /\ v[2] = e
  BY <1>1
<1>3. d \o r = r
  BY <1>1, ConcatEmptySeq
<1>4. Unwind(v \o r, "return")
  <2>1. PICK w : w = v \o (d \o r)
    OBVIOUS
  <2>2. v \o r = w
    BY <1>3, <2>1
  <2>3. Unwind(w, "return")
    <3>1. v \o (d \o r) = w
      BY <2>1
    <3> QED BY <3>1, ZenonT(30)
  <2> QED BY <2>2, <2>3, ZenonT(30)
<1>5. x.kind = "except" /\ e.kind = "end"
  BY AttemptSteps DEF Mark, End
<1>6. \A i \in 1 .. Len(v) : ~ Lands(v[i], "return")
  BY <1>2, <1>5 DEF Lands
<1>7. Unwind(r, "return")
  BY <1>1, <1>2, <1>4, <1>6, UnwindJoined
<1>8. \A i \in 1 .. Len(r) : ~ Lands(r[i], "return")
  BY AttemptsAhead DEF Lands
<1> QED BY <1>7, <1>8, Uncaught

\* While there is a connection.
LEMMA ConnectedMoves ==
  ASSUME EstablishInv, Connected, Acts
  PROVE  EstablishInv'
<1>1. PICK u, mt, di, mu, e : /\ u = DiscoverBlock /\ mt = Request("connect_mtu")
                              /\ di = Request("connect_discover") /\ mu = Mark("undo", <<BluekTeardown>>)
                              /\ e = End("no")
  OBVIOUS
<1>2. PICK a, n, x : a = AfterConnect /\ n = Raise("return") /\ x = AttemptBlock.inner[5]
  OBVIOUS
<1>3. /\ u \in Ahead /\ mt \in Ahead /\ di \in Ahead /\ mu \in Ahead /\ e \in Ahead
      /\ n \in Ahead /\ x \in Ahead /\ a \in Seq(Ahead)
  BY <1>1, <1>2, AttemptBuilt
<1>4. PICK v0, v1, v2, v3, v4, d : /\ v0 = <<u>> /\ v1 = <<e>> /\ v2 = <<mu, e>> /\ v3 = <<di, mu, e>>
                                   /\ v4 = <<mt, di, mu, e>> /\ d = <<>>
  OBVIOUS
<1>5. PICK w2 : w2 = <<x, e>>
  OBVIOUS
<1>6. a = <<n, x, e>>
  BY <1>1, <1>2 DEF AfterConnect
<1>7. /\ OpensWith(v4, mt, v3) /\ OpensWith(v3, di, v2) /\ OpensWith(v2, mu, v1) /\ OpensWith(v1, e, d)
  <2>1. mt \in Ahead /\ di \in Ahead /\ mu \in Ahead /\ e \in Ahead
    BY <1>3
  <2>2. v4 = <<mt, di, mu, e>> /\ v3 = <<di, mu, e>> /\ v2 = <<mu, e>> /\ v1 = <<e>> /\ d = <<>>
    BY <1>4
  <2> QED BY <2>1, <2>2, Fronts
<1>8. OpensWith(a, n, w2)
  BY <1>3, <1>4, <1>5, <1>6, Fronts
<1>9. OpensWith(v0, u, d)
  <2>1. PICK f2, f3, f4 : f2 = <<u, u>> /\ f3 = <<u, u, u>> /\ f4 = <<u, u, u, u>>
    OBVIOUS
  <2> QED BY <1>3, <1>4, <2>1, Fronts
<1>10. d \in Seq(Ahead)
  BY <1>7 DEF OpensWith
<1>11. /\ u.kind = "block" /\ u.inner = <<mt, di, mu>>
       /\ mu.kind = "undo" /\ e.kind = "end" /\ e.saved = "no" /\ n.kind = "raise" /\ n.how = "return"
  BY <1>1, <1>2, AttemptSteps DEF Mark, End, Raise
<1>12. \A c \in {mt, di} : /\ c.kind = "call" /\ c.call # "readline" /\ ~ c.soft /\ ~ c.late
                           /\ c.gets = {} /\ c.frees = {}
  BY <1>1, AttemptCalls
<1>13. /\ Established /\ raised = "no" /\ "peripheral" \notin held /\ failed \subseteq failed'
       /\ \E v \in {v0, v4, v3, v2, v1, d} : Trying(v, a)
  BY <1>1, <1>2, <1>4 DEF Connected, EstablishInv, Acts
<1>14. Idles => EstablishInv'
  BY <1>13, EstablishIdles
<1>15. ASSUME NEW v \in {v4, v3, v2, v1, d}, Trying(v, a)', raised' = "no", held' = held
       PROVE  EstablishInv'
  <2>1. Established'
    BY <1>13, <1>15 DEF Established
  <2>2. Connected'
    BY <1>1, <1>2, <1>4, <1>15, <2>1 DEF Connected
  <2> QED BY <1>13, <1>15, <2>2 DEF EstablishInv
<1>16. CASE Trying(v0, a)
  <2>1. PICK r, t : /\ Attempts(r) /\ t = d \o (a \o r)
                    /\ todo # <<>> /\ Step = u /\ Tail(todo) = t
    BY <1>3, <1>9, <1>16, TryingNext
  <2>2. PICK s : s = Step
    OBVIOUS
  <2>3. todo # <<>> /\ s = Step /\ s.kind = "block" /\ t = Tail(todo) /\ s = u
    BY <1>11, <2>1, <2>2
  <2>4. Idles \/ (held' = held /\ todo' = s.inner \o <<End(raised)>> \o t /\ raised' = "no")
    BY <2>3, Uncalled
  <2>5. ASSUME held' = held, todo' = s.inner \o <<End(raised)>> \o t, raised' = "no"
        PROVE  EstablishInv'
    <3>1. s.inner \o <<End(raised)>> = v4
      <4>1. s.inner = <<mt, di, mu>> /\ End(raised) = e
        BY <1>1, <1>11, <1>13, <2>3
      <4>2. <<mt, di, mu>> \o <<e>> = <<mt, di, mu, e>>
        BY <1>3, ThreeAndOne
      <4> QED BY <1>4, <4>1, <4>2
    <3>2. t = a \o r
      <4>1. r \in Seq(Ahead)
        BY <2>1, AttemptsAhead
      <4>2. a \o r \in Seq(Ahead)
        BY <1>3, <4>1, ConcatProperties
      <4> QED BY <1>4, <2>1, <4>2, ConcatEmptySeq
    <3>3. todo' = v4 \o (a \o r)
      BY <2>5, <3>1, <3>2
    <3>4. v4 \in Seq(Ahead)
      BY <1>7 DEF OpensWith
    <3>5. Trying(v4, a)'
      BY <1>3, <2>1, <3>3, <3>4, TryingAgain
    <3> QED BY <1>15, <2>5, <3>5
  <2> QED BY <1>14, <2>4, <2>5
<1>17. ASSUME NEW how \in {"error", "cancel"}, NEW r, Attempts(r), held' = held,
              Unwind(v3 \o (a \o r), how) \/ Unwind(v2 \o (a \o r), how)
       PROVE  EstablishInv'
  <2>1. v3 \in Seq(Ahead) /\ Len(v3) = 3 /\ v3[1] = di /\ v3[2] = mu /\ v3[3] = e
    BY <1>3, <1>4
  <2>2. v2 \in Seq(Ahead) /\ Len(v2) = 2 /\ v2[1] = mu /\ v2[2] = e
    BY <1>3, <1>4
  <2>3. PICK one, two \in Nat \ {0} : one = 1 /\ two = 2
    OBVIOUS
  <2>6. ASSUME raised' = how, Trying(<<BluekTeardown, e>>, a)'
        PROVE  EstablishInv'
    <3>1. Undoing'
      BY <1>1, <1>2, <2>6 DEF Undoing
    <3> QED BY <1>13, <1>17, <3>1 DEF EstablishInv
  <2>4. CASE Unwind(v3 \o (a \o r), how)
    <3>1. /\ Len(v3) = two + 1 /\ v3[two] = mu /\ v3[two + 1] = e
          /\ \A i \in 1 .. two - 1 : v3[i].kind = "call"
      BY <1>12, <2>1, <2>3
    <3>2. raised' = how /\ Trying(<<BluekTeardown, e>>, a)'
      <4>1. mu = Mark("undo", <<BluekTeardown>>) /\ e = End("no") /\ v3 \in Seq(Ahead) /\ a \in Seq(Ahead)
        BY <1>1, <1>3, <2>1
      <4>2. Attempts(r) /\ Unwind(v3 \o (a \o r), how)
        BY <1>17, <2>4
      <4> QED BY <3>1, <4>1, <4>2, Undone
    <3> QED BY <2>6, <3>2
  <2>5. CASE Unwind(v2 \o (a \o r), how)
    <3>1. /\ Len(v2) = one + 1 /\ v2[one] = mu /\ v2[one + 1] = e
          /\ \A i \in 1 .. one - 1 : v2[i].kind = "call"
      BY <2>2, <2>3
    <3>2. raised' = how /\ Trying(<<BluekTeardown, e>>, a)'
      <4>1. mu = Mark("undo", <<BluekTeardown>>) /\ e = End("no") /\ v2 \in Seq(Ahead) /\ a \in Seq(Ahead)
        BY <1>1, <1>3, <2>2
      <4>2. Attempts(r) /\ Unwind(v2 \o (a \o r), how)
        BY <1>17, <2>5
      <4> QED BY <3>1, <4>1, <4>2, Undone
    <3> QED BY <2>6, <3>2
  <2> QED BY <1>17, <2>4, <2>5
<1>18. CASE Trying(v4, a)
  <2>1. \/ Idles
        \/ Trying(v3, a)' /\ raised' = raised /\ held' = (held \cup mt.gets) \ mt.frees
        \/ \E r, how : /\ Attempts(r) /\ how \in {"error", "cancel"}
                       /\ held' = held /\ Unwind(v3 \o (a \o r), how)
    BY <1>3, <1>7, <1>12, <1>18, CallNext
  <2>2. (held \cup mt.gets) \ mt.frees = held
    BY <1>12
  <2> QED BY <1>13, <1>14, <1>15, <1>17, <2>1, <2>2
<1>19. CASE Trying(v3, a)
  <2>1. \/ Idles
        \/ Trying(v2, a)' /\ raised' = raised /\ held' = (held \cup di.gets) \ di.frees
        \/ \E r, how : /\ Attempts(r) /\ how \in {"error", "cancel"}
                       /\ held' = held /\ Unwind(v2 \o (a \o r), how)
    BY <1>3, <1>7, <1>12, <1>19, CallNext
  <2>2. (held \cup di.gets) \ di.frees = held
    BY <1>12
  <2> QED BY <1>13, <1>14, <1>15, <1>17, <2>1, <2>2
<1>20. CASE Trying(v2, a)
  <2>1. Idles \/ (held' = held /\ Trying(v1, a)' /\ raised' = raised)
    BY <1>3, <1>7, <1>11, <1>20, MarkNext
  <2> QED BY <1>13, <1>14, <1>15, <2>1
<1>21. CASE Trying(v1, a)
  <2>1. Idles \/ (held' = held /\ Trying(d, a)' /\ raised' = e.saved)
    BY <1>3, <1>7, <1>11, <1>13, <1>21, MarkNext
  <2> QED BY <1>11, <1>14, <1>15, <2>1
<1>22. CASE Trying(d, a)
  <2>1. Trying(a, d)
    BY <1>3, <1>4, <1>22, TryingFrom
  <2>2. Idles \/ (held' = held /\ \E r : Attempts(r) /\ Unwind(w2 \o (d \o r), "return"))
    BY <1>8, <1>10, <1>11, <2>1, MarkNext
  <2>3. ASSUME held' = held, NEW r, Attempts(r), Unwind(w2 \o (d \o r), "return")
        PROVE  EstablishInv'
    <3>1. todo' = <<>> /\ raised' = "return"
      BY <1>1, <1>2, <1>4, <1>5, <2>3, AttemptReturns
    <3>2. Established'
      BY <1>13, <2>3 DEF Established
    <3> QED BY <1>13, <2>3, <3>1, <3>2 DEF GivenOut, Ended, EstablishInv
  <2> QED BY <1>14, <2>2, <2>3
<1> QED BY <1>13, <1>16, <1>18, <1>19, <1>20, <1>21, <1>22

\* While the failed connection is undone.
LEMMA UndoingMoves ==
  ASSUME EstablishInv, Undoing, Acts
  PROVE  EstablishInv'
<1>1. PICK t, e, a : t = BluekTeardown /\ e = End("no") /\ a = AfterConnect
  OBVIOUS
<1>2. t \in Ahead /\ e \in Ahead /\ a \in Seq(Ahead)
  BY <1>1, AttemptBuilt
<1>3. PICK v1, v2, d : v1 = <<e>> /\ v2 = <<t, e>> /\ d = <<>>
  OBVIOUS
<1>4. OpensWith(v2, t, v1) /\ OpensWith(v1, e, d)
  <2>1. PICK f3, f4 : f3 = <<t, t, e>> /\ f4 = <<t, t, t, e>>
    OBVIOUS
  <2> QED BY <1>2, <1>3, <2>1, Fronts
<1>5. d \in Seq(Ahead)
  BY <1>4 DEF OpensWith
<1>6. /\ t.kind = "call" /\ t.call # "readline" /\ ~ t.soft /\ ~ t.late
      /\ t.gets = {} /\ "channel" \in t.frees /\ t.can = {} /\ t.needs = {} /\ t.bars = {}
  BY <1>1, AttemptCalls
<1>7. e.kind = "end"
  BY <1>1 DEF End
<1>8. /\ raised \in {"error", "cancel"} /\ "peripheral" \notin held
      /\ Trying(v2, a) \/ (Unconnected /\ Trying(v1, a))
  BY <1>1, <1>3 DEF Undoing, EstablishInv
<1>9. Idles => EstablishInv'
  BY EstablishIdles DEF Acts
<1>10. CASE Trying(v2, a)
  <2>1. \/ Idles
        \/ Trying(v1, a)' /\ raised' = raised /\ held' = (held \cup t.gets) \ t.frees
        \/ \E how \in {"error", "cancel"} :
             IF how = "cancel" THEN "cancel" \in t.can ELSE "error" \in t.can \/ ~ Possible(t)
    BY <1>2, <1>4, <1>6, <1>10, CallNext
  <2>2. Possible(t)
    BY <1>6 DEF Possible
  <2>3. ASSUME Trying(v1, a)', raised' = raised, held' = (held \cup t.gets) \ t.frees
        PROVE  EstablishInv'
    <3>1. "channel" \notin held' /\ "peripheral" \notin held'
      BY <1>6, <1>8, <2>3
    <3>2. Undoing'
      BY <1>1, <1>3, <1>8, <2>3, <3>1 DEF Undoing, Unconnected
    <3> QED BY <3>1, <3>2 DEF EstablishInv
  <2> QED BY <1>6, <1>9, <2>1, <2>2, <2>3
<1>11. CASE Unconnected /\ Trying(v1, a)
  <2>1. Idles \/ (held' = held /\ \E r : Attempts(r) /\ Unwind(d \o (a \o r), raised))
    BY <1>2, <1>4, <1>7, <1>8, <1>11, MarkNext
  <2>2. ASSUME held' = held, NEW r, Attempts(r), Unwind(d \o (a \o r), raised)
        PROVE  EstablishInv'
    <3>1. PICK how \in {"error", "cancel"} : how = raised
      BY <1>8
    <3>2. Unwind(d \o (AfterConnect \o r), how)
      BY <1>1, <2>2, <3>1 DEF Unwind
    <3>3. Unconnected'
      BY <1>11, <2>2 DEF Unconnected
    <3>4. \A i \in 1 .. Len(d) : d[i].kind \in {"call", "block"}
      BY <1>3
    <3>5. Retrying' \/ GivenOut'
      BY <1>5, <2>2, <3>2, <3>3, <3>4, AttemptFails
    <3> QED BY <1>8, <2>2, <3>5 DEF EstablishInv
  <2> QED BY <1>9, <2>1, <2>2
<1> QED BY <1>8, <1>10, <1>11

\* Between a failed attempt and the next.
LEMMA RetryingMoves ==
  ASSUME EstablishInv, Retrying, Acts
  PROVE  EstablishInv'
<1>1. PICK t, w, e : t = BluekTeardown /\ w = Wait("sleep") /\ e = End("no")
  OBVIOUS
<1>2. t \in Ahead /\ w \in Ahead /\ e \in Ahead
  BY <1>1, AttemptBuilt
<1>3. PICK v1, v2, d, b : v1 = <<w>> /\ v2 = <<t, w>> /\ d = <<>> /\ b = <<e>>
  OBVIOUS
<1>4. PICK f3, f4 : f3 = <<t, t, w>> /\ f4 = <<t, t, t, w>>
  OBVIOUS
<1>5. OpensWith(v2, t, v1) /\ OpensWith(v1, w, d)
  BY <1>2, <1>3, <1>4, Fronts
<1>6. OpensWith(b, e, d)
  <2>1. PICK g2, g3, g4 : g2 = <<e, e>> /\ g3 = <<e, e, e>> /\ g4 = <<e, e, e, e>>
    OBVIOUS
  <2> QED BY <1>2, <1>3, <2>1, Fronts
<1>7. d \in Seq(Ahead) /\ b \in Seq(Ahead)
  BY <1>6 DEF OpensWith
<1>8. /\ t.kind = "call" /\ t.call # "readline" /\ ~ t.soft /\ ~ t.late
      /\ t.gets = {} /\ "channel" \in t.frees /\ t.can = {} /\ t.needs = {} /\ t.bars = {}
  BY <1>1, AttemptCalls
<1>9. /\ w.kind = "call" /\ w.call # "readline" /\ ~ w.soft /\ ~ w.late
      /\ w.gets = {} /\ w.frees = {} /\ w.can = {"cancel"} /\ w.needs = {} /\ w.bars = {}
  BY <1>1, AttemptCalls
<1>10. e.kind = "end" /\ e.saved = "no"
  BY <1>1 DEF End
<1>11. /\ raised = "no" /\ "peripheral" \notin held
       /\ Trying(v2, b) \/ (Unconnected /\ (Trying(v1, b) \/ Trying(d, b)))
  BY <1>1, <1>3 DEF Retrying, EstablishInv
<1>12. Idles => EstablishInv'
  BY EstablishIdles DEF Acts
<1>13. CASE Trying(v2, b)
  <2>1. \/ Idles
        \/ Trying(v1, b)' /\ raised' = raised /\ held' = (held \cup t.gets) \ t.frees
        \/ \E how \in {"error", "cancel"} :
             IF how = "cancel" THEN "cancel" \in t.can ELSE "error" \in t.can \/ ~ Possible(t)
    BY <1>5, <1>7, <1>8, <1>13, CallNext
  <2>2. Possible(t)
    BY <1>8 DEF Possible
  <2>3. ASSUME Trying(v1, b)', raised' = raised, held' = (held \cup t.gets) \ t.frees
        PROVE  EstablishInv'
    <3>1. "channel" \notin held' /\ "peripheral" \notin held'
      BY <1>8, <1>11, <2>3
    <3>2. Retrying'
      BY <1>1, <1>3, <1>11, <2>3, <3>1 DEF Retrying, Unconnected
    <3> QED BY <3>1, <3>2 DEF EstablishInv
  <2> QED BY <1>8, <1>12, <2>1, <2>2, <2>3
<1>14. CASE Unconnected /\ Trying(v1, b)
  <2>1. \/ Idles
        \/ Trying(d, b)' /\ raised' = raised /\ held' = (held \cup w.gets) \ w.frees
        \/ \E r, how : /\ Attempts(r) /\ how \in {"error", "cancel"}
                       /\ held' = held /\ Unwind(d \o (b \o r), how)
    BY <1>5, <1>7, <1>9, <1>14, CallNext
  <2>2. (held \cup w.gets) \ w.frees = held
    BY <1>9
  <2>3. ASSUME Trying(d, b)', raised' = raised, held' = held
        PROVE  EstablishInv'
    <3>1. Retrying'
      BY <1>1, <1>3, <1>11, <1>14, <2>3 DEF Retrying, Unconnected
    <3> QED BY <1>11, <2>3, <3>1 DEF EstablishInv
  <2>4. ASSUME NEW r, NEW how \in {"error", "cancel"}, Attempts(r), held' = held, Unwind(d \o (b \o r), how)
        PROVE  EstablishInv'
    <3>1. r \in Seq(Ahead)
      BY <2>4, AttemptsAhead
    <3>2. PICK q : q = b \o r
      OBVIOUS
    <3>3. q \in Seq(Ahead)
      BY <1>7, <3>1, <3>2, ConcatProperties
    <3>4. Unwind(d \o q, how)
      BY <2>4, <3>2 DEF Unwind
    <3>5. Len(d) = 0 /\ Len(b) = 1 /\ b[1] = e
      BY <1>3
    <3>6. Unwind(q, how)
      BY <1>7, <3>3, <3>4, <3>5, UnwindJoined
    <3>7. Unwind(b \o r, how)
      BY <3>2, <3>6 DEF Unwind
    <3>8. \A i \in 1 .. Len(b) : ~ Lands(b[i], how)
      BY <1>10, <3>5 DEF Lands
    <3>9. Unwind(r, how)
      BY <1>7, <3>1, <3>7, <3>8, UnwindJoined
    <3>10. \A i \in 1 .. Len(r) : ~ Lands(r[i], how)
      BY <2>4, AttemptsAhead DEF Lands
    <3>11. todo' = <<>> /\ raised' = how
      BY <3>9, <3>10, Uncaught
    <3> QED BY <1>11, <1>14, <2>4, <3>11 DEF GivenOut, Ended, Unconnected, EstablishInv
  <2> QED BY <1>11, <1>12, <2>1, <2>2, <2>3, <2>4
<1>15. CASE Unconnected /\ Trying(d, b)
  <2>1. Trying(b, d)
    BY <1>3, <1>7, <1>15, TryingFrom
  <2>2. Idles \/ (held' = held /\ Trying(d, d)' /\ raised' = e.saved)
    BY <1>6, <1>7, <1>10, <1>11, <2>1, MarkNext
  <2>3. ASSUME held' = held, Trying(d, d)', raised' = "no"
        PROVE  EstablishInv'
    <3>1. AtAttempt'
      BY <1>3, <1>15, <2>3 DEF AtAttempt, Unconnected
    <3> QED BY <1>11, <2>3, <3>1 DEF EstablishInv
  <2> QED BY <1>10, <1>12, <2>2, <2>3
<1> QED BY <1>11, <1>13, <1>14, <1>15

\* What establish_connection does keeps its invariant.
LEMMA NextEstablish ==
  ASSUME EstablishInv, Acts, Moves, raised \in Kinds
  PROVE  EstablishInv'
<1>1. CASE GivenOut
  <2>1. Idles
    BY <1>1 DEF Acts, GivenOut, Ended
  <2> QED BY <2>1, EstablishIdles DEF Acts
<1> QED BY <1>1, AtAttemptMoves, BeforeConnectMoves, ConnectedMoves, UndoingMoves, RetryingMoves DEF EstablishInv

\* It begins with four attempts.
LEMMA InitEstablish ==
  ASSUME Init, job.kind = "establish"
  PROVE  EstablishInv
<1>1. PICK S : S = {Opening("client_class"), AttemptBlock, Raise("error")}
  OBVIOUS
<1>2. PICK a, x : a = Attempt /\ x = <<Raise("error")>>
  OBVIOUS
<1>3. a \in Seq(S) /\ x \in Seq(S) /\ Len(x) = 1 /\ x[1] = Raise("error")
  <2>1. PICK o, k : o = Opening("client_class") /\ k = AttemptBlock
    OBVIOUS
  <2>2. Attempt = <<o, k>>
    BY <2>1 DEF AttemptBlock, Attempt
  <2> QED BY <1>1, <1>2, <2>1, <2>2
<1>4. PICK p : p = ((a \o a) \o a) \o a
  OBVIOUS
<1>5. p \in Seq(S)
  <2>1. a \o a \in Seq(S)
    BY <1>3, ConcatProperties
  <2>2. (a \o a) \o a \in Seq(S)
    BY <1>3, <2>1, ConcatProperties
  <2> QED BY <1>3, <1>4, <2>2, ConcatProperties
<1>6. PICK r : r = p \o x
  OBVIOUS
<1>7. todo = r
  <2>1. todo = Establish
    BY DEF Init, Program
  <2>2. Establish = (((a \o a) \o a) \o a) \o x
    BY <1>2 DEF Establish
  <2> QED BY <1>4, <1>6, <2>1, <2>2
<1>8. r \in Seq(S) /\ Len(p) \in Nat /\ Len(r) = Len(p) + 1 /\ r[Len(p) + 1] = Raise("error")
  <2>1. p \in Seq(S) /\ x \in Seq(S)
    BY <1>3, <1>5
  <2>2. /\ p \o x \in Seq(S)
        /\ Len(p) \in Nat /\ Len(x) \in Nat /\ Len(p \o x) = Len(p) + Len(x)
        /\ \A i \in 1 .. Len(x) : (p \o x)[Len(p) + i] = x[i]
    BY <2>1, Joined
  <2>3. 1 \in 1 .. Len(x)
    BY <1>3
  <2> QED BY <1>3, <1>6, <2>2, <2>3
<1>9. r # <<>>
  BY <1>8, EmptySeq
<1>10. Attempts(r)
  <2>1. r[Len(r)] = Raise("error")
    BY <1>8
  <2> QED BY <1>1, <1>8, <1>9, <2>1 DEF Attempts
<1>11. r \in Seq(Ahead)
  BY <1>10, AttemptsAhead
<1>12. PICK d, n : d = <<>> /\ n = Len(r)
  OBVIOUS
<1>13. d \in Seq(Ahead) /\ n \in Nat /\ d \o (d \o r) = r
  BY <1>11, <1>12, EmptySeq, ConcatEmptySeq, LenProperties
<1>14. SubSeq(r, 0 + 1, n) = r
  <2>1. Len(d) = 0 /\ r \o d = r /\ d \o r = r
    BY <1>11, <1>12, ConcatEmptySeq
  <2>2. SubSeq(d \o (r \o d), Len(d) + 1, Len(d) + Len(r)) = r
    BY <1>11, <1>13, Between
  <2>3. Len(d) + 1 = 0 + 1 /\ Len(d) + Len(r) = n
    BY <1>12, <1>13, <2>1
  <2> QED BY <2>1, <2>2, <2>3
<1>15. Trying(d, d)
  <2>1. 0 \in 0 .. Len(todo)
    BY <1>7, <1>12, <1>13
  <2>2. LET q == SubSeq(todo, 0 + 1, Len(todo)) IN Attempts(q) /\ todo = d \o (d \o q)
    BY <1>7, <1>10, <1>12, <1>13, <1>14
  <2> QED BY <2>1, <2>2 DEF Trying
<1>16. raised = "no" /\ "channel" \notin held /\ "peripheral" \notin held
  BY DEF Init, AtFirst
<1> QED BY <1>12, <1>15, <1>16 DEF AtAttempt, Unconnected, EstablishInv

-----------------------------------------------------------------------------
(* pair.                                                                    *)

Listed(l, a, b, c, d, e, f) == l = <<a, b, c, d, e, f>>

\* Six elements, one by one.
LEMMA SixIs ==
  ASSUME NEW S, NEW w \in Seq(S), Len(w) = 6, NEW l, Listed(l, w[1], w[2], w[3], w[4], w[5], w[6])
  PROVE  w = l
<1> l = <<w[1], w[2], w[3], w[4], w[5], w[6]>>
  BY DEF Listed
<1>1. PICK a, b, c, d, e, f : a = w[1] /\ b = w[2] /\ c = w[3] /\ d = w[4] /\ e = w[5] /\ f = w[6]
  OBVIOUS
<1>2. a \in S /\ b \in S /\ c \in S /\ d \in S /\ e \in S /\ f \in S
  <2>1. /\ 1 \in 1 .. Len(w) /\ 2 \in 1 .. Len(w) /\ 3 \in 1 .. Len(w)
        /\ 4 \in 1 .. Len(w) /\ 5 \in 1 .. Len(w) /\ 6 \in 1 .. Len(w)
    OBVIOUS
  <2> QED BY <1>1, <2>1, ElementOfSeq
<1>3. l = <<a, b, c, d, e, f>>
  BY <1>1
<1>4. l \in Seq(S) /\ Len(l) = 6
  BY <1>2, <1>3
<1>5. l[1] = a /\ l[2] = b /\ l[3] = c /\ l[4] = d /\ l[5] = e /\ l[6] = f
  BY <1>3
<1>6. \A i \in 1 .. Len(w) : w[i] = l[i]
  <2>1. 1 .. Len(w) = {1, 2, 3, 4, 5, 6}
    OBVIOUS
  <2> QED BY <1>1, <1>5, <2>1
<1> QED BY <1>4, <1>6, SeqEqual

\* The steps of pair, named.
PairNames(a, y, v, b, o, r, m, t, x, e, k) ==
  /\ a = Ask("send") /\ y = Maybe(<<a>>) /\ v = Ask("verdict") /\ b = PairBlock
  /\ o = Getting({"bluetoothctl"}, Await("spawn_bluetoothctl"))
  /\ r = ReadLines /\ m = Mark("finally", <<>>) /\ t = Ask("trust")
  /\ x = Stop("bluetoothctl") /\ e = End("no") /\ k = Opening("callback")

\* What they are.
PairFacts(a, y, v, b, o, r, m, t, x, e, k) ==
  /\ {a, y, v, b, o, r, m, t, x, e, k} \subseteq Ahead
  /\ Pair = <<o, y, a, a, a, b, v>> /\ PairEnd = <<m, t, a, x, e, v>>
  /\ b.kind = "block" /\ b.inner = <<r>> \o <<m>> \o <<t, a, x>>
  /\ a.kind = "send" /\ y.kind = "maybe" /\ y.inner = <<a>> /\ v.kind = "verdict" /\ t.kind = "trust"
  /\ m.kind = "finally" /\ m.handler = <<>> /\ e.kind = "end" /\ e.saved = "no"
  /\ \A c \in {o, x, k} : c.kind = "call" /\ c.call # "readline" /\ ~ c.soft /\ ~ c.late
  /\ o.gets = {"bluetoothctl"} /\ o.frees = {} /\ k.gets = {} /\ k.frees = {} /\ k.can = {"error"}
  /\ x.can = {"cancel"} /\ x.needs = {} /\ x.bars = {}
  /\ r.kind = "call" /\ r.call = "readline" /\ r.can = {"cancel"} /\ r.needs = {} /\ r.bars = {}
  /\ r.gets = {} /\ r.frees = {} /\ ~ r.soft /\ ~ r.late

\* These they are.
LEMMA PairSteps ==
  ASSUME NEW a, NEW y, NEW v, NEW b, NEW o, NEW r, NEW m, NEW t, NEW x, NEW e, NEW k,
         PairNames(a, y, v, b, o, r, m, t, x, e, k)
  PROVE  PairFacts(a, y, v, b, o, r, m, t, x, e, k)
<1> /\ a = Ask("send") /\ y = Maybe(<<a>>) /\ v = Ask("verdict") /\ b = PairBlock
    /\ o = Getting({"bluetoothctl"}, Await("spawn_bluetoothctl"))
    /\ r = ReadLines /\ m = Mark("finally", <<>>) /\ t = Ask("trust")
    /\ x = Stop("bluetoothctl") /\ e = End("no") /\ k = Opening("callback")
  BY DEF PairNames
<1>1. {"spawn_bluetoothctl", "readline", "stop", "callback"} \subseteq CallNames /\ "bluetoothctl" \in Children
  BY DEF CallNames, Children
<1>2. a.kind = "send" /\ v.kind = "verdict" /\ t.kind = "trust"
  BY DEF Ask
<1>3. y.kind = "maybe" /\ y.inner = <<a>>
  BY DEF Maybe
<1>4. m.kind = "finally" /\ m.handler = <<>> /\ e.kind = "end" /\ e.saved = "no"
  BY DEF Mark, End
<1>5. /\ o.kind = "call" /\ o.call # "readline" /\ ~ o.soft /\ ~ o.late
      /\ o.gets = {"bluetoothctl"} /\ o.frees = {}
  BY DEF Getting, Await, Call
<1>6. /\ k.kind = "call" /\ k.call # "readline" /\ ~ k.soft /\ ~ k.late
      /\ k.gets = {} /\ k.frees = {} /\ k.can = {"error"}
  BY DEF Opening, Call
<1>7. /\ x.kind = "call" /\ x.call # "readline" /\ ~ x.soft /\ ~ x.late
      /\ x.can = {"cancel"} /\ x.needs = {} /\ x.bars = {}
  BY DEF Stop, Freeing, Wait, Call
<1>8. /\ r.kind = "call" /\ r.call = "readline" /\ r.can = {"cancel"} /\ r.needs = {} /\ r.bars = {}
      /\ r.gets = {} /\ r.frees = {} /\ ~ r.soft /\ ~ r.late
  BY DEF ReadLines, Wait, Call
<1>9. b = [kind |-> "block", inner |-> <<r>> \o <<m>> \o <<t, a, x>>]
  BY DEF PairBlock, Finally, Block
<1>10. b.kind = "block" /\ b.inner = <<r>> \o <<m>> \o <<t, a, x>>
  BY <1>9
<1>11. Pair = <<o, y, a, a, a, b, v>>
  BY DEF Pair, PairBlock
<1>12. PairEnd = <<m, t, a, x, e, v>>
  BY DEF PairEnd
<1>13. Nest(Returning) \subseteq Ahead
  BY Levels, NestGrows DEF Planned
<1>14. o \in Ahead /\ y \in Ahead /\ a \in Ahead /\ b \in Ahead /\ v \in Ahead
  <2>1. PICK p : p = Pair
    OBVIOUS
  <2>2. p \in Seq(Nest(Returning))
    BY <2>1, PairBuilt
  <2>3. Len(p) = 7 /\ p[1] = o /\ p[2] = y /\ p[3] = a /\ p[6] = b /\ p[7] = v
    BY <1>11, <2>1
  <2>4. 1 \in 1 .. Len(p) /\ 2 \in 1 .. Len(p) /\ 3 \in 1 .. Len(p) /\ 6 \in 1 .. Len(p) /\ 7 \in 1 .. Len(p)
    BY <2>3
  <2>5. p[1] \in Ahead /\ p[2] \in Ahead /\ p[3] \in Ahead /\ p[6] \in Ahead /\ p[7] \in Ahead
    BY <1>13, <2>2, <2>4, ElementOfSeq
  <2> QED BY <2>3, <2>5
<1>15. r \in Ahead /\ k \in Ahead
  BY <1>1, CallsBuilt, Levels DEF ReadLines
<1>16. t \in Ahead /\ x \in Ahead
  <2>1. t \in Cleanup
    BY DEF Cleanup
  <2>2. x \in Cleanup
    BY <1>1, StopBuilt, Levels
  <2> QED BY <2>1, <2>2, Levels
<1>17. m \in Ahead /\ e \in Ahead
  <2>1. <<>> \in Seq(Cleanup)
    BY EmptySeq
  <2> QED BY <2>1 DEF Mark, Marks, End, Ends, Kinds, Ahead
<1> QED BY <1>2, <1>3, <1>4, <1>5, <1>6, <1>7, <1>8, <1>10, <1>11, <1>12, <1>14, <1>15, <1>16, <1>17 DEF PairFacts

\* Steps of a set that come to be before the given ones.
LEMMA PartAgain ==
  ASSUME NEW S, S \subseteq Ahead, NEW p, p \in Seq(S), NEW q \in Seq(Ahead), todo' = p \o q
  PROVE  PartOf(Seq(S), q)'
<1>1. PICK t, e : t = p \o q /\ e = <<>>
  OBVIOUS
<1>2. p \in Seq(Ahead) /\ e \in Seq(Ahead)
  BY <1>1, SeqMonotonic, EmptySeq
<1>3. t \in Seq(Ahead) /\ Len(p) \in Nat /\ Len(q) \in Nat /\ Len(t) = Len(p) + Len(q)
  BY <1>1, <1>2, Joined
<1>4. SubSeq(t, 1, Len(p)) = p
  <2>1. Len(e) = 0 /\ e \o t = t
    BY <1>1, <1>3, ConcatEmptySeq
  <2>2. SubSeq(e \o (p \o q), Len(e) + 1, Len(e) + Len(p)) = p
    BY <1>2, Between
  <2>3. Len(e) + 1 = 1 /\ Len(e) + Len(p) = Len(p)
    BY <1>3, <2>1
  <2> QED BY <1>1, <2>1, <2>2, <2>3
<1>5. Len(p) \in 0 .. Len(t)
  BY <1>3
<1>6. \E i \in 0 .. Len(t) : LET s == SubSeq(t, 1, i) IN s \in Seq(S) /\ t = s \o q
  BY <1>1, <1>4, <1>5
<1>7. todo' = t
  BY <1>1
<1> QED BY <1>6, <1>7 DEF PartOf

\* Only a line that is read can tell of success.
LEMMA SuccessIsRead ==
  ASSUME Acts, todo # <<>> => Step.kind # "call" \/ Step.call # "readline"
  PROVE  paired' = paired
BY DEF Acts, Idles, Returns, Fails, IsCut, Reads, Speaks, Judges, Others

\* What comes of a line that is sent, with what is behind it.
LEMMA SendMoves ==
  ASSUME Acts, todo # <<>>, Step.kind \in {"send", "trust"}, NEW t, t = Tail(todo)
  PROVE  \/ Idles
         \/ held' = held /\ paired' = paired /\ todo' = t /\ raised' = raised
         \/ held' = held /\ paired' = paired /\ "bluetoothctl" \notin held /\ Unwind(t, "error")
<1>1. CASE Speaks
  <2>1. held' = held /\ paired' = paired
    BY <1>1 DEF Speaks
  <2>2. CASE GoesOn
    BY <2>1, <2>2 DEF GoesOn
  <2>3. CASE "bluetoothctl" \notin held /\ Throws("error")
    <3>1. Unwind(t, "error")
      BY <2>3 DEF Throws, Unwind
    <3> QED BY <2>1, <2>3, <3>1
  <2> QED BY <1>1, <2>2, <2>3 DEF Speaks
<1> QED BY <1>1 DEF Acts

\* Lines that are sent and a callback, before others.
LEMMA PlainMoves ==
  ASSUME Acts, NEW a, a = Ask("send"), NEW S, S \subseteq {Opening("callback"), a, Maybe(<<a>>)}, a \in S,
         NEW p, p \in Seq(S), p # <<>>, NEW q \in Seq(Ahead), todo = p \o q
  PROVE  \/ Idles
         \/ /\ held' = held /\ paired' = paired
            /\ \/ (\E z : z \in Seq(S) /\ todo' = z \o q) /\ raised' = raised
               \/ Unwind(q, "error")
<1>1. PICK y, k, b, v, o, r, m, g, x, e : PairNames(a, y, v, b, o, r, m, g, x, e, k)
  BY DEF PairNames
<1>2. /\ {a, y, k} \subseteq Ahead
      /\ a.kind = "send" /\ y.kind = "maybe" /\ y.inner = <<a>>
      /\ k.kind = "call" /\ k.call # "readline" /\ ~ k.soft /\ ~ k.late
      /\ k.gets = {} /\ k.frees = {} /\ k.can = {"error"}
  <2>1. PairFacts(a, y, v, b, o, r, m, g, x, e, k)
    BY <1>1, PairSteps
  <2> QED BY <2>1 DEF PairFacts
<1>3. S \subseteq Ahead /\ \A s \in S : s \in {k, a, y}
  BY <1>1, <1>2 DEF PairNames
<1>4. p \in Seq(Ahead)
  BY <1>3, SeqMonotonic
<1>5. todo # <<>> /\ Step = p[1] /\ Tail(todo) = Tail(p) \o q
  BY <1>4, InFront
<1>6. p[1] \in S /\ Tail(p) \in Seq(S)
  BY HeadAndTail
<1>7. PICK z, t : z = Tail(p) /\ t = z \o q
  OBVIOUS
<1>8. z \in Seq(S) /\ z \in Seq(Ahead) /\ t = Tail(todo) /\ t \in Seq(Ahead)
  <2>1. z \in Seq(S)
    BY <1>6, <1>7
  <2>2. z \in Seq(Ahead)
    BY <1>3, <2>1, SeqMonotonic
  <2>3. z \o q \in Seq(Ahead)
    BY <2>2, ConcatProperties
  <2> QED BY <1>5, <1>7, <2>1, <2>2, <2>3
<1>9. ASSUME NEW how, Unwind(t, how)
      PROVE  Unwind(q, how)
  <2>1. \A i \in 1 .. Len(z) : ~ Lands(z[i], how)
    <3>1. ASSUME NEW i \in 1 .. Len(z)
          PROVE  z[i].kind \in {"send", "maybe", "call"}
      <4>1. z[i] \in S
        BY <1>8, ElementOfSeq
      <4> QED BY <1>2, <1>3, <4>1
    <3> QED BY <3>1 DEF Lands
  <2>2. Unwind(z \o q, how)
    BY <1>7, <1>9 DEF Unwind
  <2> QED BY <1>8, <2>1, <2>2, UnwindJoined
<1>10. PICK s : s = Step
  OBVIOUS
<1>11. s \in {k, a, y} /\ s = Step
  BY <1>3, <1>5, <1>6, <1>10
<1>12. s.kind # "call" \/ s.call # "readline"
  BY <1>2, <1>11
<1>13. paired' = paired
  BY <1>11, <1>12, SuccessIsRead
<1>14. CASE s = k
  <2>1. s.kind = "call" /\ s.call # "readline" /\ ~ s.soft /\ ~ s.late
    BY <1>2, <1>14
  <2>2. \/ Idles
        \/ todo' = t /\ raised' = raised /\ held' = (held \cup s.gets) \ s.frees
        \/ \E how \in {"error", "cancel"} :
             /\ held' = held /\ Unwind(t, how)
             /\ IF how = "cancel" THEN "cancel" \in s.can ELSE "error" \in s.can \/ ~ Possible(s)
    <3>1. todo # <<>> /\ s = Step /\ t = Tail(todo)
      BY <1>5, <1>8, <1>11
    <3> QED BY <2>1, <3>1, Called
  <2>3. (held \cup s.gets) \ s.frees = held /\ "cancel" \notin s.can
    BY <1>2, <1>14
  <2> QED BY <1>7, <1>8, <1>9, <1>13, <2>2, <2>3
<1>15. CASE s = a
  <2>1. Step.kind \in {"send", "trust"}
    BY <1>2, <1>11, <1>15
  <2>2. \/ Idles
        \/ held' = held /\ paired' = paired /\ todo' = t /\ raised' = raised
        \/ held' = held /\ paired' = paired /\ "bluetoothctl" \notin held /\ Unwind(t, "error")
    BY <1>5, <1>8, <2>1, SendMoves
  <2> QED BY <1>7, <1>8, <1>9, <2>2
<1>16. CASE s = y
  <2>1. Step.kind = "maybe" /\ Step.inner = <<a>>
    BY <1>2, <1>11, <1>16
  <2>2. Idles \/ Others
    BY <2>1 DEF Acts
  <2>3. CASE Others
    <3>1. held' = held /\ Moves
      BY <2>3 DEF Others
    <3>2. CASE Stays
      BY <1>13, <3>1, <3>2 DEF Idles
    <3>3. ~ GoesOn /\ ~ Opens /\ ~ Closes /\ ~ Asks
      BY <2>1 DEF GoesOn, Opens, Closes, Asks
    <3>4. \A how : ~ Throws(how)
      BY <2>1 DEF Throws
    <3>5. CASE Turns
      <4>1. raised' = raised
        BY <3>5 DEF Turns
      <4>2. PICK l, d : l = <<a>> /\ d = <<>>
        OBVIOUS
      <4>3. todo' = d \o t \/ todo' = l \o t
        <5>1. \E u \in {<<>>, Step.inner} : todo' = u \o Tail(todo)
          BY <3>5 DEF Turns
        <5> QED BY <1>8, <2>1, <4>2, <5>1
      <4>4. l \in Seq(S) /\ l \in Seq(Ahead)
        BY <1>2, <4>2
      <4>5. l \o z \in Seq(S) /\ l \o t = (l \o z) \o q
        <5>1. l \o z \in Seq(S)
          BY <1>8, <4>4, ConcatProperties
        <5>2. l \o (z \o q) = (l \o z) \o q
          BY <1>8, <4>4, Regrouped
        <5> QED BY <1>7, <5>1, <5>2
      <4>6. d \o t = t
        BY <1>8, <4>2, ConcatEmptySeq
      <4> QED BY <1>7, <1>8, <1>13, <3>1, <4>1, <4>3, <4>5, <4>6
    <3> QED BY <3>1, <3>2, <3>3, <3>4, <3>5 DEF Moves
  <2> QED BY <2>2, <2>3
<1> QED BY <1>11, <1>14, <1>15, <1>16

\* What is lost while nothing is done.
LEMMA PairIdles ==
  ASSUME Idles, failed \subseteq failed', PairInv
  PROVE  PairInv'
<1>1. todo' = todo /\ raised' = raised /\ paired' = paired /\ (ChildKnown => ChildKnown')
  BY DEF Idles, Stays, ChildKnown
<1>2. \A set, rest : PartOf(set, rest) => PartOf(set, rest)'
  BY <1>1 DEF PartOf
<1>3. PairAhead => PairAhead'
  BY <1>1, <1>2 DEF PairAhead
<1>4. \A n \in 0 .. Len(PairEnd) - 1 : PairBehind(n) => PairBehind(n)'
  BY <1>1 DEF PairBehind
<1>5. PairOver => PairOver'
  BY <1>1 DEF PairOver, Ended
<1> QED BY <1>3, <1>4, <1>5 DEF PairInv

\* The next of the last steps of a sequence.
LEMMA SuffixStep ==
  ASSUME NEW b \in Seq(Ahead), NEW n \in 0 .. Len(b) - 1, todo = SubSeq(b, n + 1, Len(b)),
         NEW rest, rest = SubSeq(b, (n + 1) + 1, Len(b))
  PROVE  /\ todo # <<>> /\ Step = b[n + 1] /\ Tail(todo) = rest
         /\ rest \in Seq(Ahead) /\ Without(rest, b, n + 1)
<1>1. Len(b) \in Nat /\ n + 1 \in 1 .. Len(b)
  BY LenProperties
<1>2. b[n + 1] \in Ahead /\ rest \in Seq(Ahead) /\ Without(rest, b, n + 1)
  BY <1>1, ElementOfSeq, Beyond
<1>3. todo = <<b[n + 1]>> \o rest
  <2>1. n + 1 <= Len(b) /\ n + 1 \in Int /\ Len(b) \in Int
    BY <1>1
  <2>2. \A i \in n + 1 .. Len(b) : b[i] \in Ahead
    BY <1>1, ElementOfSeq
  <2> QED BY <2>1, <2>2, SubSeqRecursiveFirst
<1>4. PICK s, u : s = b[n + 1] /\ u = <<s>>
  OBVIOUS
<1>5. s \in Ahead /\ todo = u \o rest
  BY <1>2, <1>3, <1>4
<1> QED BY <1>2, <1>4, <1>5, NextIs

\* Nothing catches an exception behind the loop.
LEMMA PairEndUnwound ==
  ASSUME NEW b, b = PairEnd, NEW n \in 1 .. 6, NEW rest, rest \in Seq(Ahead), Without(rest, b, n),
         NEW how, Unwind(rest, how)
  PROVE  todo' = <<>> /\ raised' = how
<1>1. PICK a, y, v, d, o, r, m, t, x, e, k : PairNames(a, y, v, d, o, r, m, t, x, e, k)
  BY DEF PairNames
<1>2. PairFacts(a, y, v, d, o, r, m, t, x, e, k)
  BY <1>1, PairSteps
<1>3. b = <<m, t, a, x, e, v>>
  BY <1>2 DEF PairFacts
<1>4. Len(b) = 6 /\ b[2] = t /\ b[3] = a /\ b[4] = x /\ b[5] = e /\ b[6] = v
  BY <1>3
<1>5. t.kind = "trust" /\ a.kind = "send" /\ x.kind = "call" /\ e.kind = "end" /\ v.kind = "verdict"
  BY <1>2 DEF PairFacts
<1>6. \A i \in 2 .. 6 : ~ Lands(b[i], how)
  <2>1. \A i \in 2 .. 6 : i \in {2, 3, 4, 5, 6}
    OBVIOUS
  <2> QED BY <1>4, <1>5, <2>1 DEF Lands
<1>7. \A i \in 1 .. Len(rest) : ~ Lands(rest[i], how)
  <2>1. ASSUME NEW i \in 1 .. Len(rest)
        PROVE  ~ Lands(rest[i], how)
    <3>1. rest[i] = b[n + i] /\ Len(rest) = 6 - n
      BY <1>4, <2>1 DEF Without
    <3>2. n + i \in 2 .. 6
      BY <3>1
    <3> QED BY <1>6, <3>1, <3>2
  <2> QED BY <2>1
<1> QED BY <1>7, Uncaught

\* Behind the loop.
LEMMA PairBehindMoves ==
  ASSUME Acts, raised \in Kinds, NEW n \in 0 .. Len(PairEnd) - 1, PairBehind(n)
  PROVE  PairInv'
<1>1. PICK a, y, v, d, o, r, m, t, x, e, k : PairNames(a, y, v, d, o, r, m, t, x, e, k)
  BY DEF PairNames
<1>2. PairFacts(a, y, v, d, o, r, m, t, x, e, k)
  BY <1>1, PairSteps
<1>3. PICK b : b = PairEnd
  OBVIOUS
<1>4. /\ m \in Ahead /\ t \in Ahead /\ a \in Ahead /\ x \in Ahead /\ e \in Ahead /\ v \in Ahead
      /\ b = <<m, t, a, x, e, v>>
  BY <1>2, <1>3 DEF PairFacts
<1>5. b \in Seq(Ahead) /\ Len(b) = 6
  BY <1>4
<1>6. b[1] = m /\ b[2] = t /\ b[3] = a /\ b[4] = x /\ b[5] = e /\ b[6] = v
  BY <1>4
<1>7. PICK rest : rest = SubSeq(b, (n + 1) + 1, Len(b))
  OBVIOUS
<1>8. /\ todo # <<>> /\ Step = b[n + 1] /\ Tail(todo) = rest
      /\ rest \in Seq(Ahead) /\ Without(rest, b, n + 1)
  <2>1. todo = SubSeq(b, n + 1, Len(b)) /\ n \in 0 .. Len(b) - 1
    BY <1>3 DEF PairBehind
  <2> QED BY <1>5, <1>7, <2>1, SuffixStep
<1>9. n \in 0 .. 5 /\ n \in {0, 1, 2, 3, 4, 5}
  BY <1>3, <1>5
<1>10. /\ raised # "return" /\ failed \subseteq failed'
       /\ paired => raised = "no" /\ (n <= 2 => ChildKnown)
  BY DEF PairBehind, Acts
<1>11. Idles => PairInv'
  BY <1>10, PairIdles DEF PairInv
<1>12. ASSUME n # 5, todo' = rest, raised' # "return", paired' = paired, paired => raised' = "no",
              n <= 1 => held' = held
       PROVE  PairInv'
  <2>1. n + 1 \in 0 .. Len(PairEnd) - 1
    BY <1>3, <1>5, <1>9, <1>12
  <2>2. todo' = SubSeq(PairEnd, (n + 1) + 1, Len(PairEnd))
    BY <1>3, <1>7, <1>12
  <2>3. paired' /\ n + 1 <= 2 => ChildKnown'
    <3>1. n + 1 <= 2 => n <= 1 /\ n <= 2
      BY <1>9
    <3> QED BY <1>10, <1>12, <3>1 DEF ChildKnown
  <2>4. PairBehind(n + 1)'
    BY <1>12, <2>2, <2>3 DEF PairBehind
  <2> QED BY <2>1, <2>4 DEF PairInv
<1>13. ASSUME NEW how, Unwind(rest, how)
       PROVE  todo' = <<>> /\ raised' = how
  <2>1. n + 1 \in 1 .. 6
    BY <1>9
  <2> QED BY <1>3, <1>8, <1>13, <2>1, PairEndUnwound
<1>14. ASSUME todo' = <<>>, raised' # "return",
              IF paired' THEN raised' = "error" => "bluetoothctl" \in failed' ELSE raised' # "no"
       PROVE  PairInv'
  BY <1>14 DEF PairOver, Ended, PairInv
<1>15. PICK s : s = Step
  OBVIOUS
<1>16. s = Step /\ s = b[n + 1] /\ rest = Tail(todo) /\ todo # <<>>
  BY <1>8, <1>15
<1>17. /\ a.kind = "send" /\ t.kind = "trust" /\ v.kind = "verdict"
       /\ m.kind = "finally" /\ e.kind = "end" /\ e.saved = "no"
       /\ x.kind = "call" /\ x.call # "readline" /\ ~ x.soft /\ ~ x.late
       /\ x.can = {"cancel"} /\ x.needs = {} /\ x.bars = {}
  BY <1>2 DEF PairFacts
<1>18. paired' = paired
  <2>1. s \in {m, t, a, x, e, v}
    BY <1>6, <1>9, <1>16
  <2>2. s.kind # "call" \/ s.call # "readline"
    BY <1>17, <2>1
  <2> QED BY <1>16, <2>2, SuccessIsRead
<1>19. CASE n = 0
  <2>1. s = m
    BY <1>6, <1>16, <1>19
  <2>2. s.kind \in {"block", "finally", "undo", "except", "end", "raise"} /\ s.kind = "finally"
    BY <1>17, <2>1
  <2>3. Idles \/ (held' = held /\ todo' = rest /\ raised' = raised)
    BY <1>16, <2>2, Uncalled
  <2> QED BY <1>10, <1>11, <1>12, <1>18, <1>19, <2>3
<1>20. CASE n \in {1, 2}
  <2>1. s \in {t, a}
    BY <1>6, <1>16, <1>20
  <2>2. Step.kind \in {"send", "trust"}
    BY <1>16, <1>17, <2>1
  <2>3. \/ Idles
        \/ held' = held /\ paired' = paired /\ todo' = rest /\ raised' = raised
        \/ held' = held /\ paired' = paired /\ "bluetoothctl" \notin held /\ Unwind(rest, "error")
    BY <1>16, <2>2, SendMoves
  <2>4. ASSUME "bluetoothctl" \notin held, Unwind(rest, "error")
        PROVE  PairInv'
    <3>1. todo' = <<>> /\ raised' = "error"
      BY <1>13, <2>4
    <3>2. paired => "bluetoothctl" \in failed'
      BY <1>10, <1>20, <2>4 DEF ChildKnown
    <3> QED BY <1>14, <1>18, <3>1, <3>2
  <2> QED BY <1>10, <1>11, <1>12, <1>20, <2>3, <2>4
<1>21. CASE n = 3
  <2>1. s = x
    BY <1>6, <1>16, <1>21
  <2>2. s.kind = "call" /\ s.call # "readline" /\ ~ s.soft /\ ~ s.late
    BY <1>17, <2>1
  <2>3. \/ Idles
        \/ todo' = rest /\ raised' = raised
        \/ \E how \in {"error", "cancel"} :
             /\ Unwind(rest, how)
             /\ IF how = "cancel" THEN "cancel" \in s.can ELSE "error" \in s.can \/ ~ Possible(s)
    BY <1>16, <2>2, Called
  <2>4. "error" \notin s.can /\ Possible(s)
    BY <1>17, <2>1 DEF Possible
  <2>5. ASSUME Unwind(rest, "cancel")
        PROVE  PairInv'
    <3>1. todo' = <<>> /\ raised' = "cancel"
      BY <1>13, <2>5
    <3> QED BY <1>14, <3>1
  <2>6. ASSUME todo' = rest, raised' = raised
        PROVE  PairInv'
    <3>1. n # 5 /\ ~ (n <= 1)
      BY <1>21
    <3> QED BY <1>10, <1>12, <1>18, <2>6, <3>1
  <2> QED BY <1>11, <2>3, <2>4, <2>5, <2>6
<1>22. CASE n = 4
  <2>1. s = e
    BY <1>6, <1>16, <1>22
  <2>2. s.kind \in {"block", "finally", "undo", "except", "end", "raise"} /\ s.kind = "end" /\ s.saved = "no"
    BY <1>17, <2>1
  <2>3. \/ Idles
        \/ IF raised = "no" THEN todo' = rest /\ raised' = s.saved ELSE Unwind(rest, raised)
    BY <1>16, <2>2, Uncalled
  <2>4. ASSUME todo' = rest, raised' = "no"
        PROVE  PairInv'
    <3>1. n # 5 /\ ~ (n <= 1)
      BY <1>22
    <3> QED BY <1>12, <1>18, <2>4, <3>1
  <2>5. ASSUME raised # "no", Unwind(rest, raised)
        PROVE  PairInv'
    <3>1. PICK how : how = raised
      OBVIOUS
    <3>2. Unwind(rest, how)
      BY <2>5, <3>1 DEF Unwind
    <3>3. todo' = <<>> /\ raised' = how
      BY <1>13, <3>2
    <3> QED BY <1>10, <1>14, <1>18, <2>5, <3>1, <3>3
  <2> QED BY <1>11, <2>2, <2>3, <2>4, <2>5
<1>23. CASE n = 5
  <2>1. s = v
    BY <1>6, <1>16, <1>23
  <2>2. Step.kind = "verdict"
    BY <1>16, <1>17, <2>1
  <2>3. Idles \/ Judges
    BY <2>2 DEF Acts
  <2>4. rest = <<>>
    <3>1. (n + 1) + 1 = 7
      BY <1>23
    <3>2. SubSeq(b, 7, 6) = <<>>
      BY SubSeqEmpty
    <3> QED BY <1>5, <1>7, <3>1, <3>2
  <2>5. CASE Judges /\ paired
    <3>1. GoesOn
      BY <2>5 DEF Judges
    <3>2. todo' = rest /\ raised' = raised
      BY <1>16, <3>1 DEF GoesOn
    <3> QED BY <1>10, <1>14, <1>18, <2>4, <2>5, <3>2
  <2>6. CASE Judges /\ ~ paired
    <3>1. Throws("error")
      BY <2>6 DEF Judges
    <3>2. Unwind(rest, "error")
      BY <1>16, <3>1 DEF Throws, Unwind
    <3>3. todo' = <<>> /\ raised' = "error"
      BY <1>13, <3>2
    <3> QED BY <1>14, <1>18, <2>6, <3>3
  <2> QED BY <1>11, <2>3, <2>5, <2>6
<1> QED BY <1>9, <1>19, <1>20, <1>21, <1>22, <1>23

OneByOne(w, p, q) ==
  /\ w \in Seq(Ahead) /\ Len(w) = Len(p) + Len(q)
  /\ \A i \in 1 .. Len(p) : w[i] = p[i]
  /\ \A i \in 1 .. Len(q) : w[Len(p) + i] = q[i]

\* The elements of q behind those of p.
LEMMA TakenOneByOne ==
  ASSUME NEW p \in Seq(Ahead), NEW q \in Seq(Ahead), NEW w, w = p \o q
  PROVE  OneByOne(w, p, q)
BY Joined DEF OneByOne

\* Two steps behind four.
LEMMA FourAndTwo ==
  ASSUME NEW p \in Seq(Ahead), NEW q \in Seq(Ahead), Len(p) = 4, Len(q) = 2,
         NEW l, Listed(l, p[1], p[2], p[3], p[4], q[1], q[2])
  PROVE  p \o q = l
<1>1. PICK w : w = p \o q
  OBVIOUS
<1>2. /\ w \in Seq(Ahead) /\ Len(w) = Len(p) + Len(q)
      /\ \A i \in 1 .. Len(p) : w[i] = p[i]
      /\ \A i \in 1 .. Len(q) : w[Len(p) + i] = q[i]
  <2>1. OneByOne(w, p, q)
    BY <1>1, TakenOneByOne
  <2> QED BY <2>1 DEF OneByOne
<1>3. 1 \in 1 .. Len(p) /\ 2 \in 1 .. Len(p) /\ 3 \in 1 .. Len(p) /\ 4 \in 1 .. Len(p)
  OBVIOUS
<1>4. 1 \in 1 .. Len(q) /\ 2 \in 1 .. Len(q) /\ Len(p) + 1 = 5 /\ Len(p) + 2 = 6
  OBVIOUS
<1>5. Len(w) = 6 /\ w[1] = p[1] /\ w[2] = p[2] /\ w[3] = p[3] /\ w[4] = p[4] /\ w[5] = q[1] /\ w[6] = q[2]
  BY <1>2, <1>3, <1>4
<1>6. Listed(l, w[1], w[2], w[3], w[4], w[5], w[6])
  BY <1>5
<1>7. w \in Seq(Ahead) /\ Len(w) = 6
  BY <1>2, <1>5
<1> QED BY <1>1, <1>6, <1>7, SixIs

\* Five steps behind one.
LEMMA OneAndFive ==
  ASSUME NEW p \in Seq(Ahead), NEW q \in Seq(Ahead), Len(p) = 1, Len(q) = 5,
         NEW l, Listed(l, p[1], q[1], q[2], q[3], q[4], q[5])
  PROVE  p \o q = l
<1>1. PICK w : w = p \o q
  OBVIOUS
<1>2. /\ w \in Seq(Ahead) /\ Len(w) = Len(p) + Len(q)
      /\ \A i \in 1 .. Len(p) : w[i] = p[i]
      /\ \A i \in 1 .. Len(q) : w[Len(p) + i] = q[i]
  <2>1. OneByOne(w, p, q)
    BY <1>1, TakenOneByOne
  <2> QED BY <2>1 DEF OneByOne
<1>3. 1 \in 1 .. Len(p)
  OBVIOUS
<1>4. /\ 1 \in 1 .. Len(q) /\ 2 \in 1 .. Len(q) /\ 3 \in 1 .. Len(q) /\ 4 \in 1 .. Len(q) /\ 5 \in 1 .. Len(q)
      /\ Len(p) + 1 = 2 /\ Len(p) + 2 = 3 /\ Len(p) + 3 = 4 /\ Len(p) + 4 = 5 /\ Len(p) + 5 = 6
  OBVIOUS
<1>5. Len(w) = 6 /\ w[1] = p[1] /\ w[2] = q[1] /\ w[3] = q[2] /\ w[4] = q[3] /\ w[5] = q[4] /\ w[6] = q[5]
  BY <1>2, <1>3, <1>4
<1>6. Listed(l, w[1], w[2], w[3], w[4], w[5], w[6])
  BY <1>5
<1>7. w \in Seq(Ahead) /\ Len(w) = 6
  BY <1>2, <1>5
<1> QED BY <1>1, <1>6, <1>7, SixIs

LoopOpens(l, m, t, a, x, e, j, w) == (l \o <<m>> \o <<t, a, x>>) \o <<e>> \o j = l \o w

\* The block of pair that is entered: its loop, and what is behind it.
LEMMA PairOpens ==
  ASSUME NEW m, NEW t, NEW a, NEW x, NEW e, NEW v, SixAhead(m, t, a, x, e, v),
         NEW r \in Ahead, NEW l, l = <<r>>, NEW j, j = <<v>>,
         NEW w, Listed(w, m, t, a, x, e, v)
  PROVE  LoopOpens(l, m, t, a, x, e, j, w)
<1> m \in Ahead /\ t \in Ahead /\ a \in Ahead /\ x \in Ahead /\ e \in Ahead /\ v \in Ahead
  BY DEF SixAhead
<1> w = <<m, t, a, x, e, v>>
  BY DEF Listed
<1>1. PICK f, g, h, i : f = <<m>> /\ g = <<t, a, x>> /\ h = <<e>> /\ i = <<t, a, x, e>>
  OBVIOUS
<1>2. PICK c : c = <<t, a, x, e, v>>
  OBVIOUS
<1>3. l \in Seq(Ahead) /\ j \in Seq(Ahead) /\ f \in Seq(Ahead) /\ g \in Seq(Ahead)
  BY <1>1
<1>4. h \in Seq(Ahead) /\ i \in Seq(Ahead) /\ c \in Seq(Ahead) /\ w \in Seq(Ahead)
  BY <1>1, <1>2
<1>5. g \o h = i
  BY <1>1, ThreeAndOne
<1>6. i \o j = c
  <2>1. Append(i, v) = i \o <<v>>
    BY <1>4, AppendIsConcat
  <2>2. Append(<<t, a, x, e>>, v) = <<t, a, x, e, v>>
    BY FourAppended
  <2> QED BY <1>1, <1>2, <2>1, <2>2
<1>7. f \o c = w
  <2>1. Len(f) = 1 /\ f[1] = m
    BY <1>1
  <2>2. Len(c) = 5 /\ c[1] = t /\ c[2] = a /\ c[3] = x /\ c[4] = e /\ c[5] = v
    BY <1>2
  <2>3. Listed(w, f[1], c[1], c[2], c[3], c[4], c[5])
    BY <2>1, <2>2 DEF Listed
  <2> QED BY <1>3, <1>4, <2>1, <2>2, <2>3, OneAndFive
<1>8. f \o g \in Seq(Ahead)
  BY <1>3, ConcatProperties
<1>9. (l \o f) \o g = l \o (f \o g)
  <2>1. l \in Seq(Ahead) /\ f \in Seq(Ahead) /\ g \in Seq(Ahead)
    BY <1>3
  <2> QED BY <2>1, Regrouped
<1>10. PICK fg : fg = f \o g
  OBVIOUS
<1>11. fg \in Seq(Ahead) /\ fg \o h = f \o i
  <2>1. f \o (g \o h) = (f \o g) \o h
    <3>1. f \in Seq(Ahead) /\ g \in Seq(Ahead) /\ h \in Seq(Ahead)
      BY <1>3, <1>4
    <3> QED BY <3>1, Regrouped
  <2> QED BY <1>5, <1>8, <1>10, <2>1
<1>12. PICK fi : fi = f \o i
  OBVIOUS
<1>13. fi \in Seq(Ahead) /\ fi \o j = w
  <2>1. f \o i \in Seq(Ahead)
    BY <1>3, <1>4, ConcatProperties
  <2>2. f \o (i \o j) = (f \o i) \o j
    <3>1. f \in Seq(Ahead) /\ i \in Seq(Ahead) /\ j \in Seq(Ahead)
      BY <1>3, <1>4
    <3> QED BY <3>1, Regrouped
  <2> QED BY <1>6, <1>7, <1>12, <2>1, <2>2
<1>14. (l \o fg) \o h = l \o fi
  <2>1. l \o (fg \o h) = (l \o fg) \o h
    <3>1. l \in Seq(Ahead) /\ fg \in Seq(Ahead) /\ h \in Seq(Ahead)
      BY <1>3, <1>4, <1>11
    <3> QED BY <3>1, Regrouped
  <2> QED BY <1>11, <1>12, <2>1
<1>15. (l \o fi) \o j = l \o w
  <2>1. l \o (fi \o j) = (l \o fi) \o j
    <3>1. l \in Seq(Ahead) /\ fi \in Seq(Ahead) /\ j \in Seq(Ahead)
      BY <1>3, <1>13
    <3> QED BY <3>1, Regrouped
  <2> QED BY <1>13, <2>1
<1>16. ((l \o f) \o g) \o h \o j = l \o w
  BY <1>9, <1>10, <1>14, <1>15
<1> QED BY <1>1, <1>16 DEF LoopOpens

\* Before the loop of pair.
LEMMA PairFrontMoves ==
  ASSUME Acts, ~ paired, raised = "no",
         \/ todo = Pair
         \/ ChildKnown /\ PartOf(PairFront, <<PairBlock, Ask("verdict")>>)
  PROVE  PairInv'
<1>1. PICK a, y, v, d, o, r, m, t, x, e, k : PairNames(a, y, v, d, o, r, m, t, x, e, k)
  BY DEF PairNames
<1>2. PairFacts(a, y, v, d, o, r, m, t, x, e, k)
  BY <1>1, PairSteps
<1>3. /\ a \in Ahead /\ y \in Ahead /\ v \in Ahead /\ d \in Ahead /\ o \in Ahead /\ r \in Ahead
      /\ m \in Ahead /\ t \in Ahead /\ x \in Ahead /\ e \in Ahead
      /\ Pair = <<o, y, a, a, a, d, v>> /\ PairEnd = <<m, t, a, x, e, v>>
  BY <1>2 DEF PairFacts
<1>4. /\ a.kind = "send" /\ y.kind = "maybe" /\ v.kind = "verdict"
      /\ d.kind = "block" /\ d.inner = <<r>> \o <<m>> \o <<t, a, x>>
      /\ o.kind = "call" /\ o.call # "readline" /\ ~ o.soft /\ ~ o.late
      /\ o.gets = {"bluetoothctl"} /\ o.frees = {}
  BY <1>2 DEF PairFacts
<1>5. PICK S, q, j, b : S = {a, y} /\ q = <<d, v>> /\ j = <<v>> /\ b = PairEnd
  OBVIOUS
<1>6. /\ PairFront = Seq(S) /\ <<PairBlock, Ask("verdict")>> = q
      /\ S \subseteq {Opening("callback"), a, Maybe(<<a>>)} /\ a \in S /\ a = Ask("send") /\ S \subseteq Ahead
  BY <1>1, <1>3, <1>5 DEF PairFront, PairNames
<1>7. q \in Seq(Ahead) /\ Len(q) = 2 /\ q[1] = d /\ q[2] = v /\ q # <<>> /\ Tail(q) = j
  <2>1. q \in Seq(Ahead)
    BY <1>3, <1>5
  <2>2. Len(q) = 2 /\ q[1] = d /\ q[2] = v /\ q # <<>>
    BY <1>5
  <2>3. Tail(q) = j
    BY <1>5
  <2> QED BY <2>1, <2>2, <2>3
<1>8. failed \subseteq failed' /\ PairAhead
  BY DEF Acts, PairAhead
<1>9. Idles => PairInv'
  BY <1>8, PairIdles DEF PairInv
<1>10. ASSUME NEW how \in {"error", "cancel"}, ~ paired', todo' = <<>>, raised' = how
       PROVE  PairInv'
  BY <1>10 DEF PairOver, Ended, PairInv
<1>11. ASSUME NEW p, p \in Seq(S), todo' = p \o q, raised' = raised, paired' = paired, ChildKnown'
       PROVE  PairInv'
  <2>1. PartOf(Seq(S), q)'
    BY <1>6, <1>7, <1>11, PartAgain
  <2>2. PairAhead'
    BY <1>6, <1>11, <2>1 DEF PairAhead
  <2> QED BY <2>2 DEF PairInv
<1>12. CASE todo = Pair
  <2>1. PICK p, w : p = <<y, a, a, a>> /\ w = <<y, a, a, a, d, v>>
    OBVIOUS
  <2>2. p \in Seq(S) /\ p \in Seq(Ahead) /\ Len(p) = 4 /\ p[1] = y /\ p[2] = a /\ p[3] = a /\ p[4] = a
    BY <1>3, <1>5, <2>1
  <2>3. Listed(w, p[1], p[2], p[3], p[4], q[1], q[2])
    BY <1>7, <2>1, <2>2 DEF Listed
  <2>4. p \o q = w
    BY <1>7, <2>2, <2>3, FourAndTwo
  <2>5. PICK c : c = <<o, y, a, a, a, d, v>>
    OBVIOUS
  <2>6. c # <<>> /\ c[1] = o
    BY <2>5
  <2>7. Tail(c) = w
    BY <2>1, <2>5
  <2>8. Head(c) = c[1]
    BY <2>6
  <2>9. PICK s : s = Step
    OBVIOUS
  <2>10. todo # <<>> /\ s = Step /\ w = Tail(todo) /\ s = o
    BY <1>3, <1>12, <2>5, <2>6, <2>7, <2>8, <2>9 DEF Step
  <2>11. s.kind = "call" /\ s.call # "readline" /\ ~ s.soft /\ ~ s.late
    BY <1>4, <2>10
  <2>12. \/ Idles
         \/ todo' = w /\ raised' = raised /\ held' = (held \cup s.gets) \ s.frees
         \/ \E how \in {"error", "cancel"} : Unwind(w, how)
    BY <2>10, <2>11, Called
  <2>13. paired' = paired
    BY <2>10, <2>11, SuccessIsRead
  <2>14. ASSUME todo' = w, raised' = raised, held' = (held \cup s.gets) \ s.frees
         PROVE  PairInv'
    <3>1. ChildKnown'
      BY <1>4, <2>10, <2>14 DEF ChildKnown
    <3>2. todo' = p \o q
      BY <2>4, <2>14
    <3> QED BY <1>11, <2>2, <2>13, <2>14, <3>1, <3>2
  <2>15. ASSUME NEW how \in {"error", "cancel"}, Unwind(w, how)
         PROVE  PairInv'
    <3>1. Len(w) = 6 /\ w[1] = y /\ w[2] = a /\ w[3] = a /\ w[4] = a /\ w[5] = d /\ w[6] = v
      BY <2>1
    <3>2. \A i \in 1 .. Len(w) : i \in {1, 2, 3, 4, 5, 6}
      BY <3>1
    <3>3. \A i \in 1 .. Len(w) : ~ Lands(w[i], how)
      BY <1>4, <3>1, <3>2 DEF Lands
    <3>4. todo' = <<>> /\ raised' = how
      BY <2>15, <3>3, Uncaught
    <3> QED BY <1>10, <2>13, <3>4
  <2> QED BY <1>9, <2>12, <2>14, <2>15
<1>13. CASE ChildKnown /\ PartOf(Seq(S), q)
  <2>1. PICK p : p \in Seq(S) /\ todo = p \o q
    BY <1>13 DEF PartOf
  <2>2. CASE p # <<>>
    <3>1. \/ Idles
          \/ /\ held' = held /\ paired' = paired
             /\ \/ (\E z : z \in Seq(S) /\ todo' = z \o q) /\ raised' = raised
                \/ Unwind(q, "error")
      BY <1>6, <1>7, <2>1, <2>2, PlainMoves
    <3>2. ASSUME held' = held, paired' = paired, Unwind(q, "error")
          PROVE  PairInv'
      <4>1. \A i \in 1 .. Len(q) : ~ Lands(q[i], "error")
        <5>1. \A i \in 1 .. Len(q) : i \in {1, 2}
          BY <1>7
        <5> QED BY <1>4, <1>7, <5>1 DEF Lands
      <4>2. todo' = <<>> /\ raised' = "error"
        BY <3>2, <4>1, Uncaught
      <4> QED BY <1>10, <3>2, <4>2
    <3>3. held' = held => ChildKnown'
      BY <1>8, <1>13 DEF ChildKnown
    <3> QED BY <1>9, <1>11, <3>1, <3>2, <3>3
  <2>3. CASE p = <<>>
    <3>1. todo = q
      BY <1>7, <2>1, <2>3, ConcatEmptySeq
    <3>2. PICK s : s = Step
      OBVIOUS
    <3>3. todo # <<>> /\ s = Step /\ j = Tail(todo) /\ s = d
      BY <1>7, <3>1, <3>2 DEF Step
    <3>4. s.kind \in {"block", "finally", "undo", "except", "end", "raise"} /\ s.kind = "block"
      BY <1>4, <3>3
    <3>5. Idles \/ (held' = held /\ todo' = s.inner \o <<End(raised)>> \o j /\ raised' = "no")
      BY <3>3, <3>4, Uncalled
    <3>6. paired' = paired
      BY <3>3, <3>4, SuccessIsRead
    <3>7. ASSUME held' = held, todo' = s.inner \o <<End(raised)>> \o j, raised' = "no"
          PROVE  PairInv'
      <4>1. PICK l : l = <<r>>
        OBVIOUS
      <4>2. e = End(raised)
        BY <1>1 DEF PairNames
      <4>3. todo' = (l \o <<m>> \o <<t, a, x>>) \o <<e>> \o j
        BY <1>4, <3>3, <3>7, <4>1, <4>2
      <4>4. b = <<m, t, a, x, e, v>>
        BY <1>3, <1>5
      <4>5. (l \o <<m>> \o <<t, a, x>>) \o <<e>> \o j = l \o b
        <5>1. SixAhead(m, t, a, x, e, v) /\ Listed(b, m, t, a, x, e, v)
          BY <1>3, <4>4 DEF SixAhead, Listed
        <5>2. r \in Ahead /\ l = <<r>> /\ j = <<v>>
          BY <1>3, <1>5, <4>1
        <5>3. LoopOpens(l, m, t, a, x, e, j, b)
          BY <5>1, <5>2, PairOpens
        <5> QED BY <5>3 DEF LoopOpens
      <4>6. PICK z, f : z = <<>> /\ f = l \o b
        OBVIOUS
      <4>7. l \in Seq(Ahead) /\ b \in Seq(Ahead)
        BY <1>3, <4>1, <4>4
      <4>8. f \in Seq(Ahead)
        BY <4>6, <4>7, ConcatProperties
      <4>9. todo' = z \o f
        BY <4>3, <4>5, <4>6, <4>8, ConcatEmptySeq
      <4>10. PICK T : T = {Opening("callback"), Ask("send"), Maybe(<<Ask("send")>>)}
        OBVIOUS
      <4>11. T \subseteq Ahead
        <5>1. k \in Ahead /\ k = Opening("callback")
          BY <1>1, <1>2 DEF PairNames, PairFacts
        <5> QED BY <1>1, <1>3, <4>10, <5>1 DEF PairNames
      <4>12. z \in Seq(T)
        BY <4>6, EmptySeq
      <4>13. PartOf(Seq(T), f)'
        BY <4>8, <4>9, <4>11, <4>12, PartAgain
      <4>14. f = <<ReadLines>> \o PairEnd
        BY <1>1, <1>5, <4>1, <4>6 DEF PairNames
      <4>15. ChildKnown'
        BY <1>8, <1>13, <3>7 DEF ChildKnown
      <4>16. PairAhead'
        BY <3>6, <3>7, <4>10, <4>13, <4>14, <4>15 DEF PairAhead, PairPrompts
      <4> QED BY <4>16 DEF PairInv
    <3> QED BY <1>9, <3>4, <3>5, <3>7
  <2> QED BY <2>2, <2>3
<1> QED BY <1>6, <1>12, <1>13

\* In the loop of pair.
LEMMA PairLoopMoves ==
  ASSUME Acts, ~ paired, raised = "no", ChildKnown, PartOf(PairPrompts, <<ReadLines>> \o PairEnd)
  PROVE  PairInv'
<1>1. PICK a, y, v, d, o, r, m, t, x, e, k : PairNames(a, y, v, d, o, r, m, t, x, e, k)
  BY DEF PairNames
<1>2. PairFacts(a, y, v, d, o, r, m, t, x, e, k)
  BY <1>1, PairSteps
<1>3. /\ a \in Ahead /\ y \in Ahead /\ v \in Ahead /\ r \in Ahead
      /\ m \in Ahead /\ t \in Ahead /\ x \in Ahead /\ e \in Ahead /\ k \in Ahead
      /\ PairEnd = <<m, t, a, x, e, v>>
  BY <1>2 DEF PairFacts
<1>4. /\ m.kind = "finally" /\ m.handler = <<>>
      /\ r.kind = "call" /\ r.call = "readline" /\ r.can = {"cancel"} /\ r.needs = {} /\ r.bars = {}
      /\ r.gets = {} /\ r.frees = {} /\ ~ r.soft /\ ~ r.late
  BY <1>2 DEF PairFacts
<1>5. PICK S, b, l, q : S = {k, a, y} /\ b = PairEnd /\ l = <<r>> /\ q = l \o b
  OBVIOUS
<1>6. /\ PairPrompts = Seq(S) /\ <<ReadLines>> \o PairEnd = q
      /\ S \subseteq {Opening("callback"), a, Maybe(<<a>>)} /\ a \in S /\ a = Ask("send") /\ S \subseteq Ahead
  BY <1>1, <1>3, <1>5 DEF PairPrompts, PairNames
<1>7. b \in Seq(Ahead) /\ Len(b) = 6 /\ b[1] = m
  <2>1. b = <<m, t, a, x, e, v>>
    BY <1>3, <1>5
  <2> QED BY <1>3, <2>1
<1>8. l \in Seq(Ahead) /\ Len(l) = 1 /\ l[1] = r /\ q \in Seq(Ahead)
  <2>1. l \in Seq(Ahead) /\ Len(l) = 1 /\ l[1] = r
    BY <1>3, <1>5
  <2>2. l \o b \in Seq(Ahead)
    BY <1>7, <2>1, ConcatProperties
  <2> QED BY <1>5, <2>1, <2>2
<1>9. failed \subseteq failed' /\ PairAhead
  BY DEF Acts, PairAhead
<1>10. Idles => PairInv'
  BY <1>9, PairIdles DEF PairInv
<1>11. held' = held => ChildKnown'
  BY <1>9 DEF ChildKnown
<1>12. PICK rest : rest = SubSeq(b, 1 + 1, Len(b))
  OBVIOUS
<1>13. rest \in Seq(Ahead)
  <2>1. 1 \in 1 .. Len(b)
    BY <1>7
  <2> QED BY <1>7, <1>12, <2>1, Beyond
<1>14. ASSUME NEW how \in {"error", "cancel"}, Unwind(b, how), ~ paired'
       PROVE  PairInv'
  <2>1. 1 \in 1 .. Len(b) /\ Lands(b[1], how)
    BY <1>4, <1>7 DEF Lands
  <2>2. PICK i \in 1 .. Len(b) :
          /\ Lands(b[i], how) /\ \A j \in 1 .. i - 1 : ~ Lands(b[j], how)
          /\ todo' = b[i].handler \o SubSeq(b, i + 1, Len(b))
          /\ IF b[i].kind = "except" THEN raised' = "no" /\ caught' = TRUE
                                     ELSE raised' = how /\ UNCHANGED caught
    BY <1>14, <2>1 DEF Unwind
  <2>3. i = 1
    <3>1. i > 1 => 1 \in 1 .. i - 1
      BY <1>7
    <3> QED BY <1>7, <2>1, <2>2, <3>1
  <2>4. todo' = rest /\ raised' = how
    BY <1>4, <1>7, <1>12, <1>13, <2>2, <2>3, ConcatEmptySeq
  <2>5. 1 \in 0 .. Len(PairEnd) - 1
    BY <1>5, <1>7
  <2>6. PairBehind(1)'
    BY <1>5, <1>12, <1>14, <2>4 DEF PairBehind
  <2> QED BY <2>5, <2>6 DEF PairInv
<1>15. ASSUME NEW p, p \in Seq(S), todo' = p \o q, raised' = raised, paired' = paired, ChildKnown'
       PROVE  PairInv'
  <2>1. PartOf(Seq(S), q)'
    BY <1>6, <1>8, <1>15, PartAgain
  <2>2. PairAhead'
    BY <1>6, <1>15, <2>1 DEF PairAhead
  <2> QED BY <2>2 DEF PairInv
<1>16. ASSUME todo' = b, raised' = "no", paired' => ChildKnown'
       PROVE  PairInv'
  <2>1. SubSeq(b, 0 + 1, Len(b)) = b
    <3>1. PICK z : z = <<>>
      OBVIOUS
    <3>2. z \in Seq(Ahead) /\ Len(z) = 0 /\ z \o b = b /\ b \o z = b
      BY <1>7, <3>1, EmptySeq, ConcatEmptySeq
    <3>3. SubSeq(z \o (b \o z), Len(z) + 1, Len(z) + Len(b)) = b
      BY <1>7, <3>2, Between
    <3>4. Len(z) + Len(b) = Len(b)
      BY <1>7, <3>2
    <3> QED BY <3>2, <3>3, <3>4
  <2>2. 0 \in 0 .. Len(PairEnd) - 1
    BY <1>5, <1>7
  <2>3. PairBehind(0)'
    BY <1>5, <1>16, <2>1 DEF PairBehind
  <2> QED BY <2>2, <2>3 DEF PairInv
<1>17. PICK p : p \in Seq(S) /\ todo = p \o q
  BY <1>6 DEF PartOf
<1>18. CASE p # <<>>
  <2>1. \/ Idles
        \/ /\ held' = held /\ paired' = paired
           /\ \/ (\E z : z \in Seq(S) /\ todo' = z \o q) /\ raised' = raised
              \/ Unwind(q, "error")
    BY <1>6, <1>8, <1>17, <1>18, PlainMoves
  <2>2. ASSUME paired' = paired, Unwind(q, "error")
        PROVE  PairInv'
    <3>1. Unwind(l \o b, "error")
      BY <1>5, <2>2 DEF Unwind
    <3>2. \A i \in 1 .. Len(l) : ~ Lands(l[i], "error")
      BY <1>4, <1>8 DEF Lands
    <3>3. PICK how \in {"error", "cancel"} : how = "error"
      OBVIOUS
    <3>4. Unwind(b, "error")
      BY <1>7, <1>8, <3>1, <3>2, UnwindJoined
    <3> QED BY <1>14, <2>2, <3>4
  <2> QED BY <1>10, <1>11, <1>15, <2>1, <2>2
<1>19. CASE p = <<>>
  <2>1. todo = q
    BY <1>8, <1>17, <1>19, ConcatEmptySeq
  <2>2. todo # <<>> /\ Step = r /\ Tail(todo) = b
    BY <1>3, <1>5, <1>7, <2>1, NextIs
  <2>3. Outcomes(Step) = {held} /\ Effect(Step) = held /\ Possible(Step)
    BY <1>4, <2>2 DEF Outcomes, Effect, Possible
  <2>4. Idles \/ Returns \/ Fails \/ IsCut \/ Reads
    BY <1>4, <2>2 DEF Acts
  <2>5. CASE Returns
    BY <1>16, <2>2, <2>5 DEF Returns, GoesOn
  <2>6. ~ Fails
    BY <1>4, <2>2, <2>3 DEF Fails
  <2>7. CASE IsCut
    <3>1. Throws("cancel") /\ paired' = paired
      BY <2>7 DEF IsCut
    <3>2. Unwind(b, "cancel")
      BY <2>2, <3>1 DEF Throws, Unwind
    <3> QED BY <1>14, <3>1, <3>2
  <2>8. CASE Reads
    <3>1. CASE GoesOn
      <4>1. todo' = b /\ raised' = "no"
        BY <2>2, <3>1 DEF GoesOn
      <4>2. ChildKnown'
        BY <1>11, <2>8 DEF Reads
      <4> QED BY <1>16, <4>1, <4>2
    <3>2. CASE Asks /\ paired' = paired
      <4>1. todo' = Answer \o q /\ raised' = raised
        BY <2>1, <3>2 DEF Asks
      <4>2. Answer \in Seq(S)
        BY <1>1, <1>5 DEF Answer, PairNames
      <4>3. ChildKnown'
        BY <1>11, <2>8 DEF Reads
      <4> QED BY <1>15, <3>2, <4>1, <4>2, <4>3
    <3> QED BY <2>8, <3>1, <3>2 DEF Reads
  <2> QED BY <1>10, <2>4, <2>5, <2>6, <2>7, <2>8
<1> QED BY <1>18, <1>19

\* What pair does keeps its invariant.
LEMMA NextPair ==
  ASSUME PairInv, Acts, raised \in Kinds
  PROVE  PairInv'
<1>1. CASE PairAhead
  <2>1. ~ paired /\ raised = "no"
    BY <1>1 DEF PairAhead
  <2>2. CASE todo = Pair \/ (ChildKnown /\ PartOf(PairFront, <<PairBlock, Ask("verdict")>>))
    BY <2>1, <2>2, PairFrontMoves
  <2>3. CASE ChildKnown /\ PartOf(PairPrompts, <<ReadLines>> \o PairEnd)
    BY <2>1, <2>3, PairLoopMoves
  <2> QED BY <1>1, <2>2, <2>3 DEF PairAhead
<1>2. CASE PairOver
  <2>1. Idles
    BY <1>2 DEF Acts, PairOver, Ended
  <2> QED BY <2>1, PairIdles DEF Acts
<1>3. ASSUME NEW n \in 0 .. Len(PairEnd) - 1, PairBehind(n)
      PROVE  PairInv'
  BY <1>3, PairBehindMoves
<1> QED BY <1>1, <1>2, <1>3 DEF PairInv

\* OutcomeInv holds at first,
LEMMA InitOutcomeInv ==
  ASSUME Init
  PROVE  OutcomeInv
<1>1. CASE job.kind = "pair"
  <2>1. todo = Pair /\ ~ paired /\ raised = "no"
    BY <1>1 DEF Init, Program
  <2>2. PairInv
    BY <2>1 DEF PairAhead, PairInv
  <2> QED BY <1>1, <2>2 DEF OutcomeInv
<1>2. CASE job.kind = "establish"
  BY <1>2, InitEstablish DEF OutcomeInv
<1>3. CASE job.kind \notin {"pair", "establish"}
  BY <1>3 DEF OutcomeInv
<1> QED BY <1>1, <1>2, <1>3

\* ... and every action keeps it.
LEMMA NextOutcomeInv ==
  ASSUME StepsInv, RunnerInv, OutcomeInv, [Next]_vars
  PROVE  OutcomeInv'
<1>1. job' = job /\ raised \in Kinds
  BY AllMove, StepsInvParts
<1>2. CASE job.kind = "pair"
  <2>1. Acts
    BY <1>2, AllAct
  <2>2. PairInv'
    BY <1>1, <1>2, <2>1, NextPair DEF OutcomeInv
  <2> QED BY <1>1, <1>2, <2>2 DEF OutcomeInv
<1>3. CASE job.kind = "establish"
  <2>1. Acts
    BY <1>3, AllAct
  <2>2. Moves
    <3>1. todo # <<>> => Step.kind \notin {"record", "cell", "stack"}
      BY <1>3, RowInMatrix
    <3>2. ~ LoadStack /\ ~ StackFailsToLoad /\ ~ BeginCell /\ ~ Record
      BY <3>1 DEF LoadStack, StackFailsToLoad, BeginCell, Record, At
    <3> QED BY <3>2, AllMove
  <2>3. EstablishInv'
    BY <1>1, <1>3, <2>1, <2>2, NextEstablish DEF OutcomeInv
  <2> QED BY <1>1, <1>3, <2>3 DEF OutcomeInv
<1>4. CASE job.kind \notin {"pair", "establish"}
  BY <1>1, <1>4 DEF OutcomeInv
<1> QED BY <1>2, <1>3, <1>4

\* OutcomeInv holds in every state.
THEOREM OutcomeInvariance == Spec => []OutcomeInv
<1>1. Init => OutcomeInv
  BY InitOutcomeInv
<1>2. StepsInv /\ RunnerInv /\ OutcomeInv /\ [Next]_vars => OutcomeInv'
  BY NextOutcomeInv
<1> QED BY <1>1, <1>2, StepsInvariance, RunnerInvariance, PTL DEF Spec

\* The three together: the inductive invariant, for all jobs and any number
\* of faults.
THEOREM Invariance == Spec => []IInv
BY StepsInvariance, RunnerInvariance, OutcomeInvariance, PTL DEF IInv

\* What pair and establish_connection return is true: pair returns only if it
\* has read of the success, and is in error in spite of it only if its child has
\* ended; establish_connection returns a client that is connected, or whose
\* link was lost, and else raises, with no connection left.
THEOREM OutcomeTrue == Spec => []OutcomeIsTrue
<1>1. OutcomeInv => OutcomeIsTrue
  <2>1. ASSUME PairInv, Ended
        PROVE  /\ raised = "no" => paired
               /\ raised = "error" /\ paired => "bluetoothctl" \in failed
    <3>1. CASE PairOver
      BY <3>1 DEF PairOver
    <3>2. CASE PairAhead
      <4>1. PICK a, y, v, d, o, r, m, t, x, e, k : PairNames(a, y, v, d, o, r, m, t, x, e, k)
        BY DEF PairNames
      <4>2. PairFacts(a, y, v, d, o, r, m, t, x, e, k)
        BY <4>1, PairSteps
      <4>3. todo = <<>>
        BY <2>1 DEF Ended
      <4>4. CASE todo = Pair
        <5>1. Pair = <<o, y, a, a, a, d, v>>
          BY <4>2 DEF PairFacts
        <5> QED BY <4>3, <4>4, <5>1
      <4>5. ASSUME NEW set, NEW p, p \in Seq(Ahead), p # <<>>, PartOf(set, p), set \subseteq Seq(Ahead)
            PROVE  FALSE
        <5>1. PICK z : z \in Seq(Ahead) /\ todo = z \o p
          BY <4>5 DEF PartOf
        <5>2. Len(z \o p) = Len(z) + Len(p) /\ Len(z) \in Nat /\ Len(p) \in Nat
          BY <4>5, <5>1, Joined
        <5>3. Len(z \o p) = 0
          BY <4>3, <5>1
        <5>4. Len(p) # 0
          BY <4>5, EmptySeq
        <5> QED BY <5>2, <5>3, <5>4
      <4>6. CASE PartOf(PairFront, <<PairBlock, Ask("verdict")>>)
        <5>1. PICK q, S : q = <<PairBlock, Ask("verdict")>> /\ S = {Ask("send"), Maybe(<<Ask("send")>>)}
          OBVIOUS
        <5>2. q \in Seq(Ahead) /\ q # <<>> /\ S \subseteq Ahead
          BY <4>1, <4>2, <5>1 DEF PairNames, PairFacts
        <5>3. PairFront \subseteq Seq(Ahead)
          BY <5>1, <5>2, SeqMonotonic DEF PairFront
        <5>4. PartOf(PairFront, q)
          BY <4>6, <5>1
        <5> QED BY <4>5, <5>2, <5>3, <5>4
      <4>7. CASE PartOf(PairPrompts, <<ReadLines>> \o PairEnd)
        <5>1. PICK l, b, q, S : /\ l = <<ReadLines>> /\ b = PairEnd /\ q = l \o b
                                /\ S = {Opening("callback"), Ask("send"), Maybe(<<Ask("send")>>)}
          OBVIOUS
        <5>2. b = <<m, t, a, x, e, v>> /\ l = <<r>>
          BY <4>1, <4>2, <5>1 DEF PairNames, PairFacts
        <5>3. b \in Seq(Ahead) /\ l \in Seq(Ahead) /\ S \subseteq Ahead
          BY <4>1, <4>2, <5>1, <5>2 DEF PairNames, PairFacts
        <5>4. l # <<>>
          BY <5>2
        <5>5. q \in Seq(Ahead) /\ q # <<>>
          BY <5>1, <5>3, <5>4, HeadAndTailJoined, ConcatProperties
        <5>6. PairPrompts \subseteq Seq(Ahead)
          BY <5>1, <5>3, SeqMonotonic DEF PairPrompts
        <5>7. PartOf(PairPrompts, q)
          BY <4>7, <5>1
        <5> QED BY <4>5, <5>5, <5>6, <5>7
      <4> QED BY <3>2, <4>4, <4>6, <4>7 DEF PairAhead
    <3>3. ASSUME NEW n \in 0 .. Len(PairEnd) - 1, PairBehind(n)
          PROVE  FALSE
      <4>1. PICK a, y, v, d, o, r, m, t, x, e, k : PairNames(a, y, v, d, o, r, m, t, x, e, k)
        BY DEF PairNames
      <4>2. PairFacts(a, y, v, d, o, r, m, t, x, e, k)
        BY <4>1, PairSteps
      <4>3. PICK b : b = PairEnd
        OBVIOUS
      <4>4. b = <<m, t, a, x, e, v>>
        BY <4>2, <4>3 DEF PairFacts
      <4>5. b \in Seq(Ahead)
        BY <4>2, <4>4 DEF PairFacts
      <4>6. PICK rest : rest = SubSeq(b, (n + 1) + 1, Len(b))
        OBVIOUS
      <4>7. n \in 0 .. Len(b) - 1 /\ todo = SubSeq(b, n + 1, Len(b))
        BY <3>3, <4>3 DEF PairBehind
      <4>8. todo # <<>>
        BY <4>5, <4>6, <4>7, SuffixStep
      <4> QED BY <2>1, <4>8 DEF Ended
    <3> QED BY <2>1, <3>1, <3>2, <3>3 DEF PairInv
  <2>2. ASSUME EstablishInv, Ended
        PROVE  GivenOut
    <3>1. todo = <<>>
      BY <2>2 DEF Ended
    <3>2. ASSUME NEW a, NEW b, a \in Seq(Ahead), b \in Seq(Ahead), Trying(a, b)
          PROVE  FALSE
      <4>1. PICK r : Attempts(r) /\ todo = a \o (b \o r)
        BY <3>2, TryingParts
      <4>2. r \in Seq(Ahead) /\ r # <<>>
        BY <4>1, AttemptsAhead
      <4>3. PICK q : q = b \o r
        OBVIOUS
      <4>4. q \in Seq(Ahead) /\ Len(q) = Len(b) + Len(r) /\ Len(b) \in Nat /\ Len(r) \in Nat
        BY <3>2, <4>2, <4>3, Joined
      <4>5. Len(a \o q) = Len(a) + Len(q) /\ Len(a) \in Nat
        BY <3>2, <4>4, Joined
      <4>6. Len(a \o q) = 0 /\ Len(r) # 0
        BY <3>1, <4>1, <4>2, <4>3, EmptySeq
      <4> QED BY <4>4, <4>5, <4>6
    <3>3. PICK a, b, u, mt, di, mu, e, t, w :
            /\ a = AfterConnect /\ b = <<Connecting, DiscoverBlock>> \o AfterConnect
            /\ u = DiscoverBlock /\ mt = Request("connect_mtu") /\ di = Request("connect_discover")
            /\ mu = Mark("undo", <<BluekTeardown>>) /\ e = End("no")
            /\ t = BluekTeardown /\ w = Wait("sleep")
      OBVIOUS
    <3>4. /\ a \in Seq(Ahead) /\ b \in Seq(Ahead) /\ u \in Ahead /\ mt \in Ahead /\ di \in Ahead
          /\ mu \in Ahead /\ e \in Ahead /\ t \in Ahead /\ w \in Ahead
      BY <3>3, AttemptBuilt
    <3>5. /\ <<>> \in Seq(Ahead) /\ <<u>> \in Seq(Ahead) /\ <<e>> \in Seq(Ahead) /\ <<w>> \in Seq(Ahead)
          /\ <<mu, e>> \in Seq(Ahead) /\ <<t, e>> \in Seq(Ahead) /\ <<t, w>> \in Seq(Ahead)
      BY <3>4
    <3>6. <<di, mu, e>> \in Seq(Ahead) /\ <<mt, di, mu, e>> \in Seq(Ahead)
      BY <3>4
    <3>7. ~ AtAttempt
      BY <3>2, <3>5 DEF AtAttempt
    <3>8. ~ BeforeConnect
      <4>1. SUFFICES ASSUME BeforeConnect
                     PROVE  FALSE
        OBVIOUS
      <4>2. PICK p : Within(PrescanSteps, p, raised) /\ Trying(p, b)
        BY <3>3, <4>1 DEF BeforeConnect
      <4>3. p \in Seq(Ahead)
        BY <4>2 DEF Within, Sound
      <4> QED BY <3>2, <3>4, <4>2, <4>3
    <3>9. ~ Connected
      <4>1. Connected => \E v \in {<<u>>, <<mt, di, mu, e>>, <<di, mu, e>>, <<mu, e>>, <<e>>, <<>>} : Trying(v, a)
        BY <3>3 DEF Connected
      <4> QED BY <3>2, <3>4, <3>5, <3>6, <4>1
    <3>10. ~ Undoing
      <4>1. Undoing => Trying(<<t, e>>, a) \/ Trying(<<e>>, a)
        BY <3>3 DEF Undoing
      <4> QED BY <3>2, <3>4, <3>5, <4>1
    <3>11. ~ Retrying
      <4>1. Retrying => Trying(<<t, w>>, <<e>>) \/ Trying(<<w>>, <<e>>) \/ Trying(<<>>, <<e>>)
        BY <3>3 DEF Retrying
      <4> QED BY <3>2, <3>5, <4>1
    <3> QED BY <2>2, <3>7, <3>8, <3>9, <3>10, <3>11 DEF EstablishInv
  <2> QED BY <2>1, <2>2 DEF OutcomeInv, OutcomeIsTrue, GivenOut, Established, Unconnected
<1> QED BY <1>1, OutcomeInvariance, PTL
====
