------------------------- MODULE EngineRunnerProofs -------------------------
(***************************************************************************)
(* The safety of EngineRunner, for any effects, scope, lane, journal and   *)
(* bounds.                                                                 *)
(*                                                                         *)
(* Sound is the inductive invariant.  Its parts speak of the journal       *)
(* (Journaled), of the lane and of how a run ends (Over), of what the      *)
(* verdict says (Honest), of a degraded run (Winding), and, while the run  *)
(* goes on, of the writes (Whole) and the requests (Placed).  A turn of    *)
(* the event loop composes operators on the state, so there is a lemma for *)
(* each operator, with the write a step is folding in the gap between what *)
(* is folded and what is pending; an action is then a composition of them. *)
(***************************************************************************)
EXTENDS EngineRunner, FiniteSetTheorems, WellFoundedInduction, TLAPS

\* Every set of numbers that is not empty has a least one.
LEMMA LeastNat ==
  ASSUME NEW T \in SUBSET Nat, T # {}
  PROVE  \E x \in T : \A y \in T : x <= y
<1>1. IsWellFoundedOn(OpToRel(<, Nat), Nat)
  BY NatLessThanWellFounded
<1>2. PICK x \in T : \A y \in T : ~(<<y, x>> \in OpToRel(<, Nat))
  <2> HIDE DEF OpToRel
  <2> QED BY <1>1, WFMin
<1>3. \A y \in T : ~(y < x)
  BY <1>2 DEF OpToRel
<1> QED BY <1>3

\* Induction up to n, over a set of numbers.
LEMMA UpTo ==
  ASSUME NEW n \in Nat, NEW T, 0 \in T,
         \A i \in 1 .. n : i - 1 \in T => i \in T
  PROVE  \A i \in 0 .. n : i \in T
<1> DEFINE U == {i \in 0 .. n : i \notin T}
<1> SUFFICES ASSUME U # {} PROVE FALSE
  OBVIOUS
<1>1. PICK x \in U : \A y \in U : x <= y
  <2>1. U \in SUBSET Nat
    OBVIOUS
  <2> QED BY <2>1, LeastNat
<1>2. x \in 1 .. n /\ x - 1 \in 0 .. n /\ x - 1 \notin U
  BY <1>1
<1> QED BY <1>1, <1>2

\* What is built step by step exists: a function that starts at base and takes a step at each index.
Steps(g, n, S, base, step) ==
  /\ g \in [0 .. n -> S]
  /\ g[0] = base
  /\ \A i \in 1 .. n : g[i] = step[<<g[i - 1], i>>]

\* What is defined step by step from 0 to n stays in S when every step does.
LEMMA StepByStep ==
  ASSUME NEW n \in Nat, NEW S, NEW base \in S, NEW step \in [S \X (1 .. n) -> S]
  PROVE  \E g : Steps(g, n, S, base, step)
<1> DEFINE Built(m, g) == g[0] = base /\ \A i \in 1 .. m : g[i] = step[<<g[i - 1], i>>]
           T == {m \in 0 .. n : \E g \in [0 .. m -> S] : Built(m, g)}
<1>1. 0 \in T
  <2> DEFINE g == [i \in 0 .. 0 |-> base]
  <2>1. g \in [0 .. 0 -> S] /\ Built(0, g)
    OBVIOUS
  <2> HIDE DEF g, Built
  <2> QED BY <2>1
<1>2. ASSUME NEW m \in 1 .. n, m - 1 \in T PROVE m \in T
  <2>1. PICK g \in [0 .. m - 1 -> S] : Built(m - 1, g)
    BY <1>2
  <2> DEFINE h == [i \in 0 .. m |-> IF i = m THEN step[<<g[m - 1], m>>] ELSE g[i]]
  <2>2. h \in [0 .. m -> S]
    OBVIOUS
  <2>3. h[0] = base
    BY <2>1
  <2>4. ASSUME NEW i \in 1 .. m PROVE h[i] = step[<<h[i - 1], i>>]
    <3>1. h[i - 1] = g[i - 1]
      OBVIOUS
    <3>2. h[i] = step[<<g[i - 1], i>>]
      <4>1. CASE i = m
        BY <4>1
      <4>2. CASE i # m
        <5>1. i \in 1 .. m - 1
          BY <4>2
        <5> QED BY <2>1, <4>2, <5>1
      <4> QED BY <4>1, <4>2
    <3> HIDE DEF h
    <3> QED BY <3>1, <3>2
  <2>5. Built(m, h)
    <3> HIDE DEF h
    <3> QED BY <2>3, <2>4
  <2> HIDE DEF h, Built
  <2> QED BY <2>2, <2>5
<1>3. n \in T
  <2> HIDE DEF T
  <2> QED BY <1>1, <1>2, UpTo
<1> QED BY <1>3 DEF Steps

Distinct(s) == \A i, j \in DOMAIN s : s[i] = s[j] => i = j

-----------------------------------------------------------------------------
\* What a sequence over S holds.
LEMMA ToSetOf ==
  ASSUME NEW S, NEW s \in Seq(S)
  PROVE  /\ ToSet(s) \subseteq S
         /\ s = <<>> <=> ToSet(s) = {}
         /\ \A i \in 1 .. Len(s) : s[i] \in ToSet(s)
<1>1. DOMAIN s = 1 .. Len(s) /\ Len(s) \in Nat /\ \A i \in 1 .. Len(s) : s[i] \in S
  OBVIOUS
<1>2. s = <<>> => ToSet(s) = {}
  BY DEF ToSet
<1>3. s # <<>> => 1 \in 1 .. Len(s)
  OBVIOUS
<1> QED BY <1>1, <1>2, <1>3 DEF ToSet

\* Append adds one element, and keeps a sequence of distinct elements one if the element is new.
LEMMA ToSetOfAppend ==
  ASSUME NEW S, NEW s \in Seq(S), NEW e \in S
  PROVE  /\ Append(s, e) \in Seq(S)
         /\ ToSet(Append(s, e)) = ToSet(s) \cup {e}
         /\ Distinct(s) /\ e \notin ToSet(s) => Distinct(Append(s, e))
<1>1. Append(s, e) \in Seq(S)
  OBVIOUS
<1>2. ToSet(Append(s, e)) = ToSet(s) \cup {e}
  <2>1. /\ DOMAIN s = 1 .. Len(s) /\ Len(s) \in Nat
        /\ DOMAIN Append(s, e) = 1 .. Len(s) + 1
        /\ \A i \in 1 .. Len(s) : Append(s, e)[i] = s[i]
        /\ Append(s, e)[Len(s) + 1] = e
    OBVIOUS
  <2>2. 1 .. Len(s) + 1 = (1 .. Len(s)) \cup {Len(s) + 1}
    BY <2>1
  <2> QED BY <2>1, <2>2 DEF ToSet
<1>3. Distinct(s) /\ e \notin ToSet(s) => Distinct(Append(s, e))
  BY DEF ToSet, Distinct
<1> QED BY <1>1, <1>2, <1>3

\* Tail takes the head away, and from distinct elements nothing else.
LEMMA ToSetOfTail ==
  ASSUME NEW S, NEW s \in Seq(S), s # <<>>
  PROVE  /\ Head(s) \in S /\ Tail(s) \in Seq(S)
         /\ ToSet(s) = {Head(s)} \cup ToSet(Tail(s))
         /\ Distinct(s) => Distinct(Tail(s)) /\ Head(s) \notin ToSet(Tail(s))
<1>1. Head(s) \in S /\ Tail(s) \in Seq(S) /\ Len(s) \in Nat \ {0} /\ Head(s) = s[1]
  OBVIOUS
<1>2. DOMAIN Tail(s) = 1 .. Len(s) - 1 /\ \A i \in DOMAIN Tail(s) : Tail(s)[i] = s[i + 1]
  BY <1>1
<1>3. ToSet(s) = {Head(s)} \cup ToSet(Tail(s))
  <2>1. ASSUME NEW i \in DOMAIN s PROVE s[i] \in {Head(s)} \cup ToSet(Tail(s))
    <3>1. CASE i = 1
      BY <3>1, <1>1
    <3>2. CASE i # 1
      <4>1. i - 1 \in DOMAIN Tail(s) /\ s[i] = Tail(s)[i - 1]
        BY <1>2, <3>2
      <4> QED BY <4>1 DEF ToSet
    <3> QED BY <3>1, <3>2
  <2>2. ASSUME NEW i \in DOMAIN Tail(s) PROVE Tail(s)[i] \in ToSet(s)
    BY <1>2 DEF ToSet
  <2>3. Head(s) \in ToSet(s)
    BY <1>1 DEF ToSet
  <2> QED BY <2>1, <2>2, <2>3 DEF ToSet
<1>4. Distinct(s) => Distinct(Tail(s)) /\ Head(s) \notin ToSet(Tail(s))
  BY <1>1, <1>2 DEF Distinct, ToSet
<1> QED BY <1>1, <1>3, <1>4

\* A concatenation holds what its parts hold, distinct when they are and have nothing in common.
LEMMA ToSetOfConcat ==
  ASSUME NEW S, NEW a \in Seq(S), NEW b \in Seq(S)
  PROVE  /\ a \o b \in Seq(S)
         /\ ToSet(a \o b) = ToSet(a) \cup ToSet(b)
         /\ Distinct(a \o b) <=> Distinct(a) /\ Distinct(b) /\ ToSet(a) \cap ToSet(b) = {}
<1> DEFINE t == a \o b
<1>1. /\ t \in Seq(S) /\ Len(a) \in Nat /\ Len(b) \in Nat /\ Len(t) = Len(a) + Len(b)
      /\ DOMAIN a = 1 .. Len(a) /\ DOMAIN b = 1 .. Len(b) /\ DOMAIN t = 1 .. Len(t)
      /\ \A i \in 1 .. Len(a) : t[i] = a[i]
  OBVIOUS
<1>2. ASSUME NEW i \in 1 .. Len(b) PROVE Len(a) + i \in 1 .. Len(t) /\ t[Len(a) + i] = b[i]
  BY <1>1
<1>3. ASSUME NEW i \in 1 .. Len(t), ~(i \in 1 .. Len(a))
      PROVE  i - Len(a) \in 1 .. Len(b) /\ t[i] = b[i - Len(a)] /\ i = Len(a) + (i - Len(a))
  BY <1>1, <1>3
<1> HIDE DEF t
<1>4. ToSet(t) = ToSet(a) \cup ToSet(b)
  <2>1. ASSUME NEW i \in 1 .. Len(t) PROVE t[i] \in ToSet(a) \cup ToSet(b)
    <3>1. CASE i \in 1 .. Len(a)
      BY <1>1, <3>1 DEF ToSet
    <3>2. CASE ~(i \in 1 .. Len(a))
      BY <1>1, <1>3, <3>2 DEF ToSet
    <3> QED BY <3>1, <3>2
  <2>2. ASSUME NEW i \in 1 .. Len(a) PROVE a[i] \in ToSet(t)
    <3>1. i \in 1 .. Len(t) /\ t[i] = a[i]
      BY <1>1
    <3> QED BY <1>1, <3>1 DEF ToSet
  <2>3. ASSUME NEW i \in 1 .. Len(b) PROVE b[i] \in ToSet(t)
    BY <1>1, <1>2 DEF ToSet
  <2>4. \A x \in ToSet(a) : \E i \in 1 .. Len(a) : x = a[i]
    BY <1>1 DEF ToSet
  <2>5. \A x \in ToSet(b) : \E i \in 1 .. Len(b) : x = b[i]
    BY <1>1 DEF ToSet
  <2>6. \A x \in ToSet(t) : \E i \in 1 .. Len(t) : x = t[i]
    BY <1>1 DEF ToSet
  <2> QED BY <2>1, <2>2, <2>3, <2>4, <2>5, <2>6
<1>5. ASSUME Distinct(t) PROVE Distinct(a) /\ Distinct(b) /\ ToSet(a) \cap ToSet(b) = {}
  <2>0. \A i, j \in 1 .. Len(t) : t[i] = t[j] => i = j
    BY <1>1, <1>5 DEF Distinct
  <2>1. Distinct(a)
    <3> SUFFICES ASSUME NEW i \in 1 .. Len(a), NEW j \in 1 .. Len(a), a[i] = a[j] PROVE i = j
      BY <1>1 DEF Distinct
    <3>1. i \in 1 .. Len(t) /\ j \in 1 .. Len(t) /\ t[i] = t[j]
      BY <1>1
    <3> QED BY <2>0, <3>1
  <2>2. Distinct(b)
    <3> SUFFICES ASSUME NEW i \in 1 .. Len(b), NEW j \in 1 .. Len(b), b[i] = b[j] PROVE i = j
      BY <1>1 DEF Distinct
    <3>1. Len(a) + i = Len(a) + j
      BY <1>2, <2>0
    <3> QED BY <1>1, <3>1
  <2>3. ASSUME NEW i \in 1 .. Len(a), NEW j \in 1 .. Len(b) PROVE a[i] # b[j]
    <3>1. i \in 1 .. Len(t) /\ t[i] = a[i] /\ Len(a) + j \in 1 .. Len(t) /\ t[Len(a) + j] = b[j]
          /\ i # Len(a) + j
      BY <1>1, <1>2
    <3> QED BY <2>0, <3>1
  <2> QED BY <1>1, <2>1, <2>2, <2>3 DEF ToSet
<1>6. ASSUME Distinct(a), Distinct(b), ToSet(a) \cap ToSet(b) = {} PROVE Distinct(t)
  <2>1. \A i, j \in 1 .. Len(a) : a[i] = a[j] => i = j
    BY <1>1, <1>6 DEF Distinct
  <2>2. \A i, j \in 1 .. Len(b) : b[i] = b[j] => i = j
    BY <1>1, <1>6 DEF Distinct
  <2>3. \A i \in 1 .. Len(a), j \in 1 .. Len(b) : a[i] # b[j]
    BY <1>1, <1>6 DEF ToSet
  <2> SUFFICES ASSUME NEW i \in 1 .. Len(t), NEW j \in 1 .. Len(t), t[i] = t[j] PROVE i = j
    BY <1>1 DEF Distinct
  <2>4. CASE i \in 1 .. Len(a) /\ j \in 1 .. Len(a)
    BY <1>1, <2>1, <2>4
  <2>5. CASE i \in 1 .. Len(a) /\ ~(j \in 1 .. Len(a))
    <3>1. t[i] = a[i] /\ t[j] = b[j - Len(a)] /\ j - Len(a) \in 1 .. Len(b)
      BY <1>1, <1>3, <2>5
    <3> QED BY <2>3, <2>5, <3>1
  <2>6. CASE ~(i \in 1 .. Len(a)) /\ j \in 1 .. Len(a)
    <3>1. t[j] = a[j] /\ t[i] = b[i - Len(a)] /\ i - Len(a) \in 1 .. Len(b)
      BY <1>1, <1>3, <2>6
    <3> QED BY <2>3, <2>6, <3>1
  <2>7. CASE ~(i \in 1 .. Len(a)) /\ ~(j \in 1 .. Len(a))
    <3>1. /\ t[i] = b[i - Len(a)] /\ i - Len(a) \in 1 .. Len(b) /\ i = Len(a) + (i - Len(a))
          /\ t[j] = b[j - Len(a)] /\ j - Len(a) \in 1 .. Len(b) /\ j = Len(a) + (j - Len(a))
      BY <1>3, <2>7
    <3>2. i - Len(a) = j - Len(a)
      BY <2>2, <3>1
    <3> QED BY <3>1, <3>2
  <2> QED BY <2>4, <2>5, <2>6, <2>7
<1> QED BY <1>1, <1>4, <1>5, <1>6 DEF t

\* There are n numbers from 1 to n.
LEMMA UpToIs ==
  ASSUME NEW n \in Nat
  PROVE  IsFiniteSet(1 .. n) /\ Cardinality(1 .. n) = n
<1>1. IsFiniteSet(1 .. n) /\ Cardinality(1 .. n) = IF 1 > n THEN 0 ELSE (n - 1) + 1
  BY FS_Interval
<1> QED BY <1>1

\* A sequence is its first n elements followed by the rest.
LEMMA Split ==
  ASSUME NEW S, NEW s \in Seq(S), NEW n \in 0 .. Len(s)
  PROVE  /\ SubSeq(s, 1, n) \in Seq(S) /\ Len(SubSeq(s, 1, n)) = n
         /\ SubSeq(s, n + 1, Len(s)) \in Seq(S) /\ Len(SubSeq(s, n + 1, Len(s))) = Len(s) - n
         /\ SubSeq(s, 1, n) \o SubSeq(s, n + 1, Len(s)) = s
<1> DEFINE a == SubSeq(s, 1, n)
           b == SubSeq(s, n + 1, Len(s))
<1>1. a \in Seq(S) /\ Len(a) = n /\ \A i \in 1 .. n : a[i] = s[i]
  OBVIOUS
<1>2. b \in Seq(S) /\ Len(b) = Len(s) - n /\ \A i \in 1 .. Len(s) - n : b[i] = s[n + i]
  OBVIOUS
<1> HIDE DEF a, b
<1>0. Len(s) \in Nat /\ n \in Nat /\ n <= Len(s) /\ DOMAIN s = 1 .. Len(s)
  OBVIOUS
<1>3. a \o b \in Seq(S) /\ Len(a \o b) = Len(s) /\ Len(a \o b) = Len(a) + Len(b)
  <2>1. a \in Seq(S) /\ b \in Seq(S)
    BY <1>1, <1>2
  <2>2. a \o b \in Seq(S) /\ Len(a \o b) = Len(a) + Len(b)
    BY <2>1
  <2>3. Len(a) = n /\ Len(b) = Len(s) - n
    BY <1>1, <1>2
  <2> QED BY <1>0, <2>2, <2>3
<1>4. ASSUME NEW i \in 1 .. Len(s) PROVE (a \o b)[i] = s[i]
  <2>1. CASE i <= n
    <3>1. (a \o b)[i] = a[i] /\ i \in 1 .. n
      BY <1>0, <1>1, <1>2, <2>1
    <3> QED BY <1>1, <3>1
  <2>2. CASE i > n
    <3>0. i - n \in 1 .. Len(s) - n /\ i \in 1 .. Len(a) + Len(b) /\ i > Len(a)
      BY <1>0, <1>1, <1>2, <2>2
    <3>1. i - n \in 1 .. Len(s) - n /\ (a \o b)[i] = b[i - n]
      <4>1. a \in Seq(S) /\ b \in Seq(S) /\ Len(a) = n
        BY <1>1, <1>2
      <4>2. (a \o b)[i] = b[i - Len(a)]
        BY <3>0, <4>1
      <4> QED BY <3>0, <4>1, <4>2
    <3>2. b[i - n] = s[n + (i - n)] /\ n + (i - n) = i
      BY <1>2, <3>1
    <3> QED BY <3>1, <3>2
  <2>3. i <= n \/ i > n
    BY <1>0
  <2> QED BY <2>1, <2>2, <2>3, Zenon
<1>5. a \o b = s
  <2> DEFINE c == a \o b
  <2>1. c \in Seq(S) /\ Len(c) = Len(s) /\ \A i \in 1 .. Len(s) : c[i] = s[i]
    BY <1>3, <1>4
  <2> HIDE DEF c
  <2>2. c = s
    BY <2>1
  <2> QED BY <2>2 DEF c
<1> QED BY <1>1, <1>2, <1>5 DEF a, b

\* Queued counts some of the requests that wait.
LEMMA QueuedIs ==
  ASSUME NEW jobs \in Seq(Jobs), NEW urgent \in BOOLEAN
  PROVE  Queued(jobs, urgent) \in 0 .. Len(jobs)
<1> DEFINE C == {i \in 1 .. Len(jobs) : Kind(jobs[i]) = urgent}
           c == Cardinality(C)
<1>1. Len(jobs) \in Nat /\ DOMAIN jobs = 1 .. Len(jobs)
  OBVIOUS
<1>2. IsFiniteSet(1 .. Len(jobs)) /\ Cardinality(1 .. Len(jobs)) = Len(jobs)
  BY <1>1, UpToIs
<1>3. C \subseteq 1 .. Len(jobs)
  OBVIOUS
<1>4. IsFiniteSet(C) /\ c <= Len(jobs)
  BY <1>2, <1>3, FS_Subset
<1>5. c \in Nat
  BY <1>4, FS_CardinalityType
<1>6. Queued(jobs, urgent) = c
  BY <1>1 DEF Queued
<1> HIDE DEF c
<1>7. c \in 0 .. Len(jobs)
  BY <1>1, <1>4, <1>5
<1> QED BY <1>6, <1>7, Zenon

\* Requests that are admitted join those that wait.
LEMMA AdmittedIs ==
  ASSUME NEW jobs \in Seq(Jobs), NEW more \in Seq(Jobs), NEW urgent \in BOOLEAN
  PROVE  /\ Admitted(jobs, more, urgent) \in Seq(Jobs)
         /\ ToSet(Admitted(jobs, more, urgent)) = ToSet(jobs) \cup ToSet(more)
         /\ Distinct(jobs) /\ Distinct(more) /\ ToSet(jobs) \cap ToSet(more) = {}
              => Distinct(Admitted(jobs, more, urgent))
<1> DEFINE n == IF urgent THEN Queued(jobs, TRUE) ELSE Len(jobs)
           a == SubSeq(jobs, 1, n)
           b == SubSeq(jobs, n + 1, Len(jobs))
<1>1. n \in 0 .. Len(jobs)
  <2>1. Queued(jobs, TRUE) \in 0 .. Len(jobs)
    BY QueuedIs, Zenon
  <2>2. Len(jobs) \in 0 .. Len(jobs)
    OBVIOUS
  <2> QED BY <2>1, <2>2, Zenon
<1> HIDE DEF n
<1>2. a \in Seq(Jobs) /\ b \in Seq(Jobs) /\ a \o b = jobs
  BY <1>1, Split
<1>3. Admitted(jobs, more, urgent) = (a \o more) \o b
  BY DEF Admitted, n
<1> HIDE DEF a, b
<1>4. /\ a \o more \in Seq(Jobs)
      /\ ToSet(a \o more) = ToSet(a) \cup ToSet(more)
      /\ Distinct(a \o more) <=> Distinct(a) /\ Distinct(more) /\ ToSet(a) \cap ToSet(more) = {}
  BY <1>2, ToSetOfConcat
<1>5. /\ ToSet(jobs) = ToSet(a) \cup ToSet(b)
      /\ Distinct(jobs) <=> Distinct(a) /\ Distinct(b) /\ ToSet(a) \cap ToSet(b) = {}
  <2>1. /\ ToSet(a \o b) = ToSet(a) \cup ToSet(b)
        /\ Distinct(a \o b) <=> Distinct(a) /\ Distinct(b) /\ ToSet(a) \cap ToSet(b) = {}
    BY <1>2, ToSetOfConcat, ZenonT(60)
  <2> QED BY <1>2, <2>1, Zenon
<1>6. /\ (a \o more) \o b \in Seq(Jobs)
      /\ ToSet((a \o more) \o b) = ToSet(a \o more) \cup ToSet(b)
      /\ Distinct((a \o more) \o b) <=>
           Distinct(a \o more) /\ Distinct(b) /\ ToSet(a \o more) \cap ToSet(b) = {}
  BY <1>2, <1>4, ToSetOfConcat
<1>7. ToSet(jobs) \cap ToSet(more) = {} /\ ToSet(a) \cap ToSet(b) = {}
        => ToSet(a) \cap ToSet(more) = {} /\ ToSet(a \o more) \cap ToSet(b) = {}
  BY <1>4, <1>5
<1> QED BY <1>3, <1>4, <1>5, <1>6, <1>7

\* Only keeps the requests of E, each where it stands.
LEMMA OnlyOf ==
  ASSUME NEW jobs \in Seq(Jobs), NEW E
  PROVE  /\ Only(jobs, E) \in Seq(Jobs)
         /\ ToSet(Only(jobs, E)) = {j \in ToSet(jobs) : j.effect \in E}
         /\ Distinct(jobs) => Distinct(Only(jobs, E))
<1> DEFINE n == Len(jobs)
           Step(s, i) == IF jobs[i].effect \in E THEN Append(s, jobs[i]) ELSE s
           only == CHOOSE f : f = [i \in 0 .. n |-> IF i = 0 THEN <<>>
                         ELSE IF jobs[i].effect \in E THEN Append(f[i - 1], jobs[i]) ELSE f[i - 1]]
           step == [x \in Seq(Jobs) \X (1 .. n) |-> Step(x[1], x[2])]
           taken(i) == {jobs[j] : j \in {m \in 1 .. i : jobs[m].effect \in E}}
<1>0. n \in Nat
  OBVIOUS
<1>1. \A i \in 1 .. n : jobs[i] \in Jobs
  OBVIOUS
<1>2. PICK g \in [0 .. n -> Seq(Jobs)] :
         g[0] = <<>> /\ \A i \in 1 .. n : g[i] = step[<<g[i - 1], i>>]
  <2>1. step \in [Seq(Jobs) \X (1 .. n) -> Seq(Jobs)]
    BY <1>1
  <2>2. <<>> \in Seq(Jobs)
    OBVIOUS
  <2> HIDE DEF step, n
  <2>3. \E g : Steps(g, n, Seq(Jobs), <<>>, step)
    BY <1>0, <2>1, <2>2, StepByStep
  <2> QED BY <2>3 DEF Steps
<1>3. /\ only[0] = <<>>
      /\ \A i \in 1 .. n : only[i] = Step(only[i - 1], i)
  <2>1. \A i \in 1 .. n : i - 1 \in 0 .. n /\ g[i - 1] \in Seq(Jobs)
    <3> HIDE DEF n
    <3> QED BY <1>0
  <2>2. \A i \in 1 .. n : step[<<g[i - 1], i>>] = Step(g[i - 1], i)
    BY <2>1
  <2>3. g = [i \in 0 .. n |-> IF i = 0 THEN <<>>
                 ELSE IF jobs[i].effect \in E THEN Append(g[i - 1], jobs[i]) ELSE g[i - 1]]
    <3>1. \A i \in 0 .. n : g[i] = IF i = 0 THEN <<>>
                 ELSE IF jobs[i].effect \in E THEN Append(g[i - 1], jobs[i]) ELSE g[i - 1]
      <4>1. \A i \in 0 .. n : i # 0 => i \in 1 .. n
        BY <1>0
      <4> HIDE DEF n, step
      <4> QED BY <1>2, <2>2, <4>1
    <3> HIDE DEF n, step
    <3> QED BY <3>1
  <2>4. only = [i \in 0 .. n |-> IF i = 0 THEN <<>>
                 ELSE IF jobs[i].effect \in E THEN Append(only[i - 1], jobs[i]) ELSE only[i - 1]]
    <3> HIDE DEF n
    <3> QED BY <2>3
  <2>5. 0 \in 0 .. n /\ \A i \in 1 .. n : i \in 0 .. n /\ i # 0
    BY <1>0
  <2> HIDE DEF n, only
  <2> QED BY <2>4, <2>5
<1>4. Only(jobs, E) = only[n]
  BY DEF Only
<1> HIDE DEF only, n, step
<1> DEFINE T == {i \in 0 .. n :
      /\ only[i] \in Seq(Jobs) /\ ToSet(only[i]) = taken(i)
      /\ Distinct(jobs) => Distinct(only[i])}
<1>5. 0 \in T
  <2>1. only[0] = <<>> /\ taken(0) = {} /\ ToSet(<<>>) = {} /\ Distinct(<<>>) /\ <<>> \in Seq(Jobs)
    BY <1>0, <1>3 DEF ToSet, Distinct
  <2> HIDE DEF taken
  <2>2. only[0] \in Seq(Jobs) /\ ToSet(only[0]) = taken(0) /\ Distinct(only[0])
    BY <2>1, Zenon
  <2> QED BY <1>0, <2>2
<1>6. ASSUME NEW i \in 1 .. n, i - 1 \in T PROVE i \in T
  <2>1. only[i] = Step(only[i - 1], i)
    BY <1>3
  <2>2. /\ only[i - 1] \in Seq(Jobs) /\ ToSet(only[i - 1]) = taken(i - 1)
        /\ Distinct(jobs) => Distinct(only[i - 1])
    BY <1>6
  <2>3. taken(i) = taken(i - 1) \cup (IF jobs[i].effect \in E THEN {jobs[i]} ELSE {})
    <3>1. 1 .. i = (1 .. i - 1) \cup {i}
      BY <1>0, <1>1
    <3> QED BY <3>1
  <2>4. Distinct(jobs) => jobs[i] \notin taken(i - 1)
    BY <1>0, <1>1 DEF Distinct, n
  <2>5. jobs[i] \in Jobs
    BY <1>0, <1>1
  <2> HIDE DEF taken
  <2>6. CASE jobs[i].effect \in E
    <3>1. only[i] = Append(only[i - 1], jobs[i])
      BY <2>1, <2>6
    <3>2. only[i] \in Seq(Jobs) /\ ToSet(only[i]) = taken(i) /\ (Distinct(jobs) => Distinct(only[i]))
      BY <3>1, <2>2, <2>3, <2>4, <2>5, <2>6, ToSetOfAppend
    <3> QED BY <3>2
  <2>7. CASE jobs[i].effect \notin E
    <3>1. only[i] = only[i - 1] /\ taken(i) = taken(i - 1)
      BY <2>1, <2>3, <2>7
    <3> QED BY <3>1, <2>2
  <2> QED BY <2>6, <2>7
<1>7. n \in T
  <2> HIDE DEF T
  <2>1. \A i \in 0 .. n : i \in T
    BY <1>0, <1>5, <1>6, UpTo
  <2> QED BY <1>0, <2>1
<1>8. taken(n) = {j \in ToSet(jobs) : j.effect \in E}
  BY DEF ToSet, n
<1> HIDE DEF taken
<1> QED BY <1>4, <1>7, <1>8

-----------------------------------------------------------------------------
(* The invariant.                                                          *)

Fields ==
  {"pending", "buffer", "waiting", "running", "fresh", "pumpWanted", "degraded", "finished", "late",
   "verdict", "outcome", "queue", "writing", "closed", "closing", "finalizing", "timedOut",
   "failure", "completion", "sink", "ended", "accepted", "folded", "entries", "first", "done",
   "asked", "notes"}
Typed(s) ==
  /\ DOMAIN s = Fields
  /\ s.pending \in Seq(Writes) /\ s.buffer \in [Effects -> Seq(Writes)]
  /\ s.waiting \in Seq(Jobs) /\ s.running \subseteq Running
  /\ s.degraded \in Origins \cup {None} /\ s.finished \in BOOLEAN /\ s.late \in Effects \cup {None}
  /\ s.verdict \in Verdicts \cup {None}
  /\ s.outcome \in [error : Errors \cup {None}, journal : BOOLEAN] \cup {None}
  /\ s.queue \in Seq(Nat) /\ s.writing \in Nat \cup {None} /\ s.sink \in Seq(Nat)
  /\ s.closed \in BOOLEAN /\ s.closing \in BOOLEAN /\ s.finalizing \in BOOLEAN
  /\ s.timedOut \in BOOLEAN /\ s.failure \in Failures \cup {None}
  /\ s.completion \in {"no", "pending", "ok", "failed"} /\ s.ended \in {"no", "clean", "unclean"}
  /\ s.accepted \in Seq(Writes) /\ s.folded \in Seq(Writes)
  /\ s.entries \in Nat /\ s.first \in Errors \cup {None}
  /\ s.done \subseteq Jobs /\ s.asked \subseteq Jobs

\* the entries are written one after the other, what waits to be written goes on where the file
\* ends, and nothing is missing unless the journal failed
Consecutive(s) ==
  /\ \A i \in DOMAIN s.sink : s.sink[i] = i
  /\ s.writing # None => s.writing = Len(s.sink) + 1
  /\ \A i \in DOMAIN s.queue :
       s.queue[i] = Len(s.sink) + (IF s.writing = None THEN 0 ELSE 1) + i
  /\ s.failure = None => Len(s.sink) + Unwritten(s) = s.entries
  /\ Unwritten(s) <= Capacity
\* how a journal ends
Closes(s) ==
  /\ s.closed <=> (s.failure # None \/ s.closing)
  /\ s.timedOut => s.failure # None
  /\ s.finalizing => s.closing /\ s.writing = None /\ s.queue = <<>>
  /\ s.completion # "no" => s.finalizing
  /\ s.ended = "clean" => s.failure = None /\ s.finalizing
  /\ s.completion = "ok" => s.ended = "clean"
Journaled(s) == Consecutive(s) /\ Closes(s) /\ (s.writing = None => s.queue = <<>>)

\* the lane holds what it may, and a finished run winds down
Over(s) ==
  /\ IsFiniteSet(s.running) /\ Cardinality(s.running) <= Concurrency
  /\ s.finished => s.pending = <<>>
  /\ s.finished /\ s.running = {} => s.waiting = <<>>
  /\ s.closing => s.finished /\ s.running = {}
  /\ s.verdict # None => s.finished
  /\ ~s.finished => \A j \in s.running : ~j.finishing

\* what the verdict says of the first failure
Says(v, s) ==
  /\ v.kind = "stop" => v.error = s.degraded
  /\ v.kind = "reject" =>
       /\ v.error # None /\ s.first # None
       /\ v.error = s.first \/ (s.degraded # None /\ v.error \notin {"operator", "journal"})
Honest(s) ==
  /\ s.degraded # None => s.first = s.degraded
  /\ s.first # None => s.degraded = s.first \/ (s.verdict # None /\ s.verdict.kind = "reject")
  /\ s.verdict # None => Says(s.verdict, s)
  /\ s.outcome # None =>
       /\ s.completion \in {"ok", "failed"} /\ s.verdict # None
       /\ s.outcome.error = IF s.verdict.kind = "stop" /\ s.verdict.error = None
                            THEN s.late ELSE s.verdict.error
       /\ s.outcome.journal = (s.completion = "failed")

\* once degraded, only the scope goes on
Winding(s) ==
  s.degraded # None /\ ~s.finished =>
    /\ \A q \in ToSet(s.waiting) : q.effect \in Members
    /\ \A j \in s.running : j.effect \in Members \/ j.aborted

\* the writes: those in gap are being folded, and the one that winds down is among them if wound
Whole(s, gap, wound) ==
  /\ s.accepted = s.folded \o (gap \o s.pending)
  /\ Distinct(s.accepted)
  /\ \E m \in 0 .. MaxWrites : ToSet(s.accepted) \ {Down} = 1 .. m
  /\ Down \in ToSet(s.accepted) <=> wound

Buffers(s) == {q \in Jobs : q.write \in ToSet(s.buffer[q.effect])}
\* a request is in one place, and what the scope was asked is in one of them, but for what is lost
Placed(s, lost) ==
  /\ \A e \in Effects : Distinct(s.buffer[e])
  /\ Distinct(s.waiting)
  /\ \A i, j \in s.running : i.write = j.write /\ i.effect = j.effect => i = j
  /\ Buffers(s) \cap ToSet(s.waiting) = {}
  /\ Buffers(s) \cap Requests(s.running) = {}
  /\ ToSet(s.waiting) \cap Requests(s.running) = {}
  /\ s.done \cap (Buffers(s) \cup ToSet(s.waiting) \cup Requests(s.running)) = {}
  /\ s.done \subseteq s.asked
  /\ \A q \in s.asked : q.effect \in Members
  /\ \A q \in Buffers(s) \cup ToSet(s.waiting) \cup Requests(s.running) \cup s.asked :
       q.write \in ToSet(s.folded)
  /\ s.asked \subseteq Buffers(s) \cup ToSet(s.waiting) \cup Requests(s.running) \cup s.done \cup lost

Core(s) == Typed(s) /\ Journaled(s) /\ Over(s) /\ Honest(s) /\ Winding(s)
\* a run that goes on
Going(s, gap, wound) == Core(s) /\ ~s.finished /\ Whole(s, gap, wound) /\ Placed(s, {})
Sound(s) == Core(s) /\ (~s.finished => Going(s, <<>>, s.degraded # None))
RunnerInv == Sound(r)

-----------------------------------------------------------------------------
(* The journal.                                                            *)

\* the parts of a state that the journal does not touch
SameRun(s, t) ==
  /\ t.pending = s.pending /\ t.buffer = s.buffer /\ t.waiting = s.waiting
  /\ t.running = s.running /\ t.fresh = s.fresh /\ t.pumpWanted = s.pumpWanted
  /\ t.degraded = s.degraded /\ t.finished = s.finished /\ t.late = s.late
  /\ t.verdict = s.verdict /\ t.closing = s.closing
  /\ t.accepted = s.accepted /\ t.folded = s.folded /\ t.first = s.first /\ t.done = s.done
  /\ t.asked = s.asked /\ t.notes = s.notes

\* What does not speak of the journal holds in two states that differ in the journal alone.
LEMMA SameRunKeeps ==
  ASSUME NEW s, NEW t, SameRun(s, t)
  PROVE  /\ Over(s) => Over(t)
         /\ Winding(s) => Winding(t)
         /\ t.outcome = s.outcome /\ (s.outcome # None => t.completion = s.completion) /\ Honest(s)
              => Honest(t)
         /\ \A gap, wound : Whole(s, gap, wound) => Whole(t, gap, wound)
         /\ \A lost : Placed(s, lost) => Placed(t, lost)
         /\ Buffers(t) = Buffers(s)
<1>1. Over(s) => Over(t)
  BY DEF SameRun, Over
<1>2. Winding(s) => Winding(t)
  BY DEF SameRun, Winding
<1>3. t.outcome = s.outcome /\ (s.outcome # None => t.completion = s.completion) /\ Honest(s)
              => Honest(t)
  BY DEF SameRun, Honest, Says
<1>4. \A gap, wound : Whole(s, gap, wound) => Whole(t, gap, wound)
  BY DEF SameRun, Whole
<1>5. Buffers(t) = Buffers(s)
  BY DEF SameRun, Buffers
<1>6. \A lost : Placed(s, lost) => Placed(t, lost)
  BY <1>5 DEF SameRun, Placed
<1> QED BY <1>1, <1>2, <1>3, <1>4, <1>5, <1>6

\* writeJournal takes the next entry or ends the file, in order and on no gap, and touches nothing
\* else.
LEMMA WriteJournalKeeps ==
  ASSUME NEW s, Typed(s), Consecutive(s), Closes(s)
  PROVE  /\ Typed(WriteJournal(s)) /\ Journaled(WriteJournal(s))
         /\ SameRun(s, WriteJournal(s)) /\ WriteJournal(s).outcome = s.outcome
         /\ s.completion # "no" \/ ~s.closing => WriteJournal(s).completion = s.completion
<1> DEFINE t == WriteJournal(s)
<1> USE RunnerAssumption
<1>1. CASE s.writing # None \/ s.finalizing
  BY <1>1 DEF WriteJournal, Journaled, Closes, SameRun
<1>2. CASE s.writing = None /\ ~s.finalizing /\ s.queue # <<>>
  <2>1. t = [s EXCEPT !.writing = Head(s.queue), !.queue = Tail(s.queue)]
    BY <1>2 DEF WriteJournal
  <2>2. /\ s.queue \in Seq(Nat) /\ Len(s.queue) \in Nat \ {0} /\ Head(s.queue) = s.queue[1]
        /\ Head(s.queue) \in Nat /\ Tail(s.queue) \in Seq(Nat) /\ Len(Tail(s.queue)) = Len(s.queue) - 1
        /\ \A i \in DOMAIN Tail(s.queue) : i + 1 \in DOMAIN s.queue /\ Tail(s.queue)[i] = s.queue[i + 1]
        /\ s.sink \in Seq(Nat) /\ Len(s.sink) \in Nat /\ 1 \in DOMAIN s.queue
    BY <1>2 DEF Typed, Fields
  <2>3. Typed(t)
    BY <2>1, <2>2, SMTT(30) DEF Typed, Fields
  <2>4. t.writing = Head(s.queue) /\ t.queue = Tail(s.queue) /\ t.sink = s.sink /\ t.failure = s.failure
        /\ t.entries = s.entries /\ t.writing # None
    BY <2>1, <2>2 DEF Typed, Fields
  <2>5. Unwritten(t) = Unwritten(s)
    BY <1>2, <2>2, <2>4 DEF Unwritten
  <2>6. s.queue[1] = Len(s.sink) + 1
    BY <1>2, <2>2 DEF Consecutive
  <2>7. ASSUME NEW i \in DOMAIN t.queue PROVE t.queue[i] = Len(t.sink) + 1 + i
    <3>1. i \in Nat /\ i + 1 \in DOMAIN s.queue /\ t.queue[i] = s.queue[i + 1]
      BY <2>2, <2>4
    <3>2. s.queue[i + 1] = Len(s.sink) + 0 + (i + 1)
      BY <1>2, <3>1 DEF Consecutive
    <3>3. Len(t.sink) = Len(s.sink) /\ Len(s.sink) \in Nat
      BY <2>2, <2>4
    <3> HIDE DEF t
    <3> QED BY <3>1, <3>2, <3>3
  <2>8. Consecutive(t)
    BY <2>2, <2>4, <2>5, <2>6, <2>7 DEF Consecutive
  <2>9. Closes(t)
    BY <1>2, <2>1 DEF Closes, Typed, Fields
  <2> QED BY <2>1, <2>3, <2>4, <2>8, <2>9, SMTT(30) DEF SameRun, Typed, Fields, Journaled
<1>3. CASE s.writing = None /\ ~s.finalizing /\ s.queue = <<>> /\ ~s.closing
  BY <1>3 DEF WriteJournal, Journaled, SameRun
<1>4. CASE s.writing = None /\ ~s.finalizing /\ s.queue = <<>> /\ s.closing
  <2>1. t = [s EXCEPT !.finalizing = TRUE, !.completion = IF s.timedOut THEN "failed" ELSE "pending"]
    BY <1>4 DEF WriteJournal
  <2>2. Typed(t)
    BY <2>1, SMT DEF Typed, Fields
  <2>3. Consecutive(t)
    BY <2>1 DEF Consecutive, Typed, Fields, Unwritten
  <2>4. s.completion = "no" /\ s.ended # "clean"
    BY <1>4 DEF Closes
  <2>5. Closes(t)
    BY <1>4, <2>1, <2>4 DEF Closes, Typed, Fields
  <2>6. SameRun(s, t) /\ t.outcome = s.outcome /\ t.queue = s.queue
    BY <2>1 DEF SameRun, Typed, Fields
  <2> QED BY <1>4, <2>2, <2>3, <2>4, <2>5, <2>6 DEF Journaled
<1> QED BY <1>1, <1>2, <1>3, <1>4

\* append queues the next number or, past the capacity, closes the journal as failed; the run is
\* untouched.
LEMMA AppendedKeeps ==
  ASSUME NEW s, Typed(s), Journaled(s), ~s.closing
  PROVE  /\ Typed(Appended(s)) /\ Journaled(Appended(s)) /\ SameRun(s, Appended(s))
         /\ Appended(s).outcome = s.outcome /\ Appended(s).completion = s.completion
<1> USE RunnerAssumption
<1> DEFINE n == s.entries + 1
<1>0. s.entries \in Nat /\ n \in Nat /\ s.closed \in BOOLEAN
  BY DEF Typed
<1>1. CASE s.closed
  <2> DEFINE t == [s EXCEPT !.entries = n]
  <2>1. t = Appended(s)
    BY <1>1 DEF Appended
  <2>2. Typed(t) /\ SameRun(s, t) /\ t.outcome = s.outcome /\ t.completion = s.completion
    BY <1>0, SMTT(30) DEF Typed, Fields, SameRun
  <2>3. /\ t.sink = s.sink /\ t.writing = s.writing /\ t.queue = s.queue /\ t.failure = s.failure
        /\ t.closed = s.closed /\ t.timedOut = s.timedOut /\ t.finalizing = s.finalizing
        /\ t.ended = s.ended /\ t.closing = s.closing
    BY DEF Typed, Fields
  <2>4. s.failure # None
    BY <1>1 DEF Journaled, Closes
  <2> HIDE DEF t, n
  <2>5. Journaled(t)
    BY <2>2, <2>3, <2>4 DEF Journaled, Consecutive, Closes, Unwritten
  <2> QED BY <2>1, <2>2, <2>5
<1>2. CASE ~s.closed /\ Unwritten(s) >= Capacity
  <2> DEFINE t == [s EXCEPT !.entries = n, !.closed = TRUE, !.failure = "overflow"]
  <2>1. t = Appended(s)
    BY <1>2 DEF Appended
  <2>2. Typed(t) /\ SameRun(s, t) /\ t.outcome = s.outcome /\ t.completion = s.completion
    BY <1>0, SMTT(30) DEF Typed, Fields, SameRun, Failures
  <2>3. /\ t.sink = s.sink /\ t.writing = s.writing /\ t.queue = s.queue /\ t.failure = "overflow"
        /\ t.closed = TRUE /\ t.timedOut = s.timedOut /\ t.finalizing = s.finalizing
        /\ t.ended = s.ended /\ t.closing = s.closing
    BY DEF Typed, Fields
  <2>4. s.failure = None /\ s.finalizing = FALSE /\ s.ended # "clean"
    BY <1>2 DEF Journaled, Closes, Typed
  <2>5. None # "overflow"
    BY DEF Failures
  <2> HIDE DEF t, n
  <2>6. Journaled(t)
    BY <2>2, <2>3, <2>4, <2>5 DEF Journaled, Consecutive, Closes, Unwritten
  <2> QED BY <2>1, <2>2, <2>6
<1>3. CASE ~s.closed /\ ~(Unwritten(s) >= Capacity)
  <2> DEFINE t == [s EXCEPT !.entries = n, !.queue = Append(@, n)]
  <2>1. WriteJournal(t) = Appended(s)
    BY <1>3 DEF Appended
  <2>2. /\ Typed(t) /\ SameRun(s, t) /\ t.outcome = s.outcome /\ t.completion = s.completion
    BY <1>0, SMTT(30) DEF Typed, Fields, SameRun
  <2>3. /\ t.sink = s.sink /\ t.writing = s.writing /\ t.queue = Append(s.queue, n)
        /\ t.failure = s.failure /\ t.entries = n
        /\ t.closed = s.closed /\ t.timedOut = s.timedOut /\ t.finalizing = s.finalizing
        /\ t.ended = s.ended /\ t.closing = s.closing
    BY DEF Typed, Fields
  <2>4. s.failure = None /\ s.finalizing = FALSE
    BY <1>3 DEF Journaled, Closes, Typed
  <2> HIDE DEF t
  <2>5. /\ Len(s.queue) \in Nat /\ Len(t.queue) = Len(s.queue) + 1 /\ Len(s.sink) \in Nat
        /\ DOMAIN t.queue = 1 .. Len(s.queue) + 1 /\ DOMAIN s.queue = 1 .. Len(s.queue)
    <3>1. s.queue \in Seq(Nat) /\ s.sink \in Seq(Nat)
      BY DEF Typed
    <3> HIDE DEF n
    <3> QED BY <2>3, <3>1, <1>0
  <2> DEFINE k == IF s.writing = None THEN 0 ELSE 1
  <2>6. Unwritten(t) = Unwritten(s) + 1 /\ Unwritten(s) = Len(s.queue) + k /\ k \in Nat
    <3>1. k \in Nat
      OBVIOUS
    <3>2. Unwritten(s) = Len(s.queue) + k
      BY DEF Unwritten
    <3>3. Unwritten(t) = Len(t.queue) + k
      BY <2>3 DEF Unwritten
    <3> HIDE DEF k
    <3> QED BY <2>5, <3>1, <3>2, <3>3
  <2>7. n = (Len(s.sink) + Len(s.queue) + k) + 1
    <3> DEFINE a == Len(s.sink)
               b == Len(s.queue)
    <3>1. a + Unwritten(s) = s.entries
      BY <2>4 DEF Journaled, Consecutive
    <3>2. Unwritten(s) = b + k /\ k \in Nat /\ b \in Nat /\ a \in Nat
      BY <2>5, <2>6
    <3>3. n = s.entries + 1
      OBVIOUS
    <3> HIDE DEF k, a, b, n
    <3>4. n = (a + b + k) + 1
      BY <3>1, <3>2, <3>3
    <3> QED BY <3>4 DEF a, b
  <2>8. ASSUME NEW i \in DOMAIN t.queue PROVE t.queue[i] = Len(t.sink) + k + i
    <3>1. CASE i \in 1 .. Len(s.queue)
      <4>1. s.queue[i] = Len(s.sink) + k + i
        <5>1. i \in DOMAIN s.queue
          BY <2>5, <3>1
        <5> QED BY <5>1, Zenon DEF Journaled, Consecutive
      <4>2. t.queue[i] = s.queue[i]
        BY <2>3, <2>5, <3>1, <1>0
      <4> QED BY <2>3, <4>1, <4>2, Zenon
    <3>2. CASE i = Len(s.queue) + 1
      <4>1. t.queue[i] = n
        BY <2>3, <2>5, <3>2, <1>0
      <4>2. n = Len(s.sink) + k + i
        <5> DEFINE a == Len(s.sink)
                   b == Len(s.queue)
        <5>1. k \in Nat /\ b \in Nat /\ a \in Nat /\ n = (a + b + k) + 1 /\ i = b + 1
          BY <2>5, <2>6, <2>7, <3>2
        <5> HIDE DEF n, k, a, b
        <5>2. n = a + k + i
          BY <5>1
        <5> QED BY <5>2 DEF a
      <4> QED BY <2>3, <4>1, <4>2, Zenon
    <3>3. i \in 1 .. Len(s.queue) \/ i = Len(s.queue) + 1
      BY <2>5
    <3> QED BY <3>1, <3>2, <3>3
  <2>9. Consecutive(t)
    <3>1. \A i \in DOMAIN t.sink : t.sink[i] = i
      BY <2>3 DEF Journaled, Consecutive
    <3>2. t.writing # None => t.writing = Len(t.sink) + 1
      BY <2>3 DEF Journaled, Consecutive
    <3>3. Len(t.sink) + Unwritten(t) = t.entries
      <4> DEFINE a == Len(s.sink)
                 b == Len(s.queue)
      <4>1. k \in Nat /\ b \in Nat /\ a \in Nat /\ n = (a + b + k) + 1
        BY <2>5, <2>6, <2>7
      <4>2. Len(t.sink) = a /\ Unwritten(t) = (b + k) + 1 /\ t.entries = n
        BY <2>3, <2>6
      <4> HIDE DEF n, k, a, b
      <4> QED BY <4>1, <4>2
    <3>4. Unwritten(t) <= Capacity
      <4> HIDE DEF n, k
      <4> QED BY <1>3, <2>5, <2>6
    <3>5. k = IF t.writing = None THEN 0 ELSE 1
      BY <2>3
    <3> HIDE DEF n
    <3> QED BY <2>8, <3>1, <3>2, <3>3, <3>4, <3>5 DEF Consecutive
  <2>10. Closes(t)
    <3> HIDE DEF n
    <3> QED BY <2>2, <2>3, <2>4 DEF Journaled, Closes
  <2> HIDE DEF n
  <2>11. /\ Typed(WriteJournal(t)) /\ Journaled(WriteJournal(t))
         /\ SameRun(t, WriteJournal(t)) /\ WriteJournal(t).outcome = t.outcome
         /\ WriteJournal(t).completion = t.completion
    BY <2>2, <2>3, <2>9, <2>10, WriteJournalKeeps
  <2>12. SameRun(s, WriteJournal(t))
    BY <2>2, <2>11 DEF SameRun
  <2> QED BY <2>1, <2>2, <2>11, <2>12
<1> QED BY <1>1, <1>2, <1>3

-----------------------------------------------------------------------------
(* What the parts of a state say of another that shares them.              *)

SameJournal(s, t) ==
  /\ t.queue = s.queue /\ t.writing = s.writing /\ t.sink = s.sink /\ t.entries = s.entries
  /\ t.closed = s.closed /\ t.closing = s.closing /\ t.finalizing = s.finalizing
  /\ t.timedOut = s.timedOut /\ t.failure = s.failure /\ t.completion = s.completion
  /\ t.ended = s.ended
SameEnd(s, t) ==
  /\ t.degraded = s.degraded /\ t.late = s.late /\ t.verdict = s.verdict
  /\ t.outcome = s.outcome /\ t.completion = s.completion /\ t.first = s.first
SameWrites(s, t) ==
  /\ t.accepted = s.accepted /\ t.folded = s.folded /\ t.pending = s.pending
SameRequests(s, t) ==
  /\ t.buffer = s.buffer /\ t.waiting = s.waiting /\ Requests(t.running) = Requests(s.running)
  /\ t.done = s.done /\ t.asked = s.asked /\ t.folded = s.folded
Lane(s) == IsFiniteSet(s.running) /\ Cardinality(s.running) <= Concurrency

\* The parts of the invariant hold in every state that shares what they speak of.
LEMMA SamePartsKeep ==
  ASSUME NEW s, NEW t
  PROVE  /\ SameJournal(s, t) /\ Journaled(s) => Journaled(t)
         /\ SameEnd(s, t) /\ Honest(s) => Honest(t)
         /\ SameWrites(s, t) => \A gap, wound : Whole(s, gap, wound) => Whole(t, gap, wound)
<1>1. SameJournal(s, t) /\ Journaled(s) => Journaled(t)
  BY ZenonT(60) DEF SameJournal, Journaled, Consecutive, Closes, Unwritten
<1>2. SameEnd(s, t) /\ Honest(s) => Honest(t)
  BY DEF SameEnd, Honest, Says
<1>3. SameWrites(s, t) => \A gap, wound : Whole(s, gap, wound) => Whole(t, gap, wound)
  BY DEF SameWrites, Whole
<1> QED BY <1>1, <1>2, <1>3

\* An image of an interval has no more elements.
LEMMA ImageOf ==
  ASSUME NEW n \in Nat, NEW f
  PROVE  IsFiniteSet({f[i] : i \in 1 .. n}) /\ Cardinality({f[i] : i \in 1 .. n}) <= n
<1> DEFINE g == [i \in 1 .. n |-> f[i]]
           T == {f[i] : i \in 1 .. n}
<1>1. g \in Surjection(1 .. n, T)
  BY DEF Surjection
<1>2. IsFiniteSet(1 .. n) /\ Cardinality(1 .. n) = n
  BY UpToIs
<1> HIDE DEF g
<1>3. IsFiniteSet(T) /\ Cardinality(T) <= Cardinality(1 .. n)
  <2> HIDE DEF T
  <2> QED BY <1>1, <1>2, FS_Surjection
<1> QED BY <1>2, <1>3

\* finishQueued changes the lane alone, which holds what it may and drains.
LEMMA FinishQueuedKeeps ==
  ASSUME NEW s, Typed(s), Lane(s)
  PROVE  /\ Typed(FinishQueued(s)) /\ Lane(FinishQueued(s))
         /\ SameJournal(s, FinishQueued(s)) /\ SameEnd(s, FinishQueued(s))
         /\ SameWrites(s, FinishQueued(s)) /\ FinishQueued(s).finished = s.finished
         /\ FinishQueued(s).running = {} => FinishQueued(s).waiting = <<>>
<1> USE RunnerAssumption
<1> DEFINE free == Free(s, TRUE)
           n == IF free < Len(s.waiting) THEN free ELSE Len(s.waiting)
           f == [i \in 1 .. n |-> Starting(s, s.waiting[i])]
           new == {f[i] : i \in 1 .. n}
           running == s.running \cup new
           waiting == SubSeq(s.waiting, n + 1, Len(s.waiting))
           t == [s EXCEPT !.running = running, !.waiting = waiting]
<1>1. s.waiting \in Seq(Jobs) /\ Len(s.waiting) \in Nat /\ s.running \subseteq Running
      /\ s.finished \in BOOLEAN
  BY DEF Typed
<1>2. Cardinality(s.running) \in Nat
  BY FS_CardinalityType DEF Lane
<1>3. free \in Nat /\ free = Concurrency - Cardinality(s.running)
  BY <1>2 DEF Free, Lane
<1> HIDE DEF free
<1>4. n \in Nat /\ n <= Len(s.waiting) /\ n <= free
  BY <1>1, <1>3
<1>5. {Starting(s, s.waiting[i]) : i \in 1 .. n} = new
  OBVIOUS
<1>6. t = FinishQueued(s)
  <2>1. FinishQueued(s) = [s EXCEPT !.running = @ \cup {Starting(s, s.waiting[i]) : i \in 1 .. n},
                                    !.waiting = SubSeq(@, n + 1, Len(@))]
    BY DEF FinishQueued, free
  <2> QED BY <1>5, <2>1
<1>7. new \subseteq Running
  <2>1. \A i \in 1 .. n : s.waiting[i] \in Jobs
    BY <1>1, <1>4
  <2>2. \A i \in 1 .. n : Starting(s, s.waiting[i]) \in Running
    BY <1>1, <2>1 DEF Starting, Running, Jobs
  <2> HIDE DEF n
  <2> QED BY <2>2
<1> HIDE DEF f, n
<1>8. IsFiniteSet(new) /\ Cardinality(new) <= n /\ Cardinality(new) \in Nat
  BY <1>4, ImageOf, FS_CardinalityType
<1>9. IsFiniteSet(running) /\ Cardinality(running) <= Concurrency
  <2> HIDE DEF new
  <2>1. /\ IsFiniteSet(s.running \cup new)
        /\ Cardinality(s.running \cup new)
             = Cardinality(s.running) + Cardinality(new) - Cardinality(s.running \cap new)
    BY <1>8, FS_Union DEF Lane
  <2>2. IsFiniteSet(s.running \cap new)
    BY FS_Subset DEF Lane
  <2>3. Cardinality(s.running \cap new) \in Nat
    BY <2>2, FS_CardinalityType
  <2> QED BY <1>2, <1>3, <1>4, <1>8, <2>1, <2>3
<1>10. n \in 0 .. Len(s.waiting)
  BY <1>1, <1>4
<1>11. waiting \in Seq(Jobs) /\ Len(waiting) = Len(s.waiting) - n
  BY <1>1, <1>10, Split
<1>12. running = {} => waiting = <<>>
  <2> SUFFICES ASSUME running = {} PROVE waiting = <<>>
    OBVIOUS
  <2>1. new = {} /\ s.running = {}
    OBVIOUS
  <2>2. Cardinality(s.running) = 0
    BY <2>1, FS_EmptySet
  <2>3. n = 0
    <3>1. n # 0 => 1 \in 1 .. n
      BY <1>4
    <3>2. 1 \in 1 .. n => f[1] \in new
      OBVIOUS
    <3> HIDE DEF new
    <3> QED BY <2>1, <3>1, <3>2
  <2>4. Len(s.waiting) = 0
    <3>1. free > 0
      BY <1>3, <2>2
    <3> QED BY <1>1, <1>3, <2>3, <3>1 DEF n
  <2> HIDE DEF waiting
  <2> QED BY <1>11, <2>3, <2>4
<1> HIDE DEF running, waiting
<1>13. t.running = running /\ t.waiting = waiting /\ t.finished = s.finished
  BY DEF Typed, Fields
<1>14. SameJournal(s, t) /\ SameEnd(s, t) /\ SameWrites(s, t)
  BY DEF Typed, Fields, SameJournal, SameEnd, SameWrites
<1>15. Typed(t)
  <2>1. running \subseteq Running
    BY <1>1, <1>7 DEF running
  <2> QED BY <1>11, <2>1, SMTT(30) DEF Typed, Fields
<1> HIDE DEF t
<1>16. Lane(t)
  BY <1>9, <1>13 DEF Lane
<1> QED BY <1>6, <1>12, <1>13, <1>14, <1>15, <1>16

\* Abort changes no request, aborts those of S and neither adds nor loses one.
LEMMA RequestsOfAbort ==
  ASSUME NEW jobs \in SUBSET Running, NEW S
  PROVE  /\ Abort(jobs, S) \subseteq Running
         /\ Requests(Abort(jobs, S)) = Requests(jobs)
         /\ \A j \in Abort(jobs, S) : j.effect \in S => j.aborted
         /\ (\A j \in jobs : ~j.finishing) => \A j \in Abort(jobs, S) : ~j.finishing
         /\ IsFiniteSet(jobs) => IsFiniteSet(Abort(jobs, S)) /\ Cardinality(Abort(jobs, S)) <= Cardinality(jobs)
         /\ Abort(jobs, S) = {} <=> jobs = {}
         /\ (\A i, j \in jobs : i.write = j.write /\ i.effect = j.effect => i = j)
              => \A i, j \in Abort(jobs, S) : i.write = j.write /\ i.effect = j.effect => i = j
<1> DEFINE a(j) == [j EXCEPT !.aborted = @ \/ j.effect \in S]
           T == {a(j) : j \in jobs}
<1>1. Abort(jobs, S) = T
  BY DEF Abort
<1>2. ASSUME NEW j \in jobs
      PROVE  /\ a(j) \in Running /\ a(j).write = j.write /\ a(j).effect = j.effect
             /\ j.effect \in S => a(j).aborted
             /\ a(j).finishing = j.finishing
  BY DEF Running
<1>3. Requests(T) = Requests(jobs)
  <2> HIDE DEF a
  <2>1. \A j \in jobs : [write |-> a(j).write, effect |-> a(j).effect] = [write |-> j.write, effect |-> j.effect]
    BY <1>2, Zenon
  <2>2. \A j \in T : \E i \in jobs : j = a(i)
    OBVIOUS
  <2>3. \A i \in jobs : a(i) \in T
    OBVIOUS
  <2> HIDE DEF T
  <2>4. \A x \in Requests(T) : x \in Requests(jobs)
    BY <2>1, <2>2, ZenonT(60) DEF Requests
  <2>5. \A x \in Requests(jobs) : x \in Requests(T)
    BY <2>1, <2>3 DEF Requests
  <2> QED BY <2>4, <2>5
<1>4. IsFiniteSet(jobs) => IsFiniteSet(T) /\ Cardinality(T) <= Cardinality(jobs)
  <2> DEFINE g == [j \in jobs |-> a(j)]
  <2>1. g \in Surjection(jobs, T)
    BY DEF Surjection
  <2> HIDE DEF g, T
  <2> QED BY <2>1, FS_Surjection
<1>5. T = {} <=> jobs = {}
  OBVIOUS
<1>6. ASSUME \A i, j \in jobs : i.write = j.write /\ i.effect = j.effect => i = j,
             NEW i \in jobs, NEW j \in jobs, a(i).write = a(j).write, a(i).effect = a(j).effect
      PROVE  a(i) = a(j)
  <2>1. i = j
    BY <1>2, <1>6
  <2> QED BY <2>1
<1>7. /\ T \subseteq Running /\ \A j \in T : j.effect \in S => j.aborted
      /\ (\A j \in jobs : ~j.finishing) => \A j \in T : ~j.finishing
  <2> HIDE DEF a
  <2> QED BY <1>2
<1>8. (\A i, j \in jobs : i.write = j.write /\ i.effect = j.effect => i = j)
              => \A i, j \in T : i.write = j.write /\ i.effect = j.effect => i = j
  <2> HIDE DEF a
  <2> QED BY <1>6
<1> HIDE DEF T
<1> QED BY <1>1, <1>3, <1>4, <1>5, <1>7, <1>8

\* abandon leaves a finished run that is sound, whatever the run was.
LEMMA AbandonKeeps ==
  ASSUME NEW s, NEW clean \in BOOLEAN, Typed(s), Journaled(s), Honest(s), Lane(s), ~s.closing
  PROVE  Sound(Abandon(s, clean)) /\ Abandon(s, clean).finished
<1> DEFINE waiting == IF clean THEN Only(s.waiting, Finishers) ELSE <<>>
           running == Abort(s.running, Effects)
           buffer == [e \in Effects |-> <<>>]
           g == Forgotten(s)
           u == [g EXCEPT !.finished = TRUE, !.pending = <<>>, !.pumpWanted = FALSE, !.fresh = None,
                          !.running = running, !.waiting = waiting]
           t == FinishQueued(u)
<1>0. /\ DOMAIN g = Fields /\ g.buffer = buffer /\ g.running = s.running /\ g.waiting = s.waiting
      /\ g.accepted = <<>> /\ g.folded = <<>> /\ g.done = {} /\ g.asked = {}
      /\ SameJournal(s, g) /\ SameEnd(s, g)
  <2>1. g = [s EXCEPT !.buffer = buffer, !.accepted = <<>>, !.folded = <<>>,
                      !.asked = {}, !.done = {}, !.notes = 0]
    BY DEF Forgotten
  <2>2. DOMAIN s = Fields
    BY DEF Typed
  <2> HIDE DEF g, buffer
  <2>3. DOMAIN g = Fields /\ g.buffer = buffer /\ g.running = s.running /\ g.waiting = s.waiting
    BY <2>1, <2>2 DEF Fields
  <2>4. g.accepted = <<>> /\ g.folded = <<>> /\ g.done = {} /\ g.asked = {}
    BY <2>1, <2>2 DEF Fields
  <2>5. SameJournal(s, g) /\ SameEnd(s, g)
    BY <2>1, <2>2 DEF Fields, SameJournal, SameEnd
  <2> QED BY <2>3, <2>4, <2>5
<1>1. Abandon(s, clean) = t
  <2>1. Abandon(s, clean) = FinishQueued(
           [g EXCEPT !.finished = TRUE, !.pending = <<>>, !.pumpWanted = FALSE, !.fresh = None,
                     !.running = Abort(g.running, Effects),
                     !.waiting = IF clean THEN Only(g.waiting, Finishers) ELSE <<>>])
    BY DEF Abandon
  <2> HIDE DEF g
  <2> QED BY <1>0, <2>1
<1>2. s.waiting \in Seq(Jobs) /\ s.running \in SUBSET Running /\ DOMAIN s = Fields
  BY DEF Typed
<1>3. waiting \in Seq(Jobs)
  BY <1>2, OnlyOf
<1>4. running \subseteq Running /\ IsFiniteSet(running) /\ Cardinality(running) <= Concurrency
  <2>1. running \subseteq Running /\ IsFiniteSet(running) /\ Cardinality(running) <= Cardinality(s.running)
    BY <1>2, RequestsOfAbort DEF Lane
  <2>2. Cardinality(running) \in Nat /\ Cardinality(s.running) \in Nat
    BY <2>1, FS_CardinalityType DEF Lane
  <2> HIDE DEF running
  <2> QED BY <2>1, <2>2, RunnerAssumption DEF Lane
<1> HIDE DEF running, waiting, g
<1>5. Typed(u)
  <2>1. buffer \in [Effects -> Seq(Writes)]
    OBVIOUS
  <2> HIDE DEF buffer
  <2>2. /\ DOMAIN u = Fields /\ u.pending = <<>> /\ u.buffer = buffer /\ u.waiting = waiting
        /\ u.running = running /\ u.finished = TRUE
    BY <1>0 DEF Fields
  <2>3. u.accepted = <<>> /\ u.folded = <<>> /\ u.done = {} /\ u.asked = {}
    BY <1>0 DEF Fields
  <2>4. SameJournal(s, u) /\ SameEnd(s, u)
    BY <1>0 DEF Fields, SameJournal, SameEnd
  <2> HIDE DEF u
  <2>5. /\ u.pending \in Seq(Writes) /\ u.buffer \in [Effects -> Seq(Writes)]
        /\ u.waiting \in Seq(Jobs) /\ u.running \subseteq Running /\ u.finished \in BOOLEAN
        /\ u.accepted \in Seq(Writes) /\ u.folded \in Seq(Writes) /\ u.done \subseteq Jobs
        /\ u.asked \subseteq Jobs
    <3>1. <<>> \in Seq(Writes) /\ {} \subseteq Jobs
      OBVIOUS
    <3>2. u.pending \in Seq(Writes) /\ u.accepted \in Seq(Writes) /\ u.folded \in Seq(Writes)
      BY <2>2, <2>3, <3>1, Zenon
    <3>3. u.done \subseteq Jobs /\ u.asked \subseteq Jobs /\ u.finished \in BOOLEAN
      BY <2>2, <2>3, <3>1
    <3>4. u.buffer \in [Effects -> Seq(Writes)] /\ u.waiting \in Seq(Jobs) /\ u.running \subseteq Running
      BY <1>3, <1>4, <2>1, <2>2, Zenon
    <3> QED BY <3>2, <3>3, <3>4
  <2> QED BY <2>2, <2>4, <2>5 DEF Typed, SameJournal, SameEnd
<1>6. /\ SameJournal(s, u) /\ SameEnd(s, u) /\ u.running = running /\ u.finished = TRUE
      /\ u.pending = <<>> /\ u.closing = s.closing
  BY <1>0 DEF Fields, SameJournal, SameEnd
<1> HIDE DEF g, u
<1>7. Lane(u)
  BY <1>4, <1>6 DEF Lane
<1>8. /\ Typed(t) /\ Lane(t) /\ SameJournal(u, t) /\ SameEnd(u, t) /\ SameWrites(u, t)
      /\ t.finished = u.finished /\ (t.running = {} => t.waiting = <<>>)
  BY <1>5, <1>7, FinishQueuedKeeps
<1> HIDE DEF t
<1>9. Journaled(t) /\ Honest(t)
  BY <1>6, <1>8, SamePartsKeep
<1>10. Over(t)
  BY <1>6, <1>8 DEF Over, Lane, SameJournal, SameEnd, SameWrites
<1>11. t.finished
  BY <1>6, <1>8
<1> QED BY <1>1, <1>8, <1>9, <1>10, <1>11 DEF Sound, Core, Winding

\* claiming the verdict is all that Claim does
LEMMA ClaimKeeps ==
  ASSUME NEW s, NEW v \in Verdicts, Typed(s), Journaled(s), Lane(s), ~s.closing,
         s.verdict = None => Says(v, s), Honest(s)
  PROVE  /\ Typed(Claim(s, v)) /\ Journaled(Claim(s, v)) /\ Lane(Claim(s, v)) /\ ~Claim(s, v).closing
         /\ Honest(Claim(s, v))
<1> DEFINE t == [s EXCEPT !.verdict = IF s.verdict = None THEN v ELSE s.verdict]
<1>1. t = Claim(s, v)
  BY DEF Claim
<1>2. Typed(t)
  BY SMT DEF Typed, Fields
<1>3. /\ SameJournal(s, t) /\ t.running = s.running /\ t.closing = s.closing
      /\ t.degraded = s.degraded /\ t.first = s.first /\ t.outcome = s.outcome /\ t.late = s.late
      /\ t.completion = s.completion
      /\ t.verdict = IF s.verdict = None THEN v ELSE s.verdict
  BY DEF Typed, Fields, SameJournal
<1> HIDE DEF t
<1>4. Journaled(t) /\ Lane(t) /\ ~t.closing
  BY <1>3, SamePartsKeep DEF Lane
<1>5. v # None
  BY RunnerAssumption
<1>6. s.verdict # None => Honest(t)
  BY <1>3 DEF Honest, Says
<1>7. s.verdict = None => Honest(t)
  BY <1>3, <1>5 DEF Honest, Says
<1> QED BY <1>1, <1>2, <1>4, <1>6, <1>7

\* halt finishes the run with a rejection that is honest: its first failure, or one of the scope
\* after it.
LEMMA HaltedKeeps ==
  ASSUME NEW s, NEW at \in Errors, Core(s), ~s.finished,
         s.degraded # None => at \notin {"operator", "journal"}
  PROVE  Sound(Halted(s, at)) /\ Halted(s, at).finished
<1> DEFINE t == [s EXCEPT !.first = IF s.first = None THEN at ELSE s.first]
           u == Appended(t)
           w == [u EXCEPT !.verdict = IF u.verdict = None THEN Rejects(at) ELSE u.verdict]
<1>1. t = Noted(s, at) /\ Halted(s, at) = Abandon(w, FALSE)
  BY DEF Noted, Halted, Claim
<1>2. Typed(s) /\ Journaled(s) /\ Over(s) /\ Honest(s) /\ DOMAIN s = Fields
  BY DEF Core, Typed
<1>3. s.verdict = None /\ ~s.closing /\ at # None
  BY <1>2, RunnerAssumption DEF Over, Errors
<1>4. s.first # None => s.degraded = s.first
  BY <1>2, <1>3 DEF Honest
<1>5. s.outcome = None
  BY <1>2, <1>3 DEF Honest
<1>6. Typed(t)
  BY <1>2, SMT DEF Typed, Fields
<1>7. /\ SameJournal(s, t) /\ t.running = s.running /\ t.closing = s.closing
      /\ t.degraded = s.degraded /\ t.outcome = s.outcome /\ t.verdict = s.verdict
      /\ t.first = IF s.first = None THEN at ELSE s.first
  BY <1>2 DEF Fields, SameJournal
<1> HIDE DEF t
<1>8. Journaled(t)
  BY <1>2, <1>7, SamePartsKeep
<1>9. Typed(u) /\ Journaled(u) /\ SameRun(t, u) /\ u.outcome = t.outcome
  BY <1>3, <1>6, <1>7, <1>8, AppendedKeeps
<1>10. DOMAIN u = Fields
  BY <1>9 DEF Typed
<1> HIDE DEF u
<1>11. Rejects(at) \in Verdicts /\ Rejects(at).kind = "reject" /\ Rejects(at).error = at
  BY DEF Rejects, Verdicts, Errors
<1>12. u.verdict = None /\ u.outcome = None /\ u.running = s.running /\ ~u.closing
       /\ u.degraded = s.degraded /\ u.first = IF s.first = None THEN at ELSE s.first
  BY <1>3, <1>5, <1>7, <1>9 DEF SameRun
<1>13. Typed(w)
  BY <1>9, <1>11, SMT DEF Typed, Fields
<1>14. /\ SameJournal(u, w) /\ w.running = u.running /\ w.closing = u.closing /\ w.outcome = u.outcome
       /\ w.degraded = u.degraded /\ w.first = u.first /\ w.verdict = Rejects(at)
  BY <1>10, <1>12 DEF Fields, SameJournal
<1> HIDE DEF w
<1>15. Journaled(w)
  BY <1>9, <1>14, SamePartsKeep
<1>16. Honest(w)
  <2>1. w.first # None /\ (w.degraded # None => w.first = w.degraded)
    BY <1>2, <1>3, <1>12, <1>14 DEF Honest
  <2>2. at = w.first \/ (w.degraded # None /\ at \notin {"operator", "journal"})
    BY <1>4, <1>12, <1>14
  <2>3. w.verdict.kind = "reject" /\ w.verdict.error = at /\ w.outcome = None
    BY <1>11, <1>12, <1>14
  <2>4. Says(w.verdict, w)
    BY <1>3, <2>1, <2>2, <2>3 DEF Says
  <2>5. w.verdict # None /\ (w.first # None => w.degraded = w.first \/ (w.verdict # None /\ w.verdict.kind = "reject"))
    BY <1>14, <2>3, <1>11, RunnerAssumption
  <2> QED BY <2>1, <2>3, <2>4, <2>5 DEF Honest
<1>17. Lane(w) /\ ~w.closing
  BY <1>2, <1>12, <1>14 DEF Lane, Over
<1> QED BY <1>1, <1>13, <1>15, <1>16, <1>17, AbandonKeeps

\* journaling an entry leaves the run as it was
LEMMA GoingAppended ==
  ASSUME NEW s, NEW gap, NEW wound, Going(s, gap, wound)
  PROVE  Going(Appended(s), gap, wound) /\ SameRun(s, Appended(s))
<1> DEFINE t == Appended(s)
<1>1. Typed(s) /\ Journaled(s) /\ Over(s) /\ Honest(s) /\ Winding(s) /\ ~s.finished
      /\ Whole(s, gap, wound) /\ Placed(s, {})
  BY DEF Going, Core
<1>2. ~s.closing
  BY <1>1 DEF Over
<1>3. /\ Typed(t) /\ Journaled(t) /\ SameRun(s, t)
      /\ t.outcome = s.outcome /\ t.completion = s.completion
  BY <1>1, <1>2, AppendedKeeps
<1> HIDE DEF t
<1>4. Over(t) /\ Winding(t) /\ Honest(t) /\ Whole(t, gap, wound) /\ Placed(t, {})
  BY <1>1, <1>3, SameRunKeeps
<1>5. ~t.finished
  BY <1>1, <1>3 DEF SameRun
<1> QED BY <1>3, <1>4, <1>5 DEF Going, Core, t

\* A degraded run goes on: the scope keeps all its requests and everything else is aborted or
\* dropped.
LEMMA KeepOnlyScopeKeeps ==
  ASSUME NEW s, NEW gap, NEW at \in Origins, Going(s, gap, FALSE), s.degraded = None
  PROVE  /\ Going(KeepOnlyScope(s, at), gap, FALSE)
         /\ KeepOnlyScope(s, at).degraded = at
         /\ Requests(KeepOnlyScope(s, at).running) = Requests(s.running)
<1> DEFINE a == [s EXCEPT !.first = IF s.first = None THEN at ELSE s.first]
           b == Appended(a)
           running == Abort(b.running, Effects \ Members)
           waiting == Only(b.waiting, Members)
           v == [b EXCEPT !.degraded = at, !.running = running, !.waiting = waiting]
<1>1. a = Noted(s, at) /\ KeepOnlyScope(s, at) = Appended(v)
  BY DEF Noted, KeepOnlyScope
<1>2. Typed(s) /\ Journaled(s) /\ Over(s) /\ Honest(s) /\ ~s.finished /\ DOMAIN s = Fields
      /\ Whole(s, gap, FALSE) /\ Placed(s, {})
  BY DEF Going, Core, Typed
<1>3. s.verdict = None /\ ~s.closing /\ at # None /\ at \in Errors
  BY <1>2, RunnerAssumption DEF Over, Errors, Origins
<1>4. s.first = None /\ s.outcome = None
  BY <1>2, <1>3 DEF Honest
<1>5. Typed(a)
  BY <1>2, <1>3, SMT DEF Typed, Fields
<1>6. /\ SameJournal(s, a) /\ a.first = at /\ a.closing = s.closing /\ a.running = s.running
      /\ a.waiting = s.waiting /\ a.buffer = s.buffer /\ a.done = s.done /\ a.asked = s.asked
      /\ a.folded = s.folded /\ a.verdict = s.verdict /\ a.outcome = s.outcome
      /\ a.finished = s.finished
  BY <1>2, <1>4 DEF Fields, SameJournal
<1>7. SameWrites(s, a)
  BY <1>2, <1>4 DEF Fields, SameWrites
<1> HIDE DEF a
<1>8. Journaled(a)
  BY <1>2, <1>6, SamePartsKeep
<1>9. Typed(b) /\ Journaled(b) /\ SameRun(a, b) /\ b.outcome = a.outcome
  BY <1>3, <1>5, <1>6, <1>8, AppendedKeeps
<1> HIDE DEF b
<1>10. /\ b.first = at /\ ~b.closing /\ b.running = s.running /\ b.waiting = s.waiting
       /\ b.buffer = s.buffer /\ b.done = s.done /\ b.asked = s.asked /\ b.folded = s.folded
       /\ b.verdict = None /\ b.outcome = None /\ ~b.finished /\ SameWrites(s, b)
  BY <1>2, <1>3, <1>4, <1>6, <1>7, <1>9 DEF SameRun, SameWrites
<1>11. DOMAIN b = Fields /\ b.running \in SUBSET Running /\ b.waiting \in Seq(Jobs)
  BY <1>9 DEF Typed
<1>12. /\ running \subseteq Running /\ Requests(running) = Requests(b.running)
       /\ \A j \in running : j.effect \in Effects \ Members => j.aborted
       /\ IsFiniteSet(running) /\ Cardinality(running) <= Cardinality(b.running)
       /\ \A i, j \in running : i.write = j.write /\ i.effect = j.effect => i = j
       /\ \A j \in running : ~j.finishing
  <2>1. IsFiniteSet(b.running)
    BY <1>2, <1>10 DEF Over
  <2>2. \A i, j \in b.running : i.write = j.write /\ i.effect = j.effect => i = j
    BY <1>2, <1>10 DEF Placed
  <2>3. \A j \in b.running : ~j.finishing
    BY <1>2, <1>10 DEF Over
  <2> HIDE DEF running
  <2> QED BY <1>11, <2>1, <2>2, <2>3, RequestsOfAbort DEF running
<1>13. /\ waiting \in Seq(Jobs) /\ ToSet(waiting) = {j \in ToSet(s.waiting) : j.effect \in Members}
       /\ Distinct(waiting)
  <2>1. Distinct(s.waiting)
    BY <1>2 DEF Placed
  <2> QED BY <1>10, <1>11, <2>1, OnlyOf
<1> HIDE DEF running, waiting
<1>14. Typed(v)
  BY <1>3, <1>9, <1>12, <1>13, SMT DEF Typed, Fields
<1>15. /\ SameJournal(b, v) /\ v.degraded = at /\ v.running = running /\ v.waiting = waiting
       /\ v.first = b.first /\ v.verdict = b.verdict /\ v.outcome = b.outcome
       /\ v.finished = b.finished /\ v.closing = b.closing
  BY <1>11 DEF Fields, SameJournal
<1>16. SameWrites(b, v) /\ v.buffer = b.buffer /\ v.done = b.done /\ v.asked = b.asked
  BY <1>11 DEF Fields, SameWrites
<1> HIDE DEF v
<1>17. Journaled(v)
  BY <1>9, <1>15, SamePartsKeep
<1>18. Over(v)
  <2>1. Cardinality(running) \in Nat /\ Cardinality(s.running) \in Nat /\ Cardinality(s.running) <= Concurrency
    BY <1>2, <1>12, FS_CardinalityType DEF Over
  <2>2. Cardinality(v.running) <= Concurrency
    BY <1>10, <1>12, <1>15, <2>1, RunnerAssumption
  <2> QED BY <1>10, <1>12, <1>15, <2>2 DEF Over
<1>19. Honest(v)
  BY <1>3, <1>10, <1>15 DEF Honest
<1>20. Winding(v)
  <2>1. \A j \in running : j.effect \in Effects
    BY <1>12 DEF Running
  <2> QED BY <1>12, <1>13, <1>15, <2>1 DEF Winding
<1>21. Whole(v, gap, FALSE)
  BY <1>2, <1>10, <1>16 DEF Whole, SameWrites
<1>22. Placed(v, {})
  <2>1. Buffers(v) = Buffers(s)
    BY <1>10, <1>16 DEF Buffers
  <2>2. /\ Requests(v.running) = Requests(s.running) /\ v.done = s.done /\ v.asked = s.asked
        /\ v.folded = s.folded /\ v.buffer = s.buffer
    BY <1>10, <1>12, <1>15, <1>16 DEF SameWrites
  <2>3. ToSet(v.waiting) = {j \in ToSet(s.waiting) : j.effect \in Members} /\ Distinct(v.waiting)
    BY <1>13, <1>15
  <2>4. \A i, j \in v.running : i.write = j.write /\ i.effect = j.effect => i = j
    BY <1>12, <1>15
  <2> QED BY <1>2, <2>1, <2>2, <2>3, <2>4 DEF Placed
<1>23. Going(v, gap, FALSE)
  BY <1>10, <1>14, <1>15, <1>17, <1>18, <1>19, <1>20, <1>21, <1>22 DEF Going, Core
<1>24. Going(Appended(v), gap, FALSE) /\ SameRun(v, Appended(v))
  BY <1>23, GoingAppended
<1>25. Requests(v.running) = Requests(s.running)
  BY <1>10, <1>12, <1>15
<1> QED BY <1>1, <1>15, <1>24, <1>25 DEF SameRun

\* a write that is folded is gone from the gap
LEMMA WholeFolded ==
  ASSUME NEW s, NEW t, NEW w \in Writes, NEW wound, Typed(s), Whole(s, <<w>>, wound),
         t.accepted = s.accepted, t.pending = s.pending, t.folded = Append(s.folded, w)
  PROVE  Whole(t, <<>>, wound) /\ w \notin ToSet(s.folded)
<1>1. s.folded \in Seq(Writes) /\ s.pending \in Seq(Writes) /\ <<w>> \in Seq(Writes)
  BY DEF Typed
<1> DEFINE a == s.folded
           b == s.pending
<1>2. s.accepted = a \o (<<w>> \o b) /\ Distinct(a \o (<<w>> \o b))
  BY DEF Whole
<1> HIDE DEF a, b
<1>3. a \in Seq(Writes) /\ b \in Seq(Writes)
  BY <1>1 DEF a, b
<1>4. Append(a, w) \o (<<>> \o b) = a \o (<<w>> \o b)
  <2>1. <<>> \o b = b /\ <<w>> \o b \in Seq(Writes) /\ Append(a, w) \in Seq(Writes)
    BY <1>1, <1>3
  <2> DEFINE x == Append(a, w) \o b
             y == a \o (<<w>> \o b)
  <2>2. /\ x \in Seq(Writes) /\ y \in Seq(Writes) /\ Len(a) \in Nat /\ Len(b) \in Nat
        /\ Len(x) = (Len(a) + 1) + Len(b) /\ Len(y) = Len(a) + (1 + Len(b))
    BY <1>1, <1>3, <2>1
  <2>3. ASSUME NEW i \in 1 .. (Len(a) + 1) + Len(b) PROVE x[i] = y[i]
    <3>1. CASE i <= Len(a)
      BY <1>3, <2>1, <2>2, <3>1
    <3>2. CASE i = Len(a) + 1
      <4>1. x[i] = w
        BY <1>3, <2>1, <2>2, <3>2
      <4>2. y[i] = (<<w>> \o b)[1]
        BY <1>3, <2>1, <2>2, <3>2
      <4>3. (<<w>> \o b)[1] = w
        BY <1>1, <1>3
      <4> QED BY <4>1, <4>2, <4>3
    <3>3. CASE i > Len(a) + 1
      <4> DEFINE k == i - (Len(a) + 1)
      <4>1. k \in 1 .. Len(b) /\ x[i] = b[k]
        BY <1>3, <2>1, <2>2, <3>3
      <4>2. y[i] = (<<w>> \o b)[i - Len(a)]
        BY <1>3, <2>1, <2>2, <3>3
      <4>3. i - Len(a) = 1 + k
        BY <2>2, <3>3
      <4>4. (<<w>> \o b)[1 + k] = b[k]
        <5> HIDE DEF k
        <5> QED BY <1>1, <1>3, <4>1
      <4> QED BY <4>1, <4>2, <4>3, <4>4
    <3>4. i <= Len(a) \/ i = Len(a) + 1 \/ i > Len(a) + 1
      BY <2>2
    <3> QED BY <3>1, <3>2, <3>3, <3>4, Zenon
  <2>4. Len(x) = Len(y) /\ Len(x) = (Len(a) + 1) + Len(b)
    BY <2>2
  <2> HIDE DEF x, y
  <2>5. x = y
    BY <2>2, <2>3, <2>4
  <2> QED BY <2>1, <2>5 DEF x, y
<1>5. w \notin ToSet(a)
  <2>1. <<w>> \o b \in Seq(Writes) /\ ToSet(<<w>> \o b) = ToSet(<<w>>) \cup ToSet(b)
    <3> DEFINE c == <<w>>
    <3>1. c \in Seq(Writes)
      BY <1>1
    <3> HIDE DEF c
    <3>2. c \o b \in Seq(Writes) /\ ToSet(c \o b) = ToSet(c) \cup ToSet(b)
      BY <1>3, <3>1, ToSetOfConcat
    <3> QED BY <3>2 DEF c
  <2>2. ToSet(a) \cap ToSet(<<w>> \o b) = {}
    BY <1>2, <1>3, <2>1, ToSetOfConcat
  <2>3. w \in ToSet(<<w>>)
    BY DEF ToSet
  <2> QED BY <2>1, <2>2, <2>3
<1>6. t.accepted = t.folded \o (<<>> \o t.pending)
  BY <1>2, <1>4 DEF a, b
<1> QED BY <1>5, <1>6 DEF Whole, a

\* A folded write moves from the gap to what the scope has folded, its requests to the buffers.
LEMMA FoldsKeep ==
  ASSUME NEW s, NEW w \in Writes, NEW wound, Going(s, <<w>>, wound), NEW t \in Folds(s, w)
  PROVE  Going(t, <<>>, wound) /\ t.degraded = s.degraded /\ t.running = s.running
<1>1. PICK D \in SUBSET Effects :
        t = [s EXCEPT
               !.folded = Append(@, w),
               !.buffer = [e \in Effects |-> IF e \in D THEN Append(@[e], w) ELSE @[e]],
               !.asked = @ \cup {[write |-> w, effect |-> e] : e \in D \cap Members}]
  BY DEF Folds
<1> DEFINE more == {[write |-> w, effect |-> e] : e \in D \cap Members}
           buffer == [e \in Effects |-> IF e \in D THEN Append(s.buffer[e], w) ELSE s.buffer[e]]
<1>2. Typed(s) /\ Journaled(s) /\ Over(s) /\ Honest(s) /\ Winding(s) /\ ~s.finished /\ DOMAIN s = Fields
      /\ Whole(s, <<w>>, wound) /\ Placed(s, {})
  BY DEF Going, Core, Typed
<1>3. more \subseteq Jobs
  BY DEF Jobs
<1>4. \A e \in Effects : s.buffer[e] \in Seq(Writes)
  BY <1>2 DEF Typed
<1>5. \A e \in Effects : /\ buffer[e] = IF e \in D THEN Append(s.buffer[e], w) ELSE s.buffer[e]
                         /\ buffer[e] \in Seq(Writes)
  BY <1>4
<1>6. buffer \in [Effects -> Seq(Writes)]
  BY <1>4
<1>7. t = [s EXCEPT !.folded = Append(s.folded, w), !.buffer = buffer, !.asked = s.asked \cup more]
  BY <1>1
<1> HIDE DEF buffer, more
<1>8. s.folded \in Seq(Writes) /\ Append(s.folded, w) \in Seq(Writes)
      /\ ToSet(Append(s.folded, w)) = ToSet(s.folded) \cup {w}
  BY <1>2, ToSetOfAppend DEF Typed
<1>9. /\ SameJournal(s, t) /\ SameEnd(s, t) /\ t.finished = s.finished /\ t.running = s.running
      /\ t.waiting = s.waiting /\ t.done = s.done
  BY <1>2, <1>7 DEF Fields, SameJournal, SameEnd
<1>10. /\ t.folded = Append(s.folded, w) /\ t.buffer = buffer /\ t.asked = s.asked \cup more
       /\ t.accepted = s.accepted /\ t.pending = s.pending /\ DOMAIN t = Fields
  BY <1>2, <1>7 DEF Fields
<1>11. Typed(t)
  <2>1. s.asked \cup more \subseteq Jobs
    BY <1>2, <1>3 DEF Typed
  <2> QED BY <1>2, <1>6, <1>7, <1>8, <2>1, SMT DEF Typed, Fields
<1>12. Journaled(t) /\ Honest(t)
  BY <1>2, <1>9, SamePartsKeep
<1>13. Over(t)
  BY <1>2, <1>9, <1>10 DEF Over, SameJournal, SameEnd
<1>14. Winding(t)
  BY <1>2, <1>9 DEF Winding, SameEnd
<1>15. Whole(t, <<>>, wound) /\ w \notin ToSet(s.folded)
  BY <1>2, <1>10, WholeFolded
<1>16. Placed(t, {})
  <2> DEFINE B == {q \in Jobs : q.write = w /\ q.effect \in D}
  <2>1. Buffers(t) = Buffers(s) \cup B
    <3>1. ASSUME NEW q \in Jobs
          PROVE  q.write \in ToSet(buffer[q.effect]) <=>
                   q.write \in ToSet(s.buffer[q.effect]) \/ (q.write = w /\ q.effect \in D)
      <4>1. q.effect \in Effects
        BY DEF Jobs
      <4>2. ToSet(Append(s.buffer[q.effect], w)) = ToSet(s.buffer[q.effect]) \cup {w}
        BY <1>4, <4>1, ToSetOfAppend
      <4> QED BY <1>5, <4>1, <4>2
    <3> QED BY <1>10, <3>1 DEF Buffers
  <2>2. ASSUME NEW e \in Effects PROVE Distinct(t.buffer[e])
    <3>1. Distinct(s.buffer[e])
      BY <1>2 DEF Placed
    <3>2. w \notin ToSet(s.buffer[e])
      <4> SUFFICES ASSUME w \in ToSet(s.buffer[e]) PROVE FALSE
        OBVIOUS
      <4> DEFINE q == [write |-> w, effect |-> e]
      <4>1. q \in Jobs /\ q.write = w /\ q.effect = e
        BY DEF Jobs
      <4> HIDE DEF q
      <4>2. q \in Buffers(s)
        BY <4>1 DEF Buffers
      <4> QED BY <1>2, <1>15, <4>1, <4>2 DEF Placed
    <3>3. Distinct(Append(s.buffer[e], w))
      BY <1>4, <3>1, <3>2, ToSetOfAppend
    <3> QED BY <1>5, <1>10, <3>1, <3>3
  <2>3. \A q \in B : q \notin ToSet(s.waiting) \cup Requests(s.running) \cup s.asked \cup s.done
    BY <1>2, <1>15 DEF Placed
  <2>4. more \subseteq B /\ \A q \in more : q.effect \in Members
    BY DEF more, Jobs
  <2>5. \A q \in B \cup more : q.write = w
    BY <2>4
  <2>6. \A i, j \in t.running : i.write = j.write /\ i.effect = j.effect => i = j
    BY <1>2, <1>9 DEF Placed
  <2>7. /\ t.waiting = s.waiting /\ t.running = s.running /\ t.done = s.done
        /\ t.asked = s.asked \cup more /\ ToSet(t.folded) = ToSet(s.folded) \cup {w}
    BY <1>8, <1>9, <1>10
  <2> HIDE DEF B
  <2>8. /\ Buffers(t) \cap ToSet(t.waiting) = {} /\ Buffers(t) \cap Requests(t.running) = {}
        /\ ToSet(t.waiting) \cap Requests(t.running) = {} /\ Distinct(t.waiting)
        /\ t.done \cap (Buffers(t) \cup ToSet(t.waiting) \cup Requests(t.running)) = {}
        /\ t.done \subseteq t.asked /\ \A q \in t.asked : q.effect \in Members
    BY <1>2, <2>1, <2>3, <2>4, <2>7 DEF Placed
  <2>9. \A q \in Buffers(t) \cup ToSet(t.waiting) \cup Requests(t.running) \cup t.asked :
          q.write \in ToSet(t.folded)
    BY <1>2, <2>1, <2>5, <2>7 DEF Placed
  <2>10. t.asked \subseteq Buffers(t) \cup ToSet(t.waiting) \cup Requests(t.running) \cup t.done \cup {}
    BY <1>2, <2>1, <2>4, <2>7 DEF Placed
  <2> QED BY <2>2, <2>6, <2>8, <2>9, <2>10 DEF Placed
<1> QED BY <1>2, <1>9, <1>11, <1>12, <1>13, <1>14, <1>15, <1>16 DEF Going, Core, SameEnd

Maybe == Effects \cup {None}
Lost(e) == {q \in Jobs : q.effect = e}
\* the states that differ in what waits in buffers and in the lane, and the effect that refused
Taken(t, C) == [t EXCEPT !.buffer = C]
Filled(s, B, W) == [s EXCEPT !.buffer = B, !.waiting = W]
Routing(s, B, W, c) == [at |-> [s EXCEPT !.buffer = B, !.waiting = W], refused |-> c]
Routings(s) ==
  {[at |-> s, refused |-> None]} \cup
  {Routing(s, B, W, c) : B \in [Effects -> Seq(Writes)], W \in Seq(Jobs), c \in Maybe}
Routed(s, x) ==
  /\ x \in Routings(s)
  /\ Winding(x.at) /\ Placed(x.at, Lost(x.refused))

\* A routing state differs from the state it came from in the buffers, the lane and the refusal.
LEMMA RoutingIs ==
  ASSUME NEW s, Typed(s), NEW B \in [Effects -> Seq(Writes)], NEW W \in Seq(Jobs),
         NEW c \in Maybe, NEW x,
         x = Routing(s, B, W, c)
  PROVE  /\ x.at.buffer = B /\ x.at.waiting = W /\ x.refused = c
         /\ x \in Routings(s) /\ Typed(x.at)
         /\ SameJournal(s, x.at) /\ SameEnd(s, x.at) /\ SameWrites(s, x.at)
         /\ x.at.finished = s.finished /\ x.at.running = s.running
         /\ x.at.done = s.done /\ x.at.asked = s.asked
<1> DEFINE t == [s EXCEPT !.buffer = B, !.waiting = W]
<1>1. x.at = t /\ x.refused = c
  BY DEF Routing
<1>2. DOMAIN s = Fields
  BY DEF Typed
<1>3. t.buffer = B /\ t.waiting = W /\ SameJournal(s, t) /\ SameEnd(s, t) /\ SameWrites(s, t)
      /\ t.finished = s.finished /\ t.running = s.running /\ t.done = s.done /\ t.asked = s.asked
      /\ DOMAIN t = Fields
  BY <1>2 DEF Fields, SameJournal, SameEnd, SameWrites
<1>4. x \in Routings(s)
  BY DEF Routings
<1> HIDE DEF t
<1>5. Typed(t)
  BY <1>3 DEF Typed, SameJournal, SameEnd, SameWrites
<1> QED BY <1>1, <1>3, <1>4, <1>5

\* So does every member of Routings.
LEMMA RoutingsAre ==
  ASSUME NEW s, Typed(s), NEW x \in Routings(s)
  PROVE  /\ x.refused \in Maybe /\ Typed(x.at)
         /\ SameJournal(s, x.at) /\ SameEnd(s, x.at) /\ SameWrites(s, x.at)
         /\ x.at.finished = s.finished /\ x.at.running = s.running
         /\ x.at.done = s.done /\ x.at.asked = s.asked
<1>1. CASE x = [at |-> s, refused |-> None]
  <2>1. x.at = s /\ x.refused = None
    BY <1>1
  <2>2. SameJournal(s, s) /\ SameEnd(s, s) /\ SameWrites(s, s)
    BY DEF SameJournal, SameEnd, SameWrites
  <2> QED BY <2>1, <2>2 DEF Maybe
<1>2. CASE x \in {Routing(s, B, W, c) : B \in [Effects -> Seq(Writes)], W \in Seq(Jobs), c \in Maybe}
  <2>1. PICK B \in [Effects -> Seq(Writes)], W \in Seq(Jobs), c \in Maybe : x = Routing(s, B, W, c)
    BY <1>2
  <2>2. B \in [Effects -> Seq(Writes)] /\ W \in Seq(Jobs) /\ c \in Maybe
    OBVIOUS
  <2> QED BY <2>1, <2>2, RoutingIs
<1> QED BY <1>1, <1>2 DEF Routings

\* taking from a buffer of such a state gives such a state
LEMMA RoutingsTake ==
  ASSUME NEW s, Typed(s), NEW x \in Routings(s), NEW C
  PROVE  /\ x = [at |-> x.at, refused |-> x.refused]
         /\ Taken(x.at, C) = Filled(s, C, x.at.waiting)
<1>0. DOMAIN s = Fields
  BY DEF Typed
<1>1. CASE x = [at |-> s, refused |-> None]
  <2>1. x.at = s /\ x.refused = None
    BY <1>1
  <2>2. x = [at |-> x.at, refused |-> x.refused]
    BY <1>1, <2>1, Zenon
  <2>3. [s EXCEPT !.buffer = C] = [s EXCEPT !.buffer = C, !.waiting = s.waiting]
    BY <1>0 DEF Fields
  <2> QED BY <2>1, <2>2, <2>3, Zenon DEF Taken, Filled
<1>2. CASE x \in {Routing(s, B, W, c) : B \in [Effects -> Seq(Writes)], W \in Seq(Jobs), c \in Maybe}
  <2>1. PICK B \in [Effects -> Seq(Writes)], W \in Seq(Jobs), c \in Maybe : x = Routing(s, B, W, c)
    BY <1>2
  <2>2. x = [at |-> x.at, refused |-> x.refused] /\ x.at = [s EXCEPT !.buffer = B, !.waiting = W]
    BY <2>1 DEF Routing
  <2>3. x.at.waiting = W
    BY <1>0, <2>2 DEF Fields
  <2>4. [x.at EXCEPT !.buffer = C] = [s EXCEPT !.buffer = C, !.waiting = W]
    BY <1>0, <2>2 DEF Fields
  <2> QED BY <2>2, <2>3, <2>4, Zenon DEF Taken, Filled
<1> QED BY <1>1, <1>2 DEF Routings

\* A request that fits is one of those that wanted to.
LEMMA FittingIs ==
  ASSUME NEW s, Typed(s), Lane(s), NEW n \in Nat, NEW urgent \in BOOLEAN
  PROVE  Fitting(s, n, urgent) \in 0 .. n
<1> DEFINE space == Queue + Free(s, urgent) - Queued(s.waiting, urgent)
           ahead == Cardinality(s.running) + (IF urgent THEN 0 ELSE Queued(s.waiting, TRUE))
<1>0. s.waiting \in Seq(Jobs) /\ Len(s.waiting) \in Nat
  BY DEF Typed
<1>1. Queued(s.waiting, urgent) \in 0 .. Len(s.waiting)
  BY <1>0, QueuedIs, Zenon
<1>2. Queued(s.waiting, TRUE) \in 0 .. Len(s.waiting)
  BY <1>0, QueuedIs, Zenon
<1>3. ahead \in Nat
  <2>1. Cardinality(s.running) \in Nat
    BY FS_CardinalityType DEF Lane
  <2> DEFINE q == Queued(s.waiting, TRUE)
             k == Len(s.waiting)
  <2>2. k \in Nat /\ q \in 0 .. k
    BY <1>0, <1>2, Zenon
  <2> HIDE DEF q, k
  <2>3. q \in Nat
    BY <2>2
  <2>4. (IF urgent THEN 0 ELSE q) \in Nat
    BY <2>3
  <2> DEFINE z == IF urgent THEN 0 ELSE q
  <2>5. ahead = Cardinality(s.running) + z
    BY DEF q
  <2> HIDE DEF z, ahead
  <2>6. z \in Nat
    BY <2>4 DEF z
  <2> QED BY <2>1, <2>5, <2>6
<1>4. Free(s, urgent) = IF ahead >= Concurrency THEN 0 ELSE Concurrency - ahead
  BY DEF Free
<1> HIDE DEF ahead
<1>5. Free(s, urgent) \in Nat
  BY <1>3, <1>4, RunnerAssumption
<1>6. space \in Int
  <2> DEFINE q == Queued(s.waiting, urgent)
             k == Len(s.waiting)
  <2>1. k \in Nat /\ q \in 0 .. k
    BY <1>0, <1>1, Zenon
  <2> HIDE DEF q, k
  <2>2. q \in Nat
    BY <2>1
  <2> QED BY <1>5, <2>2, RunnerAssumption DEF q
<1>7. Fitting(s, n, urgent) = IF space <= 0 THEN 0 ELSE IF space < n THEN space ELSE n
  BY DEF Fitting
<1> HIDE DEF space
<1> QED BY <1>6, <1>7

\* take moves the deliveries of one effect into the lane, behind those of their kind; a refusal
\* loses its own.
LEMMA RouteOneKeeps ==
  ASSUME NEW s, Typed(s), Lane(s), NEW x, Routed(s, x), NEW e \in Effects, NEW refuses
  PROVE  Routed(s, RouteOne(x, e, refuses))
<1> DEFINE jobs == [i \in DOMAIN x.at.buffer[e] |-> [write |-> x.at.buffer[e][i], effect |-> e]]
           urgent == e \in Urgent
           n == IF e = refuses THEN 0 ELSE Fitting(x.at, Len(jobs), urgent)
           taken == [x.at EXCEPT !.buffer[e] = <<>>]
           more == SubSeq(jobs, 1, n)
           waiting == Admitted(x.at.waiting, more, urgent)
           out == [at |-> [taken EXCEPT !.waiting = waiting], refused |-> IF n < Len(jobs) THEN e ELSE None]
<1> DEFINE B == x.at.buffer
           W == x.at.waiting
           c == x.refused
<1>1. x = [at |-> x.at, refused |-> x.refused] /\ x.refused \in Maybe /\ x \in Routings(s)
  BY RoutingsAre, RoutingsTake DEF Routed
<1>2. /\ x.at.buffer = B /\ x.at.waiting = W /\ x.refused = c /\ Typed(x.at)
      /\ SameEnd(s, x.at) /\ SameWrites(s, x.at) /\ x.at.running = s.running
      /\ x.at.finished = s.finished /\ x.at.done = s.done /\ x.at.asked = s.asked
      /\ B \in [Effects -> Seq(Writes)] /\ W \in Seq(Jobs)
  <2>1. /\ Typed(x.at) /\ SameEnd(s, x.at) /\ SameWrites(s, x.at) /\ x.at.running = s.running
        /\ x.at.finished = s.finished /\ x.at.done = s.done /\ x.at.asked = s.asked
    BY RoutingsAre DEF Routed
  <2> QED BY <2>1 DEF Typed
<1> HIDE DEF B, W, c
<1>3. Winding(x.at) /\ Placed(x.at, Lost(c))
  BY <1>2 DEF Routed
<1>4. CASE c # None
  BY <1>2, <1>4 DEF RouteOne
<1> SUFFICES ASSUME c = None PROVE Routed(s, RouteOne(x, e, refuses))
  BY <1>4
<1> DEFINE C == [B EXCEPT ![e] = <<>>]
<1>5. /\ C \in [Effects -> Seq(Writes)] /\ C[e] = <<>> /\ \A d \in Effects \ {e} : C[d] = B[d]
  <2>1. <<>> \in Seq(Writes)
    OBVIOUS
  <2> QED BY <1>2, <2>1
<1>6. taken = [s EXCEPT !.buffer = C, !.waiting = W]
  <2>3. taken = [x.at EXCEPT !.buffer = C]
    BY <1>2
  <2> HIDE DEF C, taken
  <2>4. Taken(x.at, C) = Filled(s, C, x.at.waiting)
    BY <1>1, RoutingsTake
  <2> QED BY <1>2, <2>3, <2>4 DEF Taken, Filled
<1>7. Placed(x.at, {}) /\ Lost(None) = {}
  <2>1. None \notin Effects
    BY RunnerAssumption
  <2>2. Lost(None) = {}
    BY <2>1 DEF Lost, Jobs
  <2> QED BY <1>3, <2>2
<1>8. B[e] \in Seq(Writes) /\ Distinct(B[e])
  BY <1>2, <1>7 DEF Placed
<1>9. /\ jobs \in Seq(Jobs) /\ Len(jobs) \in Nat /\ Distinct(jobs)
      /\ ToSet(jobs) = {q \in Buffers(x.at) : q.effect = e}
  <2>1. DOMAIN B[e] = 1 .. Len(B[e]) /\ Len(B[e]) \in Nat
    BY <1>8
  <2>2. jobs = [i \in 1 .. Len(B[e]) |-> [write |-> B[e][i], effect |-> e]]
    BY <1>2, <2>1
  <2>3. \A i \in 1 .. Len(B[e]) : [write |-> B[e][i], effect |-> e] \in Jobs
    BY <1>8, <2>1 DEF Jobs
  <2>4. jobs \in Seq(Jobs) /\ Len(jobs) = Len(B[e])
    <3> DEFINE k == Len(B[e])
               j(i) == [write |-> B[e][i], effect |-> e]
    <3>1. k \in Nat /\ jobs = [i \in 1 .. k |-> j(i)] /\ \A i \in 1 .. k : j(i) \in Jobs
      BY <2>1, <2>2, <2>3
    <3> HIDE DEF jobs, k, j
    <3>2. jobs \in Seq(Jobs) /\ Len(jobs) = k
      BY <3>1
    <3> QED BY <3>2 DEF k
  <2>5. Distinct(jobs)
    BY <1>8, <2>1, <2>2, ZenonT(60) DEF Distinct
  <2>6. ASSUME NEW q \in Jobs, q.effect = e PROVE q \in ToSet(jobs) <=> q.write \in ToSet(B[e])
    <3>1. q = [write |-> q.write, effect |-> e]
      BY <2>6 DEF Jobs
    <3>2. q \in ToSet(jobs) <=> \E i \in 1 .. Len(B[e]) : [write |-> B[e][i], effect |-> e] = q
      BY <2>2 DEF ToSet
    <3>3. q.write \in ToSet(B[e]) <=> \E i \in 1 .. Len(B[e]) : B[e][i] = q.write
      BY <2>1 DEF ToSet
    <3> QED BY <3>1, <3>2, <3>3
  <2>7. \A q \in ToSet(jobs) : q \in Jobs /\ q.effect = e
    <3>1. \A q \in ToSet(jobs) : \E i \in 1 .. Len(B[e]) : q = [write |-> B[e][i], effect |-> e]
      BY <2>2 DEF ToSet
    <3> HIDE DEF jobs
    <3> QED BY <2>3, <3>1
  <2> HIDE DEF jobs
  <2> QED BY <1>2, <2>1, <2>4, <2>5, <2>6, <2>7 DEF Buffers
<1> HIDE DEF jobs, C
<1>10. ASSUME NEW u, u.buffer = C
       PROVE  Buffers(u) = Buffers(x.at) \ ToSet(jobs)
  <2>1. \A q \in Jobs : q.effect \in Effects
    BY DEF Jobs
  <2>2. ToSet(C[e]) = {}
    BY <1>5 DEF ToSet
  <2> QED BY <1>2, <1>5, <1>9, <1>10, <2>1, <2>2 DEF Buffers
<1>11. ASSUME NEW u, u.buffer = C PROVE \A d \in Effects : Distinct(u.buffer[d])
  <2>1. Distinct(<<>>)
    BY DEF Distinct
  <2> QED BY <1>2, <1>5, <1>7, <1>11, <2>1 DEF Placed
<1>12. CASE ~Active(x.at, e)
  <2> DEFINE y == [x EXCEPT !.at = taken]
  <2>1. RouteOne(x, e, refuses) = y
    BY <1>2, <1>12 DEF RouteOne
  <2>2. y = Routing(s, C, W, None)
    <3>1. x.refused = None
      BY <1>2
    <3> DEFINE v == [s EXCEPT !.buffer = C, !.waiting = W]
    <3>2. taken = v
      BY <1>6
    <3> HIDE DEF taken, v
    <3>3. y = [at |-> taken, refused |-> x.refused]
      <4> DEFINE a == x.at
                 b == x.refused
      <4>1. x = [at |-> a, refused |-> b]
        BY <1>1
      <4> HIDE DEF a, b
      <4>2. y = [at |-> taken, refused |-> b]
        BY <4>1
      <4> QED BY <4>2 DEF b
    <3>4. y = [at |-> v, refused |-> None]
      BY <3>1, <3>2, <3>3
    <3> QED BY <3>4 DEF Routing, v
  <2> HIDE DEF y
  <2>3. /\ y.at.buffer = C /\ y.at.waiting = W /\ y.refused = None /\ y \in Routings(s)
        /\ SameEnd(s, y.at) /\ SameWrites(s, y.at)
        /\ y.at.finished = s.finished /\ y.at.running = s.running
        /\ y.at.done = s.done /\ y.at.asked = s.asked
    <3>1. None \in Maybe
      BY DEF Maybe
    <3>2. ASSUME NEW c2 \in Maybe, NEW V \in Seq(Jobs), NEW o, o = Routing(s, C, V, c2)
          PROVE  /\ o.at.buffer = C /\ o.at.waiting = V /\ o.refused = c2 /\ o \in Routings(s)
                 /\ SameEnd(s, o.at) /\ SameWrites(s, o.at)
                 /\ o.at.finished = s.finished /\ o.at.running = s.running
                 /\ o.at.done = s.done /\ o.at.asked = s.asked
      <4>1. C \in [Effects -> Seq(Writes)]
        BY <1>5
      <4> QED BY <3>2, <4>1, RoutingIs
    <3>3. W \in Seq(Jobs)
      BY <1>2
    <3> QED BY <2>2, <3>1, <3>2, <3>3
  <2>4. e \notin Members
    BY <1>12 DEF Active
  <2>5. Winding(y.at)
    BY <1>2, <1>3, <2>3 DEF Winding, SameEnd
  <2>6. Buffers(y.at) = Buffers(x.at) \ ToSet(jobs)
    BY <1>10, <2>3
  <2>7. \A d \in Effects : Distinct(y.at.buffer[d])
    BY <1>11, <2>3
  <2>8. \A q \in ToSet(jobs) : q \notin y.at.asked
    BY <1>2, <1>7, <1>9, <2>3, <2>4 DEF Placed
  <2>9. /\ y.at.waiting = x.at.waiting /\ y.at.running = x.at.running /\ y.at.done = x.at.done
        /\ y.at.asked = x.at.asked /\ y.at.folded = x.at.folded
    BY <1>2, <2>3 DEF SameWrites
  <2>10. Placed(y.at, {})
    BY <1>7, <2>6, <2>7, <2>8, <2>9 DEF Placed
  <2> QED BY <1>7, <2>1, <2>3, <2>5, <2>10 DEF Routed
<1>13. CASE Active(x.at, e)
  <2>1. RouteOne(x, e, refuses) = out
    BY <1>2, <1>13 DEF RouteOne, jobs
  <2>2. n \in 0 .. Len(jobs)
    <3>1. Lane(x.at)
      BY <1>2 DEF Lane
    <3>2. Fitting(x.at, Len(jobs), urgent) \in 0 .. Len(jobs)
      <4>1. urgent \in BOOLEAN
        OBVIOUS
      <4> HIDE DEF urgent
      <4> QED BY <1>2, <1>9, <3>1, <4>1, FittingIs, Zenon
    <3> QED BY <1>9, <3>2
  <2> HIDE DEF n
  <2> DEFINE rest == SubSeq(jobs, n + 1, Len(jobs))
  <2>3. more \in Seq(Jobs) /\ rest \in Seq(Jobs) /\ more \o rest = jobs /\ Len(rest) = Len(jobs) - n
    BY <1>9, <2>2, Split
  <2> HIDE DEF more, rest
  <2>4. ToSet(jobs) = ToSet(more) \cup ToSet(rest) /\ Distinct(more) /\ ToSet(more) \cap ToSet(rest) = {}
    BY <1>9, <2>3, ToSetOfConcat
  <2>5. ToSet(more) \subseteq Buffers(x.at) /\ \A q \in ToSet(jobs) : q.effect = e
    BY <1>9, <2>4
  <2>6. ToSet(x.at.waiting) \cap ToSet(more) = {}
    BY <1>7, <2>5 DEF Placed
  <2>7. /\ waiting \in Seq(Jobs) /\ ToSet(waiting) = ToSet(x.at.waiting) \cup ToSet(more)
        /\ Distinct(waiting)
    <3>1. Distinct(x.at.waiting) /\ x.at.waiting \in Seq(Jobs) /\ urgent \in BOOLEAN
      BY <1>2, <1>7 DEF Placed
    <3> HIDE DEF urgent
    <3> QED BY <2>3, <2>4, <2>6, <3>1, AdmittedIs, Zenon
  <2> HIDE DEF waiting
  <2>8. ~(n < Len(jobs)) => ToSet(rest) = {}
    <3> SUFFICES ASSUME ~(n < Len(jobs)) PROVE ToSet(rest) = {}
      OBVIOUS
    <3>1. Len(rest) = 0
      BY <1>9, <2>2, <2>3
    <3>2. rest = <<>>
      BY <2>3, <3>1
    <3> QED BY <3>2 DEF ToSet
  <2> DEFINE refused == IF n < Len(jobs) THEN e ELSE None
  <2>9. out = Routing(s, C, waiting, refused)
    <3>1. DOMAIN s = Fields
      BY DEF Typed
    <3> HIDE DEF taken
    <3> QED BY <1>6, <3>1 DEF Fields, Routing
  <2> HIDE DEF out
  <2>10. /\ out.at.buffer = C /\ out.at.waiting = waiting /\ out.refused = refused /\ out \in Routings(s)
         /\ SameEnd(s, out.at) /\ SameWrites(s, out.at)
         /\ out.at.finished = s.finished /\ out.at.running = s.running
         /\ out.at.done = s.done /\ out.at.asked = s.asked
    <3>1. refused \in Maybe
      BY DEF Maybe
    <3>2. C \in [Effects -> Seq(Writes)] /\ waiting \in Seq(Jobs)
      BY <1>5, <2>7
    <3> HIDE DEF refused
    <3>3. ASSUME NEW c2 \in Maybe, NEW V \in Seq(Jobs), NEW o, o = Routing(s, C, V, c2)
          PROVE  /\ o.at.buffer = C /\ o.at.waiting = V /\ o.refused = c2 /\ o \in Routings(s)
                 /\ SameEnd(s, o.at) /\ SameWrites(s, o.at)
                 /\ o.at.finished = s.finished /\ o.at.running = s.running
                 /\ o.at.done = s.done /\ o.at.asked = s.asked
      <4>1. C \in [Effects -> Seq(Writes)]
        BY <3>2
      <4> QED BY <3>3, <4>1, RoutingIs
    <3> QED BY <2>9, <3>1, <3>2, <3>3
  <2>11. /\ out.at.running = x.at.running /\ out.at.done = x.at.done /\ out.at.finished = x.at.finished
         /\ out.at.asked = x.at.asked /\ out.at.folded = x.at.folded
         /\ out.at.degraded = x.at.degraded /\ ToSet(out.at.waiting) = ToSet(x.at.waiting) \cup ToSet(more)
    BY <1>2, <2>7, <2>10 DEF SameWrites, SameEnd
  <2>12. Winding(out.at)
    BY <1>3, <1>13, <2>4, <2>5, <2>11 DEF Winding, Active
  <2>13. Buffers(out.at) = Buffers(x.at) \ ToSet(jobs)
    BY <1>10, <2>10
  <2>14. \A d \in Effects : Distinct(out.at.buffer[d])
    BY <1>11, <2>10
  <2>15. ToSet(rest) \subseteq Lost(refused)
    BY <1>9, <2>4, <2>8 DEF Lost, Buffers
  <2>16. ToSet(jobs) \subseteq Buffers(x.at)
    BY <1>9
  <2>17. Distinct(out.at.waiting)
    BY <2>7, <2>10
  <2> HIDE DEF refused
  <2>18. /\ Buffers(out.at) \cap ToSet(out.at.waiting) = {}
         /\ Buffers(out.at) \cap Requests(out.at.running) = {}
         /\ ToSet(out.at.waiting) \cap Requests(out.at.running) = {}
         /\ out.at.done \cap (Buffers(out.at) \cup ToSet(out.at.waiting) \cup Requests(out.at.running)) = {}
    BY <1>7, <2>4, <2>11, <2>13, <2>16 DEF Placed
  <2>19. \A q \in Buffers(out.at) \cup ToSet(out.at.waiting) \cup Requests(out.at.running) \cup out.at.asked :
           q.write \in ToSet(out.at.folded)
    BY <1>7, <2>4, <2>11, <2>13, <2>16 DEF Placed
  <2>20. out.at.asked \subseteq Buffers(out.at) \cup ToSet(out.at.waiting) \cup Requests(out.at.running)
                                  \cup out.at.done \cup Lost(refused)
    BY <1>7, <2>4, <2>11, <2>13, <2>15 DEF Placed
  <2>21. Placed(out.at, Lost(refused))
    BY <1>7, <2>11, <2>14, <2>17, <2>18, <2>19, <2>20 DEF Placed
  <2> QED BY <2>1, <2>10, <2>12, <2>21 DEF Routed
<1> QED BY <1>12, <1>13

\* route: requests move from the buffers to the lane, and a refusal loses only what it must
LEMMA RouteRoutes ==
  ASSUME NEW s, Typed(s), Lane(s), Winding(s), Placed(s, {}), NEW refuses
  PROVE  Routed(s, Route(s, refuses))
<1> DEFINE n == Len(Order)
           base == [at |-> s, refused |-> None]
           S == {x \in Routings(s) : Routed(s, x)}
           step == [p \in S \X (1 .. n) |-> RouteOne(p[1], Order[p[2]], refuses)]
           after == CHOOSE f : f = [i \in 0 .. n |-> IF i = 0 THEN base
                                      ELSE RouteOne(f[i - 1], Order[i], refuses)]
<1>1. n \in Nat /\ \A i \in 1 .. n : Order[i] \in Effects
  BY RunnerAssumption
<1>2. base \in S
  <2>4. base \in Routings(s)
    BY DEF Routings
  <2>5. Lost(None) = {}
    <3>1. None \notin Effects
      BY RunnerAssumption
    <3> QED BY <3>1 DEF Lost, Jobs
  <2> QED BY <2>4, <2>5 DEF Routed
<1>3. step \in [S \X (1 .. n) -> S]
  <2>1. ASSUME NEW x \in S, NEW i \in 1 .. n PROVE RouteOne(x, Order[i], refuses) \in S
    <3>1. Routed(s, RouteOne(x, Order[i], refuses))
      BY <1>1, RouteOneKeeps
    <3> QED BY <3>1 DEF Routed
  <2> HIDE DEF S, n
  <2> QED BY <2>1
<1>4. PICK g : Steps(g, n, S, base, step)
  <2> HIDE DEF n, S, base, step
  <2> QED BY <1>1, <1>2, <1>3, StepByStep
<1>5. /\ g \in [0 .. n -> S] /\ g[0] = base
      /\ \A i \in 1 .. n : g[i] = step[<<g[i - 1], i>>]
  <2> HIDE DEF step
  <2> QED BY <1>4 DEF Steps
<1>6. \A i \in 1 .. n : g[i] = RouteOne(g[i - 1], Order[i], refuses)
  <2>1. ASSUME NEW i \in 1 .. n PROVE g[i - 1] \in S
    <3>1. i - 1 \in 0 .. n
      BY <1>1
    <3> HIDE DEF S, n
    <3> QED BY <1>5, <3>1
  <2>2. \A i \in 1 .. n : step[<<g[i - 1], i>>] = RouteOne(g[i - 1], Order[i], refuses)
    <3> HIDE DEF S, n
    <3> QED BY <2>1
  <2> HIDE DEF step
  <2> QED BY <1>5, <2>2
<1>7. g = [i \in 0 .. n |-> IF i = 0 THEN base ELSE RouteOne(g[i - 1], Order[i], refuses)]
  <2>1. \A i \in 0 .. n : i # 0 => i \in 1 .. n
    BY <1>1
  <2> HIDE DEF n, base, S, step
  <2>2. \A i \in 0 .. n : g[i] = IF i = 0 THEN base ELSE RouteOne(g[i - 1], Order[i], refuses)
    BY <1>5, <1>6, <2>1
  <2> QED BY <1>5, <2>2
<1>8. after = [i \in 0 .. n |-> IF i = 0 THEN base ELSE RouteOne(after[i - 1], Order[i], refuses)]
  <2> HIDE DEF n, base
  <2> QED BY <1>7
<1>9. Route(s, refuses) = after[n]
  BY DEF Route
<1>10. \A i \in 0 .. n : after[i] = g[i]
  <2> HIDE DEF after, n, base, S, step
  <2> DEFINE T == {i \in 0 .. n : after[i] = g[i]}
  <2>1. 0 \in T
    <3>1. 0 \in 0 .. n
      BY <1>1
    <3> QED BY <1>7, <1>8, <3>1
  <2>2. ASSUME NEW i \in 1 .. n, i - 1 \in T PROVE i \in T
    <3>1. i \in 0 .. n /\ i # 0
      BY <1>1
    <3> QED BY <1>7, <1>8, <2>2, <3>1
  <2> HIDE DEF T
  <2>3. \A i \in 0 .. n : i \in T
    BY <1>1, <2>1, <2>2, UpTo
  <2> QED BY <2>3 DEF T
<1>11. after[n] \in S
  <2>1. n \in 0 .. n
    BY <1>1
  <2> HIDE DEF after, n, S
  <2> QED BY <1>5, <1>10, <2>1
<1> HIDE DEF after
<1> QED BY <1>9, <1>11

\* Routing leaves a run that goes on, unless a member of the scope refused, which halts it next.
LEMMA RoutesKeep ==
  ASSUME NEW s, NEW wound, Going(s, <<>>, wound), NEW u \in Routes(s)
  PROVE  /\ u.refused \in Maybe /\ Core(u.at) /\ ~u.at.finished
         /\ u.at.degraded = s.degraded /\ u.at.running = s.running
         /\ u.refused \notin Members => Going(u.at, <<>>, wound)
<1>1. Typed(s) /\ Journaled(s) /\ Over(s) /\ Honest(s) /\ Winding(s) /\ ~s.finished
      /\ Whole(s, <<>>, wound) /\ Placed(s, {})
  BY DEF Going, Core
<1>2. Lane(s)
  BY <1>1 DEF Over, Lane
<1>3. PICK refuses : u = Route(s, refuses)
  BY DEF Routes
<1>4. Routed(s, u)
  BY <1>1, <1>2, <1>3, RouteRoutes
<1>6. /\ u.refused \in Maybe /\ Typed(u.at)
      /\ SameJournal(s, u.at) /\ SameEnd(s, u.at) /\ SameWrites(s, u.at)
      /\ u.at.finished = s.finished /\ u.at.running = s.running
      /\ u.at.asked = s.asked
  BY <1>1, <1>4, RoutingsAre DEF Routed
<1>7. Journaled(u.at) /\ Honest(u.at) /\ Whole(u.at, <<>>, wound)
  BY <1>1, <1>6, SamePartsKeep
<1>8. Over(u.at)
  BY <1>1, <1>6 DEF Over, SameJournal, SameEnd, SameWrites
<1>9. Winding(u.at) /\ Placed(u.at, Lost(u.refused))
  BY <1>4 DEF Routed
<1>10. u.refused \notin Members => Placed(u.at, {})
  <2> SUFFICES ASSUME u.refused \notin Members PROVE Placed(u.at, {})
    OBVIOUS
  <2>1. u.at.asked \cap Lost(u.refused) = {}
    BY <1>9 DEF Placed, Lost
  <2>2. u.at.asked \subseteq Buffers(u.at) \cup ToSet(u.at.waiting) \cup Requests(u.at.running)
                              \cup u.at.done \cup Lost(u.refused)
    BY <1>9 DEF Placed
  <2>3. u.at.asked \subseteq Buffers(u.at) \cup ToSet(u.at.waiting) \cup Requests(u.at.running)
                              \cup u.at.done \cup {}
    BY <2>1, <2>2
  <2> QED BY <1>9, <2>3 DEF Placed
<1>11. Core(u.at)
  BY <1>6, <1>7, <1>8, <1>9 DEF Core
<1>12. u.refused \in Maybe /\ ~u.at.finished /\ u.at.degraded = s.degraded
  BY <1>1, <1>6 DEF SameEnd
<1> QED BY <1>6, <1>7, <1>10, <1>11, <1>12 DEF Going

\* what a step leaves: a sound state, in which nothing started
Ends(s, t) == Sound(t) /\ (t.finished \/ Requests(t.running) = Requests(s.running))

\* a change outside what the invariant speaks of
SameAll(s, t) ==
  /\ SameJournal(s, t) /\ SameEnd(s, t) /\ SameWrites(s, t)
  /\ t.finished = s.finished /\ t.running = s.running /\ t.waiting = s.waiting
  /\ t.buffer = s.buffer /\ t.done = s.done /\ t.asked = s.asked

\* What the invariant does not speak of may change.
LEMMA SameAllKeeps ==
  ASSUME NEW s, NEW t, Typed(s), DOMAIN t = Fields, SameAll(s, t)
  PROVE  /\ Core(s) => Core(t)
         /\ \A gap, wound : Going(s, gap, wound) => Going(t, gap, wound)
<1>1. Typed(t)
  BY DEF Typed, SameAll, SameJournal, SameEnd, SameWrites
<1>2. Core(s) => Core(t)
  <2> SUFFICES ASSUME Core(s) PROVE Core(t)
    OBVIOUS
  <2>1. Journaled(t) /\ Honest(t)
    BY SamePartsKeep DEF Core, SameAll
  <2>2. Over(t)
    BY DEF Core, Over, SameAll, SameJournal, SameEnd, SameWrites
  <2>3. Winding(t)
    BY DEF Core, Winding, SameAll, SameEnd
  <2> QED BY <1>1, <2>1, <2>2, <2>3 DEF Core
<1>3. ASSUME NEW gap, NEW wound, Going(s, gap, wound) PROVE Going(t, gap, wound)
  <2>1. Core(t)
    BY <1>2, <1>3 DEF Going
  <2>2. Whole(t, gap, wound)
    BY <1>3, SamePartsKeep DEF Going, SameAll
  <2>3. Placed(t, {})
    <3>1. Buffers(t) = Buffers(s)
      BY DEF SameAll, Buffers
    <3> QED BY <1>3, <3>1 DEF Going, Placed, SameAll, SameWrites
  <2>4. ~t.finished
    BY <1>3 DEF Going, SameAll
  <2> QED BY <2>1, <2>2, <2>3, <2>4 DEF Going
<1> QED BY <1>2, <1>3

\* Asking for a pump changes nothing the invariant speaks of.
LEMMA PumpingKeeps ==
  ASSUME NEW s, NEW gap, NEW wound, Going(s, gap, wound)
  PROVE  /\ Going(Pumping(s), gap, wound) /\ Pumping(s).degraded = s.degraded
         /\ Pumping(s).running = s.running
<1> DEFINE t == Pumping(s)
<1>1. Typed(s) /\ DOMAIN s = Fields
  BY DEF Going, Core, Typed
<1>2. SameAll(s, t) /\ DOMAIN t = Fields
  BY <1>1 DEF Pumping, Fields, SameAll, SameJournal, SameEnd, SameWrites
<1> HIDE DEF t
<1>3. Going(t, gap, wound) /\ t.degraded = s.degraded /\ t.running = s.running
  BY <1>1, <1>2, SameAllKeeps DEF SameAll, SameEnd
<1> QED BY <1>3 DEF t

\* A run that goes on with nothing in the gap is sound.
LEMMA GoingSound ==
  ASSUME NEW s, NEW wound, Going(s, <<>>, wound), wound <=> s.degraded # None
  PROVE  Sound(s)
<1>1. Whole(s, <<>>, s.degraded # None)
  BY DEF Going, Whole
<1> QED BY <1>1 DEF Going, Sound

\* the places of a failure are not effects
LEMMA PlacesApart ==
  /\ \A e \in Effects : e \notin Places /\ e # None /\ e \in Errors /\ e \in Origins
  /\ \A p \in Places : p \in Errors /\ p \notin Effects /\ p # None
  /\ \A p \in {"operator", "fold", "journal", "callback", "unnamed"} : p \in Places
BY RunnerAssumption DEF Errors, Origins, Places

\* The step that was rolled back runs again, folded and routed, or what it throws now halts the run.
LEMMA RerunsKeep ==
  ASSUME NEW s, NEW w \in Writes \cup {None}, Going(s, IF w = None THEN <<>> ELSE <<w>>, FALSE),
         NEW t \in Reruns(s, w)
  PROVE  \/ Sound(t) /\ t.finished
         \/ Going(t, <<>>, FALSE) /\ t.degraded = s.degraded /\ Requests(t.running) = Requests(s.running)
<1>1. CASE w = None
  BY <1>1 DEF Reruns
<1>2. CASE w # None
  <2>0. w \in Writes /\ Going(s, <<w>>, FALSE)
    BY <1>2
  <2>1. Core(s) /\ ~s.finished
    BY <2>0 DEF Going
  <2>2. CASE t = Halted(s, "fold")
    <3>1. "fold" \in Errors /\ "fold" \notin {"operator", "journal"}
      BY PlacesApart
    <3> QED BY <2>1, <2>2, <3>1, HaltedKeeps
  <2>3. ASSUME NEW f \in Folds(s, w), NEW u \in Routes(Appended(f)),
               t = IF u.refused # None THEN Halted(u.at, u.refused) ELSE Pumping(u.at)
        PROVE  \/ Sound(t) /\ t.finished
               \/ Going(t, <<>>, FALSE) /\ t.degraded = s.degraded
                    /\ Requests(t.running) = Requests(s.running)
    <3>1. Going(f, <<>>, FALSE) /\ f.degraded = s.degraded /\ f.running = s.running
      BY <2>0, FoldsKeep
    <3> DEFINE a == Appended(f)
    <3>2. Going(a, <<>>, FALSE) /\ SameRun(f, a)
      BY <3>1, GoingAppended
    <3>3. a.degraded = s.degraded /\ a.running = s.running
      BY <3>1, <3>2 DEF SameRun
    <3> HIDE DEF a
    <3>4. u \in Routes(a)
      BY DEF a
    <3>5. /\ u.refused \in Maybe /\ Core(u.at) /\ ~u.at.finished
          /\ u.at.degraded = a.degraded /\ u.at.running = a.running
          /\ u.refused \notin Members => Going(u.at, <<>>, FALSE)
      BY <3>2, <3>4, RoutesKeep
    <3>6. CASE u.refused # None
      <4>1. u.refused \in Effects
        BY <3>5, <3>6 DEF Maybe
      <4>2. u.refused \in Errors /\ u.refused \notin {"operator", "journal"}
        BY <4>1, PlacesApart
      <4> QED BY <2>3, <3>5, <3>6, <4>2, HaltedKeeps
    <3>7. CASE u.refused = None
      <4>1. u.refused \notin Members
        BY <3>7, PlacesApart, RunnerAssumption
      <4>2. Going(u.at, <<>>, FALSE)
        BY <3>5, <4>1
      <4>3. t = Pumping(u.at)
        BY <2>3, <3>7
      <4>4. Going(t, <<>>, FALSE) /\ t.degraded = u.at.degraded /\ t.running = u.at.running
        BY <4>2, <4>3, PumpingKeeps
      <4> QED BY <3>3, <3>5, <4>4
    <3> QED BY <3>6, <3>7
  <2>4. t = Halted(s, "fold") \/ \E f \in Folds(s, w) : \E u \in Routes(Appended(f)) :
                t = IF u.refused # None THEN Halted(u.at, u.refused) ELSE Pumping(u.at)
    BY <1>2, Zenon DEF Reruns
  <2> QED BY <2>2, <2>3, <2>4
<1> QED BY <1>1, <1>2

\* a write that is accepted is the last that is pending
LEMMA AcceptedKeeps ==
  ASSUME NEW s, NEW wound, Going(s, <<>>, wound), NEW w \in Writes, w \notin ToSet(s.accepted),
         NEW after \in BOOLEAN, after <=> wound \/ w = Down,
         w = Down \/ (\A m \in 0 .. MaxWrites : ToSet(s.accepted) \ {Down} = 1 .. m => w = m + 1)
  PROVE  /\ Going(Accept(s, w), <<>>, after) /\ Accept(s, w).degraded = s.degraded
         /\ Accept(s, w).running = s.running
<1> DEFINE t == Accept(s, w)
<1>1. Typed(s) /\ Journaled(s) /\ Over(s) /\ Honest(s) /\ Winding(s) /\ ~s.finished
      /\ Whole(s, <<>>, wound) /\ Placed(s, {}) /\ DOMAIN s = Fields
  BY DEF Going, Core, Typed
<1>2. t = [s EXCEPT !.pending = Append(s.pending, w), !.accepted = Append(s.accepted, w)]
  BY DEF Accept
<1> HIDE DEF t
<1>3. s.pending \in Seq(Writes) /\ s.accepted \in Seq(Writes) /\ s.folded \in Seq(Writes)
  BY <1>1 DEF Typed
<1>4. Append(s.pending, w) \in Seq(Writes) /\ Append(s.accepted, w) \in Seq(Writes)
      /\ ToSet(Append(s.accepted, w)) = ToSet(s.accepted) \cup {w}
      /\ (Distinct(s.accepted) => Distinct(Append(s.accepted, w)))
  BY <1>3, ToSetOfAppend
<1>5. /\ t.pending = Append(s.pending, w) /\ t.accepted = Append(s.accepted, w)
      /\ t.folded = s.folded /\ t.buffer = s.buffer /\ t.waiting = s.waiting
      /\ t.running = s.running /\ t.done = s.done /\ t.asked = s.asked /\ t.finished = s.finished
      /\ DOMAIN t = Fields
  BY <1>1, <1>2 DEF Fields
<1>6. SameJournal(s, t) /\ SameEnd(s, t)
  BY <1>1, <1>2 DEF Fields, SameJournal, SameEnd
<1>7. Typed(t)
  BY <1>1, <1>2, <1>4, SMT DEF Typed, Fields
<1>8. Journaled(t) /\ Honest(t)
  BY <1>1, <1>6, SamePartsKeep
<1>9. Over(t)
  BY <1>1, <1>5, <1>6 DEF Over, SameJournal, SameEnd
<1>10. Winding(t)
  BY <1>1, <1>5, <1>6 DEF Winding, SameEnd
<1>11. Placed(t, {})
  <2>1. Buffers(t) = Buffers(s)
    BY <1>5 DEF Buffers
  <2> QED BY <1>1, <1>5, <2>1 DEF Placed
<1>12. Whole(t, <<>>, after)
  <2> DEFINE f == s.folded
             p == s.pending
             a == s.accepted
  <2>1. a = f \o (<<>> \o p) /\ Distinct(a) /\ (Down \in ToSet(a) <=> wound)
    BY <1>1 DEF Whole
  <2>2. PICK m \in 0 .. MaxWrites : ToSet(a) \ {Down} = 1 .. m
    BY <1>1 DEF Whole
  <2>3. ToSet(Append(a, w)) = ToSet(a) \cup {w} /\ Distinct(Append(a, w))
    BY <1>4, <2>1
  <2>4. \E k \in 0 .. MaxWrites : ToSet(Append(a, w)) \ {Down} = 1 .. k
    <3>1. CASE w = Down
      BY <2>2, <2>3, <3>1
    <3>2. CASE w # Down
      <4>1. w = m + 1 /\ m \in Nat /\ m + 1 \in 0 .. MaxWrites
        BY <2>2, <3>2, RunnerAssumption DEF Writes
      <4>2. 1 .. m + 1 = (1 .. m) \cup {m + 1}
        BY <4>1
      <4>3. ToSet(Append(a, w)) \ {Down} = (ToSet(a) \ {Down}) \cup {w}
        BY <2>3, <3>2
      <4>4. ToSet(Append(a, w)) \ {Down} = 1 .. m + 1
        BY <2>2, <4>1, <4>2, <4>3
      <4> QED BY <4>1, <4>4
    <3> QED BY <3>1, <3>2
  <2>5. Append(a, w) = f \o (<<>> \o Append(p, w))
    <3> HIDE DEF f, p, a
    <3>1. f \in Seq(Writes) /\ p \in Seq(Writes)
      BY <1>3 DEF f, p
    <3>2. <<>> \o p = p /\ <<>> \o Append(p, w) = Append(p, w) /\ a = f \o p
      BY <2>1, <3>1
    <3>3. Append(f \o p, w) = f \o Append(p, w)
      BY <3>1
    <3> QED BY <3>2, <3>3
  <2> HIDE DEF f, p, a
  <2>6. Down \in ToSet(Append(a, w)) <=> after
    BY <2>1, <2>3
  <2>7. t.accepted = Append(a, w) /\ t.folded = f /\ t.pending = Append(p, w)
    BY <1>5 DEF f, p, a
  <2> QED BY <2>3, <2>4, <2>5, <2>6, <2>7 DEF Whole
<1>13. Going(t, <<>>, after)
  BY <1>1, <1>5, <1>7, <1>8, <1>9, <1>10, <1>11, <1>12 DEF Going, Core
<1> QED BY <1>5, <1>6, <1>13 DEF t, SameEnd

\* onFailure accepts the write that winds the scope down, or finishes the run.
LEMMA WindsDownKeeps ==
  ASSUME NEW s, NEW t \in WindsDown(s),
         (Sound(s) /\ s.finished) \/ (Going(s, <<>>, FALSE) /\ s.degraded # None)
  PROVE  Ends(s, t)
<1>1. CASE s.finished
  BY <1>1 DEF WindsDown, Going, Ends
<1>2. CASE ~s.finished
  <2>0. Going(s, <<>>, FALSE) /\ s.degraded # None
    BY <1>2
  <2>1. Typed(s) /\ Journaled(s) /\ Over(s) /\ Honest(s) /\ Core(s)
    BY <2>0 DEF Going, Core
  <2>2. \/ t = Accept(s, Down)
        \/ t = Abandon(Claim(s, Rejects(s.degraded)), FALSE)
        \/ t = Halted(s, "callback")
    BY <1>2 DEF WindsDown, Accept
  <2>3. CASE t = Accept(s, Down)
    <3>1. Down \in Writes
      BY RunnerAssumption DEF Down, Writes
    <3>2. Down \notin ToSet(s.accepted)
      BY <2>0 DEF Going, Whole
    <3>3. Going(t, <<>>, TRUE) /\ t.degraded = s.degraded /\ t.running = s.running
      BY <2>0, <2>3, <3>1, <3>2, AcceptedKeeps
    <3>4. Sound(t)
      BY <2>0, <3>3, GoingSound
    <3> QED BY <3>3, <3>4 DEF Ends
  <2>4. CASE t = Abandon(Claim(s, Rejects(s.degraded)), FALSE)
    <3> DEFINE v == Rejects(s.degraded)
               c == Claim(s, v)
    <3>1. s.degraded \in Errors
      BY <2>0, <2>1 DEF Typed, Origins
    <3>2. v \in Verdicts /\ v.kind = "reject" /\ v.error = s.degraded
      BY <3>1 DEF Rejects, Verdicts, Errors
    <3>3. Says(v, s)
      BY <2>0, <2>1, <3>2 DEF Honest, Says
    <3>4. Lane(s) /\ ~s.closing
      BY <1>2, <2>1 DEF Over, Lane
    <3> HIDE DEF v
    <3>5. Typed(c) /\ Journaled(c) /\ Lane(c) /\ ~c.closing /\ Honest(c)
      BY <2>1, <3>2, <3>3, <3>4, ClaimKeeps
    <3> HIDE DEF c
    <3>6. Sound(Abandon(c, FALSE)) /\ Abandon(c, FALSE).finished
      BY <3>5, AbandonKeeps
    <3> QED BY <2>4, <3>6 DEF Ends, c, v
  <2>5. CASE t = Halted(s, "callback")
    <3>1. "callback" \in Errors /\ "callback" \notin {"operator", "journal"}
      BY PlacesApart
    <3> QED BY <1>2, <2>1, <2>5, <3>1, HaltedKeeps DEF Ends
  <2> QED BY <2>2, <2>3, <2>4, <2>5
<1> QED BY <1>1, <1>2

\* fail, wherever the failure came from and whatever it rolled back, ends in a sound state and
\* starts nothing.
LEMMA FailsKeep ==
  ASSUME NEW s, NEW at \in Origins, NEW w \in Writes \cup {None},
         Core(s), ~s.finished, NEW wound, wound <=> s.degraded # None,
         at \notin Members => Going(s, IF w = None THEN <<>> ELSE <<w>>, wound),
         w # None => ~(s.degraded # None /\ Outside(at)),
         NEW t \in Fails(s, at, w)
  PROVE  Ends(s, t)
<1> DEFINE gap == IF w = None THEN <<>> ELSE <<w>>
<1>1. CASE s.degraded # None /\ Outside(at)
  <2>1. t = s /\ w = None
    BY <1>1 DEF Fails
  <2>2. at \notin Members
    BY <1>1 DEF Outside, InScope
  <2>3. Going(s, <<>>, wound)
    BY <2>1, <2>2
  <2>4. Sound(s)
    BY <2>3, GoingSound
  <2> QED BY <2>1, <2>4 DEF Ends
<1>2. CASE ~(s.degraded # None /\ Outside(at)) /\ (Members = {} \/ ~Outside(at))
  <2>1. t = Halted(s, at)
    BY <1>2 DEF Fails
  <2>2. at \in Errors
    BY DEF Origins
  <2>3. s.degraded # None => at \notin {"operator", "journal"}
    <3>1. SUFFICES ASSUME s.degraded # None PROVE at \notin {"operator", "journal"}
      OBVIOUS
    <3>2. at = "unnamed" \/ at \in Members \/ at = "fold"
      BY <1>2, <3>1 DEF Outside, InScope
    <3> QED BY <3>2, PlacesApart, RunnerAssumption
  <2> QED BY <2>1, <2>2, <2>3, HaltedKeeps DEF Ends
<1>3. CASE ~(s.degraded # None /\ Outside(at)) /\ ~(Members = {} \/ ~Outside(at))
  <2>1. s.degraded = None /\ Outside(at)
    BY <1>3
  <2>2. at \notin Members
    BY <2>1 DEF Outside, InScope
  <2>3. Going(s, gap, FALSE)
    <3>1. Going(s, gap, wound) /\ ~wound
      BY <2>1, <2>2
    <3> HIDE DEF gap
    <3> QED BY <3>1 DEF Going, Whole
  <2> DEFINE k == KeepOnlyScope(s, at)
  <2>4. Going(k, gap, FALSE) /\ k.degraded = at /\ Requests(k.running) = Requests(s.running)
    <3> HIDE DEF gap
    <3> QED BY <2>1, <2>3, KeepOnlyScopeKeeps
  <2> HIDE DEF k
  <2>5. PICK u \in Reruns(k, w) : t \in WindsDown(u)
    <3>1. t \in UNION {WindsDown(u) : u \in Reruns(k, w)}
      BY <1>3 DEF Fails, k
    <3> QED BY <3>1
  <2>6. \/ Sound(u) /\ u.finished
        \/ Going(u, <<>>, FALSE) /\ u.degraded = k.degraded /\ Requests(u.running) = Requests(k.running)
    BY <2>4, <2>5, RerunsKeep
  <2>7. k.degraded # None
    BY <2>4, PlacesApart, RunnerAssumption DEF Origins, Errors
  <2>8. Ends(u, t)
    <3>1. (Sound(u) /\ u.finished) \/ (Going(u, <<>>, FALSE) /\ u.degraded # None)
      BY <2>6, <2>7, Zenon
    <3>2. t \in WindsDown(u)
      BY <2>5
    <3> QED BY <3>1, <3>2, WindsDownKeeps, Zenon
  <2>9. u.finished => t.finished
    BY <2>5 DEF WindsDown
  <2> QED BY <2>4, <2>6, <2>8, <2>9 DEF Ends
<1> QED BY <1>1, <1>2, <1>3

\* An append does too, overflow and the failure that follows included.
LEMMA JournalsKeep ==
  ASSUME NEW s, NEW wound, wound <=> s.degraded # None, Going(s, <<>>, wound), NEW t \in Journals(s)
  PROVE  Ends(s, t)
<1> DEFINE a == Appended(s)
<1>1. Going(a, <<>>, wound) /\ SameRun(s, a)
  BY GoingAppended
<1>2. a.degraded = s.degraded /\ a.running = s.running /\ Core(a) /\ ~a.finished
  BY <1>1 DEF SameRun, Going
<1>3. t = a \/ t \in Fails(a, "journal", None)
  BY DEF Journals
<1> HIDE DEF a
<1>4. CASE t = a
  BY <1>1, <1>2, <1>4, GoingSound DEF Ends
<1>5. CASE t \in Fails(a, "journal", None)
  <2>1. "journal" \in Origins
    BY DEF Origins, Errors, Places
  <2>2. Ends(a, t)
    BY <1>1, <1>2, <1>5, <2>1, FailsKeep
  <2> QED BY <1>2, <2>2 DEF Ends
<1> QED BY <1>3, <1>4, <1>5

\* So does a step that lands, with the journal and the routing that may fail after it.
LEMMA LandsKeep ==
  ASSUME NEW s, NEW w \in Writes, NEW wound, wound <=> s.degraded # None, Going(s, <<w>>, wound),
         NEW t \in Lands(s, w)
  PROVE  Ends(s, t)
<1>0. PICK a \in UNION {Journals(f) : f \in Folds(s, w)} :
        t \in IF a.finished THEN {a}
              ELSE UNION {IF u.refused = None THEN {Pumping(u.at)} ELSE Fails(u.at, u.refused, None) :
                            u \in Routes(a)}
  BY DEF Lands
<1>1. PICK f \in Folds(s, w) : a \in Journals(f)
  OBVIOUS
<1>2. Going(f, <<>>, wound) /\ f.degraded = s.degraded /\ f.running = s.running
  BY FoldsKeep
<1>3. Ends(f, a)
  <2>1. wound <=> f.degraded # None
    BY <1>2
  <2> QED BY <1>1, <1>2, <2>1, JournalsKeep
<1>4. CASE a.finished
  BY <1>0, <1>2, <1>3, <1>4 DEF Ends
<1>5. CASE ~a.finished
  <2> DEFINE d == a.degraded # None
  <2>0. Going(a, <<>>, d) /\ Requests(a.running) = Requests(s.running)
    BY <1>2, <1>3, <1>5 DEF Ends, Sound
  <2>1. PICK u \in Routes(a) : t \in IF u.refused = None THEN {Pumping(u.at)} ELSE Fails(u.at, u.refused, None)
    BY <1>0, <1>5
  <2>2. /\ u.refused \in Maybe /\ Core(u.at) /\ ~u.at.finished
        /\ u.at.degraded = a.degraded /\ u.at.running = a.running
        /\ u.refused \notin Members => Going(u.at, <<>>, d)
    <3> HIDE DEF d
    <3> QED BY <2>0, <2>1, RoutesKeep
  <2>3. d <=> u.at.degraded # None
    BY <2>2
  <2> HIDE DEF d
  <2>4. CASE u.refused = None
    <3>1. u.refused \notin Members
      BY <2>4, PlacesApart, RunnerAssumption
    <3>2. Going(u.at, <<>>, d) /\ t = Pumping(u.at)
      BY <2>1, <2>2, <2>4, <3>1
    <3>3. Going(t, <<>>, d) /\ t.degraded = u.at.degraded /\ t.running = u.at.running
      BY <3>2, PumpingKeeps
    <3>4. Sound(t)
      BY <2>3, <3>3, GoingSound
    <3> QED BY <2>0, <2>2, <3>3, <3>4 DEF Ends
  <2>5. CASE u.refused # None
    <3>1. u.refused \in Origins /\ t \in Fails(u.at, u.refused, None)
      BY <2>1, <2>2, <2>5, PlacesApart DEF Maybe
    <3>2. Ends(u.at, t)
      BY <2>2, <2>3, <3>1, FailsKeep
    <3> QED BY <2>0, <2>2, <3>2 DEF Ends
  <2> QED BY <2>4, <2>5
<1> QED BY <1>4, <1>5

\* what a step may do: its outcome is sound, and a degraded run starts only the scope's effects,
\* and only after the scope has folded what winds it down
Stepped(s, t) ==
  /\ Sound(t)
  /\ t.degraded # None /\ ~t.finished =>
       \A q \in Requests(t.running) \ Requests(s.running) :
         q.effect \in Members /\ Down \in ToSet(t.folded)

\* A step that starts nothing is one that a run may take.
LEMMA EndsStepped ==
  ASSUME NEW s, NEW t, NEW u, Requests(u.running) = Requests(s.running), Ends(u, t)
  PROVE  Stepped(s, t)
BY DEF Ends, Stepped

\* propagate: the head of the pending writes is in the gap until the step lands or fails.
LEMMA PropagateKeeps == ASSUME RunnerInv, Propagate PROVE Stepped(r, r')
<1> DEFINE d == r.degraded # None
           w == Head(r.pending)
           s == [r EXCEPT !.pending = Tail(r.pending), !.fresh = None]
<1>1. /\ ~r.finished /\ r.pending # <<>>
      /\ (\E at \in Throwers(s) : r' \in Fails(s, at, w)) \/ r' \in Lands(s, w)
  BY DEF Propagate
<1>2. /\ Typed(r) /\ Journaled(r) /\ Over(r) /\ Honest(r) /\ Winding(r) /\ DOMAIN r = Fields
      /\ Whole(r, <<>>, d) /\ Placed(r, {})
  BY <1>1 DEF RunnerInv, Sound, Going, Core, Typed
<1>3. r.pending \in Seq(Writes) /\ Tail(r.pending) \in Seq(Writes) /\ w \in Writes
      /\ r.pending = <<w>> \o Tail(r.pending)
  BY <1>1, <1>2 DEF Typed
<1>4. /\ s.pending = Tail(r.pending) /\ SameJournal(r, s) /\ SameEnd(r, s)
      /\ s.buffer = r.buffer /\ s.waiting = r.waiting /\ s.running = r.running
      /\ s.finished = r.finished /\ s.accepted = r.accepted /\ s.folded = r.folded
      /\ s.done = r.done /\ s.asked = r.asked /\ DOMAIN s = Fields
  BY <1>2 DEF Fields, SameJournal, SameEnd
<1> HIDE DEF s, w
<1>5. Typed(s)
  BY <1>2, <1>3, <1>4 DEF Typed, SameJournal, SameEnd
<1>6. Journaled(s) /\ Honest(s)
  BY <1>2, <1>4, SamePartsKeep
<1>7. Over(s)
  BY <1>1, <1>2, <1>4 DEF Over, SameJournal, SameEnd
<1>8. Winding(s)
  BY <1>2, <1>4 DEF Winding, SameEnd
<1>9. Placed(s, {})
  <2>1. Buffers(s) = Buffers(r)
    BY <1>4 DEF Buffers
  <2> QED BY <1>2, <1>4, <2>1 DEF Placed
<1>10. Whole(s, <<w>>, d)
  <2>1. <<>> \o r.pending = <<w>> \o s.pending
    BY <1>3, <1>4
  <2> HIDE DEF d
  <2>2. s.accepted = s.folded \o (<<w>> \o s.pending)
    <3>1. r.accepted = r.folded \o (<<>> \o r.pending)
      BY <1>2 DEF Whole
    <3> QED BY <1>4, <2>1, <3>1, Zenon
  <2> QED BY <1>2, <1>4, <2>2 DEF Whole
<1>11. d <=> s.degraded # None
  BY <1>4 DEF SameEnd
<1>12. Going(s, <<w>>, d) /\ Core(s) /\ ~s.finished
  BY <1>1, <1>4, <1>5, <1>6, <1>7, <1>8, <1>9, <1>10 DEF Going, Core
<1> HIDE DEF d
<1>13. CASE r' \in Lands(s, w)
  <2>1. Ends(s, r')
    BY <1>3, <1>11, <1>12, <1>13, LandsKeep
  <2> QED BY <1>4, <2>1, EndsStepped
<1>14. ASSUME NEW at \in Throwers(s), r' \in Fails(s, at, w) PROVE Stepped(r, r')
  <2>1. at \in Origins
    BY PlacesApart DEF Throwers, Origins, Errors, Places
  <2>2. w \in Writes \cup {None} /\ w # None
    BY <1>3, RunnerAssumption DEF Writes
  <2>3. Going(s, IF w = None THEN <<>> ELSE <<w>>, d)
    BY <1>12, <2>2
  <2>4. ~(s.degraded # None /\ Outside(at))
    BY DEF Throwers, Outside, InScope
  <2>5. Ends(s, r')
    BY <1>11, <1>12, <1>14, <2>1, <2>2, <2>3, <2>4, FailsKeep
  <2> QED BY <1>4, <2>5, EndsStepped
<1> QED BY <1>1, <1>13, <1>14

\* pump: a request goes from the lane to work; on a degraded run the write that winds down has been
\* folded.
LEMMA PumpKeeps == ASSUME RunnerInv, Pump PROVE Stepped(r, r')
<1> DEFINE d == r.degraded # None
           job == Head(r.waiting)
           j == Starting(r, job)
           t == [r EXCEPT !.running = r.running \cup {j}, !.fresh = j, !.waiting = Tail(r.waiting)]
           p == [r EXCEPT !.pumpWanted = FALSE, !.fresh = None]
<1>1. /\ ~r.finished /\ r.pending = <<>> /\ (Room => r' = t) /\ (~Room => r' = p)
  BY DEF Pump, Draining, StartJob
<1>2. /\ Typed(r) /\ Journaled(r) /\ Over(r) /\ Honest(r) /\ Winding(r) /\ DOMAIN r = Fields
      /\ Whole(r, <<>>, d) /\ Placed(r, {}) /\ Going(r, <<>>, d)
  BY <1>1 DEF RunnerInv, Sound, Going, Core, Typed
<1>3. CASE ~Room
  <2>1. SameAll(r, p) /\ DOMAIN p = Fields /\ p.degraded = r.degraded
    BY <1>2 DEF Fields, SameAll, SameJournal, SameEnd, SameWrites
  <2> HIDE DEF p, d
  <2>2. Going(p, <<>>, d)
    BY <1>2, <2>1, SameAllKeeps
  <2>3. d <=> p.degraded # None
    BY <2>1 DEF d
  <2>4. Sound(p) /\ p.running = r.running
    BY <2>1, <2>2, <2>3, GoingSound DEF SameAll
  <2> QED BY <1>1, <1>3, <2>4 DEF Stepped
<1>4. CASE Room
  <2>1. Cardinality(r.running) < Concurrency /\ r.waiting # <<>>
    BY <1>4 DEF Room
  <2>2. /\ r.waiting \in Seq(Jobs) /\ job \in Jobs /\ Tail(r.waiting) \in Seq(Jobs)
        /\ ToSet(r.waiting) = {job} \cup ToSet(Tail(r.waiting))
        /\ Distinct(Tail(r.waiting)) /\ job \notin ToSet(Tail(r.waiting))
    <3>1. r.waiting \in Seq(Jobs) /\ Distinct(r.waiting)
      BY <1>2 DEF Typed, Placed
    <3> QED BY <2>1, <3>1, ToSetOfTail
  <2>3. /\ job.write \in Writes /\ job.effect \in Effects
        /\ [write |-> job.write, effect |-> job.effect] = job
    BY <2>2 DEF Jobs
  <2>4. j = [write |-> job.write, effect |-> job.effect, aborted |-> FALSE, finishing |-> FALSE,
             over |-> FALSE]
    BY <1>1, <1>2 DEF Starting, Typed
  <2>5. /\ j \in Running /\ j.write = job.write /\ j.effect = job.effect
        /\ ~j.finishing /\ [write |-> j.write, effect |-> j.effect] = job
    <3> HIDE DEF j
    <3>1. j.write = job.write /\ j.effect = job.effect /\ ~j.finishing
      BY <2>4
    <3>2. j \in Running
      BY <2>3, <2>4, Zenon DEF Running
    <3> QED BY <2>3, <3>1, <3>2
  <2>6. /\ t.running = r.running \cup {j} /\ t.waiting = Tail(r.waiting)
        /\ t.buffer = r.buffer /\ t.done = r.done /\ t.asked = r.asked /\ t.finished = r.finished
        /\ SameJournal(r, t) /\ SameEnd(r, t) /\ SameWrites(r, t) /\ DOMAIN t = Fields
    BY <1>2 DEF Fields, SameJournal, SameEnd, SameWrites
  <2> HIDE DEF t, j, job
  <2>7. Typed(t)
    BY <1>2, <2>2, <2>5, <2>6 DEF Typed, SameJournal, SameEnd, SameWrites
  <2>8. Journaled(t) /\ Honest(t)
    BY <1>2, <2>6, SamePartsKeep
  <2>9. Whole(t, <<>>, d)
    <3> HIDE DEF d
    <3> QED BY <1>2, <2>6, SamePartsKeep
  <2>10. Requests(t.running) = Requests(r.running) \cup {job}
    BY <2>5, <2>6 DEF Requests
  <2>11. Over(t)
    <3>0. IsFiniteSet(r.running)
      BY <1>2 DEF Over
    <3>1. IsFiniteSet(t.running) /\ Cardinality(t.running) <= Cardinality(r.running) + 1
      <4> DEFINE R == r.running
                 Q == R \cup {j}
      <4> HIDE DEF R
      <4>1. IsFiniteSet(R)
        BY <3>0 DEF R
      <4>2. IsFiniteSet(Q) /\ (Cardinality(Q) = Cardinality(R) \/ Cardinality(Q) = Cardinality(R) + 1)
        BY <4>1, FS_AddElement
      <4>3. Cardinality(R) \in Nat
        BY <4>1, FS_CardinalityType
      <4>4. t.running = Q
        BY <2>6 DEF R
      <4> HIDE DEF Q
      <4>5. IsFiniteSet(Q) /\ Cardinality(Q) <= Cardinality(R) + 1
        BY <4>2, <4>3
      <4> QED BY <4>4, <4>5 DEF R
    <3>2. Cardinality(t.running) \in Nat /\ Cardinality(r.running) \in Nat
      BY <1>2, <3>1, FS_CardinalityType DEF Over
    <3>3. Cardinality(t.running) <= Concurrency
      BY <2>1, <3>1, <3>2, RunnerAssumption
    <3> QED BY <1>1, <1>2, <2>5, <2>6, <3>1, <3>3 DEF Over, SameJournal, SameEnd
  <2>12. Winding(t)
    BY <1>2, <2>2, <2>5, <2>6 DEF Winding, SameEnd
  <2>13. Placed(t, {})
    <3>1. Buffers(t) = Buffers(r)
      BY <2>6 DEF Buffers
    <3>2. \A i \in r.running : ~(i.write = job.write /\ i.effect = job.effect)
      <4>1. job \in ToSet(r.waiting)
        BY <2>2
      <4>2. job \notin Requests(r.running)
        BY <1>2, <4>1 DEF Placed
      <4> QED BY <2>3, <4>2 DEF Requests
    <3>3. \A i, k \in t.running : i.write = k.write /\ i.effect = k.effect => i = k
      <4>1. \A i, k \in r.running : i.write = k.write /\ i.effect = k.effect => i = k
        BY <1>2 DEF Placed
      <4> QED BY <2>5, <2>6, <3>2, <4>1
    <3>4. Buffers(t) \cup ToSet(t.waiting) \cup Requests(t.running)
            = Buffers(r) \cup ToSet(r.waiting) \cup Requests(r.running)
      BY <2>2, <2>6, <2>10, <3>1
    <3> DEFINE B == Buffers(r)
               W == ToSet(r.waiting)
               V == ToSet(Tail(r.waiting))
               R == Requests(r.running)
               Q == Requests(t.running)
    <3>5. /\ \A e \in Effects : Distinct(r.buffer[e])
          /\ B \cap W = {} /\ B \cap R = {} /\ W \cap R = {} /\ r.done \cap (B \cup W \cup R) = {}
          /\ r.done \subseteq r.asked /\ \A q \in r.asked : q.effect \in Members
          /\ \A q \in B \cup W \cup R \cup r.asked : q.write \in ToSet(r.folded)
          /\ r.asked \subseteq B \cup W \cup R \cup r.done \cup {}
      BY <1>2 DEF Placed
    <3>6. Buffers(t) = B /\ ToSet(t.waiting) = V /\ W = {job} \cup V /\ job \notin V /\ Q = R \cup {job}
      BY <2>2, <2>6, <2>10, <3>1
    <3> HIDE DEF B, W, V, R, Q
    <3>7. /\ B \cap V = {} /\ B \cap Q = {} /\ V \cap Q = {} /\ r.done \cap (B \cup V \cup Q) = {}
          /\ \A q \in B \cup V \cup Q \cup r.asked : q.write \in ToSet(r.folded)
          /\ r.asked \subseteq B \cup V \cup Q \cup r.done \cup {}
      BY <3>5, <3>6
    <3>8. t.buffer = r.buffer /\ t.done = r.done /\ t.asked = r.asked /\ t.folded = r.folded
      BY <2>6 DEF SameWrites
    <3>9. Distinct(t.waiting)
      BY <2>2, <2>6
    <3> QED BY <3>3, <3>5, <3>6, <3>7, <3>8, <3>9 DEF Placed, Q
  <2>14. Going(t, <<>>, d)
    BY <1>1, <2>6, <2>7, <2>8, <2>9, <2>11, <2>12, <2>13 DEF Going, Core
  <2>15. Sound(t)
    <3>1. d <=> t.degraded # None
      BY <2>6 DEF SameEnd
    <3> HIDE DEF d
    <3> QED BY <2>14, <3>1, GoingSound
  <2>16. ASSUME t.degraded # None, NEW q \in Requests(t.running) \ Requests(r.running)
         PROVE  q.effect \in Members /\ Down \in ToSet(t.folded)
    <3>1. r.degraded # None
      BY <2>6, <2>16 DEF SameEnd
    <3>2. q = job /\ q \in ToSet(r.waiting)
      BY <2>2, <2>10
    <3>3. Down \in ToSet(r.accepted) /\ r.accepted = r.folded \o (<<>> \o r.pending)
      BY <1>2, <3>1 DEF Whole
    <3>4. r.folded \in Seq(Writes)
      BY <1>2 DEF Typed
    <3>5. r.folded \o (<<>> \o r.pending) = r.folded
      <4>1. <<>> \o r.pending = <<>>
        BY <1>1
      <4>2. \A f \in Seq(Writes) : f \o <<>> = f
        OBVIOUS
      <4> QED BY <3>4, <4>1, <4>2, Zenon
    <3> QED BY <1>1, <1>2, <2>6, <3>1, <3>2, <3>3, <3>5 DEF Winding, SameWrites
  <2> QED BY <1>1, <1>4, <2>15, <2>16 DEF Stepped
<1> QED BY <1>3, <1>4

\* Produced is the number of the last write.
LEMMA ProducedIs ==
  ASSUME NEW m \in 0 .. MaxWrites, ToSet(r.accepted) \ {Down} = 1 .. m
  PROVE  m \in Nat /\ Produced = m
<1>1. m \in Nat
  BY RunnerAssumption
<1>2. Cardinality(1 .. m) = m
  BY <1>1, UpToIs
<1> QED BY <1>1, <1>2, Zenon DEF Produced

\* The next write is a new one, for a source as for an effect that answers.
LEMMA AcceptNext ==
  ASSUME RunnerInv, ~r.finished, Produced < MaxWrites, r' = Accept(r, Produced + 1)
  PROVE  Stepped(r, r')
<1> DEFINE d == r.degraded # None
           w == Produced + 1
<1>1. Going(r, <<>>, d) /\ Whole(r, <<>>, d)
  BY DEF RunnerInv, Sound, Going
<1>2. PICK m \in 0 .. MaxWrites : ToSet(r.accepted) \ {Down} = 1 .. m
  BY <1>1 DEF Whole
<1>3. m \in Nat /\ Produced = m
  BY <1>2, ProducedIs
<1>4. w = m + 1 /\ w \in Writes /\ w # Down
  BY <1>3, RunnerAssumption DEF Writes, Down
<1>5. w \notin ToSet(r.accepted)
  <2>1. w \notin 1 .. m
    BY <1>3, <1>4
  <2> HIDE DEF w
  <2> QED BY <1>2, <1>4, <2>1
<1>6. ASSUME NEW k \in 0 .. MaxWrites, ToSet(r.accepted) \ {Down} = 1 .. k PROVE w = k + 1
  <2>1. k \in Nat /\ Produced = k
    BY <1>6, ProducedIs
  <2> QED BY <2>1
<1>7. d \in BOOLEAN /\ (d <=> d \/ w = Down)
  BY <1>4
<1> HIDE DEF w
<1>8. /\ Going(Accept(r, w), <<>>, d) /\ Accept(r, w).degraded = r.degraded
      /\ Accept(r, w).running = r.running
  <2> HIDE DEF d
  <2> QED BY <1>1, <1>4, <1>5, <1>6, <1>7, AcceptedKeeps
<1>9. r' = Accept(r, w)
  BY DEF w
<1>10. d <=> r'.degraded # None
  BY <1>8, <1>9
<1> HIDE DEF d
<1>11. Sound(r') /\ r'.running = r.running
  BY <1>8, <1>9, <1>10, GoingSound
<1> QED BY <1>11 DEF Stepped

\* A note is journaled.
LEMMA NoteKeeps == ASSUME RunnerInv, NEW j, Note(j) PROVE Stepped(r, r')
<1> DEFINE d == r.degraded # None
           s == [r EXCEPT !.notes = r.notes + 1]
<1>1. ~r.finished /\ r' \in Journals(s)
  BY DEF Note
<1>2. Going(r, <<>>, d) /\ Typed(r) /\ DOMAIN r = Fields
  BY <1>1 DEF RunnerInv, Sound, Going, Core, Typed
<1>3. SameAll(r, s) /\ DOMAIN s = Fields
  BY <1>2 DEF Fields, SameAll, SameJournal, SameEnd, SameWrites
<1>4. d <=> s.degraded # None
  BY <1>3 DEF SameAll, SameEnd
<1> HIDE DEF s, d
<1>5. Going(s, <<>>, d) /\ s.running = r.running
  BY <1>2, <1>3, SameAllKeeps DEF SameAll
<1>6. Ends(s, r')
  BY <1>1, <1>4, <1>5, JournalsKeep
<1> QED BY <1>5, <1>6, EndsStepped

\* stop claims the verdict and abandons the run, keeping the requests that finish on stop.
LEMMA StopAllKeeps == ASSUME RunnerInv, NEW j, StopAll(j) PROVE Stepped(r, r')
<1> DEFINE v == Stops(r)
           c == Claim(r, v)
<1>1. j \in r.running /\ r' = Abandon(c, TRUE)
  BY DEF StopAll, Acts
<1>2. Typed(r) /\ Journaled(r) /\ Over(r) /\ Honest(r)
  BY DEF RunnerInv, Sound, Core
<1>3. Lane(r) /\ ~r.closing
  BY <1>1, <1>2 DEF Over, Lane
<1>4. v \in Verdicts
  BY <1>2 DEF Stops, Verdicts, Typed, Origins, Errors
<1>5. Says(v, r)
  BY DEF Stops, Says
<1> HIDE DEF v
<1>6. Typed(c) /\ Journaled(c) /\ Lane(c) /\ ~c.closing /\ Honest(c)
  BY <1>2, <1>3, <1>4, <1>5, ClaimKeeps
<1> HIDE DEF c
<1>7. Sound(Abandon(c, TRUE)) /\ Abandon(c, TRUE).finished
  BY <1>6, AbandonKeeps
<1> QED BY <1>1, <1>7 DEF Stepped

\* The owner of the runner abandons it.
LEMMA AbandonAllKeeps == ASSUME RunnerInv, AbandonAll PROVE Stepped(r, r')
<1>1. (~r.finished \/ r.waiting # <<>>) /\ r' = Abandon(r, FALSE)
  BY DEF AbandonAll
<1>2. Typed(r) /\ Journaled(r) /\ Over(r) /\ Honest(r)
  BY DEF RunnerInv, Sound, Core
<1>3. Lane(r) /\ ~r.closing
  BY <1>1, <1>2 DEF Over, Lane
<1>4. Sound(Abandon(r, FALSE)) /\ Abandon(r, FALSE).finished
  BY <1>2, <1>3, AbandonKeeps
<1> QED BY <1>1, <1>4 DEF Stepped

\* a handler that is over keeps its request at work until it settles
LEMMA ReplacedKeeps ==
  ASSUME NEW s, Typed(s), Over(s), Winding(s), NEW j \in s.running, NEW t,
         t = [s EXCEPT !.running = (s.running \ {j}) \cup {[j EXCEPT !.over = TRUE]}]
  PROVE  /\ Typed(t) /\ Over(t) /\ Winding(t)
         /\ SameJournal(s, t) /\ SameEnd(s, t) /\ SameWrites(s, t) /\ SameRequests(s, t)
         /\ t.finished = s.finished /\ t.running # {}
         /\ (\A i, k \in s.running : i.write = k.write /\ i.effect = k.effect => i = k)
               => \A i, k \in t.running : i.write = k.write /\ i.effect = k.effect => i = k
<1> DEFINE o == [j EXCEPT !.over = TRUE]
<1>1. DOMAIN s = Fields /\ s.running \subseteq Running
  BY DEF Typed
<1>2. /\ t.running = (s.running \ {j}) \cup {o}
      /\ SameJournal(s, t) /\ SameEnd(s, t) /\ SameWrites(s, t) /\ t.finished = s.finished
      /\ t.buffer = s.buffer /\ t.waiting = s.waiting /\ t.done = s.done /\ t.asked = s.asked
      /\ DOMAIN t = Fields
  BY <1>1 DEF Fields, SameJournal, SameEnd, SameWrites
<1>3. /\ o \in Running /\ o.write = j.write /\ o.effect = j.effect /\ o.aborted = j.aborted
      /\ o.finishing = j.finishing
  <2>1. j \in Running
    BY <1>1
  <2> QED BY <2>1 DEF Running
<1> HIDE DEF o
<1>4. Typed(t)
  <2>1. t.running \subseteq Running
    BY <1>1, <1>2, <1>3
  <2> QED BY <1>2, <2>1 DEF Typed, SameJournal, SameEnd, SameWrites
<1>5. Requests(t.running) = Requests(s.running)
  <2>1. \A q \in Requests(t.running) : q \in Requests(s.running)
    BY <1>2, <1>3 DEF Requests
  <2>2. ASSUME NEW q \in Requests(s.running) PROVE q \in Requests(t.running)
    <3>1. PICK i \in s.running : q = [write |-> i.write, effect |-> i.effect]
      BY DEF Requests
    <3>2. CASE i = j
      <4>1. q = [write |-> o.write, effect |-> o.effect] /\ o \in t.running
        BY <1>2, <1>3, <3>1, <3>2
      <4> QED BY <4>1 DEF Requests
    <3>3. CASE i # j
      <4>1. i \in t.running
        BY <1>2, <3>3
      <4> QED BY <3>1, <4>1 DEF Requests
    <3> QED BY <3>2, <3>3
  <2> QED BY <2>1, <2>2
<1>6. SameRequests(s, t) /\ t.running # {}
  BY <1>2, <1>5 DEF SameRequests, SameWrites
<1>7. Over(t)
  <2> DEFINE R == s.running
             S == R \ {j}
             Q == S \cup {o}
  <2>1. IsFiniteSet(R) /\ Cardinality(R) <= Concurrency /\ j \in R
    BY DEF Over
  <2> HIDE DEF R
  <2>2. IsFiniteSet(S) /\ Cardinality(S) = Cardinality(R) - 1
    BY <2>1, FS_RemoveElement
  <2> HIDE DEF S
  <2>3. IsFiniteSet(Q) /\ (Cardinality(Q) = Cardinality(S) \/ Cardinality(Q) = Cardinality(S) + 1)
    BY <2>2, FS_AddElement
  <2>4. Cardinality(R) \in Nat /\ Cardinality(S) \in Nat
    BY <2>1, <2>2, FS_CardinalityType
  <2>5. t.running = Q
    BY <1>2 DEF Q, S, R
  <2> HIDE DEF Q
  <2>6. Cardinality(Q) <= Concurrency
    BY <2>1, <2>2, <2>3, <2>4, RunnerAssumption
  <2>7. IsFiniteSet(t.running) /\ Cardinality(t.running) <= Concurrency
    BY <2>3, <2>5, <2>6
  <2>8. ~s.closing
    BY DEF Over
  <2>9. ~s.finished => \A i \in t.running : ~i.finishing
    BY <1>2, <1>3 DEF Over
  <2> QED BY <1>2, <1>6, <2>7, <2>8, <2>9 DEF Over, SameJournal, SameEnd, SameWrites
<1>8. Winding(t)
  BY <1>2, <1>3 DEF Winding, SameEnd
<1>9. (\A i, k \in s.running : i.write = k.write /\ i.effect = k.effect => i = k)
         => \A i, k \in t.running : i.write = k.write /\ i.effect = k.effect => i = k
  BY <1>2, <1>3
<1> QED BY <1>2, <1>4, <1>6, <1>7, <1>8, <1>9

\* A handler rejects: the run fails, or what a clean stop let finish is reported late.
LEMMA RejectKeeps == ASSUME RunnerInv, NEW j, Reject(j) PROVE Stepped(r, r')
<1> DEFINE d == r.degraded # None
           s == [r EXCEPT !.running = (r.running \ {j}) \cup {[j EXCEPT !.over = TRUE]}]
<1>1. j \in r.running /\ r' \in IF j.finishing THEN {Late(s, j.effect)} ELSE Fails(s, j.effect, None)
  BY DEF Reject
<1>2. Typed(r) /\ Journaled(r) /\ Over(r) /\ Honest(r) /\ Winding(r)
  BY DEF RunnerInv, Sound, Core
<1>3. j \in Running /\ j.effect \in Effects
  BY <1>1, <1>2 DEF Typed, Running
<1>4. /\ Typed(s) /\ Over(s) /\ Winding(s)
      /\ SameJournal(r, s) /\ SameEnd(r, s) /\ SameWrites(r, s) /\ SameRequests(r, s)
      /\ s.finished = r.finished /\ s.running # {}
      /\ (\A i, k \in r.running : i.write = k.write /\ i.effect = k.effect => i = k)
            => \A i, k \in s.running : i.write = k.write /\ i.effect = k.effect => i = k
  BY <1>1, <1>2, ReplacedKeeps
<1>5. d <=> s.degraded # None
  BY <1>4 DEF SameEnd
<1> HIDE DEF s, d
<1>6. Journaled(s) /\ Honest(s)
  BY <1>2, <1>4, SamePartsKeep
<1>7. Core(s) /\ ~s.closing
  BY <1>4, <1>6 DEF Core, Over
<1>8. ~s.finished => Going(s, <<>>, d)
  <2> SUFFICES ASSUME ~s.finished PROVE Going(s, <<>>, d)
    OBVIOUS
  <2>1. Whole(r, <<>>, d) /\ Placed(r, {})
    BY <1>4 DEF RunnerInv, Sound, Going, d
  <2>2. Whole(s, <<>>, d)
    BY <1>4, <2>1, SamePartsKeep
  <2>3. Placed(s, {})
    <3>1. Buffers(s) = Buffers(r)
      BY <1>4 DEF Buffers, SameRequests
    <3> QED BY <1>4, <2>1, <3>1 DEF Placed, SameRequests
  <2> QED BY <1>7, <2>2, <2>3 DEF Going
<1>9. CASE j.finishing
  <2>1. s.finished
    BY <1>1, <1>2, <1>4, <1>9 DEF Over
  <2>2. r' = Late(s, j.effect)
    BY <1>1, <1>9
  <2>3. CASE s.late # None
    BY <1>7, <2>1, <2>2, <2>3 DEF Late, Stepped, Sound
  <2>4. CASE s.late = None
    <3> DEFINE a == Appended(s)
               t == [a EXCEPT !.late = j.effect, !.waiting = <<>>]
    <3>1. r' = t
      BY <2>2, <2>4 DEF Late
    <3>2. Typed(a) /\ Journaled(a) /\ SameRun(s, a) /\ a.outcome = s.outcome
          /\ a.completion = s.completion
      BY <1>7, AppendedKeeps DEF Core
    <3> HIDE DEF a
    <3>3. /\ t.late = j.effect /\ t.waiting = <<>> /\ SameJournal(a, t) /\ SameWrites(a, t)
          /\ t.buffer = a.buffer /\ t.running = a.running /\ t.degraded = a.degraded
          /\ t.finished = a.finished /\ t.verdict = a.verdict /\ t.outcome = a.outcome
          /\ t.first = a.first /\ t.done = a.done /\ t.asked = a.asked /\ DOMAIN t = Fields
      BY <3>2 DEF Typed, Fields, SameJournal, SameWrites
    <3>4. <<>> \in Seq(Jobs)
      OBVIOUS
    <3> HIDE DEF t
    <3>5. Typed(t)
      BY <1>3, <3>2, <3>3, <3>4 DEF Typed, SameJournal, SameWrites
    <3>6. Journaled(t)
      BY <3>2, <3>3, SamePartsKeep
    <3>7. Over(t)
      BY <1>7, <2>1, <3>2, <3>3 DEF Core, Over, SameRun, SameJournal, SameWrites
    <3>8. s.outcome = None
      BY <1>4, <1>7 DEF Core, Honest, Journaled, Closes
    <3>9. Honest(t)
      BY <1>6, <3>2, <3>3, <3>8 DEF Honest, Says, SameRun
    <3>10. Winding(t) /\ t.finished
      BY <2>1, <3>2, <3>3 DEF Winding, SameRun
    <3> QED BY <3>1, <3>5, <3>6, <3>7, <3>9, <3>10 DEF Stepped, Sound, Core
  <2> QED BY <2>3, <2>4
<1>10. CASE ~j.finishing
  <2>1. r' \in Fails(s, j.effect, None)
    BY <1>1, <1>10
  <2>2. CASE s.finished
    BY <1>7, <2>1, <2>2 DEF Fails, Stepped, Sound
  <2>3. CASE ~s.finished
    <3>1. j.effect \in Origins
      BY <1>3, PlacesApart
    <3>2. Ends(s, r')
      BY <1>5, <1>7, <1>8, <2>1, <2>3, <3>1, FailsKeep
    <3>3. Requests(s.running) = Requests(r.running)
      BY <1>4 DEF SameRequests
    <3> QED BY <3>2, <3>3, EndsStepped
  <2> QED BY <2>2, <2>3
<1> QED BY <1>9, <1>10

\* a request that settles leaves the lane
LEMMA SettledKeeps ==
  ASSUME NEW s, Typed(s), Journaled(s), Over(s), Honest(s), Winding(s), NEW j \in s.running, NEW t,
         t = [s EXCEPT !.running = s.running \ {j}, !.fresh = None,
                       !.done = s.done \cup (s.asked \cap Requests({j}))]
  PROVE  /\ Typed(t) /\ Journaled(t) /\ Honest(t) /\ Winding(t) /\ Lane(t) /\ ~t.closing
         /\ SameEnd(s, t) /\ t.finished = s.finished /\ Requests(t.running) \subseteq Requests(s.running)
         /\ \A wound : ~s.finished /\ Whole(s, <<>>, wound) /\ Placed(s, {}) => Going(t, <<>>, wound)
<1> DEFINE q == [write |-> j.write, effect |-> j.effect]
           done == s.done \cup (s.asked \cap Requests({j}))
<1>1. DOMAIN s = Fields /\ s.running \subseteq Running /\ j \in Running
  BY DEF Typed
<1>2. Requests({j}) = {q}
  BY DEF Requests
<1>3. /\ t.running = s.running \ {j} /\ t.done = done
      /\ SameJournal(s, t) /\ SameEnd(s, t) /\ SameWrites(s, t) /\ t.finished = s.finished
      /\ t.buffer = s.buffer /\ t.waiting = s.waiting /\ t.asked = s.asked
      /\ DOMAIN t = Fields
  BY <1>1 DEF Fields, SameJournal, SameEnd, SameWrites
<1>4. Typed(t)
  <2>1. done \subseteq Jobs /\ t.running \subseteq Running
    BY <1>1, <1>3 DEF Typed
  <2> HIDE DEF done
  <2> QED BY <1>3, <2>1 DEF Typed, SameJournal, SameEnd, SameWrites
<1>5. Journaled(t) /\ Honest(t)
  BY <1>3, SamePartsKeep
<1>6. Winding(t)
  BY <1>3 DEF Winding, SameEnd
<1>7. Lane(t)
  <2> DEFINE R == s.running
             S == R \ {j}
  <2>1. IsFiniteSet(R) /\ Cardinality(R) <= Concurrency /\ j \in R
    BY DEF Over
  <2> HIDE DEF R
  <2>2. IsFiniteSet(S) /\ Cardinality(S) = Cardinality(R) - 1
    BY <2>1, FS_RemoveElement
  <2>3. Cardinality(R) \in Nat /\ Cardinality(S) \in Nat
    BY <2>1, <2>2, FS_CardinalityType
  <2>4. t.running = S
    BY <1>3 DEF R
  <2> HIDE DEF S
  <2>5. Cardinality(S) <= Concurrency
    BY <2>1, <2>2, <2>3, RunnerAssumption
  <2> QED BY <2>2, <2>4, <2>5 DEF Lane
<1>8. ~t.closing
  BY <1>3 DEF Over, SameJournal
<1>9. Requests(t.running) \subseteq Requests(s.running)
  BY <1>3 DEF Requests
<1>10. ASSUME NEW wound, ~s.finished, Whole(s, <<>>, wound), Placed(s, {})
       PROVE  Going(t, <<>>, wound)
  <2>1. Whole(t, <<>>, wound)
    BY <1>3, <1>10, SamePartsKeep
  <2>2. Over(t)
    BY <1>3, <1>7, <1>8, <1>10 DEF Over, Lane, SameEnd
  <2>3. q \in Requests(s.running)
    BY DEF Requests
  <2>4. \A i, k \in s.running : i.write = k.write /\ i.effect = k.effect => i = k
    BY <1>10 DEF Placed
  <2>5. Requests(t.running) = Requests(s.running) \ {q}
    <3>1. q \notin Requests(t.running)
      BY <1>3, <2>4 DEF Requests
    <3>2. ASSUME NEW x \in Requests(s.running), x # q PROVE x \in Requests(t.running)
      <4>1. PICK i \in s.running : x = [write |-> i.write, effect |-> i.effect]
        BY DEF Requests
      <4>2. i # j
        BY <3>2, <4>1
      <4>3. i \in t.running
        BY <1>3, <4>2
      <4> QED BY <4>1, <4>3 DEF Requests
    <3> QED BY <1>9, <3>1, <3>2
  <2>6. Placed(t, {})
    <3>1. Buffers(t) = Buffers(s)
      BY <1>3 DEF Buffers
    <3> DEFINE B == Buffers(s)
               W == ToSet(s.waiting)
               R == Requests(s.running)
               Q == Requests(t.running)
    <3>2. /\ \A e \in Effects : Distinct(s.buffer[e])
          /\ B \cap W = {} /\ B \cap R = {} /\ W \cap R = {} /\ s.done \cap (B \cup W \cup R) = {}
          /\ s.done \subseteq s.asked /\ \A x \in s.asked : x.effect \in Members
          /\ \A x \in B \cup W \cup R \cup s.asked : x.write \in ToSet(s.folded)
          /\ s.asked \subseteq B \cup W \cup R \cup s.done \cup {} /\ Distinct(s.waiting)
      BY <1>10 DEF Placed
    <3>3. Buffers(t) = B /\ ToSet(t.waiting) = W /\ Q = R \ {q} /\ q \in R
      BY <1>3, <2>3, <2>5, <3>1
    <3>4. t.done = s.done \cup (s.asked \cap {q})
      BY <1>2, <1>3
    <3> HIDE DEF B, W, R, Q, q
    <3>5. /\ B \cap W = {} /\ B \cap Q = {} /\ W \cap Q = {}
          /\ \A x \in B \cup W \cup Q \cup s.asked : x.write \in ToSet(s.folded)
          /\ t.done \subseteq s.asked
      BY <3>2, <3>3, <3>4
    <3>6. t.done \cap (B \cup W \cup Q) = {}
      BY <3>2, <3>3, <3>4
    <3>7. s.asked \subseteq B \cup W \cup Q \cup t.done \cup {}
      BY <3>2, <3>3, <3>4
    <3>8. \A i, k \in t.running : i.write = k.write /\ i.effect = k.effect => i = k
      BY <1>3, <2>4
    <3>9. t.buffer = s.buffer /\ t.waiting = s.waiting /\ t.asked = s.asked /\ t.folded = s.folded
      BY <1>3 DEF SameWrites
    <3> QED BY <3>2, <3>3, <3>5, <3>6, <3>7, <3>8, <3>9, ZenonT(60) DEF Placed, Q
  <2> QED BY <1>3, <1>4, <1>5, <1>6, <1>10, <2>1, <2>2, <2>6 DEF Going, Core
<1> QED BY <1>3, <1>4, <1>5, <1>6, <1>7, <1>8, <1>9, <1>10

\* A handler settles: its request is done, and the lane is pumped or, once finished, drained.
LEMMA SettleKeeps == ASSUME RunnerInv, NEW j, Settle(j) PROVE Stepped(r, r')
<1> DEFINE d == r.degraded # None
           s == [r EXCEPT !.running = r.running \ {j}, !.fresh = None,
                          !.done = r.done \cup (r.asked \cap Requests({j}))]
<1>1. j \in r.running /\ r' = IF s.finished THEN FinishQueued(s) ELSE Pumping(s)
  BY DEF Settle
<1>2. Typed(r) /\ Journaled(r) /\ Over(r) /\ Honest(r) /\ Winding(r)
  BY DEF RunnerInv, Sound, Core
<1> HIDE DEF d
<1>3. /\ Typed(s) /\ Journaled(s) /\ Honest(s) /\ Winding(s) /\ Lane(s) /\ ~s.closing
      /\ SameEnd(r, s) /\ s.finished = r.finished /\ Requests(s.running) \subseteq Requests(r.running)
      /\ ~r.finished /\ Whole(r, <<>>, d) /\ Placed(r, {}) => Going(s, <<>>, d)
  BY <1>1, <1>2, SettledKeeps
<1>4. d <=> s.degraded # None
  BY <1>3 DEF SameEnd, d
<1>5. s.finished => s.pending = <<>>
  BY <1>2 DEF Over, Typed, Fields
<1> HIDE DEF s
<1>6. CASE ~s.finished
  <2>1. Going(s, <<>>, d)
    BY <1>3, <1>6 DEF RunnerInv, Sound, Going, d
  <2>2. /\ Going(Pumping(s), <<>>, d) /\ Pumping(s).degraded = s.degraded
        /\ Pumping(s).running = s.running
    BY <2>1, PumpingKeeps
  <2>3. d <=> Pumping(s).degraded # None
    BY <1>4, <2>2
  <2>4. Sound(Pumping(s))
    BY <2>2, <2>3, GoingSound
  <2> QED BY <1>1, <1>3, <1>6, <2>2, <2>4 DEF Stepped
<1>7. CASE s.finished
  <2> DEFINE t == FinishQueued(s)
  <2>1. /\ Typed(t) /\ Lane(t) /\ SameJournal(s, t) /\ SameEnd(s, t) /\ SameWrites(s, t)
        /\ t.finished = s.finished /\ (t.running = {} => t.waiting = <<>>)
    BY <1>3, FinishQueuedKeeps
  <2> HIDE DEF t
  <2>2. Journaled(t) /\ Honest(t)
    BY <1>3, <2>1, SamePartsKeep
  <2>3. Over(t)
    BY <1>3, <1>5, <1>7, <2>1 DEF Over, Lane, SameJournal, SameWrites
  <2>4. Winding(t)
    BY <1>7, <2>1 DEF Winding
  <2>5. r' = t
    BY <1>1, <1>7 DEF t
  <2> QED BY <1>7, <2>1, <2>2, <2>3, <2>4, <2>5 DEF Stepped, Sound, Core
<1> QED BY <1>6, <1>7

-----------------------------------------------------------------------------
(* The journal's steps.                                                    *)

\* whatever was waiting for the journal, the next write or the end of it begins
LEMMA NextWriteKeeps ==
  ASSUME NEW s, Typed(s), Consecutive(s), Closes(s), Over(s), Honest(s), Winding(s),
         ~s.finished => Whole(s, <<>>, s.degraded # None) /\ Placed(s, {})
  PROVE  /\ Sound(WriteJournal(s)) /\ WriteJournal(s).running = s.running
         /\ WriteJournal(s).finished = s.finished
<1> DEFINE t == WriteJournal(s)
<1>1. /\ Typed(t) /\ Journaled(t) /\ SameRun(s, t) /\ t.outcome = s.outcome
      /\ (s.completion # "no" \/ ~s.closing => t.completion = s.completion)
  BY WriteJournalKeeps
<1>2. s.outcome # None => t.completion = s.completion
  BY <1>1 DEF Honest
<1> HIDE DEF t
<1>3. Over(t) /\ Winding(t) /\ Honest(t)
  BY <1>1, <1>2, SameRunKeeps
<1>4. ASSUME ~t.finished PROVE Whole(t, <<>>, t.degraded # None) /\ Placed(t, {})
  <2>1. ~s.finished /\ t.degraded = s.degraded
    BY <1>1, <1>4 DEF SameRun
  <2>2. Whole(s, <<>>, t.degraded # None) /\ Placed(s, {})
    <3>1. Whole(s, <<>>, s.degraded # None)
      BY <2>1
    <3>2. Whole(s, <<>>, t.degraded # None)
      BY <2>1, <3>1 DEF Whole
    <3> QED BY <2>1, <3>2
  <2> QED BY <1>1, <2>2, SameRunKeeps
<1>5. Core(t)
  BY <1>1, <1>3 DEF Core
<1>6. Sound(t) /\ t.running = s.running /\ t.finished = s.finished
  BY <1>1, <1>4, <1>5 DEF Sound, Going, SameRun
<1> QED BY <1>6 DEF t

\* an append that came to an end, its entry written or not
LEMMA AppendOver ==
  ASSUME RunnerInv, r.writing # None, NEW s, NEW failed \in BOOLEAN, NEW how \in Failures,
         NEW sink \in {r.sink, Append(r.sink, r.writing)}, ~failed => sink = Append(r.sink, r.writing),
         s = IF failed THEN [r EXCEPT !.sink = sink, !.writing = None, !.queue = <<>>,
                                      !.closed = TRUE, !.timedOut = how = "timeout",
                                      !.failure = IF r.failure = None THEN how ELSE r.failure]
             ELSE [r EXCEPT !.sink = sink, !.writing = None]
  PROVE  /\ Typed(s) /\ Consecutive(s) /\ Closes(s) /\ Over(s) /\ Honest(s) /\ Winding(s)
         /\ ~s.finished => Whole(s, <<>>, s.degraded # None) /\ Placed(s, {})
         /\ s.running = r.running /\ s.degraded = r.degraded /\ s.finished = r.finished
         /\ failed => s.queue = <<>>
<1>1. Typed(r) /\ Journaled(r) /\ Over(r) /\ Honest(r) /\ Winding(r) /\ DOMAIN r = Fields
  BY DEF RunnerInv, Sound, Core, Typed
<1>2. /\ s.sink = sink /\ s.writing = None /\ s.queue = IF failed THEN <<>> ELSE r.queue
      /\ s.closed = IF failed THEN TRUE ELSE r.closed
      /\ s.timedOut = IF failed THEN how = "timeout" ELSE r.timedOut
      /\ s.failure = IF failed /\ r.failure = None THEN how ELSE r.failure
      /\ s.entries = r.entries /\ s.finalizing = r.finalizing /\ s.completion = r.completion
      /\ s.ended = r.ended /\ s.outcome = r.outcome /\ DOMAIN s = Fields
  BY <1>1 DEF Fields
<1>3. SameRun(r, s)
  BY <1>1 DEF Fields, SameRun
<1>4. r.sink \in Seq(Nat) /\ r.writing \in Nat /\ r.queue \in Seq(Nat) /\ how # None
      /\ r.failure \in Failures \cup {None}
  BY <1>1, RunnerAssumption DEF Typed
<1>5. /\ sink \in Seq(Nat) /\ Len(r.sink) \in Nat
      /\ \A i \in DOMAIN sink : sink[i] = i
      /\ ~failed => Len(sink) = Len(r.sink) + 1
  <2> DEFINE a == r.sink
             n == r.writing
  <2>1. (\A i \in DOMAIN a : a[i] = i) /\ n = Len(a) + 1 /\ a \in Seq(Nat) /\ n \in Nat
    BY <1>1, <1>4 DEF Journaled, Consecutive
  <2>2. sink = a \/ sink = Append(a, n)
    OBVIOUS
  <2>3. ~failed => sink = Append(a, n)
    OBVIOUS
  <2> HIDE DEF a, n
  <2>4. Append(a, n) \in Seq(Nat) /\ Len(Append(a, n)) = Len(a) + 1
        /\ \A i \in DOMAIN Append(a, n) : Append(a, n)[i] = i
    BY <2>1
  <2>5. Len(a) \in Nat
    BY <2>1
  <2>6. sink \in Seq(Nat) /\ (\A i \in DOMAIN sink : sink[i] = i)
    BY <2>1, <2>2, <2>4, Zenon
  <2> QED BY <2>3, <2>4, <2>5, <2>6 DEF a
<1>6. Typed(s)
  <2>1. <<>> \in Seq(Nat)
    OBVIOUS
  <2>2. s.queue \in Seq(Nat) /\ s.sink \in Seq(Nat) /\ s.writing \in Nat \cup {None}
    BY <1>2, <1>4, <1>5, <2>1
  <2>3. s.closed \in BOOLEAN /\ s.timedOut \in BOOLEAN
    BY <1>1, <1>2 DEF Typed
  <2>4. s.failure \in Failures \cup {None}
    BY <1>2, <1>4
  <2>5. /\ s.finalizing \in BOOLEAN /\ s.completion \in {"no", "pending", "ok", "failed"}
        /\ s.ended \in {"no", "clean", "unclean"} /\ s.entries \in Nat
        /\ s.outcome \in [error : Errors \cup {None}, journal : BOOLEAN] \cup {None}
    BY <1>1, <1>2 DEF Typed
  <2> QED BY <1>1, <1>2, <1>3, <2>2, <2>3, <2>4, <2>5 DEF Typed, SameRun
<1>7. Closes(s)
  <2>1. ~r.finalizing
    BY <1>1 DEF Journaled, Closes
  <2>2. s.closing = r.closing
    BY <1>3 DEF SameRun
  <2>3. r.failure # None => s.failure # None
    BY <1>2, <1>4
  <2>4. failed => s.failure # None
    BY <1>2, <1>4
  <2> QED BY <1>1, <1>2, <2>1, <2>2, <2>3, <2>4 DEF Journaled, Closes
<1>8. Consecutive(s)
  <2>1. Unwritten(r) = Len(r.queue) + 1 /\ Len(r.queue) \in Nat
    BY <1>4 DEF Unwritten
  <2>2. CASE failed
    <3>1. s.queue = <<>> /\ s.writing = None /\ s.failure # None /\ s.sink = sink
      BY <1>2, <1>4, <2>2
    <3>2. Unwritten(s) = 0 /\ 0 <= Capacity
      BY <3>1, RunnerAssumption DEF Unwritten
    <3> QED BY <1>5, <3>1, <3>2 DEF Consecutive
  <2>3. CASE ~failed
    <3>1. s.queue = r.queue /\ s.writing = None /\ s.failure = r.failure /\ s.sink = sink
          /\ s.entries = r.entries /\ Len(sink) = Len(r.sink) + 1
      BY <1>2, <1>5, <2>3
    <3> DEFINE a == Len(r.sink)
               b == Len(r.queue)
               c == Len(sink)
    <3>2. a \in Nat /\ b \in Nat /\ c = a + 1 /\ Unwritten(r) = b + 1 /\ Unwritten(r) <= Capacity
      BY <1>1, <1>5, <2>1, <3>1 DEF Journaled, Consecutive
    <3>3. Unwritten(s) = b
      BY <2>1, <3>1 DEF Unwritten
    <3>4. r.failure = None => a + Unwritten(r) = r.entries
      BY <1>1 DEF Journaled, Consecutive
    <3>5. \A i \in DOMAIN r.queue : i \in Nat /\ r.queue[i] = a + 1 + i
      BY <1>1, <1>4 DEF Journaled, Consecutive
    <3> HIDE DEF a, b, c
    <3>6. r.failure = None => c + b = r.entries
      BY <3>2, <3>4
    <3>7. b <= Capacity
      BY <3>2, RunnerAssumption
    <3>8. ASSUME NEW i \in DOMAIN s.queue PROVE s.queue[i] = c + 0 + i
      <4>1. i \in Nat /\ s.queue[i] = a + 1 + i
        BY <3>1, <3>5
      <4> QED BY <3>2, <4>1
    <3> QED BY <1>5, <3>1, <3>3, <3>6, <3>7, <3>8 DEF Consecutive, c
  <2> QED BY <2>2, <2>3
<1>9. Over(s) /\ Winding(s) /\ Honest(s)
  <2>1. s.outcome = r.outcome /\ (r.outcome # None => s.completion = r.completion)
    BY <1>2
  <2> QED BY <1>1, <1>3, <2>1, SameRunKeeps
<1>10. s.running = r.running /\ s.degraded = r.degraded /\ s.finished = r.finished
  BY <1>3 DEF SameRun
<1>11. ~s.finished => Whole(s, <<>>, s.degraded # None) /\ Placed(s, {})
  <2> SUFFICES ASSUME ~s.finished PROVE Whole(s, <<>>, s.degraded # None) /\ Placed(s, {})
    OBVIOUS
  <2>1. Whole(r, <<>>, r.degraded # None) /\ Placed(r, {})
    BY <1>10 DEF RunnerInv, Sound, Going
  <2>2. Whole(r, <<>>, s.degraded # None)
    BY <1>10, <2>1 DEF Whole
  <2> QED BY <1>3, <2>1, <2>2, SameRunKeeps
<1> QED BY <1>2, <1>6, <1>7, <1>8, <1>9, <1>10, <1>11

\* The journal file has the entry, and the next write begins.
LEMMA AppendAckedKeeps == ASSUME RunnerInv, AppendAcked PROVE Stepped(r, r')
<1> DEFINE sink == Append(r.sink, r.writing)
           s == [r EXCEPT !.sink = sink, !.writing = None]
<1>1. r.writing # None /\ r' = WriteJournal(s)
  BY DEF AppendAcked
<1>2. "timeout" \in Failures
  BY DEF Failures
<1>3. sink \in {r.sink, Append(r.sink, r.writing)} /\ sink = Append(r.sink, r.writing)
  OBVIOUS
<1> HIDE DEF sink
<1>4. /\ Typed(s) /\ Consecutive(s) /\ Closes(s) /\ Over(s) /\ Honest(s) /\ Winding(s)
      /\ ~s.finished => Whole(s, <<>>, s.degraded # None) /\ Placed(s, {})
      /\ s.running = r.running
  <2>1. ASSUME NEW failed \in BOOLEAN, ~failed
        PROVE  s = IF failed THEN [r EXCEPT !.sink = sink, !.writing = None, !.queue = <<>>,
                                      !.closed = TRUE, !.timedOut = "timeout" = "timeout",
                                      !.failure = IF r.failure = None THEN "timeout" ELSE r.failure]
                   ELSE [r EXCEPT !.sink = sink, !.writing = None]
    BY <2>1
  <2>2. FALSE \in BOOLEAN /\ ~FALSE
    OBVIOUS
  <2> HIDE DEF s
  <2> QED BY <1>1, <1>2, <1>3, <2>1, <2>2, AppendOver
<1> HIDE DEF s
<1>5. Sound(WriteJournal(s)) /\ WriteJournal(s).running = s.running
  BY <1>4, NextWriteKeeps
<1> QED BY <1>1, <1>4, <1>5 DEF Stepped

\* The journal fails, which fails the run unless it failed before.
LEMMA AppendFailedKeeps == ASSUME RunnerInv, AppendFailed PROVE Stepped(r, r')
<1>1. r.writing # None
  BY DEF AppendFailed
<1>2. PICK how \in Failures :
        \E sink \in {r.sink} \cup (IF how = "overflow" THEN {} ELSE {Append(r.sink, r.writing)}) :
       LET s == [r EXCEPT !.sink = sink, !.writing = None, !.queue = <<>>, !.closed = TRUE,
                          !.timedOut = how = "timeout",
                          !.failure = IF @ = None THEN how ELSE @]
       IN r' \in {WriteJournal(t) : t \in IF r.failure = None THEN Fails(s, "journal", None) ELSE {s}}
  BY DEF AppendFailed
<1>3. PICK sink \in {r.sink} \cup (IF how = "overflow" THEN {} ELSE {Append(r.sink, r.writing)}) :
       LET s == [r EXCEPT !.sink = sink, !.writing = None, !.queue = <<>>, !.closed = TRUE,
                          !.timedOut = how = "timeout",
                          !.failure = IF @ = None THEN how ELSE @]
       IN r' \in {WriteJournal(t) : t \in IF r.failure = None THEN Fails(s, "journal", None) ELSE {s}}
  BY <1>2
<1>4. sink \in {r.sink, Append(r.sink, r.writing)}
  OBVIOUS
<1> DEFINE s == [r EXCEPT !.sink = sink, !.writing = None, !.queue = <<>>, !.closed = TRUE,
                          !.timedOut = how = "timeout",
                          !.failure = IF r.failure = None THEN how ELSE r.failure]
           d == s.degraded # None
<1>5. PICK t \in IF r.failure = None THEN Fails(s, "journal", None) ELSE {s} : r' = WriteJournal(t)
  BY <1>3
<1>6. /\ Typed(s) /\ Consecutive(s) /\ Closes(s) /\ Over(s) /\ Honest(s) /\ Winding(s)
      /\ ~s.finished => Whole(s, <<>>, d) /\ Placed(s, {})
      /\ s.running = r.running /\ s.queue = <<>>
  <2>1. ASSUME NEW failed \in BOOLEAN, failed
        PROVE  s = IF failed THEN s ELSE [r EXCEPT !.sink = sink, !.writing = None]
    BY <2>1
  <2>2. TRUE \in BOOLEAN
    OBVIOUS
  <2> QED BY <1>1, <1>4, <2>1, <2>2, AppendOver, ZenonT(60)
<1> HIDE DEF s
<1>7. Core(s) /\ (~s.finished => Going(s, <<>>, d))
  BY <1>6 DEF Core, Journaled, Going
<1>8. Ends(s, t)
  <2>1. CASE t = s
    BY <1>7, <2>1 DEF Ends, Sound
  <2>2. CASE t \in Fails(s, "journal", None)
    <3>1. CASE s.finished
      BY <1>7, <2>2, <3>1 DEF Fails, Ends, Sound
    <3>2. CASE ~s.finished
      <4>1. "journal" \in Origins
        BY DEF Origins, Errors, Places
      <4> HIDE DEF d
      <4>2. d <=> s.degraded # None
        BY DEF d
      <4> QED BY <1>7, <2>2, <3>2, <4>1, <4>2, FailsKeep
    <3> QED BY <3>1, <3>2
  <2> QED BY <1>5, <2>1, <2>2
<1>9. /\ Typed(t) /\ Consecutive(t) /\ Closes(t) /\ Over(t) /\ Honest(t) /\ Winding(t)
      /\ ~t.finished => Whole(t, <<>>, t.degraded # None) /\ Placed(t, {})
  BY <1>8 DEF Ends, Sound, Core, Journaled, Going
<1>10. Sound(r') /\ r'.running = t.running /\ r'.finished = t.finished
  BY <1>5, <1>9, NextWriteKeeps
<1> QED BY <1>6, <1>8, <1>10 DEF Ends, Stepped

\* The journal closes when no effect is left.
LEMMA FinalizeKeeps == ASSUME RunnerInv, Finalize PROVE Stepped(r, r')
<1> DEFINE s == [r EXCEPT !.closed = TRUE, !.closing = TRUE]
<1>1. r.finished /\ r.running = {} /\ ~r.closing /\ r' = WriteJournal(s)
  BY DEF Finalize
<1>2. Typed(r) /\ Journaled(r) /\ Over(r) /\ Honest(r) /\ Winding(r) /\ DOMAIN r = Fields
  BY DEF RunnerInv, Sound, Core, Typed
<1>3. /\ s.closed = TRUE /\ s.closing = TRUE /\ s.sink = r.sink /\ s.writing = r.writing
      /\ s.queue = r.queue /\ s.failure = r.failure /\ s.entries = r.entries
      /\ s.timedOut = r.timedOut /\ s.finalizing = r.finalizing /\ s.completion = r.completion
      /\ s.ended = r.ended /\ s.pending = r.pending /\ s.waiting = r.waiting /\ s.buffer = r.buffer
      /\ s.done = r.done /\ s.asked = r.asked
      /\ s.running = r.running /\ s.finished = r.finished /\ SameEnd(r, s) /\ SameWrites(r, s)
      /\ DOMAIN s = Fields
  BY <1>2 DEF Fields, SameEnd, SameWrites
<1> HIDE DEF s
<1>4. Typed(s)
  BY <1>2, <1>3 DEF Typed, SameEnd, SameWrites
<1>5. Consecutive(s)
  <2>1. /\ s.sink = r.sink /\ s.writing = r.writing /\ s.queue = r.queue
        /\ s.failure = r.failure /\ s.entries = r.entries
    BY <1>3
  <2>2. Unwritten(s) = Unwritten(r)
    BY <2>1 DEF Unwritten
  <2>3. Consecutive(r)
    BY <1>2 DEF Journaled
  <2> QED BY <2>1, <2>2, <2>3 DEF Consecutive
<1>6. Closes(s)
  BY <1>2, <1>3 DEF Journaled, Closes
<1>7. Over(s)
  BY <1>1, <1>2, <1>3 DEF Over, SameEnd
<1>8. Honest(s)
  BY <1>2, <1>3, SamePartsKeep
<1>9. Winding(s)
  BY <1>1, <1>3 DEF Winding
<1>10. Sound(WriteJournal(s)) /\ WriteJournal(s).running = s.running
  BY <1>1, <1>3, <1>4, <1>5, <1>6, <1>7, <1>8, <1>9, NextWriteKeeps
<1> QED BY <1>1, <1>3, <1>10 DEF Stepped

\* the end of the journal file is written, or is not
LEMMA EndingKeeps ==
  ASSUME RunnerInv, Ending, NEW ended \in {"no", "clean", "unclean"}, NEW c \in {"ok", "failed"},
         ended = "clean" => r.failure = None, c = "ok" => ended = "clean",
         r' = [r EXCEPT !.ended = ended, !.completion = c]
  PROVE  Stepped(r, r')
<1> DEFINE t == r'
<1>1. r.finalizing /\ r.completion = "pending"
  BY DEF Ending
<1>2. Typed(r) /\ Journaled(r) /\ Over(r) /\ Honest(r) /\ Winding(r) /\ DOMAIN r = Fields
  BY DEF RunnerInv, Sound, Core, Typed
<1>3. r.outcome = None
  BY <1>1, <1>2 DEF Honest
<1>4. /\ t.ended = ended /\ t.completion = c
      /\ SameRun(r, t) /\ t.outcome = r.outcome /\ t.sink = r.sink /\ t.writing = r.writing
      /\ t.queue = r.queue /\ t.failure = r.failure /\ t.entries = r.entries /\ t.closed = r.closed
      /\ t.timedOut = r.timedOut /\ t.finalizing = r.finalizing /\ DOMAIN t = Fields
  BY <1>2 DEF Fields, SameRun
<1> HIDE DEF t
<1>5. Typed(t)
  BY <1>2, <1>4 DEF Typed, SameRun
<1>6. Consecutive(t) /\ (t.writing = None => t.queue = <<>>)
  BY <1>2, <1>4 DEF Journaled, Consecutive, Unwritten
<1>7. Closes(t)
  BY <1>1, <1>2, <1>4 DEF Journaled, Closes, SameRun
<1>8. Over(t) /\ Winding(t) /\ Honest(t)
  BY <1>2, <1>3, <1>4, SameRunKeeps
<1>9. r.finished /\ t.finished
  BY <1>1, <1>2, <1>4 DEF Journaled, Closes, Over, SameRun
<1> QED BY <1>5, <1>6, <1>7, <1>8, <1>9 DEF Stepped, Sound, Core, Journaled, t

\* The file ends as clean when the journal never failed.
LEMMA FinalizedKeeps == ASSUME RunnerInv, Finalized PROVE Stepped(r, r')
<1> DEFINE ended == IF r.failure = None THEN "clean" ELSE "unclean"
           c == IF r.failure = None THEN "ok" ELSE "failed"
<1>1. Ending /\ r' = [r EXCEPT !.ended = ended, !.completion = c]
  BY DEF Finalized
<1>2. /\ ended \in {"no", "clean", "unclean"} /\ c \in {"ok", "failed"}
      /\ (ended = "clean" => r.failure = None) /\ (c = "ok" => ended = "clean")
  OBVIOUS
<1> HIDE DEF ended, c
<1> QED BY <1>1, <1>2, EndingKeeps

\* The end of the file fails, the end written or not.
LEMMA FinalizeFailedKeeps == ASSUME RunnerInv, FinalizeFailed PROVE Stepped(r, r')
<1>1. PICK end \in {"no", IF r.failure = None THEN "clean" ELSE "unclean"} :
        r' = [r EXCEPT !.ended = end, !.completion = "failed"]
  BY DEF FinalizeFailed
<1>2. Ending
  BY DEF FinalizeFailed
<1>3. end \in {"no", "clean", "unclean"} /\ (end = "clean" => r.failure = None)
      /\ "failed" \in {"ok", "failed"} /\ ("failed" = "ok" => end = "clean")
  OBVIOUS
<1> QED BY <1>1, <1>2, <1>3, EndingKeeps

\* stopped settles with what the verdict says.
LEMMA ConcludeKeeps == ASSUME RunnerInv, Conclude PROVE Stepped(r, r')
<1> DEFINE t == r'
           error == IF r.verdict.kind = "stop" /\ r.verdict.error = None THEN r.late
                    ELSE r.verdict.error
           o == [error |-> error, journal |-> r.completion = "failed"]
<1>1. /\ r.completion \in {"ok", "failed"} /\ r.verdict # None /\ r.outcome = None
      /\ t = [r EXCEPT !.outcome = o]
  BY DEF Conclude, Result
<1>2. Typed(r) /\ Journaled(r) /\ Over(r) /\ Honest(r) /\ Winding(r) /\ DOMAIN r = Fields
  BY DEF RunnerInv, Sound, Core, Typed
<1>3. r.verdict \in Verdicts /\ r.late \in Effects \cup {None}
  BY <1>1, <1>2 DEF Typed
<1>4. error \in Errors \cup {None}
  BY <1>3 DEF Verdicts, Errors
<1>5. o \in [error : Errors \cup {None}, journal : BOOLEAN]
  BY <1>4
<1>6. o.error = error /\ o.journal = (r.completion = "failed")
  OBVIOUS
<1> HIDE DEF o
<1>7. /\ t.outcome = o /\ SameJournal(r, t) /\ SameRun(r, t) /\ DOMAIN t = Fields
  BY <1>1, <1>2 DEF Fields, SameJournal, SameRun
<1> HIDE DEF t
<1>8. Typed(t)
  BY <1>2, <1>5, <1>7 DEF Typed, SameRun, SameJournal
<1>9. Journaled(t) /\ Over(t) /\ Winding(t)
  BY <1>2, <1>7, SamePartsKeep, SameRunKeeps
<1>10. Honest(t)
  <2>1. t.verdict = r.verdict /\ t.first = r.first /\ t.degraded = r.degraded /\ t.late = r.late
        /\ t.completion = r.completion
    BY <1>7 DEF SameRun, SameJournal
  <2>2. Says(t.verdict, t)
    BY <1>1, <1>2, <2>1 DEF Honest, Says
  <2> QED BY <1>1, <1>2, <1>6, <1>7, <2>1, <2>2 DEF Honest
<1>11. r.finished /\ t.finished
  BY <1>1, <1>2, <1>7 DEF Over, SameRun
<1> QED BY <1>8, <1>9, <1>10, <1>11 DEF Stepped, Sound, Core, t

\* A runner starts sound.
LEMMA Initially == RunnerInit => RunnerInv
<1> SUFFICES ASSUME RunnerInit PROVE RunnerInv
  OBVIOUS
<1> USE RunnerAssumption
<1>1. /\ DOMAIN r = Fields /\ r.pending = <<>> /\ r.buffer = [e \in Effects |-> <<>>]
      /\ r.waiting = <<>> /\ r.running = {} /\ r.degraded = None /\ r.finished = FALSE
      /\ r.late = None /\ r.verdict = None /\ r.outcome = None /\ r.queue = <<>>
      /\ r.writing = None /\ r.closed = FALSE /\ r.closing = FALSE /\ r.finalizing = FALSE
      /\ r.timedOut = FALSE /\ r.failure = None /\ r.completion = "no" /\ r.sink = <<>>
      /\ r.ended = "no" /\ r.accepted = <<>> /\ r.folded = <<>> /\ r.entries = 0
      /\ r.first = None /\ r.done = {} /\ r.asked = {}
  BY DEF RunnerInit, Started, Fields
<1>2. <<>> \in Seq(Writes) /\ <<>> \in Seq(Jobs) /\ <<>> \in Seq(Nat) /\ ToSet(<<>>) = {}
      /\ Len(<<>>) = 0 /\ DOMAIN <<>> = {}
  BY DEF ToSet
<1>3. r.buffer \in [Effects -> Seq(Writes)] /\ \A e \in Effects : r.buffer[e] = <<>>
  BY <1>1, <1>2
<1>4. Typed(r)
  <2>1. /\ r.pending \in Seq(Writes) /\ r.waiting \in Seq(Jobs) /\ r.queue \in Seq(Nat)
        /\ r.sink \in Seq(Nat) /\ r.accepted \in Seq(Writes) /\ r.folded \in Seq(Writes)
    BY <1>1, <1>2, Zenon
  <2>2. /\ r.running \subseteq Running /\ r.done \subseteq Jobs /\ r.asked \subseteq Jobs
        /\ r.entries \in Nat
    BY <1>1
  <2>3. /\ r.finished \in BOOLEAN /\ r.closed \in BOOLEAN /\ r.closing \in BOOLEAN
        /\ r.finalizing \in BOOLEAN /\ r.timedOut \in BOOLEAN
    BY <1>1, Zenon
  <2> QED BY <1>1, <1>3, <2>1, <2>2, <2>3, Zenon DEF Typed
<1>5. Journaled(r)
  <2>1. Unwritten(r) = 0 /\ 0 <= Capacity
    BY <1>1, <1>2 DEF Unwritten
  <2>2. Consecutive(r)
    BY <1>1, <1>2, <2>1 DEF Consecutive
  <2>3. Closes(r)
    BY <1>1 DEF Closes
  <2> QED BY <1>1, <2>2, <2>3 DEF Journaled
<1>6. Over(r)
  <2>1. IsFiniteSet({}) /\ Cardinality({}) = 0
    BY FS_EmptySet
  <2> QED BY <1>1, <2>1 DEF Over
<1>7. Honest(r) /\ Winding(r)
  BY <1>1 DEF Honest, Winding
<1>8. Whole(r, <<>>, r.degraded # None)
  <2>1. <<>> \o (<<>> \o <<>>) = <<>>
    OBVIOUS
  <2>2. r.accepted = r.folded \o (<<>> \o r.pending)
    BY <1>1, <2>1
  <2>3. Distinct(r.accepted) /\ ToSet(r.accepted) = {}
    BY <1>1, <1>2 DEF Distinct
  <2>4. 0 \in 0 .. MaxWrites /\ 1 .. 0 = {}
    OBVIOUS
  <2>5. \E m \in 0 .. MaxWrites : ToSet(r.accepted) \ {Down} = 1 .. m
    BY <2>3, <2>4
  <2> QED BY <1>1, <2>2, <2>3, <2>5 DEF Whole
<1>9. Placed(r, {})
  <2>1. Buffers(r) = {}
    BY <1>2, <1>3 DEF Buffers, Jobs
  <2>2. Requests(r.running) = {} /\ ToSet(r.waiting) = {}
    BY <1>1, <1>2 DEF Requests
  <2>3. Distinct(<<>>)
    BY <1>2 DEF Distinct
  <2> QED BY <1>1, <1>3, <2>1, <2>2, <2>3 DEF Placed
<1> QED BY <1>1, <1>4, <1>5, <1>6, <1>7, <1>8, <1>9 DEF RunnerInv, Sound, Going, Core

\* Every step of a sound run leaves a sound one.
LEMMA NextKeeps == ASSUME RunnerInv, RunnerNext PROVE Stepped(r, r')
<1>1. CASE Propagate
  BY <1>1, PropagateKeeps
<1>2. CASE Pump
  BY <1>2, PumpKeeps
<1>3. CASE Journal
  BY <1>3, AppendAckedKeeps, AppendFailedKeeps, FinalizeKeeps, FinalizedKeeps, FinalizeFailedKeeps,
     ConcludeKeeps DEF Journal
<1>4. CASE Push
  BY <1>4, AcceptNext DEF Push
<1>5. CASE AbandonAll
  BY <1>5, AbandonAllKeeps
<1>6. ASSUME NEW j \in r.running, WriteResult(j) \/ Note(j) \/ StopAll(j) \/ Reject(j) \/ Settle(j)
      PROVE  Stepped(r, r')
  <2>1. CASE WriteResult(j)
    BY <2>1, AcceptNext DEF WriteResult
  <2> QED BY <1>6, <2>1, NoteKeeps, StopAllKeeps, RejectKeeps, SettleKeeps
<1> QED BY <1>1, <1>2, <1>3, <1>4, <1>5, <1>6 DEF RunnerNext, Work

\* The inductive invariant, for any effects, scope, lane, journal and bounds.
THEOREM RunnerIsSound == RunnerSpec => []RunnerInv
<1>1. ASSUME RunnerInv, [RunnerNext]_runnerVars PROVE RunnerInv'
  <2>1. CASE RunnerNext
    <3>1. Stepped(r, r')
      BY <1>1, <2>1, NextKeeps
    <3> QED BY <3>1 DEF Stepped, RunnerInv
  <2>2. CASE UNCHANGED runnerVars
    BY <1>1, <2>2 DEF runnerVars, RunnerInv
  <2> QED BY <1>1, <2>1, <2>2
<1> QED BY <1>1, Initially, PTL DEF RunnerSpec

\* Types, the bound of the lane and the capacity of the journal hold of every run.
THEOREM RunnerTypeIsOK == RunnerSpec => []RunnerTypeOK
<1>1. RunnerInv => RunnerTypeOK
  BY DEF RunnerInv, Sound, Core, Typed, Over, Journaled, Consecutive, RunnerTypeOK
<1> QED BY <1>1, RunnerIsSound, PTL

\* While the runner lives, the scope has folded every accepted write but those pending, in order,
\* and
\* each request made of it is buffered, waiting, at work or done, in one place only: no failure
\* outside
\* the scope, rollback or refusal takes one or doubles it.
THEOREM ScopeLosesNothing == RunnerSpec => []ScopeKeepsAll
<1>1. RunnerInv => ScopeKeepsAll
  <2> SUFFICES ASSUME RunnerInv, ~r.finished PROVE ScopeKeepsAll
    BY DEF ScopeKeepsAll
  <2>1. Typed(r) /\ Whole(r, <<>>, r.degraded # None) /\ Placed(r, {})
    BY DEF RunnerInv, Sound, Going, Core
  <2>2. r.folded \o r.pending = r.accepted
    <3>1. r.accepted = r.folded \o (<<>> \o r.pending) /\ r.pending \in Seq(Writes)
      BY <2>1 DEF Whole, Typed
    <3>2. \A p \in Seq(Writes) : <<>> \o p = p
      OBVIOUS
    <3> QED BY <3>1, <3>2
  <2> DEFINE B == Buffers(r)
             W == ToSet(r.waiting)
             R == Requests(r.running)
             D == r.done
  <2>3. /\ B \cap W = {} /\ B \cap R = {} /\ W \cap R = {} /\ D \cap (B \cup W \cup R) = {}
        /\ r.asked \subseteq B \cup W \cup R \cup D
    BY <2>1 DEF Placed
  <2>4. ASSUME NEW q \in r.asked
        PROVE  Cardinality({place \in 1 .. 4 :
                 q \in CASE place = 1 -> Buffered(q.effect)
                         [] place = 2 -> ToSet(r.waiting)
                         [] place = 3 -> Requests(r.running)
                         [] place = 4 -> r.done}) = 1
    <3> DEFINE At(place) == CASE place = 1 -> Buffered(q.effect)
                              [] place = 2 -> ToSet(r.waiting)
                              [] place = 3 -> Requests(r.running)
                              [] place = 4 -> r.done
               T == {place \in 1 .. 4 : q \in At(place)}
    <3>1. q \in Jobs /\ q = [write |-> q.write, effect |-> q.effect]
      BY <2>1 DEF Typed, Jobs
    <3>2. q \in Buffered(q.effect) <=> q \in B
      <4> DEFINE e == q.effect
                 V == ToSet(r.buffer[e])
      <4>1. q \in B <=> q.write \in V
        BY <3>1 DEF Buffers
      <4>2. Buffered(e) = {[write |-> w, effect |-> e] : w \in V}
        BY DEF Buffered
      <4> HIDE DEF V
      <4>3. q \in {[write |-> w, effect |-> e] : w \in V} <=> q.write \in V
        BY <3>1
      <4> QED BY <4>1, <4>2, <4>3
    <3>3. /\ At(1) = Buffered(q.effect) /\ At(2) = W /\ At(3) = R /\ At(4) = D
      OBVIOUS
    <3>4. 1 .. 4 = {1, 2, 3, 4}
      OBVIOUS
    <3> HIDE DEF At, B, W, R, D
    <3>5. \E k \in 1 .. 4 : T = {k}
      <4>1. CASE q \in B
        <5>1. T = {1}
          BY <2>3, <3>2, <3>3, <3>4, <4>1
        <5> QED BY <5>1
      <4>2. CASE q \in W
        <5>1. T = {2}
          BY <2>3, <3>2, <3>3, <3>4, <4>2
        <5> QED BY <5>1
      <4>3. CASE q \in R
        <5>1. T = {3}
          BY <2>3, <3>2, <3>3, <3>4, <4>3
        <5> QED BY <5>1
      <4>4. CASE q \in D
        <5>1. T = {4}
          BY <2>3, <3>2, <3>3, <3>4, <4>4
        <5> QED BY <5>1
      <4> QED BY <2>3, <4>1, <4>2, <4>3, <4>4
    <3> HIDE DEF T
    <3>6. Cardinality(T) = 1
      BY <3>5, FS_Singleton
    <3> QED BY <3>6 DEF T, At
  <2> QED BY <2>2, <2>4 DEF ScopeKeepsAll
<1> QED BY <1>1, RunnerIsSound, PTL

\* Once the graph has degraded, a start is one of the scope's and comes after the scope has folded
\* the
\* write that winds it down; what else is at work is aborted.
THEOREM ScopeWindsDownFirst == RunnerSpec => WindsDownFirst
<1>1. RunnerInv /\ RunnerInv' /\ [RunnerNext]_runnerVars =>
        [r'.degraded # None /\ ~r'.finished =>
           /\ \A q \in Requests(r'.running) \ Requests(r.running) :
                q.effect \in Members /\ Down \in ToSet(r'.folded)
           /\ \A j \in r'.running : j.effect \in Members \/ j.aborted]_runnerVars
  <2> SUFFICES ASSUME RunnerInv, RunnerInv', RunnerNext, r'.degraded # None, ~r'.finished
               PROVE  /\ \A q \in Requests(r'.running) \ Requests(r.running) :
                           q.effect \in Members /\ Down \in ToSet(r'.folded)
                      /\ \A j \in r'.running : j.effect \in Members \/ j.aborted
    OBVIOUS
  <2>1. Stepped(r, r')
    BY NextKeeps
  <2> QED BY <2>1 DEF Stepped, Sound, Core, Winding
<1> QED BY <1>1, RunnerIsSound, PTL DEF RunnerSpec, WindsDownFirst

\* The journal file has no gap, and is ended as clean only when every entry is in it, whichever
\* append
\* or finalization failed or timed out.
THEOREM JournalKeepsWhole == RunnerSpec => []JournalIsWhole
<1>1. RunnerInv => JournalIsWhole
  <2> SUFFICES ASSUME RunnerInv PROVE JournalIsWhole
    OBVIOUS
  <2>1. Consecutive(r) /\ Closes(r) /\ Typed(r)
    BY DEF RunnerInv, Sound, Core, Journaled
  <2>2. ASSUME r.ended = "clean" PROVE Len(r.sink) = r.entries
    <3>1. r.failure = None /\ r.writing = None /\ r.queue = <<>>
      BY <2>1, <2>2 DEF Closes
    <3>2. Unwritten(r) = 0 /\ Len(r.sink) \in Nat
      BY <2>1, <3>1 DEF Unwritten, Typed
    <3> QED BY <2>1, <3>1, <3>2 DEF Consecutive
  <2> QED BY <2>1, <2>2 DEF JournalIsWhole, Consecutive
<1> QED BY <1>1, RunnerIsSound, PTL

\* stopped settles when all work and journal writes are over, with a value only if nothing failed,
\* and
\* else with the first failure unless the scope failed after it.
THEOREM StopStaysHonest == RunnerSpec => []StopIsHonest
<1>1. RunnerInv => StopIsHonest
  <2> SUFFICES ASSUME RunnerInv, r.outcome # None
               PROVE  /\ r.running = {} /\ r.waiting = <<>> /\ r.writing = None /\ r.queue = <<>>
                      /\ (r.outcome.error = None /\ ~r.outcome.journal) =>
                           (r.first = None /\ r.late = None /\ r.ended = "clean")
                      /\ r.first # None =>
                           \/ r.outcome.error = r.first
                           \/ r.degraded = r.first /\ r.outcome.error \notin {"operator", "journal"}
    BY DEF StopIsHonest
  <2>1. Closes(r) /\ Over(r) /\ Honest(r) /\ Typed(r)
    BY DEF RunnerInv, Sound, Core, Journaled
  <2>2. /\ r.completion \in {"ok", "failed"} /\ r.verdict # None /\ Says(r.verdict, r)
        /\ r.outcome.error = IF r.verdict.kind = "stop" /\ r.verdict.error = None
                            THEN r.late ELSE r.verdict.error
        /\ r.outcome.journal = (r.completion = "failed")
    BY <2>1 DEF Honest
  <2>3. r.finalizing /\ r.closing /\ r.writing = None /\ r.queue = <<>>
    BY <2>1, <2>2 DEF Closes
  <2>4. r.finished /\ r.running = {} /\ r.waiting = <<>>
    BY <2>1, <2>3 DEF Over
  <2>5. r.verdict.kind \in {"stop", "reject"}
    BY <2>1, <2>2 DEF Typed, Verdicts
  <2>6. ASSUME r.outcome.error = None, ~r.outcome.journal
        PROVE  r.first = None /\ r.late = None /\ r.ended = "clean"
    <3>1. r.completion = "ok" /\ r.ended = "clean"
      BY <2>1, <2>2, <2>6 DEF Closes
    <3>2. r.verdict.kind = "stop" /\ r.verdict.error = None
      BY <2>2, <2>5, <2>6 DEF Says
    <3>3. r.degraded = None /\ r.late = None
      BY <2>2, <2>6, <3>2 DEF Says
    <3>4. r.first = None
      BY <2>1, <3>2, <3>3 DEF Honest
    <3> QED BY <3>1, <3>3, <3>4
  <2>7. ASSUME r.first # None
        PROVE  \/ r.outcome.error = r.first
               \/ r.degraded = r.first /\ r.outcome.error \notin {"operator", "journal"}
    <3>1. CASE r.verdict.kind = "reject"
      BY <2>1, <2>2, <2>7, <3>1 DEF Honest, Says
    <3>2. CASE r.verdict.kind = "stop"
      BY <2>1, <2>2, <2>7, <3>2 DEF Honest, Says
    <3> QED BY <2>5, <3>1, <3>2
  <2> QED BY <2>3, <2>4, <2>6, <2>7
<1> QED BY <1>1, RunnerIsSound, PTL
=============================================================================
