------------------------ MODULE ControllerTasksProofs ------------------------
(***************************************************************************)
(* The safety of ControllerTasks, for any keys, policies, caps and waits.  *)
(*                                                                         *)
(* CtrlInv is the inductive invariant.  Its parts speak of one key at a    *)
(* time (OneAtATime, Remembered, Waiting), of the keys whose policy failed *)
(* (Shut) and of the caps (Counted): what is reserved may pass them, for a *)
(* reorg, a later step or recovery adds to it, but not while a decision    *)
(* asks for more.  A step is an input and the decision after it: an input  *)
(* leaves a state that is Given, and the decision keeps what is Sound, one *)
(* operator after the other and, within its two passes over the keys, one  *)
(* key after the other.                                                    *)
(***************************************************************************)
EXTENDS ControllerTasks, FiniteSetTheorems, WellFoundedInduction, TLAPS

\* Every set of numbers that is not empty has a least one.
LEMMA LeastNat ==
  ASSUME NEW T \in SUBSET Nat, T # {}
  PROVE  \E x \in T : \A y \in T : x <= y
<1>1. IsWellFoundedOn(OpToRel(<, Nat), Nat)
  BY NatLessThanWellFounded
<1>2. PICK x \in T : \A y \in T : ~(<<y, x>> \in OpToRel(<, Nat))
  <2> HIDE DEF OpToRel
  <2> QED BY <1>1, WFMin
<1>3. \A y \in T : ~(y < x)
  BY <1>2 DEF OpToRel
<1> QED BY <1>3

\* Induction up to n, over a set of numbers.
LEMMA UpTo ==
  ASSUME NEW n \in Nat, NEW T, 0 \in T,
         \A i \in 1 .. n : i - 1 \in T => i \in T
  PROVE  \A i \in 0 .. n : i \in T
<1> DEFINE U == {i \in 0 .. n : i \notin T}
<1> SUFFICES ASSUME U # {} PROVE FALSE
  OBVIOUS
<1>1. PICK x \in U : \A y \in U : x <= y
  <2>1. U \in SUBSET Nat
    OBVIOUS
  <2> QED BY <2>1, LeastNat
<1>2. x \in 1 .. n /\ x - 1 \in 0 .. n /\ x - 1 \notin U
  BY <1>1
<1> QED BY <1>1, <1>2

\* What is built step by step exists: a function that starts at base and takes a step at each index.
Steps(g, n, S, base, step) ==
  /\ g \in [0 .. n -> S]
  /\ g[0] = base
  /\ \A i \in 1 .. n : g[i] = step[<<g[i - 1], i>>]

\* What is defined step by step from 0 to n stays in S when every step does.
LEMMA StepByStep ==
  ASSUME NEW n \in Nat, NEW S, NEW base \in S, NEW step \in [S \X (1 .. n) -> S]
  PROVE  \E g : Steps(g, n, S, base, step)
<1> DEFINE Built(m, g) == g[0] = base /\ \A i \in 1 .. m : g[i] = step[<<g[i - 1], i>>]
           T == {m \in 0 .. n : \E g \in [0 .. m -> S] : Built(m, g)}
<1>1. 0 \in T
  <2> DEFINE g == [i \in 0 .. 0 |-> base]
  <2>1. g \in [0 .. 0 -> S] /\ Built(0, g)
    OBVIOUS
  <2> HIDE DEF g, Built
  <2> QED BY <2>1
<1>2. ASSUME NEW m \in 1 .. n, m - 1 \in T PROVE m \in T
  <2>1. PICK g \in [0 .. m - 1 -> S] : Built(m - 1, g)
    BY <1>2
  <2> DEFINE h == [i \in 0 .. m |-> IF i = m THEN step[<<g[m - 1], m>>] ELSE g[i]]
  <2>2. h \in [0 .. m -> S]
    OBVIOUS
  <2>3. h[0] = base
    BY <2>1
  <2>4. ASSUME NEW i \in 1 .. m PROVE h[i] = step[<<h[i - 1], i>>]
    <3>1. h[i - 1] = g[i - 1]
      OBVIOUS
    <3>2. h[i] = step[<<g[i - 1], i>>]
      <4>1. CASE i = m
        BY <4>1
      <4>2. CASE i # m
        <5>1. i \in 1 .. m - 1
          BY <4>2
        <5> QED BY <2>1, <4>2, <5>1
      <4> QED BY <4>1, <4>2
    <3> HIDE DEF h
    <3> QED BY <3>1, <3>2
  <2>5. Built(m, h)
    <3> HIDE DEF h
    <3> QED BY <2>3, <2>4
  <2> HIDE DEF h, Built
  <2> QED BY <2>2, <2>5
<1>3. n \in T
  <2> HIDE DEF T
  <2> QED BY <1>1, <1>2, UpTo
<1> QED BY <1>3 DEF Steps

-----------------------------------------------------------------------------
(* The inductive invariant.                                                *)

AllIds == UNION {Ids(k) : k \in Keys}
Acts == [at : {"sent"} \cup Executing \cup Compensated, task : Slots, ids : SUBSET AllIds,
         rests : Versions \cup {None}, left : Nat, records : Nat]
Entries == [failures : 0 .. MaxBlocks, left : -MaxBlocks .. MaxBlocks]
ReadyTickets == [want : Wants, void : BOOLEAN, expiry : Until, current : BOOLEAN, late : BOOLEAN,
                 basis : Wants \X (Versions \cup {None}) \X Inputs]
Prints == (Wants \cup {None, Bad}) \X (Versions \cup {Absent, None}) \X (Inputs \cup {None})

\* the types of a state's fields
Candidates == [Keys -> Wants \cup {None, Bad}]
Facts == [Keys -> Readings \cup {None}]
Givens == [Keys -> Inputs \cup {None}]
Marks == [Keys -> SUBSET AllIds]
ActLists == [Keys -> {<<>>} \cup {<<a>> : a \in Acts}]
Ledgers == [Holders -> [open : Nat, mined : Nat]]
Backoffs == [Keys -> [Slots -> Entries]]
Endings == [Keys -> [Tasks -> {"no", "declined", "stale"}]]
Dues == [Keys -> [Slots -> [wait : Nat, age : Nat]]]
Preparings == [Keys -> Tickets \cup {None}]
Readies == [Keys -> ReadyTickets \cup {None}]
Sents == [Keys -> Notes \cup {None}]
Stales == [Keys -> SUBSET Tasks]
Declines == [Keys -> [Tasks -> Prints \cup {None}]]

\* A state is of its type; a key has one act at most.
States ==
  [candidate : Candidates, fact : Facts, input : Givens, behind : Marks, acts : ActLists,
   nonces : Ledgers, accepting : BOOLEAN, backoff : Backoffs, asked : SUBSET Keys, ended : Endings, due : Dues,
   preparing : Preparings, ready : Readies, submitted : Sents, stale : Stales,
   declined : Declines, served : Keys \cup {0}]

\* A key is prepared or ready, not both, and what is ready was not voided; a request on its way is
\* what the family remembers as submitted.
OneAtATime(s, k) ==
  /\ s.preparing[k] = None \/ s.ready[k] = None
  /\ s.ready[k] # None => ~s.ready[k].void
  /\ s.submitted[k] # None <=> s.acts[k] # <<>> /\ s.acts[k][1].at = "sent"

\* What came to nothing is held: a decline on the values it was given on, a stale refusal until the
\* fact is read again; and what is prepared or ready was not declined.
Remembered(s, k, print) ==
  /\ \A t \in Tasks :
       /\ s.ended[k][t] = "declined" => s.declined[k][t] = print
       /\ s.ended[k][t] = "stale" => t \in s.stale[k]
  /\ s.preparing[k] # None => s.ended[k][s.preparing[k].want.task] # "declined"
  /\ s.ready[k] # None => s.ended[k][s.ready[k].want.task] # "declined"

\* A slot's backoff is what is left of the wait its failures earn, until a whole maximum wait after.
Paced(entry, d) ==
  \/ d.wait = 0 /\ d.age = 0 /\ entry = Forgotten
  \/ /\ d.wait > 0 /\ entry.failures \in 1 .. MaxBlocks /\ d.wait = Waits[entry.failures]
     /\ entry.left = d.wait - d.age /\ d.age < d.wait + MaxBlocks
Waiting(s, k) == \A t \in Slots : Paced(s.backoff[k][t], s.due[k][t])

\* A policy that failed leaves nothing ready, and what it leaves under way is void.
Shut(s, keys) ==
  \A k \in keys \ s.asked : s.ready[k] = None /\ (s.preparing[k] # None => s.preparing[k].void)

\* What a decision asks for fits the caps, beside all that is reserved, prepared or ready.
Counted(s) ==
  s.asked # {} =>
    NumReservations(s) + Cardinality(Held(s, "preparing")) + Cardinality(Held(s, "ready"))
      <= MaxReservations

\* A state computed from Now is sound: what it remembers was given on the values of the state at.
Sound(s, at, shut) ==
  /\ s \in States /\ Counted(s) /\ Shut(s, shut)
  /\ \A k \in Keys : OneAtATime(s, k) /\ Remembered(s, k, Fingerprint(at, k)) /\ Waiting(s, k)

CtrlInv ==
  /\ Sound(Now, Now, closed) /\ family = FamilyOf(Now)
  /\ closed \subseteq Keys /\ rare \in 0 .. MaxRare
-----------------------------------------------------------------------------
(* Keys, counts and waits.                                                 *)

\* What the constants are.
LEMMA ConstantsAre ==
  /\ Cardinality(Keys) \in Nat /\ Keys = 1 .. Cardinality(Keys) /\ IsFiniteSet(Keys)
  /\ MaxReservations \in Nat /\ Concurrency \in Nat /\ MaxBlocks \in Nat /\ MaxRare \in Nat
  /\ BaseBlocks \in 1 .. MaxBlocks /\ None \notin Notes /\ None \notin Tickets /\ None \notin Readings
  /\ None \notin Wants /\ Bad \notin Wants
<1>1. Cardinality(Keys) \in Nat /\ Keys = 1 .. Cardinality(Keys)
  BY ControllerAssumption
<1>2. IsFiniteSet(1 .. Cardinality(Keys))
  BY <1>1, FS_Interval
<1>3. IsFiniteSet(Keys)
  BY <1>1, <1>2, Zenon
<1> QED BY <1>1, <1>3, ControllerAssumption

\* Some of the keys are a number of keys, and fewer keys are no more.
LEMMA CountIs ==
  ASSUME NEW S \in SUBSET Keys
  PROVE  IsFiniteSet(S) /\ Cardinality(S) \in Nat
<1>1. IsFiniteSet(S)
  BY ConstantsAre, FS_Subset
<1> QED BY <1>1, FS_CardinalityType

LEMMA FewerCount ==
  ASSUME NEW S \in SUBSET Keys, NEW T \in SUBSET S
  PROVE  Cardinality(T) <= Cardinality(S)
BY CountIs, FS_Subset

\* One key more counts one more.
LEMMA OneMore ==
  ASSUME NEW S \in SUBSET Keys, NEW k \in Keys
  PROVE  Cardinality(S \cup {k}) <= Cardinality(S) + 1
BY CountIs, FS_AddElement

\* One key less counts one less.
LEMMA OneLess ==
  ASSUME NEW S \in SUBSET Keys, NEW k \in S
  PROVE  Cardinality(S \ {k}) = Cardinality(S) - 1
BY CountIs, FS_RemoveElement

\* What two sets of keys hold together is no more than what they hold apart.
LEMMA UnionCount ==
  ASSUME NEW S \in SUBSET Keys, NEW T \in SUBSET Keys
  PROVE  Cardinality(S \cup T) <= Cardinality(S) + Cardinality(T)
<1>1. IsFiniteSet(S) /\ IsFiniteSet(T) /\ S \cap T \in SUBSET Keys
  BY CountIs
<1>2. Cardinality(S \cup T) = Cardinality(S) + Cardinality(T) - Cardinality(S \cap T)
  BY <1>1, FS_Union
<1>3. Cardinality(S \cap T) \in Nat /\ Cardinality(S) \in Nat /\ Cardinality(T) \in Nat
  BY <1>1, CountIs
<1> QED BY <1>2, <1>3

\* A wait starts at the base, doubles up to the maximum, and has reached it after as many failures as
\* the maximum has blocks.
LEMMA WaitsAre ==
  /\ Waits[1] = BaseBlocks
  /\ \A n \in 1 .. MaxBlocks :
       /\ Waits[n] \in 1 .. MaxBlocks /\ (n <= Waits[n] \/ Waits[n] = MaxBlocks)
       /\ Waits[n] < MaxBlocks =>
            n + 1 \in 1 .. MaxBlocks
            /\ Waits[n + 1] = IF 2 * Waits[n] < MaxBlocks THEN 2 * Waits[n] ELSE MaxBlocks
<1> DEFINE m == MaxBlocks - 1
           S == 1 .. MaxBlocks
           double == [x \in S |-> IF 2 * x < MaxBlocks THEN 2 * x ELSE MaxBlocks]
           step == [p \in S \X (1 .. m) |-> double[p[1]]]
<1>1. m \in Nat /\ BaseBlocks \in S /\ MaxBlocks \in Nat \ {0} /\ m + 1 = MaxBlocks
  BY ConstantsAre
<1>2. double \in [S -> S] /\ step \in [S \X (1 .. m) -> S]
  <2>1. \A x \in S : (IF 2 * x < MaxBlocks THEN 2 * x ELSE MaxBlocks) \in S
    BY <1>1
  <2>2. double \in [S -> S]
    BY <2>1
  <2> HIDE DEF double, S, m
  <2> QED BY <2>2
<1>3. PICK g : Steps(g, m, S, BaseBlocks, step)
  <2> HIDE DEF m, S, step
  <2> QED BY <1>1, <1>2, StepByStep
<1>4. g \in [0 .. m -> S] /\ g[0] = BaseBlocks
  BY <1>3 DEF Steps
<1>5. \A i \in 1 .. m : g[i] = IF 2 * g[i - 1] < MaxBlocks THEN 2 * g[i - 1] ELSE MaxBlocks
  <2>1. \A i \in 1 .. m : i - 1 \in 0 .. m
    BY <1>1
  <2>2. \A i \in 1 .. m : g[i - 1] \in S
    <3> HIDE DEF S, m
    <3> QED BY <1>4, <2>1
  <2>3. \A i \in 1 .. m : step[<<g[i - 1], i>>] = double[g[i - 1]]
    <3> HIDE DEF S, m, double
    <3> QED BY <2>2
  <2>4. \A i \in 1 .. m : g[i] = step[<<g[i - 1], i>>]
    <3> HIDE DEF step
    <3> QED BY <1>3 DEF Steps
  <2> HIDE DEF step, m
  <2> QED BY <2>2, <2>3, <2>4
<1> DEFINE h == [n \in 1 .. MaxBlocks |-> g[n - 1]]
<1>6. h = [n \in 1 .. MaxBlocks |-> IF n = 1 THEN BaseBlocks
             ELSE IF 2 * h[n - 1] < MaxBlocks THEN 2 * h[n - 1] ELSE MaxBlocks]
  <2>1. ASSUME NEW n \in 1 .. MaxBlocks
        PROVE  h[n] = IF n = 1 THEN BaseBlocks
                      ELSE IF 2 * h[n - 1] < MaxBlocks THEN 2 * h[n - 1] ELSE MaxBlocks
    <3>1. CASE n = 1
      BY <1>1, <1>4, <3>1
    <3>2. CASE n # 1
      <4>1. n - 1 \in 1 .. m /\ n - 1 \in 1 .. MaxBlocks /\ h[n] = g[n - 1]
        BY <1>1, <3>2
      <4>2. h[n - 1] = g[(n - 1) - 1]
        BY <4>1
      <4> HIDE DEF h, m
      <4> QED BY <1>5, <3>2, <4>1, <4>2
    <3> QED BY <3>1, <3>2
  <2> QED BY <2>1
<1> HIDE DEF h
<1>7. Waits = [n \in 1 .. MaxBlocks |-> IF n = 1 THEN BaseBlocks
             ELSE IF 2 * Waits[n - 1] < MaxBlocks THEN 2 * Waits[n - 1] ELSE MaxBlocks]
  BY <1>6 DEF Waits
<1>8. 1 \in 1 .. MaxBlocks /\ Waits[1] = BaseBlocks
  BY <1>1, <1>7
<1>9. ASSUME NEW n \in 1 .. MaxBlocks, n # 1
      PROVE  n - 1 \in 1 .. MaxBlocks
             /\ Waits[n] = IF 2 * Waits[n - 1] < MaxBlocks THEN 2 * Waits[n - 1] ELSE MaxBlocks
  BY <1>1, <1>7, <1>9
<1> DEFINE T == {i \in 0 .. MaxBlocks :
                   i > 0 => Waits[i] \in 1 .. MaxBlocks /\ (i <= Waits[i] \/ Waits[i] = MaxBlocks)}
<1>10. \A i \in 0 .. MaxBlocks : i \in T
  <2>1. 0 \in T
    BY <1>1
  <2>2. ASSUME NEW i \in 1 .. MaxBlocks, i - 1 \in T PROVE i \in T
    <3>1. CASE i = 1
      BY <1>1, <1>8, <3>1
    <3>2. CASE i # 1
      <4>1. /\ Waits[i - 1] \in 1 .. MaxBlocks
            /\ i - 1 <= Waits[i - 1] \/ Waits[i - 1] = MaxBlocks
        BY <2>2, <3>2
      <4> QED BY <1>1, <1>9, <3>2, <4>1
    <3> QED BY <3>1, <3>2
  <2> HIDE DEF T
  <2> QED BY <1>1, <2>1, <2>2, UpTo
<1>11. \A n \in 1 .. MaxBlocks : Waits[n] \in 1 .. MaxBlocks /\ (n <= Waits[n] \/ Waits[n] = MaxBlocks)
  BY <1>1, <1>10
<1>12. ASSUME NEW n \in 1 .. MaxBlocks, Waits[n] < MaxBlocks
       PROVE  /\ n + 1 \in 1 .. MaxBlocks
              /\ Waits[n + 1] = IF 2 * Waits[n] < MaxBlocks THEN 2 * Waits[n] ELSE MaxBlocks
  <2>1. n + 1 \in 1 .. MaxBlocks /\ n + 1 # 1
    BY <1>1, <1>11, <1>12
  <2>2. (n + 1) - 1 = n
    OBVIOUS
  <2> QED BY <1>9, <2>1, <2>2
<1> QED BY <1>8, <1>11, <1>12

-----------------------------------------------------------------------------
(* What the decision's operators change.                                   *)

\* what a decision leaves as it is
Frame(s, e) ==
  /\ e.candidate = s.candidate /\ e.fact = s.fact /\ e.input = s.input /\ e.behind = s.behind
  /\ e.nonces = s.nonces /\ e.accepting = s.accepting /\ e.backoff = s.backoff /\ e.ended = s.ended /\ e.due = s.due
  /\ e.stale = s.stale
SameWork(s, e) == e.submitted = s.submitted /\ e.acts = s.acts /\ e.declined = s.declined
SameTurn(s, e) == e.asked = s.asked /\ e.served = s.served

\* what is ready is what the policy asks for
Wanted(s, k) ==
  s.ready[k] # None =>
    Wanting(s, k) /\ s.candidate[k].task = s.ready[k].want.task
                  /\ s.candidate[k].ids = s.ready[k].want.ids

\* The names of the fields of a typed state, and their types.
LEMMA TypedFields ==
  ASSUME NEW s \in States, NEW k \in Keys
  PROVE  /\ s.candidate[k] \in Wants \cup {None, Bad} /\ s.fact[k] \in Readings \cup {None}
         /\ s.input[k] \in Inputs \cup {None} /\ s.behind[k] \in SUBSET AllIds
         /\ s.acts[k] = <<>> \/ \E a \in Acts : s.acts[k] = <<a>>
         /\ s.nonces[k] \in [open : Nat, mined : Nat]
         /\ s.preparing[k] \in Tickets \cup {None} /\ s.ready[k] \in ReadyTickets \cup {None}
         /\ s.submitted[k] \in Notes \cup {None} /\ s.stale[k] \in SUBSET Tasks
         /\ \A t \in Tasks : s.declined[k][t] \in Prints \cup {None}
         /\ \A t \in Tasks : s.ended[k][t] \in {"no", "declined", "stale"}
         /\ \A t \in Slots : s.backoff[k][t] \in Entries
         /\ \A t \in Slots : s.due[k][t] \in [wait : Nat, age : Nat]
<1>1. /\ s.candidate \in Candidates /\ s.fact \in Facts /\ s.input \in Givens /\ s.behind \in Marks
      /\ s.acts \in ActLists /\ s.nonces \in Ledgers /\ s.backoff \in Backoffs
      /\ s.ended \in Endings /\ s.due \in Dues
      /\ s.preparing \in Preparings /\ s.ready \in Readies /\ s.submitted \in Sents
      /\ s.stale \in Stales /\ s.declined \in Declines
  BY DEF States
<1>2. s.candidate[k] \in Wants \cup {None, Bad} /\ s.fact[k] \in Readings \cup {None}
  BY <1>1 DEF Candidates, Facts
<1>3. s.input[k] \in Inputs \cup {None} /\ s.behind[k] \in SUBSET AllIds
  BY <1>1 DEF Givens, Marks
<1>4. s.acts[k] = <<>> \/ \E a \in Acts : s.acts[k] = <<a>>
  BY <1>1 DEF ActLists
<1>5. s.preparing[k] \in Tickets \cup {None} /\ s.ready[k] \in ReadyTickets \cup {None}
  BY <1>1 DEF Preparings, Readies
<1>6. s.submitted[k] \in Notes \cup {None} /\ s.stale[k] \in SUBSET Tasks
  BY <1>1 DEF Sents, Stales
<1>7. \A t \in Tasks : s.declined[k][t] \in Prints \cup {None}
  BY <1>1 DEF Declines
<1>8. \A t \in Tasks : s.ended[k][t] \in {"no", "declined", "stale"}
  BY <1>1 DEF Endings
<1>9. \A t \in Slots : s.backoff[k][t] \in Entries
  BY <1>1 DEF Backoffs
<1>10. \A t \in Slots : s.due[k][t] \in [wait : Nat, age : Nat]
  BY <1>1 DEF Dues
<1>11. s.nonces[k] \in [open : Nat, mined : Nat]
  BY <1>1 DEF Ledgers, Holders
<1> QED BY <1>11, <1>2, <1>3, <1>4, <1>5, <1>6, <1>7, <1>8, <1>9, <1>10

\* A ticket's fields.
LEMMA TicketIs ==
  ASSUME NEW r, r \in Tickets \/ r \in ReadyTickets
  PROVE  /\ r.want \in Wants /\ r.void \in BOOLEAN /\ r.expiry \in Until /\ r.current \in BOOLEAN
         /\ r.want.task \in Tasks /\ r.want.task \in Slots /\ r.want.ids \in SUBSET AllIds
         /\ r.basis \in Prints /\ r.basis[2] \in Versions \cup {None}
<1>1. /\ r.want \in Wants /\ r.void \in BOOLEAN /\ r.expiry \in Until /\ r.current \in BOOLEAN
      /\ r.basis \in Wants \X (Versions \cup {None}) \X Inputs
  BY DEF Tickets, ReadyTickets
<1>2. r.want.task \in Tasks /\ r.want.task \in Slots
  BY <1>1 DEF Tasks, Slots
<1>3. r.want.ids \in SUBSET AllIds
  <2>1. PICK k \in Keys : r.want \in MayAsk[k]
    BY <1>1 DEF Wants
  <2>2. r.want.ids \in SUBSET Ids(k)
    BY <2>1 DEF Ids
  <2> QED BY <2>2 DEF AllIds
<1>4. r.basis \in Prints /\ r.basis[2] \in Versions \cup {None}
  BY <1>1 DEF Prints
<1> QED BY <1>1, <1>2, <1>3, <1>4

\* A fingerprint is of its type.
LEMMA FingerprintIs ==
  ASSUME NEW s \in States, NEW k \in Keys
  PROVE  /\ Fingerprint(s, k) \in Prints
         /\ Wanting(s, k) /\ s.input[k] # None /\ s.fact[k] # None /\ s.fact[k].version # Absent
              => Fingerprint(s, k) \in Wants \X (Versions \cup {None}) \X Inputs
<1>1. /\ s.candidate[k] \in Wants \cup {None, Bad} /\ s.fact[k] \in Readings \cup {None}
      /\ s.input[k] \in Inputs \cup {None}
  BY TypedFields
<1>2. Reads(s, k) \in Versions \cup {Absent, None}
  BY <1>1 DEF Reads, Readings
<1>3. s.fact[k] # None /\ s.fact[k].version # Absent => Reads(s, k) \in Versions
  BY <1>1 DEF Reads, Readings
<1> QED BY <1>1, <1>2, <1>3 DEF Fingerprint, Prints, Wanting

\* normalizePolicies and heldDrop: what a failed policy was preparing is void, and what is still
\* ready is what the policy asks for.
LEMMA CheckedIs ==
  ASSUME NEW s \in States
  PROVE  /\ Checked(s) \in States /\ Frame(s, Checked(s)) /\ SameWork(s, Checked(s))
         /\ SameTurn(s, Checked(s))
         /\ \A k \in Keys :
              /\ Checked(s).preparing[k] = IF s.candidate[k] = Bad /\ s.preparing[k] # None
                                           THEN Voided(s.preparing[k]) ELSE s.preparing[k]
              /\ Checked(s).ready[k] \in {None, s.ready[k]}
              /\ Wanted(Checked(s), k)
<1> DEFINE P == [k \in Keys |-> IF s.candidate[k] = Bad /\ s.preparing[k] # None
                                THEN Voided(s.preparing[k]) ELSE s.preparing[k]]
           R == [k \in Keys |->
                   IF s.ready[k] # None
                      /\ (s.ready[k].late \/ ~(s.candidate[k] \in Wants)
                          \/ s.candidate[k].task # s.ready[k].want.task
                          \/ s.candidate[k].ids # s.ready[k].want.ids)
                   THEN None ELSE s.ready[k]]
           v == [s EXCEPT !.preparing = P]
           c == [v EXCEPT !.ready = R]
<1>1. P \in Preparings
  <2>1. ASSUME NEW k \in Keys, s.preparing[k] # None PROVE Voided(s.preparing[k]) \in Tickets
    <3>1. s.preparing[k] \in Tickets
      BY <2>1, TypedFields
    <3> QED BY <3>1 DEF Tickets, Voided
  <2>2. \A k \in Keys : s.preparing[k] \in Tickets \cup {None}
    BY TypedFields
  <2> QED BY <2>1, <2>2 DEF Preparings
<1>2. R \in Readies
  BY TypedFields DEF Readies
<1> HIDE DEF P, R
<1>3. /\ v \in States /\ Frame(s, v) /\ SameWork(s, v) /\ SameTurn(s, v)
      /\ v.preparing = P /\ v.ready = s.ready
  BY <1>1 DEF States, Frame, SameWork, SameTurn
<1>4. v = VoidTickets(s)
  BY DEF VoidTickets, P
<1> HIDE DEF v
<1>5. /\ c \in States /\ Frame(v, c) /\ SameWork(v, c) /\ SameTurn(v, c)
      /\ c.preparing = P /\ c.ready = R
  BY <1>2, <1>3 DEF States, Frame, SameWork, SameTurn
<1>6. c = Checked(s)
  <2>1. R = [k \in Keys |->
               IF v.ready[k] # None
                  /\ (v.ready[k].late \/ ~Wanting(v, k) \/ v.candidate[k].task # v.ready[k].want.task
                      \/ v.candidate[k].ids # v.ready[k].want.ids)
               THEN None ELSE v.ready[k]]
    BY <1>3 DEF R, Frame, Wanting
  <2>2. c = DropHeld(v)
    BY <2>1 DEF DropHeld
  <2> QED BY <1>4, <2>2 DEF Checked
<1> HIDE DEF c
<1>7. Frame(s, c) /\ SameWork(s, c) /\ SameTurn(s, c)
  BY <1>3, <1>5 DEF Frame, SameWork, SameTurn
<1>8. ASSUME NEW k \in Keys
      PROVE  /\ c.preparing[k] = IF s.candidate[k] = Bad /\ s.preparing[k] # None
                                 THEN Voided(s.preparing[k]) ELSE s.preparing[k]
             /\ c.ready[k] \in {None, s.ready[k]} /\ Wanted(c, k)
  BY <1>5, <1>7 DEF P, R, Wanted, Wanting, Frame
<1> QED BY <1>5, <1>6, <1>7, <1>8

\* A key's act is the first of its list, or there is none.
LEMMA ActOf ==
  ASSUME NEW s \in States, NEW k \in Keys, NEW stages
  PROVE  /\ s.acts[k] = <<>> => Of(s, k, stages) = {}
         /\ s.acts[k] # <<>> =>
              /\ s.acts[k][1] \in Acts /\ s.acts[k] = <<s.acts[k][1]>> /\ DOMAIN s.acts[k] = {1}
              /\ Of(s, k, stages) = IF s.acts[k][1].at \in stages THEN {1} ELSE {}
<1>1. s.acts[k] = <<>> \/ \E a \in Acts : s.acts[k] = <<a>>
  BY TypedFields
<1>2. CASE s.acts[k] = <<>>
  <2>1. DOMAIN <<>> = {}
    OBVIOUS
  <2> QED BY <1>2, <2>1 DEF Of
<1>3. ASSUME NEW a \in Acts, s.acts[k] = <<a>>
      PROVE  /\ s.acts[k][1] = a /\ s.acts[k] # <<>> /\ DOMAIN s.acts[k] = {1}
             /\ Of(s, k, stages) = IF a.at \in stages THEN {1} ELSE {}
  <2> DEFINE list == s.acts[k]
  <2>1. DOMAIN <<a>> = {1} /\ <<a>>[1] = a /\ <<a>> # <<>>
    OBVIOUS
  <2>2. list = <<a>>
    BY <1>3
  <2>3. Of(s, k, stages) = {i \in DOMAIN list : list[i].at \in stages}
    BY DEF Of
  <2> HIDE DEF list
  <2>4. DOMAIN list = {1} /\ list[1] = a /\ list # <<>>
    BY <2>1, <2>2
  <2>5. Of(s, k, stages) = IF a.at \in stages THEN {1} ELSE {}
    BY <2>3, <2>4
  <2> QED BY <2>4, <2>5 DEF list
<1> QED BY <1>1, <1>2, <1>3

\* The reservations of a state are a number.
LEMMA ReservedIs ==
  ASSUME NEW s \in States
  PROVE  /\ Reserved(s) \in Nat /\ NumReservations(s) \in Nat
         /\ Cardinality(Unresolved(s)) \in Nat
<1> DEFINE n == Cardinality(Keys)
           U == Unresolved(s)
           upTo(i) == {p \in U : p[1] \in 0 .. i}
           T == {i \in 0 .. n : IsFiniteSet(upTo(i))}
<1>1. n \in Nat /\ Holders = 0 .. n
  BY ConstantsAre DEF Holders, Recovery
<1>2. \A h \in Holders : s.nonces[h].open \in Nat
  BY DEF States, Ledgers
<1>3. \A p \in U : \E h \in Holders : p \in {h} \X (1 .. s.nonces[h].open)
  BY DEF Unresolved
<1> HIDE DEF n, U
<1>4. ASSUME NEW h \in Holders PROVE IsFiniteSet({h} \X (1 .. s.nonces[h].open))
  <2> DEFINE o == s.nonces[h].open
  <2>0. o \in Int /\ 1 \in Int
    BY <1>2
  <2> HIDE DEF o
  <2>1. IsFiniteSet({h}) /\ IsFiniteSet(1 .. o)
    BY <2>0, FS_Singleton, FS_Interval
  <2> QED BY <2>1, FS_Product DEF o
<1>5. 0 \in T
  <2>1. 0 \in Holders /\ 0 \in 0 .. n
    BY <1>1
  <2>2. upTo(0) \subseteq {0} \X (1 .. s.nonces[0].open)
    BY <1>3
  <2>3. IsFiniteSet({0} \X (1 .. s.nonces[0].open))
    BY <1>4, <2>1
  <2> HIDE DEF upTo
  <2>4. IsFiniteSet(upTo(0))
    BY <2>2, <2>3, FS_Subset
  <2> QED BY <2>1, <2>4
<1>6. ASSUME NEW i \in 1 .. n, i - 1 \in T PROVE i \in T
  <2> DEFINE mine == {i} \X (1 .. s.nonces[i].open)
             before == upTo(i - 1)
  <2>1. i \in Holders /\ i \in 0 .. n
    BY <1>1
  <2>2. ASSUME NEW p \in upTo(i) PROVE p \in before \cup mine
    <3>1. PICK h \in Holders : p \in {h} \X (1 .. s.nonces[h].open)
      BY <1>3
    <3>2. p[1] = h /\ p \in U /\ p[1] \in 0 .. i
      BY <3>1
    <3>3. CASE h = i
      BY <3>1, <3>3
    <3>4. CASE h # i
      <4>1. p[1] \in 0 .. (i - 1)
        BY <3>2, <3>4
      <4> QED BY <3>2, <4>1
    <3> QED BY <3>3, <3>4
  <2>3. IsFiniteSet(before) /\ IsFiniteSet(mine)
    BY <1>4, <1>6, <2>1
  <2> HIDE DEF before, mine, upTo
  <2>4. IsFiniteSet(before \cup mine) /\ upTo(i) \subseteq before \cup mine
    BY <2>2, <2>3, FS_Union
  <2>5. IsFiniteSet(upTo(i))
    BY <2>4, FS_Subset
  <2> QED BY <2>1, <2>5
<1>7. IsFiniteSet(U)
  <2> HIDE DEF T
  <2>1. n \in T
    BY <1>1, <1>5, <1>6, UpTo
  <2>2. \A p \in U : p[1] \in 0 .. n
    BY <1>1, <1>3
  <2>3. U = upTo(n)
    BY <2>2
  <2> QED BY <2>1, <2>3 DEF T
<1>8. Cardinality(Unresolved(s)) \in Nat
  BY <1>7, FS_CardinalityType DEF U
<1>9. /\ Cardinality(Unlisted(s)) \in Nat
      /\ Cardinality(Held(s, "submitted")) \in Nat
  <2>1. Unlisted(s) \in SUBSET Keys /\ Held(s, "submitted") \in SUBSET Keys
    BY DEF Unlisted, Held
  <2> QED BY <2>1, CountIs
<1>10. Reserved(s) \in Nat
  BY <1>8, <1>9 DEF Reserved
<1> QED BY <1>8, <1>9, <1>10 DEF NumReservations

\* A key that is not busy has no act, and no transaction unresolved.
LEMMA NotBusy ==
  ASSUME NEW s \in States, NEW k \in Keys, OneAtATime(s, k), ~Busy(s, k)
  PROVE  s.acts[k] = <<>> /\ s.nonces[k].open = 0
<1>1. s.nonces[k].open = 0
  <2>1. s.nonces[k].open \in Nat /\ ~(s.nonces[k].open > 0)
    BY TypedFields DEF Busy
  <2> QED BY <2>1
<1>2. ASSUME s.acts[k] # <<>> PROVE FALSE
  <2>1. s.acts[k][1] \in Acts /\ s.acts[k][1].at \notin Executing \cup Compensated
        /\ s.submitted[k] = None
    BY <1>2, ActOf DEF Busy
  <2>2. s.acts[k][1].at = "sent"
    BY <2>1 DEF Acts
  <2> QED BY <1>2, <2>1, <2>2 DEF OneAtATime
<1> QED BY <1>1, <1>2

\* what submitting a key can do: it leaves, or what was ready is dropped, declined perhaps
Launches(s, e, k) ==
  LET r == s.ready[k] IN
  /\ ~Busy(s, k) /\ NumReservations(s) < MaxReservations /\ ~Unsubmittable(s, k, r)
  /\ e.submitted = [s.submitted EXCEPT ![k] = [task |-> r.want.task, current |-> r.current]]
  /\ s.acts[k] = <<>> /\ s.nonces[k].open = 0
  /\ e.acts = [s.acts EXCEPT ![k] =
       <<[at |-> "sent", task |-> r.want.task, ids |-> r.want.ids, rests |-> r.basis[2],
          left |-> 0, records |-> 0]>>]
  /\ e.declined = s.declined
Drops(s, e, k) ==
  LET r == s.ready[k] IN
  /\ e.submitted = s.submitted /\ e.acts = s.acts
  /\ e.declined \in {s.declined, [s.declined EXCEPT ![k][r.want.task] = r.basis]}

LEMMA SubmitIs ==
  ASSUME NEW s \in States, NEW k \in Keys, OneAtATime(s, k)
  PROVE  LET e == Submit(s, k) IN
         \/ e = s
         \/ /\ s.ready[k] # None /\ e.ready = [s.ready EXCEPT ![k] = None]
            /\ e \in States /\ Frame(s, e) /\ e.preparing = s.preparing /\ e.asked = s.asked
            /\ Launches(s, e, k) \/ Drops(s, e, k)
<1> DEFINE r == s.ready[k]
           stays == r = None \/ NumReservations(s) >= MaxReservations \/ Busy(s, k)
                    \/ IsBackedOff(s, k, r.want.task)
           act == [at |-> "sent", task |-> r.want.task, ids |-> r.want.ids, rests |-> r.basis[2],
                   left |-> 0, records |-> 0]
           note == [task |-> r.want.task, current |-> r.current]
           R == [s.ready EXCEPT ![k] = None]
           A == [s.acts EXCEPT ![k] = <<act>>]
           N == [s.submitted EXCEPT ![k] = note]
           D == [s.declined EXCEPT ![k][r.want.task] = r.basis]
           gone == [s EXCEPT !.ready = R, !.served = k, !.submitted = N, !.acts = A]
           dropped == [s EXCEPT !.ready = R]
           declined == [dropped EXCEPT !.declined = D]
           Fine(e) == e \in States /\ Frame(s, e) /\ e.preparing = s.preparing /\ e.asked = s.asked
                      /\ e.ready = R
<1>1. CASE stays
  BY <1>1 DEF Submit
<1> SUFFICES ASSUME ~stays
             PROVE  Fine(Submit(s, k)) /\ (Launches(s, Submit(s, k), k) \/ Drops(s, Submit(s, k), k))
  BY <1>1
<1>2. /\ r \in ReadyTickets /\ R \in Readies
  <2>1. s.ready \in Readies /\ s.ready[k] \in ReadyTickets \cup {None}
    BY TypedFields DEF States
  <2> QED BY <2>1 DEF Readies
<1>3. NumReservations(s) < MaxReservations
  <2> HIDE DEF stays
  <2>1. NumReservations(s) \in Nat /\ ~(NumReservations(s) >= MaxReservations)
    BY ReservedIs DEF stays
  <2> QED BY <2>1, ConstantsAre
<1>4. act \in Acts /\ note \in Notes /\ D \in Declines /\ N \in Sents
  <2>1. /\ r.want.task \in Tasks /\ r.want.task \in Slots /\ r.want.ids \in SUBSET AllIds
        /\ r.basis \in Prints /\ r.basis[2] \in Versions \cup {None} /\ r.current \in BOOLEAN
    BY <1>2, TicketIs
  <2> HIDE DEF r
  <2>2. act \in Acts /\ note \in Notes
    BY <2>1 DEF Acts, Notes
  <2>3. s.declined \in Declines /\ s.submitted \in Sents
    BY DEF States
  <2> HIDE DEF note
  <2> QED BY <2>1, <2>2, <2>3 DEF Declines, Sents
<1>5. CASE ~Unsubmittable(s, k, r)
  <2>1. s.acts[k] = <<>> /\ s.nonces[k].open = 0 /\ s.acts \in ActLists
    BY NotBusy DEF States
  <2>2. Append(s.acts[k], act) = <<act>>
    <3> HIDE DEF act
    <3>1. Append(<<>>, act) = <<act>>
      OBVIOUS
    <3> QED BY <2>1, <3>1, Zenon
  <2>3. Submit(s, k) = [s EXCEPT !.ready = R, !.served = k, !.submitted = N,
                                 !.acts = [s.acts EXCEPT ![k] = Append(s.acts[k], act)]]
    BY <1>5 DEF Submit, Submitted
  <2>4. Submit(s, k) = gone
    <3> HIDE DEF act, R, N
    <3> QED BY <2>2, <2>3, Zenon
  <2>5. A \in ActLists
    <3> HIDE DEF act
    <3> QED BY <1>4, <2>1 DEF ActLists
  <2>6. gone \in States /\ Frame(s, gone) /\ gone.preparing = s.preparing /\ gone.asked = s.asked
        /\ gone.ready = R /\ gone.submitted = N /\ gone.acts = A /\ gone.declined = s.declined
    <3> HIDE DEF R, A, N, stays, r
    <3> QED BY <1>2, <1>4, <2>5 DEF States, Frame
  <2>7. ~Busy(s, k) /\ r = s.ready[k]
    OBVIOUS
  <2> HIDE DEF gone, stays
  <2>8. Launches(s, gone, k)
    BY <1>3, <1>5, <2>1, <2>6, <2>7 DEF Launches
  <2> HIDE DEF A, N, D, act, note
  <2> QED BY <2>4, <2>6, <2>8, Zenon
<1>6. CASE Unsubmittable(s, k, r)
  <2>1. Submit(s, k) \in {dropped, declined}
    BY <1>6 DEF Submit, Declining
  <2> HIDE DEF R, D, stays
  <2>2. Fine(dropped) /\ Drops(s, dropped, k)
    BY <1>2 DEF States, Frame, Drops
  <2>3. Fine(declined) /\ Drops(s, declined, k)
    <3>1. declined.declined = D /\ Fine(declined) /\ declined.submitted = s.submitted
          /\ declined.acts = s.acts
      BY <1>2, <1>4 DEF States, Frame
    <3> QED BY <3>1 DEF Drops, D
  <2> QED BY <2>1, <2>2, <2>3
<1> QED BY <1>5, <1>6

\* what preparing a key can do: nothing, or ask for it within the caps
Asks(s, e, k) ==
  /\ ~Full(s) /\ Preparable(s, k) /\ e.ready = s.ready
  /\ e.asked = s.asked \cup {k}
  /\ e.preparing = [s.preparing EXCEPT ![k] =
       [want |-> s.candidate[k], basis |-> Fingerprint(s, k), void |-> FALSE,
        expiry |-> s.fact[k].expiry, current |-> TRUE]]

LEMMA PrepareIs ==
  ASSUME NEW s \in States, NEW k \in Keys
  PROVE  LET e == Prepare(s, k) IN
         \/ e = s
         \/ e \in States /\ Frame(s, e) /\ SameWork(s, e) /\ Asks(s, e, k)
<1> DEFINE ticket == [want |-> s.candidate[k], basis |-> Fingerprint(s, k), void |-> FALSE,
                      expiry |-> s.fact[k].expiry, current |-> TRUE]
           P == [s.preparing EXCEPT ![k] = ticket]
           out == [s EXCEPT !.served = k, !.asked = s.asked \cup {k}, !.preparing = P]
<1>1. CASE Full(s) \/ ~Preparable(s, k)
  BY <1>1 DEF Prepare
<1>2. CASE ~Full(s) /\ Preparable(s, k)
  <2>1. Prepare(s, k) = out
    BY <1>2 DEF Prepare
  <2>2. /\ s.candidate[k] \in Wants /\ s.fact[k] \in Readings
        /\ Fingerprint(s, k) \in Wants \X (Versions \cup {None}) \X Inputs
    BY <1>2, FingerprintIs, TypedFields DEF Preparable, Wanting
  <2>3. ticket \in Tickets
    <3>1. s.fact[k].expiry \in Until
      BY <2>2 DEF Readings
    <3> QED BY <2>2, <3>1 DEF Tickets
  <2> HIDE DEF ticket
  <2>4. P \in Preparings
    <3>1. s.preparing \in Preparings
      BY DEF States
    <3> QED BY <2>3, <3>1 DEF Preparings
  <2> HIDE DEF P
  <2>5. out \in States /\ Frame(s, out) /\ SameWork(s, out) /\ out.ready = s.ready
        /\ out.asked = s.asked \cup {k} /\ out.preparing = P
    BY <2>4 DEF States, Frame, SameWork
  <2> HIDE DEF out
  <2>6. Asks(s, out, k)
    BY <1>2, <2>5 DEF Asks, P, ticket
  <2> QED BY <2>1, <2>5, <2>6
<1> QED BY <1>1, <1>2

-----------------------------------------------------------------------------
(* The decision keeps what is sound.                                       *)

\* The keys that count are keys.
LEMMA HeldAre ==
  ASSUME NEW s
  PROVE  /\ Held(s, "preparing") \in SUBSET Keys /\ Held(s, "ready") \in SUBSET Keys
         /\ Held(s, "submitted") \in SUBSET Keys /\ Cardinality(Held(s, "preparing")) \in Nat
         /\ Cardinality(Held(s, "ready")) \in Nat /\ Cardinality(Held(s, "submitted")) \in Nat
<1>1. /\ Held(s, "preparing") \in SUBSET Keys /\ Held(s, "ready") \in SUBSET Keys
      /\ Held(s, "submitted") \in SUBSET Keys
  BY DEF Held
<1> QED BY <1>1, CountIs

\* What is on its way, in the kernel and unresolved are what reservations are counted of.
LEMMA SameReserved ==
  ASSUME NEW s, NEW e, e.acts = s.acts, e.nonces = s.nonces
  PROVE  Reserved(e) = Reserved(s)
<1>1. Unresolved(e) = Unresolved(s)
  BY DEF Unresolved
<1>2. Unlisted(e) = Unlisted(s)
  BY DEF Unlisted, Of
<1> QED BY <1>1, <1>2 DEF Reserved

LEMMA SameNumber ==
  ASSUME NEW s, NEW e, e.acts = s.acts, e.nonces = s.nonces, e.submitted = s.submitted
  PROVE  NumReservations(e) = NumReservations(s)
<1>1. Reserved(e) = Reserved(s)
  BY SameReserved
<1>2. Held(e, "submitted") = Held(s, "submitted")
  BY DEF Held
<1> QED BY <1>1, <1>2 DEF NumReservations

\* An act that leaves reserves once, as what the family knows it sent.
LEMMA NumberSent ==
  ASSUME NEW s \in States, NEW e \in States, NEW k \in Keys, e.nonces = s.nonces,
         \A j \in Keys \ {k} : e.acts[j] = s.acts[j] /\ e.submitted[j] = s.submitted[j],
         e.acts[k] # <<>>, e.acts[k][1].at = "sent", NumReservations(s) < MaxReservations
  PROVE  NumReservations(e) <= MaxReservations
<1>1. Unresolved(e) = Unresolved(s)
  BY DEF Unresolved
<1>2. Unlisted(e) \subseteq Unlisted(s)
  <2> SUFFICES ASSUME NEW j \in Unlisted(e) PROVE j \in Unlisted(s)
    OBVIOUS
  <2>1. j \in Keys /\ Of(e, j, {"admitted", "between"}) # {}
    BY DEF Unlisted
  <2>2. j # k
    <3>1. Of(e, k, {"admitted", "between"}) = {}
      BY ActOf
    <3> QED BY <2>1, <3>1
  <2>3. e.acts[j] = s.acts[j]
    BY <2>1, <2>2
  <2> QED BY <2>1, <2>3 DEF Unlisted, Of
<1>3. Cardinality(Unlisted(e)) <= Cardinality(Unlisted(s)) /\ Cardinality(Unlisted(s)) \in Nat
      /\ Cardinality(Unlisted(e)) \in Nat
  <2>1. Unlisted(s) \in SUBSET Keys /\ Unlisted(e) \in SUBSET Keys
    BY DEF Unlisted
  <2> QED BY <1>2, <2>1, FewerCount, CountIs
<1> DEFINE W == Held(s, "submitted")
           X == Held(e, "submitted")
<1>4. Cardinality(X) <= Cardinality(W) + 1 /\ Cardinality(X) \in Nat /\ Cardinality(W) \in Nat
  <2>1. X \subseteq W \cup {k}
    BY DEF Held
  <2>2. W \in SUBSET Keys /\ W \cup {k} \in SUBSET Keys /\ Cardinality(X) \in Nat
        /\ Cardinality(W) \in Nat
    BY HeldAre
  <2> HIDE DEF X, W
  <2>3. Cardinality(X) <= Cardinality(W \cup {k}) /\ Cardinality(W \cup {k}) \in Nat
    BY <2>1, <2>2, FewerCount, CountIs
  <2>4. Cardinality(W \cup {k}) <= Cardinality(W) + 1
    BY <2>2, OneMore
  <2> QED BY <2>2, <2>3, <2>4
<1> DEFINE u == Cardinality(Unresolved(s))
           n == Cardinality(Unlisted(s))
           m == Cardinality(Unlisted(e))
           w == Cardinality(W)
           x == Cardinality(X)
<1>5. /\ NumReservations(s) = (u + n) + w /\ NumReservations(e) = (u + m) + x
      /\ Reserved(s) = u + n
  BY <1>1 DEF NumReservations, Reserved
<1>6. NumReservations(s) \in Nat /\ NumReservations(e) \in Nat /\ MaxReservations \in Nat
      /\ Reserved(s) \in Nat
  BY ReservedIs, ConstantsAre
<1>7. u \in Nat
  BY ReservedIs
<1>8. m <= n /\ x <= w + 1 /\ {n, m, w, x, u} \subseteq Nat
  BY <1>3, <1>4, <1>7
<1> HIDE DEF u, n, m, w, x
<1> QED BY <1>5, <1>6, <1>8

\* Within the caps of prepareNext there is room for one more.
LEMMA CountedAsked ==
  ASSUME NEW s \in States, NEW e, NEW k \in Keys, ~Full(s),
         NumReservations(e) = NumReservations(s), Held(e, "ready") = Held(s, "ready"),
         Held(e, "preparing") \subseteq Held(s, "preparing") \cup {k}
  PROVE  Counted(e)
<1>1. Cardinality(Held(e, "preparing")) <= Cardinality(Held(s, "preparing")) + 1
  <2>1. Held(s, "preparing") \cup {k} \in SUBSET Keys
    BY HeldAre
  <2>2. /\ Cardinality(Held(e, "preparing")) <= Cardinality(Held(s, "preparing") \cup {k})
        /\ Cardinality(Held(s, "preparing") \cup {k}) <= Cardinality(Held(s, "preparing")) + 1
        /\ Cardinality(Held(s, "preparing") \cup {k}) \in Nat
    BY <2>1, HeldAre, FewerCount, OneMore, CountIs
  <2> QED BY <2>2, HeldAre
<1> DEFINE ps == Cardinality(Held(s, "preparing"))
           rs == Cardinality(Held(s, "ready"))
           n == NumReservations(s)
           pe == Cardinality(Held(e, "preparing"))
<1>2. {ps, rs, n, pe, MaxReservations} \subseteq Nat
  BY ReservedIs, HeldAre, ConstantsAre
<1>3. ~(n + ps + rs >= MaxReservations) /\ pe <= ps + 1
  BY <1>1 DEF Full
<1>4. NumReservations(e) = n /\ Cardinality(Held(e, "ready")) = rs
  OBVIOUS
<1> HIDE DEF ps, rs, n, pe
<1>5. n + pe + rs <= MaxReservations
  BY <1>2, <1>3
<1> QED BY <1>4, <1>5 DEF Counted, pe

\* A decision leaves the fingerprints as they are.
LEMMA FramePrints ==
  ASSUME NEW s, NEW e, Frame(s, e), NEW k
  PROVE  Fingerprint(e, k) = Fingerprint(s, k) /\ Wanting(e, k) = Wanting(s, k)
BY DEF Frame, Fingerprint, Reads, Wanting

\* what the checks make of a sound state, and what each pass over the keys leaves of it
Checks(s, c, shut) ==
  /\ Sound(c, c, shut \cup {j \in Keys : s.candidate[j] = Bad}) /\ Frame(s, c) /\ SameWork(s, c)
  /\ c.asked = s.asked
  /\ \A k \in Keys :
       /\ Wanted(c, k) /\ c.ready[k] \in {None, s.ready[k]}
       /\ c.preparing[k] = None <=> s.preparing[k] = None
       /\ s.preparing[k] # None /\ s.preparing[k].void => c.preparing[k].void

\* The checks drop what may not go on, and void what a failed policy was preparing.
LEMMA CheckedKeeps ==
  ASSUME NEW s, NEW shut \in SUBSET Keys, Sound(s, s, shut), s.asked = {}
  PROVE  Checks(s, Checked(s), shut)
<1> DEFINE c == Checked(s)
           bad == {j \in Keys : s.candidate[j] = Bad}
<1>1. /\ c \in States /\ Frame(s, c) /\ SameWork(s, c) /\ SameTurn(s, c)
      /\ \A k \in Keys :
           /\ c.preparing[k] = IF s.candidate[k] = Bad /\ s.preparing[k] # None
                               THEN Voided(s.preparing[k]) ELSE s.preparing[k]
           /\ c.ready[k] \in {None, s.ready[k]}
           /\ Wanted(c, k)
  BY CheckedIs DEF Sound
<1> HIDE DEF c
<1>2. ASSUME NEW k \in Keys, s.preparing[k] # None
      PROVE  /\ Voided(s.preparing[k]) # None /\ Voided(s.preparing[k]).want = s.preparing[k].want
             /\ Voided(s.preparing[k]).void
  <2>1. s.preparing[k] \in Tickets
    BY <1>2, TypedFields DEF Sound
  <2> DEFINE p == s.preparing[k]
  <2> HIDE DEF p
  <2>2. p \in Tickets => Voided(p) \in Tickets /\ Voided(p).want = p.want /\ Voided(p).void = TRUE
    BY DEF Voided, Tickets
  <2>3. Voided(p) \in Tickets /\ Voided(p).want = p.want /\ Voided(p).void
    BY <2>1, <2>2 DEF p
  <2> QED BY <2>3, ConstantsAre DEF p
<1>3. ASSUME NEW k \in Keys
      PROVE  /\ c.preparing[k] = None <=> s.preparing[k] = None
             /\ s.preparing[k] # None => c.preparing[k].want = s.preparing[k].want
             /\ s.preparing[k] # None /\ (s.preparing[k].void \/ k \in bad) => c.preparing[k].void
  BY <1>1, <1>2
<1>4. Counted(c)
  BY <1>1 DEF Counted, SameTurn
<1>5. Shut(c, shut \cup bad)
  <2> SUFFICES ASSUME NEW k \in (shut \cup bad) \ c.asked
               PROVE  c.ready[k] = None /\ (c.preparing[k] # None => c.preparing[k].void)
    BY DEF Shut
  <2>1. k \in Keys /\ k \notin s.asked
    BY <1>1 DEF SameTurn
  <2>2. CASE k \in shut
    <3>1. s.ready[k] = None /\ (s.preparing[k] # None => s.preparing[k].void)
      BY <2>1, <2>2 DEF Sound, Shut
    <3> QED BY <1>1, <1>3, <2>1, <3>1
  <2>3. CASE k \in bad
    <3>1. c.candidate[k] = Bad
      BY <1>1, <2>3 DEF Frame
    <3>2. ~Wanting(c, k)
      BY <3>1, ConstantsAre DEF Wanting
    <3> QED BY <1>1, <1>3, <2>1, <2>3, <3>2 DEF Wanted
  <2> QED BY <2>2, <2>3
<1>6. ASSUME NEW k \in Keys
      PROVE  OneAtATime(c, k) /\ Remembered(c, k, Fingerprint(c, k)) /\ Waiting(c, k)
  <2>1. OneAtATime(s, k) /\ Remembered(s, k, Fingerprint(s, k)) /\ Waiting(s, k)
    BY DEF Sound
  <2>2. Fingerprint(c, k) = Fingerprint(s, k)
    BY <1>1, FramePrints
  <2>3. OneAtATime(c, k)
    BY <1>1, <1>3, <2>1 DEF OneAtATime, SameWork
  <2>4. Remembered(c, k, Fingerprint(c, k))
    BY <1>1, <1>3, <2>1, <2>2 DEF Remembered, SameWork, Frame
  <2>5. Waiting(c, k)
    BY <1>1, <2>1 DEF Waiting, Frame
  <2> QED BY <2>3, <2>4, <2>5
<1>7. Sound(c, c, shut \cup bad)
  BY <1>1, <1>4, <1>5, <1>6 DEF Sound
<1> QED BY <1>1, <1>3, <1>7 DEF Checks, SameTurn, c

\* an act of k that the pass sent: for what is asked, resting on what the fact still reads
Parted(c, e, k) ==
  /\ c.acts[k] = <<>> /\ c.nonces[k].open = 0 /\ c.ready[k] # None /\ e.acts[k] # <<>>
  /\ Wanting(c, k)
  /\ e.acts[k] = <<e.acts[k][1]>>
  /\ e.acts[k][1].task = c.candidate[k].task /\ e.acts[k][1].ids = c.candidate[k].ids
  /\ c.fact[k] # None /\ c.fact[k].version = e.acts[k][1].rests
Sending(c, e, shut) ==
  /\ Sound(e, e, shut) /\ Frame(c, e) /\ e.preparing = c.preparing /\ e.asked = {}
  /\ e.acts = c.acts \/ NumReservations(e) <= MaxReservations
  /\ \A k \in Keys :
       /\ Wanted(e, k) /\ e.ready[k] \in {None, c.ready[k]}
       /\ e.acts[k] = c.acts[k] \/ Parted(c, e, k)

\* A key's turn to submit keeps what is sound.
LEMMA SubmitKeeps ==
  ASSUME NEW c, NEW s, NEW shut, Sending(c, s, shut), NEW k \in Keys
  PROVE  Sending(c, Submit(s, k), shut)
<1> DEFINE e == Submit(s, k)
           r == s.ready[k]
<1>1. /\ s \in States /\ Sound(s, s, shut) /\ Frame(c, s)
      /\ \A j \in Keys : OneAtATime(s, j) /\ Remembered(s, j, Fingerprint(s, j)) /\ Waiting(s, j)
      /\ Counted(s) /\ Shut(s, shut)
  BY DEF Sending, Sound
<1>2. CASE e = s
  BY <1>2
<1>3. CASE /\ s.ready[k] # None /\ e.ready = [s.ready EXCEPT ![k] = None]
           /\ e \in States /\ Frame(s, e) /\ e.preparing = s.preparing /\ e.asked = s.asked
           /\ Launches(s, e, k) \/ Drops(s, e, k)
  <2> HIDE DEF e
  <2>1. /\ DOMAIN s.ready = Keys /\ DOMAIN s.submitted = Keys /\ DOMAIN s.acts = Keys
        /\ DOMAIN s.declined = Keys /\ DOMAIN s.declined[k] = Tasks
    BY <1>1 DEF States, Readies, Sents, ActLists, Declines
  <2>2. e.ready[k] = None /\ \A j \in Keys \ {k} : e.ready[j] = s.ready[j]
    BY <1>3, <2>1
  <2>3. /\ \A j \in Keys \ {k} : /\ e.acts[j] = s.acts[j] /\ e.submitted[j] = s.submitted[j]
                                 /\ e.declined[j] = s.declined[j]
        /\ \A t \in Tasks : e.declined[k][t] = s.declined[k][t] \/ t = r.want.task
    BY <1>3, <2>1 DEF Launches, Drops
  <2>4. r \in ReadyTickets /\ r.want.task \in Tasks
    <3>1. r \in ReadyTickets
      BY <1>1, <1>3, TypedFields
    <3> HIDE DEF r
    <3> QED BY <3>1, TicketIs
  <2>5. \/ e.acts[k] = s.acts[k] /\ e.submitted[k] = s.submitted[k]
        \/ /\ s.acts[k] = <<>> /\ s.nonces[k].open = 0 /\ ~Unsubmittable(s, k, r)
           /\ e.submitted[k] # None
           /\ e.acts[k] # <<>> /\ e.acts[k] = <<e.acts[k][1]>>
           /\ e.acts[k][1].at = "sent" /\ e.acts[k][1].task = r.want.task
           /\ e.acts[k][1].ids = r.want.ids /\ e.acts[k][1].rests = r.basis[2]
    <3>1. CASE Drops(s, e, k)
      BY <3>1 DEF Drops
    <3>2. CASE Launches(s, e, k)
      <4> DEFINE act == [at |-> "sent", task |-> r.want.task, ids |-> r.want.ids,
                         rests |-> r.basis[2], left |-> 0, records |-> 0]
                 note == [task |-> r.want.task, current |-> r.current]
      <4>1. /\ s.acts[k] = <<>> /\ s.nonces[k].open = 0 /\ ~Unsubmittable(s, k, r)
            /\ e.submitted[k] = note /\ e.acts[k] = <<act>>
        BY <2>1, <3>2 DEF Launches
      <4>2. note # None
        <5>1. r.current \in BOOLEAN
          BY <2>4, TicketIs
        <5>2. note \in Notes
          BY <2>4, <5>1 DEF Notes
        <5> QED BY <5>2, ConstantsAre
      <4>3. <<act>> # <<>> /\ <<act>>[1] = act
        <5> HIDE DEF act
        <5> QED OBVIOUS
      <4>4. e.acts[k] # <<>> /\ e.acts[k] = <<e.acts[k][1]>> /\ e.acts[k][1] = act
        <5> HIDE DEF act
        <5> QED BY <4>1, <4>3, Zenon
      <4> HIDE DEF r
      <4> QED BY <4>1, <4>2, <4>4
    <3> QED BY <1>3, <3>1, <3>2
  <2>6. Counted(e) /\ e.asked = {}
    BY <1>1, <1>3 DEF Counted, Sending
  <2>7. Shut(e, shut)
    BY <1>1, <1>3, <2>2 DEF Shut
  <2>8. ASSUME NEW j \in Keys
        PROVE  OneAtATime(e, j) /\ Remembered(e, j, Fingerprint(e, j)) /\ Waiting(e, j)
    <3>1. OneAtATime(s, j) /\ Remembered(s, j, Fingerprint(s, j)) /\ Waiting(s, j)
      BY <1>1
    <3>2. Fingerprint(e, j) = Fingerprint(s, j)
      BY <1>3, FramePrints
    <3>3. OneAtATime(e, j)
      BY <1>3, <2>2, <2>3, <2>5, <3>1 DEF OneAtATime
    <3>4. Remembered(e, j, Fingerprint(e, j))
      <4>1. /\ e.ended = s.ended /\ e.stale = s.stale /\ e.preparing = s.preparing
            /\ e.ready[j] \in {None, s.ready[j]}
        BY <1>3, <2>2 DEF Frame
      <4>2. ASSUME NEW t \in Tasks, s.ended[j][t] = "declined"
            PROVE  e.declined[j][t] = Fingerprint(s, j)
        <5>1. s.declined[j][t] = Fingerprint(s, j)
          BY <3>1, <4>2 DEF Remembered
        <5>2. e.declined[j][t] = s.declined[j][t]
          BY <1>3, <2>3, <3>1, <4>2 DEF Remembered
        <5> QED BY <5>1, <5>2
      <4> QED BY <3>1, <3>2, <4>1, <4>2 DEF Remembered
    <3>5. Waiting(e, j)
      BY <1>3, <3>1 DEF Waiting, Frame
    <3> QED BY <3>3, <3>4, <3>5
  <2>9. Sound(e, e, shut)
    BY <1>3, <2>6, <2>7, <2>8 DEF Sound
  <2>10. Frame(c, e) /\ e.preparing = c.preparing
    BY <1>1, <1>3 DEF Frame, Sending
  <2>12. e.acts = c.acts \/ NumReservations(e) <= MaxReservations
    <3>1. CASE e.acts[k] = s.acts[k] /\ e.submitted[k] = s.submitted[k]
      <4>1. e.acts = s.acts /\ e.submitted = s.submitted
        <5>1. e.acts \in ActLists /\ s.acts \in ActLists /\ e.submitted \in Sents
              /\ s.submitted \in Sents
          BY <1>1, <1>3 DEF States
        <5> QED BY <2>3, <3>1, <5>1 DEF ActLists, Sents
      <4>2. NumReservations(e) = NumReservations(s)
        BY <1>3, <4>1, SameNumber DEF Frame
      <4> QED BY <4>1, <4>2 DEF Sending
    <3>2. CASE s.acts[k] = <<>> /\ e.acts[k] # <<>> /\ e.acts[k][1].at = "sent"
      <4>1. NumReservations(s) < MaxReservations /\ e.nonces = s.nonces
        BY <1>3, <3>2 DEF Launches, Drops, Frame
      <4>2. NumReservations(e) <= MaxReservations
        BY <1>1, <1>3, <2>3, <3>2, <4>1, NumberSent
      <4> QED BY <4>2
    <3> QED BY <2>5, <3>1, <3>2
  <2>11. ASSUME NEW j \in Keys
         PROVE  /\ Wanted(e, j) /\ e.ready[j] \in {None, c.ready[j]}
                /\ e.acts[j] = c.acts[j] \/ Parted(c, e, j)
    <3>1. /\ Wanted(s, j) /\ s.ready[j] \in {None, c.ready[j]}
          /\ s.acts[j] = c.acts[j] \/ Parted(c, s, j)
      BY DEF Sending
    <3>2. Wanted(e, j) /\ e.ready[j] \in {None, c.ready[j]}
      BY <1>3, <2>2, <3>1 DEF Wanted, Wanting, Frame
    <3>3. CASE e.acts[j] = s.acts[j]
      BY <3>1, <3>2, <3>3 DEF Parted
    <3>4. CASE e.acts[j] # s.acts[j]
      <4>1. j = k /\ s.acts[k] = <<>> /\ s.nonces[k].open = 0 /\ ~Unsubmittable(s, k, r)
            /\ e.acts[k] # <<>> /\ e.acts[k] = <<e.acts[k][1]>> /\ e.acts[k][1].task = r.want.task
            /\ e.acts[k][1].ids = r.want.ids /\ e.acts[k][1].rests = r.basis[2]
        BY <2>3, <2>5, <3>4
      <4>2. s.fact[k] # None /\ s.fact[k].version = r.basis[2]
        BY <4>1 DEF Unsubmittable
      <4>3. Wanting(s, k) /\ s.candidate[k].task = r.want.task /\ s.candidate[k].ids = r.want.ids
        BY <1>3, <3>1, <4>1 DEF Wanted
      <4>4. c.ready[k] # None /\ c.acts[k] = <<>>
        BY <1>3, <3>1, <4>1 DEF Parted
      <4> HIDE DEF r
      <4>5. Parted(c, e, k)
        BY <1>1, <4>1, <4>2, <4>3, <4>4 DEF Parted, Frame, Wanting
      <4> QED BY <3>2, <4>1, <4>5
    <3> QED BY <3>3, <3>4
  <2> QED BY <2>6, <2>9, <2>10, <2>11, <2>12 DEF Sending, e
<1> QED BY <1>1, <1>2, <1>3, SubmitIs

\* So does the pass over the keys, in whatever order.
LEMMA SubmitsKeep ==
  ASSUME NEW c, NEW shut, Sending(c, c, shut), NEW order \in [Keys -> Keys],
         NEW e \in Submits(c, order)
  PROVE  Sending(c, e, shut)
<1> DEFINE n == Cardinality(Keys)
           S == SUBSET {s \in States : Sending(c, s, shut)}
           step == [p \in S \X (1 .. n) |-> {Submit(s, order[p[2]]) : s \in p[1]}]
           after == CHOOSE f : f = [k \in 0 .. n |-> IF k = 0 THEN {c}
                                      ELSE {Submit(s, order[k]) : s \in f[k - 1]}]
<1>1. n \in Nat /\ Keys = 1 .. n
  BY ConstantsAre
<1>2. {c} \in S
  BY DEF Sending, Sound
<1>3. step \in [S \X (1 .. n) -> S]
  <2>1. ASSUME NEW X \in S, NEW i \in 1 .. n PROVE {Submit(s, order[i]) : s \in X} \in S
    <3>1. order[i] \in Keys
      BY <1>1
    <3>2. ASSUME NEW s \in X PROVE Submit(s, order[i]) \in States /\ Sending(c, Submit(s, order[i]), shut)
      <4>1. Sending(c, s, shut)
        OBVIOUS
      <4>2. Sending(c, Submit(s, order[i]), shut)
        BY <3>1, <4>1, SubmitKeeps
      <4>3. Submit(s, order[i]) \in States
        BY <4>2 DEF Sending, Sound
      <4> QED BY <4>2, <4>3
    <3> QED BY <3>2
  <2> HIDE DEF S, n
  <2> QED BY <2>1
<1>4. PICK g : Steps(g, n, S, {c}, step)
  <2> HIDE DEF n, S, step
  <2> QED BY <1>1, <1>2, <1>3, StepByStep
<1>5. /\ g \in [0 .. n -> S] /\ g[0] = {c}
      /\ \A i \in 1 .. n : g[i] = step[<<g[i - 1], i>>]
  <2> HIDE DEF step, S
  <2> QED BY <1>4 DEF Steps
<1>6. \A i \in 1 .. n : g[i] = {Submit(s, order[i]) : s \in g[i - 1]}
  <2>1. ASSUME NEW i \in 1 .. n PROVE g[i - 1] \in S
    <3>1. i - 1 \in 0 .. n
      BY <1>1
    <3> HIDE DEF S, n
    <3> QED BY <1>5, <3>1
  <2>2. \A i \in 1 .. n : step[<<g[i - 1], i>>] = {Submit(s, order[i]) : s \in g[i - 1]}
    <3> HIDE DEF S, n
    <3> QED BY <2>1
  <2> HIDE DEF step, S
  <2> QED BY <1>5, <2>2
<1>7. g = [i \in 0 .. n |-> IF i = 0 THEN {c} ELSE {Submit(s, order[i]) : s \in g[i - 1]}]
  <2>1. \A i \in 0 .. n : i # 0 => i \in 1 .. n
    BY <1>1
  <2> HIDE DEF n, S, step
  <2>2. \A i \in 0 .. n : g[i] = IF i = 0 THEN {c} ELSE {Submit(s, order[i]) : s \in g[i - 1]}
    BY <1>5, <1>6, <2>1
  <2> QED BY <1>5, <2>2
<1>8. after = [i \in 0 .. n |-> IF i = 0 THEN {c} ELSE {Submit(s, order[i]) : s \in after[i - 1]}]
  <2> HIDE DEF n
  <2> QED BY <1>7
<1>9. c.accepting => e \in after[n]
  BY DEF Submits, InTurn
<1>10. \A i \in 0 .. n : after[i] = g[i]
  <2> HIDE DEF after, n, S, step
  <2> DEFINE T == {i \in 0 .. n : after[i] = g[i]}
  <2>1. 0 \in T
    <3>1. 0 \in 0 .. n
      BY <1>1
    <3> QED BY <1>7, <1>8, <3>1
  <2>2. ASSUME NEW i \in 1 .. n, i - 1 \in T PROVE i \in T
    <3>1. i \in 0 .. n /\ i # 0
      BY <1>1
    <3> QED BY <1>7, <1>8, <2>2, <3>1
  <2> HIDE DEF T
  <2>3. \A i \in 0 .. n : i \in T
    BY <1>1, <2>1, <2>2, UpTo
  <2> QED BY <2>3 DEF T
<1>11. after[n] \in S
  <2>1. n \in 0 .. n
    BY <1>1
  <2> HIDE DEF after, n, S
  <2> QED BY <1>5, <1>10, <2>1
<1> HIDE DEF after
<1>12. CASE c.accepting
  BY <1>9, <1>11, <1>12
<1>13. CASE ~c.accepting
  BY <1>13 DEF Submits
<1> QED BY <1>12, <1>13

\* a key the pass asks to be prepared: what came to nothing is not asked again as it was
Ripe(s, k) ==
  LET task == s.candidate[k].task IN
  /\ Wanting(s, k) /\ s.ended[k][task] = "no"
  /\ \A slot \in {task, Untasked} : s.due[k][slot].age >= s.due[k][slot].wait
Asking(c, e, shut) ==
  /\ Sound(e, e, shut) /\ Frame(c, e) /\ SameWork(c, e) /\ e.ready = c.ready
  /\ \A k \in Keys : IF k \in e.asked THEN Ripe(c, k) ELSE e.preparing[k] = c.preparing[k]

\* What is preparable is ripe.
LEMMA PreparableRipe ==
  ASSUME NEW s \in States, NEW k \in Keys, Preparable(s, k),
         Remembered(s, k, Fingerprint(s, k)), Waiting(s, k)
  PROVE  Ripe(s, k)
<1> DEFINE task == s.candidate[k].task
<1>1. s.candidate[k] \in Wants /\ task \in Tasks /\ task \in Slots /\ Untasked \in Slots
  BY DEF Preparable, Wanting, Tasks, Slots
<1>2. s.declined[k][task] # Fingerprint(s, k) /\ task \notin s.stale[k] /\ ~IsBackedOff(s, k, task)
  BY DEF Preparable
<1> HIDE DEF task
<1>3. s.ended[k][task] = "no"
  <2>1. s.ended[k][task] \in {"no", "declined", "stale"}
    BY <1>1, TypedFields
  <2> QED BY <1>1, <1>2, <2>1 DEF Remembered
<1>4. ASSUME NEW slot \in {task, Untasked} PROVE s.due[k][slot].age >= s.due[k][slot].wait
  <2> DEFINE entry == s.backoff[k][slot]
             d == s.due[k][slot]
  <2>1. slot \in Slots /\ ~(entry.left > 0)
    BY <1>1, <1>2 DEF IsBackedOff
  <2>2. Paced(entry, d) /\ entry \in Entries /\ d \in [wait : Nat, age : Nat]
    BY <2>1, TypedFields DEF Waiting
  <2> HIDE DEF entry, d
  <2>3. d.wait \in Nat /\ d.age \in Nat /\ entry.left \in Int
    BY <2>2, ConstantsAre DEF Entries
  <2>4. d.age >= d.wait
    BY <2>1, <2>2, <2>3 DEF Paced
  <2> QED BY <2>4 DEF d
<1> QED BY <1>1, <1>3, <1>4 DEF Ripe, Wanting, task

\* A key's turn to prepare keeps what is sound.
LEMMA PrepareKeeps ==
  ASSUME NEW c, NEW s, NEW shut, Asking(c, s, shut), NEW k \in Keys
  PROVE  Asking(c, Prepare(s, k), shut)
<1> DEFINE e == Prepare(s, k)
<1>1. /\ s \in States /\ Sound(s, s, shut) /\ Frame(c, s) /\ Counted(s) /\ Shut(s, shut)
      /\ \A j \in Keys : OneAtATime(s, j) /\ Remembered(s, j, Fingerprint(s, j)) /\ Waiting(s, j)
  BY DEF Asking, Sound
<1>2. CASE e = s
  BY <1>2
<1>3. CASE e \in States /\ Frame(s, e) /\ SameWork(s, e) /\ Asks(s, e, k)
  <2> HIDE DEF e
  <2> DEFINE ticket == [want |-> s.candidate[k], basis |-> Fingerprint(s, k), void |-> FALSE,
                        expiry |-> s.fact[k].expiry, current |-> TRUE]
  <2>1. /\ ~Full(s) /\ Preparable(s, k) /\ e.ready = s.ready /\ e.asked = s.asked \cup {k}
        /\ e.preparing = [s.preparing EXCEPT ![k] = ticket]
    BY <1>3 DEF Asks
  <2>2. ticket.want = s.candidate[k]
    OBVIOUS
  <2> HIDE DEF ticket
  <2>3. e.preparing[k] = ticket /\ \A j \in Keys \ {k} : e.preparing[j] = s.preparing[j]
    <3>1. DOMAIN s.preparing = Keys
      BY <1>1 DEF States, Preparings
    <3> QED BY <2>1, <3>1
  <2>4. Ripe(s, k)
    BY <1>1, <2>1, PreparableRipe
  <2>5. Counted(e)
    <3>1. NumReservations(e) = NumReservations(s)
      BY <1>3, SameNumber DEF Frame, SameWork
    <3>2. Held(e, "ready") = Held(s, "ready")
          /\ Held(e, "preparing") \subseteq Held(s, "preparing") \cup {k}
      BY <2>1, <2>3 DEF Held
    <3> QED BY <1>1, <2>1, <3>1, <3>2, CountedAsked
  <2>6. Shut(e, shut)
    BY <1>1, <2>1, <2>3 DEF Shut
  <2>7. ASSUME NEW j \in Keys
        PROVE  OneAtATime(e, j) /\ Remembered(e, j, Fingerprint(e, j)) /\ Waiting(e, j)
    <3>1. OneAtATime(s, j) /\ Remembered(s, j, Fingerprint(s, j)) /\ Waiting(s, j)
      BY <1>1
    <3>2. Fingerprint(e, j) = Fingerprint(s, j)
      BY <1>3, FramePrints
    <3>3. OneAtATime(e, j)
      <4>1. s.ready[k] = None
        BY <2>1 DEF Preparable
      <4> QED BY <1>3, <2>1, <2>3, <3>1, <4>1 DEF OneAtATime, SameWork
    <3>4. Remembered(e, j, Fingerprint(e, j))
      <4>1. e.ended = s.ended /\ e.stale = s.stale /\ e.declined = s.declined
        BY <1>3 DEF Frame, SameWork
      <4>2. e.preparing[j] # None => e.ended[j][e.preparing[j].want.task] # "declined"
        <5>1. CASE j = k
          BY <2>2, <2>3, <2>4, <4>1, <5>1 DEF Ripe
        <5>2. CASE j # k
          BY <2>3, <3>1, <4>1, <5>2 DEF Remembered
        <5> QED BY <5>1, <5>2
      <4> QED BY <2>1, <3>1, <3>2, <4>1, <4>2 DEF Remembered
    <3>5. Waiting(e, j)
      BY <1>3, <3>1 DEF Waiting, Frame
    <3> QED BY <3>3, <3>4, <3>5
  <2>8. Sound(e, e, shut)
    BY <1>3, <2>5, <2>6, <2>7 DEF Sound
  <2>9. Frame(c, e) /\ SameWork(c, e) /\ e.ready = c.ready
    BY <1>1, <1>3, <2>1 DEF Frame, SameWork, Asking
  <2>10. ASSUME NEW j \in Keys
         PROVE  IF j \in e.asked THEN Ripe(c, j) ELSE e.preparing[j] = c.preparing[j]
    <3>1. IF j \in s.asked THEN Ripe(c, j) ELSE s.preparing[j] = c.preparing[j]
      BY DEF Asking
    <3>2. Ripe(c, k)
      BY <1>1, <2>4 DEF Ripe, Frame, Wanting
    <3> QED BY <2>1, <2>3, <3>1, <3>2
  <2> QED BY <2>8, <2>9, <2>10 DEF Asking, e
<1> QED BY <1>1, <1>2, <1>3, PrepareIs

\* So does the pass over the keys, in whatever order.
LEMMA PreparesKeep ==
  ASSUME NEW c, NEW shut, Asking(c, c, shut), NEW order \in [Keys -> Keys],
         NEW e \in Prepares(c, order)
  PROVE  Asking(c, e, shut)
<1> DEFINE n == Cardinality(Keys)
           S == SUBSET {s \in States : Asking(c, s, shut)}
           step == [p \in S \X (1 .. n) |-> {Prepare(s, order[p[2]]) : s \in p[1]}]
           after == CHOOSE f : f = [k \in 0 .. n |-> IF k = 0 THEN {c}
                                      ELSE {Prepare(s, order[k]) : s \in f[k - 1]}]
<1>1. n \in Nat /\ Keys = 1 .. n
  BY ConstantsAre
<1>2. {c} \in S
  BY DEF Asking, Sound
<1>3. step \in [S \X (1 .. n) -> S]
  <2>1. ASSUME NEW X \in S, NEW i \in 1 .. n PROVE {Prepare(s, order[i]) : s \in X} \in S
    <3>1. order[i] \in Keys
      BY <1>1
    <3>2. ASSUME NEW s \in X PROVE Prepare(s, order[i]) \in States /\ Asking(c, Prepare(s, order[i]), shut)
      <4>1. Asking(c, s, shut)
        OBVIOUS
      <4>2. Asking(c, Prepare(s, order[i]), shut)
        BY <3>1, <4>1, PrepareKeeps
      <4>3. Prepare(s, order[i]) \in States
        BY <4>2 DEF Asking, Sound
      <4> QED BY <4>2, <4>3
    <3> QED BY <3>2
  <2> HIDE DEF S, n
  <2> QED BY <2>1
<1>4. PICK g : Steps(g, n, S, {c}, step)
  <2> HIDE DEF n, S, step
  <2> QED BY <1>1, <1>2, <1>3, StepByStep
<1>5. /\ g \in [0 .. n -> S] /\ g[0] = {c}
      /\ \A i \in 1 .. n : g[i] = step[<<g[i - 1], i>>]
  <2> HIDE DEF step, S
  <2> QED BY <1>4 DEF Steps
<1>6. \A i \in 1 .. n : g[i] = {Prepare(s, order[i]) : s \in g[i - 1]}
  <2>1. ASSUME NEW i \in 1 .. n PROVE g[i - 1] \in S
    <3>1. i - 1 \in 0 .. n
      BY <1>1
    <3> HIDE DEF S, n
    <3> QED BY <1>5, <3>1
  <2>2. \A i \in 1 .. n : step[<<g[i - 1], i>>] = {Prepare(s, order[i]) : s \in g[i - 1]}
    <3> HIDE DEF S, n
    <3> QED BY <2>1
  <2> HIDE DEF step, S
  <2> QED BY <1>5, <2>2
<1>7. g = [i \in 0 .. n |-> IF i = 0 THEN {c} ELSE {Prepare(s, order[i]) : s \in g[i - 1]}]
  <2>1. \A i \in 0 .. n : i # 0 => i \in 1 .. n
    BY <1>1
  <2> HIDE DEF n, S, step
  <2>2. \A i \in 0 .. n : g[i] = IF i = 0 THEN {c} ELSE {Prepare(s, order[i]) : s \in g[i - 1]}
    BY <1>5, <1>6, <2>1
  <2> QED BY <1>5, <2>2
<1>8. after = [i \in 0 .. n |-> IF i = 0 THEN {c} ELSE {Prepare(s, order[i]) : s \in after[i - 1]}]
  <2> HIDE DEF n
  <2> QED BY <1>7
<1>9. c.accepting => e \in after[n]
  BY DEF Prepares, InTurn
<1>10. \A i \in 0 .. n : after[i] = g[i]
  <2> HIDE DEF after, n, S, step
  <2> DEFINE T == {i \in 0 .. n : after[i] = g[i]}
  <2>1. 0 \in T
    <3>1. 0 \in 0 .. n
      BY <1>1
    <3> QED BY <1>7, <1>8, <3>1
  <2>2. ASSUME NEW i \in 1 .. n, i - 1 \in T PROVE i \in T
    <3>1. i \in 0 .. n /\ i # 0
      BY <1>1
    <3> QED BY <1>7, <1>8, <2>2, <3>1
  <2> HIDE DEF T
  <2>3. \A i \in 0 .. n : i \in T
    BY <1>1, <2>1, <2>2, UpTo
  <2> QED BY <2>3 DEF T
<1>11. after[n] \in S
  <2>1. n \in 0 .. n
    BY <1>1
  <2> HIDE DEF after, n, S
  <2> QED BY <1>5, <1>10, <2>1
<1> HIDE DEF after
<1>12. CASE c.accepting
  BY <1>9, <1>11, <1>12
<1>13. CASE ~c.accepting
  BY <1>13 DEF Prepares
<1> QED BY <1>12, <1>13

\* Of the declines, those on other values are forgotten, which the family remembers none of.
LEMMA KeepDeclinesKeep ==
  ASSUME NEW s, NEW shut, Sound(s, s, shut)
  PROVE  LET e == KeepDeclines(s) IN
         /\ Sound(e, e, shut) /\ Frame(s, e) /\ e.acts = s.acts /\ e.submitted = s.submitted
         /\ e.preparing = s.preparing /\ e.ready = s.ready /\ e.asked = s.asked
<1> DEFINE D == [k \in Keys |-> [t \in Tasks |->
                   IF s.declined[k][t] = Fingerprint(s, k) THEN s.declined[k][t] ELSE None]]
           e == [s EXCEPT !.declined = D]
<1>1. e = KeepDeclines(s)
  BY DEF KeepDeclines
<1>2. /\ s \in States /\ Counted(s) /\ Shut(s, shut)
      /\ \A j \in Keys : OneAtATime(s, j) /\ Remembered(s, j, Fingerprint(s, j)) /\ Waiting(s, j)
  BY DEF Sound
<1>3. D \in Declines
  BY <1>2, TypedFields DEF Declines
<1>4. \A k \in Keys, t \in Tasks :
        s.declined[k][t] = Fingerprint(s, k) => D[k][t] = Fingerprint(s, k)
  OBVIOUS
<1> HIDE DEF D
<1>5. /\ e \in States /\ Frame(s, e) /\ e.acts = s.acts /\ e.submitted = s.submitted
      /\ e.preparing = s.preparing /\ e.ready = s.ready /\ e.asked = s.asked /\ e.declined = D
  BY <1>2, <1>3 DEF States, Frame
<1> HIDE DEF e
<1>6. Counted(e) /\ Shut(e, shut)
  <2>1. NumReservations(e) = NumReservations(s)
    BY <1>5, SameNumber DEF Frame
  <2> QED BY <1>2, <1>5, <2>1 DEF Counted, Shut, Held
<1>7. ASSUME NEW j \in Keys
      PROVE  OneAtATime(e, j) /\ Remembered(e, j, Fingerprint(e, j)) /\ Waiting(e, j)
  <2>1. Fingerprint(e, j) = Fingerprint(s, j)
    BY <1>5, FramePrints
  <2>2. OneAtATime(s, j) /\ Remembered(s, j, Fingerprint(s, j)) /\ Waiting(s, j)
    BY <1>2
  <2>3. OneAtATime(e, j)
    BY <1>5, <2>2 DEF OneAtATime
  <2>4. Remembered(e, j, Fingerprint(e, j))
    BY <1>4, <1>5, <2>1, <2>2 DEF Remembered, Frame
  <2>5. Waiting(e, j)
    BY <1>5, <2>2 DEF Waiting, Frame
  <2> QED BY <2>3, <2>4, <2>5
<1> QED BY <1>1, <1>5, <1>6, <1>7 DEF Sound

-----------------------------------------------------------------------------
(* A step.                                                                 *)

\* The least of two numbers.
LEMMA MinOfTwo ==
  ASSUME NEW a \in Nat, NEW b \in Nat
  PROVE  Min({a, b}) = IF a <= b THEN a ELSE b
<1> DEFINE m == IF a <= b THEN a ELSE b
<1>1. m \in {a, b} /\ \A y \in {a, b} : m <= y
  OBVIOUS
<1>2. \A x \in {a, b} : (\A y \in {a, b} : x <= y) => x = m
  OBVIOUS
<1> HIDE DEF m
<1>3. (CHOOSE x \in {a, b} : \A y \in {a, b} : x <= y) = m
  BY <1>1, <1>2
<1> QED BY <1>3 DEF Min, m

\* what the action properties say of one step
AsAsked ==
  \A k \in Keys : Sent(k) =>
    LET act == Last(acts'[k]) IN
    /\ k \notin closed /\ accepting'
    /\ candidate'[k] \in Wants /\ candidate'[k].task = act.task /\ candidate'[k].ids = act.ids
    /\ fact'[k] # None /\ fact'[k].version = act.rests
Alone == \A k \in Keys : Sent(k) => Len(acts'[k]) = 1 /\ nonces'[k].open = 0
WithinCaps ==
  LET claims == Reserved(After) + Cardinality({k \in Keys : Of(After, k, {"sent"}) # {}})
      coming == Cardinality({k \in Keys : family'.preparing[k] # None})
                + Cardinality({k \in Keys : family'.ready[k] # None})
  IN /\ (\E k \in Keys : Sent(k)) => claims <= MaxReservations
     /\ (\E k \in Keys : Asked(k)) => claims + coming <= MaxReservations
Retried ==
  \A k \in Keys : Asked(k) =>
    LET task == candidate'[k].task IN
    /\ ended'[k][task] = "no"
    /\ \A slot \in {task, Untasked} : due'[k][slot].age >= due'[k][slot].wait
Wider(before, after) ==
  after # before /\ after.wait > 0 /\ after.age = 0 /\ before.wait > 0
    => after.wait >= Min({2 * before.wait, MaxBlocks})
Patient == \A k \in Keys, slot \in Slots : Wider(due[k][slot], due'[k][slot])

\* a request on its way
Sends(s, k) == s.acts[k] # <<>> /\ s.acts[k][1].at = "sent"
\* what an input leaves: it asks for nothing itself, sends nothing, and no wait is cut short
Begets(s, g) ==
  /\ g.asked = {}
  /\ \A k \in Keys :
       /\ g.preparing[k] # None =>
            s.preparing[k] # None /\ (s.preparing[k].void => g.preparing[k].void)
       /\ Sends(g, k) => Sends(s, k)
       /\ \A slot \in Slots : Wider(s.due[k][slot], g.due[k][slot])
Given(g) == Sound(g, Now, closed) /\ Begets(Now, g)

\* what every step keeps and does
Kept == Sound(Now, Now, closed) /\ family = FamilyOf(Now) /\ closed \subseteq Keys
Stepped == Kept' /\ AsAsked /\ Alone /\ WithinCaps /\ Retried /\ Patient

\* A decline is remembered while the values stand.
LEMMA RenewedSound ==
  ASSUME NEW g, Sound(g, Now, closed), g.asked = {}
  PROVE  LET s == Renewed(g) IN
         /\ Sound(s, s, closed) /\ s.preparing = g.preparing /\ s.acts = g.acts /\ s.due = g.due
         /\ s.asked = {} /\ s.candidate = g.candidate /\ s.fact = g.fact /\ s.input = g.input
         /\ s.behind = g.behind /\ s.nonces = g.nonces /\ s.accepting = g.accepting
         /\ s.backoff = g.backoff
<1> DEFINE E == [k \in Keys |-> IF Fingerprint(Now, k) = Fingerprint(g, k) THEN g.ended[k]
                    ELSE [t \in Tasks |-> IF g.ended[k][t] = "declined" THEN "no" ELSE g.ended[k][t]]]
           s == [g EXCEPT !.ended = E]
<1>1. s = Renewed(g)
  BY DEF Renewed
<1>2. /\ g \in States /\ Counted(g) /\ Shut(g, closed)
      /\ \A j \in Keys : OneAtATime(g, j) /\ Remembered(g, j, Fingerprint(Now, j)) /\ Waiting(g, j)
  BY DEF Sound
<1>3. E \in Endings
  <2>1. \A k \in Keys, t \in Tasks : g.ended[k][t] \in {"no", "declined", "stale"}
    BY <1>2, TypedFields
  <2>2. g.ended \in Endings
    BY <1>2 DEF States
  <2> QED BY <2>1, <2>2 DEF Endings
<1>4. \A k \in Keys, t \in Tasks :
        /\ E[k][t] = "declined" => g.ended[k][t] = "declined" /\ Fingerprint(Now, k) = Fingerprint(g, k)
        /\ E[k][t] = "stale" => g.ended[k][t] = "stale"
  OBVIOUS
<1> HIDE DEF E
<1>5. /\ s \in States /\ s.candidate = g.candidate /\ s.fact = g.fact /\ s.input = g.input
      /\ s.acts = g.acts /\ s.nonces = g.nonces /\ s.behind = g.behind
      /\ s.accepting = g.accepting /\ s.submitted = g.submitted /\ s.declined = g.declined
      /\ s.stale = g.stale /\ s.backoff = g.backoff /\ s.due = g.due
      /\ s.preparing = g.preparing /\ s.ready = g.ready /\ s.asked = g.asked /\ s.ended = E
  BY <1>2, <1>3 DEF States
<1> HIDE DEF s
<1>6. Counted(s) /\ Shut(s, closed)
  BY <1>2, <1>5 DEF Counted, Shut
<1>7. ASSUME NEW j \in Keys
      PROVE  OneAtATime(s, j) /\ Remembered(s, j, Fingerprint(s, j)) /\ Waiting(s, j)
  <2>1. Fingerprint(s, j) = Fingerprint(g, j)
    BY <1>5 DEF Fingerprint, Reads
  <2>2. OneAtATime(g, j) /\ Remembered(g, j, Fingerprint(Now, j)) /\ Waiting(g, j)
    BY <1>2
  <2>3. OneAtATime(s, j) /\ Waiting(s, j)
    BY <1>5, <2>2 DEF OneAtATime, Waiting
  <2>4. Remembered(s, j, Fingerprint(s, j))
    <3>1. /\ s.preparing[j] # None => s.preparing[j].want.task \in Tasks
          /\ s.ready[j] # None => s.ready[j].want.task \in Tasks
      <4>1. s.preparing[j] \in Tickets \cup {None} /\ s.ready[j] \in ReadyTickets \cup {None}
        BY <1>5, TypedFields
      <4> DEFINE p == s.preparing[j]
                 r == s.ready[j]
      <4>2. /\ p \in Tickets \/ p = None
            /\ r \in ReadyTickets \/ r = None
        BY <4>1
      <4> HIDE DEF p, r
      <4>3. (p # None => p.want.task \in Tasks) /\ (r # None => r.want.task \in Tasks)
        BY <4>2, TicketIs
      <4> QED BY <4>3 DEF p, r
    <3> QED BY <1>4, <1>5, <2>1, <2>2, <3>1 DEF Remembered
  <2> QED BY <2>3, <2>4
<1> QED BY <1>1, <1>5, <1>6, <1>7 DEF Sound

\* What is sound is so whatever was asked for, of the keys that stay closed.
LEMMA SoundSame ==
  ASSUME NEW d, NEW shut, Sound(d, d, shut), NEW n \in States, Frame(d, n), SameWork(d, n),
         n.preparing = d.preparing, n.ready = d.ready, n.asked = {}, NEW keys, keys \subseteq shut \ d.asked
  PROVE  Sound(n, n, keys)
<1>1. /\ Counted(d) /\ Shut(d, shut)
      /\ \A j \in Keys : OneAtATime(d, j) /\ Remembered(d, j, Fingerprint(d, j)) /\ Waiting(d, j)
  BY DEF Sound
<1>2. Counted(n)
  BY DEF Counted
<1>3. Shut(n, keys)
  BY <1>1 DEF Shut
<1>4. ASSUME NEW j \in Keys
      PROVE  OneAtATime(n, j) /\ Remembered(n, j, Fingerprint(n, j)) /\ Waiting(n, j)
  <2>1. OneAtATime(d, j) /\ Remembered(d, j, Fingerprint(d, j)) /\ Waiting(d, j)
    BY <1>1
  <2>2. Fingerprint(n, j) = Fingerprint(d, j)
    BY FramePrints
  <2>3. OneAtATime(n, j)
    BY <2>1 DEF OneAtATime, SameWork
  <2>4. Remembered(n, j, Fingerprint(n, j))
    BY <2>1, <2>2 DEF Remembered, Frame, SameWork
  <2>5. Waiting(n, j)
    BY <2>1 DEF Waiting, Frame
  <2> QED BY <2>3, <2>4, <2>5
<1> QED BY <1>2, <1>3, <1>4 DEF Sound

\* The decision after an input keeps the invariant and does what the action properties say.
LEMMA StepKeeps ==
  ASSUME Kept, NEW given, Given(given), Step(given)
  PROVE  Stepped
<1> DEFINE s == Renewed(given)
           c == Checked(s)
           bad == {j \in Keys : s.candidate[j] = Bad}
           shut == closed \cup bad
<1>0. /\ candidate' = given.candidate /\ fact' = given.fact /\ input' = given.input
      /\ behind' = given.behind /\ nonces' = given.nonces /\ accepting' = given.accepting
      /\ backoff' = given.backoff /\ due' = given.due
  BY DEF Step
<1>1. PICK order \in Rankings(c) :
        \E sent \in Submits(c, order) : \E next \in Prepares(sent, order) :
        \E d \in {KeepDeclines(next)} :
          acts' = d.acts /\ family' = FamilyOf(d) /\ closed' = StillClosed(s, d) /\ ended' = d.ended
  BY DEF Step
<1> HIDE DEF s, c
<1>2. PICK sent \in Submits(c, order) : \E next \in Prepares(sent, order) :
        \E d \in {KeepDeclines(next)} :
          acts' = d.acts /\ family' = FamilyOf(d) /\ closed' = StillClosed(s, d) /\ ended' = d.ended
  BY <1>1
<1>3. PICK next \in Prepares(sent, order) :
        \E d \in {KeepDeclines(next)} :
          acts' = d.acts /\ family' = FamilyOf(d) /\ closed' = StillClosed(s, d) /\ ended' = d.ended
  BY <1>2
<1> DEFINE d == KeepDeclines(next)
<1>4. acts' = d.acts /\ family' = FamilyOf(d) /\ closed' = StillClosed(s, d) /\ ended' = d.ended
  BY <1>3
<1>5. /\ Sound(s, s, closed) /\ s.preparing = given.preparing /\ s.acts = given.acts
      /\ s.due = given.due /\ s.asked = {} /\ s.candidate = given.candidate /\ s.fact = given.fact
      /\ s.input = given.input /\ s.behind = given.behind /\ s.nonces = given.nonces
      /\ s.accepting = given.accepting /\ s.backoff = given.backoff
  BY RenewedSound DEF Given, Begets, s
<1>7. /\ Sound(c, c, shut) /\ Frame(s, c) /\ SameWork(s, c) /\ c.asked = {}
      /\ \A k \in Keys :
           /\ Wanted(c, k)
           /\ c.preparing[k] = None <=> s.preparing[k] = None
           /\ s.preparing[k] # None /\ s.preparing[k].void => c.preparing[k].void
  <2>2. Checks(s, c, closed)
    BY <1>5, CheckedKeeps DEF c, Kept
  <2> QED BY <1>5, <2>2 DEF Checks
<1>8. order \in [Keys -> Keys]
  BY DEF Rankings
<1> HIDE DEF shut, bad, d
<1>9. Sending(c, c, shut)
  <2>1. Frame(c, c)
    BY DEF Frame
  <2>2. \A k \in Keys : Wanted(c, k) /\ c.ready[k] \in {None, c.ready[k]} /\ c.acts[k] = c.acts[k]
    <3>1. \A k \in Keys : Wanted(c, k)
      BY <1>7
    <3> QED BY <3>1
  <2>3. Sound(c, c, shut)
    BY <1>7
  <2> QED BY <1>7, <2>1, <2>2, <2>3 DEF Sending
<1>10. Sending(c, sent, shut)
  BY <1>2, <1>8, <1>9, SubmitsKeep
<1>11. Asking(sent, sent, shut)
  <2>1. sent.asked = {}
    BY <1>7, <1>10 DEF Sending
  <2> QED BY <1>10, <2>1 DEF Sending, Asking, Frame, SameWork
<1>12. Asking(sent, next, shut)
  BY <1>3, <1>8, <1>11, PreparesKeep
<1>13. /\ Sound(d, d, shut) /\ Frame(next, d) /\ d.acts = next.acts /\ d.submitted = next.submitted
       /\ d.preparing = next.preparing /\ d.ready = next.ready /\ d.asked = next.asked
  BY <1>12, KeepDeclinesKeep DEF Asking, d
<1>14. /\ Frame(c, d) /\ d.acts = sent.acts
       /\ \A k \in Keys : d.acts[k] = given.acts[k] \/ Parted(c, d, k)
       /\ \A k \in Keys : IF k \in d.asked THEN Ripe(sent, k) ELSE d.preparing[k] = c.preparing[k]
  <2>1. Frame(c, d)
    BY <1>10, <1>12, <1>13 DEF Sending, Asking, Frame
  <2>2. d.acts = sent.acts
    BY <1>12, <1>13 DEF Asking, SameWork
  <2>3. \A k \in Keys : d.acts[k] = c.acts[k] \/ Parted(c, d, k)
    BY <1>10, <2>2 DEF Sending, Parted
  <2>4. c.acts = given.acts
    BY <1>5, <1>7 DEF SameWork
  <2>5. \A k \in Keys : IF k \in d.asked THEN Ripe(sent, k) ELSE d.preparing[k] = sent.preparing[k]
    BY <1>12, <1>13 DEF Asking
  <2>6. sent.preparing = c.preparing
    BY <1>10 DEF Sending
  <2> QED BY <2>1, <2>2, <2>3, <2>4, <2>5, <2>6
<1>20. /\ candidate' = d.candidate /\ fact' = d.fact /\ input' = d.input /\ behind' = d.behind
       /\ nonces' = d.nonces /\ accepting' = d.accepting /\ backoff' = d.backoff /\ due' = d.due
  BY <1>0, <1>5, <1>7, <1>14 DEF Frame
<1>15. Kept'
  <2> DEFINE n == Now'
  <2>1. /\ n.candidate = d.candidate /\ n.fact = d.fact /\ n.input = d.input /\ n.behind = d.behind
        /\ n.acts = d.acts /\ n.nonces = d.nonces /\ n.accepting = d.accepting /\ n.backoff = d.backoff
        /\ n.ended = d.ended /\ n.due = d.due /\ n.preparing = d.preparing /\ n.ready = d.ready
        /\ n.submitted = d.submitted /\ n.stale = d.stale /\ n.declined = d.declined
        /\ n.served = d.served /\ n.asked = {}
    BY <1>4, <1>20 DEF Now, FamilyOf
  <2>2. n \in States
    <3>1. d \in States
      BY <1>13 DEF Sound
    <3> QED BY <1>4, <1>20, <2>1, <3>1 DEF States, Now
  <2> HIDE DEF n
  <2>3. Frame(d, n) /\ SameWork(d, n)
    BY <2>1 DEF Frame, SameWork
  <2>4. closed' \subseteq shut \ d.asked
    BY <1>4, <1>20 DEF StillClosed, shut, bad
  <2>5. Sound(n, n, closed')
    BY <1>13, <2>1, <2>2, <2>3, <2>4, SoundSame
  <2>6. family' = FamilyOf(n)
    BY <1>4, <1>20, <2>1 DEF FamilyOf
  <2>7. closed' \subseteq Keys
    BY <1>4, <1>20 DEF StillClosed, Kept
  <2> QED BY <2>5, <2>6, <2>7 DEF Kept, n
<1>19. ASSUME NEW k \in Keys, Sent(k) PROVE d.acts[k] # given.acts[k]
  <2>1. given \in States /\ d \in States /\ Now \in States
    BY <1>13 DEF Given, Sound, Kept
  <2>2. /\ Of([acts |-> acts'], k, {"sent"}) = Of(d, k, {"sent"})
        /\ Of([acts |-> acts], k, {"sent"}) = Of(Now, k, {"sent"})
    BY <1>4, <1>20 DEF Of, Now
  <2>3. Cardinality(Of(d, k, {"sent"})) > Cardinality(Of(Now, k, {"sent"}))
    BY <1>19, <2>2 DEF Sent
  <2>4. Cardinality({1}) = 1 /\ Cardinality({}) = 0
    BY FS_Singleton, FS_EmptySet
  <2> SUFFICES ASSUME d.acts[k] = given.acts[k] PROVE FALSE
    OBVIOUS
  <2>5. CASE Sends(d, k)
    <3>1. Sends(Now, k)
      BY <2>5 DEF Sends, Given, Begets
    <3>2. Of(d, k, {"sent"}) = {1} /\ Of(Now, k, {"sent"}) = {1}
      BY <2>1, <2>5, <3>1, ActOf DEF Sends
    <3> QED BY <2>3, <2>4, <3>2
  <2>6. CASE ~Sends(d, k)
    <3>1. Of(d, k, {"sent"}) = {}
      BY <2>1, <2>6, ActOf DEF Sends
    <3>2. Of(Now, k, {"sent"}) = {} \/ Of(Now, k, {"sent"}) = {1}
      BY <2>1, ActOf
    <3> QED BY <2>3, <2>4, <3>1, <3>2
  <2> QED BY <2>5, <2>6
<1>21. ASSUME NEW k \in Keys, Asked(k) PROVE k \in d.asked
  <2>0. family'.preparing[k] = d.preparing[k] /\ family.preparing[k] = Now.preparing[k]
    BY <1>4, <1>20 DEF FamilyOf, Now
  <2> SUFFICES ASSUME k \notin d.asked PROVE FALSE
    OBVIOUS
  <2>1. d.preparing[k] = c.preparing[k]
    BY <1>14
  <2>2. given.preparing[k] # None /\ Now.preparing[k] # None
        /\ (Now.preparing[k].void => d.preparing[k].void)
    BY <1>5, <1>7, <1>21, <2>0, <2>1 DEF Asked, Given, Begets
  <2> QED BY <1>21, <2>0, <2>2 DEF Asked
<1>16. AsAsked
  <2> SUFFICES ASSUME NEW k \in Keys, Sent(k)
               PROVE  /\ k \notin closed /\ accepting'
                      /\ candidate'[k] \in Wants /\ candidate'[k].task = Last(acts'[k]).task
                      /\ candidate'[k].ids = Last(acts'[k]).ids
                      /\ fact'[k] # None /\ fact'[k].version = Last(acts'[k]).rests
    BY DEF AsAsked
  <2>5. d.acts[k] # given.acts[k]
    BY <1>19
  <2>6. Parted(c, d, k)
    BY <1>14, <2>5
  <2>7. Last(acts'[k]) = d.acts[k][1]
    <3> DEFINE a == d.acts[k][1]
    <3>1. acts'[k] = <<a>>
      BY <1>4, <1>20, <2>6 DEF Parted
    <3> HIDE DEF a
    <3>2. Last(<<a>>) = a
      BY DEF Last
    <3> QED BY <3>1, <3>2 DEF a
  <2>8. k \notin closed
    <3>1. c.ready[k] # None /\ Shut(c, shut) /\ c.asked = {}
      BY <1>7, <2>6 DEF Parted, Sound
    <3> QED BY <3>1 DEF Shut, shut
  <2>9. accepting'
    <3>1. CASE ~c.accepting
      <4>1. sent = c
        BY <1>2, <3>1 DEF Submits
      <4> QED BY <1>14, <2>6, <4>1 DEF Parted
    <3>2. CASE c.accepting
      BY <1>4, <1>20, <1>14, <3>2 DEF Frame
    <3> QED BY <3>1, <3>2
  <2>10. candidate'[k] = c.candidate[k] /\ fact'[k] = c.fact[k]
    BY <1>4, <1>20, <1>14 DEF Frame
  <2> QED BY <2>6, <2>7, <2>8, <2>9, <2>10 DEF Parted, Wanting
<1>17. Retried
  <2> SUFFICES ASSUME NEW k \in Keys, Asked(k)
               PROVE  /\ ended'[k][candidate'[k].task] = "no"
                      /\ \A slot \in {candidate'[k].task, Untasked} :
                           due'[k][slot].age >= due'[k][slot].wait
    BY DEF Retried
  <2>1. family'.preparing[k] = d.preparing[k] /\ family.preparing[k] = Now.preparing[k]
    BY <1>4, <1>20 DEF FamilyOf, Now
  <2>2. k \in d.asked
    BY <1>21
  <2>3. Ripe(sent, k)
    BY <1>14, <2>2
  <2>4. candidate' = sent.candidate /\ ended' = sent.ended /\ due' = sent.due
    BY <1>4, <1>20, <1>12, <1>13 DEF Asking, Frame
  <2> QED BY <2>3, <2>4 DEF Ripe
<1>18. Patient
  <2>1. due' = given.due
    BY <1>0
  <2>2. Now.due = due
    BY DEF Now
  <2> QED BY <2>1, <2>2 DEF Patient, Given, Begets
<1>22. Alone
  <2> SUFFICES ASSUME NEW k \in Keys, Sent(k) PROVE Len(acts'[k]) = 1 /\ nonces'[k].open = 0
    BY DEF Alone
  <2>1. Parted(c, d, k)
    BY <1>14, <1>19
  <2> DEFINE a == d.acts[k][1]
  <2>2. acts'[k] = <<a>> /\ c.nonces[k].open = 0
    BY <1>4, <2>1 DEF Parted
  <2>3. nonces'[k] = c.nonces[k]
    BY <1>14, <1>20 DEF Frame
  <2> HIDE DEF a
  <2>4. Len(<<a>>) = 1
    OBVIOUS
  <2> QED BY <2>2, <2>3, <2>4
<1>23. WithinCaps
  <2> DEFINE claims == Reserved(After) + Cardinality({k \in Keys : Of(After, k, {"sent"}) # {}})
             ps == Cardinality({k \in Keys : family'.preparing[k] # None})
             rs == Cardinality({k \in Keys : family'.ready[k] # None})
  <2>1. claims = NumReservations(d)
    <3>1. Reserved(After) = Reserved(d)
      <4>1. After.acts = d.acts /\ After.nonces = d.nonces
        BY <1>4, <1>20 DEF After
      <4> QED BY <4>1, SameReserved
    <3>2. {k \in Keys : Of(After, k, {"sent"}) # {}} = Held(d, "submitted")
      <4>1. ASSUME NEW k \in Keys PROVE Of(After, k, {"sent"}) # {} <=> d.submitted[k] # None
        <5>1. Of(After, k, {"sent"}) = Of(d, k, {"sent"})
          BY <1>4 DEF After, Of
        <5>2. d \in States /\ OneAtATime(d, k)
          BY <1>13 DEF Sound
        <5>3. Of(d, k, {"sent"}) # {} <=> d.acts[k] # <<>> /\ d.acts[k][1].at = "sent"
          <6>1. CASE d.acts[k] = <<>>
            BY <5>2, <6>1, ActOf
          <6>2. CASE d.acts[k] # <<>>
            <7>1. Of(d, k, {"sent"}) = IF d.acts[k][1].at \in {"sent"} THEN {1} ELSE {}
              BY <5>2, <6>2, ActOf
            <7> QED BY <6>2, <7>1
          <6> QED BY <6>1, <6>2
        <5> QED BY <5>1, <5>2, <5>3 DEF OneAtATime
      <4> QED BY <4>1 DEF Held
    <3> QED BY <3>1, <3>2 DEF NumReservations
  <2>2. ps = Cardinality(Held(d, "preparing")) /\ rs = Cardinality(Held(d, "ready"))
    <3>1. family'.preparing = d.preparing /\ family'.ready = d.ready
      BY <1>4 DEF FamilyOf
    <3> QED BY <3>1 DEF Held
  <2>3. ASSUME NEW k \in Keys, Sent(k) PROVE claims <= MaxReservations
    <3>1. sent.acts # c.acts
      BY <1>5, <1>7, <1>14, <1>19, <2>3 DEF SameWork
    <3>2. NumReservations(sent) <= MaxReservations
      BY <1>10, <3>1 DEF Sending
    <3>3. NumReservations(d) = NumReservations(sent)
      <4>1. d.acts = sent.acts /\ d.nonces = sent.nonces /\ d.submitted = sent.submitted
        BY <1>12, <1>13, <1>14 DEF Asking, SameWork, Frame
      <4> QED BY <4>1, SameNumber
    <3> HIDE DEF claims
    <3> QED BY <2>1, <3>2, <3>3
  <2>4. ASSUME NEW k \in Keys, Asked(k) PROVE claims + (ps + rs) <= MaxReservations
    <3> DEFINE n == NumReservations(d)
    <3>1. (n + ps) + rs <= MaxReservations
      BY <1>13, <1>21, <2>2, <2>4 DEF Sound, Counted
    <3>2. n \in Nat /\ ps \in Nat /\ rs \in Nat
      BY <1>13, <2>2, ReservedIs, HeldAre DEF Sound
    <3>3. claims = n
      BY <2>1
    <3> HIDE DEF claims, ps, rs, n
    <3> QED BY <3>1, <3>2, <3>3, ConstantsAre
  <2> HIDE DEF claims, ps, rs
  <2>5. (\E k \in Keys : Sent(k)) => claims <= MaxReservations
    BY <2>3
  <2>6. (\E k \in Keys : Asked(k)) => claims + (ps + rs) <= MaxReservations
    BY <2>4
  <2> QED BY <2>5, <2>6 DEF WithinCaps, claims, ps, rs
<1> QED BY <1>15, <1>16, <1>17, <1>18, <1>22, <1>23 DEF Stepped

-----------------------------------------------------------------------------
(* What an input leaves, for the decision after it.                        *)

\* of one key: its work
Fit(g, k) ==
  /\ OneAtATime(g, k) /\ Remembered(g, k, Fingerprint(Now, k))
  /\ k \in closed => g.ready[k] = None /\ (g.preparing[k] # None => g.preparing[k].void)
  /\ g.preparing[k] # None =>
       Now.preparing[k] # None /\ (Now.preparing[k].void => g.preparing[k].void)
  /\ Sends(g, k) => Sends(Now, k)
\* and its waits
Timed(g, k) ==
  /\ Waiting(g, k)
  /\ \A slot \in Slots : Wider(Now.due[k][slot], g.due[k][slot])

\* the input leaves a key's work, or its waits, as they were
SameAt(g, k) ==
  /\ g.preparing[k] = Now.preparing[k] /\ g.ready[k] = Now.ready[k]
  /\ g.submitted[k] = Now.submitted[k] /\ g.acts[k] = Now.acts[k] /\ g.ended[k] = Now.ended[k]
  /\ g.declined[k] = Now.declined[k] /\ g.stale[k] = Now.stale[k]
SameWaits(g) == g.backoff = Now.backoff /\ g.due = Now.due

\* Key by key, what is given is what the decision may be computed from.
LEMMA InputGiven ==
  ASSUME NEW g \in States, g.asked = {}, \A k \in Keys : Fit(g, k) /\ Timed(g, k), Kept
  PROVE  Given(g)
<1>1. \A k \in Keys : OneAtATime(g, k) /\ Remembered(g, k, Fingerprint(Now, k)) /\ Waiting(g, k)
  BY DEF Fit, Timed
<1>2. Shut(g, closed)
  BY DEF Shut, Fit, Kept
<1>3. Begets(Now, g)
  BY DEF Begets, Fit, Timed
<1>4. Counted(g)
  BY DEF Counted
<1> QED BY <1>1, <1>2, <1>3, <1>4 DEF Given, Sound

\* What is given says of each key.
LEMMA GivenInput ==
  ASSUME NEW g, Given(g)
  PROVE  g \in States /\ g.asked = {} /\ \A k \in Keys : Fit(g, k) /\ Timed(g, k)
<1>1. /\ g \in States /\ g.asked = {} /\ Shut(g, closed)
      /\ \A k \in Keys : OneAtATime(g, k) /\ Remembered(g, k, Fingerprint(Now, k)) /\ Waiting(g, k)
      /\ Begets(Now, g)
  BY DEF Given, Sound, Begets
<1>2. ASSUME NEW k \in Keys PROVE Fit(g, k) /\ Timed(g, k)
  <2>1. k \in closed => g.ready[k] = None /\ (g.preparing[k] # None => g.preparing[k].void)
    BY <1>1 DEF Shut
  <2> QED BY <1>1, <2>1 DEF Begets, Fit, Timed
<1> QED BY <1>1, <1>2

\* Nothing follows from a wait that stays as it was.
LEMMA NowGiven ==
  ASSUME Kept
  PROVE  /\ Now \in States /\ Now.asked = {} /\ Given(Now)
         /\ \A k \in Keys : Fit(Now, k) /\ Timed(Now, k)
<1>1. /\ Now \in States /\ Now.asked = {} /\ Sound(Now, Now, closed)
  BY DEF Kept, Sound, Now
<1>2. \A k \in Keys, slot \in Slots : Wider(Now.due[k][slot], Now.due[k][slot])
  BY DEF Wider
<1>3. Given(Now)
  BY <1>1, <1>2 DEF Given, Begets
<1> QED BY <1>1, <1>3, GivenInput

LEMMA FitSame ==
  ASSUME Kept, NEW g, NEW k \in Keys, SameAt(g, k)
  PROVE  Fit(g, k)
<1> DEFINE s == Now
<1>1. Fit(s, k) /\ SameAt(g, k)
  BY NowGiven
<1>2. /\ g.preparing[k] = s.preparing[k] /\ g.ready[k] = s.ready[k]
      /\ g.submitted[k] = s.submitted[k] /\ g.acts[k] = s.acts[k] /\ g.ended[k] = s.ended[k]
      /\ g.declined[k] = s.declined[k] /\ g.stale[k] = s.stale[k]
  BY <1>1 DEF SameAt
<1> HIDE DEF s
<1>3. OneAtATime(s, k) => OneAtATime(g, k)
  BY <1>2 DEF OneAtATime
<1>4. Remembered(s, k, Fingerprint(Now, k)) => Remembered(g, k, Fingerprint(Now, k))
  BY <1>2 DEF Remembered
<1> QED BY <1>1, <1>2, <1>3, <1>4 DEF Fit, Sends

LEMMA TimedSame ==
  ASSUME Kept, NEW g, NEW k \in Keys, g.backoff[k] = Now.backoff[k], g.due[k] = Now.due[k]
  PROVE  Timed(g, k)
<1> DEFINE s == Now
<1>1. Timed(s, k) /\ g.backoff[k] = s.backoff[k] /\ g.due[k] = s.due[k]
  BY NowGiven
<1> HIDE DEF s
<1>2. Waiting(g, k)
  BY <1>1 DEF Timed, Waiting
<1>3. \A slot \in Slots : Wider(s.due[k][slot], g.due[k][slot])
  BY <1>1 DEF Timed
<1> QED BY <1>2, <1>3 DEF Timed, s

\* An input that reaches only the nodes, or the view, leaves every key's work and waits.
LEMMA WatchedGiven ==
  ASSUME Kept, NEW g \in States, g.asked = {}, SameWaits(g), g.preparing = Now.preparing,
         g.ready = Now.ready, g.submitted = Now.submitted, g.acts = Now.acts, g.ended = Now.ended,
         g.declined = Now.declined, g.stale = Now.stale
  PROVE  Given(g)
<1>1. \A k \in Keys : SameAt(g, k)
  BY DEF SameAt
<1>2. \A k \in Keys : Fit(g, k) /\ Timed(g, k)
  BY <1>1, FitSame, TimedSame DEF SameWaits
<1>3. Kept
  BY NowGiven
<1> QED BY <1>2, <1>3, InputGiven

\* The nodes and the view: a candidate, an input, the last reading's conflict marks, the toggle.
LEMMA CandidateGiven ==
  ASSUME Kept, NEW k \in Keys, NEW c \in MayAsk[k] \cup {None, Bad}
  PROVE  Given([Now EXCEPT !.candidate[k] = c])
<1> DEFINE C == [Now.candidate EXCEPT ![k] = c]
           g == [Now EXCEPT !.candidate = C]
<1>1. C \in Candidates
  <2>1. c \in Wants \cup {None, Bad}
    BY DEF Wants
  <2>2. Now.candidate \in Candidates
    BY NowGiven DEF States
  <2> HIDE DEF Now
  <2> QED BY <2>1, <2>2 DEF Candidates
<1> HIDE DEF C
<1>2. Now \in States /\ Now.asked = {}
  BY NowGiven
<1> HIDE DEF Now
<1>3. g \in States /\ g.asked = {} /\ g.backoff = Now.backoff /\ g.due = Now.due
      /\ g.preparing = Now.preparing /\ g.ready = Now.ready /\ g.submitted = Now.submitted
      /\ g.acts = Now.acts /\ g.ended = Now.ended /\ g.declined = Now.declined /\ g.stale = Now.stale
  BY <1>1, <1>2 DEF States
<1> HIDE DEF g
<1>4. Given(g)
  BY <1>3, WatchedGiven DEF SameWaits
<1> QED BY <1>4 DEF g, C

LEMMA InputNodeGiven ==
  ASSUME Kept, NEW k \in Keys, NEW i \in Inputs \cup {None}
  PROVE  Given([Now EXCEPT !.input[k] = i])
<1> DEFINE I == [Now.input EXCEPT ![k] = i]
           g == [Now EXCEPT !.input = I]
<1>1. I \in Givens
  <2>1. Now.input \in Givens
    BY NowGiven DEF States
  <2> HIDE DEF Now
  <2> QED BY <2>1 DEF Givens
<1> HIDE DEF I
<1>2. Now \in States /\ Now.asked = {}
  BY NowGiven
<1> HIDE DEF Now
<1>3. g \in States /\ g.asked = {} /\ g.backoff = Now.backoff /\ g.due = Now.due
      /\ g.preparing = Now.preparing /\ g.ready = Now.ready /\ g.submitted = Now.submitted
      /\ g.acts = Now.acts /\ g.ended = Now.ended /\ g.declined = Now.declined /\ g.stale = Now.stale
  BY <1>1, <1>2 DEF States
<1> HIDE DEF g
<1>4. Given(g)
  BY <1>3, WatchedGiven DEF SameWaits
<1> QED BY <1>4 DEF g, I

LEMMA ToggleGiven ==
  ASSUME Kept, NEW b \in BOOLEAN
  PROVE  Given([Now EXCEPT !.accepting = b])
<1> DEFINE g == [Now EXCEPT !.accepting = b]
<1>2. Now \in States /\ Now.asked = {}
  BY NowGiven
<1> HIDE DEF Now
<1>3. g \in States /\ g.asked = {} /\ g.backoff = Now.backoff /\ g.due = Now.due
      /\ g.preparing = Now.preparing /\ g.ready = Now.ready /\ g.submitted = Now.submitted
      /\ g.acts = Now.acts /\ g.ended = Now.ended /\ g.declined = Now.declined /\ g.stale = Now.stale
  BY <1>2 DEF States
<1> HIDE DEF g
<1>4. Given(g)
  BY <1>3, WatchedGiven DEF SameWaits
<1> QED BY <1>4 DEF g

\* The ledger, or a mark above what was read, changes nothing else.
LEMMA MarkedGiven ==
  ASSUME Kept, NEW s, Given(s), NEW n \in Ledgers, NEW b \in Marks
  PROVE  Given([s EXCEPT !.nonces = n, !.behind = b])
<1> DEFINE g == [s EXCEPT !.nonces = n, !.behind = b]
<1>1. s \in States /\ s.asked = {} /\ \A k \in Keys : Fit(s, k) /\ Timed(s, k)
  BY GivenInput
<1>2. /\ g \in States /\ g.asked = {} /\ g.backoff = s.backoff /\ g.due = s.due
      /\ g.preparing = s.preparing /\ g.ready = s.ready /\ g.submitted = s.submitted
      /\ g.acts = s.acts /\ g.ended = s.ended /\ g.declined = s.declined /\ g.stale = s.stale
  BY <1>1 DEF States
<1> HIDE DEF g
<1>3. \A k \in Keys : Fit(g, k) /\ Timed(g, k)
  <2> TAKE k \in Keys
  <2>1. OneAtATime(s, k) => OneAtATime(g, k)
    BY <1>2 DEF OneAtATime
  <2>2. Remembered(s, k, Fingerprint(Now, k)) => Remembered(g, k, Fingerprint(Now, k))
    BY <1>2 DEF Remembered
  <2>3. Waiting(s, k) => Waiting(g, k)
    BY <1>2 DEF Waiting
  <2>4. Sends(g, k) = Sends(s, k)
    BY <1>2 DEF Sends
  <2> QED BY <1>1, <1>2, <2>1, <2>2, <2>3, <2>4 DEF Fit, Timed
<1>5. Given(g)
  BY <1>2, <1>3, InputGiven
<1> QED BY <1>5 DEF g

LEMMA LedgerGiven ==
  ASSUME Kept, NEW s, Given(s), NEW n \in Ledgers
  PROVE  Given([s EXCEPT !.nonces = n])
<1>1. s \in States /\ s.behind \in Marks
  BY GivenInput DEF States
<1>2. [s EXCEPT !.nonces = n] = [s EXCEPT !.nonces = n, !.behind = s.behind]
  BY <1>1 DEF States
<1>3. Given([s EXCEPT !.nonces = n, !.behind = s.behind])
  BY <1>1, MarkedGiven
<1> QED BY <1>2, <1>3

\* what is captured of a key when it is read again: no longer its last reading
Captured(ticket) == IF ticket = None THEN None ELSE [ticket EXCEPT !.current = FALSE]

LEMMA CapturedIs ==
  /\ \A p \in Tickets \cup {None} :
       /\ Captured(p) \in Tickets \cup {None}
       /\ Captured(p) # None => p # None /\ Captured(p).want = p.want /\ Captured(p).void = p.void
  /\ \A p \in ReadyTickets \cup {None} :
       /\ Captured(p) \in ReadyTickets \cup {None}
       /\ Captured(p) # None => p # None /\ Captured(p).want = p.want /\ Captured(p).void = p.void
  /\ \A p \in Notes \cup {None} :
       Captured(p) \in Notes \cup {None} /\ (Captured(p) = None <=> p = None)
<1>1. ASSUME NEW p \in Tickets, p # None
      PROVE  Captured(p) \in Tickets /\ Captured(p).want = p.want /\ Captured(p).void = p.void
  BY <1>1 DEF Captured, Tickets
<1>2. ASSUME NEW p \in ReadyTickets, p # None
      PROVE  Captured(p) \in ReadyTickets /\ Captured(p).want = p.want /\ Captured(p).void = p.void
  BY <1>2 DEF Captured, ReadyTickets
<1>3. ASSUME NEW p \in Notes, p # None
      PROVE  Captured(p) \in Notes /\ Captured(p) # None
  <2>1. Captured(p) \in Notes
    BY <1>3 DEF Captured, Notes
  <2> QED BY <2>1, ConstantsAre
<1>4. Captured(None) = None
  BY DEF Captured
<1> QED BY <1>1, <1>2, <1>3, <1>4

\* A reading: what was captured before is no longer current, and a stale hold is over.
LEMMA ReadingGiven ==
  ASSUME Kept, NEW k \in Keys, NEW reading \in Readings \cup {None}, NEW marks \in SUBSET AllIds,
         Reading(k, reading, marks)
  PROVE  Stepped
<1> DEFINE n == Now
           F == [n.fact EXCEPT ![k] = reading]
           B == [n.behind EXCEPT ![k] = marks]
           T == [n.stale EXCEPT ![k] = {}]
           P == [n.preparing EXCEPT ![k] = Captured(n.preparing[k])]
           R == [n.ready EXCEPT ![k] = Captured(n.ready[k])]
           S == [n.submitted EXCEPT ![k] = Captured(n.submitted[k])]
           last == [t \in Tasks |-> IF n.ended[k][t] = "stale" THEN "no" ELSE n.ended[k][t]]
           E == [n.ended EXCEPT ![k] = last]
           g == [n EXCEPT !.fact = F, !.behind = B, !.stale = T, !.preparing = P, !.ready = R,
                          !.submitted = S, !.ended = E]
<1>1. n \in States /\ n.asked = {} /\ \A j \in Keys : Fit(n, j)
  BY NowGiven
<1>2. Step(g)
  BY DEF Reading, Captured
<1> SUFFICES Given(g)
  BY <1>2, StepKeeps
<1>3. /\ n.preparing[k] \in Tickets \cup {None} /\ n.ready[k] \in ReadyTickets \cup {None}
      /\ n.submitted[k] \in Notes \cup {None}
      /\ \A t \in Tasks : n.ended[k][t] \in {"no", "declined", "stale"}
  BY <1>1, TypedFields
<1>4. /\ n.preparing \in Preparings /\ n.ready \in Readies /\ n.submitted \in Sents
      /\ n.fact \in Facts /\ n.behind \in Marks /\ n.stale \in Stales /\ n.ended \in Endings
  BY <1>1 DEF States
<1> HIDE DEF n
<1>5. P \in Preparings /\ R \in Readies /\ S \in Sents
  BY <1>3, <1>4, CapturedIs DEF Preparings, Readies, Sents
<1>6. F \in Facts /\ B \in Marks /\ T \in Stales
  BY <1>4 DEF Facts, Marks, Stales
<1>7. E \in Endings
  <2>1. last \in [Tasks -> {"no", "declined", "stale"}]
    BY <1>3
  <2> HIDE DEF last
  <2> QED BY <1>4, <2>1 DEF Endings
<1>8. /\ P[k] = Captured(n.preparing[k]) /\ R[k] = Captured(n.ready[k]) /\ S[k] = Captured(n.submitted[k])
      /\ T[k] = {} /\ E[k] = last
      /\ \A j \in Keys \ {k} : /\ P[j] = n.preparing[j] /\ R[j] = n.ready[j] /\ S[j] = n.submitted[j]
                               /\ T[j] = n.stale[j] /\ E[j] = n.ended[j]
  BY <1>4 DEF Preparings, Readies, Sents, Stales, Endings
<1> HIDE DEF F, B, T, P, R, S, E
<1>9. /\ g \in States /\ g.asked = {} /\ g.backoff = n.backoff /\ g.due = n.due
      /\ g.preparing = P /\ g.ready = R /\ g.submitted = S /\ g.ended = E /\ g.stale = T
      /\ g.acts = n.acts /\ g.declined = n.declined
  BY <1>1, <1>5, <1>6, <1>7 DEF States
<1> HIDE DEF g
<1>10. Fit(g, k)
  <2> DEFINE p == n.preparing[k]
             r == n.ready[k]
             s == n.submitted[k]
  <2>1. /\ Captured(p) # None => p # None /\ Captured(p).want = p.want /\ Captured(p).void = p.void
        /\ Captured(r) # None => r # None /\ Captured(r).want = r.want /\ Captured(r).void = r.void
        /\ Captured(s) = None <=> s = None
    BY <1>3, CapturedIs
  <2> HIDE DEF p, r, s, last
  <2>2. /\ g.preparing[k] = Captured(p) /\ g.ready[k] = Captured(r) /\ g.submitted[k] = Captured(s)
        /\ g.ended[k] = last /\ g.stale[k] = {} /\ g.acts[k] = n.acts[k]
        /\ g.declined[k] = n.declined[k]
    BY <1>8, <1>9 DEF p, r, s
  <2>3. Captured(None) = None
    BY DEF Captured
  <2>4. OneAtATime(n, k) => OneAtATime(g, k)
    BY <2>1, <2>2, <2>3 DEF OneAtATime, p, r, s
  <2>5. /\ \A t \in Tasks : last[t] = "declined" <=> n.ended[k][t] = "declined"
        /\ \A t \in Tasks : last[t] # "stale"
    BY DEF last
  <2>6. (p # None => p.want.task \in Tasks) /\ (r # None => r.want.task \in Tasks)
    BY <1>3, TicketIs DEF p, r
  <2>7. Remembered(n, k, Fingerprint(Now, k)) => Remembered(g, k, Fingerprint(Now, k))
    BY <2>1, <2>2, <2>5, <2>6 DEF Remembered, p, r
  <2>8. Sends(g, k) = Sends(n, k)
    BY <2>2 DEF Sends
  <2>9. /\ k \in closed => g.ready[k] = None /\ (g.preparing[k] # None => g.preparing[k].void)
        /\ g.preparing[k] # None =>
             n.preparing[k] # None /\ (n.preparing[k].void => g.preparing[k].void)
    BY <1>1, <2>1, <2>2, <2>3 DEF Fit, p, r
  <2> QED BY <1>1, <2>4, <2>7, <2>8, <2>9 DEF Fit, n
<1>11. \A j \in Keys : Fit(g, j)
  <2> SUFFICES ASSUME NEW j \in Keys, j # k PROVE Fit(g, j)
    BY <1>10
  <2>1. SameAt(g, j)
    BY <1>8, <1>9 DEF SameAt, n
  <2> QED BY <2>1, FitSame
<1>12. \A j \in Keys : Timed(g, j)
  BY <1>9, TimedSame DEF n
<1> QED BY <1>9, <1>11, <1>12, InputGiven

-----------------------------------------------------------------------------
(* Waits.                                                                  *)

\* A head later, a wait is what it was with one block less, or long over and forgotten.
LEMMA HeadPaces ==
  ASSUME NEW entry \in Entries, NEW d \in [wait : Nat, age : Nat], Paced(entry, d)
  PROVE  LET next == IF d.wait = 0 \/ d.age + 1 >= d.wait + MaxBlocks THEN [wait |-> 0, age |-> 0]
                     ELSE [wait |-> d.wait, age |-> d.age + 1]
         IN /\ AfterHead(entry) \in Entries /\ next \in [wait : Nat, age : Nat]
            /\ Paced(AfterHead(entry), next) /\ Wider(d, next)
<1> DEFINE next == IF d.wait = 0 \/ d.age + 1 >= d.wait + MaxBlocks THEN [wait |-> 0, age |-> 0]
                   ELSE [wait |-> d.wait, age |-> d.age + 1]
           less == [entry EXCEPT !.left = entry.left - 1]
<1>1. /\ entry.failures \in 0 .. MaxBlocks /\ entry.left \in -MaxBlocks .. MaxBlocks
      /\ d.wait \in Nat /\ d.age \in Nat /\ MaxBlocks \in Nat /\ MaxBlocks >= 1
  BY ConstantsAre DEF Entries
<1>2. AfterHead(entry) = IF entry.left - 1 + MaxBlocks <= 0 THEN Forgotten ELSE less
  <2>1. less.left = entry.left - 1
    BY DEF Entries
  <2>2. AfterHead(entry) = Pruned(less)
    BY DEF AfterHead
  <2> QED BY <2>1, <2>2 DEF Pruned
<1>3. Forgotten \in Entries /\ Forgotten.left = -MaxBlocks
  BY <1>1 DEF Forgotten, Entries
<1>4. next \in [wait : Nat, age : Nat]
  BY <1>1
<1>5. ASSUME d.wait = 0
      PROVE  /\ AfterHead(entry) \in Entries /\ next \in [wait : Nat, age : Nat]
             /\ Paced(AfterHead(entry), next) /\ Wider(d, next)
  <2>1. entry = Forgotten
    BY <1>5 DEF Paced
  <2>2. AfterHead(entry) = Forgotten /\ next = [wait |-> 0, age |-> 0]
    BY <1>1, <1>2, <1>3, <1>5, <2>1
  <2> QED BY <1>3, <1>4, <2>2 DEF Paced, Wider
<1>6. ASSUME d.wait > 0
      PROVE  /\ AfterHead(entry) \in Entries /\ next \in [wait : Nat, age : Nat]
             /\ Paced(AfterHead(entry), next) /\ Wider(d, next)
  <2>1. /\ entry.failures \in 1 .. MaxBlocks /\ d.wait = Waits[entry.failures]
        /\ entry.left = d.wait - d.age /\ d.age < d.wait + MaxBlocks
    BY <1>1, <1>6 DEF Paced
  <2>2. CASE d.age + 1 >= d.wait + MaxBlocks
    <3>1. AfterHead(entry) = Forgotten /\ next = [wait |-> 0, age |-> 0]
      BY <1>1, <1>2, <2>1, <2>2
    <3> QED BY <1>3, <1>4, <3>1 DEF Paced, Wider
  <2>3. CASE ~(d.age + 1 >= d.wait + MaxBlocks)
    <3>1. AfterHead(entry) = less /\ next = [wait |-> d.wait, age |-> d.age + 1]
      BY <1>1, <1>2, <1>6, <2>1, <2>3
    <3>2. /\ less \in Entries /\ less.failures = entry.failures /\ less.left = entry.left - 1
          /\ next.wait = d.wait /\ next.age = d.age + 1
      BY <1>1, <2>1, <2>3, <3>1 DEF Entries
    <3> HIDE DEF less, next
    <3>3. Paced(less, next)
      BY <1>1, <1>6, <2>1, <2>3, <3>2 DEF Paced
    <3>4. Wider(d, next)
      BY <1>1, <3>2 DEF Wider
    <3> QED BY <1>4, <3>1, <3>2, <3>3, <3>4
  <2> QED BY <2>2, <2>3
<1>7. d.wait = 0 \/ d.wait > 0
  BY <1>1
<1> HIDE DEF next
<1>8. /\ AfterHead(entry) \in Entries /\ next \in [wait : Nat, age : Nat]
      /\ Paced(AfterHead(entry), next) /\ Wider(d, next)
  BY <1>5, <1>6, <1>7
<1> QED BY <1>8 DEF next

\* A slot that fails waits what its failures earn, twice as long as before or the maximum.
LEMMA FailureWidens ==
  ASSUME NEW entry \in Entries, NEW d \in [wait : Nat, age : Nat], Paced(entry, d)
  PROVE  LET next == [wait |-> Widened(entry).left, age |-> 0]
         IN /\ Widened(entry) \in Entries /\ next \in [wait : Nat, age : Nat]
            /\ Paced(Widened(entry), next) /\ Wider(d, next)
<1> DEFINE w == Widened(entry)
           next == [wait |-> w.left, age |-> 0]
           n == IF entry.failures > 0 /\ Waits[entry.failures] = MaxBlocks THEN entry.failures
                ELSE entry.failures + 1
<1>1. /\ entry.failures \in 0 .. MaxBlocks /\ d.wait \in Nat /\ d.age \in Nat
      /\ MaxBlocks \in Nat /\ MaxBlocks >= 1
  BY ConstantsAre DEF Entries
<1>2. n \in 1 .. MaxBlocks
  <2>1. CASE entry.failures = 0
    BY <1>1, <2>1
  <2>2. CASE entry.failures > 0
    BY <1>1, <2>2, WaitsAre
  <2> QED BY <1>1, <2>1, <2>2
<1>3. w = [failures |-> n, left |-> Waits[n]]
  BY DEF Widened
<1>4. Waits[n] \in 1 .. MaxBlocks
  BY <1>2, WaitsAre
<1>5. d.wait > 0 => Waits[n] >= Min({2 * d.wait, MaxBlocks})
  <2> SUFFICES ASSUME d.wait > 0 PROVE Waits[n] >= Min({2 * d.wait, MaxBlocks})
    OBVIOUS
  <2>1. entry.failures \in 1 .. MaxBlocks /\ d.wait = Waits[entry.failures]
    BY <1>1 DEF Paced
  <2>2. Min({2 * d.wait, MaxBlocks}) = IF 2 * d.wait <= MaxBlocks THEN 2 * d.wait ELSE MaxBlocks
    BY <1>1, MinOfTwo
  <2>3. CASE Waits[entry.failures] = MaxBlocks
    BY <1>1, <2>1, <2>2, <2>3
  <2>4. CASE Waits[entry.failures] # MaxBlocks
    <3>1. Waits[n] = IF 2 * d.wait < MaxBlocks THEN 2 * d.wait ELSE MaxBlocks
      BY <1>1, <2>1, <2>4, WaitsAre
    <3> HIDE DEF n
    <3> QED BY <1>1, <2>2, <3>1
  <2> QED BY <2>3, <2>4
<1> HIDE DEF n, w
<1>6. w \in Entries /\ w.failures = n /\ w.left = Waits[n]
  BY <1>1, <1>2, <1>3, <1>4 DEF Entries
<1>7. next \in [wait : Nat, age : Nat] /\ next.wait = Waits[n] /\ next.age = 0
  BY <1>4, <1>6
<1> HIDE DEF next
<1>8. Paced(w, next) /\ Wider(d, next)
  BY <1>1, <1>2, <1>4, <1>5, <1>6, <1>7 DEF Paced, Wider
<1> QED BY <1>6, <1>7, <1>8 DEF w, next

\* A slot's wait alone changes.
LEMMA SlotGiven ==
  ASSUME Kept, NEW s, Given(s), SameWaits(s), NEW k \in Keys, NEW slot \in Slots,
         NEW entry \in Entries, NEW d \in [wait : Nat, age : Nat], Paced(entry, d),
         Wider(Now.due[k][slot], d)
  PROVE  Given([s EXCEPT !.backoff[k][slot] = entry, !.due[k][slot] = d])
<1> DEFINE B == [s.backoff EXCEPT ![k][slot] = entry]
           D == [s.due EXCEPT ![k][slot] = d]
           g == [s EXCEPT !.backoff = B, !.due = D]
<1>1. s \in States /\ s.asked = {} /\ \A j \in Keys : Fit(s, j) /\ Timed(s, j)
  BY GivenInput
<1>2. s.backoff \in Backoffs /\ s.due \in Dues
  BY <1>1 DEF States
<1>3. /\ B \in Backoffs /\ D \in Dues
      /\ B[k][slot] = entry /\ D[k][slot] = d
      /\ \A j \in Keys, t \in Slots : (j # k \/ t # slot) =>
           B[j][t] = s.backoff[j][t] /\ D[j][t] = s.due[j][t]
  <2>1. B \in Backoffs /\ B[k][slot] = entry
        /\ \A j \in Keys, t \in Slots : (j # k \/ t # slot) => B[j][t] = s.backoff[j][t]
    BY <1>2 DEF Backoffs
  <2>2. D \in Dues /\ D[k][slot] = d
        /\ \A j \in Keys, t \in Slots : (j # k \/ t # slot) => D[j][t] = s.due[j][t]
    BY <1>2 DEF Dues
  <2> QED BY <2>1, <2>2
<1> HIDE DEF B, D
<1>4. /\ g \in States /\ g.asked = {} /\ g.backoff = B /\ g.due = D
      /\ g.preparing = s.preparing /\ g.ready = s.ready /\ g.submitted = s.submitted
      /\ g.acts = s.acts /\ g.ended = s.ended /\ g.declined = s.declined /\ g.stale = s.stale
  BY <1>1, <1>3 DEF States
<1> HIDE DEF g
<1>5. \A j \in Keys : Fit(g, j)
  <2> TAKE j \in Keys
  <2>1. OneAtATime(s, j) => OneAtATime(g, j)
    BY <1>4 DEF OneAtATime
  <2>2. Remembered(s, j, Fingerprint(Now, j)) => Remembered(g, j, Fingerprint(Now, j))
    BY <1>4 DEF Remembered
  <2>3. Sends(g, j) = Sends(s, j)
    BY <1>4 DEF Sends
  <2> QED BY <1>1, <1>4, <2>1, <2>2, <2>3 DEF Fit
<1>6. \A j \in Keys : Timed(g, j)
  <2> SUFFICES ASSUME NEW j \in Keys, NEW t \in Slots
               PROVE  Paced(g.backoff[j][t], g.due[j][t]) /\ Wider(Now.due[j][t], g.due[j][t])
    BY DEF Timed, Waiting
  <2>1. CASE j = k /\ t = slot
    BY <1>3, <1>4, <2>1
  <2>2. CASE j # k \/ t # slot
    <3>1. g.backoff[j][t] = s.backoff[j][t] /\ g.due[j][t] = s.due[j][t]
      BY <1>3, <1>4, <2>2
    <3>2. Paced(s.backoff[j][t], s.due[j][t]) /\ Wider(Now.due[j][t], s.due[j][t])
      BY <1>1 DEF Timed, Waiting
    <3> QED BY <3>1, <3>2
  <2> QED BY <2>1, <2>2
<1>8. Given(g)
  BY <1>4, <1>5, <1>6, InputGiven
<1> QED BY <1>8 DEF g, B, D

LEMMA FailingGiven ==
  ASSUME Kept, NEW s, Given(s), SameWaits(s), NEW k \in Keys, NEW slot \in Slots
  PROVE  Given(Failing(s, k, slot))
<1> DEFINE old == s.backoff[k][slot]
           entry == Widened(old)
           d == [wait |-> entry.left, age |-> 0]
<1>1. s \in States /\ Timed(s, k) /\ s.due = Now.due
  BY GivenInput DEF SameWaits
<1>2. /\ old \in Entries /\ s.due[k][slot] \in [wait : Nat, age : Nat]
      /\ Paced(old, s.due[k][slot])
  BY <1>1, TypedFields DEF Timed, Waiting
<1> HIDE DEF old
<1>3. /\ entry \in Entries /\ d \in [wait : Nat, age : Nat] /\ Paced(entry, d)
      /\ Wider(s.due[k][slot], d)
  BY <1>2, FailureWidens
<1> HIDE DEF d, entry
<1>4. Given([s EXCEPT !.backoff[k][slot] = entry, !.due[k][slot] = d])
  BY <1>1, <1>3, SlotGiven
<1> QED BY <1>4 DEF Failing, old, entry, d

LEMMA ClearingGiven ==
  ASSUME Kept, NEW s, Given(s), SameWaits(s), NEW k \in Keys, NEW slot \in Slots
  PROVE  Given(Clearing(s, k, slot))
<1> DEFINE d == [wait |-> 0, age |-> 0]
<1>1. Forgotten \in Entries /\ d \in [wait : Nat, age : Nat] /\ Paced(Forgotten, d)
  BY ConstantsAre DEF Forgotten, Entries, Paced
<1>2. Wider(Now.due[k][slot], d)
  BY DEF Wider
<1> HIDE DEF d
<1>3. Given([s EXCEPT !.backoff[k][slot] = Forgotten, !.due[k][slot] = d])
  BY <1>1, <1>2, SlotGiven
<1> QED BY <1>3 DEF Clearing, d

\* A head: every wait is a block shorter.
LEMMA HeadKeeps ==
  ASSUME Kept, NewHead
  PROVE  Stepped
<1> DEFINE n == Now
           Next(d) == IF d.wait = 0 \/ d.age + 1 >= d.wait + MaxBlocks THEN [wait |-> 0, age |-> 0]
                      ELSE [wait |-> d.wait, age |-> d.age + 1]
           B == [k \in Keys |-> [t \in Slots |-> AfterHead(n.backoff[k][t])]]
           D == [k \in Keys |-> [t \in Slots |-> Next(n.due[k][t])]]
           g == [n EXCEPT !.backoff = B, !.due = D]
<1>1. n \in States /\ n.asked = {} /\ \A k \in Keys : Fit(n, k) /\ Timed(n, k)
  BY NowGiven
<1>2. Step(g)
  <2>1. B = Aged
    BY DEF Aged, Now
  <2> HIDE DEF B
  <2>2. Step([n EXCEPT !.backoff = B, !.due = D])
    BY <2>1 DEF NewHead
  <2> QED BY <2>2
<1> HIDE DEF n
<1>3. ASSUME NEW k \in Keys, NEW t \in Slots
      PROVE  /\ AfterHead(n.backoff[k][t]) \in Entries /\ Next(n.due[k][t]) \in [wait : Nat, age : Nat]
             /\ Paced(AfterHead(n.backoff[k][t]), Next(n.due[k][t]))
             /\ Wider(n.due[k][t], Next(n.due[k][t]))
  <2>1. /\ n.backoff[k][t] \in Entries /\ n.due[k][t] \in [wait : Nat, age : Nat]
        /\ Paced(n.backoff[k][t], n.due[k][t])
    BY <1>1, TypedFields DEF Timed, Waiting
  <2> QED BY <2>1, HeadPaces
<1> HIDE DEF Next
<1>4. /\ B \in Backoffs /\ D \in Dues
      /\ \A k \in Keys, t \in Slots : B[k][t] = AfterHead(n.backoff[k][t]) /\ D[k][t] = Next(n.due[k][t])
  BY <1>3 DEF Backoffs, Dues
<1> HIDE DEF B, D
<1>5. /\ g \in States /\ g.asked = {} /\ g.backoff = B /\ g.due = D
      /\ g.preparing = n.preparing /\ g.ready = n.ready /\ g.submitted = n.submitted
      /\ g.acts = n.acts /\ g.ended = n.ended /\ g.declined = n.declined /\ g.stale = n.stale
  BY <1>1, <1>4 DEF States
<1> HIDE DEF g
<1>6. \A k \in Keys : Timed(g, k)
  BY <1>3, <1>4, <1>5 DEF Timed, Waiting, n
<1>7. \A k \in Keys : Fit(g, k)
  <2> TAKE k \in Keys
  <2>1. SameAt(g, k)
    BY <1>5 DEF SameAt, n
  <2> QED BY <2>1, FitSame
<1> QED BY <1>2, <1>5, <1>6, <1>7, InputGiven, StepKeeps

-----------------------------------------------------------------------------
(* Preparations' answers.                                                  *)

\* An input that reaches one key's work.
LEMMA OneKeyGiven ==
  ASSUME Kept, NEW k \in Keys, NEW g \in States, g.asked = {}, SameWaits(g), Fit(g, k),
         \A j \in Keys \ {k} : SameAt(g, j)
  PROVE  Given(g)
<1>1. \A j \in Keys : Fit(g, j)
  BY FitSame
<1>2. \A j \in Keys : Timed(g, j)
  BY TimedSame DEF SameWaits
<1> QED BY <1>1, <1>2, InputGiven

\* A key whose preparation is answered: its place is free, and so is the decline of that task.
LEMMA FreeIs ==
  ASSUME Kept, NEW k \in Keys, family.preparing[k] # None
  PROVE  LET f == Free(k)
             p == Now.preparing[k]
         IN /\ p \in Tickets /\ p = family.preparing[k] /\ f \in States /\ f.asked = {} /\ SameWaits(f)
            /\ f.preparing = [Now.preparing EXCEPT ![k] = None] /\ f.ready = Now.ready
            /\ f.submitted = Now.submitted /\ f.acts = Now.acts /\ f.ended = Now.ended
            /\ f.stale = Now.stale
            /\ f.declined = [Now.declined EXCEPT ![k][p.want.task] = None]
<1> DEFINE n == Now
           p == n.preparing[k]
           P == [n.preparing EXCEPT ![k] = None]
           D == [n.declined EXCEPT ![k][p.want.task] = None]
           f == [n EXCEPT !.preparing = P, !.declined = D]
<1>1. n \in States /\ n.asked = {} /\ p = family.preparing[k]
  BY NowGiven DEF Now
<1>2. Free(k) = f
  BY DEF Free, Now
<1> HIDE DEF n
<1>3. p \in Tickets /\ p.want.task \in Tasks
  BY <1>1, TypedFields, TicketIs
<1>4. n.preparing \in Preparings /\ n.declined \in Declines
  BY <1>1 DEF States
<1> HIDE DEF p
<1>5. P \in Preparings /\ D \in Declines
  BY <1>3, <1>4 DEF Preparings, Declines
<1> HIDE DEF P, D
<1>6. /\ f \in States /\ f.asked = {} /\ f.backoff = n.backoff /\ f.due = n.due
      /\ f.preparing = P /\ f.ready = n.ready /\ f.submitted = n.submitted /\ f.acts = n.acts
      /\ f.ended = n.ended /\ f.stale = n.stale /\ f.declined = D
  BY <1>1, <1>5 DEF States
<1> HIDE DEF f
<1> QED BY <1>1, <1>2, <1>3, <1>6 DEF SameWaits, n, p, P, D

LEMMA FreeGiven ==
  ASSUME Kept, NEW k \in Keys, family.preparing[k] # None
  PROVE  Given(Free(k)) /\ SameWaits(Free(k))
<1> DEFINE f == Free(k)
           n == Now
           p == n.preparing[k]
<1>1. /\ p \in Tickets /\ f \in States /\ f.asked = {} /\ SameWaits(f)
      /\ f.preparing = [n.preparing EXCEPT ![k] = None] /\ f.ready = n.ready
      /\ f.submitted = n.submitted /\ f.acts = n.acts /\ f.ended = n.ended /\ f.stale = n.stale
      /\ f.declined = [n.declined EXCEPT ![k][p.want.task] = None]
  BY FreeIs
<1>2. n \in States /\ Fit(n, k)
  BY NowGiven
<1>3. p # None /\ p.want.task \in Tasks
  BY <1>1, ConstantsAre, TicketIs
<1> HIDE DEF f, n, p
<1>4. /\ f.preparing[k] = None /\ f.declined[k] = [n.declined[k] EXCEPT ![p.want.task] = None]
      /\ \A j \in Keys \ {k} : f.preparing[j] = n.preparing[j] /\ f.declined[j] = n.declined[j]
      /\ \A t \in Tasks : f.declined[k][t] = IF t = p.want.task THEN None ELSE n.declined[k][t]
  <2>1. n.preparing \in Preparings /\ n.declined \in Declines
    BY <1>2 DEF States
  <2> QED BY <1>1, <1>3, <2>1 DEF Preparings, Declines
<1>5. Fit(f, k)
  <2>1. OneAtATime(n, k) => OneAtATime(f, k)
    BY <1>1, <1>4 DEF OneAtATime
  <2>2. Remembered(n, k, Fingerprint(Now, k)) => Remembered(f, k, Fingerprint(Now, k))
    BY <1>1, <1>3, <1>4 DEF Remembered, p
  <2>3. Sends(f, k) = Sends(n, k)
    BY <1>1 DEF Sends
  <2> QED BY <1>1, <1>2, <1>4, <2>1, <2>2, <2>3 DEF Fit, n
<1>6. \A j \in Keys \ {k} : SameAt(f, j)
  BY <1>1, <1>4 DEF SameAt, n
<1>8. Given(f)
  BY <1>1, <1>5, <1>6, OneKeyGiven
<1> QED BY <1>1, <1>8 DEF f

\* An act is ready unless its ticket was voided.
LEMMA ReadiedGiven ==
  ASSUME Kept, NEW k \in Keys, family.preparing[k] # None, ~family.preparing[k].void
  PROVE  Given([Free(k) EXCEPT !.ready[k] = Readied(family.preparing[k])])
<1> DEFINE f == Free(k)
           n == Now
           p == n.preparing[k]
           r == Readied(p)
           R == [f.ready EXCEPT ![k] = r]
           g == [f EXCEPT !.ready = R]
<1>1. /\ p \in Tickets /\ f \in States /\ f.asked = {} /\ SameWaits(f) /\ p = family.preparing[k]
      /\ f.preparing = [n.preparing EXCEPT ![k] = None] /\ f.ready = n.ready
      /\ f.submitted = n.submitted /\ f.acts = n.acts /\ f.ended = n.ended /\ f.stale = n.stale
  BY FreeIs
<1>2. n \in States /\ Fit(n, k) /\ Given(f)
  BY NowGiven, FreeGiven
<1>3. Fit(f, k) /\ \A j \in Keys : Fit(f, j)
  BY <1>2, GivenInput
<1>4. /\ r \in ReadyTickets /\ r.want = p.want /\ ~r.void
      /\ p # None /\ ~p.void /\ p.want.task \in Tasks
  <2>1. p # None /\ ~p.void /\ p.want.task \in Tasks
    BY <1>1, TicketIs
  <2> HIDE DEF p
  <2> QED BY <1>1, <2>1 DEF Readied, Tickets, ReadyTickets
<1>5. k \notin closed
  BY <1>2, <1>4 DEF Fit
<1> HIDE DEF f, n, p, r
<1>6. f.preparing[k] = None /\ \A j \in Keys \ {k} : f.preparing[j] = n.preparing[j]
  <2>1. n.preparing \in Preparings
    BY <1>2 DEF States
  <2> QED BY <1>1, <2>1 DEF Preparings
<1>7. R \in Readies /\ R[k] = r /\ \A j \in Keys \ {k} : R[j] = f.ready[j]
  <2>1. f.ready \in Readies
    BY <1>1 DEF States
  <2> QED BY <1>4, <2>1 DEF Readies
<1> HIDE DEF R
<1>8. /\ g \in States /\ g.asked = {} /\ g.backoff = f.backoff /\ g.due = f.due
      /\ g.preparing = f.preparing /\ g.ready = R /\ g.submitted = f.submitted /\ g.acts = f.acts
      /\ g.ended = f.ended /\ g.stale = f.stale /\ g.declined = f.declined
  BY <1>1, <1>7 DEF States
<1> HIDE DEF g
<1>9. Fit(g, k)
  <2>1. OneAtATime(f, k) => OneAtATime(g, k)
    BY <1>4, <1>6, <1>7, <1>8 DEF OneAtATime
  <2>2. n.ended[k][p.want.task] # "declined"
    BY <1>2, <1>4 DEF Fit, Remembered, p
  <2>3. Remembered(f, k, Fingerprint(Now, k)) => Remembered(g, k, Fingerprint(Now, k))
    BY <1>1, <1>4, <1>6, <1>7, <1>8, <2>2 DEF Remembered
  <2>4. Sends(g, k) = Sends(f, k)
    BY <1>8 DEF Sends
  <2> QED BY <1>3, <1>5, <1>6, <1>8, <2>1, <2>3, <2>4 DEF Fit
<1>10. \A j \in Keys \ {k} : Fit(g, j)
  <2> TAKE j \in Keys \ {k}
  <2>1. /\ g.preparing[j] = f.preparing[j] /\ g.ready[j] = f.ready[j]
    BY <1>7, <1>8
  <2>2. OneAtATime(f, j) => OneAtATime(g, j)
    BY <1>8, <2>1 DEF OneAtATime
  <2>3. Remembered(f, j, Fingerprint(Now, j)) => Remembered(g, j, Fingerprint(Now, j))
    BY <1>8, <2>1 DEF Remembered
  <2>4. Sends(g, j) = Sends(f, j)
    BY <1>8 DEF Sends
  <2> QED BY <1>3, <2>1, <2>2, <2>3, <2>4 DEF Fit
<1>11. \A j \in Keys : Timed(g, j)
  BY <1>1, <1>8, TimedSame DEF SameWaits
<1>13. Given(g)
  BY <1>3, <1>8, <1>9, <1>10, <1>11, InputGiven
<1> QED BY <1>1, <1>13 DEF g, R, f, r

\* A decline is remembered on the values it was given on; those of the step before count as now.
LEMMA DeclinedGiven ==
  ASSUME Kept, NEW k \in Keys, family.preparing[k] # None, NEW same \in BOOLEAN,
         same => Fingerprint(Now, k) = family.preparing[k].basis
  PROVE  LET p == family.preparing[k]
         IN Given(Declining([Free(k) EXCEPT !.ended[k][p.want.task] = IF same THEN "declined" ELSE @],
                            k, p))
<1> DEFINE f == Free(k)
           n == Now
           p == n.preparing[k]
           t == p.want.task
           E == [f.ended EXCEPT ![k][t] = IF same THEN "declined" ELSE f.ended[k][t]]
           D == [f.declined EXCEPT ![k][t] = p.basis]
           g == [f EXCEPT !.ended = E, !.declined = D]
<1>1. /\ p \in Tickets /\ f \in States /\ f.asked = {} /\ SameWaits(f) /\ p = family.preparing[k]
      /\ f.preparing = [n.preparing EXCEPT ![k] = None] /\ f.ready = n.ready
      /\ f.submitted = n.submitted /\ f.acts = n.acts /\ f.ended = n.ended /\ f.stale = n.stale
  BY FreeIs
<1>2. n \in States /\ Given(f)
  BY NowGiven, FreeGiven
<1>3. Fit(f, k) /\ \A j \in Keys : Fit(f, j)
  BY <1>2, GivenInput
<1>4. t \in Tasks /\ p.basis \in Prints /\ p # None
  BY <1>1, TicketIs
<1>5. Fit(n, k) /\ (same => p.basis = Fingerprint(Now, k))
  BY <1>1, NowGiven
<1>6. Declining([f EXCEPT !.ended = E], k, p) = g
  BY DEF Declining
<1> HIDE DEF f, n, p
<1>7. f.preparing[k] = None /\ f.ended \in Endings /\ f.declined \in Declines
  <2>1. n.preparing \in Preparings
    BY <1>2 DEF States
  <2> QED BY <1>1, <2>1 DEF States, Preparings
<1> HIDE DEF t
<1>8. /\ E \in Endings /\ D \in Declines
      /\ \A j \in Keys \ {k} : E[j] = f.ended[j] /\ D[j] = f.declined[j]
      /\ \A u \in Tasks : /\ E[k][u] = IF u = t /\ same THEN "declined" ELSE f.ended[k][u]
                          /\ D[k][u] = IF u = t THEN p.basis ELSE f.declined[k][u]
  <2>1. /\ E \in Endings /\ \A j \in Keys \ {k} : E[j] = f.ended[j]
        /\ \A u \in Tasks : E[k][u] = IF u = t /\ same THEN "declined" ELSE f.ended[k][u]
    BY <1>4, <1>7 DEF Endings
  <2>2. /\ D \in Declines /\ \A j \in Keys \ {k} : D[j] = f.declined[j]
        /\ \A u \in Tasks : D[k][u] = IF u = t THEN p.basis ELSE f.declined[k][u]
    BY <1>4, <1>7 DEF Declines
  <2> QED BY <2>1, <2>2
<1> HIDE DEF E, D
<1>9. /\ g \in States /\ g.asked = {} /\ g.backoff = f.backoff /\ g.due = f.due
      /\ g.preparing = f.preparing /\ g.ready = f.ready /\ g.submitted = f.submitted
      /\ g.acts = f.acts /\ g.ended = E /\ g.stale = f.stale /\ g.declined = D
  BY <1>1, <1>8 DEF States
<1> HIDE DEF g
<1>10. Fit(g, k)
  <2>1. OneAtATime(f, k) => OneAtATime(g, k)
    BY <1>9 DEF OneAtATime
  <2>2. f.ended[k][t] # "declined" /\ f.ready[k] = None
    <3>1. n.preparing[k] # None /\ OneAtATime(n, k) /\ Remembered(n, k, Fingerprint(Now, k))
      BY <1>4, <1>5 DEF Fit, p
    <3> QED BY <1>1, <3>1 DEF OneAtATime, Remembered, t, p
  <2>3. ASSUME Remembered(f, k, Fingerprint(Now, k)) PROVE Remembered(g, k, Fingerprint(Now, k))
    <3>1. ASSUME NEW u \in Tasks
          PROVE  /\ g.ended[k][u] = "declined" => g.declined[k][u] = Fingerprint(Now, k)
                 /\ g.ended[k][u] = "stale" => u \in g.stale[k]
      BY <1>5, <1>8, <1>9, <2>2, <2>3 DEF Remembered
    <3>2. g.preparing[k] = None /\ g.ready[k] = None
      BY <1>7, <1>9, <2>2
    <3> QED BY <3>1, <3>2 DEF Remembered
  <2>4. Sends(g, k) = Sends(f, k)
    BY <1>9 DEF Sends
  <2> QED BY <1>3, <1>9, <2>1, <2>3, <2>4 DEF Fit
<1>11. \A j \in Keys \ {k} : Fit(g, j)
  <2> TAKE j \in Keys \ {k}
  <2>1. /\ g.ended[j] = f.ended[j] /\ g.declined[j] = f.declined[j]
    BY <1>8, <1>9
  <2>2. OneAtATime(f, j) => OneAtATime(g, j)
    BY <1>9 DEF OneAtATime
  <2>3. Remembered(f, j, Fingerprint(Now, j)) => Remembered(g, j, Fingerprint(Now, j))
    BY <1>9, <2>1 DEF Remembered
  <2>4. Sends(g, j) = Sends(f, j)
    BY <1>9 DEF Sends
  <2> QED BY <1>3, <1>9, <2>2, <2>3, <2>4 DEF Fit
<1>12. \A j \in Keys : Timed(g, j)
  BY <1>1, <1>9, TimedSame DEF SameWaits
<1>14. Given(g)
  BY <1>9, <1>10, <1>11, <1>12, InputGiven
<1>15. Given(Declining([f EXCEPT !.ended = E], k, p))
  BY <1>6, <1>14
<1> QED BY <1>1, <1>15 DEF E, f, t

\* Each answer to a preparation.
LEMMA AnswersKeep ==
  ASSUME Kept, NEW k \in Keys
  PROVE  /\ Ok(k) => Stepped
         /\ Decline(k) => Stepped
         /\ GiveUp(k) => Stepped
<1>1. ASSUME Ok(k) PROVE Stepped
  <2>1. family.preparing[k] # None
    BY <1>1 DEF Ok
  <2>2. CASE family.preparing[k].void
    <3>1. Step(Free(k))
      BY <1>1, <2>2 DEF Ok
    <3> QED BY <2>1, <3>1, FreeGiven, StepKeeps
  <2>3. CASE ~family.preparing[k].void
    <3>1. Step([Free(k) EXCEPT !.ready[k] = Readied(family.preparing[k])])
      BY <1>1, <2>3 DEF Ok
    <3> QED BY <2>1, <2>3, <3>1, ReadiedGiven, StepKeeps
  <2> QED BY <2>2, <2>3
<1>2. ASSUME Decline(k) PROVE Stepped
  <2>1. family.preparing[k] # None
    BY <1>2 DEF Decline
  <2>2. CASE family.preparing[k].void
    <3>1. Step(Free(k))
      BY <1>2, <2>2 DEF Decline
    <3> QED BY <2>1, <3>1, FreeGiven, StepKeeps
  <2>3. CASE ~family.preparing[k].void
    <3> DEFINE p == family.preparing[k]
               same == Fingerprint(Now, k) = p.basis /\ k \notin closed
               g == Declining([Free(k) EXCEPT !.ended[k][p.want.task] =
                                 IF same THEN "declined" ELSE @], k, p)
    <3>1. Step(g)
      BY <1>2, <2>3 DEF Decline
    <3>2. same \in BOOLEAN /\ (same => Fingerprint(Now, k) = p.basis)
      OBVIOUS
    <3> HIDE DEF same
    <3>3. Given(g)
      BY <2>1, <3>2, DeclinedGiven
    <3> QED BY <3>1, <3>3, StepKeeps
  <2> QED BY <2>2, <2>3
<1>3. ASSUME GiveUp(k) PROVE Stepped
  <2>1. family.preparing[k] # None /\ Step(Failing(Free(k), k, family.preparing[k].want.task))
    BY <1>3 DEF GiveUp
  <2>2. family.preparing[k].want.task \in Slots
    BY <2>1, FreeIs, TicketIs
  <2>3. Given(Failing(Free(k), k, family.preparing[k].want.task))
    BY <2>1, <2>2, FreeGiven, FailingGiven
  <2> QED BY <2>1, <2>3, StepKeeps
<1> QED BY <1>1, <1>2, <1>3

-----------------------------------------------------------------------------
(* The kernel's answers.                                                   *)

\* A list of one loses its only member.
LEMMA OneRemoved ==
  ASSUME NEW a
  PROVE  RemoveAt(<<a>>, 1) = <<>>
<1>1. RemoveAt(<<a>>, 1) = SubSeq(<<a>>, 1, 0) \o SubSeq(<<a>>, 2, 1)
  BY DEF RemoveAt
<1>2. SubSeq(<<a>>, 1, 0) = <<>> /\ SubSeq(<<a>>, 2, 1) = <<>>
  OBVIOUS
<1>3. <<>> \o <<>> = <<>>
  OBVIOUS
<1> QED BY <1>1, <1>2, <1>3, Zenon

\* A key's act in the kernel is its only one.
LEMMA ActIs ==
  ASSUME Kept, NEW k \in Keys, NEW i \in DOMAIN acts[k]
  PROVE  /\ i = 1 /\ Now.acts = acts /\ acts[k] = <<acts[k][1]>> /\ acts[k][1] \in Acts
         /\ acts[k] # <<>> /\ acts[k][1].task \in Slots
<1>1. Now \in States /\ Now.acts = acts
  BY NowGiven DEF Now
<1>2. acts[k] = <<>> \/ \E a \in Acts : acts[k] = <<a>>
  BY <1>1, TypedFields
<1>3. DOMAIN <<>> = {}
  OBVIOUS
<1>4. PICK a \in Acts : acts[k] = <<a>>
  BY <1>2, <1>3
<1>5. DOMAIN <<a>> = {1} /\ <<a>>[1] = a /\ <<a>> # <<>>
  OBVIOUS
<1>6. a.task \in Slots
  BY DEF Acts
<1>7. i \in DOMAIN <<a>> /\ acts[k][1] = <<a>>[1]
  BY <1>4
<1>8. acts[k][1] = a /\ i = 1
  BY <1>5, <1>7
<1> HIDE DEF Now
<1> QED BY <1>1, <1>4, <1>5, <1>6, <1>8

\* An input that reaches the acts.
LEMMA HeardGiven ==
  ASSUME Kept, NEW g \in States, g.asked = {}, SameWaits(g),
         g.preparing = Now.preparing, g.ready = Now.ready, g.declined = Now.declined,
         g.ended = Now.ended, g.stale = Now.stale,
         \A j \in Keys :
           (g.submitted[j] # None <=> Sends(g, j)) /\ (Sends(g, j) => Sends(Now, j))
  PROVE  Given(g)
<1> DEFINE n == Now
<1>1. /\ \A j \in Keys : Fit(n, j)
      /\ g.backoff = n.backoff /\ g.due = n.due
  BY NowGiven DEF SameWaits
<1>2. /\ g.preparing = n.preparing /\ g.ready = n.ready /\ g.declined = n.declined
      /\ g.ended = n.ended /\ g.stale = n.stale
      /\ \A j \in Keys : Sends(g, j) => Sends(n, j)
  OBVIOUS
<1>3. \A j \in Keys : Timed(g, j)
  BY <1>1, TimedSame
<1> HIDE DEF n
<1>4. ASSUME NEW j \in Keys PROVE Fit(g, j)
  <2>1. OneAtATime(n, j) => OneAtATime(g, j)
    BY <1>2 DEF OneAtATime, Sends
  <2>2. Remembered(n, j, Fingerprint(Now, j)) => Remembered(g, j, Fingerprint(Now, j))
    BY <1>2 DEF Remembered
  <2> QED BY <1>1, <1>2, <2>1, <2>2 DEF Fit, n
<1> QED BY <1>3, <1>4, InputGiven

\* An act replaced in the kernel's list, noticed or not.
LEMMA ReplacedGiven ==
  ASSUME Kept, NEW k \in Keys, NEW list \in {<<>>} \cup {<<a>> : a \in Acts},
         list # <<>> => list[1].at # "sent"
  PROVE  LET n == Now
             A == [n.acts EXCEPT ![k] = list]
         IN /\ Given([n EXCEPT !.acts = A, !.submitted[k] = None])
            /\ SameWaits([n EXCEPT !.acts = A, !.submitted[k] = None])
            /\ n.submitted[k] = None => Given([n EXCEPT !.acts = A]) /\ SameWaits([n EXCEPT !.acts = A])
<1> DEFINE n == Now
           A == [n.acts EXCEPT ![k] = list]
           S == [n.submitted EXCEPT ![k] = None]
           g == [n EXCEPT !.acts = A, !.submitted = S]
           h == [n EXCEPT !.acts = A]
<1>1. n \in States /\ n.asked = {} /\ \A j \in Keys : OneAtATime(n, j)
  BY NowGiven DEF Fit
<1> HIDE DEF n
<1>3. n.acts \in ActLists /\ n.submitted \in Sents
  BY <1>1 DEF States
<1>4. A \in ActLists /\ A[k] = list /\ \A j \in Keys \ {k} : A[j] = n.acts[j]
  BY <1>3 DEF ActLists
<1>5. S \in Sents /\ S[k] = None /\ \A j \in Keys \ {k} : S[j] = n.submitted[j]
  BY <1>3 DEF Sents
<1> HIDE DEF A, S
<1>6. /\ g \in States /\ g.asked = {} /\ g.backoff = n.backoff /\ g.due = n.due
      /\ g.preparing = n.preparing /\ g.ready = n.ready /\ g.ended = n.ended /\ g.stale = n.stale
      /\ g.declined = n.declined /\ g.acts = A /\ g.submitted = S
  BY <1>1, <1>4, <1>5 DEF States
<1>7. /\ h \in States /\ h.asked = {} /\ h.backoff = n.backoff /\ h.due = n.due
      /\ h.preparing = n.preparing /\ h.ready = n.ready /\ h.ended = n.ended /\ h.stale = n.stale
      /\ h.declined = n.declined /\ h.acts = A /\ h.submitted = n.submitted
  BY <1>1, <1>4 DEF States
<1> HIDE DEF g, h
<1>8. ASSUME NEW e, e.acts = A, NEW j \in Keys
      PROVE  IF j = k THEN ~Sends(e, j) ELSE (Sends(e, j) <=> Sends(n, j))
  BY <1>4, <1>8 DEF Sends
<1>9. Given(g) /\ SameWaits(g)
  <2>1. SameWaits(g)
    BY <1>6 DEF SameWaits, n
  <2>2. ASSUME NEW j \in Keys
        PROVE  (g.submitted[j] # None <=> Sends(g, j)) /\ (Sends(g, j) => Sends(n, j))
    BY <1>1, <1>5, <1>6, <1>8 DEF OneAtATime, Sends
  <2> QED BY <1>6, <2>1, <2>2, HeardGiven DEF n
<1>10. ASSUME n.submitted[k] = None PROVE Given(h) /\ SameWaits(h)
  <2>1. SameWaits(h)
    BY <1>7 DEF SameWaits, n
  <2>2. ASSUME NEW j \in Keys
        PROVE  (h.submitted[j] # None <=> Sends(h, j)) /\ (Sends(h, j) => Sends(n, j))
    BY <1>1, <1>7, <1>8, <1>10 DEF OneAtATime, Sends
  <2> QED BY <1>7, <2>1, <2>2, HeardGiven DEF n
<1> QED BY <1>9, <1>10 DEF g, h, A, S, n

\* An act that ends leaves its key free.
LEMMA EndsGiven ==
  ASSUME Kept, NEW k \in Keys, NEW i \in DOMAIN acts[k]
  PROVE  /\ LET r == Noticed(Ends(Now, k, i), k) IN Given(r) /\ SameWaits(r)
         /\ ~At(k, i, {"sent"}) => Given(Ends(Now, k, i)) /\ SameWaits(Ends(Now, k, i))
<1> DEFINE n == Now
           A == [n.acts EXCEPT ![k] = <<>>]
<1>1. i = 1 /\ n.acts = acts /\ acts[k] = <<acts[k][1]>>
  BY ActIs
<1>2. RemoveAt(n.acts[k], i) = <<>>
  <2> DEFINE a == acts[k][1]
  <2>1. n.acts[k] = <<a>>
    BY <1>1
  <2> HIDE DEF a, n
  <2> QED BY <1>1, <2>1, OneRemoved
<1>3. Ends(n, k, i) = [n EXCEPT !.acts = A]
  <2>1. Ends(n, k, i) = [n EXCEPT !.acts = [n.acts EXCEPT ![k] = RemoveAt(n.acts[k], i)]]
    BY DEF Ends
  <2> HIDE DEF n
  <2> QED BY <1>2, <2>1, Zenon
<1>4. Noticed([n EXCEPT !.acts = A], k) = [n EXCEPT !.acts = A, !.submitted[k] = None]
  BY DEF Noticed
<1>5. /\ Given([n EXCEPT !.acts = A, !.submitted[k] = None])
      /\ SameWaits([n EXCEPT !.acts = A, !.submitted[k] = None])
      /\ n.submitted[k] = None => Given([n EXCEPT !.acts = A]) /\ SameWaits([n EXCEPT !.acts = A])
  BY ReplacedGiven
<1>6. ~At(k, i, {"sent"}) => n.submitted[k] = None
  <2>1. OneAtATime(n, k)
    BY NowGiven DEF Fit
  <2> HIDE DEF n
  <2> QED BY <1>1, <2>1 DEF OneAtATime, At
<1> HIDE DEF A
<1> QED BY <1>3, <1>4, <1>5, <1>6

\* A stale refusal of what was current is held until the fact is read again.
LEMMA StaleGiven ==
  ASSUME Kept, NEW s, Given(s), NEW k \in Keys, NEW t \in Tasks, NEW current \in BOOLEAN
  PROVE  Given([s EXCEPT !.stale[k] = @ \cup (IF current THEN {t} ELSE {}),
                         !.ended[k][t] = IF current THEN "stale" ELSE @])
<1> DEFINE T == [s.stale EXCEPT ![k] = s.stale[k] \cup (IF current THEN {t} ELSE {})]
           E == [s.ended EXCEPT ![k][t] = IF current THEN "stale" ELSE s.ended[k][t]]
           g == [s EXCEPT !.stale = T, !.ended = E]
<1>1. s \in States /\ s.asked = {} /\ \A j \in Keys : Fit(s, j) /\ Timed(s, j)
  BY GivenInput
<1>2. s.stale \in Stales /\ s.ended \in Endings
  BY <1>1 DEF States
<1>3. /\ T \in Stales /\ \A j \in Keys : s.stale[j] \subseteq T[j]
      /\ current => t \in T[k]
  BY <1>2 DEF Stales
<1>4. /\ E \in Endings
      /\ \A j \in Keys, u \in Tasks :
           E[j][u] = IF j = k /\ u = t /\ current THEN "stale" ELSE s.ended[j][u]
  BY <1>2 DEF Endings
<1> HIDE DEF T, E
<1>5. /\ g \in States /\ g.asked = {} /\ g.backoff = s.backoff /\ g.due = s.due
      /\ g.preparing = s.preparing /\ g.ready = s.ready /\ g.submitted = s.submitted
      /\ g.acts = s.acts /\ g.ended = E /\ g.declined = s.declined /\ g.stale = T
  BY <1>1, <1>3, <1>4 DEF States
<1> HIDE DEF g
<1>6. ASSUME NEW j \in Keys PROVE Fit(g, j) /\ Timed(g, j)
  <2>1. OneAtATime(s, j) => OneAtATime(g, j)
    BY <1>5 DEF OneAtATime
  <2>2. ASSUME Remembered(s, j, Fingerprint(Now, j)) PROVE Remembered(g, j, Fingerprint(Now, j))
    <3>1. ASSUME NEW u \in Tasks
          PROVE  /\ g.ended[j][u] = "declined" => g.declined[j][u] = Fingerprint(Now, j)
                 /\ g.ended[j][u] = "stale" => u \in g.stale[j]
      <4>1. CASE j = k /\ u = t /\ current
        BY <1>3, <1>4, <1>5, <4>1
      <4>2. CASE ~(j = k /\ u = t /\ current)
        <5>1. g.ended[j][u] = s.ended[j][u]
          BY <1>4, <1>5, <4>2
        <5> QED BY <1>3, <1>5, <2>2, <5>1 DEF Remembered
      <4> QED BY <4>1, <4>2
    <3>2. /\ s.preparing[j] # None => s.preparing[j].want.task \in Tasks
          /\ s.ready[j] # None => s.ready[j].want.task \in Tasks
      <4> DEFINE p == s.preparing[j]
                 r == s.ready[j]
      <4>1. p \in Tickets \cup {None} /\ r \in ReadyTickets \cup {None}
        BY <1>1, TypedFields
      <4> HIDE DEF p, r
      <4>2. (p # None => p.want.task \in Tasks) /\ (r # None => r.want.task \in Tasks)
        BY <4>1, TicketIs
      <4> QED BY <4>2 DEF p, r
    <3>3. /\ g.preparing[j] # None => g.ended[j][g.preparing[j].want.task] # "declined"
          /\ g.ready[j] # None => g.ended[j][g.ready[j].want.task] # "declined"
      BY <1>4, <1>5, <2>2, <3>2 DEF Remembered
    <3> QED BY <3>1, <3>3 DEF Remembered
  <2>3. Sends(g, j) = Sends(s, j)
    BY <1>5 DEF Sends
  <2>4. Waiting(s, j) => Waiting(g, j)
    BY <1>5 DEF Waiting
  <2> QED BY <1>1, <1>5, <2>1, <2>2, <2>3, <2>4 DEF Fit, Timed
<1>8. Given(g)
  BY <1>5, <1>6, InputGiven
<1> QED BY <1>8 DEF g, T, E

\* A list of one with another in its place.
LEMMA OneReplaced ==
  ASSUME NEW a, NEW b
  PROVE  [<<a>> EXCEPT ![1] = b] = <<b>>
<1>1. [<<a>> EXCEPT ![1] = b] \in [{1} -> {b}]
  OBVIOUS
<1>2. <<b>> \in [{1} -> {b}]
  OBVIOUS
<1> QED BY <1>1, <1>2

\* An act that goes on in the kernel.
LEMMA BecomesGiven ==
  ASSUME Kept, NEW k \in Keys, NEW i \in DOMAIN acts[k], NEW b \in Acts, b.at # "sent"
  PROVE  /\ LET r == Noticed(Becomes(k, i, b), k) IN Given(r) /\ SameWaits(r)
         /\ ~At(k, i, {"sent"}) => Given(Becomes(k, i, b)) /\ SameWaits(Becomes(k, i, b))
<1> DEFINE n == Now
           list == <<b>>
           A == [n.acts EXCEPT ![k] = list]
<1>1. i = 1 /\ n.acts = acts /\ acts[k] = <<acts[k][1]>>
  BY ActIs
<1>2. [n.acts[k] EXCEPT ![i] = b] = list
  <2> DEFINE a == acts[k][1]
  <2>1. n.acts[k] = <<a>>
    BY <1>1
  <2> HIDE DEF a, n
  <2>2. [<<a>> EXCEPT ![1] = b] = <<b>>
    BY OneReplaced
  <2> QED BY <1>1, <2>1, <2>2, Zenon
<1>3. Becomes(k, i, b) = [n EXCEPT !.acts = A]
  <2>1. Becomes(k, i, b) = [n EXCEPT !.acts = [n.acts EXCEPT ![k] = [n.acts[k] EXCEPT ![i] = b]]]
    BY DEF Becomes
  <2> HIDE DEF n, list
  <2> QED BY <1>2, <2>1, Zenon
<1>4. Noticed([n EXCEPT !.acts = A], k) = [n EXCEPT !.acts = A, !.submitted[k] = None]
  BY DEF Noticed
<1>5. list \in {<<>>} \cup {<<x>> : x \in Acts} /\ list[1] = b
  OBVIOUS
<1> HIDE DEF list
<1>6. /\ Given([n EXCEPT !.acts = A, !.submitted[k] = None])
      /\ SameWaits([n EXCEPT !.acts = A, !.submitted[k] = None])
      /\ n.submitted[k] = None => Given([n EXCEPT !.acts = A]) /\ SameWaits([n EXCEPT !.acts = A])
  BY <1>5, ReplacedGiven
<1>7. ~At(k, i, {"sent"}) => n.submitted[k] = None
  <2>1. OneAtATime(n, k)
    BY NowGiven DEF Fit
  <2> HIDE DEF n
  <2> QED BY <1>1, <2>1 DEF OneAtATime, At
<1> HIDE DEF A
<1> QED BY <1>3, <1>4, <1>6, <1>7

\* An act that is over, with its entries or without.
LEMMA OverGiven ==
  ASSUME Kept, NEW k \in Keys, NEW i \in DOMAIN acts[k], NEW at \in Compensated,
         NEW stays \in BOOLEAN, ~At(k, i, {"sent"})
  PROVE  LET s == IF stays THEN Left(k, i, at) ELSE Ends(Now, k, i) IN Given(s) /\ SameWaits(s)
<1> DEFINE b == [acts[k][i] EXCEPT !.at = at]
<1>1. acts[k][i] \in Acts
  BY ActIs
<1>2. b \in Acts /\ b.at # "sent"
  BY <1>1 DEF Acts, Compensated
<1> HIDE DEF b
<1>3. Given(Becomes(k, i, b)) /\ SameWaits(Becomes(k, i, b))
  BY <1>2, BecomesGiven
<1>4. Left(k, i, at) = Becomes(k, i, b)
  BY DEF Left, b
<1>5. Given(Ends(Now, k, i)) /\ SameWaits(Ends(Now, k, i))
  BY EndsGiven
<1> QED BY <1>3, <1>4, <1>5

\* The ledger and the marks a transition may leave.
LEMMA LedgersAre ==
  ASSUME Kept
  PROVE  /\ nonces \in Ledgers /\ behind \in Marks
         /\ \A ids : Marked(ids) \subseteq Marks
         /\ \A h \in Holders : Taken(h) \in Ledgers /\ (nonces[h].open > 0 => Resolved(h) \in Ledgers)
         /\ \A k \in Keys : \A i \in DOMAIN acts[k] : StepDone(k, i) \subseteq Ledgers
<1>1. nonces \in Ledgers /\ behind \in Marks
  <2>1. Now \in States /\ Now.nonces = nonces /\ Now.behind = behind
    BY NowGiven DEF Now
  <2> HIDE DEF Now
  <2> QED BY <2>1 DEF States
<1>2. \A ids : Marked(ids) \subseteq Marks
  BY DEF Marked, Marks, AllIds
<1>3. ASSUME NEW h \in Holders
      PROVE  Taken(h) \in Ledgers /\ (nonces[h].open > 0 => Resolved(h) \in Ledgers)
  <2>1. nonces[h] \in [open : Nat, mined : Nat]
    BY <1>1 DEF Ledgers
  <2>2. Taken(h) \in Ledgers
    BY <1>1, <2>1 DEF Taken, Ledgers
  <2>3. ASSUME nonces[h].open > 0 PROVE Resolved(h) \in Ledgers
    <3> DEFINE r == [open |-> nonces[h].open - 1, mined |-> nonces[h].mined + 1]
    <3>1. r \in [open : Nat, mined : Nat]
      BY <2>1, <2>3
    <3>2. Resolved(h) = [nonces EXCEPT ![h] = r]
      <4> DEFINE x == nonces[h]
                 y == [x EXCEPT !.open = @ - 1]
                 m == [nonces EXCEPT ![h] = y]
      <4>1. Resolved(h) = [m EXCEPT ![h].mined = @ + 1]
        BY DEF Resolved
      <4>2. y.mined = x.mined /\ r = [y EXCEPT !.mined = y.mined + 1]
        <5>1. x \in [open : Nat, mined : Nat] /\ r = [open |-> x.open - 1, mined |-> x.mined + 1]
          BY <2>1
        <5> HIDE DEF x, r
        <5>2. y = [open |-> x.open - 1, mined |-> x.mined]
          BY <5>1
        <5> HIDE DEF y
        <5> QED BY <5>1, <5>2
      <4>3. m[h] = y
        BY <1>1 DEF Ledgers
      <4> HIDE DEF r, x, y
      <4>4. [m EXCEPT ![h].mined = @ + 1] = [m EXCEPT ![h] = r]
        <5> HIDE DEF m
        <5> QED BY <4>2, <4>3
      <4>5. [m EXCEPT ![h] = r] = [nonces EXCEPT ![h] = r]
        OBVIOUS
      <4> QED BY <4>1, <4>4, <4>5
    <3> HIDE DEF r
    <3> QED BY <1>1, <3>1, <3>2 DEF Ledgers
  <2> QED BY <2>2, <2>3
<1>4. ASSUME NEW k \in Keys, NEW i \in DOMAIN acts[k] PROVE StepDone(k, i) \subseteq Ledgers
  <2>1. k \in Holders /\ (Awaited(k, i) => nonces[k].open > 0)
    BY DEF Holders, Awaited
  <2> QED BY <1>1, <1>3, <2>1 DEF StepDone
<1> QED BY <1>1, <1>2, <1>3, <1>4

\* An act of the bot's own: the key holds none.
LEMMA RawKeeps ==
  ASSUME Kept, NEW k \in Keys, ActRaw(k)
  PROVE  Stepped
<1> DEFINE b == [at |-> "admitted", task |-> Untasked, ids |-> {}, rests |-> None, left |-> 1,
                 records |-> 0]
           list == <<b>>
<1>1. Step([Now EXCEPT !.acts = [Now.acts EXCEPT ![k] = list]]) /\ Now.acts[k] = <<>>
  BY DEF ActRaw, Now
<1>2. b \in Acts /\ b.at # "sent"
  BY DEF Acts, Slots, Executing
<1>3. list \in {<<>>} \cup {<<x>> : x \in Acts} /\ list[1] = b
  <2> HIDE DEF b
  <2> QED BY <1>2
<1>4. Now.submitted[k] = None
  <2>1. OneAtATime(Now, k)
    BY NowGiven DEF Fit
  <2> HIDE DEF Now
  <2> QED BY <1>1, <2>1 DEF OneAtATime
<1>5. list # <<>> => list[1].at # "sent"
  BY <1>2, <1>3
<1> HIDE DEF list
<1>6. Given([Now EXCEPT !.acts = [Now.acts EXCEPT ![k] = list]])
  BY <1>3, <1>4, <1>5, ReplacedGiven
<1> QED BY <1>1, <1>6, StepKeeps

\* The kernel's answers to an act: admitted, or refused.
LEMMA AnsweredKeeps ==
  ASSUME Kept, NEW k \in Keys, NEW i \in DOMAIN acts[k]
  PROVE  /\ Admit(k, i) => Stepped
         /\ RefuseAsBad(k, i) => Stepped
         /\ RefuseAsStale(k, i) => Stepped
<1>1. /\ acts[k][i] \in Acts /\ Slot(k, i) \in Slots
  BY ActIs DEF Slot
<1>2. Given(Noticed(Ends(Now, k, i), k)) /\ SameWaits(Noticed(Ends(Now, k, i), k))
  BY EndsGiven
<1>3. ASSUME Admit(k, i) PROVE Stepped
  <2>1. PICK steps \in 1 .. MaxSteps[k] :
          Step(Noticed(Becomes(k, i, [acts[k][i] EXCEPT !.at = "admitted", !.rests = None,
                                                        !.left = steps]), k))
    BY <1>3 DEF Admit
  <2> DEFINE b == [acts[k][i] EXCEPT !.at = "admitted", !.rests = None, !.left = steps]
  <2>2. MaxSteps[k] \in Nat /\ steps \in Nat
    BY ControllerAssumption
  <2>3. b \in Acts /\ b.at # "sent"
    BY <1>1, <2>2 DEF Acts, Executing
  <2>4. Step(Noticed(Becomes(k, i, b), k))
    BY <2>1
  <2> HIDE DEF b
  <2>5. Given(Noticed(Becomes(k, i, b), k))
    BY <2>3, BecomesGiven
  <2> QED BY <2>4, <2>5, StepKeeps
<1>4. ASSUME RefuseAsBad(k, i) PROVE Stepped
  <2>1. Step(Failing(Noticed(Ends(Now, k, i), k), k, Slot(k, i)))
    BY <1>4 DEF RefuseAsBad
  <2>2. Given(Failing(Noticed(Ends(Now, k, i), k), k, Slot(k, i)))
    BY <1>1, <1>2, FailingGiven
  <2> QED BY <2>1, <2>2, StepKeeps
<1>5. ASSUME RefuseAsStale(k, i) PROVE Stepped
  <2> DEFINE s == Noticed(Ends(Now, k, i), k)
             sent == family.submitted[k]
             g == [s EXCEPT !.stale[k] = @ \cup HeldStale(Now, k, sent),
                            !.ended[k][sent.task] = IF sent.current THEN "stale" ELSE @]
  <2>1. sent # None /\ Step(g)
    BY <1>5 DEF RefuseAsStale
  <2>2. sent \in Notes
    <3>1. Now \in States /\ Now.submitted[k] = sent
      BY NowGiven DEF Now
    <3> HIDE DEF Now, sent
    <3> QED BY <2>1, <3>1, TypedFields
  <2> HIDE DEF s, sent
  <2>3. sent.task \in Tasks /\ sent.current \in BOOLEAN
    BY <2>2 DEF Notes
  <2>4. HeldStale(Now, k, sent) = IF sent.current THEN {sent.task} ELSE {}
    BY <2>1 DEF HeldStale
  <2>5. Given(s)
    BY <1>2 DEF s
  <2>6. Given([s EXCEPT !.stale[k] = @ \cup (IF sent.current THEN {sent.task} ELSE {}),
                        !.ended[k][sent.task] = IF sent.current THEN "stale" ELSE @])
    BY <2>3, <2>5, StaleGiven
  <2>7. Given(g)
    BY <2>4, <2>6
  <2> HIDE DEF g
  <2> QED BY <2>1, <2>7, StepKeeps
<1> QED BY <1>3, <1>4, <1>5

\* An act's course in the kernel.
LEMMA KernelKeeps ==
  ASSUME Kept, NEW k \in Keys, NEW i \in DOMAIN acts[k]
  PROVE  /\ Commit(k, i) => Stepped
         /\ Include(k, i) => Stepped
         /\ Settle(k, i) => Stepped
         /\ Fail(k, i) => Stepped
         /\ GetStuck(k, i) => Stepped
         /\ Retire(k, i) => Stepped
<1> DEFINE a == acts[k][i]
<1>1. a \in Acts /\ Slot(k, i) \in Slots /\ k \in Holders
  BY ActIs DEF Slot, Holders
<1>2. /\ nonces \in Ledgers /\ behind \in Marks /\ \A ids : Marked(ids) \subseteq Marks
      /\ Taken(k) \in Ledgers /\ StepDone(k, i) \subseteq Ledgers
  BY <1>1, LedgersAre
<1>3. /\ At(k, i, {"admitted", "between"}) => ~At(k, i, {"sent"})
      /\ At(k, i, Executing) => ~At(k, i, {"sent"})
      /\ At(k, i, {"compensating"}) => ~At(k, i, {"sent"})
      /\ At(k, i, Compensated) => ~At(k, i, {"sent"})
      /\ StepDone(k, i) # {} => ~At(k, i, {"sent"})
  BY DEF At, Executing, Compensated, StepDone, Awaited
<1>4. "kept" \in Compensated /\ "compensating" \in Compensated
  BY DEF Compensated
<1>5. ASSUME Commit(k, i) PROVE Stepped
  <2> DEFINE b == [a EXCEPT !.at = "pending", !.records = @ + 1]
  <2>1. At(k, i, {"admitted", "between"}) /\ Step([Becomes(k, i, b) EXCEPT !.nonces = Taken(k)])
    BY <1>5 DEF Commit
  <2>2. b \in Acts /\ b.at # "sent"
    <3> DEFINE r == a.records + 1
    <3>1. r \in Nat
      BY <1>1 DEF Acts
    <3>2. b = [a EXCEPT !.at = "pending", !.records = r]
      OBVIOUS
    <3> HIDE DEF a, b, r
    <3> QED BY <1>1, <3>1, <3>2 DEF Acts, Executing
  <2> HIDE DEF b
  <2>3. Given(Becomes(k, i, b))
    BY <1>3, <2>1, <2>2, BecomesGiven
  <2>4. Given([Becomes(k, i, b) EXCEPT !.nonces = Taken(k)])
    BY <1>2, <2>3, LedgerGiven
  <2> QED BY <2>1, <2>4, StepKeeps
<1>6. ASSUME Include(k, i) PROVE Stepped
  <2> DEFINE c == [a EXCEPT !.at = "between", !.left = @ - 1]
  <2>1. PICK n \in StepDone(k, i), b \in Marked(acts[k][i].ids) :
          Step([Becomes(k, i, c) EXCEPT !.nonces = n, !.behind = b])
    BY <1>6 DEF Include
  <2>2. c \in Acts /\ c.at # "sent"
    <3> DEFINE l == a.left - 1
    <3>1. a.left > 1
      BY <1>6 DEF Include
    <3>2. l \in Nat /\ c = [a EXCEPT !.at = "between", !.left = l]
      BY <1>1, <3>1 DEF Acts
    <3> HIDE DEF a, c, l
    <3> QED BY <1>1, <3>2 DEF Acts, Executing
  <2> HIDE DEF c
  <2>3. Given(Becomes(k, i, c))
    BY <1>3, <2>1, <2>2, BecomesGiven
  <2>4. n \in Ledgers /\ b \in Marks
    BY <1>2, <2>1
  <2>5. Given([Becomes(k, i, c) EXCEPT !.nonces = n, !.behind = b])
    BY <2>3, <2>4, MarkedGiven
  <2> QED BY <2>1, <2>5, StepKeeps
<1>7. ASSUME Settle(k, i) PROVE Stepped
  <2> DEFINE s(stays) == IF stays THEN Left(k, i, "kept") ELSE Ends(Now, k, i)
  <2>1. PICK n \in StepDone(k, i), b \in Marked(acts[k][i].ids), stays \in Leaves(k) :
          Step([Clearing(s(stays), k, Slot(k, i)) EXCEPT !.nonces = n, !.behind = b])
    BY <1>7 DEF Settle
  <2>2. n \in Ledgers /\ b \in Marks /\ stays \in BOOLEAN
    BY <1>2, <2>1 DEF Leaves
  <2>3. Given(s(stays)) /\ SameWaits(s(stays))
    BY <1>3, <1>4, <2>1, <2>2, OverGiven
  <2> HIDE DEF s
  <2>4. Given(Clearing(s(stays), k, Slot(k, i)))
    BY <1>1, <2>3, ClearingGiven
  <2>5. Given([Clearing(s(stays), k, Slot(k, i)) EXCEPT !.nonces = n, !.behind = b])
    BY <2>2, <2>4, MarkedGiven
  <2> QED BY <2>1, <2>5, StepKeeps
<1>8. ASSUME Fail(k, i) PROVE Stepped
  <2> DEFINE s(stays) == IF stays THEN Left(k, i, "compensating") ELSE Ends(Now, k, i)
  <2>1. At(k, i, Executing)
    BY <1>8 DEF Fail
  <2>2. PICK b \in Marked(acts[k][i].ids), n \in {nonces} \cup StepDone(k, i),
             stays \in IF At(k, i, {"admitted"}) THEN {FALSE} ELSE Leaves(k) :
          Step([Failing(s(stays), k, Slot(k, i)) EXCEPT !.nonces = n, !.behind = b])
    BY <1>8 DEF Fail
  <2>3. n \in Ledgers /\ b \in Marks /\ stays \in BOOLEAN
    BY <1>2, <2>2 DEF Leaves
  <2>4. Given(s(stays)) /\ SameWaits(s(stays))
    BY <1>3, <1>4, <2>1, <2>3, OverGiven
  <2> HIDE DEF s
  <2>5. Given(Failing(s(stays), k, Slot(k, i)))
    BY <1>1, <2>4, FailingGiven
  <2>6. Given([Failing(s(stays), k, Slot(k, i)) EXCEPT !.nonces = n, !.behind = b])
    BY <2>3, <2>5, MarkedGiven
  <2> QED BY <2>2, <2>6, StepKeeps
<1>9. ASSUME GetStuck(k, i) PROVE Stepped
  <2>1. At(k, i, {"compensating"}) /\ Step(Failing(Left(k, i, "kept"), k, Slot(k, i)))
    BY <1>9 DEF GetStuck
  <2>2. Given(Left(k, i, "kept")) /\ SameWaits(Left(k, i, "kept"))
    BY <1>3, <1>4, <2>1, OverGiven
  <2>3. Given(Failing(Left(k, i, "kept"), k, Slot(k, i)))
    BY <1>1, <2>2, FailingGiven
  <2> QED BY <2>1, <2>3, StepKeeps
<1>10. ASSUME Retire(k, i) PROVE Stepped
  <2>1. ~At(k, i, {"sent"}) /\ Step(Ends(Now, k, i))
    BY <1>3, <1>10 DEF Retire
  <2>2. Given(Ends(Now, k, i))
    BY <2>1, EndsGiven
  <2> QED BY <2>1, <2>2, StepKeeps
<1> QED BY <1>5, <1>6, <1>7, <1>8, <1>9, <1>10

\* A record deleted is listed by no act.
LEMMA FinalizeKeeps ==
  ASSUME Kept, NEW h \in Holders, Finalize(h)
  PROVE  Stepped
<1> DEFINE n == Now
           kept == nonces[h].open + nonces[h].mined - 1
           still(act) == IF act.records > kept THEN [act EXCEPT !.records = kept] ELSE act
           N == [nonces EXCEPT ![h].mined = @ - 1]
           L == [i \in DOMAIN acts[h] |-> still(acts[h][i])]
           A == [acts EXCEPT ![h] = L]
<1>1. nonces \in Ledgers /\ nonces[h] \in [open : Nat, mined : Nat] /\ nonces[h].mined > 0
  BY LedgersAre DEF Finalize, Ledgers
<1>2. kept \in Nat /\ N \in Ledgers
  <2> DEFINE r == [nonces[h] EXCEPT !.mined = @ - 1]
  <2>1. kept \in Nat /\ r \in [open : Nat, mined : Nat]
    BY <1>1
  <2>2. N = [nonces EXCEPT ![h] = r]
    OBVIOUS
  <2> HIDE DEF r
  <2> QED BY <1>1, <2>1, <2>2 DEF Ledgers
<1>3. Given(n) /\ n \in States /\ n.acts = acts /\ n.asked = {} /\ \A j \in Keys : OneAtATime(n, j)
  BY NowGiven DEF Now, Fit
<1>4. CASE h \notin Keys
  <2>1. Step([n EXCEPT !.nonces = N])
    BY <1>4 DEF Finalize
  <2>2. Given([n EXCEPT !.nonces = N])
    BY <1>2, <1>3, LedgerGiven
  <2> QED BY <2>1, <2>2, StepKeeps
<1>5. CASE h \in Keys
  <2> DEFINE g == [n EXCEPT !.nonces = N, !.acts = A]
  <2>1. Step(g)
    <3>1. Step([[n EXCEPT !.nonces = N] EXCEPT !.acts[h] = [i \in DOMAIN @ |-> still(@[i])]])
      BY <1>5 DEF Finalize
    <3>2. [[n EXCEPT !.nonces = N] EXCEPT !.acts[h] = [i \in DOMAIN @ |-> still(@[i])]] = g
      BY DEF Now
    <3> QED BY <3>1, <3>2
  <2> HIDE DEF n, N, kept
  <2>2. \A b \in Acts : still(b) \in Acts /\ still(b).at = b.at
    BY <1>2 DEF Acts
  <2>3. acts[h] = <<>> \/ \E b \in Acts : acts[h] = <<b>>
    BY <1>3, <1>5, TypedFields
  <2> HIDE DEF still
  <2>4. /\ L \in {<<>>} \cup {<<b>> : b \in Acts}
        /\ L # <<>> /\ L[1].at = "sent" <=> acts[h] # <<>> /\ acts[h][1].at = "sent"
    <3>1. CASE acts[h] = <<>>
      <4>1. L = <<>>
        BY <3>1
      <4> QED BY <3>1, <4>1
    <3>2. ASSUME NEW b \in Acts, acts[h] = <<b>> PROVE L = <<still(b)>> /\ acts[h][1] = b
      <4> DEFINE e == still(b)
      <4>1. DOMAIN <<b>> = {1} /\ <<b>>[1] = b
        OBVIOUS
      <4>2. L = [i \in {1} |-> e]
        BY <3>2, <4>1
      <4> HIDE DEF e, L
      <4>3. [i \in {1} |-> e] \in [{1} -> {e}] /\ <<e>> \in [{1} -> {e}]
        OBVIOUS
      <4>4. [i \in {1} |-> e] = <<e>>
        BY <4>3
      <4> QED BY <3>2, <4>1, <4>2, <4>4 DEF e
    <3>3. ASSUME NEW b \in Acts, acts[h] = <<b>>
          PROVE  /\ L \in {<<>>} \cup {<<c>> : c \in Acts} /\ L # <<>> /\ acts[h] # <<>>
                 /\ L[1].at = acts[h][1].at
      <4> DEFINE e == still(b)
      <4>1. L = <<e>> /\ acts[h][1] = b /\ e \in Acts /\ e.at = b.at
        BY <2>2, <3>2, <3>3
      <4> HIDE DEF e, L
      <4>2. <<e>>[1] = e /\ <<e>> # <<>> /\ <<b>> # <<>>
        OBVIOUS
      <4> QED BY <3>3, <4>1, <4>2
    <3> HIDE DEF L
    <3> QED BY <2>3, <3>1, <3>3
  <2> HIDE DEF L
  <2>5. A \in ActLists /\ A[h] = L /\ \A j \in Keys \ {h} : A[j] = acts[j]
    <3>1. acts \in ActLists
      BY <1>3 DEF States
    <3> QED BY <1>5, <2>4, <3>1 DEF ActLists
  <2> HIDE DEF A
  <2>6. /\ g \in States /\ g.asked = {} /\ g.backoff = n.backoff /\ g.due = n.due
        /\ g.preparing = n.preparing /\ g.ready = n.ready /\ g.ended = n.ended
        /\ g.stale = n.stale /\ g.declined = n.declined /\ g.acts = A
        /\ g.submitted = n.submitted
    BY <1>2, <1>3, <2>5 DEF States
  <2> HIDE DEF g
  <2>7. \A j \in Keys : Sends(g, j) <=> Sends(n, j)
    BY <1>3, <2>4, <2>5, <2>6 DEF Sends
  <2>8. \A j \in Keys : g.submitted[j] # None <=> Sends(g, j)
    BY <1>3, <2>6, <2>7 DEF OneAtATime, Sends
  <2>9. SameWaits(g)
    BY <2>6 DEF SameWaits, n
  <2>10. Given(g)
    BY <2>6, <2>7, <2>8, <2>9, HeardGiven DEF n
  <2> QED BY <2>1, <2>10, StepKeeps
<1> QED BY <1>4, <1>5

\* What the ledger does that no act waits for.
LEMMA LedgerKeeps ==
  ASSUME Kept
  PROVE  /\ \A h \in Holders : Closes(h) => Stepped
         /\ Reorg => Stepped
         /\ Repair => Stepped
         /\ RepairEnds => Stepped
<1>1. /\ nonces \in Ledgers /\ \A ids : Marked(ids) \subseteq Marks
      /\ \A h \in Holders : /\ Taken(h) \in Ledgers /\ (nonces[h].open > 0 => Resolved(h) \in Ledgers)
                            /\ nonces[h] \in [open : Nat, mined : Nat]
      /\ Given(Now) /\ Recovery \in Holders
  BY LedgersAre, NowGiven DEF Ledgers, Holders
<1>2. ASSUME NEW n \in Ledgers, Step([Now EXCEPT !.nonces = n]) PROVE Stepped
  <2>1. Given([Now EXCEPT !.nonces = n])
    BY <1>1, <1>2, LedgerGiven
  <2> QED BY <1>2, <2>1, StepKeeps
<1>3. ASSUME NEW h \in Holders, Land(h) PROVE Stepped
  <2>1. PICK ids \in IF h \in Keys THEN {w.ids : w \in MayAsk[h]} ELSE {{}} :
          \E b \in Marked(ids) : Step([Now EXCEPT !.nonces = Resolved(h), !.behind = b])
    BY <1>3 DEF Land
  <2>2. PICK b \in Marked(ids) : Step([Now EXCEPT !.nonces = Resolved(h), !.behind = b])
    BY <2>1
  <2>3. Resolved(h) \in Ledgers /\ b \in Marks
    BY <1>1, <1>3, <2>2 DEF Land
  <2>4. Given([Now EXCEPT !.nonces = Resolved(h), !.behind = b])
    BY <1>1, <2>3, MarkedGiven
  <2> QED BY <2>2, <2>4, StepKeeps
<1>4. ASSUME Reorg PROVE Stepped
  <2>1. PICK back \in [Holders -> UNION {0 .. nonces[h].mined : h \in Holders}] :
          /\ \A h \in Holders : back[h] <= nonces[h].mined
          /\ Step([Now EXCEPT !.nonces = [h \in Holders |->
               [open |-> nonces[h].open + back[h], mined |-> nonces[h].mined - back[h]]]])
    BY <1>4 DEF Reorg
  <2>2. ASSUME NEW h \in Holders
        PROVE  [open |-> nonces[h].open + back[h], mined |-> nonces[h].mined - back[h]]
                 \in [open : Nat, mined : Nat]
    <3>1. back[h] \in Nat
      BY <1>1
    <3>2. back[h] <= nonces[h].mined
      BY <2>1
    <3>3. nonces[h].open \in Nat /\ nonces[h].mined \in Nat
      BY <1>1
    <3> QED BY <3>1, <3>2, <3>3
  <2>3. [h \in Holders |->
           [open |-> nonces[h].open + back[h], mined |-> nonces[h].mined - back[h]]] \in Ledgers
    BY <2>2 DEF Ledgers
  <2> QED BY <1>2, <2>1, <2>3
<1>5. ASSUME Repair PROVE Stepped
  <2>1. Step([Now EXCEPT !.nonces = Taken(Recovery)])
    BY <1>5 DEF Repair
  <2> QED BY <1>1, <1>2, <2>1
<1>6. ASSUME RepairEnds PROVE Stepped
  <2> DEFINE r == [nonces[Recovery] EXCEPT !.open = @ - 1]
             n == [nonces EXCEPT ![Recovery].open = @ - 1]
  <2>1. nonces[Recovery].open > 0 /\ Step([Now EXCEPT !.nonces = n])
    BY <1>6 DEF RepairEnds
  <2>2. r \in [open : Nat, mined : Nat] /\ n = [nonces EXCEPT ![Recovery] = r]
    BY <1>1, <2>1
  <2>3. n \in Ledgers
    <3> HIDE DEF r, n
    <3> QED BY <1>1, <2>2 DEF Ledgers
  <2> HIDE DEF n
  <2> QED BY <1>2, <2>1, <2>3
<1> QED BY <1>3, <1>4, <1>5, <1>6, FinalizeKeeps DEF Closes

\* Each change of the nodes, and the view's.
LEMMA NodesKeep ==
  ASSUME Kept, NEW k \in Keys
  PROVE  /\ ChangeCandidate(k) => Stepped
         /\ ChangeInput(k) => Stepped
         /\ Recover(k) => Stepped
         /\ ReadAgain(k) => Stepped
         /\ ReadOtherwise(k) => Stepped
         /\ FailToRead(k) => Stepped
<1>1. ChangeCandidate(k) => Stepped
  BY CandidateGiven, StepKeeps DEF ChangeCandidate
<1>2. ChangeInput(k) => Stepped
  BY InputNodeGiven, StepKeeps DEF ChangeInput
<1>3. Recover(k) => Stepped
  BY CandidateGiven, InputNodeGiven, StepKeeps DEF Recover
<1>4. /\ fact[k] \in Readings \cup {None} /\ behind[k] \in SUBSET AllIds
  <2>1. Now \in States /\ Now.fact = fact /\ Now.behind = behind
    BY NowGiven DEF Now
  <2> HIDE DEF Now
  <2> QED BY <2>1, TypedFields
<1>5. \A v \in Versions \cup {Absent}, e \in Until : [version |-> v, expiry |-> e] \in Readings
  BY DEF Readings
<1>6. "ahead" \in Until /\ "none" \in Until
  BY DEF Until
<1>7. fact[k] # None => fact[k] \in Readings /\ fact[k].version \in Versions \cup {Absent}
  BY <1>4 DEF Readings
<1>8. ASSUME ReadAgain(k) PROVE Stepped
  <2>1. PICK v \in IF fact[k] = None THEN Versions ELSE {fact[k].version} :
          Reading(k, [version |-> v, expiry |-> "ahead"], {})
    BY <1>8 DEF ReadAgain
  <2>2. v \in Versions \cup {Absent}
    BY <1>7
  <2> QED BY <1>5, <1>6, <2>1, <2>2, ReadingGiven
<1>9. ASSUME ReadOtherwise(k) PROVE Stepped
  <2>1. fact[k] \in Readings
    BY <1>7, <1>9 DEF ReadOtherwise
  <2>2. CASE \E v \in (Versions \cup {Absent}) \ {fact[k].version} :
               Reading(k, [version |-> v, expiry |-> "ahead"], {})
    <3>1. PICK v \in Versions \cup {Absent} : Reading(k, [version |-> v, expiry |-> "ahead"], {})
      BY <2>2
    <3> QED BY <1>5, <1>6, <3>1, ReadingGiven
  <2>3. CASE Reading(k, [fact[k] EXCEPT !.expiry = "none"], {})
    <3>1. [fact[k] EXCEPT !.expiry = "none"] \in Readings
      BY <1>6, <2>1 DEF Readings
    <3> QED BY <2>3, <3>1, ReadingGiven
  <2>4. CASE \E marks \in SUBSET behind[k] \ {{}} :
               Reading(k, [fact[k] EXCEPT !.expiry = "ahead"], marks)
    <3>1. [fact[k] EXCEPT !.expiry = "ahead"] \in Readings
      BY <1>6, <2>1 DEF Readings
    <3>2. PICK marks \in SUBSET AllIds : Reading(k, [fact[k] EXCEPT !.expiry = "ahead"], marks)
      BY <1>4, <2>4
    <3> QED BY <3>1, <3>2, ReadingGiven
  <2> QED BY <1>9, <2>2, <2>3, <2>4 DEF ReadOtherwise
<1>10. FailToRead(k) => Stepped
  BY <1>4, ReadingGiven DEF FailToRead
<1> QED BY <1>1, <1>2, <1>3, <1>8, <1>9, <1>10

-----------------------------------------------------------------------------
(* What happens beside the decision: time passes, a run restarts.          *)

\* tickets that differ in what no decision rests on
Alike(p, q) == p # None => q # None /\ p.want = q.want /\ p.void = q.void

\* A step that sends nothing and asks for nothing does nothing the properties speak of.
LEMMA NothingDone ==
  ASSUME \A k \in Keys : ~Sent(k) /\ ~Asked(k)
  PROVE  AsAsked /\ Alone /\ WithinCaps /\ Retried
BY DEF AsAsked, Alone, WithinCaps, Retried

\* Time changes no reading's version and no ticket's want, so all that was remembered stands.
LEMMA QuietKeeps ==
  ASSUME Kept, NEW P \in Preparings, NEW R \in Readies,
         candidate' = candidate, input' = input, behind' = behind, acts' = acts,
         nonces' = nonces, accepting' = accepting, backoff' = backoff, closed' = closed, ended' = ended, due' = due,
         fact' \in Facts,
         \A j \in Keys : /\ fact'[j] = None <=> fact[j] = None
                         /\ fact[j] # None => fact'[j].version = fact[j].version,
         family' = [preparing |-> P, ready |-> R, submitted |-> family.submitted,
                    stale |-> family.stale, declined |-> family.declined, served |-> family.served],
         \A j \in Keys : Alike(P[j], family.preparing[j]) /\ Alike(R[j], family.ready[j])
  PROVE  Stepped
<1> DEFINE n == Now
           m == Now'
<1>1. /\ m.candidate = n.candidate /\ m.input = n.input /\ m.behind = n.behind /\ m.acts = n.acts
      /\ m.nonces = n.nonces /\ m.accepting = n.accepting /\ m.backoff = n.backoff /\ m.asked = {} /\ m.ended = n.ended
      /\ m.due = n.due /\ m.preparing = P /\ m.ready = R /\ m.submitted = n.submitted
      /\ m.stale = n.stale /\ m.declined = n.declined /\ m.served = n.served /\ m.fact = fact'
  BY DEF Now
<1>2. \A j \in Keys : Alike(P[j], n.preparing[j]) /\ Alike(R[j], n.ready[j])
  BY DEF Now
<1>3. \A j \in Keys : /\ fact'[j] = None <=> n.fact[j] = None
                      /\ n.fact[j] # None => fact'[j].version = n.fact[j].version
  BY DEF Now
<1>4. /\ n \in States /\ Shut(n, closed) /\ n.asked = {}
      /\ \A j \in Keys : OneAtATime(n, j) /\ Remembered(n, j, Fingerprint(n, j)) /\ Waiting(n, j)
  BY DEF Kept, Sound, Now
<1>5. m \in States
  <2> HIDE DEF n
  <2>1. /\ m.candidate \in Candidates /\ m.fact \in Facts /\ m.input \in Givens /\ m.behind \in Marks
        /\ m.acts \in ActLists /\ m.nonces \in Ledgers /\ m.accepting \in BOOLEAN
        /\ m.backoff \in Backoffs
        /\ m.asked \in SUBSET Keys /\ m.ended \in Endings /\ m.due \in Dues
        /\ m.preparing \in Preparings /\ m.ready \in Readies /\ m.submitted \in Sents
        /\ m.stale \in Stales /\ m.declined \in Declines /\ m.served \in Keys \cup {0}
    <3> HIDE DEF m
    <3> QED BY <1>1, <1>4 DEF States
  <2> QED BY <2>1 DEF States, Now
<1> HIDE DEF n, m
<1>6. ASSUME NEW j \in Keys
      PROVE  OneAtATime(m, j) /\ Remembered(m, j, Fingerprint(m, j)) /\ Waiting(m, j)
  <2>1. Fingerprint(m, j) = Fingerprint(n, j)
    BY <1>1, <1>3 DEF Fingerprint, Reads
  <2>2. OneAtATime(n, j) /\ Remembered(n, j, Fingerprint(n, j)) /\ Waiting(n, j)
    BY <1>4
  <2>3. OneAtATime(m, j)
    BY <1>1, <1>2, <2>2 DEF OneAtATime, Alike
  <2>4. Remembered(m, j, Fingerprint(m, j))
    BY <1>1, <1>2, <2>1, <2>2 DEF Remembered, Alike
  <2>5. Waiting(m, j)
    BY <1>1, <2>2 DEF Waiting
  <2> QED BY <2>3, <2>4, <2>5
<1>8. Shut(m, closed)
  <2>1. \A k \in closed : k \in Keys
    BY DEF Kept
  <2>2. \A k \in closed : m.ready[k] = None /\ (m.preparing[k] # None => m.preparing[k].void)
    BY <1>1, <1>2, <1>4, <2>1 DEF Shut, Alike
  <2> QED BY <2>2 DEF Shut
<1>9. Kept'
  <2>1. Sound(m, m, closed')
    BY <1>1, <1>5, <1>6, <1>8 DEF Sound, Counted
  <2>2. family' = FamilyOf(m)
    BY DEF FamilyOf, m, Now
  <2> QED BY <2>1, <2>2 DEF Kept, m
<1>10. ASSUME NEW k \in Keys PROVE ~Sent(k)
  <2> DEFINE c == Cardinality(Of(n, k, {"sent"}))
  <2>1. Of(n, k, {"sent"}) = {} \/ Of(n, k, {"sent"}) = {1}
    BY <1>4, ActOf
  <2>2. Cardinality({}) = 0 /\ Cardinality({1}) = 1
    BY FS_EmptySet, FS_Singleton
  <2>3. c = 0 \/ c = 1
    BY <2>1, <2>2, Zenon
  <2>4. n.acts = acts
    BY DEF n, Now
  <2>5. /\ Of([acts |-> acts'], k, {"sent"}) = Of(n, k, {"sent"})
        /\ Of([acts |-> acts], k, {"sent"}) = Of(n, k, {"sent"})
    BY <2>4 DEF Of
  <2>6. Sent(k) => c > c
    BY <2>5 DEF Sent
  <2> HIDE DEF c
  <2> QED BY <2>3, <2>6
<1>11. ASSUME NEW k \in Keys PROVE ~Asked(k)
  <2>1. family'.preparing[k] = P[k] /\ Alike(P[k], family.preparing[k])
    OBVIOUS
  <2> QED BY <2>1 DEF Asked, Alike
<1>12. Patient
  BY DEF Patient, Wider
<1> QED BY <1>9, <1>10, <1>11, <1>12, NothingDone DEF Stepped

LEMMA LapseKeeps ==
  ASSUME Kept, NEW k \in Keys, Lapse(k)
  PROVE  Stepped
<1> DEFINE n == Now
<1>1. PICK old \in BOOLEAN :
        /\ IF old THEN fact' = fact
           ELSE fact[k] # None /\ fact[k].expiry = "ahead"
                /\ fact' = [fact EXCEPT ![k].expiry = "past"]
        /\ family' = [family EXCEPT !.preparing[k] = Lapsed(@, ~old), !.ready[k] = Lapsed(@, ~old)]
  BY DEF Lapse
<1> DEFINE P == [family.preparing EXCEPT ![k] = Lapsed(family.preparing[k], ~old)]
           R == [family.ready EXCEPT ![k] = Lapsed(family.ready[k], ~old)]
<1>2. /\ family.preparing \in Preparings /\ family.ready \in Readies /\ fact \in Facts
      /\ family.preparing[k] \in Tickets \cup {None} /\ family.ready[k] \in ReadyTickets \cup {None}
      /\ fact[k] \in Readings \cup {None}
  <2>1. n \in States /\ n.preparing = family.preparing /\ n.ready = family.ready /\ n.fact = fact
    BY NowGiven DEF Now
  <2> HIDE DEF n
  <2> QED BY <2>1, TypedFields DEF States
<1>3. /\ \A q \in Tickets \cup {None} : Lapsed(q, ~old) \in Tickets \cup {None} /\ Alike(Lapsed(q, ~old), q)
      /\ \A q \in ReadyTickets \cup {None} :
           Lapsed(q, ~old) \in ReadyTickets \cup {None} /\ Alike(Lapsed(q, ~old), q)
  <2>1. "past" \in Until
    BY DEF Until
  <2>2. ASSUME NEW q \in Tickets, q # None
        PROVE  /\ [q EXCEPT !.expiry = "past"] \in Tickets
               /\ [q EXCEPT !.expiry = "past"].want = q.want /\ [q EXCEPT !.expiry = "past"].void = q.void
    BY <2>1 DEF Tickets
  <2>3. ASSUME NEW q \in ReadyTickets, q # None
        PROVE  /\ [q EXCEPT !.expiry = "past"] \in ReadyTickets
               /\ [q EXCEPT !.expiry = "past"].want = q.want /\ [q EXCEPT !.expiry = "past"].void = q.void
    BY <2>1 DEF ReadyTickets
  <2> QED BY <2>2, <2>3 DEF Lapsed, Alike
<1>4. P \in Preparings /\ R \in Readies
  BY <1>2, <1>3 DEF Preparings, Readies
<1>5. \A j \in Keys : Alike(P[j], family.preparing[j]) /\ Alike(R[j], family.ready[j])
  <2> TAKE j \in Keys
  <2>1. CASE j = k
    <3>1. P[k] = Lapsed(family.preparing[k], ~old) /\ R[k] = Lapsed(family.ready[k], ~old)
      BY <1>2 DEF Preparings, Readies
    <3> QED BY <1>2, <1>3, <2>1, <3>1
  <2>2. CASE j # k
    <3>1. P[j] = family.preparing[j] /\ R[j] = family.ready[j]
      BY <1>2, <2>2 DEF Preparings, Readies
    <3> QED BY <3>1 DEF Alike
  <2> QED BY <2>1, <2>2
<1>6. /\ fact' \in Facts
      /\ \A j \in Keys : /\ fact'[j] = None <=> fact[j] = None
                         /\ fact[j] # None => fact'[j].version = fact[j].version
  <2>1. CASE old
    BY <1>1, <1>2, <2>1
  <2>2. CASE ~old
    <3> DEFINE r == [fact[k] EXCEPT !.expiry = "past"]
    <3>1. fact[k] \in Readings /\ fact' = [fact EXCEPT ![k] = r]
      BY <1>1, <1>2, <2>2
    <3>2. r \in Readings /\ r.version = fact[k].version
      BY <3>1 DEF Readings, Until
    <3>3. r # None
      <4>1. fact[k] # None
        BY <1>1, <2>2
      <4> QED BY <3>2, ConstantsAre
    <3> HIDE DEF r
    <3> QED BY <1>1, <1>2, <2>2, <3>1, <3>2, <3>3 DEF Facts
  <2> QED BY <2>1, <2>2
<1> HIDE DEF n, P, R
<1>7. family' = [preparing |-> P, ready |-> R, submitted |-> family.submitted, stale |-> family.stale,
                 declined |-> family.declined, served |-> family.served]
  BY <1>1 DEF Kept, FamilyOf, P, R
<1>8. /\ candidate' = candidate /\ input' = input /\ behind' = behind /\ acts' = acts
      /\ nonces' = nonces /\ accepting' = accepting /\ backoff' = backoff /\ closed' = closed /\ ended' = ended
      /\ due' = due
  BY DEF Lapse
<1> QED BY <1>4, <1>5, <1>6, <1>7, <1>8, QuietKeeps

LEMMA OverstayKeeps ==
  ASSUME Kept, NEW k \in Keys, Overstay(k)
  PROVE  Stepped
<1> DEFINE n == Now
           q == family.ready[k]
           r == [q EXCEPT !.late = TRUE]
           P == family.preparing
           R == [family.ready EXCEPT ![k] = r]
<1>1. /\ P \in Preparings /\ family.ready \in Readies /\ fact \in Facts /\ q \in ReadyTickets
      /\ q # None
  <2>1. n \in States /\ n.preparing = family.preparing /\ n.ready = family.ready /\ n.fact = fact
    BY NowGiven DEF Now
  <2>2. q # None
    BY DEF Overstay
  <2> HIDE DEF n
  <2> QED BY <2>1, <2>2, TypedFields DEF States
<1> HIDE DEF q, P
<1>2. r \in ReadyTickets /\ r.want = q.want /\ r.void = q.void
  BY <1>1 DEF ReadyTickets
<1> HIDE DEF r
<1>3. R \in Readies /\ R[k] = r /\ \A j \in Keys \ {k} : R[j] = family.ready[j]
  BY <1>1, <1>2 DEF Readies
<1>4. \A j \in Keys : Alike(P[j], family.preparing[j]) /\ Alike(R[j], family.ready[j])
  BY <1>1, <1>2, <1>3 DEF Alike, P, q
<1> HIDE DEF R
<1>5. family' = [preparing |-> P, ready |-> R, submitted |-> family.submitted, stale |-> family.stale,
                 declined |-> family.declined, served |-> family.served]
  BY DEF Overstay, Kept, FamilyOf, P, R, r, q
<1>6. /\ candidate' = candidate /\ input' = input /\ behind' = behind /\ acts' = acts
      /\ nonces' = nonces /\ accepting' = accepting /\ backoff' = backoff /\ closed' = closed /\ ended' = ended
      /\ due' = due /\ fact' = fact
  BY DEF Overstay
<1> HIDE DEF n
<1> QED BY <1>1, <1>3, <1>4, <1>5, <1>6, QuietKeeps

LEMMA StutterKeeps ==
  ASSUME Kept, UNCHANGED ctrlVars
  PROVE  Stepped
<1> DEFINE n == Now
<1>1. /\ family.preparing \in Preparings /\ family.ready \in Readies /\ fact \in Facts
  <2>1. n \in States /\ n.preparing = family.preparing /\ n.ready = family.ready /\ n.fact = fact
    BY NowGiven DEF Now
  <2> HIDE DEF n
  <2> QED BY <2>1 DEF States
<1> HIDE DEF n
<1>2. \A j \in Keys : Alike(family.preparing[j], family.preparing[j])
                      /\ Alike(family.ready[j], family.ready[j])
  BY DEF Alike
<1>3. family' = [preparing |-> family.preparing, ready |-> family.ready,
                 submitted |-> family.submitted, stale |-> family.stale,
                 declined |-> family.declined, served |-> family.served]
  BY DEF ctrlVars, Kept, FamilyOf
<1>4. /\ candidate' = candidate /\ input' = input /\ behind' = behind /\ acts' = acts
      /\ nonces' = nonces /\ accepting' = accepting /\ backoff' = backoff /\ closed' = closed /\ ended' = ended
      /\ due' = due /\ fact' = fact
  BY DEF ctrlVars
<1> QED BY <1>1, <1>2, <1>3, <1>4, QuietKeeps

\* A restart forgets the family and adopts what the kernel holds.
LEMMA AdoptedIs ==
  ASSUME NEW k \in Keys, NEW list \in Adopted(k)
  PROVE  list \in {<<>>} \cup {<<a>> : a \in Acts} /\ (list # <<>> => list[1].at # "sent")
<1> DEFINE a == [at |-> "kept", task |-> Untasked, ids |-> {}, rests |-> None, left |-> 0,
                 records |-> 0]
           one == <<a>>
<1>1. list = <<>> \/ list = one
  BY DEF Adopted
<1>2. a \in Acts /\ a.at # "sent"
  BY DEF Acts, Slots, Compensated
<1>3. one \in {<<x>> : x \in Acts} /\ one[1] = a
  <2> HIDE DEF a
  <2> QED BY <1>2
<1> HIDE DEF one
<1> QED BY <1>1, <1>2, <1>3

\* A family without memory is sound: it holds nothing and waits for nothing.
LEMMA FreshSound ==
  ASSUME NEW s \in States, NEW shut,
         s.preparing = NoFamily.preparing, s.ready = NoFamily.ready,
         s.submitted = NoFamily.submitted, s.stale = NoFamily.stale,
         s.declined = NoFamily.declined, s.backoff = NoBackoff,
         s.ended = [k \in Keys |-> [t \in Tasks |-> "no"]],
         s.due = [k \in Keys |-> [t \in Slots |-> [wait |-> 0, age |-> 0]]],
         s.asked = {}, \A k \in Keys : ~Sends(s, k)
  PROVE  Sound(s, s, {})
<1>1. \A k \in Keys : /\ s.preparing[k] = None /\ s.ready[k] = None /\ s.submitted[k] = None
                      /\ \A t \in Tasks : s.ended[k][t] = "no"
                      /\ \A t \in Slots : s.backoff[k][t] = Forgotten
                                          /\ s.due[k][t] = [wait |-> 0, age |-> 0]
  BY DEF NoFamily, NoBackoff
<1>2. ASSUME NEW k \in Keys
      PROVE  OneAtATime(s, k) /\ Remembered(s, k, Fingerprint(s, k)) /\ Waiting(s, k)
  <2>1. OneAtATime(s, k)
    BY <1>1 DEF OneAtATime, Sends
  <2>2. Remembered(s, k, Fingerprint(s, k))
    BY <1>1 DEF Remembered
  <2>3. Waiting(s, k)
    BY <1>1 DEF Waiting, Paced
  <2> QED BY <2>1, <2>2, <2>3
<1>4. Shut(s, {}) /\ Counted(s)
  BY DEF Shut, Counted
<1> QED BY <1>2, <1>4 DEF Sound

\* the types of a family without memory
LEMMA FreshIs ==
  /\ NoFamily.preparing \in Preparings /\ NoFamily.ready \in Readies /\ NoFamily.submitted \in Sents
  /\ NoFamily.stale \in Stales /\ NoFamily.declined \in Declines /\ NoFamily.served = 0
  /\ NoBackoff \in Backoffs /\ [k \in Keys |-> [t \in Tasks |-> "no"]] \in Endings
  /\ [k \in Keys |-> [t \in Slots |-> [wait |-> 0, age |-> 0]]] \in Dues
<1>1. Forgotten \in Entries
  BY ConstantsAre DEF Forgotten, Entries
<1>2. NoBackoff \in Backoffs
  BY <1>1 DEF NoBackoff, Backoffs
<1>3. /\ [k \in Keys |-> [t \in Tasks |-> "no"]] \in Endings
      /\ [k \in Keys |-> [t \in Slots |-> [wait |-> 0, age |-> 0]]] \in Dues
  BY DEF Endings, Dues
<1>4. /\ NoFamily.preparing \in Preparings /\ NoFamily.ready \in Readies
      /\ NoFamily.submitted \in Sents /\ NoFamily.stale \in Stales /\ NoFamily.served = 0
  BY DEF NoFamily, Preparings, Readies, Sents, Stales
<1>5. NoFamily.declined \in Declines
  BY DEF NoFamily, Declines
<1> QED BY <1>2, <1>3, <1>4, <1>5

LEMMA RestartKeeps ==
  ASSUME Kept, Restart
  PROVE  Stepped
<1> DEFINE n == Now
           m == Now'
<1>1. /\ n \in States /\ n.acts = acts /\ n.candidate = candidate /\ n.fact = fact
      /\ n.input = input /\ n.behind = behind
  BY NowGiven DEF Now
<1>2. /\ m.candidate = candidate /\ m.fact = fact /\ m.input = input /\ m.behind = behind
      /\ m.acts = acts' /\ m.nonces = nonces' /\ m.accepting = FALSE /\ m.backoff = NoBackoff
      /\ m.asked = {} /\ m.preparing = NoFamily.preparing /\ m.ready = NoFamily.ready
      /\ m.submitted = NoFamily.submitted /\ m.stale = NoFamily.stale
      /\ m.declined = NoFamily.declined /\ m.served = NoFamily.served
      /\ m.ended = [k \in Keys |-> [t \in Tasks |-> "no"]]
      /\ m.due = [k \in Keys |-> [t \in Slots |-> [wait |-> 0, age |-> 0]]]
  BY DEF Restart, NoHistory, Now
<1> HIDE DEF n
<1>13. PICK a \in [Keys -> UNION {Adopted(k) : k \in Keys}], left \in 0 .. nonces[Recovery].open :
         /\ \A k \in Keys : a[k] \in Adopted(k)
         /\ acts' = a
         /\ nonces' = [h \in Holders |->
              [open |-> nonces[h].mined + (IF h = Recovery THEN left ELSE nonces[h].open),
               mined |-> 0]]
  BY DEF Restart
<1>3. ASSUME NEW k \in Keys
      PROVE  m.acts[k] \in {<<>>} \cup {<<b>> : b \in Acts} /\ ~Sends(m, k)
  <2>1. m.acts[k] \in Adopted(k)
    BY <1>2, <1>13
  <2> HIDE DEF m
  <2> QED BY <2>1, AdoptedIs DEF Sends
<1>4. m.acts \in ActLists
  <2>1. m.acts = [k \in Keys |-> m.acts[k]]
    BY <1>2, <1>13
  <2> HIDE DEF m
  <2> QED BY <1>3, <2>1 DEF ActLists
<1>14. m.nonces \in Ledgers
  <2>1. \A h \in Holders : nonces[h] \in [open : Nat, mined : Nat]
    BY LedgersAre DEF Ledgers
  <2>2. left \in Nat
    BY <2>1 DEF Holders
  <2>3. \A h \in Holders :
          nonces[h].mined + (IF h = Recovery THEN left ELSE nonces[h].open) \in Nat
    BY <2>1, <2>2
  <2> QED BY <1>2, <1>13, <2>3 DEF Ledgers
<1>5. m \in States
  <2>1. /\ m.candidate \in Candidates /\ m.fact \in Facts /\ m.input \in Givens /\ m.behind \in Marks
        /\ m.accepting \in BOOLEAN /\ m.backoff \in Backoffs /\ m.asked \in SUBSET Keys
        /\ m.ended \in Endings /\ m.due \in Dues /\ m.preparing \in Preparings
        /\ m.ready \in Readies /\ m.submitted \in Sents /\ m.stale \in Stales
        /\ m.declined \in Declines /\ m.served \in Keys \cup {0}
    <3> HIDE DEF m
    <3> QED BY <1>1, <1>2, FreshIs DEF States
  <2> QED BY <1>4, <1>14, <2>1 DEF States, Now
<1> HIDE DEF m
<1>7. Sound(m, m, {})
  BY <1>2, <1>3, <1>5, FreshSound
<1>8. Kept'
  <2>1. closed' = {} /\ family' = FamilyOf(m)
    BY DEF Restart, NoHistory, NoFamily, FamilyOf, m, Now
  <2> QED BY <1>7, <2>1 DEF Kept, m
<1>9. ASSUME NEW k \in Keys PROVE ~Sent(k)
  <2>1. Of(m, k, {"sent"}) = {}
    BY <1>3, <1>5, ActOf DEF Sends
  <2>2. /\ Of([acts |-> acts'], k, {"sent"}) = Of(m, k, {"sent"})
        /\ Of([acts |-> acts], k, {"sent"}) = Of(n, k, {"sent"})
    BY <1>1, <1>2 DEF Of
  <2>3. Of(n, k, {"sent"}) = {} \/ Of(n, k, {"sent"}) = {1}
    BY <1>1, ActOf
  <2>4. Cardinality({}) = 0 /\ Cardinality({1}) = 1
    BY FS_EmptySet, FS_Singleton
  <2> QED BY <2>1, <2>2, <2>3, <2>4 DEF Sent
<1>10. ASSUME NEW k \in Keys PROVE ~Asked(k)
  <2>1. family'.preparing[k] = None
    BY DEF Restart, NoFamily
  <2> QED BY <2>1 DEF Asked
<1>11. Patient
  <2>1. \A k \in Keys, slot \in Slots : due'[k][slot].wait = 0
    BY DEF Restart, NoHistory
  <2> QED BY <2>1 DEF Patient, Wider
<1> QED BY <1>8, <1>9, <1>10, <1>11, NothingDone DEF Stepped

-----------------------------------------------------------------------------
(* The theorems.                                                           *)

\* A run starts sound: each node read once, nothing prepared or sent.
LEMMA InitSound ==
  ASSUME CtrlInit
  PROVE  CtrlInv
<1> DEFINE n == Now
<1>1. \A S : S # {} => First(S) \in S
  BY DEF First
<1>2. /\ Versions # {} /\ Inputs # {} /\ \A k \in Keys : MayAsk[k] # {}
  BY ControllerAssumption
<1>3. /\ n.candidate = [k \in Keys |-> First(MayAsk[k])] /\ n.input = [k \in Keys |-> First(Inputs)]
      /\ n.fact = [k \in Keys |-> [version |-> First(Versions), expiry |-> "ahead"]]
      /\ n.behind = [k \in Keys |-> {}] /\ n.acts = [k \in Keys |-> <<>>] /\ n.accepting = TRUE
      /\ n.nonces = [h \in Holders |-> [open |-> 0, mined |-> 0]]
      /\ n.backoff = NoBackoff /\ n.asked = {} /\ n.preparing = NoFamily.preparing
      /\ n.ready = NoFamily.ready /\ n.submitted = NoFamily.submitted /\ n.stale = NoFamily.stale
      /\ n.declined = NoFamily.declined /\ n.served = NoFamily.served
      /\ n.ended = [k \in Keys |-> [t \in Tasks |-> "no"]]
      /\ n.due = [k \in Keys |-> [t \in Slots |-> [wait |-> 0, age |-> 0]]]
  BY DEF CtrlInit, Now
<1>4. n.candidate \in Candidates
  <2>1. \A k \in Keys : First(MayAsk[k]) \in Wants
    <3>1. \A k \in Keys : First(MayAsk[k]) \in MayAsk[k]
      BY <1>1, <1>2
    <3> QED BY <3>1 DEF Wants
  <2> HIDE DEF n
  <2> QED BY <1>3, <2>1 DEF Candidates
<1>5. n.fact \in Facts /\ n.input \in Givens
  <2>1. [version |-> First(Versions), expiry |-> "ahead"] \in Readings /\ First(Inputs) \in Inputs
    BY <1>1, <1>2 DEF Readings, Until
  <2> HIDE DEF n
  <2> QED BY <1>3, <2>1 DEF Facts, Givens
<1>6. n.behind \in Marks /\ n.acts \in ActLists /\ n.nonces \in Ledgers
  <2> HIDE DEF n
  <2> QED BY <1>3 DEF Marks, ActLists, Ledgers
<1>7. n \in States
  <2>1. /\ n.candidate \in Candidates /\ n.fact \in Facts /\ n.input \in Givens /\ n.behind \in Marks
        /\ n.acts \in ActLists /\ n.nonces \in Ledgers /\ n.accepting \in BOOLEAN
        /\ n.backoff \in Backoffs
        /\ n.asked \in SUBSET Keys /\ n.ended \in Endings /\ n.due \in Dues
        /\ n.preparing \in Preparings /\ n.ready \in Readies /\ n.submitted \in Sents
        /\ n.stale \in Stales /\ n.declined \in Declines /\ n.served \in Keys \cup {0}
    <3> HIDE DEF n
    <3> QED BY <1>3, <1>4, <1>5, <1>6, FreshIs
  <2> QED BY <2>1 DEF States, Now
<1> HIDE DEF n
<1>8. \A k \in Keys : ~Sends(n, k)
  BY <1>3 DEF Sends
<1>10. Sound(n, n, {})
  BY <1>3, <1>7, <1>8, FreshSound
<1>11. /\ closed = {} /\ rare = 0 /\ family = FamilyOf(n)
  BY DEF CtrlInit, NoFamily, FamilyOf, n, Now
<1> QED BY <1>10, <1>11, ConstantsAre DEF CtrlInv, n

\* What is rare is counted.
LEMMA RareCounts ==
  ASSUME rare \in 0 .. MaxRare, NEW kind, May(kind)
  PROVE  rare' \in 0 .. MaxRare
BY ConstantsAre DEF May

\* Every step of the family keeps the invariant and does what the action properties say.
LEMMA NextKeeps ==
  ASSUME CtrlInv, [CtrlNext]_ctrlVars
  PROVE  CtrlInv' /\ Stepped
<1>1. Kept /\ rare \in 0 .. MaxRare
  BY DEF CtrlInv, Kept
<1>2. Stepped /\ rare' \in 0 .. MaxRare
  <2>1. CASE UNCHANGED ctrlVars
    BY <1>1, <2>1, StutterKeeps DEF ctrlVars
  <2>2. CASE (NewHead \/ Wake \/ Resume \/ RepairEnds) /\ UNCHANGED rare
    <3>1. Wake => Step(Now)
      BY DEF Wake
    <3>2. Resume => Stepped
      BY <1>1, ToggleGiven, StepKeeps DEF Resume
    <3> QED BY <1>1, <2>2, <3>1, <3>2, HeadKeeps, NowGiven, StepKeeps, LedgerKeeps
  <2>3. ASSUME NEW k \in Keys, Plain(k), UNCHANGED rare PROVE Stepped /\ rare' \in 0 .. MaxRare
    BY <1>1, <2>3, NodesKeep, AnswersKeep, AnsweredKeeps, KernelKeeps DEF Plain, Handled
  <2>4. ASSUME NEW k \in Keys, World(k) PROVE Stepped /\ rare' \in 0 .. MaxRare
    BY <1>1, <2>4, NodesKeep, LapseKeeps, OverstayKeeps, RareCounts DEF World
  <2>5. ASSUME NEW k \in Keys, Failure(k) PROVE Stepped /\ rare' \in 0 .. MaxRare
    BY <1>1, <2>5, AnswersKeep, RawKeeps, AnsweredKeeps, KernelKeeps, RareCounts DEF Failure
  <2>6. CASE May("halt") /\ (Halt \/ Restart)
    <3>1. Halt => Stepped
      BY <1>1, ToggleGiven, StepKeeps DEF Halt
    <3> QED BY <1>1, <2>6, <3>1, RestartKeeps, RareCounts
  <2>7. ASSUME NEW h \in Holders, Closes(h), UNCHANGED rare PROVE Stepped /\ rare' \in 0 .. MaxRare
    BY <1>1, <2>7, LedgerKeeps
  <2>8. CASE May("reorg") /\ Reorg
    BY <1>1, <2>8, LedgerKeeps, RareCounts
  <2>9. CASE May("recovery") /\ Repair
    BY <1>1, <2>9, LedgerKeeps, RareCounts
  <2> QED BY <2>1, <2>2, <2>3, <2>4, <2>5, <2>6, <2>7, <2>8, <2>9 DEF CtrlNext
<1>3. CtrlInv'
  BY <1>2 DEF Stepped, Kept, CtrlInv
<1> QED BY <1>2, <1>3

\* The family is sound in every state it can be in: see CtrlInv above.
THEOREM ControllerIsSound == CtrlSpec => []CtrlInv
<1>1. CtrlInit => CtrlInv
  BY InitSound
<1>2. CtrlInv /\ [CtrlNext]_ctrlVars => CtrlInv'
  BY NextKeeps
<1> QED BY <1>1, <1>2, PTL DEF CtrlSpec

\* Every variable keeps its type, and nothing ready was voided.
THEOREM ControllerTypeIsOK == CtrlSpec => []CtrlTypeOK
<1>1. CtrlInv => CtrlTypeOK
  <2> SUFFICES ASSUME CtrlInv PROVE CtrlTypeOK
    OBVIOUS
  <2> DEFINE n == Now
  <2>1. /\ n \in States /\ n.candidate = candidate /\ n.fact = fact /\ n.input = input
        /\ n.behind = behind /\ n.nonces = nonces /\ n.accepting = accepting /\ n.backoff = backoff
        /\ n.preparing = family.preparing /\ n.ready = family.ready /\ n.stale = family.stale
        /\ \A k \in Keys : OneAtATime(n, k)
    BY DEF CtrlInv, Sound, Now
  <2> HIDE DEF n
  <2>2. /\ candidate \in Candidates /\ fact \in Facts /\ input \in Givens /\ behind \in Marks
        /\ nonces \in Ledgers /\ accepting \in BOOLEAN /\ backoff \in Backoffs
    BY <2>1 DEF States
  <2>3. \A k \in Keys : /\ family.preparing[k] \in Tickets \cup {None} /\ family.stale[k] \subseteq Tasks
                        /\ family.ready[k] = None \/ ~family.ready[k].void
    BY <2>1, TypedFields DEF OneAtATime
  <2>4. rare \in 0 .. MaxRare
    BY DEF CtrlInv
  <2> QED BY <2>2, <2>3, <2>4
          DEF CtrlTypeOK, Candidates, Facts, Givens, Marks, Ledgers, Backoffs, AllIds, Entries
<1> QED BY <1>1, ControllerIsSound, PTL

\* An act leaves only when nothing of its key is left in the kernel, whatever a reorg takes back, a
\* restart adopts, a compensation leaves or a later step takes.
THEOREM KeysActOnce == CtrlSpec => OneActPerKey
<1>1. CtrlInv /\ [CtrlNext]_ctrlVars => Alone
  BY NextKeeps DEF Stepped
<1> QED BY <1>1, ControllerIsSound, PTL DEF CtrlSpec, OneActPerKey, Alone

\* Whenever an act leaves or a preparation is asked for, all that is counted is within the caps,
\* however many nonces reorgs, later steps and recovery have added.
THEOREM ReservationsHold == CtrlSpec => WithinReservations
<1>1. CtrlInv /\ [CtrlNext]_ctrlVars => WithinCaps
  BY NextKeeps DEF Stepped
<1> QED BY <1>1, ControllerIsSound, PTL DEF CtrlSpec, WithinReservations, WithinCaps

\* An act leaves only as its key's policy asks at that moment, on what its fact still reads, and with
\* no failure of the policy since it was asked for.
THEOREM ActsAreAsked == CtrlSpec => ActsAsAsked
<1>1. CtrlInv /\ [CtrlNext]_ctrlVars => AsAsked
  BY NextKeeps DEF Stepped
<1>2. AsAsked => [AsAsked]_ctrlVars
  OBVIOUS
<1> QED BY <1>1, ControllerIsSound, PTL DEF CtrlSpec, ActsAsAsked, AsAsked

\* No attempt that came to nothing is repeated as it was, nor before its wait is over.
THEOREM RetriesAreDue == CtrlSpec => NoIdleRetry
<1>1. CtrlInv /\ [CtrlNext]_ctrlVars => Retried
  BY NextKeeps DEF Stepped
<1> QED BY <1>1, ControllerIsSound, PTL DEF CtrlSpec, NoIdleRetry, Retried

\* Waits double up to their maximum while failures follow one another.
THEOREM WaitsDoWiden == CtrlSpec => WaitsWiden
<1>1. CtrlInv /\ [CtrlNext]_ctrlVars => Patient
  BY NextKeeps DEF Stepped
<1> QED BY <1>1, ControllerIsSound, PTL DEF CtrlSpec, WaitsWiden, Patient, Wider

=============================================================================
