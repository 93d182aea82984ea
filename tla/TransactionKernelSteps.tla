----------------------- MODULE TransactionKernelSteps -----------------------
(***************************************************************************)
(* What a step of the reducer keeps of the safety of TransactionKernel.    *)
(*                                                                         *)
(* Full relates a kernel s to the ledger file, the writes on their way,    *)
(* the network and the chain; Onward(s, r, ...) says that r is Full too    *)
(* and that from s to r submissions only move forward and no nonce loses   *)
(* its record.  Most operators are Quiet: they list no transaction, and    *)
(* bring no plan nearer to the network.  The others (the settling of       *)
(* nonces, commits, rebroadcasts and writes) are shown to be Onward one by *)
(* one, and composed along AfterEvent: Reduce is Onward from any Full      *)
(* kernel.                                                                 *)
(*                                                                         *)
(* Offered says the same of the offers: whatever can still be consumed is  *)
(* held.  There most operators are Gentle, some Tame, and the others are   *)
(* again followed one by one, up to ReduceOffered.                         *)
(* TransactionKernelSafety has the handlers and the theorems.              *)
(***************************************************************************)
EXTENDS TransactionKernelProofs

-----------------------------------------------------------------------------
(* What is listed, and where.                                              *)

\* the transactions that ledger (or kernel) l has as candidates
Listed(l) ==
  UNION {{TxAt(n, c, l.nonces[n].candidates[c]) : c \in DOMAIN l.nonces[n].candidates} :
           n \in Nonces}

\* handed to the network, or about to be handed to it again
Outside(s, N) == N \cup s.resends

\* whatever becomes of the process, the file lists t
OnFile(s, d, t) == Lists(d, t) /\ \A w \in DOMAIN s.writes : Lists(s.writes[w], t)

FinalOn(ch, n) == n < Len(ch.mined) /\ ch.mined[n + 1].block <= ch.head - FinalityLag

\* a candidate that may be on the network
Out(c) == c.sent \in {"unknown", "accepted"}

-----------------------------------------------------------------------------
(* The invariant.                                                          *)

\* records with candidates are open, and open ones are of nonces that l has passed
Sound(l) ==
  /\ l.nextNonce >= Undefined
  /\ \A n \in Nonces : /\ DOMAIN l.nonces[n].candidates # {} => l.nonces[n].open
                       /\ l.nonces[n].open => n < l.nextNonce

\* a file, besides, says nothing of what was mined
SoundFile(l) == Sound(l) /\ \A n \in Nonces : ~Resolved(l.nonces[n])

\* of the transactions in X and those l lists, one is of a given step of a given submission,
\* and l knows the submission
Once(l, X) ==
  /\ \A t \in X \cup Listed(l) : ~Recovery(t.plan) => l.submissions[t.plan[2]] # "none"
  /\ \A t, u \in X \cup Listed(l) :
       ~Recovery(t.plan) /\ t.plan = u.plan /\ t.step = u.step => t = u

HoleOn(ch, l, n) == n < l.nextNonce /\ ~l.nonces[n].open /\ ~FinalOn(ch, n)

\* from ledger l to ledger m, submissions move forward and no nonce loses its record too early
Advances(ch, l, m) ==
  /\ \A i \in Intents : Moves(l.submissions[i], m.submissions[i])
  /\ l.nextNonce <= m.nextNonce
  /\ l.nextNonce # Undefined => \A n \in Nonces : HoleOn(ch, m, n) => HoleOn(ch, l, n)

\* a plan that executes has not settled its submission, one that compensates exposed it
Submitted(s) ==
  /\ \A i \in Intents :
       LET q == s.plans[StepPlan(i)]
       IN /\ q.status = "executing" => s.submissions[i] \in {"none", "exposed"}
          /\ q.status = "compensating" => s.submissions[i] = "exposed"
  /\ \A p \in PlanIds : s.plans[p].exposed => s.plans[p].status = "executing"

\* no plan signs beyond the next nonce
Behind(s) == \A p \in PlanIds : s.plans[p].nonce <= s.nextNonce

\* what s takes for mined is, and what it takes for final is
Evidence(s, ch) ==
  /\ \A n \in Nonces :
       Resolved(s.nonces[n]) => /\ s.head # 0 /\ n < Len(ch.mined)
                                /\ ch.mined[n + 1].block = s.nonces[n].resolution.block
  /\ s.finalized = -1 \/ s.finalized <= ch.head - FinalityLag

\* the transaction plan p is committing or exposing is listed by every write from its own on,
\* and, once it is exposed, by the file
TxIn(p, q) == [nonce |-> q.nonce, place |-> q.pending, plan |-> p, step |-> q.cursor]
InFlight(s, d) ==
  \A p \in Executing(s) :
     LET q == s.plans[p]
     IN q.phase \in {"commit", "expose"} /\ Step(s, p).kind = "tx" =>
          /\ Lists(s, TxIn(p, q))
          /\ \A w \in DOMAIN s.writes : w >= q.flush => Lists(s.writes[w], TxIn(p, q))
          /\ q.phase = "expose" => OnFile(s, d, TxIn(p, q))

\* t is of a step that its plan has passed, or it is the transaction the plan waits for
Past(q, t) ==
  \/ t.step < q.cursor
  \/ /\ t.step = q.cursor /\ q.phase \in {"commit", "expose", "include"}
     /\ t.nonce = q.nonce /\ t.place = q.pending
Passed(s, X) ==
  \A t \in X \cup Listed(s) :
     ~Recovery(t.plan) /\ s.plans[t.plan].status = "executing" => Past(s.plans[t.plan], t)

\* what may be on the network is on file
OutOnFile(s, d) ==
  \A n \in Nonces : \A c \in DOMAIN s.nonces[n].candidates :
     Out(s.nonces[n].candidates[c]) => OnFile(s, d, TxAt(n, c, s.nonces[n].candidates[c]))

\* the ledger file d and the writes on their way, whatever becomes of the process
Filed(s, d, N, ch) ==
  /\ SoundFile(d) /\ Once(d, Outside(s, N))
  /\ \A w \in DOMAIN s.writes :
       /\ SoundFile(s.writes[w]) /\ Once(s.writes[w], Outside(s, N))
       /\ Advances(ch, d, s.writes[w])
       /\ \A v \in 1 .. w : Advances(ch, s.writes[v], s.writes[w])
  /\ \A t \in Outside(s, N) : FinalOn(ch, t.nonce) \/ OnFile(s, d, t)

\* the running kernel's own view
Safe(s, d, N, ch) ==
  /\ Sound(s) /\ Once(s, Outside(s, N))
  /\ Submitted(s) /\ Behind(s) /\ Evidence(s, ch) /\ InFlight(s, d)
  /\ \A t \in Outside(s, N) : FinalOn(ch, t.nonce) \/ Lists(s, t)
  /\ Passed(s, Outside(s, N)) /\ OutOnFile(s, d)
  /\ Advances(ch, d, s) /\ \A w \in DOMAIN s.writes : Advances(ch, s.writes[w], s)

-----------------------------------------------------------------------------
(* Steps that leave alone what is listed.                                  *)

\* the record r with its answers changed, or its resolution taken back
SameRecord(r, u) ==
  /\ u.open = r.open
  /\ DOMAIN u.candidates = DOMAIN r.candidates
  /\ u.resolution \in {r.resolution, Unresolved}
  /\ \A c \in DOMAIN r.candidates :
       /\ u.candidates[c].plan = r.candidates[c].plan
       /\ u.candidates[c].step = r.candidates[c].step
       /\ Out(u.candidates[c]) => Out(r.candidates[c])

Attached(q) == q.phase \in {"commit", "expose", "include"}
SamePending(q, u) == u.nonce = q.nonce /\ u.pending = q.pending

\* plan p goes from q to u without a transaction
QuietPlan(p, q, u) ==
  /\ u.nonce \in {q.nonce, Undefined}
  /\ u.status = "executing" /\ u.phase \in {"commit", "expose"} =>
       /\ q.status = "executing" /\ u.phase = q.phase /\ SamePending(q, u)
       /\ u.cursor = q.cursor /\ u.flush = q.flush
  /\ u.status = "executing" /\ ~Recovery(p) =>
       /\ q.status = "executing"
       /\ \/ u.cursor > q.cursor
          \/ u.cursor = q.cursor /\ (Attached(q) => Attached(u) /\ SamePending(q, u))

SameLists(s, r) ==
  /\ r.writes = s.writes /\ r.nextNonce = s.nextNonce /\ r.finalized = s.finalized
  /\ r.resends \subseteq s.resends /\ r.head = s.head
  /\ \A n \in Nonces : SameRecord(s.nonces[n], r.nonces[n])

Calm(s, r) ==
  /\ SameLists(s, r)
  /\ \A p \in PlanIds : QuietPlan(p, s.plans[p], r.plans[p])
  /\ \A i \in Intents : Moves(s.submissions[i], r.submissions[i])

Ready(s) == Typed(s) /\ Submitted(s)
Quiet(s, r) == Ready(r) /\ Calm(s, r)

LEMMA SameRecordItself == ASSUME NEW r PROVE SameRecord(r, r)
BY DEF SameRecord

LEMMA QuietPlanItself ==
  ASSUME NEW p, NEW q \in Plan
  PROVE QuietPlan(p, q, q)
BY DEF QuietPlan, SamePending

LEMMA QuietPlanTrans ==
  ASSUME NEW p, NEW q \in Plan, NEW u \in Plan, NEW v \in Plan,
         QuietPlan(p, q, u), QuietPlan(p, u, v)
  PROVE QuietPlan(p, q, v)
<1>1. q.cursor \in Nat /\ u.cursor \in Nat /\ v.cursor \in Nat
  BY DEF Plan
<1> QED
  BY <1>1, SMTT(30) DEF QuietPlan, SamePending, Attached

LEMMA NoPlanQuiet == ASSUME NEW p, NEW q PROVE QuietPlan(p, q, NoPlan)
BY DEF QuietPlan, NoPlan, Undefined

LEMMA MovesItself == \A x : Moves(x, x)
BY DEF Moves

LEMMA MovesTrans ==
  ASSUME NEW x, NEW y, NEW z, Moves(x, y), Moves(y, z)
  PROVE Moves(x, z)
BY DEF Moves

LEMMA SameListsItself == ASSUME NEW s PROVE SameLists(s, s)
BY SameRecordItself DEF SameLists

LEMMA SameRecordTrans ==
  ASSUME NEW r, NEW u, NEW v, SameRecord(r, u), SameRecord(u, v)
  PROVE SameRecord(r, v)
BY DEF SameRecord

LEMMA CalmTrans ==
  ASSUME NEW s, NEW r, NEW u, Typed(s), Ready(r), Calm(s, r), Quiet(r, u)
  PROVE Quiet(s, u)
<1>1. SameLists(s, u)
  BY SameRecordTrans DEF Calm, SameLists, Quiet
<1>2. \A p \in PlanIds : QuietPlan(p, s.plans[p], u.plans[p])
  <2> SUFFICES ASSUME NEW p \in PlanIds PROVE QuietPlan(p, s.plans[p], u.plans[p])
    OBVIOUS
  <2>1. s.plans[p] \in Plan /\ r.plans[p] \in Plan /\ u.plans[p] \in Plan
    BY DEF Quiet, Ready, Typed, KernelState
  <2>2. QuietPlan(p, s.plans[p], r.plans[p]) /\ QuietPlan(p, r.plans[p], u.plans[p])
    BY DEF Calm, Quiet
  <2> QED
    BY <2>1, <2>2, QuietPlanTrans
<1>3. \A i \in Intents : Moves(s.submissions[i], u.submissions[i])
  BY MovesTrans DEF Calm, Quiet
<1> QED
  BY <1>1, <1>2, <1>3 DEF Calm, Quiet

LEMMA QuietTrans ==
  ASSUME NEW s, NEW r, NEW u, Ready(s), Quiet(s, r), Quiet(r, u)
  PROVE Quiet(s, u)
BY CalmTrans DEF Quiet, Ready

\* the same plans and submissions, and records that are the same
LEMMA SameQuiet ==
  ASSUME NEW s, NEW r, Ready(s), Typed(r), SameLists(s, r),
         r.plans = s.plans, r.submissions = s.submissions
  PROVE Quiet(s, r)
<1>1. \A p \in PlanIds : QuietPlan(p, s.plans[p], r.plans[p])
  BY QuietPlanItself DEF Ready, Typed, KernelState
<1>2. Submitted(r)
  BY DEF Ready, Submitted
<1> QED
  BY <1>1, <1>2, MovesItself DEF Quiet, Ready, Calm

LEMMA QuietItself == ASSUME NEW s, Ready(s) PROVE Quiet(s, s)
BY SameQuiet, SameListsItself DEF Ready

\* p has ended, is as executing as it was, or is a recovery plan that starts
SameStatus(p, q, u) ==
  /\ \/ u.status \in {"none", q.status}
     \/ Recovery(p) /\ u.status = "executing"
  /\ u.exposed => u.status = "executing"

LEMMA SameStatusItself ==
  ASSUME NEW s, Ready(s), NEW p \in PlanIds
  PROVE SameStatus(p, s.plans[p], s.plans[p])
BY DEF SameStatus, Ready, Submitted

LEMMA NoPlanStatus == ASSUME NEW p, NEW q PROVE SameStatus(p, q, NoPlan)
BY DEF SameStatus, NoPlan

\* the same records and submissions, and some plans quietly changed
LEMMA PlansQuiet ==
  ASSUME NEW s, NEW r, Ready(s), Typed(r), SameLists(s, r), r.submissions = s.submissions,
         \A p \in PlanIds : /\ QuietPlan(p, s.plans[p], r.plans[p])
                            /\ SameStatus(p, s.plans[p], r.plans[p])
  PROVE Quiet(s, r)
<1>1. \A i \in Intents : StepPlan(i) \in PlanIds /\ ~Recovery(StepPlan(i))
  BY DEF StepPlan, PlanIds, Recovery
<1>2. Submitted(r)
  BY <1>1 DEF Ready, Submitted, SameStatus
<1> QED
  BY <1>2, MovesItself DEF Quiet, Ready, Calm

-----------------------------------------------------------------------------
(* Plans end, quietly.                                                     *)

LEMMA FailStepsQuiet ==
  ASSUME NEW s, Ready(s), NEW S \in SUBSET PlanIds
  PROVE Quiet(s, FailSteps(s, S))
<1> DEFINE hurt == {p \in S : s.plans[p].exposed}
           over == [NoPlan EXCEPT !.status = "compensating"]
           plans == [p \in PlanIds |->
                       IF p \in hurt THEN over ELSE IF p \in S THEN NoPlan ELSE s.plans[p]]
           subs == [i \in Intents |->
                      IF StepPlan(i) \in hurt THEN "exposed" ELSE s.submissions[i]]
           r == FailSteps(s, S)
<1>1. Typed(r)
  BY FailStepsTyped DEF Ready
<1>2. /\ r.plans = plans /\ r.submissions = subs /\ r.nonces = s.nonces
      /\ r.writes = s.writes /\ r.nextNonce = s.nextNonce /\ r.finalized = s.finalized
      /\ r.resends = s.resends /\ r.head = s.head
  BY DEF FailSteps, Ready, Typed, KernelState
<1>3. over.status = "compensating" /\ over.exposed = FALSE /\ over.nonce = Undefined
  BY DEF NoPlan
<1>4. \A i \in Intents : StepPlan(i) \in PlanIds /\ ~Recovery(StepPlan(i))
  BY DEF StepPlan, PlanIds, Recovery
<1>5. NoPlan.status = "none" /\ NoPlan.exposed = FALSE
  BY DEF NoPlan
<1> HIDE DEF over, r
<1>6. \A p \in PlanIds : QuietPlan(p, s.plans[p], plans[p])
  <2> SUFFICES ASSUME NEW p \in PlanIds PROVE QuietPlan(p, s.plans[p], plans[p])
    OBVIOUS
  <2>1. s.plans[p] \in Plan
    BY DEF Ready, Typed, KernelState
  <2>2. QuietPlan(p, s.plans[p], over)
    BY <1>3 DEF QuietPlan
  <2> QED
    BY <2>1, <2>2, NoPlanQuiet, QuietPlanItself
<1>7. \A i \in Intents : StepPlan(i) \in hurt =>
        s.submissions[i] \in {"none", "exposed"}
  BY <1>4 DEF Ready, Submitted
<1>8. \A i \in Intents : Moves(s.submissions[i], subs[i])
  BY <1>7 DEF Moves
<1>9. Submitted(r)
  <2>1. ASSUME NEW i \in Intents
        PROVE /\ plans[StepPlan(i)].status = "executing" => subs[i] \in {"none", "exposed"}
              /\ plans[StepPlan(i)].status = "compensating" => subs[i] = "exposed"
    BY <1>3, <1>4, <1>5 DEF Ready, Submitted
  <2>2. \A p \in PlanIds : plans[p].exposed => plans[p].status = "executing"
    BY <1>3, <1>5 DEF Ready, Submitted
  <2> QED
    BY <1>2, <2>1, <2>2, SMTT(30) DEF Submitted
<1>10. SameLists(s, r)
  BY <1>2, SameRecordItself DEF SameLists
<1> QED
  BY <1>1, <1>2, <1>6, <1>8, <1>9, <1>10 DEF Quiet, Ready, Calm, r

LEMMA EnterRecoveringQuiet ==
  ASSUME NEW s, Ready(s)
  PROVE Quiet(s, EnterRecovering(s))
<1> DEFINE r == [s EXCEPT !.lifecycle = "recovering", !.overdue = FALSE]
           S == {p \in Executing(r) : r.plans[p].phase \in PreCommit
                                       /\ ~LifecycleAllows(r, p)}
<1>1. /\ r \in KernelState /\ r.plans = s.plans /\ r.nextNonce = s.nextNonce
      /\ r.submissions = s.submissions /\ r.nonces = s.nonces /\ r.writes = s.writes
      /\ r.finalized = s.finalized /\ r.resends = s.resends /\ r.head = s.head
  BY ZenonT(60) DEF Ready, Typed, KernelState, Lifecycle
<1>2. Typed(r) /\ SameLists(s, r)
  BY <1>1, SameRecordItself DEF Typed, SameLists, Ready
<1>3. Quiet(s, r)
  BY <1>1, <1>2, SameQuiet
<1>4. S \in SUBSET PlanIds
  BY DEF Executing
<1>5. EnterRecovering(s) = IF s.lifecycle \notin {"starting", "running"} THEN s
                           ELSE FailSteps(r, S)
  <2>1. FailForbidden(r) = FailSteps(r, S)
    BY DEF FailForbidden
  <2>2. EnterRecovering(s) = IF s.lifecycle \notin {"starting", "running"} THEN s
                             ELSE FailForbidden(Value(r))
    BY DEF EnterRecovering
  <2> QED
    BY <2>1, <2>2, ValueIsItself
<1> HIDE DEF r, S
<1>6. Quiet(r, FailSteps(r, S))
  BY <1>3, <1>4, FailStepsQuiet DEF Quiet
<1> QED
  BY <1>3, <1>5, <1>6, QuietItself, QuietTrans

LEMMA FailRecoveryQuiet ==
  ASSUME NEW s, Ready(s), NEW S \in SUBSET PlanIds
  PROVE Quiet(s, FailRecovery(s, S))
<1> DEFINE spent == {o \in Offers : /\ Neutralizer(o) \in S
                                    /\ s.entries[o].state # "none"
                                    /\ s.entries[o].recoveryAttempts >= MaxRecoveryAttempts}
           r == EndRecovery(s, S, spent)
           plans == [p \in PlanIds |-> IF p \in S THEN NoPlan ELSE s.plans[p]]
           nonces == [n \in Nonces |->
                        IF Fill(n) \in S /\ s.nonces[n].open
                        THEN [s.nonces[n] EXCEPT !.failedFillHead = s.head] ELSE s.nonces[n]]
<1>1. Typed(r)
  BY EndRecoveryTyped DEF Ready
<1>2. /\ r.plans = plans /\ r.submissions = s.submissions /\ r.nonces = nonces
      /\ r.writes = s.writes /\ r.nextNonce = s.nextNonce /\ r.finalized = s.finalized
      /\ r.resends = s.resends /\ r.head = s.head
  BY DEF EndRecovery, Ready, Typed, KernelState
<1>3. FailRecovery(s, S) = IF spent = {} THEN r ELSE EnterRecovering(r)
  BY ValueIsItself, Zenon DEF FailRecovery, MarkSpent
<1> HIDE DEF spent, r
<1>4. SameLists(s, r)
  <2> SUFFICES ASSUME NEW n \in Nonces PROVE SameRecord(s.nonces[n], nonces[n])
    BY <1>2 DEF SameLists
  <2>1. s.nonces[n] \in NonceRecord
    BY DEF Ready, Typed, KernelState
  <2> QED
    BY <2>1 DEF SameRecord, NonceRecord
<1>6. Quiet(s, r)
  <2>1. ASSUME NEW p \in PlanIds
        PROVE QuietPlan(p, s.plans[p], plans[p]) /\ SameStatus(p, s.plans[p], plans[p])
    BY NoPlanQuiet, QuietPlanItself, NoPlanStatus, SameStatusItself DEF Ready, Typed, KernelState
  <2> HIDE DEF plans, nonces
  <2> QED
    BY <1>1, <1>2, <1>4, <2>1, PlansQuiet
<1> QED
  BY <1>3, <1>6, EnterRecoveringQuiet, QuietTrans DEF Quiet

LEMMA FailPlansQuiet ==
  ASSUME NEW s, Ready(s), NEW S \in SUBSET PlanIds
  PROVE Quiet(s, FailPlans(s, S))
<1>1. StepPlans(S) \in SUBSET PlanIds /\ RecoveryPlans(S) \in SUBSET PlanIds
  BY DEF StepPlans, RecoveryPlans
<1>2. FailPlans(s, S) = FailRecovery(FailSteps(s, StepPlans(S)), RecoveryPlans(S))
  BY ValueIsItself, Zenon DEF FailPlans
<1>3. Quiet(s, FailSteps(s, StepPlans(S)))
  BY <1>1, FailStepsQuiet
<1> QED
  BY <1>1, <1>2, <1>3, FailRecoveryQuiet, QuietTrans DEF Quiet

LEMMA SettlePlansQuiet ==
  ASSUME NEW s, Ready(s), NEW S \in SUBSET PlanIds, \A p \in S : s.plans[p].status = "executing"
  PROVE Quiet(s, SettlePlans(s, S))
<1> DEFINE r == SettlePlans(s, S)
           plans == [p \in PlanIds |-> IF p \in S THEN NoPlan ELSE s.plans[p]]
           subs == [i \in Intents |->
                      IF StepPlan(i) \in S THEN "settled" ELSE s.submissions[i]]
<1>1. Typed(r)
  BY SettlePlansTyped DEF Ready
<1>2. /\ r.plans = plans /\ r.submissions = subs /\ r.nonces = s.nonces
      /\ r.writes = s.writes /\ r.nextNonce = s.nextNonce /\ r.finalized = s.finalized
      /\ r.resends = s.resends /\ r.head = s.head
  BY DEF SettlePlans, Ready, Typed, KernelState
<1> HIDE DEF r
<1>3. \A p \in PlanIds : QuietPlan(p, s.plans[p], plans[p])
  BY NoPlanQuiet, QuietPlanItself DEF Ready, Typed, KernelState
<1>4. \A i \in Intents : StepPlan(i) \in S => s.submissions[i] \in {"none", "exposed"}
  BY DEF Ready, Submitted
<1>5. \A i \in Intents : Moves(s.submissions[i], subs[i])
  BY <1>4 DEF Moves
<1>6. NoPlan.status = "none" /\ NoPlan.exposed = FALSE
  BY DEF NoPlan
<1>7. \A i \in Intents : StepPlan(i) \in PlanIds
  BY DEF StepPlan, PlanIds
<1>8. Submitted(r)
  BY <1>2, <1>6, <1>7 DEF Ready, Submitted
<1>9. SameLists(s, r)
  BY <1>2, SameRecordItself DEF SameLists
<1> QED
  BY <1>1, <1>2, <1>3, <1>5, <1>8, <1>9 DEF Quiet, Ready, Calm, r

-----------------------------------------------------------------------------
(* Plans move, quietly.                                                    *)

\* p goes to another phase, and had no transaction in flight
LEMMA PhaseQuiet ==
  ASSUME NEW p, NEW q \in Plan, ~Attached(q),
         NEW phase \in Phases \ {"commit", "expose"}
  PROVE LET u == [q EXCEPT !.phase = phase]
        IN QuietPlan(p, q, u) /\ u.exposed = q.exposed /\ u.status = q.status
<1> DEFINE u == [q EXCEPT !.phase = phase]
<1>1. /\ u.phase = phase /\ u.nonce = q.nonce /\ u.cursor = q.cursor /\ u.exposed = q.exposed
      /\ u.status = q.status
  BY DEF Plan
<1> HIDE DEF u
<1>2. QuietPlan(p, q, u)
  BY <1>1 DEF QuietPlan, Attached
<1> QED
  BY <1>1, <1>2 DEF u

LEMMA StatusKept ==
  ASSUME NEW s, Ready(s), NEW p \in PlanIds, NEW u, u.exposed = s.plans[p].exposed,
         u.status = s.plans[p].status
  PROVE SameStatus(p, s.plans[p], u)
BY DEF SameStatus, Ready, Submitted

LEMMA AdvanceQuiet ==
  ASSUME NEW s, Ready(s), NEW S \in SUBSET PlanIds,
         \A p \in S : s.plans[p].status = "executing" /\ s.plans[p].phase = "ready"
  PROVE Quiet(s, Advance(s, S))
<1> DEFINE done == {p \in S : s.plans[p].cursor > Len(StepsOf(p))}
           parked == {p \in S \ done : AtStageBoundary(s, p)}
           refused == {p \in S \ (done \cup parked) : DecisionRefused(s, p)}
           lapsed == {p \in parked : s.plans[p].doubt = "lapsed"}
           going == S \ (done \cup parked \cup refused)
           plans == [p \in PlanIds |->
                  CASE p \in parked -> [s.plans[p] EXCEPT !.phase = "awaiting-advance"]
                    [] p \in S \ (done \cup parked \cup refused) ->
                         [s.plans[p] EXCEPT !.phase = PhaseOf(Step(s, p).kind)]
                    [] OTHER -> s.plans[p]]
           moved == [s EXCEPT !.plans = plans]
<1>1. Typed(moved)
  BY MovedTyped DEF Ready
<1>2. /\ moved.plans = plans /\ moved.submissions = s.submissions /\ moved.nonces = s.nonces
      /\ moved.writes = s.writes /\ moved.nextNonce = s.nextNonce
      /\ moved.finalized = s.finalized /\ moved.resends = s.resends /\ moved.head = s.head
  BY DEF Ready, Typed, KernelState
<1>3. Advance(s, S) = FailSteps(SettlePlans(moved, done), refused \cup lapsed)
  BY ValueIsItself DEF Advance, AdvanceTo
<1>4. /\ done \in SUBSET PlanIds /\ refused \cup lapsed \in SUBSET PlanIds
      /\ done \subseteq S /\ done \cap parked = {} /\ done \cap going = {}
      /\ parked \subseteq S /\ going \subseteq S
      /\ \A p \in done : plans[p] = s.plans[p]
  OBVIOUS
<1>5. ASSUME NEW p \in PlanIds
      PROVE QuietPlan(p, s.plans[p], plans[p]) /\ SameStatus(p, s.plans[p], plans[p])
  <2>1. s.plans[p] \in Plan
    BY DEF Ready, Typed, KernelState
  <2>2. CASE p \in parked \cup going
    <3> DEFINE phase == IF p \in parked THEN "awaiting-advance" ELSE PhaseOf(Step(s, p).kind)
               u == [s.plans[p] EXCEPT !.phase = phase]
    <3>1. phase \in Phases \ {"commit", "expose"}
      BY DEF PhaseOf, Phases
    <3>2. plans[p] = u
      BY <2>2
    <3>3. ~Attached(s.plans[p])
      BY <2>2, <1>4 DEF Attached
    <3> HIDE DEF phase
    <3>4. QuietPlan(p, s.plans[p], u) /\ u.exposed = s.plans[p].exposed
          /\ u.status = s.plans[p].status
      BY <2>1, <3>1, <3>3, PhaseQuiet
    <3> HIDE DEF u, plans
    <3> QED
      BY <3>2, <3>4, StatusKept
  <2>3. CASE p \notin parked \cup going
    <3>1. plans[p] = s.plans[p]
      BY <2>3
    <3> QED
      BY <2>1, <3>1, QuietPlanItself, SameStatusItself
  <2> QED
    BY <2>2, <2>3
<1> HIDE DEF plans, done, parked, refused, lapsed, going, moved
<1>6. SameLists(s, moved)
  BY <1>2, SameRecordItself DEF SameLists
<1>7. Quiet(s, moved)
  BY <1>1, <1>2, <1>5, <1>6, PlansQuiet
<1>8. \A p \in done : moved.plans[p].status = "executing"
  BY <1>2, <1>4
<1>9. Quiet(moved, SettlePlans(moved, done))
  BY <1>4, <1>7, <1>8, SettlePlansQuiet DEF Quiet
<1>10. Quiet(s, SettlePlans(moved, done))
  BY <1>7, <1>9, QuietTrans
<1> QED
  BY <1>3, <1>4, <1>10, FailStepsQuiet, QuietTrans DEF Quiet

-----------------------------------------------------------------------------
(* Chain evidence, quietly.                                                *)

LEMMA SettleCompensationQuiet ==
  ASSUME NEW s, Ready(s)
  PROVE Quiet(s, SettleCompensation(s))
<1> DEFINE S == {p \in PlanIds : s.plans[p].status = "compensating"}
           failed == {p \in S : \E o \in Mine(s, p) : s.entries[o].stuck}
           done == {p \in S \ failed : /\ \A o \in Mine(s, p) : s.entries[o].state \notin Unretired
                                       /\ ~CandidateOpen(s, p)}
           plans == [p \in PlanIds |-> IF p \in failed \cup done THEN NoPlan ELSE s.plans[p]]
           subs == [i \in Intents |->
                      IF StepPlan(i) \in done THEN "compensated" ELSE s.submissions[i]]
           r == SettleCompensation(s)
<1>1. Typed(r)
  BY SettleCompensationTyped DEF Ready
<1>2. /\ r.plans = plans /\ r.submissions = subs /\ r.nonces = s.nonces
      /\ r.writes = s.writes /\ r.nextNonce = s.nextNonce /\ r.finalized = s.finalized
      /\ r.resends = s.resends /\ r.head = s.head
  BY DEF SettleCompensation, Ready, Typed, KernelState
<1>3. \A i \in Intents : StepPlan(i) \in done => s.plans[StepPlan(i)].status = "compensating"
  OBVIOUS
<1> HIDE DEF r, failed, done
<1>4. \A p \in PlanIds : QuietPlan(p, s.plans[p], plans[p])
  BY NoPlanQuiet, QuietPlanItself DEF Ready, Typed, KernelState
<1>5. \A i \in Intents : Moves(s.submissions[i], subs[i])
  BY <1>3 DEF Moves, Ready, Submitted
<1>6. NoPlan.status = "none" /\ NoPlan.exposed = FALSE
  BY DEF NoPlan
<1>7. \A i \in Intents : StepPlan(i) \in PlanIds
  BY DEF StepPlan, PlanIds
<1>8. Submitted(r)
  BY <1>2, <1>6, <1>7 DEF Ready, Submitted
<1>9. SameLists(s, r)
  BY <1>2, SameRecordItself DEF SameLists
<1> QED
  BY <1>1, <1>2, <1>4, <1>5, <1>8, <1>9 DEF Quiet, Ready, Calm, r

LEMMA IncludeQuiet ==
  ASSUME NEW s, Ready(s), NEW won \in SUBSET PlanIds,
         \A p \in won : s.plans[p].nonce \in Nonces
  PROVE /\ Quiet(s, Include(s, won))
        /\ \A p \in won : /\ Include(s, won).plans[p].status = s.plans[p].status
                          /\ Include(s, won).plans[p].phase = "ready"
        /\ \A p \in PlanIds \ won : Include(s, won).plans[p] = s.plans[p]
<1> DEFINE u(p) == [s.plans[p] EXCEPT !.cursor = @ + 1, !.phase = "ready", !.pending = 0,
                               !.lastInclusion = s.nonces[s.plans[p].nonce].resolution.block]
           plans == [p \in PlanIds |-> IF p \in won THEN u(p) ELSE s.plans[p]]
           r == Include(s, won)
<1>1. Typed(r)
  BY IncludeTyped DEF Ready
<1>2. /\ r.plans = plans /\ r.submissions = s.submissions /\ r.nonces = s.nonces
      /\ r.writes = s.writes /\ r.nextNonce = s.nextNonce /\ r.finalized = s.finalized
      /\ r.resends = s.resends /\ r.head = s.head
  BY DEF Include, Ready, Typed, KernelState
<1>3. ASSUME NEW p \in PlanIds
      PROVE /\ QuietPlan(p, s.plans[p], u(p)) /\ SameStatus(p, s.plans[p], u(p))
            /\ u(p).status = s.plans[p].status /\ u(p).phase = "ready"
  <2>1. s.plans[p] \in Plan
    BY DEF Ready, Typed, KernelState
  <2>2. /\ u(p).status = s.plans[p].status /\ u(p).phase = "ready"
        /\ u(p).cursor = s.plans[p].cursor + 1 /\ u(p).nonce = s.plans[p].nonce
        /\ u(p).exposed = s.plans[p].exposed
    BY <2>1 DEF Plan
  <2>3. s.plans[p].cursor \in Nat
    BY <2>1 DEF Plan
  <2> HIDE DEF u
  <2>4. u(p).cursor > s.plans[p].cursor
    BY <2>2, <2>3
  <2>5. QuietPlan(p, s.plans[p], u(p))
    BY <2>2, <2>4 DEF QuietPlan
  <2>6. SameStatus(p, s.plans[p], u(p))
    BY <2>2, StatusKept
  <2> QED
    BY <2>2, <2>5, <2>6
<1> HIDE DEF r, u
<1>4. \A p \in PlanIds : /\ QuietPlan(p, s.plans[p], r.plans[p])
                         /\ SameStatus(p, s.plans[p], r.plans[p])
  BY <1>2, <1>3, QuietPlanItself, SameStatusItself DEF Ready, Typed, KernelState
<1>5. SameLists(s, r)
  BY <1>2, SameRecordItself DEF SameLists
<1>6. Quiet(s, r)
  BY <1>1, <1>2, <1>4, <1>5, PlansQuiet
<1> QED
  BY <1>2, <1>3, <1>6 DEF r

LEMMA ProgressPlansQuiet ==
  ASSUME NEW s, Ready(s)
  PROVE Quiet(s, ProgressPlans(s))
<1> DEFINE c == SettleCompensation(s)
           S == {p \in InPhase(c, "include") :
                   c.plans[p].nonce \in Nonces /\ Resolved(c.nonces[c.plans[p].nonce])}
           won == Won(c, S)
           i == Include(c, won)
           a == Advance(i, won)
<1>1. ProgressPlans(s) = FailPlans(a, S \ won)
  <2>1. ProgressPlans(s) = ProgressIncluded(c)
    BY ValueIsItself DEF ProgressPlans
  <2> HIDE DEF c
  <2> QED
    BY <2>1, ValueIsItself DEF ProgressIncluded, Progressed, ProgressResolved
<1>2. Quiet(s, c)
  BY SettleCompensationQuiet
<1>3. /\ S \in SUBSET PlanIds /\ won \in SUBSET PlanIds /\ S \ won \in SUBSET PlanIds
      /\ \A p \in won : c.plans[p].nonce \in Nonces /\ c.plans[p].status = "executing"
  BY DEF InPhase, Executing, Won
<1> HIDE DEF c, S, won
<1>4. Quiet(c, i) /\ \A p \in won : i.plans[p].status = "executing" /\ i.plans[p].phase = "ready"
  BY <1>2, <1>3, IncludeQuiet DEF Quiet
<1>5. Quiet(s, i)
  BY <1>2, <1>4, QuietTrans
<1> HIDE DEF i
<1>6. Quiet(i, a)
  BY <1>3, <1>4, AdvanceQuiet DEF Quiet
<1>7. Quiet(s, a)
  BY <1>5, <1>6, QuietTrans
<1> HIDE DEF a
<1>8. Quiet(a, FailPlans(a, S \ won))
  BY <1>3, <1>7, FailPlansQuiet DEF Quiet
<1> QED
  BY <1>1, <1>7, <1>8, QuietTrans

LEMMA SettleEntriesQuiet ==
  ASSUME NEW s, Ready(s)
  PROVE Quiet(s, SettleEntries(s))
<1> DEFINE r == SettleEntries(s)
<1>1. Typed(r)
  BY SettleEntriesTyped DEF Ready
<1>2. /\ r.plans = s.plans /\ r.submissions = s.submissions /\ r.nonces = s.nonces
      /\ r.writes = s.writes /\ r.nextNonce = s.nextNonce /\ r.finalized = s.finalized
      /\ r.resends = s.resends /\ r.head = s.head
  BY DEF SettleEntries, Ready, Typed, KernelState
<1> QED
  BY <1>1, <1>2, SameQuiet, SameRecordItself DEF SameLists

LEMMA LatchBoundQuiet == ASSUME NEW s, Ready(s) PROVE Quiet(s, LatchBound(s))
BY EnterRecoveringQuiet, QuietItself DEF LatchBound

LEMMA CheckStartedQuiet ==
  ASSUME NEW s, Ready(s)
  PROVE Quiet(s, CheckStarted(s))
<1> DEFINE since == IF s.startHead = 0 THEN s.head ELSE s.startHead
           asked == [s EXCEPT !.startHead = since]
           ran == [s EXCEPT !.startHead = 0, !.nonceChecked = FALSE, !.lifecycle = "running"]
<1>1. CheckStarted(s) \in {s, EnterRecovering(s), asked, ran}
  BY DEF CheckStarted
<1>2. /\ asked \in KernelState /\ asked.plans = s.plans /\ asked.submissions = s.submissions
      /\ asked.nonces = s.nonces /\ asked.writes = s.writes /\ asked.nextNonce = s.nextNonce
      /\ asked.finalized = s.finalized /\ asked.resends = s.resends /\ asked.head = s.head
  BY ZenonT(60) DEF Ready, Typed, KernelState
<1>3. /\ ran \in KernelState /\ ran.plans = s.plans /\ ran.submissions = s.submissions
      /\ ran.nonces = s.nonces /\ ran.writes = s.writes /\ ran.nextNonce = s.nextNonce
      /\ ran.finalized = s.finalized /\ ran.resends = s.resends /\ ran.head = s.head
  BY DEF Ready, Typed, KernelState, Lifecycle
<1>4. Typed(asked) /\ Typed(ran)
  BY <1>2, <1>3 DEF Ready, Typed
<1> HIDE DEF asked, ran
<1>5. SameLists(s, asked) /\ SameLists(s, ran)
  BY <1>2, <1>3, SameRecordItself DEF SameLists
<1>6. Quiet(s, asked) /\ Quiet(s, ran)
  BY <1>2, <1>3, <1>4, <1>5, SameQuiet
<1> QED
  BY <1>1, <1>6, EnterRecoveringQuiet, QuietItself

-----------------------------------------------------------------------------
(* Recovery starts, quietly.                                               *)

LEMMA MarkStuckQuiet ==
  ASSUME NEW s, Ready(s), NEW S
  PROVE Quiet(s, MarkStuck(s, S))
<1> DEFINE r == MarkStuck(s, S)
<1>1. Typed(r)
  BY MarkStuckTyped DEF Ready
<1>2. /\ r.plans = s.plans /\ r.submissions = s.submissions /\ r.nonces = s.nonces
      /\ r.writes = s.writes /\ r.nextNonce = s.nextNonce /\ r.finalized = s.finalized
      /\ r.resends = s.resends /\ r.head = s.head
  BY DEF MarkStuck, Ready, Typed, KernelState
<1> HIDE DEF r
<1> QED
  BY <1>1, <1>2, SameQuiet, SameRecordItself DEF SameLists, r

LEMMA StartedQuiet ==
  ASSUME NEW s, Ready(s), NEW new \in SUBSET PlanIds, NEW target,
         \A p \in new : Recovery(p) /\ target[p[2]] \in Int
  PROVE Quiet(s, Started(s, new, target))
<1> DEFINE u(p) == [NoPlan EXCEPT !.status = "executing", !.phase = "simulate",
                                  !.target = target[p[2]]]
           plans == [p \in PlanIds |-> IF p \in new THEN u(p) ELSE s.plans[p]]
           r == Started(s, new, target)
<1>1. Typed(r)
  BY StartedTyped DEF Ready
<1>2. /\ r.plans = plans /\ r.submissions = s.submissions /\ r.nonces = s.nonces
      /\ r.writes = s.writes /\ r.nextNonce = s.nextNonce /\ r.finalized = s.finalized
      /\ r.resends = s.resends /\ r.head = s.head
  BY DEF Started, Ready, Typed, KernelState
<1>3. ASSUME NEW p \in new
      PROVE QuietPlan(p, s.plans[p], u(p)) /\ SameStatus(p, s.plans[p], u(p))
  <2>1. /\ u(p).status = "executing" /\ u(p).phase = "simulate" /\ u(p).exposed = FALSE
        /\ u(p).nonce = Undefined
    BY DEF NoPlan
  <2> HIDE DEF u
  <2> QED
    BY <2>1 DEF QuietPlan, SameStatus
<1> HIDE DEF r, u
<1>4. \A p \in PlanIds : /\ QuietPlan(p, s.plans[p], r.plans[p])
                         /\ SameStatus(p, s.plans[p], r.plans[p])
  BY <1>2, <1>3, QuietPlanItself, SameStatusItself DEF Ready, Typed, KernelState
<1>5. SameLists(s, r)
  BY <1>2, SameRecordItself DEF SameLists
<1> QED
  BY <1>1, <1>2, <1>4, <1>5, PlansQuiet DEF r

LEMMA StartNeutralizersQuiet ==
  ASSUME NEW s, Ready(s), NEW S \in SUBSET Offers
  PROVE Quiet(s, StartNeutralizers(s, S))
<1> DEFINE new == {Neutralizer(o) : o \in S}
           target == [o \in S |-> RecoverTarget(s, S, o)]
           entries == [o \in Offers |->
              IF o \in S THEN [s.entries[o] EXCEPT !.recoveryAttempts = @ + 1]
              ELSE s.entries[o]]
           r == [s EXCEPT !.entries = entries]
<1>1. /\ new \in SUBSET PlanIds
      /\ \A p \in new : Recovery(p) /\ target[p[2]] \in Int
  BY RecoverTargetTyped DEF Neutralizer, PlanIds, Recovery
<1>2. StartNeutralizers(s, S) = Started(r, new, target)
  BY DEF StartNeutralizers
<1>3. entries \in [Offers -> Entry]
  <2> SUFFICES ASSUME NEW o \in Offers PROVE entries[o] \in Entry
    BY Zenon
  <2>1. s.entries[o] \in Entry
    BY DEF Ready, Typed, KernelState
  <2>2. [s.entries[o] EXCEPT !.recoveryAttempts = @ + 1] \in Entry
    BY <2>1 DEF Entry
  <2> QED
    BY <2>1, <2>2
<1> HIDE DEF new, target, entries
<1>4. /\ r \in KernelState /\ r.plans = s.plans /\ r.submissions = s.submissions
      /\ r.nonces = s.nonces /\ r.writes = s.writes /\ r.nextNonce = s.nextNonce
      /\ r.finalized = s.finalized /\ r.resends = s.resends /\ r.head = s.head
  BY <1>3 DEF Ready, Typed, KernelState
<1> HIDE DEF r
<1>5. Quiet(s, r)
  BY <1>4, SameQuiet, SameRecordItself DEF Ready, Typed, SameLists
<1> QED
  BY <1>1, <1>2, <1>5, StartedQuiet, QuietTrans DEF Quiet

LEMMA StartFillsQuiet ==
  ASSUME NEW s, Ready(s), NEW S \in SUBSET Nonces
  PROVE Quiet(s, StartFills(s, S))
<1> DEFINE new == {Fill(n) : n \in S}
           target == [n \in S |-> n]
<1>1. /\ new \in SUBSET PlanIds
      /\ \A p \in new : Recovery(p) /\ target[p[2]] \in Int
  BY BoundsAssumption DEF Fill, PlanIds, Recovery, Nonces
<1>2. StartFills(s, S) = Started(s, new, target)
  BY DEF StartFills
<1> HIDE DEF new, target
<1> QED
  BY <1>1, <1>2, StartedQuiet

LEMMA RecoverOwedQuiet ==
  ASSUME NEW s, Ready(s), NEW owed \in SUBSET Offers, NEW spent, NEW ends
  PROVE Quiet(s, RecoverOwed(s, owed, spent, ends))
<1> DEFINE begin == {o \in owed \ spent : ends => \A x \in spent : o < x}
           stuck == {o \in spent : ends => Below(spent, o) = {}}
           b == StartNeutralizers(s, begin)
           r == MarkStuck(b, stuck)
<1>1. RecoverOwed(s, owed, spent, ends) =
        IF ends THEN EnterRecovering(r) ELSE StartFills(r, FillsDue(r))
  BY ValueIsItself DEF RecoverOwed, StartAndMark, AfterNeutralizers, FillDue
<1>2. begin \in SUBSET Offers
  OBVIOUS
<1> HIDE DEF begin, stuck
<1>3. Quiet(s, b)
  BY <1>2, StartNeutralizersQuiet
<1>4. Quiet(b, r)
  BY <1>3, MarkStuckQuiet DEF Quiet
<1>5. Quiet(s, r)
  BY <1>3, <1>4, QuietTrans
<1> HIDE DEF r
<1>6. FillsDue(r) \in SUBSET Nonces
  BY DEF FillsDue
<1>7. Quiet(r, EnterRecovering(r)) /\ Quiet(r, StartFills(r, FillsDue(r)))
  BY <1>5, <1>6, EnterRecoveringQuiet, StartFillsQuiet DEF Quiet
<1> QED
  BY <1>1, <1>5, <1>7, QuietTrans

LEMMA RecoverQuiet ==
  ASSUME NEW s, Ready(s)
  PROVE Quiet(s, Recover(s))
<1> DEFINE owed == {o \in Offers : OwesNeutralizer(s, o)}
           spent == Spent(s, owed)
           ends == s.lifecycle = "running" /\ spent # {}
<1>1. Recover(s) \in {s, RecoverOwed(s, owed, spent, ends)}
  BY DEF Recover, RecoverSome, RecoverAll
<1>2. owed \in SUBSET Offers
  OBVIOUS
<1> HIDE DEF owed, spent, ends
<1>3. Quiet(s, RecoverOwed(s, owed, spent, ends))
  BY <1>2, RecoverOwedQuiet
<1> QED
  BY <1>1, <1>3, QuietItself

-----------------------------------------------------------------------------
(* The end of an event, quietly.                                           *)

LEMMA SimulateAgainQuiet ==
  ASSUME NEW s, Ready(s), NEW S \in SUBSET PlanIds,
         \A p \in S : s.plans[p].cursor \in DOMAIN StepsOf(p) /\ ~Attached(s.plans[p])
  PROVE Quiet(s, SimulateAgain(s, S))
<1> DEFINE u(p) == [s.plans[p] EXCEPT !.phase = "simulate"]
           plans == [p \in PlanIds |-> IF p \in S THEN u(p) ELSE s.plans[p]]
           r == SimulateAgain(s, S)
<1>1. Typed(r)
  BY SimulateAgainTyped DEF Ready
<1>2. /\ r.plans = plans /\ r.submissions = s.submissions /\ r.nonces = s.nonces
      /\ r.writes = s.writes /\ r.nextNonce = s.nextNonce /\ r.finalized = s.finalized
      /\ r.resends = s.resends /\ r.head = s.head
  BY DEF SimulateAgain, Ready, Typed, KernelState
<1>3. ASSUME NEW p \in S
      PROVE QuietPlan(p, s.plans[p], u(p)) /\ SameStatus(p, s.plans[p], u(p))
  <2>1. s.plans[p] \in Plan /\ "simulate" \in Phases \ {"commit", "expose"}
    BY DEF Ready, Typed, KernelState, Phases
  <2>2. QuietPlan(p, s.plans[p], u(p)) /\ u(p).exposed = s.plans[p].exposed
        /\ u(p).status = s.plans[p].status
    BY <2>1, PhaseQuiet
  <2> HIDE DEF u
  <2> QED
    BY <2>2, StatusKept
<1> HIDE DEF r, u
<1>4. \A p \in PlanIds : /\ QuietPlan(p, s.plans[p], r.plans[p])
                         /\ SameStatus(p, s.plans[p], r.plans[p])
  BY <1>2, <1>3, QuietPlanItself, SameStatusItself DEF Ready, Typed, KernelState
<1>5. SameLists(s, r)
  BY <1>2, SameRecordItself DEF SameLists
<1> QED
  BY <1>1, <1>2, <1>4, <1>5, PlansQuiet DEF r

LEMMA WaitingQuiet ==
  ASSUME NEW s, Ready(s), NEW p \in InPhase(s, "await-slot")
  PROVE /\ p \in PlanIds /\ s.plans[p].cursor \in DOMAIN StepsOf(p)
        /\ ~Attached(s.plans[p]) /\ s.plans[p].status = "executing"
BY WaitingPlaced DEF Ready, InPhase, Executing, Attached

LEMMA PassRecoveriesQuiet ==
  ASSUME NEW s, Ready(s), NEW S \in SUBSET RecoveryPlans(InPhase(s, "await-slot"))
  PROVE Quiet(s, PassRecoveries(s, S))
<1> DEFINE again == {p \in S : ~SimFresh(s, p)}
           lost == {p \in S : Lost(s, p)}
           r == SimulateAgain(s, again)
<1>1. PassRecoveries(s, S) = FailRecovery(r, lost)
  BY ValueIsItself DEF PassRecoveries
<1>2. /\ again \in SUBSET PlanIds /\ lost \in SUBSET PlanIds
      /\ \A p \in again : s.plans[p].cursor \in DOMAIN StepsOf(p) /\ ~Attached(s.plans[p])
  BY WaitingQuiet DEF RecoveryPlans
<1> HIDE DEF again, lost
<1>3. Quiet(s, r)
  BY <1>2, SimulateAgainQuiet
<1> HIDE DEF r
<1> QED
  BY <1>1, <1>2, <1>3, FailRecoveryQuiet, QuietTrans DEF Quiet

LEMMA PassStepsQuiet ==
  ASSUME NEW s, Ready(s), NEW S \in SUBSET InPhase(s, "await-slot"), NEW allowed
  PROVE Quiet(s, PassSteps(s, S, allowed))
<1> DEFINE again == {p \in S \cap allowed : ~Releasing(s, p) /\ ~SimFresh(s, p)}
           r == SimulateAgain(s, again)
<1>1. PassSteps(s, S, allowed) = FailSteps(r, S \ allowed)
  BY ValueIsItself DEF PassSteps
<1>2. /\ again \in SUBSET PlanIds /\ S \ allowed \in SUBSET PlanIds
      /\ \A p \in again : s.plans[p].cursor \in DOMAIN StepsOf(p) /\ ~Attached(s.plans[p])
  BY WaitingQuiet
<1> HIDE DEF again
<1>3. Quiet(s, r)
  BY <1>2, SimulateAgainQuiet
<1> HIDE DEF r
<1> QED
  BY <1>1, <1>2, <1>3, FailStepsQuiet, QuietTrans DEF Quiet

LEMMA StopQuiet ==
  ASSUME NEW s, Ready(s), NEW outcome \in {"clean", "unsafe", "refused"}
  PROVE Quiet(s, Stop(s, outcome))
<1> DEFINE r == Stop(s, outcome)
<1>1. Typed(r)
  BY StopTyped DEF Ready
<1>2. /\ r.plans = s.plans /\ r.submissions = s.submissions /\ r.nonces = s.nonces
      /\ r.writes = s.writes /\ r.nextNonce = s.nextNonce /\ r.finalized = s.finalized
      /\ r.resends = s.resends /\ r.head = s.head
  BY DEF Stop, Ready, Typed, KernelState
<1> HIDE DEF r
<1> QED
  BY <1>1, <1>2, SameQuiet, SameRecordItself DEF SameLists, r

LEMMA CheckStoppedQuiet == ASSUME NEW s, Ready(s) PROVE Quiet(s, CheckStopped(s))
BY StopQuiet, QuietItself DEF CheckStopped, StopWhen

LEMMA PruneFinishedQuiet ==
  ASSUME NEW s, Ready(s)
  PROVE Quiet(s, PruneFinished(s))
<1> DEFINE r == PruneFinished(s)
<1>1. Typed(r)
  BY PruneFinishedTyped DEF Ready
<1>2. /\ r.plans = s.plans /\ r.submissions = s.submissions /\ r.nonces = s.nonces
      /\ r.writes = s.writes /\ r.nextNonce = s.nextNonce /\ r.finalized = s.finalized
      /\ r.resends = s.resends /\ r.head = s.head
  BY DEF PruneFinished, Ready, Typed, KernelState
<1> HIDE DEF r
<1> QED
  BY <1>1, <1>2, SameQuiet, SameRecordItself DEF SameLists, r

-----------------------------------------------------------------------------
(* From a safe state to a safe state.                                      *)

Full(s, d, N, ch) == Typed(s) /\ Filed(s, d, N, ch) /\ Safe(s, d, N, ch)
Onward(s, r, d, N, ch) == Full(r, d, N, ch) /\ Advances(ch, s, r)

LEMMA ListedTyped ==
  ASSUME NEW l, l.nonces \in [Nonces -> NonceRecord]
  PROVE Listed(l) \subseteq Tx
<1> SUFFICES ASSUME NEW n \in Nonces, NEW c \in DOMAIN l.nonces[n].candidates
             PROVE TxAt(n, c, l.nonces[n].candidates[c]) \in Tx
  BY DEF Listed
<1>1. l.nonces[n].candidates \in Seq(Candidate)
  BY DEF NonceRecord
<1>2. c \in Nat /\ l.nonces[n].candidates[c] \in Candidate
  BY <1>1, LenProperties, ElementOfSeq
<1> QED
  BY <1>2 DEF TxAt, Tx, Candidate

LEMMA ListedIsLists ==
  ASSUME NEW l, NEW t \in Tx
  PROVE t \in Listed(l) <=> Lists(l, t)
<1>1. ASSUME NEW n \in Nonces, NEW c \in DOMAIN l.nonces[n].candidates,
             t = TxAt(n, c, l.nonces[n].candidates[c])
      PROVE Lists(l, t)
  BY <1>1 DEF TxAt, Lists
<1>2. ASSUME Lists(l, t) PROVE t \in Listed(l)
  <2>1. /\ t.nonce \in Nonces /\ t.place \in DOMAIN l.nonces[t.nonce].candidates
        /\ t = TxAt(t.nonce, t.place, l.nonces[t.nonce].candidates[t.place])
    BY <1>2 DEF Lists, TxAt, Tx
  <2> QED
    BY <2>1 DEF Listed
<1> QED
  BY <1>1, <1>2 DEF Listed

\* what a plan commits or exposes is a transaction
LEMMA TxInTyped ==
  ASSUME NEW s, Typed(s), NEW p \in PlanIds, s.plans[p].phase \in {"commit", "expose"},
         Step(s, p).kind = "tx"
  PROVE TxIn(p, s.plans[p]) \in Tx
<1>1. s.plans[p].nonce \in Nonces /\ s.plans[p] \in Plan
  BY DEF Typed, KernelState, Placed, Numbered, Step
<1> QED
  BY <1>1 DEF TxIn, Tx, Plan

SameListed(l, m) == \A t \in Tx : Lists(m, t) <=> Lists(l, t)

\* m lists what l does, except for nonces consumed for good
Relists(ch, l, m) ==
  \A t \in Tx : /\ Lists(m, t) => Lists(l, t)
                /\ Lists(l, t) => Lists(m, t) \/ FinalOn(ch, t.nonce)

LEMMA ListedSame ==
  ASSUME NEW l, NEW m, l.nonces \in [Nonces -> NonceRecord],
         m.nonces \in [Nonces -> NonceRecord], SameListed(l, m)
  PROVE Listed(m) = Listed(l)
<1>1. Listed(l) \subseteq Tx /\ Listed(m) \subseteq Tx
  BY ListedTyped
<1> QED
  BY <1>1, ListedIsLists DEF SameListed

\* with fewer transactions outside
LEMMA OnceFewer ==
  ASSUME NEW l, NEW m, NEW X, NEW Y, Once(l, X), Y \cup Listed(m) \subseteq X \cup Listed(l),
         Y \cup Listed(m) \subseteq Tx,
         \A i \in Intents : Moves(l.submissions[i], m.submissions[i])
  PROVE Once(m, Y)
<1>1. \A t \in Tx : ~Recovery(t.plan) => t.plan[2] \in Intents
  BY DEF Tx, PlanIds, Recovery
<1>2. ASSUME NEW t \in Y \cup Listed(m), ~Recovery(t.plan)
      PROVE m.submissions[t.plan[2]] # "none"
  BY <1>1, <1>2 DEF Once, Moves
<1> QED
  BY <1>2 DEF Once

LEMMA AdvancesItself ==
  ASSUME NEW ch, NEW l, l.nextNonce \in Int
  PROVE Advances(ch, l, l)
BY DEF Advances, Moves

LEMMA AdvancesTrans ==
  ASSUME NEW ch, NEW l, NEW m, NEW o, Advances(ch, l, m), Advances(ch, m, o), Sound(l),
         l.nextNonce \in Int, m.nextNonce \in Int, o.nextNonce \in Int
  PROVE Advances(ch, l, o)
<1>1. \A i \in Intents : Moves(l.submissions[i], o.submissions[i])
  BY MovesTrans DEF Advances
<1>2. l.nextNonce <= o.nextNonce
  BY DEF Advances
<1>3. l.nextNonce # Undefined => m.nextNonce # Undefined
  BY DEF Advances, Sound, Undefined
<1> QED
  BY <1>1, <1>2, <1>3 DEF Advances

LEMMA OnwardTrans ==
  ASSUME NEW s, NEW r, NEW u, NEW d, NEW N, NEW ch,
         Full(s, d, N, ch), Onward(s, r, d, N, ch), Onward(r, u, d, N, ch)
  PROVE Onward(s, u, d, N, ch)
<1>1. s.nextNonce \in Int /\ r.nextNonce \in Int /\ u.nextNonce \in Int /\ Sound(s)
  BY DEF Onward, Full, Typed, KernelState, Safe
<1> QED
  BY <1>1, AdvancesTrans DEF Onward

\* what a state that lists the same has to keep for itself
Holds(s, r, d, N, ch) ==
  /\ Sound(r) /\ Submitted(r) /\ Behind(r) /\ Evidence(r, ch) /\ InFlight(r, d)
  /\ Passed(r, Outside(r, N)) /\ OutOnFile(r, d)
  /\ Advances(ch, s, r)

LEMMA HoldsOnward ==
  ASSUME NEW d, NEW N \in SUBSET Tx, NEW ch, NEW s, NEW r,
         d \in Ledger, Full(s, d, N, ch), Typed(r), Holds(s, r, d, N, ch), Relists(ch, s, r),
         r.writes = s.writes, r.resends \subseteq s.resends
  PROVE Onward(s, r, d, N, ch)
<1>1. /\ s.nonces \in [Nonces -> NonceRecord] /\ r.nonces \in [Nonces -> NonceRecord]
      /\ s.nextNonce \in Int /\ r.nextNonce \in Int
      /\ s.resends \subseteq Tx /\ s.writes \in Seq(Ledger)
  BY DEF Full, Typed, KernelState
<1>2. \A w \in DOMAIN s.writes : s.writes[w] \in Ledger
  BY <1>1, ElementOfSeq, LenProperties
<1>3. Outside(r, N) \subseteq Outside(s, N) /\ Outside(s, N) \subseteq Tx
  BY <1>1 DEF Outside
<1>4. Listed(r) \subseteq Listed(s) /\ Listed(s) \subseteq Tx
  <2>1. Listed(r) \subseteq Tx /\ Listed(s) \subseteq Tx
    BY <1>1, ListedTyped
  <2>2. ASSUME NEW t \in Listed(r) PROVE t \in Listed(s)
    BY <2>1, ListedIsLists DEF Relists
  <2> QED
    BY <2>1, <2>2
<1>5. ASSUME NEW l \in Ledger, Once(l, Outside(s, N)) PROVE Once(l, Outside(r, N))
  <2>1. Listed(l) \subseteq Tx
    BY ListedTyped DEF Ledger
  <2> QED
    BY <1>3, <1>5, <2>1, OnceFewer, MovesItself
<1>6. Once(r, Outside(r, N))
  BY <1>3, <1>4, OnceFewer DEF Full, Safe, Holds, Advances
<1>7. ASSUME NEW l \in Ledger, Sound(l), Advances(ch, l, s) PROVE Advances(ch, l, r)
  BY <1>1, <1>7, AdvancesTrans DEF Holds, Ledger
<1>8. \A t : OnFile(r, d, t) <=> OnFile(s, d, t)
  BY DEF OnFile
<1>9. Filed(r, d, N, ch)
  BY <1>2, <1>3, <1>5, <1>8 DEF Full, Filed
<1>10. \A t \in Outside(r, N) : FinalOn(ch, t.nonce) \/ Lists(r, t)
  BY <1>3 DEF Full, Safe, Relists
<1>11. Advances(ch, d, r) /\ \A w \in DOMAIN r.writes : Advances(ch, r.writes[w], r)
  BY <1>2, <1>7 DEF Full, Safe, Filed, SoundFile
<1> QED
  BY <1>6, <1>9, <1>10, <1>11 DEF Onward, Full, Safe, Holds

-----------------------------------------------------------------------------
(* A quiet step is one of these.                                           *)

SameTxs(r, u) ==
  /\ DOMAIN u.candidates = DOMAIN r.candidates
  /\ \A c \in DOMAIN r.candidates : /\ u.candidates[c].plan = r.candidates[c].plan
                                    /\ u.candidates[c].step = r.candidates[c].step

LEMMA SameTxsListed ==
  ASSUME NEW s, NEW r, \A n \in Nonces : SameTxs(s.nonces[n], r.nonces[n])
  PROVE SameListed(s, r)
<1> SUFFICES ASSUME NEW t \in Tx PROVE Lists(r, t) <=> Lists(s, t)
  BY DEF SameListed
<1>1. t.nonce \in Nonces
  BY DEF Tx
<1> QED
  BY <1>1 DEF SameTxs, Lists

LEMMA QuietInFlight ==
  ASSUME NEW s, NEW r, NEW d, Typed(s), Typed(r), Calm(s, r), SameListed(s, r),
         InFlight(s, d)
  PROVE InFlight(r, d)
<1> SUFFICES ASSUME NEW p \in Executing(r), r.plans[p].phase \in {"commit", "expose"},
                    Step(r, p).kind = "tx"
             PROVE LET t == TxIn(p, r.plans[p])
                   IN /\ Lists(r, t)
                      /\ \A w \in DOMAIN r.writes : w >= r.plans[p].flush => Lists(r.writes[w], t)
                      /\ r.plans[p].phase = "expose" => OnFile(r, d, t)
  BY DEF InFlight
<1>1. p \in PlanIds /\ r.plans[p].status = "executing"
  BY DEF Executing
<1>2. /\ s.plans[p].status = "executing" /\ r.plans[p].phase = s.plans[p].phase
      /\ r.plans[p].nonce = s.plans[p].nonce /\ r.plans[p].pending = s.plans[p].pending
      /\ r.plans[p].cursor = s.plans[p].cursor /\ r.plans[p].flush = s.plans[p].flush
  BY <1>1 DEF Calm, QuietPlan, SamePending
<1>3. p \in Executing(s) /\ Step(s, p) = Step(r, p) /\ TxIn(p, r.plans[p]) = TxIn(p, s.plans[p])
  BY <1>1, <1>2 DEF Executing, Step, TxIn
<1>4. r.writes = s.writes
  BY DEF Calm, SameLists
<1>5. TxIn(p, s.plans[p]) \in Tx
  BY <1>1, <1>2, <1>3, TxInTyped
<1> QED
  BY <1>2, <1>3, <1>4, <1>5 DEF InFlight, SameListed, OnFile

LEMMA QuietPassed ==
  ASSUME NEW s, NEW r, NEW X \in SUBSET Tx, NEW Y \in SUBSET X, Typed(s), Typed(r), Calm(s, r),
         SameListed(s, r), Passed(s, X)
  PROVE Passed(r, Y)
<1>1. s.nonces \in [Nonces -> NonceRecord] /\ r.nonces \in [Nonces -> NonceRecord]
  BY DEF Typed, KernelState
<1>2. Listed(r) = Listed(s) /\ Listed(s) \subseteq Tx
  BY <1>1, ListedSame, ListedTyped
<1> SUFFICES ASSUME NEW t \in Y \cup Listed(r), ~Recovery(t.plan),
                    r.plans[t.plan].status = "executing"
             PROVE Past(r.plans[t.plan], t)
  BY DEF Passed
<1>3. t \in X \cup Listed(s) /\ t.plan \in PlanIds /\ t.step \in Nat
  BY <1>2 DEF Tx
<1> DEFINE q == s.plans[t.plan]
           u == r.plans[t.plan]
<1>4. q.cursor \in Nat /\ u.cursor \in Nat
  BY <1>3 DEF Typed, KernelState, Plan
<1>5. /\ q.status = "executing"
      /\ \/ u.cursor > q.cursor
         \/ u.cursor = q.cursor /\ (Attached(q) => Attached(u) /\ SamePending(q, u))
  BY <1>3 DEF Calm, QuietPlan
<1>6. Past(q, t)
  BY <1>3, <1>5 DEF Passed
<1> HIDE DEF q, u
<1>7. Past(u, t)
  BY <1>3, <1>4, <1>5, <1>6 DEF Past, Attached, SamePending
<1> QED
  BY <1>7 DEF u

LEMMA QuietOnward ==
  ASSUME NEW d \in Ledger, NEW N \in SUBSET Tx, NEW ch, NEW s, NEW r,
         Full(s, d, N, ch), Quiet(s, r)
  PROVE Onward(s, r, d, N, ch)
<1>1. /\ Typed(s) /\ Typed(r) /\ Calm(s, r) /\ SameLists(s, r) /\ Submitted(r)
      /\ r.writes = s.writes /\ r.nextNonce = s.nextNonce /\ r.finalized = s.finalized
      /\ r.resends \subseteq s.resends /\ r.head = s.head
      /\ \A n \in Nonces : SameRecord(s.nonces[n], r.nonces[n])
  BY DEF Full, Quiet, Ready, Calm, SameLists
<1>2. SameListed(s, r)
  BY <1>1, SameTxsListed DEF SameRecord, SameTxs
<1>3. Sound(r)
  BY <1>1 DEF SameRecord, Sound, Full, Safe
<1>4. Behind(r)
  <2>1. \A p \in PlanIds : r.plans[p].nonce \in {s.plans[p].nonce, Undefined}
    BY <1>1 DEF Calm, QuietPlan
  <2> QED
    BY <1>1, <1>3, <2>1 DEF Behind, Full, Safe, Sound
<1>5. Evidence(r, ch)
  <2>1. ASSUME NEW n \in Nonces, Resolved(r.nonces[n])
        PROVE r.nonces[n].resolution = s.nonces[n].resolution
    BY <1>1, <2>1 DEF SameRecord, Resolved, Unresolved
  <2> QED
    BY <1>1, <2>1 DEF Evidence, Full, Safe, Resolved
<1>6. InFlight(r, d)
  BY <1>1, <1>2, QuietInFlight DEF Full, Safe
<1>7. Passed(r, Outside(r, N))
  <2>1. Outside(s, N) \in SUBSET Tx /\ Outside(r, N) \in SUBSET Outside(s, N)
    BY <1>1 DEF Outside, Typed, KernelState
  <2> QED
    BY <1>1, <1>2, <2>1, QuietPassed DEF Full, Safe
<1>8. OutOnFile(r, d)
  <2> SUFFICES ASSUME NEW n \in Nonces, NEW c \in DOMAIN r.nonces[n].candidates,
                      Out(r.nonces[n].candidates[c])
               PROVE OnFile(r, d, TxAt(n, c, r.nonces[n].candidates[c]))
    BY DEF OutOnFile
  <2>1. /\ c \in DOMAIN s.nonces[n].candidates /\ Out(s.nonces[n].candidates[c])
        /\ TxAt(n, c, r.nonces[n].candidates[c]) = TxAt(n, c, s.nonces[n].candidates[c])
    BY <1>1 DEF SameRecord, TxAt
  <2>2. OnFile(s, d, TxAt(n, c, s.nonces[n].candidates[c]))
    BY <2>1 DEF OutOnFile, Full, Safe
  <2> QED
    BY <1>1, <2>1, <2>2 DEF OnFile
<1>9. Advances(ch, s, r)
  <2>1. s.nextNonce \in Int
    BY <1>1 DEF Typed, KernelState
  <2> QED
    BY <1>1, <2>1 DEF Calm, Advances, HoleOn, SameRecord
<1>10. Relists(ch, s, r)
  BY <1>2 DEF SameListed, Relists
<1> QED
  BY <1>1, <1>3, <1>4, <1>5, <1>6, <1>7, <1>8, <1>9, <1>10, HoldsOnward DEF Holds

-----------------------------------------------------------------------------
(* The steps of an event that are not quiet.                               *)

\* the plans and submissions are the same, and so are the records but for what is read of them
Retold(s, r) ==
  /\ r.plans = s.plans /\ r.submissions = s.submissions
  /\ r.writes = s.writes /\ r.nextNonce = s.nextNonce /\ r.resends \subseteq s.resends
  /\ \A n \in Nonces : /\ SameTxs(s.nonces[n], r.nonces[n])
                       /\ r.nonces[n].open = s.nonces[n].open

LEMMA RetoldOnward ==
  ASSUME NEW d \in Ledger, NEW N \in SUBSET Tx, NEW ch, NEW s, NEW r,
         Full(s, d, N, ch), Typed(r), Retold(s, r), Evidence(r, ch), OutOnFile(r, d)
  PROVE Onward(s, r, d, N, ch)
<1>1. /\ Typed(s) /\ r.plans = s.plans /\ r.submissions = s.submissions
      /\ r.writes = s.writes /\ r.nextNonce = s.nextNonce /\ r.resends \subseteq s.resends
      /\ s.nonces \in [Nonces -> NonceRecord] /\ r.nonces \in [Nonces -> NonceRecord]
      /\ s.nextNonce \in Int
  BY DEF Full, Retold, Typed, KernelState
<1>2. SameListed(s, r)
  BY SameTxsListed DEF Retold
<1>3. Sound(r)
  BY DEF Retold, SameTxs, Sound, Full, Safe
<1>4. Submitted(r) /\ Behind(r)
  BY <1>1 DEF Submitted, Behind, Full, Safe
<1>5. InFlight(r, d)
  <2> SUFFICES ASSUME NEW p \in Executing(r), r.plans[p].phase \in {"commit", "expose"},
                      Step(r, p).kind = "tx"
               PROVE LET t == TxIn(p, r.plans[p])
                     IN /\ Lists(r, t)
                        /\ \A w \in DOMAIN r.writes :
                             w >= r.plans[p].flush => Lists(r.writes[w], t)
                        /\ r.plans[p].phase = "expose" => OnFile(r, d, t)
    BY DEF InFlight
  <2>1. p \in PlanIds /\ p \in Executing(s) /\ Step(s, p) = Step(r, p)
    BY <1>1 DEF Executing, Step
  <2>2. TxIn(p, s.plans[p]) \in Tx
    BY <1>1, <2>1, TxInTyped
  <2> QED
    BY <1>1, <1>2, <2>1, <2>2 DEF InFlight, SameListed, OnFile, Full, Safe
<1>6. Passed(r, Outside(r, N))
  <2>1. Listed(r) = Listed(s)
    BY <1>1, <1>2, ListedSame
  <2> QED
    BY <1>1, <2>1 DEF Passed, Outside, Full, Safe
<1>7. Advances(ch, s, r)
  BY <1>1, MovesItself DEF Retold, Advances, HoleOn
<1>8. Relists(ch, s, r)
  BY <1>2 DEF SameListed, Relists
<1> QED
  BY <1>1, <1>3, <1>4, <1>5, <1>6, <1>7, <1>8, HoldsOnward DEF Holds

LEMMA SettleNoncesOnward ==
  ASSUME NEW d \in Ledger, NEW N \in SUBSET Tx, NEW ch, ch.head \in Nat, NEW s,
         Full(s, d, N, ch)
  PROVE Onward(s, SettleNonces(s), d, N, ch)
<1> DEFINE over(n) == IsFinal(s, s.nonces[n]) /\ ~Awaited(s, n) /\ ~s.nonces[n].foreign
           nonces == [n \in Nonces |-> IF over(n) THEN NoRecord ELSE s.nonces[n]]
           r == SettleNonces(s)
<1>1. Typed(s) /\ Typed(r)
  BY SettleNoncesTyped DEF Full
<1>2. /\ r.plans = s.plans /\ r.submissions = s.submissions /\ r.nonces = nonces
      /\ r.writes = s.writes /\ r.nextNonce = s.nextNonce /\ r.finalized = s.finalized
      /\ r.resends = s.resends /\ r.head = s.head /\ s.nextNonce \in Int
  BY <1>1 DEF SettleNonces, Typed, KernelState
<1>3. ASSUME NEW n \in Nonces, over(n) PROVE FinalOn(ch, n) /\ ~Awaited(s, n)
  <2>1. s.nonces[n].resolution.block \in Nat /\ s.finalized \in Int
    BY <1>1 DEF Typed, KernelState, NonceRecord, Resolution
  <2>2. /\ s.nonces[n].resolution.block # 0 /\ s.nonces[n].resolution.block <= s.finalized
        /\ n < Len(ch.mined) /\ ch.mined[n + 1].block = s.nonces[n].resolution.block
        /\ s.finalized = -1 \/ s.finalized <= ch.head - FinalityLag
    BY <1>3 DEF IsFinal, Resolved, Evidence, Full, Safe
  <2> DEFINE block == s.nonces[n].resolution.block
  <2>3. block \in Nat /\ block # 0 /\ block <= s.finalized
    BY <2>1, <2>2
  <2>4. ch.head - FinalityLag \in Int
    BY BoundsAssumption
  <2> HIDE DEF block
  <2>5. block <= ch.head - FinalityLag
    BY <2>1, <2>2, <2>3, <2>4
  <2> QED
    BY <1>3, <2>2, <2>5 DEF FinalOn, block
<1>4. /\ NoRecord.open = FALSE /\ DOMAIN NoRecord.candidates = {} /\ ~Resolved(NoRecord)
  BY DEF NoRecord, Resolved, Unresolved
<1>5. \A n \in Nonces : \/ r.nonces[n] = s.nonces[n]
                        \/ r.nonces[n] = NoRecord /\ FinalOn(ch, n) /\ ~Awaited(s, n)
  BY <1>2, <1>3
<1> HIDE DEF nonces, r
<1>6. Sound(r)
  BY <1>2, <1>4, <1>5 DEF Sound, Full, Safe
<1>7. Submitted(r) /\ Behind(r)
  BY <1>2 DEF Submitted, Behind, Full, Safe
<1>8. Evidence(r, ch)
  BY <1>2, <1>4, <1>5 DEF Evidence, Full, Safe
<1>9. \A t \in Tx : /\ Lists(r, t) => Lists(s, t)
                    /\ Lists(s, t) => Lists(r, t) \/ (FinalOn(ch, t.nonce) /\ ~Awaited(s, t.nonce))
  <2> SUFFICES ASSUME NEW t \in Tx
               PROVE /\ Lists(r, t) => Lists(s, t)
                     /\ Lists(s, t) => Lists(r, t) \/ (FinalOn(ch, t.nonce)
                                                        /\ ~Awaited(s, t.nonce))
    OBVIOUS
  <2>1. t.nonce \in Nonces
    BY DEF Tx
  <2> QED
    BY <1>4, <1>5, <2>1 DEF Lists
<1>10. InFlight(r, d)
  <2> SUFFICES ASSUME NEW p \in Executing(r), r.plans[p].phase \in {"commit", "expose"},
                      Step(r, p).kind = "tx"
               PROVE LET t == TxIn(p, r.plans[p])
                     IN /\ Lists(r, t)
                        /\ \A w \in DOMAIN r.writes :
                             w >= r.plans[p].flush => Lists(r.writes[w], t)
                        /\ r.plans[p].phase = "expose" => OnFile(r, d, t)
    BY DEF InFlight
  <2>1. p \in PlanIds /\ p \in Executing(s) /\ Step(s, p) = Step(r, p)
    BY <1>2 DEF Executing, Step
  <2>2. TxIn(p, s.plans[p]) \in Tx
    BY <1>1, <1>2, <2>1, TxInTyped
  <2>3. Awaited(s, s.plans[p].nonce)
    BY <1>2, <2>1 DEF Awaited, PreCommit
  <2>4. TxIn(p, s.plans[p]).nonce = s.plans[p].nonce
    BY DEF TxIn
  <2> QED
    BY <1>2, <1>9, <2>1, <2>2, <2>3, <2>4 DEF InFlight, OnFile, Full, Safe
<1>11. Passed(r, Outside(r, N))
  <2>1. s.nonces \in [Nonces -> NonceRecord] /\ r.nonces \in [Nonces -> NonceRecord]
    BY <1>1 DEF Typed, KernelState
  <2>2. Listed(r) \subseteq Listed(s)
    BY <1>9, <2>1, ListedTyped, ListedIsLists
  <2> QED
    BY <1>2, <2>2 DEF Passed, Outside, Full, Safe
<1>12. OutOnFile(r, d)
  BY <1>2, <1>4, <1>5 DEF OutOnFile, OnFile, Full, Safe
<1>13. Advances(ch, s, r)
  BY <1>2, <1>5, MovesItself DEF Advances, HoleOn
<1>14. Relists(ch, s, r)
  BY <1>9 DEF Relists
<1> QED
  BY <1>1, <1>2, <1>6, <1>7, <1>8, <1>10, <1>11, <1>12, <1>13, <1>14, HoldsOnward DEF Holds, r

\* more is outside, all of it on file
LEMMA MoreOutside ==
  ASSUME NEW d \in Ledger, NEW N \in SUBSET Tx, NEW M \in SUBSET Tx, NEW ch, NEW s,
         NEW more \in SUBSET Tx,
         Full(s, d, N, ch), Typed([s EXCEPT !.resends = more]),
         \A t \in (M \cup more) \ Outside(s, N) : Lists(s, t) /\ OnFile(s, d, t)
  PROVE Onward(s, [s EXCEPT !.resends = more], d, M, ch)
<1> DEFINE r == [s EXCEPT !.resends = more]
<1>1. /\ r.plans = s.plans /\ r.submissions = s.submissions /\ r.nonces = s.nonces
      /\ r.writes = s.writes /\ r.nextNonce = s.nextNonce /\ r.finalized = s.finalized
      /\ r.resends = more /\ r.head = s.head /\ s.nextNonce \in Int
      /\ s.writes \in Seq(Ledger) /\ s.nonces \in [Nonces -> NonceRecord]
      /\ s.resends \subseteq Tx
  BY DEF Full, Typed, KernelState
<1> HIDE DEF r
<1>2. /\ Listed(r) = Listed(s) /\ \A t : Lists(r, t) <=> Lists(s, t)
      /\ \A t : OnFile(r, d, t) <=> OnFile(s, d, t)
      /\ \A n : HoleOn(ch, r, n) <=> HoleOn(ch, s, n)
  <2>1. Listed(r) = Listed(s)
    BY <1>1 DEF Listed
  <2>2. \A t : Lists(r, t) <=> Lists(s, t)
    BY <1>1 DEF Lists
  <2>3. \A t : OnFile(r, d, t) <=> OnFile(s, d, t)
    BY <1>1 DEF OnFile
  <2>4. \A n : HoleOn(ch, r, n) <=> HoleOn(ch, s, n)
    BY <1>1 DEF HoleOn
  <2> QED
    BY <2>1, <2>2, <2>3, <2>4
<1>3. Outside(r, M) \subseteq Tx /\ \A t \in Outside(r, M) \ Outside(s, N) :
                                      Lists(s, t) /\ OnFile(s, d, t)
  BY <1>1 DEF Outside
<1>4. \A w \in DOMAIN s.writes : s.writes[w] \in Ledger
  BY <1>1, ElementOfSeq, LenProperties
<1>5. ASSUME NEW l, l.nonces \in [Nonces -> NonceRecord], Once(l, Outside(s, N)),
             \A t \in Outside(r, M) \ Outside(s, N) : Lists(l, t)
      PROVE Once(l, Outside(r, M))
  <2>1. Listed(l) \subseteq Tx
    BY <1>5, ListedTyped
  <2>2. Outside(r, M) \cup Listed(l) \subseteq Outside(s, N) \cup Listed(l)
    BY <1>3, <1>5, ListedIsLists
  <2> QED
    BY <1>3, <1>5, <2>1, <2>2, OnceFewer, MovesItself
<1>6. d.nonces \in [Nonces -> NonceRecord]
  BY DEF Ledger
<1>7. \A w \in DOMAIN s.writes : s.writes[w].nonces \in [Nonces -> NonceRecord]
  BY <1>4 DEF Ledger
<1>8. Filed(r, d, M, ch)
  <2>1. Once(d, Outside(r, M))
    BY <1>3, <1>5, <1>6 DEF OnFile, Filed, Full
  <2>2. \A w \in DOMAIN s.writes : Once(s.writes[w], Outside(r, M))
    BY <1>3, <1>5, <1>7 DEF OnFile, Filed, Full
  <2>3. \A t \in Outside(r, M) : FinalOn(ch, t.nonce) \/ OnFile(r, d, t)
    BY <1>2, <1>3 DEF Filed, Full
  <2> QED
    BY <1>1, <2>1, <2>2, <2>3 DEF Filed, Full
<1>9. Once(r, Outside(r, M))
  <2>1. Once(s, Outside(r, M))
    BY <1>1, <1>3, <1>5 DEF Full, Safe
  <2> QED
    BY <1>1, <1>2, <2>1 DEF Once
<1>10. Sound(r) /\ Submitted(r) /\ Behind(r) /\ Evidence(r, ch)
  BY <1>1 DEF Sound, Submitted, Behind, Evidence, Full, Safe
<1>11. InFlight(r, d)
  BY <1>1, <1>2 DEF InFlight, Full, Safe, Executing, Step
<1>12. \A t \in Outside(r, M) : FinalOn(ch, t.nonce) \/ Lists(r, t)
  BY <1>2, <1>3 DEF Full, Safe
<1>13. Passed(r, Outside(r, M))
  <2>1. \A t \in Outside(r, M) \cup Listed(r) : t \in Outside(s, N) \cup Listed(s)
    BY <1>2, <1>3, ListedIsLists
  <2> QED
    BY <1>1, <2>1 DEF Passed, Full, Safe
<1>14. OutOnFile(r, d)
  BY <1>1, <1>2 DEF OutOnFile, Full, Safe
<1>15. \A l : Advances(ch, l, s) => Advances(ch, l, r)
  BY <1>1, <1>2 DEF Advances
<1>16. Advances(ch, s, r)
  BY <1>1, <1>15, AdvancesItself
<1> QED
  BY <1>1, <1>8, <1>9, <1>10, <1>11, <1>12, <1>13, <1>14, <1>15, <1>16 DEF Onward, Full, Safe, r

LEMMA RebroadcastOnward ==
  ASSUME NEW d \in Ledger, NEW N \in SUBSET Tx, NEW ch, NEW s, Full(s, d, N, ch)
  PROVE Onward(s, Rebroadcast(s), d, N, ch)
<1> DEFINE nonces == [n \in Nonces |->
                        IF n \in Resent(s) THEN [s.nonces[n] EXCEPT !.lastActionHead = s.head]
                        ELSE s.nonces[n]]
           more == s.resends \cup UNION {FirstResend(s, n) : n \in Resent(s)}
           m == [s EXCEPT !.nonces = nonces]
           r == [m EXCEPT !.resends = more]
<1>0. Typed(s) /\ Typed(Rebroadcast(s)) /\ Onward(s, s, d, N, ch)
  BY RebroadcastTyped, AdvancesItself DEF Full, Onward, Typed, KernelState
<1>1. Rebroadcast(s) = IF s.head = 0 THEN s ELSE r
  BY DEF Rebroadcast
<1>2. ASSUME NEW n \in Nonces
      PROVE /\ nonces[n] \in NonceRecord /\ nonces[n].candidates = s.nonces[n].candidates
            /\ nonces[n].resolution = s.nonces[n].resolution
            /\ nonces[n].open = s.nonces[n].open
  <2>1. s.nonces[n] \in NonceRecord /\ s.head \in Nat
    BY <1>0 DEF Typed, KernelState
  <2> QED
    BY <2>1 DEF NonceRecord
<1>3. more \in SUBSET Tx
  <2>1. s \in KernelState
    BY <1>0 DEF Typed
  <2>2. \A n \in Resent(s) : FirstResend(s, n) \in SUBSET Tx
    BY <2>1, FirstResendTyped DEF Resent
  <2>3. s.resends \subseteq Tx
    BY <2>1 DEF KernelState
  <2> QED
    BY <2>2, <2>3
<1>4. ASSUME NEW t \in more \ s.resends PROVE Lists(s, t) /\ OnFile(s, d, t)
  <2>1. PICK n \in Nonces : t \in FirstResend(s, n)
    BY DEF Resent
  <2>2. PICK c \in ResendPlaces(s, n) : t = TxAt(n, c, s.nonces[n].candidates[c])
    BY <2>1 DEF FirstResend
  <2>3. c \in DOMAIN s.nonces[n].candidates /\ Out(s.nonces[n].candidates[c])
    BY DEF ResendPlaces, Out
  <2>4. OnFile(s, d, t)
    BY <2>2, <2>3 DEF Full, Safe, OutOnFile
  <2> QED
    BY <2>2, <2>3, <2>4 DEF Lists, TxAt
<1>5. nonces \in [Nonces -> NonceRecord]
  BY <1>2
<1> HIDE DEF nonces
<1>6. /\ m.plans = s.plans /\ m.submissions = s.submissions /\ m.nonces = nonces
      /\ m.writes = s.writes /\ m.nextNonce = s.nextNonce /\ m.finalized = s.finalized
      /\ m.resends = s.resends /\ m.head = s.head
  BY <1>0, <1>5 DEF Typed, KernelState
<1>7. Typed(m)
  BY <1>0, <1>5, NoncesTyped
<1>8. ASSUME s.head # 0 PROVE Typed(r)
  BY <1>0, <1>1, <1>8
<1> HIDE DEF m, more
<1>9. Retold(s, m) /\ Evidence(m, ch) /\ OutOnFile(m, d)
  <2>1. Retold(s, m)
    BY <1>2, <1>6 DEF Retold, SameTxs
  <2>2. Evidence(m, ch)
    BY <1>2, <1>6 DEF Evidence, Full, Safe, Resolved
  <2>3. OutOnFile(m, d)
    BY <1>2, <1>6 DEF OutOnFile, OnFile, Full, Safe
  <2> QED
    BY <2>1, <2>2, <2>3
<1>10. Onward(s, m, d, N, ch)
  BY <1>7, <1>9, RetoldOnward
<1>11. ASSUME s.head # 0 PROVE Onward(m, r, d, N, ch)
  <2>1. \A t \in (N \cup more) \ Outside(m, N) : t \in more \ s.resends
    BY <1>6 DEF Outside
  <2>2. \A t \in more \ s.resends : t \in Tx /\ t.nonce \in Nonces
    BY <1>3 DEF Tx
  <2>3. ASSUME NEW t \in more \ s.resends PROVE Lists(m, t) /\ OnFile(m, d, t)
    <3>1. t.nonce \in Nonces /\ Lists(s, t) /\ OnFile(s, d, t)
      BY <1>4, <2>2
    <3>2. Lists(m, t)
      BY <1>2, <1>6, <3>1 DEF Lists
    <3>3. OnFile(m, d, t)
      BY <1>6, <3>1 DEF OnFile
    <3> QED
      BY <3>2, <3>3
  <2> QED
    BY <1>3, <1>8, <1>10, <1>11, <2>1, <2>3, MoreOutside DEF Onward
<1> QED
  BY <1>0, <1>1, <1>10, <1>11, OnwardTrans

\* the plans change, and what they have submitted
LEMMA PlansOnward ==
  ASSUME NEW d \in Ledger, NEW N \in SUBSET Tx, NEW ch, NEW s, NEW r,
         Full(s, d, N, ch), Typed(r), r.nonces = s.nonces, r.writes = s.writes,
         r.nextNonce = s.nextNonce, r.resends = s.resends, r.finalized = s.finalized,
         r.head = s.head, Submitted(r), Behind(r), InFlight(r, d), Passed(r, Outside(r, N)),
         \A i \in Intents : Moves(s.submissions[i], r.submissions[i])
  PROVE Onward(s, r, d, N, ch)
<1>1. Sound(r) /\ Evidence(r, ch) /\ OutOnFile(r, d)
  BY DEF Sound, Evidence, OutOnFile, OnFile, Full, Safe
<1>2. s.nextNonce \in Int
  BY DEF Full, Typed, KernelState
<1>3. Advances(ch, s, r)
  BY <1>2 DEF Advances, HoleOn
<1>4. Relists(ch, s, r)
  BY DEF Relists, Lists
<1> QED
  BY <1>1, <1>3, <1>4, HoldsOnward DEF Holds

\* one plan, which had no transaction in flight and has none yet, takes another phase
LEMMA OnePlanOnward ==
  ASSUME NEW d \in Ledger, NEW N \in SUBSET Tx, NEW ch, NEW s, NEW r, NEW p \in PlanIds, NEW u,
         Full(s, d, N, ch), Typed(r), r.nonces = s.nonces, r.writes = s.writes,
         r.nextNonce = s.nextNonce, r.resends = s.resends, r.finalized = s.finalized,
         r.head = s.head, r.plans = [s.plans EXCEPT ![p] = u],
         s.plans[p].status = "executing", ~Attached(s.plans[p]),
         u.status = "executing", u.cursor = s.plans[p].cursor, u.nonce <= s.nextNonce,
         u.phase \in {"commit", "expose"} => StepsOf(p)[u.cursor].kind # "tx",
         \A i \in Intents : /\ Moves(s.submissions[i], r.submissions[i])
                            /\ r.submissions[i] \in {"exposed", s.submissions[i]}
  PROVE Onward(s, r, d, N, ch)
<1>1. /\ Typed(s) /\ s.plans \in [PlanIds -> Plan] /\ r.plans[p] = u
      /\ \A x \in PlanIds \ {p} : r.plans[x] = s.plans[x]
  BY DEF Full, Typed, KernelState
<1>2. Submitted(r)
  <2>1. \A i \in Intents : StepPlan(i) \in PlanIds
    BY DEF StepPlan, PlanIds
  <2> QED
    BY <1>1, <2>1 DEF Submitted, Full, Safe
<1>3. Behind(r)
  BY <1>1 DEF Behind, Full, Safe
<1>4. InFlight(r, d)
  <2> SUFFICES ASSUME NEW x \in Executing(r), r.plans[x].phase \in {"commit", "expose"},
                      Step(r, x).kind = "tx"
               PROVE LET t == TxIn(x, r.plans[x])
                     IN /\ Lists(r, t)
                        /\ \A w \in DOMAIN r.writes :
                             w >= r.plans[x].flush => Lists(r.writes[w], t)
                        /\ r.plans[x].phase = "expose" => OnFile(r, d, t)
    BY DEF InFlight
  <2>1. x \in PlanIds \ {p}
    BY <1>1 DEF Executing, Step
  <2>2. x \in Executing(s) /\ Step(s, x) = Step(r, x) /\ r.plans[x] = s.plans[x]
    BY <1>1, <2>1 DEF Executing, Step
  <2>3. \A t : /\ Lists(r, t) <=> Lists(s, t)
               /\ OnFile(r, d, t) <=> OnFile(s, d, t)
    BY DEF Lists, OnFile
  <2>4. InFlight(s, d)
    BY DEF Full, Safe
  <2> QED
    BY <2>2, <2>3, <2>4 DEF InFlight
<1>5. Passed(r, Outside(r, N))
  <2>1. Listed(r) = Listed(s) /\ Outside(r, N) = Outside(s, N)
    BY DEF Listed, Outside
  <2>2. s.nonces \in [Nonces -> NonceRecord] /\ s.resends \subseteq Tx
    BY <1>1 DEF Typed, KernelState
  <2>3. Outside(s, N) \cup Listed(s) \subseteq Tx
    BY <2>2, ListedTyped DEF Outside
  <2>4. ASSUME NEW t \in Outside(s, N) \cup Listed(s), ~Recovery(t.plan),
               r.plans[t.plan].status = "executing"
        PROVE Past(r.plans[t.plan], t)
    <3>1. t.plan \in PlanIds
      BY <2>3 DEF Tx
    <3>2. s.plans[t.plan].status = "executing"
      BY <1>1, <2>4, <3>1
    <3>3. Past(s.plans[t.plan], t)
      BY <2>4, <3>2 DEF Passed, Full, Safe
    <3>4. CASE t.plan = p
      BY <1>1, <3>3, <3>4 DEF Past, Attached
    <3> QED
      BY <1>1, <3>1, <3>3, <3>4
  <2> QED
    BY <2>1, <2>4 DEF Passed
<1> QED
  BY <1>2, <1>3, <1>4, <1>5, PlansOnward

LEMMA SignOnward ==
  ASSUME NEW d \in Ledger, NEW N \in SUBSET Tx, NEW ch, NEW s, Full(s, d, N, ch),
         NEW p \in PlanIds, NEW n \in Nonces, s.plans[p].cursor \in DOMAIN StepsOf(p),
         s.plans[p].status = "executing", ~Attached(s.plans[p]), n <= s.nextNonce
  PROVE Onward(s, Sign(s, p, n), d, N, ch)
<1> DEFINE q == s.plans[p]
           plan == [q EXCEPT !.phase = "sign", !.nonce = n, !.level = NextLevel(s, n)]
           r == Sign(s, p, n)
<1>1. Typed(s) /\ Typed(r)
  BY SignTyped DEF Full
<1>2. q \in Plan
  BY <1>1 DEF Typed, KernelState
<1>3. /\ r.plans = [s.plans EXCEPT ![p] = plan] /\ r.submissions = s.submissions
      /\ r.nonces = s.nonces /\ r.writes = s.writes /\ r.nextNonce = s.nextNonce
      /\ r.finalized = s.finalized /\ r.resends = s.resends /\ r.head = s.head
  <2>1. s \in KernelState
    BY <1>1 DEF Typed
  <2>2. r = [s EXCEPT !.plans[p] = plan, !.slot = p]
    BY <1>2, <2>1, ZenonT(60) DEF Sign, KernelState
  <2> HIDE DEF r, plan
  <2> QED
    BY <2>1, <2>2 DEF KernelState
<1> HIDE DEF q, r
<1>4. plan.status = q.status /\ plan.cursor = q.cursor /\ plan.nonce = n /\ plan.phase = "sign"
  BY <1>2 DEF Plan
<1> HIDE DEF plan
<1>5. /\ plan.status = "executing" /\ plan.cursor = s.plans[p].cursor
      /\ plan.nonce <= s.nextNonce
      /\ plan.phase \in {"commit", "expose"} => StepsOf(p)[plan.cursor].kind # "tx"
  BY <1>4 DEF q
<1>6. \A i \in Intents : /\ Moves(s.submissions[i], r.submissions[i])
                         /\ r.submissions[i] \in {"exposed", s.submissions[i]}
  BY <1>3, MovesItself
<1>7. Onward(s, r, d, N, ch)
  BY <1>1, <1>3, <1>5, <1>6, OnePlanOnward
<1> QED
  BY <1>7 DEF r

\* the nonce record that RecordCandidate leaves lists one transaction more
LEMMA RecordedLists ==
  ASSUME NEW s, Typed(s), NEW p \in PlanIds, s.plans[p].nonce \in Nonces
  PROVE LET n == s.plans[p].nonce
            cs == s.nonces[n].candidates
            t == [nonce |-> n, place |-> Len(cs) + 1, plan |-> p, step |-> s.plans[p].cursor]
            new == RecordCandidate(s, p)
        IN /\ t \in Tx
           /\ \A u \in Tx : LET ds == new[u.nonce].candidates
                            IN (u.place \in DOMAIN ds /\ ds[u.place].plan = u.plan
                                /\ ds[u.place].step = u.step) <=> Lists(s, u) \/ u = t
           /\ \A m \in Nonces \ {n} : new[m] = s.nonces[m]
           /\ new[n].open /\ new[n].resolution = s.nonces[n].resolution
           /\ DOMAIN new[n].candidates = DOMAIN cs \cup {Len(cs) + 1}
           /\ \A c \in DOMAIN cs : new[n].candidates[c] = cs[c]
           /\ ~Out(new[n].candidates[Len(cs) + 1])
<1> DEFINE q == s.plans[p]
           n == q.nonce
           old == s.nonces[n]
           cs == old.candidates
           cand == [plan |-> p, step |-> q.cursor, level |-> q.level, sent |-> "unsent"]
           ds == Append(cs, cand)
           rec == [old EXCEPT !.open = TRUE, !.candidates = ds,
                              !.lastActionHead = IF s.head > 0 THEN s.head ELSE old.lastActionHead]
           t == [nonce |-> n, place |-> Len(cs) + 1, plan |-> p, step |-> q.cursor]
           new == RecordCandidate(s, p)
<1>1. q \in Plan /\ old \in NonceRecord /\ s.nonces \in [Nonces -> NonceRecord]
  BY DEF Typed, KernelState
<1>2. cs \in Seq(Candidate) /\ n \in Nonces
  BY <1>1 DEF NonceRecord
<1>3. cand \in Candidate /\ q.cursor \in Nat
  BY <1>1 DEF Plan, Candidate, SendStatus
<1>4. new = [s.nonces EXCEPT ![n] = rec]
  BY DEF RecordCandidate
<1>5. cand.plan = p /\ cand.step = q.cursor /\ ~Out(cand)
  BY DEF Out
<1> HIDE DEF q, cs, cand, new
<1>6. Len(cs) \in Nat /\ DOMAIN cs = 1 .. Len(cs)
  BY <1>2, LenProperties
<1>7. /\ DOMAIN ds = 1 .. Len(cs) + 1
      /\ \A c \in DOMAIN cs : ds[c] = cs[c]
      /\ ds[Len(cs) + 1] = cand
  BY <1>2, <1>3, <1>6, AppendProperties, LenProperties
<1> HIDE DEF ds
<1>8. rec.open /\ rec.candidates = ds /\ rec.resolution = old.resolution
  BY <1>1 DEF NonceRecord
<1> HIDE DEF rec, old
<1>9. new[n] = rec /\ \A m \in Nonces \ {n} : new[m] = s.nonces[m]
  BY <1>1, <1>2, <1>4
<1>10. t \in Tx
  BY <1>2, <1>3, <1>6 DEF Tx
<1>11. DOMAIN ds = DOMAIN cs \cup {Len(cs) + 1} /\ Len(cs) + 1 \notin DOMAIN cs
  BY <1>6, <1>7
<1>12. ASSUME NEW u \in Tx
       PROVE (u.place \in DOMAIN new[u.nonce].candidates
              /\ new[u.nonce].candidates[u.place].plan = u.plan
              /\ new[u.nonce].candidates[u.place].step = u.step) <=> Lists(s, u) \/ u = t
  <2>1. u.nonce \in Nonces
    BY DEF Tx
  <2>2. CASE u.nonce # n
    BY <1>9, <2>1, <2>2 DEF Lists
  <2>3. CASE u.nonce = n /\ u.place # Len(cs) + 1
    <3>1. Lists(s, u) <=> /\ u.place \in DOMAIN cs /\ cs[u.place].plan = u.plan
                          /\ cs[u.place].step = u.step
      BY <2>3 DEF Lists, cs, old
    <3>2. new[u.nonce].candidates = ds /\ u # t
      BY <1>8, <1>9, <2>3
    <3> QED
      BY <1>7, <1>11, <2>3, <3>1, <3>2
  <2>4. CASE u.nonce = n /\ u.place = Len(cs) + 1
    <3>1. u = t <=> u.plan = p /\ u.step = q.cursor
      BY <1>10, <2>4 DEF Tx
    <3>2. ~Lists(s, u)
      BY <1>11, <2>4 DEF Lists, cs, old
    <3> QED
      BY <1>5, <1>7, <1>8, <1>9, <1>11, <2>4, <3>1, <3>2
  <2> QED
    BY <2>2, <2>3, <2>4
<1> QED
  BY <1>5, <1>7, <1>8, <1>9, <1>10, <1>11, <1>12 DEF q, cs, old, new

\* a state with one transaction more, the one plan p has just recorded
Recorded(s, r, p, t) ==
  /\ t \in Tx /\ t.plan = p /\ t.step = s.plans[p].cursor /\ t.nonce = s.plans[p].nonce
  /\ \A u \in Tx : Lists(r, u) <=> Lists(s, u) \/ u = t
  /\ r.nonces[t.nonce].open
  /\ \A n \in Nonces : /\ n # t.nonce => r.nonces[n] = s.nonces[n]
                       /\ r.nonces[n].resolution = s.nonces[n].resolution
                       /\ \A c \in DOMAIN r.nonces[n].candidates :
                            Out(r.nonces[n].candidates[c]) =>
                              /\ c \in DOMAIN s.nonces[n].candidates
                              /\ r.nonces[n].candidates[c] = s.nonces[n].candidates[c]
  /\ r.nextNonce = IF s.nextNonce = t.nonce THEN s.nextNonce + 1 ELSE s.nextNonce
  /\ r.submissions = [i \in Intents |-> IF StepPlan(i) = p THEN "exposed" ELSE s.submissions[i]]
  /\ r.writes = s.writes /\ r.resends = s.resends /\ r.finalized = s.finalized
  /\ r.head = s.head
  /\ \A x \in PlanIds \ {p} : r.plans[x] = s.plans[x]
  /\ LET u == r.plans[p]
     IN /\ u.status = "executing" /\ u.phase = "commit" /\ u.cursor = s.plans[p].cursor
        /\ u.nonce = t.nonce /\ u.pending = t.place /\ u.flush = Len(s.writes) + 1

LEMMA RecordedOnward ==
  ASSUME NEW d \in Ledger, NEW N \in SUBSET Tx, NEW ch, NEW s, Full(s, d, N, ch),
         NEW p \in PlanIds, s.plans[p].status = "executing", ~Attached(s.plans[p]),
         NEW r, Typed(r), NEW t, Recorded(s, r, p, t)
  PROVE Onward(s, r, d, N, ch)
<1> DEFINE X == Outside(s, N)
<1>1. /\ Typed(s) /\ Safe(s, d, N, ch) /\ s.nonces \in [Nonces -> NonceRecord]
      /\ r.nonces \in [Nonces -> NonceRecord] /\ s.resends \subseteq Tx
      /\ s.writes \in Seq(Ledger) /\ s.nextNonce \in Int /\ r.nextNonce \in Int
  BY DEF Full, Typed, KernelState
<1>2. /\ X \subseteq Tx /\ Listed(s) \subseteq Tx /\ Listed(r) \subseteq Tx
      /\ Outside(r, N) = X
  BY <1>1, ListedTyped DEF Outside, Recorded
<1>3. \A u \in Listed(r) : u \in Listed(s) \/ u = t
  BY <1>2, ListedIsLists DEF Recorded
<1>4. t.nonce \in Nonces /\ t.nonce <= s.nextNonce /\ t.nonce \in Int
  BY <1>1, BoundsAssumption, SMTT(30) DEF Recorded, Tx, Safe, Behind, Nonces
<1>5. s.nextNonce <= r.nextNonce /\ t.nonce < r.nextNonce /\ r.nextNonce <= s.nextNonce + 1
      /\ (r.nextNonce # s.nextNonce => t.nonce = s.nextNonce)
  BY <1>1, <1>4 DEF Recorded
<1>6. \A i \in Intents : Moves(s.submissions[i], r.submissions[i])
  BY <1>1, SMTT(30) DEF Recorded, Moves, Safe, Submitted
<1>7. \A l : OnFile(r, d, l) <=> OnFile(s, d, l)
  BY DEF OnFile, Recorded
<1>8. Filed(r, d, N, ch)
  BY <1>2, <1>7 DEF Full, Filed, Recorded
<1>9. Sound(r)
  <2>1. r.nextNonce >= Undefined
    BY <1>1, <1>5 DEF Safe, Sound, Undefined
  <2>2. ASSUME NEW n \in Nonces
        PROVE /\ DOMAIN r.nonces[n].candidates # {} => r.nonces[n].open
              /\ r.nonces[n].open => n < r.nextNonce
    <3>1. n \in Int
      BY BoundsAssumption DEF Nonces
    <3>2. CASE n = t.nonce
      BY <1>5, <3>2 DEF Recorded
    <3>3. CASE n # t.nonce
      BY <1>1, <1>5, <3>1, <3>3, SMTT(30) DEF Recorded, Safe, Sound
    <3> QED
      BY <3>2, <3>3
  <2> QED
    BY <2>1, <2>2 DEF Sound
<1>10. \A u \in X \cup Listed(s) : ~Recovery(p) /\ u.plan = p => u.step # t.step
  <2> SUFFICES ASSUME NEW u \in X \cup Listed(s), ~Recovery(p), u.plan = p
               PROVE u.step # t.step
    OBVIOUS
  <2>1. Past(s.plans[p], u)
    BY <1>1 DEF Safe, Passed
  <2>2. u.step \in Nat /\ s.plans[p].cursor \in Nat
    BY <1>1, <1>2 DEF Tx, Typed, KernelState, Plan
  <2> QED
    BY <2>1, <2>2 DEF Past, Attached, Recorded
<1>11. Once(r, X)
  <2>1. ASSUME NEW u \in X \cup Listed(r), ~Recovery(u.plan)
        PROVE r.submissions[u.plan[2]] # "none"
    <3>1. u.plan \in PlanIds /\ u.plan[2] \in Intents /\ u.plan = StepPlan(u.plan[2])
      BY <1>2, <2>1 DEF Tx, PlanIds, Recovery, StepPlan
    <3>2. CASE u = t
      BY <3>1, <3>2 DEF Recorded
    <3>3. CASE u # t
      <4>1. s.submissions[u.plan[2]] # "none"
        BY <1>1, <1>3, <2>1, <3>3 DEF Safe, Once
      <4> QED
        BY <1>6, <3>1, <4>1 DEF Moves
    <3> QED
      BY <3>2, <3>3
  <2>2. \A u, v \in X \cup Listed(s) :
          ~Recovery(u.plan) /\ u.plan = v.plan /\ u.step = v.step => u = v
    BY <1>1 DEF Safe, Once
  <2>3. t.plan = p
    BY DEF Recorded
  <2>4. ASSUME NEW u \in X \cup Listed(r), NEW v \in X \cup Listed(r),
               ~Recovery(u.plan), u.plan = v.plan, u.step = v.step
        PROVE u = v
    <3>1. (u \in X \cup Listed(s) \/ u = t) /\ (v \in X \cup Listed(s) \/ v = t)
      BY <1>3
    <3> QED
      BY <1>10, <2>2, <2>3, <2>4, <3>1
  <2> QED
    BY <2>1, <2>4 DEF Once
<1>12. Submitted(r)
  <2>1. \A i \in Intents : StepPlan(i) \in PlanIds
    BY DEF StepPlan, PlanIds
  <2> QED
    BY <1>1, <2>1, SMTT(30) DEF Submitted, Safe, Recorded
<1>13. Behind(r)
  <2> SUFFICES ASSUME NEW x \in PlanIds PROVE r.plans[x].nonce <= r.nextNonce
    BY DEF Behind
  <2>1. s.plans[x].nonce \in Int /\ s.plans[x].nonce <= s.nextNonce
    BY <1>1 DEF Typed, KernelState, Plan, Safe, Behind
  <2>2. CASE x = p
    BY <1>1, <1>4, <1>5, <2>2 DEF Recorded
  <2>3. CASE x # p
    BY <1>1, <1>5, <2>1, <2>3 DEF Recorded
  <2> QED
    BY <2>2, <2>3
<1>14. Evidence(r, ch)
  BY <1>1, SMTT(30) DEF Evidence, Resolved, Recorded, Safe
<1>15. InFlight(r, d)
  <2> SUFFICES ASSUME NEW x \in Executing(r), r.plans[x].phase \in {"commit", "expose"},
                      Step(r, x).kind = "tx"
               PROVE LET u == TxIn(x, r.plans[x])
                     IN /\ Lists(r, u)
                        /\ \A w \in DOMAIN r.writes :
                             w >= r.plans[x].flush => Lists(r.writes[w], u)
                        /\ r.plans[x].phase = "expose" => OnFile(r, d, u)
    BY DEF InFlight
  <2>1. x \in PlanIds
    BY DEF Executing
  <2>2. TxIn(x, r.plans[x]) \in Tx
    BY <2>1, TxInTyped
  <2>3. CASE x = p
    <3>1. r.plans[p].phase = "commit" /\ r.plans[p].flush = Len(s.writes) + 1
      BY DEF Recorded
    <3>2. \A w \in DOMAIN r.writes : ~(w >= r.plans[p].flush)
      BY <1>1, <3>1, LenProperties DEF Recorded
    <3>3. TxIn(p, r.plans[p]) = t
      BY <2>2, <2>3 DEF TxIn, Recorded, Tx
    <3>4. Lists(r, t)
      BY DEF Recorded
    <3> QED
      BY <2>3, <3>1, <3>2, <3>3, <3>4
  <2>4. CASE x # p
    <3>1. r.plans[x] = s.plans[x] /\ x \in Executing(s) /\ Step(s, x) = Step(r, x)
      BY <2>1, <2>4 DEF Recorded, Executing, Step
    <3>2. InFlight(s, d)
      BY <1>1 DEF Safe
    <3> QED
      BY <1>7, <2>2, <3>1, <3>2 DEF InFlight, Recorded
  <2> QED
    BY <2>3, <2>4
<1>16. \A u \in X : FinalOn(ch, u.nonce) \/ Lists(r, u)
  BY <1>1, <1>2 DEF Safe, Recorded
<1>17. Passed(r, X)
  <2> SUFFICES ASSUME NEW u \in X \cup Listed(r), ~Recovery(u.plan),
                      r.plans[u.plan].status = "executing"
               PROVE Past(r.plans[u.plan], u)
    BY DEF Passed
  <2>1. u.plan \in PlanIds
    BY <1>2 DEF Tx
  <2>2. CASE u = t
    BY <2>2 DEF Past, Recorded
  <2>3. CASE u # t
    <3>1. s.plans[u.plan].status = "executing"
      BY <2>1 DEF Recorded
    <3>2. Past(s.plans[u.plan], u)
      BY <1>1, <1>3, <2>3, <3>1 DEF Safe, Passed
    <3> QED
      BY <2>1, <3>2, SMTT(30) DEF Past, Attached, Recorded
  <2> QED
    BY <2>2, <2>3
<1>18. OutOnFile(r, d)
  BY <1>1, <1>7 DEF OutOnFile, Recorded, Safe
<1>19. Advances(ch, s, r)
  <2>1. ASSUME NEW n \in Nonces, HoleOn(ch, r, n) PROVE HoleOn(ch, s, n)
    <3>1. n \in Int
      BY BoundsAssumption DEF Nonces
    <3>2. n # t.nonce /\ r.nonces[n] = s.nonces[n]
      BY <2>1 DEF HoleOn, Recorded
    <3>3. n < s.nextNonce
      BY <1>1, <1>4, <1>5, <2>1, <3>1, <3>2 DEF HoleOn
    <3> QED
      BY <2>1, <3>2, <3>3 DEF HoleOn
  <2> QED
    BY <1>5, <1>6, <2>1 DEF Advances
<1>20. ASSUME NEW l \in Ledger, Sound(l), Advances(ch, l, s) PROVE Advances(ch, l, r)
  BY <1>1, <1>19, <1>20, AdvancesTrans DEF Ledger
<1>21. Advances(ch, d, r) /\ \A w \in DOMAIN r.writes : Advances(ch, r.writes[w], r)
  <2>1. \A w \in DOMAIN s.writes : s.writes[w] \in Ledger
    BY <1>1, ElementOfSeq, LenProperties
  <2> QED
    BY <1>1, <1>20, <2>1 DEF Full, Safe, Filed, SoundFile, Recorded
<1> HIDE DEF X
<1>22. Safe(r, d, N, ch)
  BY <1>2, <1>9, <1>11, <1>12, <1>13, <1>14, <1>15, <1>16, <1>17, <1>18, <1>21 DEF Safe
<1> QED
  BY <1>8, <1>19, <1>22 DEF Onward, Full

LEMMA CommitOnward ==
  ASSUME NEW d \in Ledger, NEW N \in SUBSET Tx, NEW ch, NEW s, Full(s, d, N, ch),
         NEW p \in PlanIds, s.plans[p].cursor \in DOMAIN StepsOf(p),
         s.plans[p].status = "executing", ~Attached(s.plans[p]),
         Step(s, p).kind = "tx" => s.plans[p].nonce \in Nonces
  PROVE Onward(s, Commit(s, p), d, N, ch)
<1> DEFINE q == s.plans[p]
           tx == Step(s, p).kind = "tx"
           place == IF tx THEN Len(s.nonces[q.nonce].candidates) + 1 ELSE 0
           entries == [o \in Offers |-> CommittedEntry(s, Step(s, p), <<q.nonce, place>>, o)]
           nonces == IF tx THEN RecordCandidate(s, p) ELSE s.nonces
           next == IF tx /\ s.nextNonce = q.nonce THEN s.nextNonce + 1 ELSE s.nextNonce
           subs == [i \in Intents |->
                      IF StepPlan(i) = p THEN "exposed" ELSE s.submissions[i]]
           plan == [q EXCEPT !.phase = "commit", !.pending = place,
                             !.exposed = q.exposed \/ ~Recovery(p),
                             !.flush = Len(s.writes) + 1]
           slot == IF s.slot = Free THEN Committing ELSE s.slot
           free == [s EXCEPT !.slot = Free]
           r == [s EXCEPT !.entries = entries, !.nonces = nonces, !.nextNonce = next,
                          !.submissions = subs, !.plans[p] = plan, !.slot = slot]
<1>1. Typed(s) /\ Typed(Commit(s, p)) /\ q \in Plan /\ s \in KernelState
  BY CommitTyped DEF Full, Typed, KernelState
<1>2. Commit(s, p) = IF CommitRefused(s, p) THEN FailPlans(free, {p}) ELSE r
  BY DEF Commit, Committed
<1>3. Ready(s)
  BY DEF Full, Safe, Ready
<1>4. ASSUME CommitRefused(s, p) PROVE Onward(s, Commit(s, p), d, N, ch)
  <2>1. /\ free \in KernelState /\ free.plans = s.plans /\ free.submissions = s.submissions
        /\ free.nonces = s.nonces /\ free.writes = s.writes /\ free.nextNonce = s.nextNonce
        /\ free.finalized = s.finalized /\ free.resends = s.resends /\ free.head = s.head
    BY <1>1 DEF KernelState
  <2> HIDE DEF free
  <2>2. Quiet(s, free)
    BY <1>1, <1>3, <2>1, SameQuiet, SamePlansTyped, SameRecordItself DEF SameLists
  <2>3. Quiet(s, FailPlans(free, {p}))
    BY <1>3, <2>2, FailPlansQuiet, QuietTrans DEF Quiet
  <2> QED
    BY <1>2, <1>4, <2>3, QuietOnward
<1>5. ASSUME ~CommitRefused(s, p) PROVE Onward(s, Commit(s, p), d, N, ch)
  <2>1. Commit(s, p) = r /\ Typed(r)
    BY <1>1, <1>2, <1>5
  <2>2. /\ plan.status = "executing" /\ plan.phase = "commit" /\ plan.cursor = q.cursor
        /\ plan.nonce = q.nonce /\ plan.pending = place /\ plan.flush = Len(s.writes) + 1
    BY <1>1 DEF Plan
  <2> HIDE DEF q, tx, place, entries, nonces, next, subs, plan, slot
  <2>3. /\ r.plans = [s.plans EXCEPT ![p] = plan] /\ r.submissions = subs
        /\ r.nonces = nonces /\ r.writes = s.writes /\ r.nextNonce = next
        /\ r.finalized = s.finalized /\ r.resends = s.resends /\ r.head = s.head
    BY <1>1 DEF KernelState
  <2> HIDE DEF r
  <2>4. /\ r.plans[p] = plan /\ \A x \in PlanIds \ {p} : r.plans[x] = s.plans[x]
    BY <1>1, <2>3 DEF KernelState
  <2>5. CASE tx
    <3>1. q.nonce \in Nonces
      BY <2>5 DEF tx, q
    <3> DEFINE t == [nonce |-> q.nonce, place |-> place, plan |-> p, step |-> q.cursor]
               cs == s.nonces[q.nonce].candidates
    <3>2. /\ t \in Tx
          /\ \A u \in Tx : LET ds == nonces[u.nonce].candidates
                           IN (u.place \in DOMAIN ds /\ ds[u.place].plan = u.plan
                               /\ ds[u.place].step = u.step) <=> Lists(s, u) \/ u = t
          /\ \A m \in Nonces \ {q.nonce} : nonces[m] = s.nonces[m]
          /\ nonces[q.nonce].open
          /\ nonces[q.nonce].resolution = s.nonces[q.nonce].resolution
          /\ DOMAIN nonces[q.nonce].candidates = DOMAIN cs \cup {place}
          /\ \A c \in DOMAIN cs : nonces[q.nonce].candidates[c] = cs[c]
          /\ ~Out(nonces[q.nonce].candidates[place])
      <4> DEFINE old == s.nonces[s.plans[p].nonce].candidates
                 fresh == [nonce |-> s.plans[p].nonce, place |-> Len(old) + 1, plan |-> p,
                           step |-> s.plans[p].cursor]
                 rec == RecordCandidate(s, p)
      <4>1. q = s.plans[p] /\ cs = old /\ place = Len(old) + 1 /\ nonces = rec
        BY <2>5 DEF q, place, nonces
      <4>2. t = fresh
        BY <4>1
      <4>3. /\ fresh \in Tx
            /\ \A u \in Tx : LET ds == rec[u.nonce].candidates
                             IN (u.place \in DOMAIN ds /\ ds[u.place].plan = u.plan
                                 /\ ds[u.place].step = u.step) <=> Lists(s, u) \/ u = fresh
            /\ \A m \in Nonces \ {s.plans[p].nonce} : rec[m] = s.nonces[m]
            /\ rec[s.plans[p].nonce].open
            /\ rec[s.plans[p].nonce].resolution = s.nonces[s.plans[p].nonce].resolution
            /\ DOMAIN rec[s.plans[p].nonce].candidates = DOMAIN old \cup {Len(old) + 1}
            /\ \A c \in DOMAIN old : rec[s.plans[p].nonce].candidates[c] = old[c]
            /\ ~Out(rec[s.plans[p].nonce].candidates[Len(old) + 1])
        <5>1. Typed(s) /\ s.plans[p].nonce \in Nonces
          BY <1>1, <3>1, <4>1
        <5> QED
          BY <5>1, RecordedLists, ZenonT(60)
      <4> HIDE DEF t, fresh, cs, old, rec
      <4> QED
        BY <4>1, <4>2, <4>3
    <3>3. /\ t.nonce = q.nonce /\ t.place = place /\ t.plan = p /\ t.step = q.cursor
      OBVIOUS
    <3> HIDE DEF t
    <3>4. \A u \in Tx : Lists(r, u) <=> Lists(s, u) \/ u = t
      <4> SUFFICES ASSUME NEW u \in Tx PROVE Lists(r, u) <=> Lists(s, u) \/ u = t
        OBVIOUS
      <4>1. Lists(r, u) <=> /\ u.place \in DOMAIN nonces[u.nonce].candidates
                            /\ nonces[u.nonce].candidates[u.place].plan = u.plan
                            /\ nonces[u.nonce].candidates[u.place].step = u.step
        BY <2>3 DEF Lists
      <4> QED
        BY <3>2, <4>1
    <3>5. ASSUME NEW n \in Nonces
          PROVE /\ n # q.nonce => nonces[n] = s.nonces[n]
                /\ nonces[n].resolution = s.nonces[n].resolution
                /\ \A c \in DOMAIN nonces[n].candidates :
                     Out(nonces[n].candidates[c]) =>
                       /\ c \in DOMAIN s.nonces[n].candidates
                       /\ nonces[n].candidates[c] = s.nonces[n].candidates[c]
      <4>1. CASE n = q.nonce
        BY <3>2, <4>1
      <4>2. CASE n # q.nonce
        BY <3>2, <4>2
      <4> QED
        BY <4>1, <4>2
    <3>6. next = IF s.nextNonce = t.nonce THEN s.nextNonce + 1 ELSE s.nextNonce
      BY <2>5, <3>3 DEF next
    <3>7. s.plans[p].cursor = q.cursor /\ s.plans[p].nonce = q.nonce
          /\ s.plans[p].status = q.status
      BY DEF q
    <3>8. Recorded(s, r, p, t)
      <4>1. LET u == r.plans[p]
            IN /\ u.status = "executing" /\ u.phase = "commit" /\ u.cursor = s.plans[p].cursor
               /\ u.nonce = t.nonce /\ u.pending = t.place /\ u.flush = Len(s.writes) + 1
        BY <2>2, <2>4, <3>3, <3>7
      <4>2. \A n \in Nonces :
                /\ n # t.nonce => r.nonces[n] = s.nonces[n]
                /\ r.nonces[n].resolution = s.nonces[n].resolution
                /\ \A c \in DOMAIN r.nonces[n].candidates :
                            Out(r.nonces[n].candidates[c]) =>
                              /\ c \in DOMAIN s.nonces[n].candidates
                              /\ r.nonces[n].candidates[c] = s.nonces[n].candidates[c]
        BY <2>3, <3>3, <3>5
      <4>3. r.nonces[t.nonce].open /\ t \in Tx
        BY <2>3, <3>2, <3>3
      <4>4. r.submissions = [i \in Intents |-> IF StepPlan(i) = p THEN "exposed"
                                              ELSE s.submissions[i]]
        BY <2>3 DEF subs
      <4> QED
        BY <2>3, <2>4, <3>3, <3>4, <3>6, <3>7, <4>1, <4>2, <4>3, <4>4 DEF Recorded
    <3> QED
      BY <2>1, <3>8, RecordedOnward
  <2>6. CASE ~tx
    <3>1. nonces = s.nonces /\ next = s.nextNonce
      BY <2>6 DEF nonces, next
    <3>2. /\ plan.status = "executing" /\ plan.cursor = s.plans[p].cursor
          /\ plan.nonce <= s.nextNonce
          /\ plan.phase \in {"commit", "expose"} => StepsOf(p)[plan.cursor].kind # "tx"
      BY <2>2, <2>6 DEF q, tx, Step, Full, Safe, Behind
    <3>3. \A i \in Intents : /\ Moves(s.submissions[i], r.submissions[i])
                             /\ r.submissions[i] \in {"exposed", s.submissions[i]}
      BY <1>3, <2>3 DEF subs, Moves, Ready, Submitted
    <3> HIDE DEF q
    <3>4. Onward(s, r, d, N, ch)
      BY <2>1, <2>3, <3>1, <3>2, <3>3, OnePlanOnward
    <3> QED
      BY <2>1, <3>4
  <2> QED
    BY <2>5, <2>6
<1> QED
  BY <1>4, <1>5

\* what is written lists what the kernel does
LEMMA DurableLists ==
  ASSUME NEW s, Typed(s), Sound(s)
  PROVE /\ ToDurable(s) \in Ledger
        /\ \A u \in Tx : Lists(ToDurable(s), u) <=> Lists(s, u)
        /\ SoundFile(ToDurable(s))
        /\ ToDurable(s).submissions = s.submissions
        /\ \A ch : \A n \in Nonces : HoleOn(ch, ToDurable(s), n) <=> HoleOn(ch, s, n)
        /\ ToDurable(s).nextNonce = s.nextNonce
<1> DEFINE l == ToDurable(s)
<1>1. /\ l \in Ledger /\ l.nextNonce = s.nextNonce /\ l.submissions = s.submissions
      /\ \A n \in Nonces : l.nonces[n] = DurableRecord(s.nonces[n])
  BY ToDurableTyped DEF ToDurable, Typed
<1>2. ASSUME NEW n \in Nonces
      PROVE /\ DOMAIN l.nonces[n].candidates = DOMAIN s.nonces[n].candidates
            /\ \A c \in DOMAIN s.nonces[n].candidates :
                 l.nonces[n].candidates[c] = s.nonces[n].candidates[c]
            /\ l.nonces[n].open = s.nonces[n].open
            /\ ~Resolved(l.nonces[n])
  <2> DEFINE r == s.nonces[n]
           x == l.nonces[n]
  <2>1. r \in NonceRecord /\ (DOMAIN r.candidates # {} => r.open)
    BY DEF Typed, KernelState, Sound
  <2>2. x = DurableRecord(r)
    BY <1>1
  <2> HIDE DEF r, x
  <2>3. CASE r.open
    <3>1. x.candidates = r.candidates /\ x.open = TRUE /\ x.resolution = Unresolved
      BY <2>2, <2>3 DEF DurableRecord, NoRecord
    <3>2. r.open = TRUE
      BY <2>1, <2>3 DEF NonceRecord
    <3>3. ~Resolved(x)
      BY <3>1 DEF Resolved, Unresolved
    <3>4. /\ DOMAIN x.candidates = DOMAIN r.candidates
          /\ \A c \in DOMAIN r.candidates : x.candidates[c] = r.candidates[c]
          /\ x.open = r.open /\ ~Resolved(x)
      BY <3>1, <3>2, <3>3
    <3> QED
      BY <3>4 DEF r, x
  <2>4. CASE ~r.open
    <3>1. x = NoRecord /\ DOMAIN r.candidates = {} /\ r.open = FALSE
      BY <2>1, <2>2, <2>4 DEF DurableRecord, NonceRecord
    <3>2. NoRecord.open = FALSE /\ DOMAIN NoRecord.candidates = {} /\ ~Resolved(NoRecord)
      BY DEF NoRecord, Resolved, Unresolved
    <3>3. /\ DOMAIN x.candidates = DOMAIN r.candidates
          /\ \A c \in DOMAIN r.candidates : x.candidates[c] = r.candidates[c]
          /\ x.open = r.open /\ ~Resolved(x)
      BY <3>1, <3>2
    <3> QED
      BY <3>3 DEF r, x
  <2> QED
    BY <2>3, <2>4
<1> HIDE DEF l
<1>3. ASSUME NEW u \in Tx PROVE Lists(l, u) <=> Lists(s, u)
  <2>1. u.nonce \in Nonces
    BY DEF Tx
  <2> QED
    BY <1>2, <2>1 DEF Lists
<1>4. SoundFile(l)
  BY <1>1, <1>2 DEF SoundFile, Sound
<1>5. \A ch : \A n \in Nonces : HoleOn(ch, l, n) <=> HoleOn(ch, s, n)
  BY <1>1, <1>2 DEF HoleOn
<1> QED
  BY <1>1, <1>3, <1>4, <1>5 DEF l

LEMMA FlushIfChangedOnward ==
  ASSUME NEW d \in Ledger, NEW N \in SUBSET Tx, NEW ch, NEW s, Full(s, d, N, ch)
  PROVE Onward(s, FlushIfChanged(s), d, N, ch)
<1> DEFINE l == ToDurable(s)
           writes == Append(s.writes, l)
           r == [s EXCEPT !.writes = writes, !.lastDurable = l]
<1>1. Typed(s) /\ s \in KernelState /\ Safe(s, d, N, ch) /\ Filed(s, d, N, ch)
  BY DEF Full, Typed
<1>2. FlushIfChanged(s) \in {s, r} /\ Typed(FlushIfChanged(s))
  BY <1>1, FlushIfChangedTyped DEF FlushIfChanged, Flush
<1>3. /\ l \in Ledger /\ SoundFile(l) /\ l.submissions = s.submissions
      /\ l.nextNonce = s.nextNonce /\ \A u \in Tx : Lists(l, u) <=> Lists(s, u)
      /\ \A n \in Nonces : HoleOn(ch, l, n) <=> HoleOn(ch, s, n)
  BY <1>1, DurableLists DEF Safe
<1> HIDE DEF l
<1>4. /\ s.writes \in Seq(Ledger) /\ s.nonces \in [Nonces -> NonceRecord]
      /\ s.resends \subseteq Tx /\ s.nextNonce \in Int
  BY <1>1 DEF KernelState
<1>5. /\ r.plans = s.plans /\ r.submissions = s.submissions /\ r.nonces = s.nonces
      /\ r.writes = writes /\ r.nextNonce = s.nextNonce /\ r.finalized = s.finalized
      /\ r.resends = s.resends /\ r.head = s.head
  BY <1>1 DEF KernelState
<1>6. /\ DOMAIN writes = DOMAIN s.writes \cup {Len(s.writes) + 1}
      /\ \A w \in DOMAIN s.writes : writes[w] = s.writes[w] /\ w \in 1 .. Len(s.writes)
      /\ writes[Len(s.writes) + 1] = l /\ Len(s.writes) \in Nat
      /\ Len(s.writes) + 1 \notin DOMAIN s.writes
      /\ DOMAIN s.writes = 1 .. Len(s.writes)
  BY <1>3, <1>4, AppendProperties, LenProperties
<1> HIDE DEF writes, r
<1>7. \A w \in DOMAIN s.writes : s.writes[w] \in Ledger
  BY <1>4, ElementOfSeq, LenProperties
<1>8. /\ Outside(r, N) = Outside(s, N) /\ Listed(r) = Listed(s)
      /\ \A t : Lists(r, t) <=> Lists(s, t)
      /\ Outside(s, N) \subseteq Tx /\ Listed(s) \subseteq Tx
  BY <1>4, <1>5, ListedTyped DEF Outside, Listed, Lists
<1>9. \A t \in Tx : Lists(s, t) /\ OnFile(s, d, t) => OnFile(r, d, t)
  BY <1>3, <1>5, <1>6 DEF OnFile
<1>10. Listed(l) = Listed(s)
  BY <1>3, <1>4, ListedSame DEF SameListed, Ledger
<1>11. /\ \A m : Advances(ch, m, s) => Advances(ch, m, l)
       /\ Advances(ch, l, s) /\ Advances(ch, l, l)
  BY <1>3, <1>4, MovesItself DEF Advances
<1>12. Filed(r, d, N, ch)
  <2>1. Once(l, Outside(s, N))
    BY <1>1, <1>3, <1>10 DEF Once, Safe
  <2>2. ASSUME NEW w \in DOMAIN writes
        PROVE /\ SoundFile(writes[w]) /\ Once(writes[w], Outside(s, N))
              /\ Advances(ch, d, writes[w])
              /\ \A v \in 1 .. w : Advances(ch, writes[v], writes[w])
    <3>1. CASE w \in DOMAIN s.writes
      <4>1. \A v \in 1 .. w : v \in DOMAIN s.writes
        BY <1>6, <3>1
      <4> QED
        BY <1>1, <1>6, <3>1, <4>1 DEF Filed
    <3>2. CASE w = Len(s.writes) + 1
      <4>1. \A v \in 1 .. w : v \in DOMAIN s.writes \/ v = w
        BY <1>6, <3>2
      <4>2. \A v \in DOMAIN s.writes : Advances(ch, writes[v], l)
        BY <1>1, <1>6, <1>11 DEF Safe
      <4>3. Advances(ch, d, l)
        BY <1>1, <1>11 DEF Safe
      <4> QED
        BY <1>3, <1>6, <1>11, <2>1, <3>2, <4>1, <4>2, <4>3
    <3> QED
      BY <1>6, <3>1, <3>2
  <2>3. \A t \in Outside(s, N) : FinalOn(ch, t.nonce) \/ OnFile(r, d, t)
    BY <1>1, <1>8, <1>9 DEF Filed, Safe
  <2> QED
    BY <1>1, <1>5, <1>8, <2>2, <2>3 DEF Filed
<1>13. Sound(r) /\ Submitted(r) /\ Behind(r) /\ Evidence(r, ch) /\ Once(r, Outside(r, N))
  BY <1>1, <1>5, <1>8 DEF Safe, Sound, Submitted, Behind, Evidence, Once
<1>14. InFlight(r, d)
  <2> SUFFICES ASSUME NEW p \in Executing(r), r.plans[p].phase \in {"commit", "expose"},
                      Step(r, p).kind = "tx"
               PROVE LET t == TxIn(p, r.plans[p])
                     IN /\ Lists(r, t)
                        /\ \A w \in DOMAIN r.writes :
                             w >= r.plans[p].flush => Lists(r.writes[w], t)
                        /\ r.plans[p].phase = "expose" => OnFile(r, d, t)
    BY DEF InFlight
  <2> DEFINE t == TxIn(p, s.plans[p])
  <2>1. p \in PlanIds /\ p \in Executing(s) /\ Step(s, p) = Step(r, p)
    BY <1>5 DEF Executing, Step
  <2>2. t \in Tx /\ TxIn(p, r.plans[p]) = t
    BY <1>1, <1>5, <2>1, TxInTyped
  <2>3. /\ Lists(s, t)
        /\ \A w \in DOMAIN s.writes : w >= s.plans[p].flush => Lists(s.writes[w], t)
        /\ s.plans[p].phase = "expose" => OnFile(s, d, t)
    BY <1>1, <1>5, <2>1 DEF InFlight, Safe
  <2> HIDE DEF t
  <2>4. \A w \in DOMAIN r.writes : w >= r.plans[p].flush => Lists(r.writes[w], t)
    BY <1>3, <1>5, <1>6, <2>2, <2>3
  <2>5. r.plans[p].phase = "expose" => OnFile(r, d, t)
    BY <1>5, <1>9, <2>2, <2>3
  <2> QED
    BY <1>8, <2>2, <2>3, <2>4, <2>5
<1>15. \A t \in Outside(r, N) : FinalOn(ch, t.nonce) \/ Lists(r, t)
  BY <1>1, <1>8 DEF Safe
<1>16. Passed(r, Outside(r, N))
  BY <1>1, <1>5, <1>8 DEF Safe, Passed
<1>17. OutOnFile(r, d)
  <2> SUFFICES ASSUME NEW n \in Nonces, NEW c \in DOMAIN s.nonces[n].candidates,
                      Out(s.nonces[n].candidates[c])
               PROVE OnFile(r, d, TxAt(n, c, s.nonces[n].candidates[c]))
    BY <1>5 DEF OutOnFile
  <2>1. TxAt(n, c, s.nonces[n].candidates[c]) \in Listed(s)
    BY DEF Listed
  <2>2. OnFile(s, d, TxAt(n, c, s.nonces[n].candidates[c]))
    BY <1>1 DEF Safe, OutOnFile
  <2> QED
    BY <1>8, <1>9, <2>1, <2>2, ListedIsLists
<1>18. \A m : Advances(ch, m, s) => Advances(ch, m, r)
  BY <1>5 DEF Advances, HoleOn
<1>19. Advances(ch, d, r) /\ \A w \in DOMAIN r.writes : Advances(ch, r.writes[w], r)
  BY <1>1, <1>5, <1>6, <1>11, <1>18 DEF Safe
<1>20. Safe(r, d, N, ch)
  BY <1>13, <1>14, <1>15, <1>16, <1>17, <1>19 DEF Safe
<1>21. Advances(ch, s, s)
  BY <1>4, AdvancesItself
<1>22. FlushIfChanged(s) = r => Onward(s, FlushIfChanged(s), d, N, ch)
  BY <1>2, <1>12, <1>18, <1>20, <1>21 DEF Onward, Full
<1>23. FlushIfChanged(s) = s => Onward(s, FlushIfChanged(s), d, N, ch)
  BY <1>21 DEF Onward
<1> QED
  BY <1>2, <1>22, <1>23 DEF r, writes

LEMMA FullReady ==
  ASSUME NEW d, NEW N, NEW ch, NEW s, Full(s, d, N, ch)
  PROVE Ready(s) /\ Typed(s) /\ Onward(s, s, d, N, ch)
BY AdvancesItself DEF Full, Safe, Ready, Onward, Typed, KernelState

\* the nonce a plan signs at is not beyond the next
LEMMA SignableBehind ==
  ASSUME NEW s, Typed(s), Sound(s), NEW p \in PlanIds, Signable(s, p)
  PROVE NonceFor(s, p) \in Nonces /\ NonceFor(s, p) <= s.nextNonce
<1>1. NonceFor(s, p) \in Nonces /\ ~LostTarget(s, p) /\ s.nextNonce \in Int
  BY DEF Signable, Typed, KernelState
<1>2. CASE s.plans[p].target = Undefined
  BY <1>1, <1>2 DEF NonceFor
<1>3. CASE s.plans[p].target # Undefined
  <2>1. /\ s.nonces[NonceFor(s, p)].open
    BY <1>1, <1>3 DEF LostTarget, NonceFor
  <2>2. NonceFor(s, p) < s.nextNonce /\ NonceFor(s, p) \in Int
    BY <1>1, <2>1, BoundsAssumption DEF Sound, Nonces
  <2> QED
    BY <1>1, <2>2
<1> QED
  BY <1>2, <1>3

LEMMA DispatchRecoveriesOnward ==
  ASSUME NEW d \in Ledger, NEW N \in SUBSET Tx, NEW ch, NEW s, Full(s, d, N, ch)
  PROVE Onward(s, DispatchRecoveries(s, RecoveryPlans(InPhase(s, "await-slot"))), d, N, ch)
<1> DEFINE W == RecoveryPlans(InPhase(s, "await-slot"))
           first == First(s, {p \in W : Signable(s, p)})
           r == PassRecoveries(s, Reached(s, W, first))
<1>0. Ready(s) /\ Typed(s)
  BY FullReady
<1>1. DispatchRecoveries(s, W) = SlotToRecovery(r, first)
  <2>1. Value(r) = r
    BY ValueIsItself
  <2>2. DispatchRecoveries(s, W) = RecoveriesTo(s, W, first)
    BY DEF DispatchRecoveries
  <2>3. RecoveriesTo(s, W, first) = SlotToRecovery(Value(r), first)
    BY DEF RecoveriesTo
  <2> QED
    BY <2>1, <2>2, <2>3
<1>2. /\ Reached(s, W, first) \in SUBSET W
      /\ \A p \in first : p \in W /\ Signable(s, p)
  BY DEF Reached, First
<1>3. \A p \in W : p \in InPhase(s, "await-slot") /\ Recovery(p)
  BY DEF RecoveryPlans
<1>4. /\ Typed(r) /\ r.nextNonce = s.nextNonce
      /\ \A p \in PlanIds : Recovery(p) /\ Signable(s, p) => r.plans[p] = s.plans[p]
  BY <1>0, <1>2, PassRecoveriesTyped
<1>5. Onward(s, r, d, N, ch)
  BY <1>0, <1>2, PassRecoveriesQuiet, QuietOnward
<1> HIDE DEF first, r, W
<1>6. ASSUME first = {} PROVE Onward(s, DispatchRecoveries(s, W), d, N, ch)
  BY <1>1, <1>5, <1>6 DEF SlotToRecovery
<1>7. ASSUME first # {} PROVE Onward(s, DispatchRecoveries(s, W), d, N, ch)
  <2>1. PICK p \in first : p = CHOOSE q \in first : TRUE
    BY <1>7
  <2>2. /\ p \in PlanIds /\ s.plans[p].cursor \in DOMAIN StepsOf(p)
        /\ ~Attached(s.plans[p]) /\ s.plans[p].status = "executing" /\ Signable(s, p)
    BY <1>0, <1>2, <1>3, WaitingQuiet
  <2>3. r.plans[p] = s.plans[p]
    BY <1>2, <1>3, <1>4, <2>2
  <2>4. NonceFor(s, p) \in Nonces /\ NonceFor(s, p) <= s.nextNonce
    BY <1>0, <2>2, SignableBehind DEF Full, Safe
  <2>5. NonceFor(r, p) = NonceFor(s, p)
    BY <1>4, <2>3, NonceForKept
  <2>6. SlotToRecovery(r, first) = Sign(r, p, NonceFor(r, p))
    <3> DEFINE pick == CHOOSE q \in first : TRUE
    <3>1. SlotToRecovery(r, first) = Sign(r, pick, NonceFor(r, pick))
      BY <1>7 DEF SlotToRecovery
    <3>2. pick = p
      BY <2>1
    <3> HIDE DEF pick
    <3> QED
      BY <3>1, <3>2
  <2>7. Onward(r, Sign(r, p, NonceFor(r, p)), d, N, ch)
    BY <1>4, <1>5, <2>2, <2>3, <2>4, <2>5, SignOnward DEF Onward
  <2> QED
    BY <1>1, <1>5, <2>6, <2>7, OnwardTrans
<1>8. Onward(s, DispatchRecoveries(s, W), d, N, ch)
  BY <1>6, <1>7
<1> QED
  BY <1>8 DEF W

LEMMA DispatchStepsOnward ==
  ASSUME NEW d \in Ledger, NEW N \in SUBSET Tx, NEW ch, NEW s, Full(s, d, N, ch)
  PROVE Onward(s, DispatchSteps(s, StepPlans(InPhase(s, "await-slot"))), d, N, ch)
<1> DEFINE W == StepPlans(InPhase(s, "await-slot"))
           allowed == {p \in W : StillAuthorized(s, p)}
           first == First(s, {p \in allowed : Releasing(s, p) \/ Signable(s, p)})
           r == PassSteps(s, Reached(s, W, first), allowed)
<1>0. Ready(s) /\ Typed(s)
  BY FullReady
<1>1. DispatchSteps(s, W) = SlotToStep(r, first)
  <2>1. Value(r) = r
    BY ValueIsItself
  <2>2. DispatchSteps(s, W) = StepsTo(s, W, allowed, first)
    BY DEF DispatchSteps, StepsAmong
  <2>3. StepsTo(s, W, allowed, first) = SlotToStep(Value(r), first)
    BY DEF StepsTo
  <2> QED
    BY <2>1, <2>2, <2>3
<1>2. /\ Reached(s, W, first) \in SUBSET W
      /\ \A p \in first : p \in allowed /\ (Releasing(s, p) \/ Signable(s, p))
      /\ allowed \subseteq W
  BY DEF Reached, First
<1>3. W \subseteq InPhase(s, "await-slot")
  BY DEF StepPlans
<1> HIDE DEF first, allowed, W
<1>4. /\ Typed(r) /\ r.nextNonce = s.nextNonce
      /\ \A p \in PlanIds \cap allowed : Releasing(s, p) \/ Signable(s, p) =>
           r.plans[p] = s.plans[p]
  BY <1>0, <1>2, <1>3, PassStepsTyped
<1>5. Onward(s, r, d, N, ch)
  <2>1. Reached(s, W, first) \in SUBSET InPhase(s, "await-slot")
    BY <1>2, <1>3
  <2> QED
    BY <1>0, <2>1, PassStepsQuiet, QuietOnward
<1> HIDE DEF r
<1>6. ASSUME first = {} PROVE Onward(s, DispatchSteps(s, W), d, N, ch)
  BY <1>1, <1>5, <1>6 DEF SlotToStep
<1>7. ASSUME first # {} PROVE Onward(s, DispatchSteps(s, W), d, N, ch)
  <2>1. PICK p \in first : p = CHOOSE q \in first : TRUE
    BY <1>7
  <2>2. /\ p \in PlanIds /\ s.plans[p].cursor \in DOMAIN StepsOf(p)
        /\ ~Attached(s.plans[p]) /\ s.plans[p].status = "executing"
    BY <1>0, <1>2, <1>3, WaitingQuiet
  <2>3. r.plans[p] = s.plans[p]
    BY <1>2, <1>4, <2>2
  <2>4. SlotToStep(r, first) =
          IF Releasing(r, p) THEN Commit(r, p) ELSE Sign(r, p, NonceFor(r, p))
    <3> DEFINE pick == CHOOSE q \in first : TRUE
    <3>1. SlotToStep(r, first) =
            IF Releasing(r, pick) THEN Commit(r, pick) ELSE Sign(r, pick, NonceFor(r, pick))
      BY <1>7 DEF SlotToStep
    <3>2. pick = p
      BY <2>1
    <3> HIDE DEF pick
    <3> QED
      BY <3>1, <3>2
  <2>5. ASSUME Releasing(r, p) PROVE Onward(r, Commit(r, p), d, N, ch)
    <3>1. Step(r, p).kind # "tx"
      BY <2>5 DEF Releasing
    <3> QED
      BY <1>5, <2>2, <2>3, <3>1, CommitOnward DEF Onward
  <2>6. ASSUME ~Releasing(r, p) PROVE Onward(r, Sign(r, p, NonceFor(r, p)), d, N, ch)
    <3>1. ~Releasing(s, p)
      BY <2>3, <2>6 DEF Releasing, Step
    <3>2. NonceFor(s, p) \in Nonces /\ NonceFor(s, p) <= s.nextNonce
      BY <1>0, <1>2, <2>2, <3>1, SignableBehind DEF Full, Safe
    <3>3. NonceFor(r, p) = NonceFor(s, p)
      BY <1>4, <2>3, NonceForKept
    <3> QED
      BY <1>4, <1>5, <2>2, <2>3, <3>2, <3>3, SignOnward DEF Onward
  <2> QED
    BY <1>1, <1>5, <2>4, <2>5, <2>6, OnwardTrans
<1>8. Onward(s, DispatchSteps(s, W), d, N, ch)
  BY <1>6, <1>7
<1> QED
  BY <1>8 DEF W

LEMMA DispatchSlotOnward ==
  ASSUME NEW d \in Ledger, NEW N \in SUBSET Tx, NEW ch, NEW s, Full(s, d, N, ch)
  PROVE Onward(s, DispatchSlot(s), d, N, ch)
<1> DEFINE r == DispatchRecoveries(s, RecoveryPlans(InPhase(s, "await-slot")))
<1>1. Onward(s, r, d, N, ch)
  BY DispatchRecoveriesOnward
<1>2. DispatchSlot(s) = IF s.slot # Free THEN s ELSE DispatchRest(r)
  BY ValueIsItself DEF DispatchSlot
<1> HIDE DEF r
<1>3. Onward(r, DispatchRest(r), d, N, ch)
  BY <1>1, DispatchStepsOnward, FullReady DEF DispatchRest, Onward
<1> QED
  BY <1>1, <1>2, <1>3, OnwardTrans, FullReady

LEMMA AfterEventOnward ==
  ASSUME NEW d \in Ledger, NEW N \in SUBSET Tx, NEW ch, ch.head \in Nat, NEW s,
         Full(s, d, N, ch)
  PROVE Onward(s, AfterEvent(s), d, N, ch)
<1> DEFINE a1 == ProgressPlans(s)
           a2 == SettleNonces(a1)
           a3 == SettleEntries(a2)
           a4 == SettleCompensation(a3)
           a5 == LatchBound(a4)
           a6 == CheckStarted(a5)
           a7 == Rebroadcast(a6)
           a8 == Recover(a7)
           a9 == DispatchSlot(a8)
           a10 == FlushIfChanged(a9)
           a11 == CheckStopped(a10)
<1>1. AfterEvent(s) = PruneFinished(a11)
  BY ValueIsItself DEF AfterEvent
<1>2. \A r, u : Onward(s, r, d, N, ch) /\ Onward(r, u, d, N, ch) => Onward(s, u, d, N, ch)
  BY OnwardTrans
<1>3. \A r, u : Full(r, d, N, ch) /\ Quiet(r, u) => Onward(r, u, d, N, ch)
  BY QuietOnward
<1>4. \A r, u : Onward(s, r, d, N, ch) => Full(r, d, N, ch) /\ Ready(r)
  BY FullReady DEF Onward
<1>5. \A r, u : Onward(s, r, d, N, ch) /\ Quiet(r, u) => Onward(s, u, d, N, ch)
  BY <1>2, <1>3, <1>4
<1>6. Onward(s, s, d, N, ch)
  BY FullReady
<1>7. Onward(s, a1, d, N, ch)
  BY <1>4, <1>5, <1>6, ProgressPlansQuiet
<1> HIDE DEF a1
<1>8. Onward(s, a2, d, N, ch)
  BY <1>2, <1>4, <1>7, SettleNoncesOnward
<1> HIDE DEF a2
<1>9. Onward(s, a3, d, N, ch)
  BY <1>4, <1>5, <1>8, SettleEntriesQuiet
<1> HIDE DEF a3
<1>10. Onward(s, a4, d, N, ch)
  BY <1>4, <1>5, <1>9, SettleCompensationQuiet
<1> HIDE DEF a4
<1>11. Onward(s, a5, d, N, ch)
  BY <1>4, <1>5, <1>10, LatchBoundQuiet
<1> HIDE DEF a5
<1>12. Onward(s, a6, d, N, ch)
  BY <1>4, <1>5, <1>11, CheckStartedQuiet
<1> HIDE DEF a6
<1>13. Onward(s, a7, d, N, ch)
  BY <1>2, <1>4, <1>12, RebroadcastOnward
<1> HIDE DEF a7
<1>14. Onward(s, a8, d, N, ch)
  BY <1>4, <1>5, <1>13, RecoverQuiet
<1> HIDE DEF a8
<1>15. Onward(s, a9, d, N, ch)
  BY <1>2, <1>4, <1>14, DispatchSlotOnward
<1> HIDE DEF a9
<1>16. Onward(s, a10, d, N, ch)
  BY <1>2, <1>4, <1>15, FlushIfChangedOnward
<1> HIDE DEF a10
<1>17. Onward(s, a11, d, N, ch)
  BY <1>4, <1>5, <1>16, CheckStoppedQuiet
<1> HIDE DEF a11
<1> QED
  BY <1>1, <1>4, <1>5, <1>17, PruneFinishedQuiet

\* Whatever a handler leaves, what the rest of the event makes of it is as safe.
LEMMA ReduceOnward ==
  ASSUME NEW d \in Ledger, NEW N \in SUBSET Tx, NEW ch, ch.head \in Nat, NEW s,
         Full(s, d, N, ch)
  PROVE Onward(s, Reduce(s), d, N, ch)
BY AfterEventOnward, FullReady, ValueIsItself DEF Reduce

-----------------------------------------------------------------------------
(* Steps that keep what is held, and whom the kernel waits for.            *)

\* what is held stays held, by the same creators, and no evidence is added
KeptEntry(e, f) ==
  /\ e.state \in Held => /\ f.state \in Held
                         /\ f.creators = e.creators /\ f.deadCreators = e.deadCreators
  /\ f.neutralized => e.neutralized /\ f.observed = e.observed
  /\ f.state \in {"intended", "signed"} =>
       \/ f.creators = {} /\ f.deadCreators = {}
       \/ /\ e.state \in {"intended", "signed"}
          /\ f.creators = e.creators /\ f.deadCreators = e.deadCreators

\* q waits for its write or for its broadcast
InFlightPlan(q) == q.status = "executing" /\ q.phase \in {"commit", "expose"}
\* the fill of n is aimed at n, and a plan waits for what its step is of
Fits(p, q) ==
  q.status = "executing" =>
    /\ p[1] = "fill" => q.target = p[2]
    /\ q.phase = "simulate" => StepsOf(p)[q.cursor].kind = "tx"
    /\ q.phase = "await-slot" => StepsOf(p)[q.cursor].kind # "sign"
    /\ q.phase = "sign" => StepsOf(p)[q.cursor].kind # "release"

KeptPlan(p, q, u) ==
  /\ InFlightPlan(q) => /\ InFlightPlan(u)
                        /\ u.phase = q.phase /\ u.cursor = q.cursor /\ u.flush = q.flush
  /\ Fits(p, q) => Fits(p, u)

\* the slot is where it was, or free, and a plan that signs for it still does
KeptSlot(s, r) ==
  /\ r.slot \in {s.slot, Free}
  /\ \A p \in PlanIds :
       r.slot = p /\ s.plans[p].status = "executing" /\ s.plans[p].phase = "sign" =>
         /\ r.plans[p].status = "executing" /\ r.plans[p].phase = "sign"
         /\ r.plans[p].cursor = s.plans[p].cursor

Mild(s, r) ==
  /\ \A o \in Offers : KeptEntry(s.entries[o], r.entries[o])
  /\ \A p \in PlanIds : KeptPlan(p, s.plans[p], r.plans[p])
  /\ KeptSlot(s, r)
  /\ r.outcome = "clean" => s.outcome = "clean"

Gentle(s, r) == Quiet(s, r) /\ Mild(s, r)
Landed(s, S) == \A p \in S : ~InFlightPlan(s.plans[p])

LEMMA KeptEntryItself == ASSUME NEW e PROVE KeptEntry(e, e)
BY DEF KeptEntry

LEMMA KeptPlanItself == ASSUME NEW p, NEW q PROVE KeptPlan(p, q, q)
BY DEF KeptPlan

LEMMA NotPlans == Free \notin PlanIds /\ Committing \notin PlanIds
<1>1. \A p \in PlanIds : p[1] \in {"step", "neutralizer", "fill"}
  BY DEF PlanIds
<1>2. Free[1] = "free" /\ Committing[1] = "committing"
  BY DEF Free, Committing
<1> QED
  BY <1>1, <1>2

LEMMA MildItself == ASSUME NEW s PROVE Mild(s, s)
BY KeptEntryItself, KeptPlanItself DEF Mild, KeptSlot

LEMMA KeptSlotTrans ==
  ASSUME NEW s, NEW r, NEW u, KeptSlot(s, r), KeptSlot(r, u)
  PROVE KeptSlot(s, u)
<1>1. u.slot \in {s.slot, Free}
  BY DEF KeptSlot
<1>2. ASSUME NEW p \in PlanIds, u.slot = p, s.plans[p].status = "executing",
             s.plans[p].phase = "sign"
      PROVE /\ u.plans[p].status = "executing" /\ u.plans[p].phase = "sign"
            /\ u.plans[p].cursor = s.plans[p].cursor
  <2>1. r.slot = p
    BY <1>2, NotPlans DEF KeptSlot
  <2>2. /\ r.plans[p].status = "executing" /\ r.plans[p].phase = "sign"
        /\ r.plans[p].cursor = s.plans[p].cursor
    BY <1>2, <2>1 DEF KeptSlot
  <2> QED
    BY <1>2, <2>2 DEF KeptSlot
<1> QED
  BY <1>1, <1>2 DEF KeptSlot

LEMMA KeptEntryTrans ==
  ASSUME NEW e, NEW f, NEW g, KeptEntry(e, f), KeptEntry(f, g)
  PROVE KeptEntry(e, g)
BY DEF KeptEntry

LEMMA KeptPlanTrans ==
  ASSUME NEW p, NEW q, NEW u, NEW v, KeptPlan(p, q, u), KeptPlan(p, u, v)
  PROVE KeptPlan(p, q, v)
BY DEF KeptPlan

LEMMA MildTrans ==
  ASSUME NEW s, NEW r, NEW u, Mild(s, r), Mild(r, u)
  PROVE Mild(s, u)
<1>1. \A o \in Offers : KeptEntry(s.entries[o], u.entries[o])
  BY KeptEntryTrans DEF Mild
<1>2. \A p \in PlanIds : KeptPlan(p, s.plans[p], u.plans[p])
  BY KeptPlanTrans DEF Mild
<1>3. KeptSlot(s, u)
  BY KeptSlotTrans DEF Mild
<1> QED
  BY <1>1, <1>2, <1>3 DEF Mild

LEMMA GentleItself == ASSUME NEW s, Ready(s) PROVE Gentle(s, s)
BY QuietItself, MildItself DEF Gentle

LEMMA GentleTrans ==
  ASSUME NEW s, NEW r, NEW u, Ready(s), Gentle(s, r), Gentle(r, u)
  PROVE Gentle(s, u)
BY QuietTrans, MildTrans DEF Gentle

LEMMA GentleReady == ASSUME NEW s, NEW r, Gentle(s, r) PROVE Ready(r) /\ Typed(r)
BY DEF Gentle, Quiet, Ready

LEMMA LandedKept ==
  ASSUME NEW s, NEW r, Gentle(s, r), NEW S \in SUBSET PlanIds, Landed(s, S)
  PROVE Landed(r, S)
BY DEF Gentle, Quiet, Calm, QuietPlan, Landed, InFlightPlan

\* the plans, the slot and the outcome as they were
LEMMA EntriesMild ==
  ASSUME NEW s, NEW r, r.plans = s.plans, r.slot = s.slot, r.outcome = s.outcome,
         \A o \in Offers : KeptEntry(s.entries[o], r.entries[o])
  PROVE Mild(s, r)
BY KeptPlanItself DEF Mild, KeptSlot

\* what Mild is about as it was
LEMMA SameMild ==
  ASSUME NEW s, NEW r, r.plans = s.plans, r.slot = s.slot, r.outcome = s.outcome,
         r.entries = s.entries
  PROVE Mild(s, r)
BY EntriesMild, KeptEntryItself

-----------------------------------------------------------------------------
(* Plans end, gently.                                                      *)

\* plans of S, none of them in flight, end or compensate; the slot one of them signs for is freed
LEMMA EndedMild ==
  ASSUME NEW s, NEW r, NEW S \in SUBSET PlanIds, Landed(s, S),
         r.slot = SlotAfterFail(s, S), r.outcome = s.outcome,
         \A o \in Offers : KeptEntry(s.entries[o], r.entries[o]),
         \A p \in PlanIds \ S : r.plans[p] = s.plans[p],
         \A p \in S : r.plans[p].status # "executing"
  PROVE Mild(s, r)
<1>1. ASSUME NEW p \in PlanIds PROVE KeptPlan(p, s.plans[p], r.plans[p])
  BY KeptPlanItself DEF KeptPlan, InFlightPlan, Landed, Fits
<1>2. KeptSlot(s, r)
  <2>1. r.slot \in {s.slot, Free}
    BY DEF SlotAfterFail
  <2>2. ASSUME NEW p \in PlanIds, r.slot = p, s.plans[p].phase = "sign"
        PROVE r.plans[p] = s.plans[p]
    <3>1. s.slot = p
      BY <2>1, <2>2, NotPlans
    <3>2. p \notin S
      BY <2>2, <3>1, NotPlans DEF SlotAfterFail
    <3> QED
      BY <3>2
  <2> QED
    BY <2>1, <2>2 DEF KeptSlot
<1> QED
  BY <1>1, <1>2 DEF Mild

LEMMA EntriesAfterEndKept ==
  ASSUME NEW s, s \in KernelState, NEW S, NEW hurt, NEW o \in Offers
  PROVE KeptEntry(s.entries[o], EntriesAfterEnd(s, S, hurt)[o])
<1> DEFINE e == s.entries[o]
           f == [e EXCEPT !.compensate = TRUE]
<1>1. e \in Entry
  BY DEF KernelState
<1>2. /\ f.state = e.state /\ f.creators = e.creators /\ f.deadCreators = e.deadCreators
      /\ f.neutralized = e.neutralized /\ f.observed = e.observed
  BY <1>1 DEF Entry
<1>3. KeptEntry(e, f)
  BY <1>2 DEF KeptEntry
<1>4. NoEntry.state = "none" /\ NoEntry.neutralized = FALSE
  BY DEF NoEntry
<1>5. e.state \in {"intended", "signed"} => KeptEntry(e, NoEntry)
  BY <1>4 DEF KeptEntry, Held
<1>6. EntriesAfterEnd(s, S, hurt)[o] =
        CASE e.owner \in S /\ e.state \in {"intended", "signed"} -> NoEntry
          [] e.owner \in hurt /\ e.state \in OpenEntry -> f
          [] OTHER -> e
  BY DEF EntriesAfterEnd
<1> HIDE DEF f, e
<1> QED
  BY <1>3, <1>5, <1>6, KeptEntryItself DEF e

LEMMA FailStepsGentle ==
  ASSUME NEW s, Ready(s), NEW S \in SUBSET PlanIds, Landed(s, S)
  PROVE Gentle(s, FailSteps(s, S))
<1> DEFINE hurt == {p \in S : s.plans[p].exposed}
           over == [NoPlan EXCEPT !.status = "compensating"]
           plans == [p \in PlanIds |->
                       IF p \in hurt THEN over ELSE IF p \in S THEN NoPlan ELSE s.plans[p]]
           r == FailSteps(s, S)
<1>1. /\ r.plans = plans /\ r.slot = SlotAfterFail(s, S) /\ r.outcome = s.outcome
      /\ r.entries = EntriesAfterEnd(s, S, hurt)
  BY DEF FailSteps, Ready, Typed, KernelState
<1>2. over.status = "compensating" /\ NoPlan.status = "none"
  BY DEF NoPlan
<1> HIDE DEF over, r
<1>3. /\ \A p \in PlanIds \ S : r.plans[p] = s.plans[p]
      /\ \A p \in S : r.plans[p].status # "executing"
  BY <1>1, <1>2
<1>4. \A o \in Offers : KeptEntry(s.entries[o], r.entries[o])
  BY <1>1, EntriesAfterEndKept DEF Ready, Typed
<1>5. Mild(s, r)
  BY <1>1, <1>3, <1>4, EndedMild
<1> QED
  BY <1>5, FailStepsQuiet DEF Gentle, r

LEMMA EnterRecoveringGentle ==
  ASSUME NEW s, Ready(s)
  PROVE Gentle(s, EnterRecovering(s))
<1> DEFINE r == [s EXCEPT !.lifecycle = "recovering", !.overdue = FALSE]
           S == {p \in Executing(r) : r.plans[p].phase \in PreCommit
                                       /\ ~LifecycleAllows(r, p)}
<1>1. /\ r \in KernelState /\ r.plans = s.plans /\ r.nextNonce = s.nextNonce
      /\ r.submissions = s.submissions /\ r.nonces = s.nonces /\ r.writes = s.writes
      /\ r.finalized = s.finalized /\ r.resends = s.resends /\ r.head = s.head
      /\ r.slot = s.slot /\ r.outcome = s.outcome /\ r.entries = s.entries
  BY ZenonT(60) DEF Ready, Typed, KernelState, Lifecycle
<1>2. Typed(r) /\ SameLists(s, r)
  BY <1>1, SameRecordItself DEF Typed, SameLists, Ready
<1>3. Gentle(s, r)
  BY <1>1, <1>2, SameQuiet, SameMild DEF Gentle
<1>4. S \in SUBSET PlanIds /\ Landed(r, S)
  BY DEF Executing, Landed, InFlightPlan, PreCommit
<1>5. EnterRecovering(s) = IF s.lifecycle \notin {"starting", "running"} THEN s
                           ELSE FailSteps(r, S)
  <2>1. FailForbidden(r) = FailSteps(r, S)
    BY DEF FailForbidden
  <2>2. EnterRecovering(s) = IF s.lifecycle \notin {"starting", "running"} THEN s
                             ELSE FailForbidden(Value(r))
    BY DEF EnterRecovering
  <2> QED
    BY <2>1, <2>2, ValueIsItself
<1> HIDE DEF r, S
<1>6. Gentle(r, FailSteps(r, S))
  BY <1>3, <1>4, FailStepsGentle, GentleReady
<1> QED
  BY <1>3, <1>5, <1>6, GentleItself, GentleTrans

LEMMA FailRecoveryGentle ==
  ASSUME NEW s, Ready(s), NEW S \in SUBSET PlanIds, Landed(s, S)
  PROVE Gentle(s, FailRecovery(s, S))
<1> DEFINE spent == {o \in Offers : /\ Neutralizer(o) \in S
                                    /\ s.entries[o].state # "none"
                                    /\ s.entries[o].recoveryAttempts >= MaxRecoveryAttempts}
           r == EndRecovery(s, S, spent)
           plans == [p \in PlanIds |-> IF p \in S THEN NoPlan ELSE s.plans[p]]
           entries == [o \in Offers |->
              IF o \in spent THEN [s.entries[o] EXCEPT !.stuck = TRUE] ELSE s.entries[o]]
           nonces == [n \in Nonces |->
                        IF Fill(n) \in S /\ s.nonces[n].open
                        THEN [s.nonces[n] EXCEPT !.failedFillHead = s.head] ELSE s.nonces[n]]
<1>1. Typed(r)
  BY EndRecoveryTyped DEF Ready
<1>2. /\ r.plans = plans /\ r.submissions = s.submissions /\ r.nonces = nonces
      /\ r.writes = s.writes /\ r.nextNonce = s.nextNonce /\ r.finalized = s.finalized
      /\ r.resends = s.resends /\ r.head = s.head
      /\ r.slot = SlotAfterFail(s, S) /\ r.outcome = s.outcome /\ r.entries = entries
  BY DEF EndRecovery, Ready, Typed, KernelState
<1>3. FailRecovery(s, S) = IF spent = {} THEN r ELSE EnterRecovering(r)
  BY ValueIsItself, Zenon DEF FailRecovery, MarkSpent
<1> HIDE DEF spent, r
<1>4. SameLists(s, r)
  <2> SUFFICES ASSUME NEW n \in Nonces PROVE SameRecord(s.nonces[n], nonces[n])
    BY <1>2 DEF SameLists
  <2>1. s.nonces[n] \in NonceRecord
    BY DEF Ready, Typed, KernelState
  <2> QED
    BY <2>1 DEF SameRecord, NonceRecord
<1>5. ASSUME NEW o \in Offers PROVE KeptEntry(s.entries[o], entries[o])
  <2>1. s.entries[o] \in Entry
    BY DEF Ready, Typed, KernelState
  <2>2. KeptEntry(s.entries[o], [s.entries[o] EXCEPT !.stuck = TRUE])
    BY <2>1 DEF KeptEntry, Entry
  <2> QED
    BY <2>2, KeptEntryItself
<1>6. Quiet(s, r)
  <2>1. ASSUME NEW p \in PlanIds
        PROVE QuietPlan(p, s.plans[p], plans[p]) /\ SameStatus(p, s.plans[p], plans[p])
    BY NoPlanQuiet, QuietPlanItself, NoPlanStatus, SameStatusItself DEF Ready, Typed, KernelState
  <2> HIDE DEF plans, nonces
  <2> QED
    BY <1>1, <1>2, <1>4, <2>1, PlansQuiet
<1>7. NoPlan.status = "none"
  BY DEF NoPlan
<1>8. Gentle(s, r)
  <2>1. /\ \A p \in PlanIds \ S : r.plans[p] = s.plans[p]
        /\ \A p \in S : r.plans[p].status # "executing"
    BY <1>2, <1>7
  <2>2. \A o \in Offers : KeptEntry(s.entries[o], r.entries[o])
    BY <1>2, <1>5
  <2> HIDE DEF entries, plans, nonces
  <2>3. Mild(s, r)
    BY <1>2, <2>1, <2>2, EndedMild
  <2> QED
    BY <1>6, <2>3 DEF Gentle
<1> QED
  BY <1>3, <1>8, EnterRecoveringGentle, GentleTrans, GentleReady

LEMMA FailPlansGentle ==
  ASSUME NEW s, Ready(s), NEW S \in SUBSET PlanIds, Landed(s, S)
  PROVE Gentle(s, FailPlans(s, S))
<1> DEFINE r == FailSteps(s, StepPlans(S))
<1>1. /\ StepPlans(S) \in SUBSET PlanIds /\ RecoveryPlans(S) \in SUBSET PlanIds
      /\ Landed(s, StepPlans(S)) /\ Landed(s, RecoveryPlans(S))
  BY DEF StepPlans, RecoveryPlans, Landed
<1>2. FailPlans(s, S) = FailRecovery(r, RecoveryPlans(S))
  BY ValueIsItself, Zenon DEF FailPlans
<1>3. Gentle(s, r)
  BY <1>1, FailStepsGentle
<1> HIDE DEF r
<1>4. Landed(r, RecoveryPlans(S))
  BY <1>1, <1>3, LandedKept
<1> QED
  BY <1>1, <1>2, <1>3, <1>4, FailRecoveryGentle, GentleTrans, GentleReady

LEMMA SettlePlansGentle ==
  ASSUME NEW s, Ready(s), NEW S \in SUBSET PlanIds,
         \A p \in S : s.plans[p].status = "executing" /\ s.plans[p].phase = "ready"
  PROVE Gentle(s, SettlePlans(s, S))
<1> DEFINE r == SettlePlans(s, S)
           plans == [p \in PlanIds |-> IF p \in S THEN NoPlan ELSE s.plans[p]]
<1>1. /\ r.plans = plans /\ r.slot = s.slot /\ r.outcome = s.outcome
      /\ r.entries = EntriesAfterEnd(s, S, {})
  BY DEF SettlePlans, Ready, Typed, KernelState
<1>2. NoPlan.status = "none"
  BY DEF NoPlan
<1> HIDE DEF r
<1>3. ASSUME NEW p \in PlanIds PROVE KeptPlan(p, s.plans[p], r.plans[p])
  BY <1>1, <1>2, KeptPlanItself DEF KeptPlan, InFlightPlan, Fits
<1>4. KeptSlot(s, r)
  BY <1>1 DEF KeptSlot
<1>5. \A o \in Offers : KeptEntry(s.entries[o], r.entries[o])
  BY <1>1, EntriesAfterEndKept DEF Ready, Typed
<1>6. Mild(s, r)
  BY <1>1, <1>3, <1>4, <1>5 DEF Mild
<1> QED
  BY <1>6, SettlePlansQuiet DEF Gentle, r

-----------------------------------------------------------------------------
(* Plans move, gently.                                                     *)

\* the entries, the slot and the outcome as they were
LEMMA PlansMild ==
  ASSUME NEW s, NEW r, r.slot = s.slot, r.outcome = s.outcome, r.entries = s.entries,
         \A p \in PlanIds : /\ KeptPlan(p, s.plans[p], r.plans[p])
                            /\ s.plans[p].status = "executing" /\ s.plans[p].phase = "sign"
                                 => r.plans[p] = s.plans[p] \/ s.slot # p
  PROVE Mild(s, r)
BY KeptEntryItself DEF Mild, KeptSlot

LEMMA PhaseKept ==
  ASSUME NEW p, NEW q \in Plan, NEW phase \in Phases \ {"commit", "expose"}, ~InFlightPlan(q),
         phase = "simulate" => StepsOf(p)[q.cursor].kind = "tx",
         phase = "await-slot" => StepsOf(p)[q.cursor].kind # "sign",
         phase = "sign" => StepsOf(p)[q.cursor].kind # "release"
  PROVE KeptPlan(p, q, [q EXCEPT !.phase = phase])
BY DEF KeptPlan, Fits, Plan, InFlightPlan

LEMMA AdvanceGentle ==
  ASSUME NEW s, Ready(s), NEW S \in SUBSET PlanIds,
         \A p \in S : s.plans[p].status = "executing" /\ s.plans[p].phase = "ready"
  PROVE Gentle(s, Advance(s, S))
<1> DEFINE done == {p \in S : s.plans[p].cursor > Len(StepsOf(p))}
           parked == {p \in S \ done : AtStageBoundary(s, p)}
           refused == {p \in S \ (done \cup parked) : DecisionRefused(s, p)}
           lapsed == {p \in parked : s.plans[p].doubt = "lapsed"}
           going == S \ (done \cup parked \cup refused)
           plans == [p \in PlanIds |->
                  CASE p \in parked -> [s.plans[p] EXCEPT !.phase = "awaiting-advance"]
                    [] p \in S \ (done \cup parked \cup refused) ->
                         [s.plans[p] EXCEPT !.phase = PhaseOf(Step(s, p).kind)]
                    [] OTHER -> s.plans[p]]
           moved == [s EXCEPT !.plans = plans]
<1>1. Typed(moved)
  BY MovedTyped DEF Ready
<1>2. /\ moved.plans = plans /\ moved.submissions = s.submissions /\ moved.nonces = s.nonces
      /\ moved.writes = s.writes /\ moved.nextNonce = s.nextNonce
      /\ moved.finalized = s.finalized /\ moved.resends = s.resends /\ moved.head = s.head
      /\ moved.slot = s.slot /\ moved.outcome = s.outcome /\ moved.entries = s.entries
  BY DEF Ready, Typed, KernelState
<1>3. Advance(s, S) = FailSteps(SettlePlans(moved, done), refused \cup lapsed)
  BY ValueIsItself DEF Advance, AdvanceTo
<1>4. /\ done \in SUBSET PlanIds /\ refused \cup lapsed \in SUBSET PlanIds
      /\ done \subseteq S /\ done \cap parked = {} /\ done \cap going = {}
      /\ parked \subseteq S /\ going \subseteq S /\ refused \subseteq S /\ lapsed \subseteq S
      /\ \A p \in done : plans[p] = s.plans[p]
  OBVIOUS
<1>5. ASSUME NEW p \in PlanIds
      PROVE /\ QuietPlan(p, s.plans[p], plans[p]) /\ SameStatus(p, s.plans[p], plans[p])
            /\ KeptPlan(p, s.plans[p], plans[p])
            /\ s.plans[p].phase = "sign" => plans[p] = s.plans[p]
  <2>1. s.plans[p] \in Plan
    BY DEF Ready, Typed, KernelState
  <2>2. CASE p \in parked \cup going
    <3> DEFINE phase == IF p \in parked THEN "awaiting-advance" ELSE PhaseOf(Step(s, p).kind)
               u == [s.plans[p] EXCEPT !.phase = phase]
    <3>1. phase \in Phases \ {"commit", "expose"}
      BY DEF PhaseOf, Phases
    <3>2. plans[p] = u
      BY <2>2
    <3>3. ~Attached(s.plans[p]) /\ ~InFlightPlan(s.plans[p]) /\ s.plans[p].phase # "sign"
      BY <2>2, <1>4 DEF Attached, InFlightPlan
    <3>5. /\ phase = "simulate" => StepsOf(p)[s.plans[p].cursor].kind = "tx"
          /\ phase = "await-slot" => StepsOf(p)[s.plans[p].cursor].kind # "sign"
          /\ phase = "sign" => StepsOf(p)[s.plans[p].cursor].kind # "release"
      BY DEF PhaseOf, Step
    <3> HIDE DEF phase
    <3>4. QuietPlan(p, s.plans[p], u) /\ u.exposed = s.plans[p].exposed
          /\ u.status = s.plans[p].status /\ KeptPlan(p, s.plans[p], u)
      BY <2>1, <3>1, <3>3, <3>5, PhaseQuiet, PhaseKept
    <3> HIDE DEF u, plans
    <3> QED
      BY <3>2, <3>3, <3>4, StatusKept
  <2>3. CASE p \notin parked \cup going
    <3>1. plans[p] = s.plans[p]
      BY <2>3
    <3> HIDE DEF plans
    <3> QED
      BY <2>1, <3>1, QuietPlanItself, SameStatusItself, KeptPlanItself
  <2> QED
    BY <2>2, <2>3
<1> HIDE DEF plans, done, parked, refused, lapsed, going, moved
<1>6. SameLists(s, moved)
  BY <1>2, SameRecordItself DEF SameLists
<1>7. Quiet(s, moved)
  BY <1>1, <1>2, <1>5, <1>6, PlansQuiet
<1>8. Gentle(s, moved)
  BY <1>2, <1>5, <1>7, PlansMild DEF Gentle
<1>9. \A p \in done : moved.plans[p].status = "executing" /\ moved.plans[p].phase = "ready"
  BY <1>2, <1>4
<1>10. Gentle(moved, SettlePlans(moved, done))
  BY <1>4, <1>8, <1>9, SettlePlansGentle, GentleReady
<1>11. Gentle(s, SettlePlans(moved, done))
  BY <1>8, <1>10, GentleTrans
<1>12. Landed(SettlePlans(moved, done), refused \cup lapsed)
  <2>1. Landed(s, refused \cup lapsed)
    BY <1>4 DEF Landed, InFlightPlan
  <2> QED
    BY <1>4, <1>11, <2>1, LandedKept
<1> QED
  BY <1>3, <1>4, <1>11, <1>12, FailStepsGentle, GentleTrans, GentleReady

LEMMA SettleCompensationGentle ==
  ASSUME NEW s, Ready(s)
  PROVE Gentle(s, SettleCompensation(s))
<1> DEFINE r == SettleCompensation(s)
<1>1. r.slot = s.slot /\ r.outcome = s.outcome /\ r.entries = s.entries
  BY DEF SettleCompensation, Ready, Typed, KernelState
<1>2. NoPlan.status = "none"
  BY DEF NoPlan
<1>3. ASSUME NEW p \in PlanIds
      PROVE \/ r.plans[p] = s.plans[p]
            \/ s.plans[p].status = "compensating" /\ r.plans[p] = NoPlan
  BY DEF SettleCompensation, Ready, Typed, KernelState
<1> HIDE DEF r
<1>4. ASSUME NEW p \in PlanIds
      PROVE /\ KeptPlan(p, s.plans[p], r.plans[p])
            /\ s.plans[p].status = "executing" => r.plans[p] = s.plans[p]
  BY <1>2, <1>3 DEF KeptPlan, InFlightPlan, Fits
<1>5. Mild(s, r)
  BY <1>1, <1>4, PlansMild
<1> QED
  BY <1>5, SettleCompensationQuiet DEF Gentle, r

LEMMA IncludeGentle ==
  ASSUME NEW s, Ready(s), NEW won \in SUBSET PlanIds,
         \A p \in won : s.plans[p].nonce \in Nonces /\ s.plans[p].phase = "include"
  PROVE Gentle(s, Include(s, won))
<1> DEFINE u(p) == [s.plans[p] EXCEPT !.cursor = @ + 1, !.phase = "ready", !.pending = 0,
                               !.lastInclusion = s.nonces[s.plans[p].nonce].resolution.block]
           r == Include(s, won)
<1>1. r.slot = s.slot /\ r.outcome = s.outcome /\ r.entries = s.entries
  BY DEF Include, Ready, Typed, KernelState
<1>2. \A p \in PlanIds : r.plans[p] = IF p \in won THEN u(p) ELSE s.plans[p]
  BY DEF Include, Ready, Typed, KernelState
<1>3. ASSUME NEW p \in won
      PROVE KeptPlan(p, s.plans[p], u(p))
  <2>1. s.plans[p] \in Plan /\ s.plans[p].phase = "include"
    BY DEF Ready, Typed, KernelState
  <2>2. /\ u(p).status = s.plans[p].status /\ u(p).target = s.plans[p].target
        /\ u(p).phase = "ready"
    BY <2>1 DEF Plan
  <2> HIDE DEF u
  <2> QED
    BY <2>1, <2>2 DEF KeptPlan, InFlightPlan, Fits
<1> HIDE DEF r, u
<1>4. ASSUME NEW p \in PlanIds
      PROVE /\ KeptPlan(p, s.plans[p], r.plans[p])
            /\ s.plans[p].phase = "sign" => r.plans[p] = s.plans[p]
  BY <1>2, <1>3, KeptPlanItself
<1>5. Mild(s, r)
  BY <1>1, <1>4, PlansMild
<1> QED
  BY <1>5, IncludeQuiet DEF Gentle, r

LEMMA ProgressPlansGentle ==
  ASSUME NEW s, Ready(s)
  PROVE Gentle(s, ProgressPlans(s))
<1> DEFINE c == SettleCompensation(s)
           S == {p \in InPhase(c, "include") :
                   c.plans[p].nonce \in Nonces /\ Resolved(c.nonces[c.plans[p].nonce])}
           won == Won(c, S)
           i == Include(c, won)
           a == Advance(i, won)
<1>1. ProgressPlans(s) = FailPlans(a, S \ won)
  <2>1. ProgressPlans(s) = ProgressIncluded(c)
    BY ValueIsItself DEF ProgressPlans
  <2> HIDE DEF c
  <2> QED
    BY <2>1, ValueIsItself DEF ProgressIncluded, Progressed, ProgressResolved
<1>2. Gentle(s, c)
  BY SettleCompensationGentle
<1>3. /\ S \in SUBSET PlanIds /\ won \in SUBSET PlanIds /\ S \ won \in SUBSET PlanIds
      /\ \A p \in won : /\ c.plans[p].nonce \in Nonces /\ c.plans[p].status = "executing"
                        /\ c.plans[p].phase = "include"
      /\ Landed(c, S \ won)
  BY DEF InPhase, Executing, Won, Landed, InFlightPlan
<1> HIDE DEF c, S, won
<1>4. Gentle(c, i) /\ \A p \in won : i.plans[p].status = "executing" /\ i.plans[p].phase = "ready"
  BY <1>2, <1>3, IncludeGentle, IncludeQuiet, GentleReady
<1>5. Gentle(s, i) /\ Landed(i, S \ won)
  BY <1>2, <1>3, <1>4, GentleTrans, LandedKept
<1> HIDE DEF i
<1>6. Gentle(i, a)
  BY <1>3, <1>4, AdvanceGentle, GentleReady
<1>7. Gentle(s, a) /\ Landed(a, S \ won)
  BY <1>3, <1>5, <1>6, GentleTrans, LandedKept
<1> HIDE DEF a
<1>8. Gentle(a, FailPlans(a, S \ won))
  BY <1>3, <1>7, FailPlansGentle, GentleReady
<1> QED
  BY <1>1, <1>7, <1>8, GentleTrans

LEMMA LatchBoundGentle == ASSUME NEW s, Ready(s) PROVE Gentle(s, LatchBound(s))
BY EnterRecoveringGentle, GentleItself DEF LatchBound

LEMMA CheckStartedGentle ==
  ASSUME NEW s, Ready(s)
  PROVE Gentle(s, CheckStarted(s))
<1> DEFINE since == IF s.startHead = 0 THEN s.head ELSE s.startHead
           asked == [s EXCEPT !.startHead = since]
           ran == [s EXCEPT !.startHead = 0, !.nonceChecked = FALSE, !.lifecycle = "running"]
           r == CheckStarted(s)
<1>1. r \in {s, EnterRecovering(s), asked, ran}
  BY DEF CheckStarted
<1>2. asked.plans = s.plans /\ asked.slot = s.slot /\ asked.outcome = s.outcome
      /\ asked.entries = s.entries
  BY ZenonT(60) DEF Ready, Typed, KernelState
<1>3. ran.plans = s.plans /\ ran.slot = s.slot /\ ran.outcome = s.outcome
      /\ ran.entries = s.entries
  BY ZenonT(60) DEF Ready, Typed, KernelState
<1> HIDE DEF asked, ran
<1>4. Mild(s, asked) /\ Mild(s, ran)
  BY <1>2, <1>3, SameMild
<1>5. Mild(s, EnterRecovering(s))
  BY EnterRecoveringGentle DEF Gentle
<1> HIDE DEF r
<1>6. Mild(s, r)
  BY <1>1, <1>4, <1>5, MildItself
<1> QED
  BY <1>6, CheckStartedQuiet DEF Gentle, r

-----------------------------------------------------------------------------
(* Recovery starts, gently.                                                *)

AllFit(s) == \A p \in PlanIds : Fits(p, s.plans[p])

LEMMA FitKept == ASSUME NEW s, NEW r, Mild(s, r), AllFit(s) PROVE AllFit(r)
BY DEF Mild, KeptPlan, AllFit

LEMMA MarkStuckGentle ==
  ASSUME NEW s, Ready(s), NEW S
  PROVE Gentle(s, MarkStuck(s, S)) /\ MarkStuck(s, S).plans = s.plans
<1> DEFINE r == MarkStuck(s, S)
<1>1. r.plans = s.plans /\ r.slot = s.slot /\ r.outcome = s.outcome
      /\ r.entries = [o \in Offers |->
           IF o \in S THEN [s.entries[o] EXCEPT !.stuck = TRUE] ELSE s.entries[o]]
  BY DEF MarkStuck, Ready, Typed, KernelState
<1>2. ASSUME NEW o \in Offers
      PROVE KeptEntry(s.entries[o], [s.entries[o] EXCEPT !.stuck = TRUE])
  BY DEF KeptEntry, Entry, Ready, Typed, KernelState
<1> HIDE DEF r
<1>3. \A o \in Offers : KeptEntry(s.entries[o], r.entries[o])
  BY <1>1, <1>2, KeptEntryItself
<1>4. Mild(s, r)
  BY <1>1, <1>3, EntriesMild
<1> QED
  BY <1>1, <1>4, MarkStuckQuiet DEF Gentle, r

LEMMA StartedGentle ==
  ASSUME NEW s, Ready(s), NEW new \in SUBSET PlanIds, NEW target,
         \A p \in new : /\ Recovery(p) /\ target[p[2]] \in Int
                        /\ s.plans[p].status # "executing"
                        /\ p[1] = "fill" => target[p[2]] = p[2]
  PROVE /\ Gentle(s, Started(s, new, target))
        /\ \A p \in PlanIds \ new : Started(s, new, target).plans[p] = s.plans[p]
<1> DEFINE u(p) == [NoPlan EXCEPT !.status = "executing", !.phase = "simulate",
                                  !.target = target[p[2]]]
           r == Started(s, new, target)
<1>1. r.slot = s.slot /\ r.outcome = s.outcome /\ r.entries = s.entries
  BY DEF Started, Ready, Typed, KernelState
<1>2. \A p \in PlanIds : r.plans[p] = IF p \in new THEN u(p) ELSE s.plans[p]
  BY DEF Started, Ready, Typed, KernelState
<1>3. ASSUME NEW p \in new
      PROVE KeptPlan(p, s.plans[p], u(p))
  <2>1. u(p).target = target[p[2]] /\ u(p).phase = "simulate" /\ u(p).cursor = 1
    BY DEF NoPlan
  <2>2. StepsOf(p)[1].kind = "tx"
    BY RecoveryStepIsTx
  <2> HIDE DEF u
  <2> QED
    BY <2>1, <2>2 DEF KeptPlan, InFlightPlan, Fits
<1> HIDE DEF r, u
<1>4. ASSUME NEW p \in PlanIds
      PROVE /\ KeptPlan(p, s.plans[p], r.plans[p])
            /\ s.plans[p].status = "executing" => r.plans[p] = s.plans[p]
  BY <1>2, <1>3, KeptPlanItself
<1>5. Mild(s, r)
  BY <1>1, <1>4, PlansMild
<1> QED
  BY <1>2, <1>5, StartedQuiet DEF Gentle, r

LEMMA StartNeutralizersGentle ==
  ASSUME NEW s, Ready(s), NEW S \in SUBSET Offers,
         \A o \in S : s.plans[Neutralizer(o)].status # "executing"
  PROVE Gentle(s, StartNeutralizers(s, S))
<1> DEFINE new == {Neutralizer(o) : o \in S}
           target == [o \in S |-> RecoverTarget(s, S, o)]
           entries == [o \in Offers |->
              IF o \in S THEN [s.entries[o] EXCEPT !.recoveryAttempts = @ + 1]
              ELSE s.entries[o]]
           r == [s EXCEPT !.entries = entries]
<1>1. /\ new \in SUBSET PlanIds
      /\ \A p \in new : /\ Recovery(p) /\ target[p[2]] \in Int
                        /\ s.plans[p].status # "executing" /\ p[1] # "fill"
  BY RecoverTargetTyped DEF Neutralizer, PlanIds, Recovery
<1>2. StartNeutralizers(s, S) = Started(r, new, target)
  BY DEF StartNeutralizers
<1>3. ASSUME NEW o \in Offers
      PROVE entries[o] \in Entry /\ KeptEntry(s.entries[o], entries[o])
  <2>1. s.entries[o] \in Entry
    BY DEF Ready, Typed, KernelState
  <2> DEFINE f == [s.entries[o] EXCEPT !.recoveryAttempts = @ + 1]
  <2>2. f \in Entry /\ KeptEntry(s.entries[o], f)
    BY <2>1 DEF KeptEntry, Entry
  <2>3. entries[o] \in {f, s.entries[o]}
    OBVIOUS
  <2> HIDE DEF f, entries
  <2> QED
    BY <2>1, <2>2, <2>3, KeptEntryItself
<1>4. entries \in [Offers -> Entry]
  BY <1>3
<1> HIDE DEF new, target, entries
<1>5. r.entries = entries /\ r.plans = s.plans /\ r.slot = s.slot /\ r.outcome = s.outcome
  BY DEF Ready, Typed, KernelState
<1>6. /\ r \in KernelState /\ r.submissions = s.submissions
      /\ r.nonces = s.nonces /\ r.writes = s.writes /\ r.nextNonce = s.nextNonce
      /\ r.finalized = s.finalized /\ r.resends = s.resends /\ r.head = s.head
  BY <1>4 DEF Ready, Typed, KernelState
<1> HIDE DEF r
<1>7. Quiet(s, r)
  BY <1>5, <1>6, SameQuiet, SameRecordItself DEF Ready, Typed, SameLists
<1>8. Mild(s, r)
  BY <1>3, <1>5, EntriesMild
<1>9. Gentle(s, r) /\ Ready(r)
  BY <1>7, <1>8, GentleReady DEF Gentle
<1>10. Gentle(r, Started(r, new, target))
  BY <1>1, <1>5, <1>9, StartedGentle
<1> QED
  BY <1>2, <1>9, <1>10, GentleTrans

LEMMA StartFillsGentle ==
  ASSUME NEW s, Ready(s), NEW S \in SUBSET Nonces,
         \A n \in S : s.plans[Fill(n)].status # "executing"
  PROVE Gentle(s, StartFills(s, S))
<1> DEFINE new == {Fill(n) : n \in S}
           target == [n \in S |-> n]
<1>1. /\ new \in SUBSET PlanIds
      /\ \A p \in new : /\ Recovery(p) /\ target[p[2]] \in Int
                        /\ s.plans[p].status # "executing" /\ target[p[2]] = p[2]
  BY BoundsAssumption DEF Fill, PlanIds, Recovery, Nonces
<1>2. StartFills(s, S) = Started(s, new, target)
  BY DEF StartFills
<1> HIDE DEF new, target
<1> QED
  BY <1>1, <1>2, StartedGentle

LEMMA FillsDueIdle ==
  ASSUME NEW s, Ready(s), AllFit(s), NEW n \in FillsDue(s)
  PROVE n \in Nonces /\ s.plans[Fill(n)].status # "executing"
<1>1. n \in Nonces /\ \A p \in RecoveryPlans(Executing(s)) : s.plans[p].target # n
  BY DEF FillsDue, Occupiable
<1>2. Fill(n) \in PlanIds /\ Recovery(Fill(n)) /\ Fill(n)[1] = "fill" /\ Fill(n)[2] = n
  BY <1>1 DEF Fill, PlanIds, Recovery
<1>3. SUFFICES ASSUME s.plans[Fill(n)].status = "executing" PROVE FALSE
  BY <1>1
<1>4. s.plans[Fill(n)].target = n
  BY <1>2, <1>3 DEF AllFit, Fits
<1> QED
  BY <1>1, <1>2, <1>3, <1>4 DEF RecoveryPlans, Executing

LEMMA RecoverOwedGentle ==
  ASSUME NEW s, Ready(s), AllFit(s), NEW owed \in SUBSET Offers, NEW spent, NEW ends,
         \A o \in owed : s.plans[Neutralizer(o)].status # "executing"
  PROVE Gentle(s, RecoverOwed(s, owed, spent, ends))
<1> DEFINE begin == {o \in owed \ spent : ends => \A x \in spent : o < x}
           stuck == {o \in spent : ends => Below(spent, o) = {}}
           b == StartNeutralizers(s, begin)
           r == MarkStuck(b, stuck)
<1>1. RecoverOwed(s, owed, spent, ends) =
        IF ends THEN EnterRecovering(r) ELSE StartFills(r, FillsDue(r))
  BY ValueIsItself DEF RecoverOwed, StartAndMark, AfterNeutralizers, FillDue
<1>2. begin \in SUBSET Offers /\ begin \subseteq owed
  OBVIOUS
<1> HIDE DEF begin, stuck
<1>3. Gentle(s, b)
  BY <1>2, StartNeutralizersGentle
<1>4. Gentle(b, r)
  BY <1>3, MarkStuckGentle, GentleReady
<1>5. Gentle(s, r) /\ Ready(r)
  BY <1>3, <1>4, GentleTrans, GentleReady
<1> HIDE DEF r
<1>6. AllFit(r)
  BY <1>5, FitKept DEF Gentle
<1>7. FillsDue(r) \in SUBSET Nonces
  BY DEF FillsDue
<1>8. Gentle(r, EnterRecovering(r)) /\ Gentle(r, StartFills(r, FillsDue(r)))
  BY <1>5, <1>6, <1>7, FillsDueIdle, EnterRecoveringGentle, StartFillsGentle
<1> QED
  BY <1>1, <1>5, <1>8, GentleTrans

LEMMA RecoverGentle ==
  ASSUME NEW s, Ready(s), AllFit(s)
  PROVE Gentle(s, Recover(s))
<1> DEFINE owed == {o \in Offers : OwesNeutralizer(s, o)}
           spent == Spent(s, owed)
           ends == s.lifecycle = "running" /\ spent # {}
<1>1. Recover(s) \in {s, RecoverOwed(s, owed, spent, ends)}
  BY DEF Recover, RecoverSome, RecoverAll
<1>2. /\ owed \in SUBSET Offers
      /\ \A o \in owed : s.plans[Neutralizer(o)].status # "executing"
  BY DEF OwesNeutralizer
<1> HIDE DEF owed, spent, ends
<1>3. Gentle(s, RecoverOwed(s, owed, spent, ends))
  BY <1>2, RecoverOwedGentle
<1> QED
  BY <1>1, <1>3, GentleItself

-----------------------------------------------------------------------------
(* The end of an event, gently.                                            *)

LEMMA SimulateAgainGentle ==
  ASSUME NEW s, Ready(s), NEW S \in SUBSET PlanIds,
         \A p \in S : /\ s.plans[p].cursor \in DOMAIN StepsOf(p) /\ ~Attached(s.plans[p])
                      /\ Step(s, p).kind = "tx"
                      /\ s.plans[p].phase = "sign" => s.slot # p
  PROVE Gentle(s, SimulateAgain(s, S))
<1> DEFINE u(p) == [s.plans[p] EXCEPT !.phase = "simulate"]
           r == SimulateAgain(s, S)
<1>1. r.slot = s.slot /\ r.outcome = s.outcome /\ r.entries = s.entries
  BY DEF SimulateAgain, Ready, Typed, KernelState
<1>2. \A p \in PlanIds : r.plans[p] = IF p \in S THEN u(p) ELSE s.plans[p]
  BY DEF SimulateAgain, Ready, Typed, KernelState
<1>3. ASSUME NEW p \in S
      PROVE KeptPlan(p, s.plans[p], u(p))
  <2>1. /\ s.plans[p] \in Plan /\ "simulate" \in Phases \ {"commit", "expose"}
        /\ ~InFlightPlan(s.plans[p]) /\ StepsOf(p)[s.plans[p].cursor].kind = "tx"
    BY DEF Ready, Typed, KernelState, Phases, InFlightPlan, Attached, Step
  <2> QED
    BY <2>1, PhaseKept
<1> HIDE DEF r, u
<1>4. ASSUME NEW p \in PlanIds
      PROVE /\ KeptPlan(p, s.plans[p], r.plans[p])
            /\ s.plans[p].phase = "sign" => r.plans[p] = s.plans[p] \/ s.slot # p
  BY <1>2, <1>3, KeptPlanItself
<1>5. Mild(s, r)
  BY <1>1, <1>4, PlansMild
<1> QED
  BY <1>5, SimulateAgainQuiet DEF Gentle, r

LEMMA WaitingGentle ==
  ASSUME NEW s, Ready(s), AllFit(s), NEW p \in InPhase(s, "await-slot")
  PROVE /\ p \in PlanIds /\ s.plans[p].cursor \in DOMAIN StepsOf(p)
        /\ ~Attached(s.plans[p]) /\ ~InFlightPlan(s.plans[p])
        /\ s.plans[p].status = "executing" /\ s.plans[p].phase = "await-slot"
        /\ ~Releasing(s, p) => Step(s, p).kind = "tx"
        /\ Recovery(p) => Step(s, p).kind = "tx"
<1>1. /\ p \in PlanIds /\ s.plans[p].cursor \in DOMAIN StepsOf(p)
      /\ ~Attached(s.plans[p]) /\ ~InFlightPlan(s.plans[p])
      /\ s.plans[p].status = "executing" /\ s.plans[p].phase = "await-slot"
  BY WaitingQuiet DEF InPhase, InFlightPlan
<1>2. Step(s, p).kind \in {"sign", "tx", "release"}
  <2>1. StepsOf(p) \in Seq(StepSpec)
    BY <1>1, StepsTyped
  <2>2. Step(s, p) \in StepSpec
    BY <1>1, <2>1, ElementOfSeq DEF Step
  <2> QED
    BY <2>2 DEF StepSpec
<1>3. Step(s, p).kind # "sign"
  BY <1>1 DEF AllFit, Fits, Step
<1>4. Recovery(p) => Step(s, p).kind = "tx"
  BY <1>1, RecoveryStepIsTx DEF Step
<1> QED
  BY <1>1, <1>2, <1>3, <1>4 DEF Releasing

LEMMA PassRecoveriesGentle ==
  ASSUME NEW s, Ready(s), AllFit(s), NEW S \in SUBSET RecoveryPlans(InPhase(s, "await-slot"))
  PROVE Gentle(s, PassRecoveries(s, S))
<1> DEFINE again == {p \in S : ~SimFresh(s, p)}
           lost == {p \in S : Lost(s, p)}
           r == SimulateAgain(s, again)
<1>1. PassRecoveries(s, S) = FailRecovery(r, lost)
  BY ValueIsItself DEF PassRecoveries
<1>2. /\ again \in SUBSET PlanIds /\ lost \in SUBSET PlanIds
      /\ \A p \in again : /\ s.plans[p].cursor \in DOMAIN StepsOf(p) /\ ~Attached(s.plans[p])
                          /\ s.plans[p].phase # "sign" /\ Step(s, p).kind = "tx"
      /\ Landed(s, lost)
  BY WaitingGentle DEF RecoveryPlans, Landed
<1> HIDE DEF again, lost
<1>3. Gentle(s, r) /\ Landed(r, lost)
  BY <1>2, SimulateAgainGentle, LandedKept
<1> HIDE DEF r
<1> QED
  BY <1>1, <1>2, <1>3, FailRecoveryGentle, GentleTrans, GentleReady

LEMMA PassStepsGentle ==
  ASSUME NEW s, Ready(s), AllFit(s), NEW S \in SUBSET InPhase(s, "await-slot"), NEW allowed
  PROVE Gentle(s, PassSteps(s, S, allowed))
<1> DEFINE again == {p \in S \cap allowed : ~Releasing(s, p) /\ ~SimFresh(s, p)}
           r == SimulateAgain(s, again)
<1>1. PassSteps(s, S, allowed) = FailSteps(r, S \ allowed)
  BY ValueIsItself DEF PassSteps
<1>2. /\ again \in SUBSET PlanIds /\ S \ allowed \in SUBSET PlanIds
      /\ \A p \in again : /\ s.plans[p].cursor \in DOMAIN StepsOf(p) /\ ~Attached(s.plans[p])
                          /\ s.plans[p].phase # "sign" /\ Step(s, p).kind = "tx"
      /\ Landed(s, S \ allowed)
  BY WaitingGentle DEF Landed
<1> HIDE DEF again
<1>3. Gentle(s, r) /\ Landed(r, S \ allowed)
  BY <1>2, SimulateAgainGentle, LandedKept
<1> HIDE DEF r
<1> QED
  BY <1>1, <1>2, <1>3, FailStepsGentle, GentleTrans, GentleReady

LEMMA StopGentle ==
  ASSUME NEW s, Ready(s), NEW outcome \in {"unsafe", "refused"}
  PROVE Gentle(s, Stop(s, outcome))
<1> DEFINE r == Stop(s, outcome)
<1>1. r.plans = s.plans /\ r.slot = s.slot /\ r.outcome = outcome /\ r.entries = s.entries
  BY DEF Stop, Ready, Typed, KernelState
<1> HIDE DEF r
<1>2. Mild(s, r)
  BY <1>1, KeptEntryItself, KeptPlanItself DEF Mild, KeptSlot
<1> QED
  BY <1>2, StopQuiet DEF Gentle, r

LEMMA PruneFinishedGentle ==
  ASSUME NEW s, Ready(s)
  PROVE Gentle(s, PruneFinished(s))
<1> DEFINE r == PruneFinished(s)
<1>1. r.plans = s.plans /\ r.slot = s.slot /\ r.outcome = s.outcome /\ r.entries = s.entries
  BY DEF PruneFinished, Ready, Typed, KernelState
<1> HIDE DEF r
<1>2. Mild(s, r)
  BY <1>1, SameMild
<1> QED
  BY <1>2, PruneFinishedQuiet DEF Gentle, r

LEMMA RebroadcastMild ==
  ASSUME NEW s, Typed(s)
  PROVE Mild(s, Rebroadcast(s))
<1> DEFINE r == Rebroadcast(s)
<1>1. r.plans = s.plans /\ r.slot = s.slot /\ r.outcome = s.outcome /\ r.entries = s.entries
  BY DEF Rebroadcast, Typed, KernelState
<1> HIDE DEF r
<1> QED
  BY <1>1, SameMild DEF r

-----------------------------------------------------------------------------
(* Whom the kernel waits for.                                              *)

\* p holds the slot for good reason
Occupies(s, p) ==
  /\ s.plans[p].status = "executing"
  /\ \/ s.plans[p].phase \in {"commit", "expose"}
     \/ s.plans[p].phase = "sign" /\ Step(s, p).kind = "tx"

\* in the course of an event: the write a commit waits for is issued, or about to be
Works(s) ==
  /\ AllFit(s)
  /\ \A p \in InPhase(s, "commit") : s.plans[p].flush \in 1 .. Len(s.writes) + 1
  /\ s.slot \in PlanIds => Occupies(s, s.slot)
  /\ s.slot = Committing => InPhase(s, "commit") # {}

\* plans in flight in r already were in s
Back(s, r) ==
  \A p \in PlanIds : LET q == s.plans[p]
                         u == r.plans[p]
                     IN InFlightPlan(u) => /\ InFlightPlan(q) /\ u.phase = q.phase
                                           /\ u.cursor = q.cursor /\ u.flush = q.flush

LEMMA OccupiesKept ==
  ASSUME NEW s, NEW r, Mild(s, r), NEW p \in PlanIds, r.slot = p, Occupies(s, p)
  PROVE Occupies(r, p)
<1>1. CASE InFlightPlan(s.plans[p])
  BY <1>1 DEF Occupies, Mild, KeptPlan, InFlightPlan
<1>2. CASE s.plans[p].phase = "sign"
  <2>1. /\ r.plans[p].status = "executing" /\ r.plans[p].phase = "sign"
        /\ r.plans[p].cursor = s.plans[p].cursor
    BY <1>2 DEF Mild, KeptSlot, Occupies
  <2> QED
    BY <1>2, <2>1 DEF Occupies, Step
<1> QED
  BY <1>1, <1>2 DEF Occupies, InFlightPlan

LEMMA WorksKept ==
  ASSUME NEW s, NEW r, Works(s), Mild(s, r), Back(s, r), r.writes = s.writes
  PROVE Works(r)
<1>1. AllFit(r)
  BY FitKept DEF Works
<1>2. \A p \in InPhase(r, "commit") : /\ p \in InPhase(s, "commit")
                                      /\ r.plans[p].flush = s.plans[p].flush
  BY DEF Back, InFlightPlan, InPhase, Executing
<1>3. ASSUME r.slot \in PlanIds PROVE Occupies(r, r.slot)
  <2>1. r.slot = s.slot
    BY <1>3, NotPlans DEF Mild, KeptSlot
  <2> QED
    BY <1>3, <2>1, OccupiesKept DEF Works
<1>4. ASSUME r.slot = Committing PROVE InPhase(r, "commit") # {}
  <2>1. s.slot = Committing
    BY <1>4 DEF Mild, KeptSlot, Free, Committing
  <2>2. PICK p : p \in InPhase(s, "commit")
    BY <2>1 DEF Works
  <2>3. p \in InPhase(r, "commit")
    BY <2>2 DEF Mild, KeptPlan, InFlightPlan, InPhase, Executing
  <2> QED
    BY <2>3
<1> QED
  BY <1>1, <1>2, <1>3, <1>4 DEF Works

-----------------------------------------------------------------------------
(* The offers that can still be consumed.                                  *)

\* nobody can consume o any more, whatever reorg comes
OverOn(ch, o) ==
  \/ ch.head - FinalityLag > Expiry[o]
  \/ \E n \in Nonces : FinalOn(ch, n) /\ NeutralizedBy(ch.mined[n + 1], o)
\* t will never make anything
DeadOn(ch, t) ==
  /\ FinalOn(ch, t.nonce)
  /\ ch.mined[t.nonce + 1].tx # t \/ ch.mined[t.nonce + 1].outcome = "reverted"
\* o exists, or may, because of t
Makes(ch, t, o) == Carries(t, o) /\ (Exposure[o] = "broadcast" \/ ~DeadOn(ch, t))

HashOf(t) == <<t.nonce, t.place>>
\* l counts t among the creators of o that may live, and takes no other for it
Shielded(l, t, o) ==
  /\ HashOf(t) \in l.entries[o].creators \ l.entries[o].deadCreators
  /\ \A u \in Listed(l) : HashOf(u) = HashOf(t) /\ Carries(u, o) => u = t
Covered(l, t, o) ==
  /\ l.entries[o].state \in Held
  /\ Exposure[o] = "inclusion" => Shielded(l, t, o)

\* ledger l holds every offer that is released, or that a transaction in X or of its own makes
Aimed(t) == t.step \in DOMAIN StepsOf(t.plan)
CoversOffer(ch, l, R, X, o) ==
  /\ Exposure[o] = "broadcast" /\ o \in R => l.entries[o].state \in Held
  /\ \A t \in X \cup Listed(l) : Makes(ch, t, o) => Covered(l, t, o)
Covers(ch, l, R, X) ==
  /\ \A t \in Listed(l) : Aimed(t)
  /\ \A o \in Offers : ~OverOn(ch, o) => CoversOffer(ch, l, R, X, o)

\* what a plan is about to release is held by every ledger that matters when it does
Releasable(s, d, p, o) ==
  /\ s.entries[o].state \in Held
  /\ \A w \in DOMAIN s.writes :
       w >= s.plans[p].flush \/ s.plans[p].phase = "expose" => s.writes[w].entries[o].state \in Held
  /\ s.plans[p].phase = "expose" => d.entries[o].state \in Held
Releases(s, d, ch) ==
  \A p \in PlanIds : InFlightPlan(s.plans[p]) /\ Step(s, p).kind # "tx" =>
     \A o \in Step(s, p).exposes :
        Exposure[o] = "broadcast" /\ ~OverOn(ch, o) => Releasable(s, d, p, o)

\* what was not exposed has no creators
Fresh(s) ==
  \A o \in Offers : s.entries[o].state \in {"intended", "signed"} =>
     s.entries[o].creators = {} /\ s.entries[o].deadCreators = {}

\* what s takes for the outcome of a nonce is, and no step of a submission won it unseen
SeenNonce(s, ch, n) ==
  LET r == s.nonces[n]
      w == r.resolution.winner
      m == ch.mined[n + 1]
  IN Resolved(r) =>
       /\ w # 0 => /\ w \in DOMAIN r.candidates
                   /\ m.tx = TxAt(n, w, r.candidates[w]) /\ m.outcome = r.resolution.outcome
       /\ w = 0 => /\ r.resolution.outcome = "foreign"
                   /\ \A c \in DOMAIN r.candidates :
                        ~Recovery(r.candidates[c].plan) => m.tx # TxAt(n, c, r.candidates[c])
\* and what it has seen neutralized was, by the block at which it looked
SeenEntry(s, ch, o) ==
  s.entries[o].neutralized =>
    /\ s.head # 0
    /\ \E n \in Nonces : /\ n < Len(ch.mined) /\ NeutralizedBy(ch.mined[n + 1], o)
                         /\ ch.mined[n + 1].block <= s.entries[o].observed
Witnessed(s, ch) ==
  (\A n \in Nonces : SeenNonce(s, ch, n)) /\ \A o \in Offers : SeenEntry(s, ch, o)

\* nothing of it was seen on the chain, and what was not exposed has no creators
Plain(l) == Fresh(l) /\ \A o \in Offers : ~l.entries[o].neutralized

\* the file and the writes on their way
Stored(s, d, N, R, ch) ==
  /\ Covers(ch, d, R, Outside(s, N)) /\ Plain(d)
  /\ \A w \in DOMAIN s.writes : Covers(ch, s.writes[w], R, Outside(s, N)) /\ Plain(s.writes[w])
Offered(s, d, N, R, ch) ==
  /\ Works(s) /\ Stored(s, d, N, R, ch) /\ Covers(ch, s, R, Outside(s, N))
  /\ Releases(s, d, ch) /\ Fresh(s) /\ Witnessed(s, ch)

-----------------------------------------------------------------------------
(* Steps that keep all of it.                                              *)

\* b is a without its resolution, with other answers, or gone
FewerRecord(a, b) ==
  \/ SameTxs(a, b) /\ b.resolution \in {a.resolution, Unresolved}
  \/ b = NoRecord

Tame(s, r) ==
  /\ Mild(s, r) /\ Back(s, r) /\ r.writes = s.writes /\ r.resends \subseteq s.resends
  /\ \A n \in Nonces : FewerRecord(s.nonces[n], r.nonces[n])
  /\ s.head # 0 => r.head # 0

LEMMA FewerListed ==
  ASSUME NEW s, NEW r, \A n \in Nonces : FewerRecord(s.nonces[n], r.nonces[n])
  PROVE Listed(r) \subseteq Listed(s)
<1> SUFFICES ASSUME NEW n \in Nonces, NEW c \in DOMAIN r.nonces[n].candidates
             PROVE TxAt(n, c, r.nonces[n].candidates[c]) \in Listed(s)
  BY DEF Listed
<1>1. SameTxs(s.nonces[n], r.nonces[n])
  BY EmptySeq DEF FewerRecord, NoRecord
<1> QED
  BY <1>1 DEF SameTxs, Listed, TxAt

LEMMA CoversKept ==
  ASSUME NEW ch, NEW l, NEW m, NEW R, NEW X, NEW Y, Covers(ch, l, R, X),
         Listed(m) \subseteq Listed(l), Y \subseteq X \cup Listed(l),
         \A o \in Offers : LET e == l.entries[o]
                               f == m.entries[o]
                           IN e.state \in Held => /\ f.state \in Held /\ f.creators = e.creators
                                                  /\ f.deadCreators = e.deadCreators
  PROVE Covers(ch, m, R, Y)
<1> SUFFICES ASSUME NEW o \in Offers, ~OverOn(ch, o) PROVE CoversOffer(ch, m, R, Y, o)
  BY DEF Covers
<1>1. Exposure[o] = "broadcast" /\ o \in R => m.entries[o].state \in Held
  BY DEF Covers, CoversOffer
<1>2. ASSUME NEW t \in Y \cup Listed(m), Makes(ch, t, o) PROVE Covered(m, t, o)
  <2>1. t \in X \cup Listed(l)
    OBVIOUS
  <2>2. Covered(l, t, o)
    BY <1>2, <2>1 DEF Covers, CoversOffer
  <2> QED
    BY <2>2 DEF Covered, Shielded
<1> QED
  BY <1>1, <1>2 DEF CoversOffer

LEMMA ReleasesKept ==
  ASSUME NEW s, NEW r, NEW d, NEW ch, Releases(s, d, ch), Back(s, r), r.writes = s.writes,
         \A o \in Offers : Exposure[o] = "broadcast" /\ ~OverOn(ch, o)
                           /\ s.entries[o].state \in Held => r.entries[o].state \in Held,
         \A p \in PlanIds : InFlightPlan(s.plans[p]) => s.plans[p].cursor \in DOMAIN StepsOf(p)
  PROVE Releases(r, d, ch)
<1> SUFFICES ASSUME NEW p \in PlanIds, InFlightPlan(r.plans[p]), Step(r, p).kind # "tx",
                    NEW o \in Step(r, p).exposes, Exposure[o] = "broadcast", ~OverOn(ch, o)
             PROVE Releasable(r, d, p, o)
  BY DEF Releases
<1>1. /\ InFlightPlan(s.plans[p]) /\ r.plans[p].phase = s.plans[p].phase
      /\ r.plans[p].cursor = s.plans[p].cursor /\ r.plans[p].flush = s.plans[p].flush
  BY DEF Back
<1>2. Step(r, p) = Step(s, p)
  BY <1>1 DEF Step
<1>3. Releasable(s, d, p, o)
  BY <1>1, <1>2 DEF Releases
<1>4. o \in Offers
  <2>1. StepsOf(p) \in Seq(StepSpec)
    BY StepsTyped
  <2>2. Step(s, p) \in StepSpec
    BY <1>1, <2>1, ElementOfSeq DEF Step
  <2> QED
    BY <1>2, <2>2 DEF StepSpec
<1> QED
  BY <1>1, <1>3, <1>4 DEF Releasable

LEMMA InFlightPlaced ==
  ASSUME NEW s, Typed(s), NEW p \in PlanIds, InFlightPlan(s.plans[p])
  PROVE s.plans[p].cursor \in DOMAIN StepsOf(p)
BY DEF Typed, Placed, InFlightPlan, Working

LEMMA SeenNonceKept ==
  ASSUME NEW s, NEW r, NEW ch, NEW n \in Nonces, FewerRecord(s.nonces[n], r.nonces[n]),
         SeenNonce(s, ch, n)
  PROVE SeenNonce(r, ch, n)
<1> SUFFICES ASSUME Resolved(r.nonces[n]) PROVE SeenNonce(r, ch, n)
  BY DEF SeenNonce
<1>1. SameTxs(s.nonces[n], r.nonces[n]) /\ r.nonces[n].resolution = s.nonces[n].resolution
  BY DEF FewerRecord, Resolved, NoRecord, Unresolved
<1>2. Resolved(s.nonces[n])
  BY <1>1 DEF Resolved
<1> DEFINE a == s.nonces[n]
           u == r.nonces[n]
           w == a.resolution.winner
           m == ch.mined[n + 1]
<1>3. /\ w # 0 => /\ w \in DOMAIN a.candidates
                  /\ m.tx = TxAt(n, w, a.candidates[w]) /\ m.outcome = a.resolution.outcome
      /\ w = 0 => /\ a.resolution.outcome = "foreign"
                  /\ \A c \in DOMAIN a.candidates :
                       ~Recovery(a.candidates[c].plan) => m.tx # TxAt(n, c, a.candidates[c])
  BY <1>2 DEF SeenNonce
<1>4. /\ DOMAIN u.candidates = DOMAIN a.candidates /\ u.resolution = a.resolution
      /\ \A c \in DOMAIN a.candidates : /\ u.candidates[c].plan = a.candidates[c].plan
                                        /\ TxAt(n, c, u.candidates[c]) = TxAt(n, c, a.candidates[c])
  BY <1>1 DEF SameTxs, TxAt
<1> HIDE DEF a, u
<1>5. /\ w # 0 => /\ w \in DOMAIN u.candidates
                  /\ m.tx = TxAt(n, w, u.candidates[w]) /\ m.outcome = u.resolution.outcome
  BY <1>3, <1>4
<1>6. w = 0 => /\ u.resolution.outcome = "foreign"
              /\ \A c \in DOMAIN u.candidates :
                   ~Recovery(u.candidates[c].plan) => m.tx # TxAt(n, c, u.candidates[c])
  BY <1>3, <1>4
<1>7. u.resolution.winner = w
  BY <1>4
<1> HIDE DEF w
<1> QED
  BY <1>5, <1>6, <1>7 DEF SeenNonce, u, m

LEMMA TameOffered ==
  ASSUME NEW s, NEW r, NEW d, NEW N, NEW R, NEW ch, Typed(s), Offered(s, d, N, R, ch), Tame(s, r)
  PROVE Offered(r, d, N, R, ch)
<1>1. Works(r)
  BY WorksKept DEF Tame, Offered
<1>2. Listed(r) \subseteq Listed(s)
  BY FewerListed DEF Tame
<1>3. Outside(r, N) \subseteq Outside(s, N)
  BY DEF Tame, Outside
<1>4. \A o \in Offers : KeptEntry(s.entries[o], r.entries[o])
  BY DEF Tame, Mild
<1>5. Covers(ch, r, R, Outside(r, N))
  BY <1>2, <1>3, <1>4, CoversKept DEF KeptEntry, Offered
<1>6. Covers(ch, d, R, Outside(r, N))
  BY <1>3, CoversKept DEF Offered, Stored
<1>7. \A w \in DOMAIN s.writes : Covers(ch, s.writes[w], R, Outside(r, N))
  BY <1>3, CoversKept DEF Offered, Stored
<1>8. Releases(r, d, ch)
  BY <1>4, InFlightPlaced, ReleasesKept DEF Offered, Tame, KeptEntry
<1>9. Fresh(r)
  BY <1>4 DEF KeptEntry, Fresh, Offered
<1>10. Witnessed(r, ch)
  <2>1. \A n \in Nonces : SeenNonce(r, ch, n)
    BY SeenNonceKept DEF Tame, Offered, Witnessed
  <2>2. \A o \in Offers : SeenEntry(r, ch, o)
    BY <1>4 DEF Tame, KeptEntry, SeenEntry, Offered, Witnessed
  <2> QED
    BY <2>1, <2>2 DEF Witnessed
<1>11. r.writes = s.writes
  BY DEF Tame
<1> QED
  BY <1>1, <1>5, <1>6, <1>7, <1>8, <1>9, <1>10, <1>11 DEF Offered, Stored

LEMMA QuietBack == ASSUME NEW s, NEW r, Quiet(s, r) PROVE Back(s, r)
BY DEF Quiet, Calm, QuietPlan, Back, InFlightPlan

LEMMA GentleTame == ASSUME NEW s, NEW r, Gentle(s, r) PROVE Tame(s, r)
<1>1. \A n \in Nonces : FewerRecord(s.nonces[n], r.nonces[n])
  BY DEF Gentle, Quiet, Calm, SameLists, SameRecord, FewerRecord, SameTxs
<1> QED
  BY <1>1, QuietBack DEF Gentle, Tame, Quiet, Calm, SameLists

LEMMA GentleOffered ==
  ASSUME NEW s, NEW r, NEW d, NEW N, NEW R, NEW ch, Typed(s), Offered(s, d, N, R, ch),
         Gentle(s, r)
  PROVE Offered(r, d, N, R, ch)
BY GentleTame, TameOffered

-----------------------------------------------------------------------------
(* What the evidence settles.                                              *)

Chains == [head : Nat, mined : Seq(Mined)]

LEMMA NoSuchTx ==
  /\ \A n, c, u : TxAt(n, c, u) = Foreign => u.plan = Free
  /\ Free \notin PlanIds
BY NotPlans DEF TxAt, Foreign

\* a nonce that s takes for final is
LEMMA FinalIsFinal ==
  ASSUME NEW s, Typed(s), NEW ch \in Chains, Evidence(s, ch), NEW n \in Nonces,
         IsFinal(s, s.nonces[n])
  PROVE FinalOn(ch, n)
<1>1. s.nonces[n].resolution.block \in Nat /\ s.finalized \in Int
  BY DEF Typed, KernelState, NonceRecord, Resolution
<1>2. /\ s.nonces[n].resolution.block # 0 /\ s.nonces[n].resolution.block <= s.finalized
      /\ n < Len(ch.mined) /\ ch.mined[n + 1].block = s.nonces[n].resolution.block
      /\ s.finalized = -1 \/ s.finalized <= ch.head - FinalityLag
  BY DEF IsFinal, Resolved, Evidence
<1> DEFINE block == s.nonces[n].resolution.block
<1>3. block \in Nat /\ block # 0 /\ block <= s.finalized
  BY <1>1, <1>2
<1>4. ch.head - FinalityLag \in Int
  BY BoundsAssumption DEF Chains
<1> HIDE DEF block
<1>5. block <= ch.head - FinalityLag
  BY <1>1, <1>2, <1>3, <1>4
<1> QED
  BY <1>2, <1>5 DEF FinalOn, block

\* what neutralized o for good, as s sees it, did
LEMMA NeutralizedIsOver ==
  ASSUME NEW s, Typed(s), NEW ch \in Chains, Evidence(s, ch), Witnessed(s, ch),
         NEW o \in Offers, NEW lost,
         Neutralized(s, o, s.entries[o], ResolvedHashes(s), lost)
  PROVE OverOn(ch, o)
<1>1. PICK h \in ResolvedHashes(s) : /\ o \in StepAt(s, h).retires
                                     /\ Executed(s.nonces[h[1]], h[2])
                                     /\ IsFinal(s, s.nonces[h[1]])
  BY DEF Neutralized
<1>2. PICK n \in Nonces : /\ Resolved(s.nonces[n])
                          /\ h \in {<<n, c>> : c \in DOMAIN s.nonces[n].candidates}
  BY DEF ResolvedHashes
<1>3. PICK c \in DOMAIN s.nonces[n].candidates : h = <<n, c>>
  BY <1>2
<1> DEFINE r == s.nonces[n]
           u == r.candidates[c]
           m == ch.mined[n + 1]
<1>4. h[1] = n /\ h[2] = c
  BY <1>3
<1>5. FinalOn(ch, n)
  BY <1>1, <1>4, FinalIsFinal
<1>6. r.candidates \in Seq(Candidate)
  BY DEF Typed, KernelState, NonceRecord
<1>7. u \in Candidate /\ c # 0
  BY <1>6, ElementOfSeq, LenProperties
<1>8. r.resolution.winner = c /\ r.resolution.outcome = "executed"
  BY <1>1, <1>4 DEF Executed
<1>9. m.tx = TxAt(n, c, u) /\ m.outcome = "executed"
  BY <1>2, <1>7, <1>8 DEF Witnessed, SeenNonce
<1>10. o \in StepsOf(u.plan)[u.step].retires
  BY <1>1, <1>4 DEF StepAt, CandidateStep
<1>11. m.tx # Foreign /\ m.tx.plan = u.plan /\ m.tx.step = u.step
  BY <1>7, <1>9, NoSuchTx DEF TxAt, Candidate
<1> HIDE DEF m, u
<1>12. NeutralizedBy(m, o)
  BY <1>9, <1>10, <1>11 DEF NeutralizedBy
<1> QED
  BY <1>5, <1>12 DEF OverOn, m

\* a transaction that makes o is not among those that failed to
LEMMA MakersRan ==
  ASSUME NEW s, Typed(s), NEW ch \in Chains, Evidence(s, ch), Witnessed(s, ch),
         NEW o \in Offers, Exposure[o] = "inclusion", NEW t, Makes(ch, t, o), Shielded(s, t, o),
         \A u \in Listed(s) : Aimed(u)
  PROVE HashOf(t) \notin Failed(s, o, ResolvedHashes(s))
<1> SUFFICES ASSUME HashOf(t) \in Failed(s, o, ResolvedHashes(s)) PROVE FALSE
  OBVIOUS
<1> DEFINE h == HashOf(t)
<1>1. /\ h \in ResolvedHashes(s) /\ o \in StepAt(s, h).creates
      /\ ~Ran(s.nonces[h[1]], h[2]) /\ IsFinal(s, s.nonces[h[1]])
  BY DEF Failed
<1>2. PICK n \in Nonces : /\ Resolved(s.nonces[n])
                          /\ h \in {<<n, c>> : c \in DOMAIN s.nonces[n].candidates}
  BY <1>1 DEF ResolvedHashes
<1>3. PICK c \in DOMAIN s.nonces[n].candidates : h = <<n, c>>
  BY <1>2
<1> DEFINE r == s.nonces[n]
           u == TxAt(n, c, r.candidates[c])
           m == ch.mined[n + 1]
           w == r.resolution.winner
<1>4. h[1] = n /\ h[2] = c /\ t.nonce = n /\ t.place = c
  BY <1>3 DEF HashOf
<1>5. FinalOn(ch, n) /\ ~Ran(r, c)
  BY <1>1, <1>4, FinalIsFinal
<1>6. u \in Listed(s) /\ u.nonce = n /\ u.place = c
  BY DEF Listed, TxAt
<1>7. o \in StepsOf(u.plan)[u.step].creates
  BY <1>1, <1>4 DEF StepAt, CandidateStep, TxAt
<1>8. Carries(u, o)
  BY <1>7 DEF Carries
<1>9. u = t
  BY <1>4, <1>6, <1>8 DEF Shielded, HashOf
<1>10. ~DeadOn(ch, t)
  BY DEF Makes
<1>11. m.tx = u /\ m.outcome # "reverted"
  BY <1>4, <1>5, <1>9, <1>10 DEF DeadOn
<1>12. ~Recovery(r.candidates[c].plan)
  <2>1. r.candidates[c].plan = u.plan
    BY DEF TxAt
  <2>2. ASSUME Recovery(u.plan) PROVE FALSE
    <3>1. StepsOf(u.plan) = <<RecoveryStep(u.plan)>>
      BY <2>2 DEF StepsOf
    <3>2. u.step = 1
      BY <1>6, <3>1 DEF Aimed
    <3> QED
      BY <1>7, <3>1, <3>2 DEF RecoveryStep
  <2> QED
    BY <2>1, <2>2
<1>13. w # 0
  BY <1>2, <1>11, <1>12 DEF Witnessed, SeenNonce
<1>14. w \in DOMAIN r.candidates /\ u = TxAt(n, w, r.candidates[w]) /\ r.resolution.outcome = m.outcome
  BY <1>2, <1>11, <1>13 DEF Witnessed, SeenNonce
<1>15. w = c
  BY <1>6, <1>14 DEF TxAt
<1>16. r.resolution.outcome \in {"executed", "unconfirmed"}
  <2>1. r.resolution.outcome \in Outcomes
    BY DEF Typed, KernelState, NonceRecord, Resolution
  <2>2. m \in Mined
    <3>1. n + 1 \in DOMAIN ch.mined /\ ch.mined \in Seq(Mined)
      BY <1>5, BoundsAssumption, LenProperties DEF FinalOn, Chains, Nonces
    <3> QED
      BY <3>1, ElementOfSeq DEF m
  <2> QED
    BY <1>11, <1>14, <2>1, <2>2 DEF Mined
<1> QED
  BY <1>5, <1>15, <1>16 DEF Ran

\* what the evidence does to an entry that it does not retire
SettledKept(ch, s, e, f, o) ==
  /\ Exposure[o] = "broadcast" /\ e.state \in Held => f.state \in Held
  /\ Exposure[o] = "inclusion" => \A t : Makes(ch, t, o) /\ Covered(s, t, o) =>
       f.state \in Held /\ HashOf(t) \in f.creators \ f.deadCreators

LEMMA HandedBackHeld ==
  ASSUME NEW e \in Entry, NEW lost
  PROVE LET f == HandedBack(e, lost)
        IN /\ f.state = e.state \/ (lost /\ f.state \in OpenEntry)
           /\ f.creators = e.creators /\ f.deadCreators = e.deadCreators
           /\ f.neutralized = e.neutralized /\ f.observed = e.observed /\ f \in Entry
<1>1. CASE lost
  BY <1>1 DEF HandedBack, Entry, NoHash, Hash, OpenEntry, EntryStates
<1>2. CASE ~lost
  BY <1>2 DEF HandedBack
<1> QED
  BY <1>1, <1>2

LEMMA LiveHeld ==
  ASSUME NEW s, NEW e \in Entry, NEW last
  PROVE LET f == Live(s, e, last)
        IN /\ f.state = e.state \/ (e.state = "exposed" /\ f.state = "live")
           /\ f.creators = e.creators /\ f.deadCreators = e.deadCreators
           /\ f.neutralized = e.neutralized /\ f.observed = e.observed
           /\ DOMAIN f = DOMAIN e
BY DEF Live, Entry

\* what applyRetires and applyCreation can make of e
AfterApplying(s, o, e, H, lost, dead, f) ==
  \/ f = Retired(e)
     /\ \/ Neutralized(s, o, e, H, lost)
        \/ dead # {} /\ e.creators \subseteq e.deadCreators \cup dead
  \/ e.state \in {"none", "retired"} /\ f = e
  \/ /\ e.state \in Held => f.state \in Held
     /\ e.state \notin Held => f.state = e.state
     /\ f.creators = e.creators /\ f.deadCreators = e.deadCreators \cup dead
     /\ f.neutralized = e.neutralized /\ f.observed = e.observed
     /\ dead = {} \/ ~(e.creators \subseteq e.deadCreators \cup dead)

LEMMA AppliedKept ==
  ASSUME NEW s, NEW o, NEW e \in Entry, NEW H, NEW lost, NEW dead,
         lost => e.state = "revoking"
  PROVE AfterApplying(s, o, e, H, lost, dead, Applied(s, o, e, H, lost, dead))
<1> DEFINE g == HandedBack(e, lost)
           last == Latest(Created(s, o, H))
           l == Live(s, g, last)
           f == [l EXCEPT !.deadCreators = l.deadCreators \cup dead]
<1>1. /\ g.state = e.state \/ (lost /\ g.state \in OpenEntry)
      /\ g.creators = e.creators /\ g.deadCreators = e.deadCreators
      /\ g.neutralized = e.neutralized /\ g.observed = e.observed /\ g \in Entry
  BY HandedBackHeld
<1> HIDE DEF g
<1>2. /\ l.state = g.state \/ (g.state = "exposed" /\ l.state = "live")
      /\ l.creators = g.creators /\ l.deadCreators = g.deadCreators
      /\ l.neutralized = g.neutralized /\ l.observed = g.observed
      /\ DOMAIN l = DOMAIN g
  BY <1>1, LiveHeld
<1>3. DOMAIN g = {"state", "owner", "prior", "neutralizing", "creators", "deadCreators",
                  "compensate", "stuck", "recoveryAttempts", "observed", "neutralized",
                  "liveAt", "stale"}
  BY <1>1 DEF Entry
<1> HIDE DEF l, last
<1>4. /\ f.state = l.state /\ f.creators = l.creators
      /\ f.deadCreators = l.deadCreators \cup dead
      /\ f.neutralized = l.neutralized /\ f.observed = l.observed
  BY <1>2, <1>3
<1>5. Applied(s, o, e, H, lost, dead) =
        CASE e.state \in {"none", "retired"} -> e
          [] \/ Neutralized(s, o, e, H, lost)
             \/ dead # {} /\ e.creators \subseteq e.deadCreators \cup dead -> Retired(e)
          [] OTHER -> f
  BY DEF Applied, f, l, g, last
<1> HIDE DEF f
<1>6. CASE e.state \in {"none", "retired"}
  BY <1>5, <1>6 DEF AfterApplying
<1>7. CASE /\ e.state \notin {"none", "retired"}
           /\ \/ Neutralized(s, o, e, H, lost)
              \/ dead # {} /\ e.creators \subseteq e.deadCreators \cup dead
  BY <1>5, <1>7 DEF AfterApplying
<1>8. CASE /\ e.state \notin {"none", "retired"} /\ ~Neutralized(s, o, e, H, lost)
           /\ ~(dead # {} /\ e.creators \subseteq e.deadCreators \cup dead)
  <2>1. Applied(s, o, e, H, lost, dead) = f
    BY <1>5, <1>8
  <2>2. e.state \in Held => f.state \in Held
    BY <1>1, <1>2, <1>4 DEF Held, OpenEntry
  <2>3. e.state \notin Held => f.state = e.state
    BY <1>1, <1>2, <1>4 DEF Held
  <2> QED
    BY <1>1, <1>2, <1>4, <1>8, <2>1, <2>2, <2>3 DEF AfterApplying
<1> QED
  BY <1>6, <1>7, <1>8

LEMMA SettledEntryKept ==
  ASSUME NEW s, Typed(s), NEW ch \in Chains, Evidence(s, ch), Witnessed(s, ch),
         \A u \in Listed(s) : Aimed(u), Fresh(s), NEW o \in Offers
  PROVE LET e == s.entries[o]
            f == SettledEntry(s, o, e, ResolvedHashes(s))
        IN /\ ~OverOn(ch, o) => SettledKept(ch, s, e, f, o)
           /\ f.state \in {"intended", "signed"} => f.creators = {} /\ f.deadCreators = {}
           /\ f.neutralized => e.neutralized /\ f.observed = e.observed
<1> DEFINE e == s.entries[o]
           H == ResolvedHashes(s)
           lost == LostNonce(s, e, H)
           dead == Failed(s, o, H)
           f == SettledEntry(s, o, e, H)
<1>1. e \in Entry /\ (lost => e.state = "revoking") /\ f = Applied(s, o, e, H, lost, dead)
  BY DEF Typed, KernelState, LostNonce, SettledEntry
<1> HIDE DEF f, H, lost, dead, e
<1> DEFINE g == Applied(s, o, e, H, lost, dead)
<1>12. AfterApplying(s, o, e, H, lost, dead, g)
  BY <1>1, AppliedKept
<1>13. f = g
  BY <1>1
<1> HIDE DEF g
<1>2. \/ f = Retired(e)
         /\ \/ Neutralized(s, o, e, H, lost)
            \/ dead # {} /\ e.creators \subseteq e.deadCreators \cup dead
      \/ e.state \in {"none", "retired"} /\ f = e
      \/ /\ e.state \in Held => f.state \in Held
         /\ e.state \notin Held => f.state = e.state
         /\ f.creators = e.creators /\ f.deadCreators = e.deadCreators \cup dead
         /\ f.neutralized = e.neutralized /\ f.observed = e.observed
         /\ dead = {} \/ ~(e.creators \subseteq e.deadCreators \cup dead)
  BY <1>12, <1>13 DEF AfterApplying
<1>3. Neutralized(s, o, e, H, lost) => OverOn(ch, o)
  BY NeutralizedIsOver DEF H, e
<1>4. Exposure[o] = "broadcast" => dead = {}
  BY DEF Failed, dead
<1>5. \A t : Exposure[o] = "inclusion" /\ Makes(ch, t, o) /\ Shielded(s, t, o) =>
               HashOf(t) \notin dead
  BY MakersRan DEF H, dead
<1>6. Retired(e).state = "retired" /\ ~Retired(e).neutralized
  BY <1>1 DEF Retired, NoEntry, Entry
<1>7. e.state \in {"intended", "signed"} => e.creators = {} /\ e.deadCreators = {}
  BY DEF Fresh, e
<1>8. ASSUME ~OverOn(ch, o), Exposure[o] = "broadcast", e.state \in Held
      PROVE f.state \in Held
  BY <1>2, <1>3, <1>4, <1>8 DEF Held
<1>9. ASSUME ~OverOn(ch, o), Exposure[o] = "inclusion", NEW t, Makes(ch, t, o), Covered(s, t, o)
      PROVE f.state \in Held /\ HashOf(t) \in f.creators \ f.deadCreators
  <2>1. e.state \in Held /\ HashOf(t) \in e.creators \ e.deadCreators /\ Shielded(s, t, o)
    BY <1>9 DEF Covered, Shielded, e
  <2>2. HashOf(t) \notin dead
    BY <1>5, <1>9, <2>1
  <2> QED
    BY <1>2, <1>3, <1>9, <2>1, <2>2 DEF Held
<1>10. ASSUME f.state \in {"intended", "signed"} PROVE f.creators = {} /\ f.deadCreators = {}
  <2> QED
    BY <1>2, <1>6, <1>7, <1>10 DEF Held
<1>11. f.neutralized => e.neutralized /\ f.observed = e.observed
  <2> QED
    BY <1>2, <1>6
<1> QED
  BY <1>8, <1>9, <1>10, <1>11 DEF SettledKept, f, e, H

\* with the entries of s settled, every ledger's cover is as good
LEMMA CoversSettled ==
  ASSUME NEW ch, NEW s, NEW r, NEW R, NEW X, NEW Y, Covers(ch, s, R, X),
         Listed(r) \subseteq Listed(s), Y \subseteq X \cup Listed(s),
         \A o \in Offers : ~OverOn(ch, o) => SettledKept(ch, s, s.entries[o], r.entries[o], o)
  PROVE Covers(ch, r, R, Y)
<1>1. \A t \in Listed(r) : Aimed(t)
  BY DEF Covers
<1>2. ASSUME NEW o \in Offers, ~OverOn(ch, o) PROVE CoversOffer(ch, r, R, Y, o)
  <2>1. CoversOffer(ch, s, R, X, o) /\ SettledKept(ch, s, s.entries[o], r.entries[o], o)
    BY <1>2 DEF Covers
  <2>2. Exposure[o] \in {"broadcast", "inclusion"}
    BY StepsAssumption
  <2>3. Exposure[o] = "broadcast" /\ o \in R => r.entries[o].state \in Held
    BY <2>1 DEF CoversOffer, SettledKept
  <2>4. ASSUME NEW t \in Y \cup Listed(r), Makes(ch, t, o) PROVE Covered(r, t, o)
    <3>1. Covered(s, t, o)
      BY <2>1, <2>4 DEF CoversOffer
    <3>2. CASE Exposure[o] = "broadcast"
      BY <2>1, <3>1, <3>2 DEF SettledKept, Covered
    <3>3. CASE Exposure[o] = "inclusion"
      BY <2>1, <2>4, <3>1, <3>3 DEF SettledKept, Covered, Shielded
    <3> QED
      BY <2>2, <3>2, <3>3
  <2> QED
    BY <2>3, <2>4 DEF CoversOffer
<1> QED
  BY <1>1, <1>2 DEF Covers

LEMMA PlansBack == ASSUME NEW s, NEW r, r.plans = s.plans PROVE Back(s, r)
BY DEF Back

LEMMA PlansWork ==
  ASSUME NEW s, NEW r, Works(s), r.plans = s.plans, r.slot = s.slot, r.writes = s.writes
  PROVE Works(r)
BY DEF Works, AllFit, Occupies, InPhase, Executing, Step

LEMMA SettleNoncesOffered ==
  ASSUME NEW s, NEW d, NEW N, NEW R, NEW ch \in Chains, Typed(s), Evidence(s, ch),
         Offered(s, d, N, R, ch)
  PROVE Offered(SettleNonces(s), d, N, R, ch)
<1> DEFINE entries == [o \in Offers |-> SettledEntry(s, o, s.entries[o], ResolvedHashes(s))]
           nonces == [n \in Nonces |->
                        IF IsFinal(s, s.nonces[n]) /\ ~Awaited(s, n) /\ ~s.nonces[n].foreign
                        THEN NoRecord ELSE s.nonces[n]]
           r == SettleNonces(s)
<1>1. r.entries = entries /\ r.nonces = nonces /\ r.plans = s.plans /\ r.slot = s.slot
      /\ r.writes = s.writes /\ r.resends = s.resends /\ r.head = s.head
  BY DEF SettleNonces, Typed, KernelState
<1>2. \A n \in Nonces : FewerRecord(s.nonces[n], r.nonces[n])
  BY <1>1 DEF FewerRecord, SameTxs
<1>3. /\ Witnessed(s, ch) /\ Fresh(s) /\ Covers(ch, s, R, Outside(s, N))
      /\ \A u \in Listed(s) : Aimed(u)
  BY DEF Offered, Covers
<1>4. \A o \in Offers : LET e == s.entries[o]
                            f == r.entries[o]
                        IN /\ ~OverOn(ch, o) => SettledKept(ch, s, e, f, o)
                           /\ f.state \in {"intended", "signed"} =>
                                f.creators = {} /\ f.deadCreators = {}
                           /\ f.neutralized => e.neutralized /\ f.observed = e.observed
  BY <1>1, <1>3, SettledEntryKept
<1> HIDE DEF r, entries, nonces
<1>5. Listed(r) \subseteq Listed(s)
  BY <1>2, FewerListed
<1>6. Outside(r, N) = Outside(s, N)
  BY <1>1 DEF Outside
<1>7. Covers(ch, r, R, Outside(r, N))
  BY <1>3, <1>4, <1>5, <1>6, CoversSettled
<1>8. Stored(r, d, N, R, ch)
  BY <1>1, <1>6 DEF Stored, Offered
<1>9. Works(r)
  BY <1>1, PlansWork DEF Offered
<1>10. Releases(r, d, ch)
  <2>1. Releases(s, d, ch)
    BY DEF Offered
  <2>2. \A o \in Offers : Exposure[o] = "broadcast" /\ ~OverOn(ch, o)
                          /\ s.entries[o].state \in Held => r.entries[o].state \in Held
    BY <1>4 DEF SettledKept
  <2>3. Back(s, r)
    BY <1>1, PlansBack
  <2> QED
    BY <1>1, <2>1, <2>2, <2>3, InFlightPlaced, ReleasesKept
<1>11. Fresh(r)
  BY <1>4 DEF Fresh
<1>12. Witnessed(r, ch)
  <2>1. \A n \in Nonces : SeenNonce(r, ch, n)
    BY <1>2, <1>3, SeenNonceKept DEF Witnessed
  <2>2. \A o \in Offers : SeenEntry(r, ch, o)
    BY <1>1, <1>3, <1>4 DEF SeenEntry, Witnessed
  <2> QED
    BY <2>1, <2>2 DEF Witnessed
<1> QED
  BY <1>7, <1>8, <1>9, <1>10, <1>11, <1>12 DEF Offered, r

\* what SettleEntries retires nobody can consume
LEMMA SettleEntriesOffered ==
  ASSUME NEW s, NEW d, NEW N, NEW R, NEW ch \in Chains, Typed(s), Evidence(s, ch),
         Offered(s, d, N, R, ch)
  PROVE Offered(SettleEntries(s), d, N, R, ch)
<1> DEFINE gone(o) == /\ s.entries[o].state \in Held
                      /\ \/ /\ s.entries[o].neutralized
                            /\ s.entries[o].observed <= s.finalized
                         \/ s.finalized > Expiry[o]
           entries == [o \in Offers |-> IF gone(o) THEN Retired(s.entries[o]) ELSE s.entries[o]]
           r == SettleEntries(s)
<1>1. r.entries = entries /\ r.nonces = s.nonces /\ r.plans = s.plans /\ r.slot = s.slot
      /\ r.writes = s.writes /\ r.resends = s.resends /\ r.head = s.head
  BY DEF SettleEntries, Typed, KernelState
<1>2. ASSUME NEW o \in Offers, gone(o) PROVE OverOn(ch, o)
  <2>1. /\ s.finalized \in Int /\ s.entries[o] \in Entry /\ ch.head \in Nat
        /\ Expiry[o] \in Nat /\ FinalityLag \in Nat
    BY StepsAssumption, BoundsAssumption DEF Typed, KernelState, Chains
  <2>2. s.finalized = -1 \/ s.finalized <= ch.head - FinalityLag
    BY DEF Evidence
  <2>3. CASE s.finalized > Expiry[o]
    BY <2>1, <2>2, <2>3 DEF OverOn
  <2>4. CASE s.entries[o].neutralized /\ s.entries[o].observed <= s.finalized
    <3>1. PICK n \in Nonces : /\ n < Len(ch.mined) /\ NeutralizedBy(ch.mined[n + 1], o)
                              /\ ch.mined[n + 1].block <= s.entries[o].observed
      BY <2>4 DEF Offered, Witnessed, SeenEntry
    <3>2. ch.mined[n + 1].block \in Nat
      <4>1. n + 1 \in DOMAIN ch.mined /\ ch.mined \in Seq(Mined)
        BY <3>1, BoundsAssumption, LenProperties DEF Chains, Nonces
      <4>2. ch.mined[n + 1] \in Mined
        BY <4>1, ElementOfSeq
      <4> QED
        BY <4>2 DEF Mined
    <3> DEFINE b == ch.mined[n + 1].block
               seen == s.entries[o].observed
    <3>3. b \in Nat /\ b <= seen /\ seen <= s.finalized /\ seen \in Nat
      BY <2>1, <2>4, <3>1, <3>2 DEF Entry
    <3> HIDE DEF b, seen
    <3>4. b <= ch.head - FinalityLag
      BY <2>1, <2>2, <3>3
    <3> QED
      BY <3>1, <3>4 DEF OverOn, FinalOn, b
  <2> QED
    BY <1>2, <2>3, <2>4
<1>3. \A o \in Offers : \/ r.entries[o] = s.entries[o]
                        \/ r.entries[o].state = "retired" /\ ~r.entries[o].neutralized
                           /\ OverOn(ch, o)
  <2>1. \A e : Retired(e).state = "retired" /\ ~Retired(e).neutralized
    BY DEF Retired, NoEntry
  <2>2. \A o \in Offers : r.entries[o] = IF gone(o) THEN Retired(s.entries[o]) ELSE s.entries[o]
    BY <1>1
  <2> HIDE DEF gone, r
  <2> QED
    BY <1>2, <2>1, <2>2
<1> HIDE DEF r, entries
<1>4. \A o \in Offers : ~OverOn(ch, o) => SettledKept(ch, s, s.entries[o], r.entries[o], o)
  BY <1>3 DEF SettledKept, Covered, Shielded
<1>5. Listed(r) = Listed(s) /\ Outside(r, N) = Outside(s, N)
  BY <1>1 DEF Outside, Listed
<1>6. Covers(ch, r, R, Outside(r, N))
  BY <1>4, <1>5, CoversSettled DEF Offered
<1>7. Stored(r, d, N, R, ch)
  BY <1>1, <1>5 DEF Stored, Offered
<1>8. Works(r)
  BY <1>1, PlansWork DEF Offered
<1>9. Releases(r, d, ch)
  <2>1. Releases(s, d, ch)
    BY DEF Offered
  <2>2. \A o \in Offers : Exposure[o] = "broadcast" /\ ~OverOn(ch, o)
                          /\ s.entries[o].state \in Held => r.entries[o].state \in Held
    BY <1>3
  <2>3. Back(s, r)
    BY <1>1, PlansBack
  <2> QED
    BY <1>1, <2>1, <2>2, <2>3, InFlightPlaced, ReleasesKept
<1>10. Fresh(r)
  BY <1>3 DEF Fresh, Offered
<1>11. Witnessed(r, ch)
  <2>1. \A n \in Nonces : SeenNonce(r, ch, n)
    BY <1>1 DEF Witnessed, Offered, SeenNonce
  <2>2. \A o \in Offers : SeenEntry(r, ch, o)
    BY <1>1, <1>3 DEF SeenEntry, Witnessed, Offered
  <2> QED
    BY <2>1, <2>2 DEF Witnessed
<1> QED
  BY <1>6, <1>7, <1>8, <1>9, <1>10, <1>11 DEF Offered, r

-----------------------------------------------------------------------------
(* What is outside grows, the slot is taken, a plan commits.               *)

LEMMA WritesTyped ==
  ASSUME NEW s, Typed(s)
  PROVE /\ \A w \in DOMAIN s.writes : s.writes[w] \in Ledger
        /\ s.writes \in Seq(Ledger) /\ Len(s.writes) \in Nat
        /\ DOMAIN s.writes = 1 .. Len(s.writes)
BY ElementOfSeq, LenProperties DEF Typed, KernelState

\* more is outside, all of it on file
LEMMA OutsideOffered ==
  ASSUME NEW s, NEW r, NEW d \in Ledger, NEW N, NEW M, NEW R, NEW ch, Typed(s),
         Offered(s, d, N, R, ch), r.plans = s.plans, r.slot = s.slot, r.entries = s.entries,
         r.writes = s.writes, r.head = s.head, \A n \in Nonces : FewerRecord(s.nonces[n], r.nonces[n]),
         Outside(r, M) \subseteq Tx,
         \A t \in Outside(r, M) \ Outside(s, N) : Lists(s, t) /\ OnFile(s, d, t)
  PROVE Offered(r, d, M, R, ch)
<1> DEFINE X == Outside(s, N)
           Y == Outside(r, M)
<1>1. Listed(r) \subseteq Listed(s)
  BY FewerListed
<1>2. \A o \in Offers : r.entries[o] = s.entries[o]
  OBVIOUS
<1>3. /\ Y \subseteq X \cup Listed(s) /\ Y \subseteq X \cup Listed(d)
      /\ \A w \in DOMAIN s.writes : Y \subseteq X \cup Listed(s.writes[w])
  BY ListedIsLists DEF OnFile
<1> HIDE DEF X, Y
<1>4. Covers(ch, r, R, Y)
  BY <1>1, <1>3, CoversKept DEF Offered, X
<1>5. Covers(ch, d, R, Y)
  BY <1>3, CoversKept DEF Offered, Stored, X
<1>6. \A w \in DOMAIN s.writes : Covers(ch, s.writes[w], R, Y)
  BY <1>3, CoversKept DEF Offered, Stored, X
<1>7. Works(r)
  BY PlansWork DEF Offered
<1>8. Releases(r, d, ch)
  BY PlansBack, InFlightPlaced, ReleasesKept DEF Offered
<1>9. Fresh(r)
  BY DEF Fresh, Offered
<1>10. Witnessed(r, ch)
  <2>1. \A n \in Nonces : SeenNonce(r, ch, n)
    BY SeenNonceKept DEF Offered, Witnessed
  <2>2. \A o \in Offers : SeenEntry(r, ch, o)
    BY DEF SeenEntry, Offered, Witnessed
  <2> QED
    BY <2>1, <2>2 DEF Witnessed
<1> QED
  BY <1>4, <1>5, <1>6, <1>7, <1>8, <1>9, <1>10 DEF Offered, Stored, Y

LEMMA RebroadcastOffered ==
  ASSUME NEW s, NEW d \in Ledger, NEW N \in SUBSET Tx, NEW R, NEW ch,
         Full(s, d, N, ch), Offered(s, d, N, R, ch)
  PROVE Offered(Rebroadcast(s), d, N, R, ch)
<1> DEFINE nonces == [n \in Nonces |->
                        IF n \in Resent(s) THEN [s.nonces[n] EXCEPT !.lastActionHead = s.head]
                        ELSE s.nonces[n]]
           more == s.resends \cup UNION {FirstResend(s, n) : n \in Resent(s)}
           r == [s EXCEPT !.nonces = nonces, !.resends = more]
<1>0. Typed(s)
  BY DEF Full
<1>1. Rebroadcast(s) = IF s.head = 0 THEN s ELSE r
  BY DEF Rebroadcast
<1>2. /\ r.plans = s.plans /\ r.slot = s.slot /\ r.entries = s.entries
      /\ r.writes = s.writes /\ r.nonces = nonces /\ r.resends = more /\ r.head = s.head
  BY <1>0 DEF Typed, KernelState
<1>3. \A n \in Nonces : FewerRecord(s.nonces[n], r.nonces[n])
  <2>1. \A n \in Nonces : s.nonces[n] \in NonceRecord
    BY <1>0 DEF Typed, KernelState
  <2>2. \A n \in Nonces : /\ nonces[n].candidates = s.nonces[n].candidates
                          /\ nonces[n].resolution = s.nonces[n].resolution
    BY <2>1 DEF NonceRecord
  <2> HIDE DEF nonces, r
  <2> QED
    BY <1>2, <2>2 DEF FewerRecord, SameTxs
<1>4. more \in SUBSET Tx
  <2>1. s \in KernelState
    BY <1>0 DEF Typed
  <2>2. \A n \in Resent(s) : FirstResend(s, n) \in SUBSET Tx
    BY <2>1, FirstResendTyped DEF Resent
  <2>3. s.resends \subseteq Tx
    BY <2>1 DEF KernelState
  <2> QED
    BY <2>2, <2>3
<1>5. ASSUME NEW t \in more \ s.resends PROVE Lists(s, t) /\ OnFile(s, d, t)
  <2>1. PICK n \in Nonces : t \in FirstResend(s, n)
    BY DEF Resent
  <2>2. PICK c \in ResendPlaces(s, n) : t = TxAt(n, c, s.nonces[n].candidates[c])
    BY <2>1 DEF FirstResend
  <2>3. c \in DOMAIN s.nonces[n].candidates /\ Out(s.nonces[n].candidates[c])
    BY DEF ResendPlaces, Out
  <2>4. OnFile(s, d, t)
    BY <2>2, <2>3 DEF Full, Safe, OutOnFile
  <2> QED
    BY <2>2, <2>3, <2>4 DEF Lists, TxAt
<1> HIDE DEF r, more, nonces
<1>6. /\ Outside(r, N) \subseteq Tx
      /\ \A t \in Outside(r, N) \ Outside(s, N) : Lists(s, t) /\ OnFile(s, d, t)
  BY <1>2, <1>4, <1>5 DEF Outside
<1>7. Offered(r, d, N, R, ch)
  BY <1>0, <1>2, <1>3, <1>6, OutsideOffered
<1> QED
  BY <1>1, <1>7

\* only the plan of p, and the slot, differ
LEMMA OnePlanOffered ==
  ASSUME NEW s, NEW r, NEW d, NEW N, NEW R, NEW ch, Typed(s), Offered(s, d, N, R, ch),
         r.entries = s.entries, r.nonces = s.nonces, r.writes = s.writes,
         r.resends = s.resends, r.head = s.head, Works(r), Back(s, r)
  PROVE Offered(r, d, N, R, ch)
<1>1. Listed(r) = Listed(s) /\ Outside(r, N) = Outside(s, N)
  BY DEF Listed, Outside
<1>2. Covers(ch, r, R, Outside(r, N))
  BY <1>1 DEF Offered, Covers, CoversOffer, Covered, Shielded
<1>3. Stored(r, d, N, R, ch)
  BY <1>1 DEF Offered, Stored
<1>4. Releases(r, d, ch)
  BY InFlightPlaced, ReleasesKept DEF Offered
<1>5. Fresh(r) /\ Witnessed(r, ch)
  BY DEF Fresh, Witnessed, SeenNonce, SeenEntry, Offered
<1> QED
  BY <1>2, <1>3, <1>4, <1>5 DEF Offered

LEMMA SignOffered ==
  ASSUME NEW s, NEW d, NEW N, NEW R, NEW ch, Typed(s), Offered(s, d, N, R, ch),
         NEW p \in PlanIds, NEW n \in Nonces, s.slot = Free,
         s.plans[p].status = "executing", ~InFlightPlan(s.plans[p]), Step(s, p).kind = "tx"
  PROVE Offered(Sign(s, p, n), d, N, R, ch)
<1> DEFINE q == s.plans[p]
           plan == [q EXCEPT !.phase = "sign", !.nonce = n, !.level = NextLevel(s, n)]
           r == Sign(s, p, n)
<1>1. q \in Plan /\ s \in KernelState
  BY DEF Typed, KernelState
<1>2. /\ r.plans = [s.plans EXCEPT ![p] = plan] /\ r.entries = s.entries
      /\ r.nonces = s.nonces /\ r.writes = s.writes /\ r.resends = s.resends /\ r.slot = p
      /\ r.head = s.head
  <2>1. r = [s EXCEPT !.plans[p] = plan, !.slot = p]
    BY <1>1, ZenonT(60) DEF Sign, KernelState
  <2> HIDE DEF r, plan
  <2> QED
    BY <1>1, <2>1 DEF KernelState
<1>3. /\ plan.status = q.status /\ plan.cursor = q.cursor /\ plan.phase = "sign"
      /\ plan.target = q.target
  BY <1>1 DEF Plan
<1> HIDE DEF r, plan, q
<1>4. r.plans[p] = plan /\ \A x \in PlanIds \ {p} : r.plans[x] = s.plans[x]
  BY <1>1, <1>2 DEF KernelState
<1>5. Back(s, r)
  <2>1. ~InFlightPlan(plan)
    BY <1>3 DEF InFlightPlan
  <2> QED
    BY <1>4, <2>1 DEF Back
<1>6. Works(r)
  <2>1. AllFit(r)
    <3>0. StepsOf(p)[plan.cursor].kind = "tx"
      BY <1>3 DEF Step, q
    <3>1. Fits(p, q) => Fits(p, plan)
      BY <1>3, <3>0 DEF Fits
    <3> QED
      BY <1>4, <3>1 DEF AllFit, Offered, Works, q
  <2>2. \A x \in InPhase(r, "commit") : x \in InPhase(s, "commit") /\ x # p
    BY <1>3, <1>4 DEF InPhase, Executing
  <2>3. \A x \in InPhase(r, "commit") : r.plans[x].flush \in 1 .. Len(r.writes) + 1
    BY <1>2, <1>4, <2>2 DEF Offered, Works, InPhase, Executing
  <2>4. Occupies(r, p)
    BY <1>3, <1>4 DEF Occupies, Step, q
  <2>5. r.slot = p /\ p # Committing
    BY <1>2, NotPlans
  <2> QED
    BY <2>1, <2>3, <2>4, <2>5 DEF Works
<1>7. Offered(r, d, N, R, ch)
  BY <1>2, <1>5, <1>6, OnePlanOffered
<1> QED
  BY <1>7 DEF r

\* what was mined was handed to the network
MinedSent(ch, N) ==
  \A j \in DOMAIN ch.mined : ch.mined[j].tx # Foreign => ch.mined[j].tx \in N

\* a step, once committed, holds what it makes and lets go of nothing
LEMMA CommittedEntryKept ==
  ASSUME NEW s, Typed(s), NEW p \in PlanIds, ~CommitRefused(s, p), NEW hash, NEW o \in Offers
  PROVE LET x == Step(s, p)
            e == s.entries[o]
            f == CommittedEntry(s, x, hash, o)
        IN /\ e.state \in Held => /\ f.state \in Held /\ f.creators = e.creators
                                  /\ f.deadCreators = e.deadCreators
           /\ f.state \in {"intended", "signed"} => f = e
           /\ f.neutralized = e.neutralized /\ f.observed = e.observed
           /\ o \in x.exposes => f.state \in Held
           /\ x.kind = "tx" /\ o \in x.creates =>
                /\ f.state \in Held /\ e.state \in {"intended", "signed"}
                /\ hash \in f.creators /\ f.deadCreators = e.deadCreators
<1> DEFINE x == Step(s, p)
           e == s.entries[o]
           f == CommittedEntry(s, x, hash, o)
           made == [e EXCEPT !.state = "exposed", !.creators = e.creators \cup {hash}]
           prior == IF e.state \in OpenEntry THEN e.state ELSE e.prior
           revoked == [e EXCEPT !.state = "revoking", !.neutralizing = hash, !.prior = prior]
           shown == [e EXCEPT !.state = "exposed"]
<1>1. /\ o \in x.exposes => e.state \in {"signed", "exposed", "live"}
      /\ o \in x.creates => e.state \in {"intended", "signed"}
      /\ o \in x.retires => e.state \in Held
  BY DEF CommitRefused, Ours
<1>2. e \in Entry
  BY DEF Typed, KernelState
<1>3. f = CASE x.kind = "tx" /\ o \in x.creates -> made
            [] x.kind = "tx" /\ o \in x.retires -> revoked
            [] o \in x.exposes /\ e.state = "signed" /\ (x.kind = "tx" => o \notin x.creates) -> shown
            [] OTHER -> e
  BY DEF CommittedEntry
<1>4. /\ made.state = "exposed" /\ made.creators = e.creators \cup {hash}
      /\ made.deadCreators = e.deadCreators
      /\ made.neutralized = e.neutralized /\ made.observed = e.observed
  BY <1>2 DEF Entry
<1> HIDE DEF prior
<1>5. /\ revoked.state = "revoking" /\ revoked.creators = e.creators
      /\ revoked.deadCreators = e.deadCreators
      /\ revoked.neutralized = e.neutralized /\ revoked.observed = e.observed
  BY <1>2 DEF Entry
<1>6. /\ shown.state = "exposed" /\ shown.creators = e.creators
      /\ shown.deadCreators = e.deadCreators
      /\ shown.neutralized = e.neutralized /\ shown.observed = e.observed
  BY <1>2 DEF Entry
<1> HIDE DEF f, made, revoked, shown, e, x
<1>7. CASE x.kind = "tx" /\ o \in x.creates
  <2>1. ~(x.kind = "tx" /\ o \in x.retires)
    BY <1>1, <1>7 DEF Held
  <2>2. f = made
    BY <1>3, <1>7, <2>1
  <2> QED
    BY <1>1, <1>4, <1>7, <2>2 DEF Held, f, x, e
<1>8. CASE ~(x.kind = "tx" /\ o \in x.creates) /\ x.kind = "tx" /\ o \in x.retires
  <2>1. f = revoked
    BY <1>1, <1>3, <1>8 DEF Held, x, e
  <2> QED
    BY <1>1, <1>5, <1>8, <2>1 DEF Held, f, x, e
<1>9. CASE /\ ~(x.kind = "tx" /\ o \in x.creates) /\ ~(x.kind = "tx" /\ o \in x.retires)
           /\ o \in x.exposes /\ e.state = "signed"
  <2>1. f = shown
    BY <1>3, <1>9
  <2> QED
    BY <1>1, <1>6, <1>9, <2>1 DEF Held, f, x, e
<1>10. CASE /\ ~(x.kind = "tx" /\ o \in x.creates) /\ ~(x.kind = "tx" /\ o \in x.retires)
            /\ ~(o \in x.exposes /\ e.state = "signed")
  <2>1. f = e
    BY <1>3, <1>10
  <2> QED
    BY <1>1, <1>10, <2>1 DEF Held, f, x, e
<1> QED
  BY <1>7, <1>8, <1>9, <1>10

\* the kernel's cover once the transaction t of a step x is listed
LEMMA CoversCommitted ==
  ASSUME NEW ch, NEW s, NEW r, NEW R, NEW X, NEW t, NEW x, Covers(ch, s, R, X), Fresh(s),
         x = StepsOf(t.plan)[t.step], Aimed(t), x.kind = "tx",
         \A u \in Listed(r) : u \in Listed(s) \/ u = t,
         \A u \in Listed(s) : HashOf(u) # HashOf(t),
         \A o \in Offers :
           LET e == s.entries[o]
               f == r.entries[o]
           IN /\ e.state \in Held => /\ f.state \in Held /\ f.creators = e.creators
                                     /\ f.deadCreators = e.deadCreators
              /\ o \in x.exposes => f.state \in Held
              /\ x.kind = "tx" /\ o \in x.creates =>
                   /\ f.state \in Held /\ e.state \in {"intended", "signed"}
                   /\ HashOf(t) \in f.creators /\ f.deadCreators = e.deadCreators
  PROVE Covers(ch, r, R, X)
<1>1. \A u \in Listed(r) : Aimed(u)
  BY DEF Covers
<1>2. ASSUME NEW o \in Offers, ~OverOn(ch, o) PROVE CoversOffer(ch, r, R, X, o)
  <2> DEFINE e == s.entries[o]
             f == r.entries[o]
  <2>1. CoversOffer(ch, s, R, X, o)
    BY <1>2 DEF Covers
  <2>2. Exposure[o] = "broadcast" /\ o \in R => f.state \in Held
    BY <2>1 DEF CoversOffer
  <2>3. Carries(t, o) => /\ f.state \in Held
                         /\ Exposure[o] = "inclusion" => o \in x.creates
    BY DEF Carries
  <2>4. ASSUME NEW u \in X \cup Listed(r), Makes(ch, u, o) PROVE Covered(r, u, o)
    <3>1. CASE u = t
      <4>1. f.state \in Held /\ (Exposure[o] = "inclusion" => o \in x.creates)
        BY <2>3, <2>4, <3>1 DEF Makes
      <4>2. ASSUME Exposure[o] = "inclusion" PROVE Shielded(r, t, o)
        <5>1. HashOf(t) \in f.creators /\ f.deadCreators = {}
          BY <4>1, <4>2 DEF Fresh
        <5> QED
          BY <5>1 DEF Shielded
      <4> QED
        BY <3>1, <4>1, <4>2 DEF Covered
    <3>2. CASE u # t
      <4>1. Covered(s, u, o)
        BY <2>1, <2>4, <3>2 DEF CoversOffer
      <4>2. e.state \in Held /\ f.state \in Held /\ f.creators = e.creators
            /\ f.deadCreators = e.deadCreators
        BY <4>1 DEF Covered
      <4>3. o \notin x.creates
        BY <4>2 DEF Held
      <4>4. Exposure[o] = "inclusion" => ~Carries(t, o)
        BY <4>3 DEF Carries
      <4>5. Exposure[o] = "inclusion" => Shielded(r, u, o)
        BY <4>1, <4>2, <4>4 DEF Covered, Shielded
      <4> QED
        BY <4>2, <4>5 DEF Covered
    <3> QED
      BY <3>1, <3>2
  <2> QED
    BY <2>2, <2>4 DEF CoversOffer
<1> QED
  BY <1>1, <1>2 DEF Covers

LEMMA ListedPlace ==
  ASSUME NEW s, Typed(s), NEW u \in Listed(s)
  PROVE u.nonce \in Nonces /\ u.place \in DOMAIN s.nonces[u.nonce].candidates
BY DEF Listed, TxAt

\* p is not in flight before, and waits for the write of its commit after
CommitsPlan(s, r, p) ==
  /\ \A x \in PlanIds \ {p} : r.plans[x] = s.plans[x]
  /\ LET u == r.plans[p]
     IN /\ u.status = "executing" /\ u.phase = "commit" /\ u.cursor = s.plans[p].cursor
        /\ u.flush = Len(s.writes) + 1 /\ u.target = s.plans[p].target
  /\ r.slot = IF s.slot = Free THEN Committing ELSE s.slot
  /\ r.writes = s.writes /\ r.resends = s.resends

LEMMA CommitWorks ==
  ASSUME NEW s, Typed(s), Works(s), NEW p \in PlanIds, ~InFlightPlan(s.plans[p]),
         s.plans[p].status = "executing", s.slot \in {p, Free}, NEW r, CommitsPlan(s, r, p)
  PROVE Works(r)
<1>1. Len(s.writes) \in Nat
  BY WritesTyped
<1>2. AllFit(r)
  <2>1. Fits(p, r.plans[p])
    BY DEF CommitsPlan, Works, AllFit, Fits
  <2> QED
    BY <2>1 DEF CommitsPlan, Works, AllFit
<1>3. ASSUME NEW x \in InPhase(r, "commit") PROVE r.plans[x].flush \in 1 .. Len(r.writes) + 1
  <2>1. CASE x = p
    BY <1>1, <2>1 DEF CommitsPlan
  <2>2. CASE x # p
    <3>1. x \in InPhase(s, "commit") /\ r.plans[x] = s.plans[x]
      BY <2>2 DEF CommitsPlan, InPhase, Executing
    <3> QED
      BY <3>1 DEF Works, CommitsPlan
  <2> QED
    BY <2>1, <2>2
<1>4. p \in InPhase(r, "commit")
  BY DEF CommitsPlan, InPhase, Executing
<1>5. Occupies(r, p)
  BY DEF CommitsPlan, Occupies
<1>6. r.slot \in {p, Committing} /\ p # Committing
  BY NotPlans DEF CommitsPlan
<1> QED
  BY <1>2, <1>3, <1>4, <1>5, <1>6, NotPlans DEF Works

LEMMA CommitReleases ==
  ASSUME NEW s, Typed(s), NEW d, NEW ch, Releases(s, d, ch), NEW p \in PlanIds,
         s.plans[p].cursor \in DOMAIN StepsOf(p), NEW r, CommitsPlan(s, r, p),
         \A o \in Offers : s.entries[o].state \in Held => r.entries[o].state \in Held,
         \A o \in Step(s, p).exposes : r.entries[o].state \in Held
  PROVE Releases(r, d, ch)
<1> SUFFICES ASSUME NEW x \in PlanIds, InFlightPlan(r.plans[x]), Step(r, x).kind # "tx",
                    NEW o \in Step(r, x).exposes, Exposure[o] = "broadcast", ~OverOn(ch, o)
             PROVE Releasable(r, d, x, o)
  BY DEF Releases
<1>1. Len(s.writes) \in Nat /\ DOMAIN s.writes = 1 .. Len(s.writes) /\ r.writes = s.writes
  BY WritesTyped DEF CommitsPlan
<1>2. CASE x = p
  <2>1. r.plans[p].phase = "commit" /\ r.plans[p].flush = Len(s.writes) + 1
    BY DEF CommitsPlan
  <2>2. o \in Step(s, p).exposes
    BY <1>2 DEF Step, CommitsPlan
  <2> QED
    BY <1>1, <1>2, <2>1, <2>2 DEF Releasable
<1>3. CASE x # p
  <2>1. r.plans[x] = s.plans[x] /\ Step(r, x) = Step(s, x)
    BY <1>3 DEF CommitsPlan, Step
  <2>2. o \in Offers
    <3>1. StepsOf(x) \in Seq(StepSpec) /\ s.plans[x].cursor \in DOMAIN StepsOf(x)
      BY <2>1, StepsTyped, InFlightPlaced
    <3>2. Step(s, x) \in StepSpec
      BY <3>1, ElementOfSeq DEF Step
    <3> QED
      BY <2>1, <3>2 DEF StepSpec
  <2>3. Releasable(s, d, x, o)
    BY <2>1 DEF Releases
  <2> QED
    BY <1>1, <2>1, <2>2, <2>3 DEF Releasable
<1> QED
  BY <1>2, <1>3

\* a nonce already resolved for s is not by a transaction that s signs now
LEMMA RecordedSeen ==
  ASSUME NEW s, NEW d, NEW N, NEW ch \in Chains, Full(s, d, N, ch), MinedSent(ch, N),
         Witnessed(s, ch), NEW p \in PlanIds, s.plans[p].nonce \in Nonces,
         s.plans[p].status = "executing", ~Attached(s.plans[p]), NEW n \in Nonces
  PROVE LET r == [s EXCEPT !.nonces = RecordCandidate(s, p)]
        IN SeenNonce(r, ch, n)
<1> DEFINE r == [s EXCEPT !.nonces = RecordCandidate(s, p)]
           k0 == s.plans[p].nonce
           cs == s.nonces[k0].candidates
           t == [nonce |-> k0, place |-> Len(cs) + 1, plan |-> p, step |-> s.plans[p].cursor]
           new == RecordCandidate(s, p)
<1> SUFFICES SeenNonce(r, ch, n)
  OBVIOUS
<1>1. Typed(s) /\ s.plans[p] \in Plan
  BY DEF Full, Typed, KernelState
<1>2. r.nonces = new
  BY <1>1 DEF Typed, KernelState
<1>3. /\ t \in Tx
      /\ \A u \in Tx : LET ds == new[u.nonce].candidates
                       IN (u.place \in DOMAIN ds /\ ds[u.place].plan = u.plan
                           /\ ds[u.place].step = u.step) <=> Lists(s, u) \/ u = t
      /\ \A m \in Nonces \ {k0} : new[m] = s.nonces[m]
      /\ new[k0].open /\ new[k0].resolution = s.nonces[k0].resolution
      /\ DOMAIN new[k0].candidates = DOMAIN cs \cup {Len(cs) + 1}
      /\ \A c \in DOMAIN cs : new[k0].candidates[c] = cs[c]
      /\ ~Out(new[k0].candidates[Len(cs) + 1])
  BY <1>1, RecordedLists, ZenonT(60)
<1> HIDE DEF r, new, t
<1>4. CASE n # k0
  <2>1. r.nonces[n] = s.nonces[n]
    BY <1>2, <1>3, <1>4
  <2>2. SeenNonce(s, ch, n)
    BY DEF Witnessed
  <2> QED
    BY <2>1, <2>2, Zenon DEF SeenNonce
<1>5. CASE n = k0
  <2> SUFFICES ASSUME Resolved(r.nonces[n]) PROVE SeenNonce(r, ch, n)
    BY DEF SeenNonce, r
  <2> DEFINE a == s.nonces[n]
             b == r.nonces[n]
             w == a.resolution.winner
             m == ch.mined[n + 1]
  <2>1. /\ b.resolution = a.resolution /\ DOMAIN b.candidates = DOMAIN cs \cup {Len(cs) + 1}
        /\ \A c \in DOMAIN cs : b.candidates[c] = cs[c]
        /\ cs = a.candidates
    BY <1>2, <1>3, <1>5
  <2>2. Resolved(a)
    BY <2>1 DEF Resolved
  <2>3. /\ w # 0 => /\ w \in DOMAIN cs
                    /\ m.tx = TxAt(n, w, cs[w]) /\ m.outcome = a.resolution.outcome
        /\ w = 0 => /\ a.resolution.outcome = "foreign"
                    /\ \A c \in DOMAIN cs :
                         ~Recovery(cs[c].plan) => m.tx # TxAt(n, c, cs[c])
    BY <2>1, <2>2 DEF Witnessed, SeenNonce
  <2>4. n + 1 \in DOMAIN ch.mined
    BY <2>2, BoundsAssumption, LenProperties DEF Full, Safe, Evidence, Chains, Nonces
  <2>5. ASSUME ~Recovery(p), m.tx = t PROVE FALSE
    <3>1. t \in N
      <4>1. t # Foreign
        BY NotPlans DEF t, Foreign
      <4> QED
        BY <2>4, <2>5, <4>1 DEF MinedSent
    <3>2. t.plan = p /\ t.step = s.plans[p].cursor
      BY DEF t
    <3>3. Past(s.plans[p], t)
      BY <2>5, <3>1, <3>2 DEF Full, Safe, Passed, Outside
    <3> QED
      BY <1>1, <3>2, <3>3 DEF Past, Attached, Plan
  <2>6. b.candidates[Len(cs) + 1].plan = p /\ TxAt(n, Len(cs) + 1, b.candidates[Len(cs) + 1]) = t
    <3>1. /\ t.place \in DOMAIN new[t.nonce].candidates
          /\ new[t.nonce].candidates[t.place].plan = t.plan
          /\ new[t.nonce].candidates[t.place].step = t.step
      BY <1>3
    <3>2. /\ t.nonce = k0 /\ t.place = Len(cs) + 1 /\ t.plan = p /\ t.step = s.plans[p].cursor
      BY DEF t
    <3>3. new[k0].candidates[Len(cs) + 1].plan = p /\ new[k0].candidates[Len(cs) + 1].step = s.plans[p].cursor
      BY <3>1, <3>2
    <3> QED
      BY <1>2, <1>5, <3>3 DEF TxAt, t
  <2> HIDE DEF a, b, cs, m
  <2>7. ASSUME w = 0, NEW c \in DOMAIN b.candidates, ~Recovery(b.candidates[c].plan)
        PROVE m.tx # TxAt(n, c, b.candidates[c])
    BY <2>1, <2>3, <2>5, <2>6, <2>7
  <2>8. w # 0 => /\ w \in DOMAIN b.candidates
                 /\ m.tx = TxAt(n, w, b.candidates[w]) /\ m.outcome = b.resolution.outcome
    BY <2>1, <2>3
  <2>9. b.resolution.winner = w /\ b.resolution.outcome = a.resolution.outcome
    BY <2>1
  <2> HIDE DEF w
  <2>10. /\ b.resolution.winner # 0 =>
              /\ b.resolution.winner \in DOMAIN b.candidates
              /\ m.tx = TxAt(n, b.resolution.winner, b.candidates[b.resolution.winner])
              /\ m.outcome = b.resolution.outcome
         /\ b.resolution.winner = 0 =>
              /\ b.resolution.outcome = "foreign"
              /\ \A c \in DOMAIN b.candidates :
                   ~Recovery(b.candidates[c].plan) => m.tx # TxAt(n, c, b.candidates[c])
    BY <2>3, <2>7, <2>8, <2>9
  <2> QED
    BY <2>10 DEF SeenNonce, b, m
<1> QED
  BY <1>4, <1>5

\* the slot is given back
LEMMA FreeGentle ==
  ASSUME NEW s, Ready(s)
  PROVE LET r == [s EXCEPT !.slot = Free] IN Gentle(s, r) /\ r.plans = s.plans
<1> DEFINE r == [s EXCEPT !.slot = Free]
<1>1. /\ r \in KernelState /\ r.plans = s.plans /\ r.submissions = s.submissions
      /\ r.nonces = s.nonces /\ r.writes = s.writes /\ r.nextNonce = s.nextNonce
      /\ r.finalized = s.finalized /\ r.resends = s.resends /\ r.head = s.head
      /\ r.entries = s.entries /\ r.outcome = s.outcome /\ r.slot = Free
  BY DEF Ready, Typed, KernelState
<1> HIDE DEF r
<1>2. Quiet(s, r)
  BY <1>1, SameQuiet, SamePlansTyped, SameRecordItself DEF SameLists, Ready
<1>3. Mild(s, r)
  BY <1>1, NotPlans, KeptEntryItself, KeptPlanItself DEF Mild, KeptSlot
<1> QED
  BY <1>1, <1>2, <1>3 DEF Gentle, r

LEMMA CommitOffered ==
  ASSUME NEW s, NEW d, NEW N, NEW R, NEW ch \in Chains, Full(s, d, N, ch), MinedSent(ch, N),
         Offered(s, d, N, R, ch), NEW p \in PlanIds, s.plans[p].cursor \in DOMAIN StepsOf(p),
         s.plans[p].status = "executing", ~Attached(s.plans[p]), s.slot \in {p, Free},
         Step(s, p).kind = "tx" => s.plans[p].nonce \in Nonces
  PROVE /\ Offered(Commit(s, p), d, N, R, ch)
        /\ Commit(s, p).outcome = "clean" => s.outcome = "clean"
        /\ Commit(s, p).head = s.head
<1> DEFINE q == s.plans[p]
           x == Step(s, p)
           tx == x.kind = "tx"
           place == IF tx THEN Len(s.nonces[q.nonce].candidates) + 1 ELSE 0
           hash == <<q.nonce, place>>
           entries == [o \in Offers |-> CommittedEntry(s, x, hash, o)]
           nonces == IF tx THEN RecordCandidate(s, p) ELSE s.nonces
           next == IF tx /\ s.nextNonce = q.nonce THEN s.nextNonce + 1 ELSE s.nextNonce
           subs == [i \in Intents |->
                      IF StepPlan(i) = p THEN "exposed" ELSE s.submissions[i]]
           plan == [q EXCEPT !.phase = "commit", !.pending = place,
                             !.exposed = q.exposed \/ ~Recovery(p),
                             !.flush = Len(s.writes) + 1]
           slot == IF s.slot = Free THEN Committing ELSE s.slot
           free == [s EXCEPT !.slot = Free]
           r == [s EXCEPT !.entries = entries, !.nonces = nonces, !.nextNonce = next,
                          !.submissions = subs, !.plans[p] = plan, !.slot = slot]
<1>1. Typed(s) /\ q \in Plan /\ s \in KernelState /\ Ready(s)
  BY DEF Full, Typed, KernelState, Safe, Ready
<1>2. Commit(s, p) = IF CommitRefused(s, p) THEN FailPlans(free, {p}) ELSE r
  BY DEF Commit, Committed
<1>3. ASSUME CommitRefused(s, p) 
      PROVE /\ Offered(Commit(s, p), d, N, R, ch)
            /\ Commit(s, p).outcome = "clean" => s.outcome = "clean"
            /\ Commit(s, p).head = s.head
  <2>1. Gentle(s, free) /\ free.plans = s.plans
    BY <1>1, FreeGentle
  <2> HIDE DEF free
  <2>2. Landed(free, {p})
    BY <2>1 DEF Landed, InFlightPlan, Attached
  <2>3. Gentle(s, FailPlans(free, {p}))
    BY <1>1, <2>1, <2>2, FailPlansGentle, GentleTrans, GentleReady
  <2> QED
    BY <1>1, <1>2, <1>3, <2>3, GentleOffered DEF Gentle, Mild, Quiet, Calm, SameLists
<1>4. ASSUME ~CommitRefused(s, p) 
      PROVE /\ Offered(Commit(s, p), d, N, R, ch)
            /\ Commit(s, p).outcome = "clean" => s.outcome = "clean"
            /\ Commit(s, p).head = s.head
  <2>1. Commit(s, p) = r
    BY <1>2, <1>4
  <2>2. /\ plan.status = "executing" /\ plan.phase = "commit" /\ plan.cursor = q.cursor
        /\ plan.flush = Len(s.writes) + 1 /\ plan.target = q.target
    BY <1>1 DEF Plan
  <2> HIDE DEF plan, next, subs, slot, entries, nonces
  <2>3. /\ r.plans = [s.plans EXCEPT ![p] = plan] /\ r.nonces = nonces /\ r.writes = s.writes
        /\ r.resends = s.resends /\ r.entries = entries /\ r.slot = slot
        /\ r.outcome = s.outcome /\ r.head = s.head
    BY <1>1 DEF KernelState
  <2> HIDE DEF r
  <2>4. CommitsPlan(s, r, p)
    <3>1. /\ r.plans[p] = plan /\ \A y \in PlanIds \ {p} : r.plans[y] = s.plans[y]
      BY <1>1, <2>3 DEF KernelState
    <3> QED
      BY <2>2, <2>3, <3>1 DEF CommitsPlan, slot
  <2>5. \A o \in Offers :
          LET e == s.entries[o]
              f == r.entries[o]
          IN /\ e.state \in Held => /\ f.state \in Held /\ f.creators = e.creators
                                    /\ f.deadCreators = e.deadCreators
             /\ f.state \in {"intended", "signed"} => f = e
             /\ f.neutralized = e.neutralized /\ f.observed = e.observed
             /\ o \in x.exposes => f.state \in Held
             /\ x.kind = "tx" /\ o \in x.creates =>
                  /\ f.state \in Held /\ e.state \in {"intended", "signed"}
                  /\ hash \in f.creators /\ f.deadCreators = e.deadCreators
    <3>1. \A o \in Offers : r.entries[o] = CommittedEntry(s, x, hash, o)
      BY <2>3 DEF entries
    <3> HIDE DEF hash
    <3> TAKE o \in Offers
    <3> DEFINE e == s.entries[o]
               f == CommittedEntry(s, x, hash, o)
    <3>2. /\ e.state \in Held => /\ f.state \in Held /\ f.creators = e.creators
                                  /\ f.deadCreators = e.deadCreators
          /\ f.state \in {"intended", "signed"} => f = e
          /\ f.neutralized = e.neutralized /\ f.observed = e.observed
          /\ o \in x.exposes => f.state \in Held
          /\ x.kind = "tx" /\ o \in x.creates =>
               /\ f.state \in Held /\ e.state \in {"intended", "signed"}
               /\ hash \in f.creators /\ f.deadCreators = e.deadCreators
      BY <1>1, <1>4, CommittedEntryKept
    <3>3. r.entries[o] = f
      BY <3>1
    <3> HIDE DEF f, x
    <3> QED
      BY <3>2, <3>3
  <2>6. x.exposes \subseteq Offers /\ x \in StepSpec
    <3>1. StepsOf(p) \in Seq(StepSpec)
      BY StepsTyped
    <3>2. x \in StepSpec
      BY <3>1, ElementOfSeq DEF Step
    <3> QED
      BY <3>2 DEF StepSpec
  <2>7. Outside(r, N) = Outside(s, N)
    BY <2>3 DEF Outside
  <2>8. Covers(ch, r, R, Outside(r, N)) /\ \A n \in Nonces : SeenNonce(r, ch, n)
    <3>1. CASE tx
      <4> DEFINE cs == s.nonces[s.plans[p].nonce].candidates
                 t == [nonce |-> s.plans[p].nonce, place |-> Len(cs) + 1, plan |-> p,
                       step |-> s.plans[p].cursor]
                 new == RecordCandidate(s, p)
      <4>1. s.plans[p].nonce \in Nonces /\ nonces = new /\ hash = HashOf(t)
        BY <3>1 DEF nonces, HashOf
      <4>2. /\ t \in Tx
            /\ \A u \in Tx : LET ds == new[u.nonce].candidates
                             IN (u.place \in DOMAIN ds /\ ds[u.place].plan = u.plan
                                 /\ ds[u.place].step = u.step) <=> Lists(s, u) \/ u = t
            /\ \A m \in Nonces \ {s.plans[p].nonce} : new[m] = s.nonces[m]
            /\ new[s.plans[p].nonce].open
            /\ new[s.plans[p].nonce].resolution = s.nonces[s.plans[p].nonce].resolution
            /\ DOMAIN new[s.plans[p].nonce].candidates = DOMAIN cs \cup {Len(cs) + 1}
            /\ \A c \in DOMAIN cs : new[s.plans[p].nonce].candidates[c] = cs[c]
            /\ ~Out(new[s.plans[p].nonce].candidates[Len(cs) + 1])
        BY <1>1, <4>1, RecordedLists, ZenonT(60)
      <4>3. cs \in Seq(Candidate) /\ s.nonces \in [Nonces -> NonceRecord]
        BY <1>1, <4>1 DEF KernelState, NonceRecord
      <4>4. /\ t.nonce = s.plans[p].nonce /\ t.place = Len(cs) + 1 /\ t.plan = p
            /\ t.step = s.plans[p].cursor /\ Len(cs) \in Nat /\ DOMAIN cs = 1 .. Len(cs)
        BY <4>3, LenProperties
      <4>5. \A u \in Listed(s) : HashOf(u) # HashOf(t)
        <5> SUFFICES ASSUME NEW u \in Listed(s), u.nonce = t.nonce, u.place = t.place PROVE FALSE
          BY DEF HashOf
        <5>1. u.place \in DOMAIN cs
          BY <1>1, <4>4, ListedPlace
        <5> HIDE DEF cs, t
        <5> QED
          BY <4>4, <5>1
      <4>6. x = StepsOf(t.plan)[t.step] /\ Aimed(t)
        BY <4>4 DEF Step, Aimed
      <4> HIDE DEF t, cs, new, hash, x, q
      <4>7. r.nonces \in [Nonces -> NonceRecord]
        <5>1. Typed(Commit(s, p))
          BY <1>1, <4>1, CommitTyped
        <5> QED
          BY <2>1, <5>1 DEF Typed, KernelState
      <4>8. \A u \in Listed(r) : u \in Listed(s) \/ u = t
        <5> SUFFICES ASSUME NEW u \in Listed(r) PROVE u \in Listed(s) \/ u = t
          OBVIOUS
        <5>1. u \in Tx
          BY <4>7, ListedTyped
        <5>2. Lists(r, u)
          BY <5>1, ListedIsLists
        <5>3. /\ u.place \in DOMAIN new[u.nonce].candidates
              /\ new[u.nonce].candidates[u.place].plan = u.plan
              /\ new[u.nonce].candidates[u.place].step = u.step
          BY <2>3, <4>1, <5>2 DEF Lists
        <5>4. Lists(s, u) \/ u = t
          BY <4>2, <5>1, <5>3
        <5> QED
          BY <5>1, <5>4, ListedIsLists
      <4>9. Covers(ch, s, R, Outside(s, N)) /\ Fresh(s)
        BY DEF Offered
      <4>10. Covers(ch, r, R, Outside(s, N))
        BY <2>5, <3>1, <4>1, <4>5, <4>6, <4>8, <4>9, CoversCommitted DEF tx
      <4>11. ASSUME NEW n \in Nonces PROVE SeenNonce(r, ch, n)
        <5> DEFINE m == [s EXCEPT !.nonces = RecordCandidate(s, p)]
        <5>1. SeenNonce(m, ch, n)
          BY <4>1, RecordedSeen DEF Offered
        <5>2. m.nonces = r.nonces
          BY <1>1, <2>3, <4>1 DEF KernelState, new
        <5> HIDE DEF m
        <5>3. m.nonces[n] = r.nonces[n]
          BY <5>2
        <5> QED
          BY <5>1, <5>3, Zenon DEF SeenNonce
      <4> QED
        BY <2>7, <4>10, <4>11
    <3>2. CASE ~tx
      <4>1. r.nonces = s.nonces /\ Listed(r) = Listed(s)
        BY <2>3, <3>2 DEF nonces, Listed
      <4>2. Covers(ch, r, R, Outside(r, N))
        BY <2>5, <2>7, <4>1, CoversKept DEF Offered
      <4>3. \A n \in Nonces : SeenNonce(r, ch, n)
        BY <4>1 DEF SeenNonce, Offered, Witnessed
      <4> QED
        BY <4>2, <4>3
    <3> QED
      BY <3>1, <3>2
  <2>9. Works(r)
    BY <1>1, <2>4, CommitWorks DEF Offered, InFlightPlan, Attached
  <2>10. Releases(r, d, ch)
    BY <1>1, <2>4, <2>5, <2>6, CommitReleases DEF Offered
  <2>11. Fresh(r)
    BY <2>5 DEF Fresh, Offered
  <2>12. Witnessed(r, ch)
    <3>1. \A o \in Offers : SeenEntry(r, ch, o)
      BY <2>3, <2>5 DEF SeenEntry, Offered, Witnessed
    <3> QED
      BY <2>8, <3>1 DEF Witnessed
  <2>13. Stored(r, d, N, R, ch)
    BY <2>3, <2>7 DEF Stored, Offered
  <2> QED
    BY <2>1, <2>3, <2>8, <2>9, <2>10, <2>11, <2>12, <2>13 DEF Offered
<1> QED
  BY <1>3, <1>4

-----------------------------------------------------------------------------
(* The slot, the ledger, the end of an event.                              *)

\* the write a commit waits for is issued
Issued(s) == \A p \in InPhase(s, "commit") : s.plans[p].flush \in 1 .. Len(s.writes)

\* s stopped clean: nothing that it knew of can matter any more
Ended(s, N, ch) ==
  s.outcome = "clean" => /\ s.lifecycle = "stopped" /\ SettledOffers(s)
                         /\ \A t \in N : FinalOn(ch, t.nonce)

LEMMA DurableCovers ==
  ASSUME NEW s, Typed(s), Sound(s), NEW ch, NEW R, NEW X, Covers(ch, s, R, X)
  PROVE /\ Covers(ch, ToDurable(s), R, X) /\ Plain(ToDurable(s))
        /\ \A o \in Offers : s.entries[o].state \in Held =>
                               ToDurable(s).entries[o].state \in Held
<1> DEFINE l == ToDurable(s)
<1>1. \A o \in Offers : l.entries[o] = DurableEntry(s.entries[o])
  BY DEF ToDurable
<1>2. ASSUME NEW o \in Offers, s.entries[o].state \in Held
      PROVE /\ l.entries[o].state \in Held /\ l.entries[o].creators = s.entries[o].creators
            /\ l.entries[o].deadCreators = s.entries[o].deadCreators
  <2> DEFINE e == s.entries[o]
  <2>1. DurableEntry(e) = [NoEntry EXCEPT !.state = e.state, !.owner = e.owner, !.prior = e.prior,
                       !.neutralizing = e.neutralizing, !.creators = e.creators,
                       !.deadCreators = e.deadCreators, !.compensate = e.compensate]
    BY <1>2 DEF DurableEntry
  <2> HIDE DEF e
  <2>2. /\ DurableEntry(e).state = e.state /\ DurableEntry(e).creators = e.creators
        /\ DurableEntry(e).deadCreators = e.deadCreators
    BY <2>1 DEF NoEntry
  <2> QED
    BY <1>1, <1>2, <2>2 DEF e
<1>3. l \in Ledger /\ \A u \in Tx : Lists(l, u) <=> Lists(s, u)
  BY DurableLists
<1> HIDE DEF l
<1>4. Listed(l) = Listed(s)
  BY <1>3, ListedSame DEF SameListed, Ledger, Typed, KernelState
<1>5. Covers(ch, l, R, X)
  BY <1>2, <1>4, CoversKept
<1>6. ASSUME NEW o \in Offers
      PROVE l.entries[o].state \notin {"intended", "signed"} /\ ~l.entries[o].neutralized
  <2> DEFINE e == s.entries[o]
  <2>1. /\ NoEntry.state = "none" /\ ~NoEntry.neutralized
        /\ [NoEntry EXCEPT !.state = e.state, !.owner = e.owner, !.prior = e.prior,
                           !.neutralizing = e.neutralizing, !.creators = e.creators,
                           !.deadCreators = e.deadCreators, !.compensate = e.compensate].state = e.state
        /\ ~[NoEntry EXCEPT !.state = e.state, !.owner = e.owner, !.prior = e.prior,
                           !.neutralizing = e.neutralizing, !.creators = e.creators,
                           !.deadCreators = e.deadCreators, !.compensate = e.compensate].neutralized
    BY DEF NoEntry
  <2> QED
    BY <1>1, <2>1 DEF DurableEntry, Held
<1>7. Plain(l)
  BY <1>6 DEF Plain, Fresh
<1> QED
  BY <1>2, <1>5, <1>7 DEF l

LEMMA FlushOffered ==
  ASSUME NEW s, NEW d \in Ledger, NEW N, NEW R, NEW ch, Full(s, d, N, ch),
         Offered(s, d, N, R, ch)
  PROVE LET r == FlushIfChanged(s)
        IN /\ Offered(r, d, N, R, ch) /\ Issued(r)
           /\ r.outcome = s.outcome /\ r.head = s.head
<1> DEFINE l == ToDurable(s)
           awaited == \E p \in InPhase(s, "commit") : s.plans[p].flush > Len(s.writes)
           writes == Append(s.writes, l)
           r == [s EXCEPT !.writes = writes, !.lastDurable = l]
<1>1. Typed(s) /\ s \in KernelState /\ Sound(s)
  BY DEF Full, Typed, Safe
<1>2. FlushIfChanged(s) = IF l = s.lastDurable /\ ~awaited THEN s ELSE r
  BY DEF FlushIfChanged, Flush
<1>3. /\ Covers(ch, l, R, Outside(s, N)) /\ Plain(l)
      /\ \A o \in Offers : s.entries[o].state \in Held => l.entries[o].state \in Held
      /\ l \in Ledger
  BY <1>1, DurableCovers, DurableLists DEF Offered
<1> HIDE DEF l
<1>4. Len(s.writes) \in Nat /\ s.writes \in Seq(Ledger) /\ DOMAIN s.writes = 1 .. Len(s.writes)
  BY <1>1, WritesTyped
<1>5. \A p \in InPhase(s, "commit") : s.plans[p].flush \in 1 .. Len(s.writes) + 1
  BY DEF Offered, Works
<1>6. ASSUME ~awaited PROVE Issued(s)
  BY <1>4, <1>5, <1>6 DEF Issued
<1>7. /\ r.plans = s.plans /\ r.slot = s.slot /\ r.entries = s.entries /\ r.nonces = s.nonces
      /\ r.writes = writes /\ r.resends = s.resends /\ r.outcome = s.outcome
      /\ r.head = s.head
  BY <1>1 DEF KernelState
<1>8. /\ Len(writes) = Len(s.writes) + 1
      /\ DOMAIN writes = 1 .. Len(s.writes) + 1
      /\ \A w \in 1 .. Len(s.writes) : writes[w] = s.writes[w]
      /\ writes[Len(s.writes) + 1] = l
  BY <1>3, <1>4, AppendProperties, LenProperties
<1> HIDE DEF r, writes, awaited
<1>9. Issued(r)
  BY <1>5, <1>7, <1>8 DEF Issued, InPhase, Executing
<1>10. Works(r)
  <2>1. \A p \in InPhase(r, "commit") : r.plans[p].flush \in 1 .. Len(r.writes) + 1
    BY <1>4, <1>7, <1>8, <1>9 DEF Issued
  <2> QED
    BY <1>7, <2>1 DEF Works, Offered, AllFit, Occupies, InPhase, Executing, Step
<1>11. Outside(r, N) = Outside(s, N) /\ Listed(r) = Listed(s)
  BY <1>7 DEF Outside, Listed
<1>12. Covers(ch, r, R, Outside(r, N))
  BY <1>7, <1>11 DEF Offered, Covers, CoversOffer, Covered, Shielded
<1>13. Stored(r, d, N, R, ch)
  <2>1. ASSUME NEW w \in DOMAIN writes PROVE Covers(ch, writes[w], R, Outside(s, N)) /\ Plain(writes[w])
    <3>1. CASE w \in 1 .. Len(s.writes)
      BY <1>4, <1>8, <3>1 DEF Offered, Stored
    <3>2. CASE w = Len(s.writes) + 1
      BY <1>3, <1>8, <3>2
    <3> QED
      BY <1>4, <1>8, <3>1, <3>2
  <2> QED
    BY <1>7, <1>11, <2>1 DEF Offered, Stored
<1>14. Releases(r, d, ch)
  <2> SUFFICES ASSUME NEW p \in PlanIds, InFlightPlan(s.plans[p]), Step(s, p).kind # "tx",
                      NEW o \in Step(s, p).exposes, Exposure[o] = "broadcast", ~OverOn(ch, o)
               PROVE Releasable(r, d, p, o)
    BY <1>7 DEF Releases, Step
  <2>1. Releasable(s, d, p, o)
    BY DEF Offered, Releases
  <2>2. o \in Offers
    <3>1. StepsOf(p) \in Seq(StepSpec) /\ s.plans[p].cursor \in DOMAIN StepsOf(p)
      BY <1>1, StepsTyped, InFlightPlaced
    <3>2. Step(s, p) \in StepSpec
      BY <3>1, ElementOfSeq DEF Step
    <3> QED
      BY <3>2 DEF StepSpec
  <2>3. ASSUME NEW w \in DOMAIN writes,
               w >= s.plans[p].flush \/ s.plans[p].phase = "expose"
        PROVE writes[w].entries[o].state \in Held
    <3>1. CASE w \in 1 .. Len(s.writes)
      BY <1>4, <1>8, <2>1, <2>3, <3>1 DEF Releasable
    <3>2. CASE w = Len(s.writes) + 1
      BY <1>3, <1>8, <2>1, <2>2, <3>2 DEF Releasable
    <3> QED
      BY <1>4, <1>8, <3>1, <3>2
  <2> QED
    BY <1>7, <2>1, <2>3 DEF Releasable
<1>15. Fresh(r) /\ Witnessed(r, ch)
  BY <1>7 DEF Fresh, Witnessed, SeenNonce, SeenEntry, Offered
<1>16. Offered(r, d, N, R, ch)
  BY <1>10, <1>12, <1>13, <1>14, <1>15 DEF Offered
<1> QED
  BY <1>2, <1>6, <1>7, <1>9, <1>16

LEMMA CheckStoppedOffered ==
  ASSUME NEW s, NEW d, NEW N \in SUBSET Tx, NEW R, NEW ch, Full(s, d, N, ch), Offered(s, d, N, R, ch),
         Issued(s), s.outcome # "clean"
  PROVE LET r == CheckStopped(s)
        IN Offered(r, d, N, R, ch) /\ Issued(r) /\ Ended(r, N, ch) /\ r.head = s.head
<1> DEFINE quiet == /\ SettledOffers(s)
                    /\ \A n \in Nonces : ~s.nonces[n].open
                    /\ SettledPlans(s)
                    /\ Durable(s)
           r == CheckStopped(s)
<1>1. Typed(s) /\ Ready(s)
  BY DEF Full, Safe, Ready
<1>2. r \in {s, Stop(s, "clean"), Stop(s, "unsafe")} /\ (r = Stop(s, "clean") => quiet \/ r = s \/ r = Stop(s, "unsafe"))
  BY DEF CheckStopped, StopWhen
<1>3. \A x \in {"clean", "unsafe"} :
        LET u == Stop(s, x)
        IN /\ u.plans = s.plans /\ u.slot = s.slot /\ u.entries = s.entries
           /\ u.nonces = s.nonces /\ u.writes = s.writes /\ u.resends = s.resends
           /\ u.outcome = x /\ u.lifecycle = "stopped" /\ u.head = s.head
  BY <1>1 DEF Stop, Typed, KernelState
<1> HIDE DEF r
<1>4. /\ r.plans = s.plans /\ r.slot = s.slot /\ r.entries = s.entries
      /\ r.nonces = s.nonces /\ r.writes = s.writes /\ r.resends = s.resends
      /\ r.outcome = "clean" => quiet /\ r.lifecycle = "stopped"
      /\ r.head = s.head
  BY <1>2, <1>3
<1> HIDE DEF quiet
<1>5. Offered(r, d, N, R, ch)
  <2>1. Works(r)
    BY <1>4, PlansWork DEF Offered
  <2> QED
    BY <1>1, <1>4, <2>1, PlansBack, OnePlanOffered
<1>6. Issued(r)
  BY <1>4 DEF Issued, InPhase, Executing
<1>7. ASSUME quiet, NEW t \in N PROVE FinalOn(ch, t.nonce)
  <2>1. FinalOn(ch, t.nonce) \/ Lists(s, t)
    BY DEF Full, Safe, Outside
  <2>2. ASSUME Lists(s, t), t \in Tx PROVE FALSE
    BY <1>7, <2>2 DEF Lists, quiet, Full, Safe, Sound, Tx
  <2> QED
    BY <2>1, <2>2
<1>8. Ended(r, N, ch)
  BY <1>4, <1>7 DEF Ended, quiet, SettledOffers
<1> QED
  BY <1>4, <1>5, <1>6, <1>8 DEF r

\* in the course of an event: not stopped clean, and at the head of the chain
Attended(s, d, N, R, ch) ==
  /\ Full(s, d, N, ch) /\ Offered(s, d, N, R, ch)
  /\ s.outcome # "clean" /\ s.head \in {0, ch.head}

LEMMA AttendedGentle ==
  ASSUME NEW s, NEW r, NEW d \in Ledger, NEW N \in SUBSET Tx, NEW R, NEW ch,
         Attended(s, d, N, R, ch), Gentle(s, r)
  PROVE Attended(r, d, N, R, ch)
<1>1. Full(r, d, N, ch)
  BY FullReady, QuietOnward DEF Attended, Gentle, Onward
<1>2. Offered(r, d, N, R, ch)
  BY FullReady, GentleOffered DEF Attended
<1> QED
  BY <1>1, <1>2 DEF Attended, Gentle, Mild, Quiet, Calm, SameLists

LEMMA DispatchRecoveriesOffered ==
  ASSUME NEW d \in Ledger, NEW N \in SUBSET Tx, NEW R, NEW ch, NEW s,
         Attended(s, d, N, R, ch), s.slot = Free
  PROVE Attended(DispatchRecoveries(s, RecoveryPlans(InPhase(s, "await-slot"))), d, N, R, ch)
<1> DEFINE W == RecoveryPlans(InPhase(s, "await-slot"))
           first == First(s, {p \in W : Signable(s, p)})
           r == PassRecoveries(s, Reached(s, W, first))
<1>0. Full(s, d, N, ch) /\ Ready(s) /\ Typed(s) /\ AllFit(s)
  BY FullReady DEF Attended, Offered, Works
<1>1. DispatchRecoveries(s, W) = SlotToRecovery(r, first)
  <2>1. Value(r) = r
    BY ValueIsItself
  <2>2. DispatchRecoveries(s, W) = RecoveriesTo(s, W, first)
    BY DEF DispatchRecoveries
  <2>3. RecoveriesTo(s, W, first) = SlotToRecovery(Value(r), first)
    BY DEF RecoveriesTo
  <2> QED
    BY <2>1, <2>2, <2>3
<1>2. /\ Reached(s, W, first) \in SUBSET W
      /\ \A p \in first : p \in W /\ Signable(s, p)
  BY DEF Reached, First
<1>3. \A p \in W : p \in InPhase(s, "await-slot") /\ Recovery(p)
  BY DEF RecoveryPlans
<1>4. /\ Typed(r) /\ r.nextNonce = s.nextNonce
      /\ \A p \in PlanIds : Recovery(p) /\ Signable(s, p) => r.plans[p] = s.plans[p]
  BY <1>0, <1>2, PassRecoveriesTyped
<1>5. Gentle(s, r)
  BY <1>0, <1>2, PassRecoveriesGentle
<1> HIDE DEF first, r, W
<1>6. Attended(r, d, N, R, ch) /\ r.slot = Free
  BY <1>5, AttendedGentle DEF Gentle, Mild, KeptSlot
<1>7. ASSUME first = {} PROVE Attended(DispatchRecoveries(s, W), d, N, R, ch)
  BY <1>1, <1>6, <1>7 DEF SlotToRecovery
<1>8. ASSUME first # {} PROVE Attended(DispatchRecoveries(s, W), d, N, R, ch)
  <2>1. PICK p \in first : p = CHOOSE q \in first : TRUE
    BY <1>8
  <2>2. /\ p \in PlanIds /\ ~InFlightPlan(s.plans[p])
        /\ s.plans[p].status = "executing" /\ Signable(s, p)
        /\ Recovery(p) /\ Step(s, p).kind = "tx"
    BY <1>0, <1>2, <1>3, WaitingGentle
  <2>3. r.plans[p] = s.plans[p]
    BY <1>4, <2>2
  <2>4. NonceFor(s, p) \in Nonces
    BY <2>2 DEF Signable
  <2>5. NonceFor(r, p) = NonceFor(s, p) /\ Step(r, p) = Step(s, p)
    BY <1>4, <2>3, NonceForKept DEF Step
  <2>6. SlotToRecovery(r, first) = Sign(r, p, NonceFor(r, p))
    <3> DEFINE pick == CHOOSE q \in first : TRUE
    <3>1. SlotToRecovery(r, first) = Sign(r, pick, NonceFor(r, pick))
      BY <1>8 DEF SlotToRecovery
    <3>2. pick = p
      BY <2>1
    <3> HIDE DEF pick
    <3> QED
      BY <3>1, <3>2
  <2>7. Offered(Sign(r, p, NonceFor(r, p)), d, N, R, ch)
    BY <1>4, <1>6, <2>2, <2>3, <2>4, <2>5, SignOffered DEF Attended
  <2>8. Onward(s, DispatchRecoveries(s, W), d, N, ch)
    BY <1>0, DispatchRecoveriesOnward DEF W
  <2>9. LET u == Sign(r, p, NonceFor(r, p)) IN u.outcome = r.outcome /\ u.head = r.head
    BY <1>4 DEF Sign, Typed, KernelState
  <2> QED
    BY <1>1, <1>6, <2>6, <2>7, <2>8, <2>9 DEF Attended, Onward
<1>9. Attended(DispatchRecoveries(s, W), d, N, R, ch)
  BY <1>7, <1>8
<1> QED
  BY <1>9 DEF W

LEMMA DispatchStepsOffered ==
  ASSUME NEW d \in Ledger, NEW N \in SUBSET Tx, NEW R, NEW ch \in Chains, NEW s,
         Attended(s, d, N, R, ch), MinedSent(ch, N), s.slot = Free
  PROVE Attended(DispatchSteps(s, StepPlans(InPhase(s, "await-slot"))), d, N, R, ch)
<1> DEFINE W == StepPlans(InPhase(s, "await-slot"))
           allowed == {p \in W : StillAuthorized(s, p)}
           first == First(s, {p \in allowed : Releasing(s, p) \/ Signable(s, p)})
           r == PassSteps(s, Reached(s, W, first), allowed)
<1>0. Full(s, d, N, ch) /\ Ready(s) /\ Typed(s) /\ AllFit(s)
  BY FullReady DEF Attended, Offered, Works
<1>1. DispatchSteps(s, W) = SlotToStep(r, first)
  <2>1. Value(r) = r
    BY ValueIsItself
  <2>2. DispatchSteps(s, W) = StepsTo(s, W, allowed, first)
    BY DEF DispatchSteps, StepsAmong
  <2>3. StepsTo(s, W, allowed, first) = SlotToStep(Value(r), first)
    BY DEF StepsTo
  <2> QED
    BY <2>1, <2>2, <2>3
<1>2. /\ Reached(s, W, first) \in SUBSET W
      /\ \A p \in first : p \in allowed /\ (Releasing(s, p) \/ Signable(s, p))
      /\ allowed \subseteq W
  BY DEF Reached, First
<1>3. W \subseteq InPhase(s, "await-slot")
  BY DEF StepPlans
<1> HIDE DEF first, allowed, W
<1>4. /\ Typed(r) /\ r.nextNonce = s.nextNonce
      /\ \A p \in PlanIds \cap allowed : Releasing(s, p) \/ Signable(s, p) =>
           r.plans[p] = s.plans[p]
  BY <1>0, <1>2, <1>3, PassStepsTyped
<1>5. Gentle(s, r)
  <2>1. Reached(s, W, first) \in SUBSET InPhase(s, "await-slot")
    BY <1>2, <1>3
  <2> QED
    BY <1>0, <2>1, PassStepsGentle
<1> HIDE DEF r
<1>6. Attended(r, d, N, R, ch) /\ r.slot = Free
  BY <1>5, AttendedGentle DEF Gentle, Mild, KeptSlot
<1>7. ASSUME first = {} PROVE Attended(DispatchSteps(s, W), d, N, R, ch)
  BY <1>1, <1>6, <1>7 DEF SlotToStep
<1>8. ASSUME first # {} PROVE Attended(DispatchSteps(s, W), d, N, R, ch)
  <2>1. PICK p \in first : p = CHOOSE q \in first : TRUE
    BY <1>8
  <2>2. /\ p \in PlanIds /\ s.plans[p].cursor \in DOMAIN StepsOf(p)
        /\ ~Attached(s.plans[p]) /\ ~InFlightPlan(s.plans[p])
        /\ s.plans[p].status = "executing" /\ s.plans[p].phase = "await-slot"
        /\ ~Releasing(s, p) => Step(s, p).kind = "tx"
    BY <1>0, <1>2, <1>3, WaitingGentle
  <2>3. r.plans[p] = s.plans[p]
    BY <1>2, <1>4, <2>2
  <2>4. SlotToStep(r, first) =
          IF Releasing(r, p) THEN Commit(r, p) ELSE Sign(r, p, NonceFor(r, p))
    <3> DEFINE pick == CHOOSE q \in first : TRUE
    <3>1. SlotToStep(r, first) =
            IF Releasing(r, pick) THEN Commit(r, pick) ELSE Sign(r, pick, NonceFor(r, pick))
      BY <1>8 DEF SlotToStep
    <3>2. pick = p
      BY <2>1
    <3> HIDE DEF pick
    <3> QED
      BY <3>1, <3>2
  <2>5. Onward(s, DispatchSteps(s, W), d, N, ch)
    BY <1>0, DispatchStepsOnward DEF W
  <2>6. ASSUME Releasing(r, p) PROVE Attended(DispatchSteps(s, W), d, N, R, ch)
    <3>1. Step(r, p).kind # "tx"
      BY <2>6 DEF Releasing
    <3>2. Offered(Commit(r, p), d, N, R, ch) /\ Commit(r, p).outcome # "clean"
          /\ Commit(r, p).head = r.head
      BY <1>6, <2>2, <2>3, <3>1, CommitOffered DEF Attended
    <3> QED
      BY <1>1, <1>6, <2>4, <2>5, <2>6, <3>2 DEF Attended, Onward
  <2>7. ASSUME ~Releasing(r, p) PROVE Attended(DispatchSteps(s, W), d, N, R, ch)
    <3>1. ~Releasing(s, p) /\ Step(r, p) = Step(s, p)
      BY <2>3, <2>7 DEF Releasing, Step
    <3>2. NonceFor(s, p) \in Nonces
      BY <1>2, <3>1 DEF Signable
    <3>3. NonceFor(r, p) = NonceFor(s, p)
      BY <1>4, <2>3, NonceForKept
    <3>4. Offered(Sign(r, p, NonceFor(r, p)), d, N, R, ch)
      BY <1>4, <1>6, <2>2, <2>3, <3>1, <3>2, <3>3, SignOffered DEF Attended
    <3>5. LET u == Sign(r, p, NonceFor(r, p)) IN u.outcome = r.outcome /\ u.head = r.head
      BY <1>4 DEF Sign, Typed, KernelState
    <3> QED
      BY <1>1, <1>6, <2>4, <2>5, <2>7, <3>4, <3>5 DEF Attended, Onward
  <2> QED
    BY <2>6, <2>7
<1>9. Attended(DispatchSteps(s, W), d, N, R, ch)
  BY <1>7, <1>8
<1> QED
  BY <1>9 DEF W

LEMMA DispatchSlotOffered ==
  ASSUME NEW d \in Ledger, NEW N \in SUBSET Tx, NEW R, NEW ch \in Chains, NEW s,
         Attended(s, d, N, R, ch), MinedSent(ch, N)
  PROVE Attended(DispatchSlot(s), d, N, R, ch)
<1> DEFINE r == DispatchRecoveries(s, RecoveryPlans(InPhase(s, "await-slot")))
<1>1. s.slot = Free => Attended(r, d, N, R, ch)
  BY DispatchRecoveriesOffered
<1>2. DispatchSlot(s) = IF s.slot # Free THEN s ELSE DispatchRest(r)
  BY ValueIsItself DEF DispatchSlot
<1> HIDE DEF r
<1>3. Attended(r, d, N, R, ch) => Attended(DispatchRest(r), d, N, R, ch)
  BY DispatchStepsOffered DEF DispatchRest
<1> QED
  BY <1>1, <1>2, <1>3

LEMMA SettleNoncesAttended ==
  ASSUME NEW d \in Ledger, NEW N \in SUBSET Tx, NEW R, NEW ch \in Chains, NEW s,
         Attended(s, d, N, R, ch)
  PROVE Attended(SettleNonces(s), d, N, R, ch)
<1>1. Typed(s) /\ Evidence(s, ch) /\ Full(s, d, N, ch) /\ Offered(s, d, N, R, ch)
  BY DEF Attended, Full, Safe
<1>2. SettleNonces(s).outcome = s.outcome /\ SettleNonces(s).head = s.head
  BY <1>1 DEF SettleNonces, Typed, KernelState
<1>3. Offered(SettleNonces(s), d, N, R, ch)
  BY <1>1, SettleNoncesOffered
<1>4. Full(SettleNonces(s), d, N, ch)
  BY <1>1, SettleNoncesOnward DEF Onward, Chains
<1> QED
  BY <1>2, <1>3, <1>4 DEF Attended

LEMMA SettleEntriesAttended ==
  ASSUME NEW d \in Ledger, NEW N \in SUBSET Tx, NEW R, NEW ch \in Chains, NEW s,
         Attended(s, d, N, R, ch)
  PROVE Attended(SettleEntries(s), d, N, R, ch)
<1>1. /\ Typed(s) /\ Evidence(s, ch) /\ Full(s, d, N, ch) /\ Offered(s, d, N, R, ch)
      /\ Ready(s)
  BY FullReady DEF Attended, Full, Safe
<1>2. SettleEntries(s).outcome = s.outcome /\ SettleEntries(s).head = s.head
  BY <1>1 DEF SettleEntries, Typed, KernelState
<1>3. Offered(SettleEntries(s), d, N, R, ch)
  BY <1>1, SettleEntriesOffered
<1>4. Full(SettleEntries(s), d, N, ch)
  BY <1>1, SettleEntriesQuiet, QuietOnward DEF Onward
<1> QED
  BY <1>2, <1>3, <1>4 DEF Attended

LEMMA RebroadcastAttended ==
  ASSUME NEW d \in Ledger, NEW N \in SUBSET Tx, NEW R, NEW ch, ch.head \in Nat, NEW s,
         Attended(s, d, N, R, ch)
  PROVE Attended(Rebroadcast(s), d, N, R, ch)
<1>1. Typed(s) /\ Full(s, d, N, ch) /\ Offered(s, d, N, R, ch)
  BY DEF Attended, Full
<1>2. Mild(s, Rebroadcast(s)) /\ Rebroadcast(s).head = s.head
  BY <1>1, RebroadcastMild DEF Rebroadcast, Typed, KernelState
<1>3. Offered(Rebroadcast(s), d, N, R, ch)
  BY <1>1, RebroadcastOffered
<1>4. Full(Rebroadcast(s), d, N, ch)
  BY <1>1, RebroadcastOnward DEF Onward
<1> QED
  BY <1>2, <1>3, <1>4 DEF Attended, Mild

LEMMA FlushAttended ==
  ASSUME NEW d \in Ledger, NEW N \in SUBSET Tx, NEW R, NEW ch, NEW s,
         Attended(s, d, N, R, ch)
  PROVE Attended(FlushIfChanged(s), d, N, R, ch) /\ Issued(FlushIfChanged(s))
<1>1. Full(s, d, N, ch) /\ Offered(s, d, N, R, ch)
  BY DEF Attended
<1>2. /\ Offered(FlushIfChanged(s), d, N, R, ch) /\ Issued(FlushIfChanged(s))
      /\ FlushIfChanged(s).outcome = s.outcome /\ FlushIfChanged(s).head = s.head
  BY <1>1, FlushOffered
<1>3. Full(FlushIfChanged(s), d, N, ch)
  BY <1>1, FlushIfChangedOnward DEF Onward
<1> QED
  BY <1>2, <1>3 DEF Attended

LEMMA AfterEventOffered ==
  ASSUME NEW d \in Ledger, NEW N \in SUBSET Tx, NEW R, NEW ch \in Chains, NEW s,
         Attended(s, d, N, R, ch), MinedSent(ch, N)
  PROVE LET r == AfterEvent(s)
        IN Offered(r, d, N, R, ch) /\ Issued(r) /\ Ended(r, N, ch) /\ r.head \in {0, ch.head}
<1> DEFINE a1 == ProgressPlans(s)
           a2 == SettleNonces(a1)
           a3 == SettleEntries(a2)
           a4 == SettleCompensation(a3)
           a5 == LatchBound(a4)
           a6 == CheckStarted(a5)
           a7 == Rebroadcast(a6)
           a8 == Recover(a7)
           a9 == DispatchSlot(a8)
           a10 == FlushIfChanged(a9)
           a11 == CheckStopped(a10)
           Well(u) == Attended(u, d, N, R, ch)
<1>0. ch.head \in Nat
  BY DEF Chains
<1>1. AfterEvent(s) = PruneFinished(a11)
  BY ValueIsItself DEF AfterEvent
<1>2. \A r, u : Well(r) /\ Gentle(r, u) => Well(u)
  BY AttendedGentle
<1>3. \A r : Well(r) => Ready(r) /\ AllFit(r)
  BY FullReady DEF Attended, Offered, Works
<1>4. Well(s)
  OBVIOUS
<1> HIDE DEF Well
<1>5. Well(a1)
  BY <1>2, <1>3, <1>4, ProgressPlansGentle
<1> HIDE DEF a1
<1>6. Well(a2)
  BY <1>5, SettleNoncesAttended DEF Well
<1> HIDE DEF a2
<1>7. Well(a3)
  BY <1>6, SettleEntriesAttended DEF Well
<1> HIDE DEF a3
<1>8. Well(a4)
  BY <1>2, <1>3, <1>7, SettleCompensationGentle
<1> HIDE DEF a4
<1>9. Well(a5)
  BY <1>2, <1>3, <1>8, LatchBoundGentle
<1> HIDE DEF a5
<1>10. Well(a6)
  BY <1>2, <1>3, <1>9, CheckStartedGentle
<1> HIDE DEF a6
<1>11. Well(a7)
  BY <1>0, <1>10, RebroadcastAttended DEF Well
<1> HIDE DEF a7
<1>12. Well(a8)
  BY <1>2, <1>3, <1>11, RecoverGentle
<1> HIDE DEF a8
<1>13. Well(a9)
  BY <1>12, DispatchSlotOffered DEF Well
<1> HIDE DEF a9
<1>14. Well(a10) /\ Issued(a10)
  BY <1>13, FlushAttended DEF Well
<1> HIDE DEF a10
<1>15. /\ Offered(a11, d, N, R, ch) /\ Issued(a11) /\ Ended(a11, N, ch)
       /\ a11.head \in {0, ch.head}
  BY <1>14, CheckStoppedOffered DEF Well, Attended
<1>16. Typed(a11) /\ Ready(a11)
  BY <1>3, <1>14, CheckStoppedQuiet DEF Quiet, Ready
<1> HIDE DEF a11
<1> DEFINE r == PruneFinished(a11)
<1>17. /\ r.plans = a11.plans /\ r.writes = a11.writes /\ r.entries = a11.entries
       /\ r.outcome = a11.outcome /\ r.lifecycle = a11.lifecycle /\ r.head = a11.head
  BY <1>16 DEF PruneFinished, Typed, KernelState
<1>18. Offered(r, d, N, R, ch)
  BY <1>15, <1>16, PruneFinishedGentle, GentleOffered
<1> HIDE DEF r
<1>19. Issued(r) /\ Ended(r, N, ch) /\ r.head \in {0, ch.head}
  BY <1>15, <1>17 DEF Issued, Ended, InPhase, Executing, SettledOffers
<1> QED
  BY <1>1, <1>18, <1>19 DEF r

\* What a handler leaves of an attended kernel, the rest of the event attends to.
LEMMA ReduceOffered ==
  ASSUME NEW d \in Ledger, NEW N \in SUBSET Tx, NEW R, NEW ch \in Chains, NEW s,
         Attended(s, d, N, R, ch), MinedSent(ch, N)
  PROVE LET r == Reduce(s)
        IN /\ Offered(r, d, N, R, ch) /\ Ended(r, N, ch) /\ r.head \in {0, ch.head}
           /\ r.lifecycle \notin {"idle", "stopped"} => Issued(r)
<1>2. CASE s.lifecycle \in {"idle", "stopped"}
  <2>1. Reduce(s) = s
    BY <1>2 DEF Reduce
  <2> QED
    BY <1>2, <2>1 DEF Ended, Attended
<1>3. CASE s.lifecycle \notin {"idle", "stopped"}
  <2>1. Reduce(s) = AfterEvent(s)
    BY <1>3, ValueIsItself DEF Reduce
  <2> QED
    BY <2>1, AfterEventOffered
<1> QED
  BY <1>2, <1>3

-----------------------------------------------------------------------------
(* Handlers that touch what the offers are held by.                        *)

\* what is held stays held, whatever else is known of it
StillHeld(s, r) ==
  \A o \in Offers : LET e == s.entries[o]
                        f == r.entries[o]
                    IN e.state \in Held => /\ f.state \in Held /\ f.creators = e.creators
                                           /\ f.deadCreators = e.deadCreators

LEMMA KeptOffered ==
  ASSUME NEW s, NEW r, NEW d, NEW N, NEW R, NEW ch, Typed(s), Offered(s, d, N, R, ch),
         Works(r), Back(s, r), r.writes = s.writes, r.resends \subseteq s.resends,
         Listed(r) \subseteq Listed(s), StillHeld(s, r), Fresh(r), Witnessed(r, ch)
  PROVE Offered(r, d, N, R, ch)
<1>1. Outside(r, N) \subseteq Outside(s, N)
  BY DEF Outside
<1>2. Covers(ch, r, R, Outside(r, N))
  BY <1>1, CoversKept DEF StillHeld, Offered
<1>3. Covers(ch, d, R, Outside(r, N))
  BY <1>1, CoversKept DEF Offered, Stored
<1>4. \A w \in DOMAIN s.writes : Covers(ch, s.writes[w], R, Outside(r, N))
  BY <1>1, CoversKept DEF Offered, Stored
<1>5. Stored(r, d, N, R, ch)
  BY <1>3, <1>4 DEF Offered, Stored
<1>6. Releases(r, d, ch)
  BY InFlightPlaced, ReleasesKept DEF Offered, StillHeld
<1> QED
  BY <1>2, <1>5, <1>6 DEF Offered

LEMMA AttendedTame ==
  ASSUME NEW s, NEW r, NEW d, NEW N, NEW R, NEW ch, Attended(s, d, N, R, ch), Tame(s, r),
         Full(r, d, N, ch), r.head \in {0, ch.head}
  PROVE Attended(r, d, N, R, ch)
<1>1. Offered(r, d, N, R, ch)
  BY TameOffered DEF Attended, Full
<1> QED
  BY <1>1 DEF Attended, Tame, Mild

\* the plans, the slot and the transactions as they were
LEMMA EvidenceOffered ==
  ASSUME NEW s, NEW r, NEW d, NEW N, NEW R, NEW ch, Typed(s), Offered(s, d, N, R, ch),
         r.plans = s.plans, r.slot = s.slot, r.writes = s.writes, r.resends = s.resends,
         \A n \in Nonces : SameTxs(s.nonces[n], r.nonces[n]),
         StillHeld(s, r), Fresh(r), Witnessed(r, ch)
  PROVE Offered(r, d, N, R, ch)
<1>1. Listed(r) \subseteq Listed(s)
  <2>1. ASSUME NEW n \in Nonces, NEW c \in DOMAIN r.nonces[n].candidates
        PROVE TxAt(n, c, r.nonces[n].candidates[c]) \in Listed(s)
    BY <2>1 DEF SameTxs, Listed, TxAt
  <2> QED
    BY <2>1 DEF Listed
<1>2. Works(r) /\ Back(s, r)
  BY PlansWork, PlansBack DEF Offered
<1> QED
  BY <1>1, <1>2, KeptOffered

\* p, which exposed, is done with it, and gives back the slot if it had it
LandsPlan(s, r, p) ==
  /\ \A x \in PlanIds \ {p} : r.plans[x] = s.plans[x]
  /\ LET u == r.plans[p]
     IN /\ u.status = s.plans[p].status /\ u.target = s.plans[p].target
        /\ u.phase \in {"include", "ready"}
  /\ r.slot = IF s.slot = p THEN Free ELSE s.slot
  /\ r.writes = s.writes

LEMMA LandedWorks ==
  ASSUME NEW s, NEW r, Works(s), NEW p \in PlanIds, s.plans[p].phase = "expose",
         LandsPlan(s, r, p)
  PROVE Works(r) /\ Back(s, r)
<1>1. AllFit(r)
  <2>1. Fits(p, r.plans[p])
    BY DEF Works, AllFit, Fits, LandsPlan
  <2> QED
    BY <2>1 DEF Works, AllFit, LandsPlan
<1>2. \A x \in PlanIds : InFlightPlan(r.plans[x]) => x # p
  BY DEF LandsPlan, InFlightPlan
<1>3. Back(s, r)
  BY <1>2 DEF Back, LandsPlan
<1>4. InPhase(r, "commit") = InPhase(s, "commit")
       /\ \A x \in InPhase(s, "commit") : r.plans[x] = s.plans[x]
  BY DEF InPhase, Executing, LandsPlan
<1>5. ASSUME r.slot \in PlanIds PROVE Occupies(r, r.slot)
  <2>1. r.slot = s.slot /\ r.slot # p
    BY <1>5, NotPlans DEF LandsPlan
  <2>2. r.plans[r.slot] = s.plans[r.slot]
    BY <1>5, <2>1 DEF LandsPlan
  <2> QED
    BY <1>5, <2>1, <2>2 DEF Works, Occupies, Step
<1>6. r.slot = Committing => s.slot = Committing
  BY DEF LandsPlan, Free, Committing
<1> QED
  BY <1>1, <1>3, <1>4, <1>5, <1>6 DEF Works, LandsPlan

\* what p exposes is released: every ledger that may matter holds it
LEMMA ReleasedOffered ==
  ASSUME NEW s, NEW d, NEW N, NEW R, NEW ch, Typed(s), Offered(s, d, N, R, ch),
         NEW p \in PlanIds, s.plans[p].status = "executing", s.plans[p].phase = "expose",
         Step(s, p).kind # "tx"
  PROVE Offered(s, d, N, R \cup Step(s, p).exposes, ch)
<1> DEFINE new == Step(s, p).exposes
<1>1. \A o \in Offers : o \in new /\ Exposure[o] = "broadcast" /\ ~OverOn(ch, o) =>
        /\ s.entries[o].state \in Held /\ d.entries[o].state \in Held
        /\ \A w \in DOMAIN s.writes : s.writes[w].entries[o].state \in Held
  BY DEF Offered, Releases, Releasable, InFlightPlan
<1> HIDE DEF new
<1>2. ASSUME NEW l, Covers(ch, l, R, Outside(s, N)),
             \A o \in Offers : o \in new /\ Exposure[o] = "broadcast" /\ ~OverOn(ch, o) =>
                                 l.entries[o].state \in Held
      PROVE Covers(ch, l, R \cup new, Outside(s, N))
  <2>1. ASSUME NEW o \in Offers, ~OverOn(ch, o)
        PROVE CoversOffer(ch, l, R \cup new, Outside(s, N), o)
    <3>1. CoversOffer(ch, l, R, Outside(s, N), o)
      BY <1>2, <2>1 DEF Covers
    <3> QED
      BY <1>2, <2>1, <3>1 DEF CoversOffer
  <2> QED
    BY <1>2, <2>1 DEF Covers
<1>3. Stored(s, d, N, R \cup new, ch) /\ Covers(ch, s, R \cup new, Outside(s, N))
  BY <1>1, <1>2 DEF Offered, Stored
<1> QED
  BY <1>3 DEF Offered, new

-----------------------------------------------------------------------------
(* The chain moves under what is offered.                                  *)

\* what was final on ch is, as it was, on ci, which is as high
Follows(ch, ci) ==
  /\ ch.head <= ci.head
  /\ \A n \in Nonces : FinalOn(ch, n) => FinalOn(ci, n) /\ ci.mined[n + 1] = ch.mined[n + 1]

LEMMA FollowsOver ==
  ASSUME NEW ch \in Chains, NEW ci \in Chains, Follows(ch, ci)
  PROVE /\ \A o \in Offers : OverOn(ch, o) => OverOn(ci, o)
        /\ \A t \in Tx : \A o : Makes(ci, t, o) => Makes(ch, t, o)
<1>1. ch.head \in Nat /\ ci.head \in Nat /\ FinalityLag \in Nat
  BY BoundsAssumption DEF Chains
<1>2. ASSUME NEW o \in Offers, OverOn(ch, o) PROVE OverOn(ci, o)
  <2>1. Expiry[o] \in Int
    BY StepsAssumption
  <2>2. ch.head - FinalityLag > Expiry[o] => ci.head - FinalityLag > Expiry[o]
    BY <1>1, <2>1 DEF Follows
  <2> QED
    BY <1>2, <2>2 DEF OverOn, Follows
<1>3. \A t \in Tx : t.nonce \in Nonces
  BY DEF Tx
<1>4. \A t \in Tx : DeadOn(ch, t) => DeadOn(ci, t)
  BY <1>3 DEF DeadOn, Follows
<1> QED
  BY <1>2, <1>4 DEF Makes

LEMMA FollowsCovers ==
  ASSUME NEW ch \in Chains, NEW ci \in Chains, Follows(ch, ci), NEW l, NEW R, NEW X,
         X \cup Listed(l) \subseteq Tx, Covers(ch, l, R, X)
  PROVE Covers(ci, l, R, X)
<1>1. ASSUME NEW o \in Offers, ~OverOn(ci, o) PROVE CoversOffer(ci, l, R, X, o)
  <2>1. CoversOffer(ch, l, R, X, o)
    BY <1>1, FollowsOver DEF Covers
  <2>2. \A t \in X \cup Listed(l) : Makes(ci, t, o) => Makes(ch, t, o)
    BY FollowsOver
  <2> QED
    BY <2>1, <2>2 DEF CoversOffer
<1> QED
  BY <1>1 DEF Covers

LEMMA FollowsStored ==
  ASSUME NEW ch \in Chains, NEW ci \in Chains, Follows(ch, ci), NEW s, NEW d \in Ledger,
         NEW N \in SUBSET Tx, NEW R, s.writes \in Seq(Ledger), s.resends \subseteq Tx,
         Stored(s, d, N, R, ch)
  PROVE Stored(s, d, N, R, ci)
<1>1. \A l \in Ledger : Outside(s, N) \cup Listed(l) \subseteq Tx
  BY ListedTyped DEF Ledger, Outside
<1>2. \A w \in DOMAIN s.writes : s.writes[w] \in Ledger
  OBVIOUS
<1> QED
  BY <1>1, <1>2, FollowsCovers DEF Stored

LEMMA FollowsEnded ==
  ASSUME NEW ch, NEW ci, Follows(ch, ci), NEW s, NEW N \in SUBSET Tx, Ended(s, N, ch)
  PROVE Ended(s, N, ci)
BY DEF Ended, Follows, Tx

LEMMA FollowsOffered ==
  ASSUME NEW ch \in Chains, NEW ci \in Chains, Follows(ch, ci), NEW s, Typed(s),
         NEW d \in Ledger, NEW N \in SUBSET Tx, NEW R, Offered(s, d, N, R, ch), Witnessed(s, ci)
  PROVE Offered(s, d, N, R, ci)
<1>1. s.writes \in Seq(Ledger) /\ s.resends \subseteq Tx
      /\ s.nonces \in [Nonces -> NonceRecord]
  BY DEF Typed, KernelState
<1>2. Outside(s, N) \cup Listed(s) \subseteq Tx
  BY <1>1, ListedTyped DEF Outside
<1>3. Covers(ci, s, R, Outside(s, N)) /\ Stored(s, d, N, R, ci)
  BY <1>1, <1>2, FollowsCovers, FollowsStored DEF Offered
<1>4. Releases(s, d, ci)
  <2>1. \A o \in Offers : ~OverOn(ci, o) => ~OverOn(ch, o)
    BY FollowsOver
  <2>2. Releases(s, d, ch)
    BY DEF Offered
  <2>3. \A p \in PlanIds : InFlightPlan(s.plans[p]) => Step(s, p).exposes \subseteq Offers
    <3> SUFFICES ASSUME NEW p \in PlanIds, InFlightPlan(s.plans[p])
                 PROVE Step(s, p).exposes \subseteq Offers
      OBVIOUS
    <3>1. s.plans[p].cursor \in DOMAIN StepsOf(p) /\ StepsOf(p) \in Seq(StepSpec)
      BY InFlightPlaced, StepsTyped
    <3>2. Step(s, p) \in StepSpec
      BY <3>1 DEF Step
    <3> QED
      BY <3>2 DEF StepSpec
  <2> QED
    BY <2>1, <2>2, <2>3 DEF Releases
<1> QED
  BY <1>3, <1>4 DEF Offered
=============================================================================
