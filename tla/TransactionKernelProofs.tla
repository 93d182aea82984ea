---------------------- MODULE TransactionKernelProofs ----------------------
(***************************************************************************)
(* Type correctness of TransactionKernel, for every value of its constants *)
(* that its assumptions allow.                                             *)
(*                                                                         *)
(* TypeOK is not inductive: a commit numbers its transaction by the nonce  *)
(* in the plan, which only a plan past dispatchSlot has.  Typed adds that  *)
(* a working plan stands at one of its steps, and that one which signs,    *)
(* commits or exposes a transaction has a nonce.  Each operator from which *)
(* an event's handler is built is shown to preserve Typed.                 *)
(***************************************************************************)
EXTENDS TransactionKernel, TLAPS, SequenceTheorems, FiniteSetTheorems

Working == {"simulate", "await-slot", "sign", "commit", "expose"}
Numbered == {"sign", "commit", "expose"}

\* a plan stands where its phase says
Placed(p, q) ==
  /\ q.phase \in Working => q.cursor \in DOMAIN StepsOf(p)
  /\ q.phase \in Numbered /\ StepsOf(p)[q.cursor].kind = "tx" => q.nonce \in Nonces

Typed(s) == s \in KernelState /\ \A p \in PlanIds : Placed(p, s.plans[p])

IInv == TypeOK /\ Typed(k)

-----------------------------------------------------------------------------
(* Plans, steps and the empty records.                                     *)

LEMMA ValueIsItself == ASSUME NEW x PROVE Value(x) = x
BY DEF Value

LEMMA NoPlanTyped ==
  /\ NoPlan \in Plan
  /\ \A p \in PlanIds : Placed(p, NoPlan)
BY DEF NoPlan, Plan, Phases, Undefined, Placed, Working, Numbered

LEMMA NoRecordTyped == NoRecord \in NonceRecord
<1>1. <<>> \in Seq(Candidate)
  BY EmptySeq
<1>2. Unresolved \in Resolution
  BY DEF Unresolved, Resolution, Outcomes
<1> QED
  BY <1>1, <1>2 DEF NoRecord, NonceRecord, Undefined

LEMMA NoEntryTyped == NoEntry \in Entry
BY DEF NoEntry, Entry, EntryStates, OpenEntry, Hash, NoHash, Free

LEMMA EmptyLedgerTyped == EmptyLedger \in Ledger
BY NoRecordTyped, NoEntryTyped DEF EmptyLedger, Ledger, Submission, Undefined

LEMMA StepsTyped == ASSUME NEW p \in PlanIds PROVE StepsOf(p) \in Seq(StepSpec)
<1>1. CASE Recovery(p)
  <2>1. RecoveryStep(p) \in StepSpec
    BY <1>1 DEF RecoveryStep, StepSpec, PlanIds, Recovery
  <2> QED
    BY <1>1, <2>1 DEF StepsOf
<1>2. CASE ~Recovery(p)
  BY <1>2, StepsAssumption DEF StepsOf, PlanIds, Recovery
<1> QED
  BY <1>1, <1>2

LEMMA RecoveryStepIsTx ==
  ASSUME NEW p \in PlanIds, Recovery(p)
  PROVE /\ 1 \in DOMAIN StepsOf(p)
        /\ \A c \in DOMAIN StepsOf(p) : StepsOf(p)[c].kind = "tx"
BY DEF StepsOf, RecoveryStep

\* the steps of a sequence, changed one by one
LEMMA MapSeq ==
  ASSUME NEW S, NEW seq \in Seq(S), NEW f, f \in [DOMAIN seq -> S]
  PROVE f \in Seq(S)
BY LenProperties, SeqDef

LEMMA InitialStateTyped == Typed(initialState)
<1>1. <<>> \in Seq(Ledger)
  BY EmptySeq
<1>2. initialState \in KernelState
  BY <1>1, EmptyLedgerTyped, NoPlanTyped
  DEF initialState, KernelState, Lifecycle, Undefined, EmptyLedger, Ledger, Free, Submission
<1> QED
  BY <1>2, NoPlanTyped DEF Typed, initialState

-----------------------------------------------------------------------------
(* Plans end.                                                              *)

LEMMA EntriesAfterEndTyped ==
  ASSUME NEW s, s \in KernelState, NEW S \in SUBSET PlanIds, NEW hurt \in SUBSET PlanIds
  PROVE EntriesAfterEnd(s, S, hurt) \in [Offers -> Entry]
<1> SUFFICES ASSUME NEW o \in Offers
             PROVE EntriesAfterEnd(s, S, hurt)[o] \in Entry
  BY DEF EntriesAfterEnd
<1>1. s.entries[o] \in Entry
  BY DEF KernelState
<1>2. [s.entries[o] EXCEPT !.compensate = TRUE] \in Entry
  BY <1>1 DEF Entry
<1> QED
  BY <1>1, <1>2, NoEntryTyped DEF EntriesAfterEnd

LEMMA SlotAfterFailTyped ==
  ASSUME NEW s, s \in KernelState, NEW S
  PROVE SlotAfterFail(s, S) \in PlanIds \cup {Free, Committing}
BY DEF SlotAfterFail, KernelState

LEMMA FailStepsTyped ==
  ASSUME NEW s, Typed(s), NEW S \in SUBSET PlanIds
  PROVE /\ Typed(FailSteps(s, S))
        /\ \A p \in PlanIds \ S : FailSteps(s, S).plans[p] = s.plans[p]
        /\ FailSteps(s, S).nextNonce = s.nextNonce
<1> DEFINE hurt == {p \in S : s.plans[p].exposed}
           plans == [p \in PlanIds |->
                       IF p \in hurt THEN [NoPlan EXCEPT !.status = "compensating"]
                       ELSE IF p \in S THEN NoPlan ELSE s.plans[p]]
           subs == [i \in Intents |->
                      IF StepPlan(i) \in hurt THEN "exposed" ELSE s.submissions[i]]
<1>0. s \in KernelState
  BY DEF Typed
<1>1. plans \in [PlanIds -> Plan] /\ \A p \in PlanIds : Placed(p, plans[p])
  <2> SUFFICES ASSUME NEW p \in PlanIds PROVE plans[p] \in Plan /\ Placed(p, plans[p])
    BY Zenon
  <2>1. s.plans[p] \in Plan /\ Placed(p, s.plans[p])
    BY DEF Typed, KernelState
  <2>2. [NoPlan EXCEPT !.status = "compensating"] \in Plan
    BY NoPlanTyped DEF Plan
  <2>3. [NoPlan EXCEPT !.status = "compensating"].phase = "ready"
    BY DEF NoPlan
  <2>4. Placed(p, [NoPlan EXCEPT !.status = "compensating"])
    BY <2>3 DEF Placed, Working, Numbered
  <2> QED
    BY <2>1, <2>2, <2>4, NoPlanTyped
<1>2. subs \in [Intents -> Submission]
  BY <1>0 DEF KernelState, Submission
<1>3. EntriesAfterEnd(s, S, hurt) \in [Offers -> Entry]
  BY <1>0, EntriesAfterEndTyped
<1>4. SlotAfterFail(s, S) \in PlanIds \cup {Free, Committing}
  BY <1>0, SlotAfterFailTyped
<1>5. FailSteps(s, S) = [s EXCEPT !.slot = SlotAfterFail(s, S),
                                  !.entries = EntriesAfterEnd(s, S, hurt),
                                  !.plans = plans, !.submissions = subs]
  BY DEF FailSteps
<1> HIDE DEF hurt, plans, subs
<1>6. /\ FailSteps(s, S) \in KernelState /\ FailSteps(s, S).plans = plans
      /\ FailSteps(s, S).nextNonce = s.nextNonce
  BY <1>0, <1>1, <1>2, <1>3, <1>4, <1>5, ZenonT(60) DEF KernelState
<1> QED
  BY <1>1, <1>6 DEF Typed, plans, hurt

LEMMA EnterRecoveringTyped ==
  ASSUME NEW s, Typed(s)
  PROVE /\ Typed(EnterRecovering(s))
        /\ \A p \in PlanIds : Recovery(p) => EnterRecovering(s).plans[p] = s.plans[p]
        /\ EnterRecovering(s).nextNonce = s.nextNonce
<1> DEFINE r == [s EXCEPT !.lifecycle = "recovering", !.overdue = FALSE]
           S == {p \in Executing(r) : r.plans[p].phase \in PreCommit
                                       /\ ~LifecycleAllows(r, p)}
<1>1. r \in KernelState /\ r.plans = s.plans /\ r.nextNonce = s.nextNonce
  BY ZenonT(60) DEF Typed, KernelState, Lifecycle
<1>2. Typed(r)
  BY <1>1 DEF Typed
<1>3. S \in SUBSET PlanIds /\ \A p \in S : ~Recovery(p)
  BY DEF Executing, LifecycleAllows
<1>4. EnterRecovering(s) = IF s.lifecycle \notin {"starting", "running"} THEN s
                           ELSE FailSteps(r, S)
  <2>1. Value(r) = r
    BY ValueIsItself
  <2>2. FailForbidden(r) = FailSteps(r, S)
    BY DEF FailForbidden
  <2>3. EnterRecovering(s) = IF s.lifecycle \notin {"starting", "running"} THEN s
                             ELSE FailForbidden(Value(r))
    BY DEF EnterRecovering
  <2> QED
    BY <2>1, <2>2, <2>3
<1> HIDE DEF r, S
<1> QED
  BY <1>1, <1>2, <1>3, <1>4, FailStepsTyped

LEMMA EndRecoveryTyped ==
  ASSUME NEW s, Typed(s), NEW S \in SUBSET PlanIds, NEW spent
  PROVE /\ Typed(EndRecovery(s, S, spent))
        /\ EndRecovery(s, S, spent).plans =
             [p \in PlanIds |-> IF p \in S THEN NoPlan ELSE s.plans[p]]
        /\ EndRecovery(s, S, spent).nextNonce = s.nextNonce
<1> DEFINE plans == [p \in PlanIds |-> IF p \in S THEN NoPlan ELSE s.plans[p]]
           nonces == [n \in Nonces |->
                        IF Fill(n) \in S /\ s.nonces[n].open
                        THEN [s.nonces[n] EXCEPT !.failedFillHead = s.head] ELSE s.nonces[n]]
           entries == [o \in Offers |->
                        IF o \in spent THEN [s.entries[o] EXCEPT !.stuck = TRUE]
                        ELSE s.entries[o]]
           r == [s EXCEPT !.slot = SlotAfterFail(s, S), !.plans = plans,
                          !.nonces = nonces, !.entries = entries]
<1>0. s \in KernelState
  BY DEF Typed
<1>1. plans \in [PlanIds -> Plan] /\ \A p \in PlanIds : Placed(p, plans[p])
  BY NoPlanTyped DEF Typed, KernelState
<1>2. nonces \in [Nonces -> NonceRecord]
  <2> SUFFICES ASSUME NEW n \in Nonces PROVE nonces[n] \in NonceRecord
    BY Zenon
  <2>1. s.nonces[n] \in NonceRecord /\ s.head \in Nat
    BY <1>0 DEF KernelState
  <2>2. [s.nonces[n] EXCEPT !.failedFillHead = s.head] \in NonceRecord
    BY <2>1 DEF NonceRecord
  <2> QED
    BY <2>1, <2>2
<1>3. entries \in [Offers -> Entry]
  <2> SUFFICES ASSUME NEW o \in Offers PROVE entries[o] \in Entry
    BY Zenon
  <2>1. s.entries[o] \in Entry
    BY <1>0 DEF KernelState
  <2>2. [s.entries[o] EXCEPT !.stuck = TRUE] \in Entry
    BY <2>1 DEF Entry
  <2> QED
    BY <2>1, <2>2
<1>4. SlotAfterFail(s, S) \in PlanIds \cup {Free, Committing}
  BY <1>0, SlotAfterFailTyped
<1>5. EndRecovery(s, S, spent) = r
  BY DEF EndRecovery
<1> HIDE DEF plans, nonces, entries
<1>6. r \in KernelState /\ r.plans = plans /\ r.nextNonce = s.nextNonce
  BY <1>0, <1>1, <1>2, <1>3, <1>4 DEF KernelState
<1> QED
  BY <1>1, <1>5, <1>6 DEF Typed, plans

LEMMA FailRecoveryTyped ==
  ASSUME NEW s, Typed(s), NEW S \in SUBSET PlanIds
  PROVE /\ Typed(FailRecovery(s, S))
        /\ S = {} => FailRecovery(s, S).plans = s.plans
        /\ \A p \in PlanIds \ S : Recovery(p) => FailRecovery(s, S).plans[p] = s.plans[p]
        /\ FailRecovery(s, S).nextNonce = s.nextNonce
<1> DEFINE spent == {o \in Offers : /\ Neutralizer(o) \in S
                                    /\ s.entries[o].state # "none"
                                    /\ s.entries[o].recoveryAttempts >= MaxRecoveryAttempts}
           plans == [p \in PlanIds |-> IF p \in S THEN NoPlan ELSE s.plans[p]]
           r == EndRecovery(s, S, spent)
<1>1. FailRecovery(s, S) = IF spent = {} THEN r ELSE EnterRecovering(Value(r))
  BY DEF FailRecovery, MarkSpent
<1>2. /\ S = {} => plans = s.plans /\ spent = {}
      /\ \A p \in PlanIds \ S : plans[p] = s.plans[p]
  BY DEF Typed, KernelState
<1>3. Typed(r) /\ r.plans = plans /\ r.nextNonce = s.nextNonce
  BY EndRecoveryTyped
<1> HIDE DEF plans, spent, r
<1> QED
  BY <1>1, <1>2, <1>3, ValueIsItself, EnterRecoveringTyped

LEMMA FailPlansTyped ==
  ASSUME NEW s, Typed(s), NEW S \in SUBSET PlanIds
  PROVE /\ Typed(FailPlans(s, S))
        /\ RecoveryPlans(S) = {} =>
             \A p \in PlanIds \ S : FailPlans(s, S).plans[p] = s.plans[p]
<1>1. StepPlans(S) \in SUBSET PlanIds /\ RecoveryPlans(S) \in SUBSET PlanIds
      /\ StepPlans(S) \subseteq S
  BY DEF StepPlans, RecoveryPlans
<1>2. FailPlans(s, S) = FailRecovery(FailSteps(s, StepPlans(S)), RecoveryPlans(S))
  BY ValueIsItself DEF FailPlans
<1>3. /\ Typed(FailSteps(s, StepPlans(S)))
      /\ \A p \in PlanIds \ StepPlans(S) : FailSteps(s, StepPlans(S)).plans[p] = s.plans[p]
  BY <1>1, FailStepsTyped
<1> QED
  BY <1>1, <1>2, <1>3, FailRecoveryTyped

LEMMA StopTyped ==
  ASSUME NEW s, Typed(s), NEW o \in {"clean", "unsafe", "refused"}
  PROVE Typed(Stop(s, o))
<1>1. Stop(s, o) \in KernelState /\ Stop(s, o).plans = s.plans
  BY DEF Stop, Typed, KernelState, Lifecycle
<1> QED
  BY <1>1 DEF Typed

LEMMA SettlePlansTyped ==
  ASSUME NEW s, Typed(s), NEW S \in SUBSET PlanIds
  PROVE /\ Typed(SettlePlans(s, S))
        /\ \A p \in PlanIds \ S : SettlePlans(s, S).plans[p] = s.plans[p]
<1> DEFINE plans == [p \in PlanIds |-> IF p \in S THEN NoPlan ELSE s.plans[p]]
           subs == [i \in Intents |->
                      IF StepPlan(i) \in S THEN "settled" ELSE s.submissions[i]]
<1>0. s \in KernelState
  BY DEF Typed
<1>1. plans \in [PlanIds -> Plan] /\ \A p \in PlanIds : Placed(p, plans[p])
  BY NoPlanTyped DEF Typed, KernelState
<1>2. subs \in [Intents -> Submission]
  BY <1>0 DEF KernelState, Submission
<1>3. EntriesAfterEnd(s, S, {}) \in [Offers -> Entry]
  BY <1>0, EntriesAfterEndTyped
<1>4. SettlePlans(s, S) = [s EXCEPT !.entries = EntriesAfterEnd(s, S, {}),
                                    !.plans = plans, !.submissions = subs]
  BY DEF SettlePlans
<1> HIDE DEF plans, subs
<1>5. SettlePlans(s, S) \in KernelState /\ SettlePlans(s, S).plans = plans
  BY <1>0, <1>1, <1>2, <1>3, <1>4, ZenonT(60) DEF KernelState
<1> QED
  BY <1>1, <1>5 DEF Typed, plans

-----------------------------------------------------------------------------
(* Plans move.                                                             *)

\* a plan that moves to the phase of its step stands at that step
LEMMA PhaseOfPlaced ==
  ASSUME NEW p \in PlanIds, NEW q \in Plan, q.cursor <= Len(StepsOf(p))
  PROVE LET moved == [q EXCEPT !.phase = PhaseOf(StepsOf(p)[q.cursor].kind)]
        IN moved \in Plan /\ Placed(p, moved)
<1> DEFINE kind == StepsOf(p)[q.cursor].kind
           moved == [q EXCEPT !.phase = PhaseOf(kind)]
<1>1. q.cursor \in DOMAIN StepsOf(p)
  BY StepsTyped, LenProperties DEF Plan
<1>2. PhaseOf(kind) \in {"simulate", "sign", "await-slot"}
      /\ (PhaseOf(kind) = "sign" => kind # "tx")
  BY DEF PhaseOf
<1> HIDE DEF kind
<1>3. moved \in Plan /\ moved.phase = PhaseOf(kind) /\ moved.cursor = q.cursor
  BY <1>2 DEF Plan, Phases
<1>4. Placed(p, moved)
  BY <1>1, <1>2, <1>3 DEF Placed, Working, Numbered, kind
<1> QED
  BY <1>3, <1>4 DEF kind

\* the plans that are not done have moved to where Advance sends them
LEMMA MovedTyped ==
  ASSUME NEW s, Typed(s), NEW S \in SUBSET PlanIds
  PROVE LET done == {p \in S : s.plans[p].cursor > Len(StepsOf(p))}
            parked == {p \in S \ done : AtStageBoundary(s, p)}
            refused == {p \in S \ (done \cup parked) : DecisionRefused(s, p)}
            plans == [p \in PlanIds |->
                  CASE p \in parked -> [s.plans[p] EXCEPT !.phase = "awaiting-advance"]
                    [] p \in S \ (done \cup parked \cup refused) ->
                         [s.plans[p] EXCEPT !.phase = PhaseOf(Step(s, p).kind)]
                    [] OTHER -> s.plans[p]]
        IN Typed([s EXCEPT !.plans = plans])
<1> DEFINE done == {p \in S : s.plans[p].cursor > Len(StepsOf(p))}
           parked == {p \in S \ done : AtStageBoundary(s, p)}
           refused == {p \in S \ (done \cup parked) : DecisionRefused(s, p)}
           plans == [p \in PlanIds |->
                  CASE p \in parked -> [s.plans[p] EXCEPT !.phase = "awaiting-advance"]
                    [] p \in S \ (done \cup parked \cup refused) ->
                         [s.plans[p] EXCEPT !.phase = PhaseOf(Step(s, p).kind)]
                    [] OTHER -> s.plans[p]]
           moved == [s EXCEPT !.plans = plans]
<1>0. s \in KernelState
  BY DEF Typed
<1>1. plans \in [PlanIds -> Plan] /\ \A p \in PlanIds : Placed(p, plans[p])
  <2> SUFFICES ASSUME NEW p \in PlanIds PROVE plans[p] \in Plan /\ Placed(p, plans[p])
    BY Zenon
  <2>1. s.plans[p] \in Plan /\ Placed(p, s.plans[p])
    BY DEF Typed, KernelState
  <2>2. CASE p \in parked
    <3>1. plans[p] = [s.plans[p] EXCEPT !.phase = "awaiting-advance"]
      BY <2>2
    <3>2. plans[p] \in Plan /\ plans[p].phase = "awaiting-advance"
      BY <2>1, <3>1 DEF Plan, Phases
    <3> QED
      BY <3>2 DEF Placed, Working, Numbered
  <2>3. CASE p \in S \ (done \cup parked \cup refused)
    <3>1. plans[p] = [s.plans[p] EXCEPT !.phase = PhaseOf(StepsOf(p)[s.plans[p].cursor].kind)]
      BY <2>3 DEF Step
    <3>2. Len(StepsOf(p)) \in Nat /\ s.plans[p].cursor \in Nat
      BY <2>1, StepsTyped, LenProperties DEF Plan
    <3>3. s.plans[p].cursor <= Len(StepsOf(p))
      BY <2>3, <3>2
    <3> QED
      BY <2>1, <3>1, <3>3, PhaseOfPlaced
  <2>4. CASE p \notin parked /\ p \notin S \ (done \cup parked \cup refused)
    BY <2>1, <2>4
  <2> QED
    BY <2>2, <2>3, <2>4
<1> HIDE DEF plans
<1>2. moved \in KernelState /\ moved.plans = plans
  BY <1>0, <1>1 DEF KernelState
<1>3. Typed(moved)
  BY <1>1, <1>2 DEF Typed
<1> QED
  BY <1>3 DEF plans

LEMMA AdvanceTyped ==
  ASSUME NEW s, Typed(s), NEW S \in SUBSET PlanIds
  PROVE /\ Typed(Advance(s, S))
        /\ \A p \in PlanIds \ S : Advance(s, S).plans[p] = s.plans[p]
<1> DEFINE done == {p \in S : s.plans[p].cursor > Len(StepsOf(p))}
           parked == {p \in S \ done : AtStageBoundary(s, p)}
           refused == {p \in S \ (done \cup parked) : DecisionRefused(s, p)}
           lapsed == {p \in parked : s.plans[p].doubt = "lapsed"}
           plans == [p \in PlanIds |->
                  CASE p \in parked -> [s.plans[p] EXCEPT !.phase = "awaiting-advance"]
                    [] p \in S \ (done \cup parked \cup refused) ->
                         [s.plans[p] EXCEPT !.phase = PhaseOf(Step(s, p).kind)]
                    [] OTHER -> s.plans[p]]
           moved == [s EXCEPT !.plans = plans]
<1>0. s \in KernelState
  BY DEF Typed
<1>1. Typed(moved)
  BY MovedTyped
<1>2. \A p \in PlanIds \ S : plans[p] = s.plans[p]
  OBVIOUS
<1>3. done \in SUBSET PlanIds /\ refused \cup lapsed \in SUBSET PlanIds
      /\ done \subseteq S /\ refused \cup lapsed \subseteq S
  OBVIOUS
<1>4. Advance(s, S) = FailSteps(SettlePlans(moved, done), refused \cup lapsed)
  BY ValueIsItself DEF Advance, AdvanceTo
<1> HIDE DEF plans, done, refused, lapsed
<1>5. moved.plans = plans
  BY <1>0 DEF KernelState
<1> HIDE DEF moved
<1>7. /\ Typed(SettlePlans(moved, done))
      /\ \A p \in PlanIds \ S : SettlePlans(moved, done).plans[p] = s.plans[p]
  BY <1>1, <1>2, <1>3, <1>5, SettlePlansTyped
<1> QED
  BY <1>3, <1>4, <1>7, FailStepsTyped

LEMMA AddPlanTyped ==
  ASSUME NEW s, Typed(s), NEW p \in PlanIds, NEW plan \in Plan, Placed(p, plan)
  PROVE Typed(AddPlan(s, p, plan))
<1> DEFINE before == s.before \cup ({q \in PlanIds : s.plans[q].status # "none"} \X {p})
           r == [s EXCEPT !.plans[p] = plan, !.before = before]
<1>1. before \in SUBSET (PlanIds \X PlanIds)
  BY DEF Typed, KernelState
<1>2. r \in KernelState /\ r.plans = [s.plans EXCEPT ![p] = plan]
  <2> HIDE DEF before
  <2> QED
    BY <1>1 DEF Typed, KernelState
<1>3. \A q \in PlanIds : Placed(q, r.plans[q])
  BY <1>2 DEF Typed, KernelState
<1>4. AddPlan(s, p, plan) = Advance(r, {p})
  BY DEF AddPlan
<1>5. Typed(r)
  BY <1>2, <1>3 DEF Typed
<1> HIDE DEF r
<1> QED
  BY <1>4, <1>5, AdvanceTyped

-----------------------------------------------------------------------------
(* The commit point.                                                       *)

LEMMA StepTyped ==
  ASSUME NEW s, NEW p \in PlanIds, s.plans[p].cursor \in DOMAIN StepsOf(p)
  PROVE Step(s, p) \in StepSpec
BY StepsTyped, LenProperties, ElementOfSeq DEF Step

LEMMA CommittedEntryTyped ==
  ASSUME NEW s, s \in KernelState, NEW step, NEW hash, NEW o \in Offers,
         step.kind = "tx" => hash \in Hash
  PROVE CommittedEntry(s, step, hash, o) \in Entry
<1> DEFINE e == s.entries[o]
<1>1. e \in Entry
  BY DEF KernelState
<1> HIDE DEF e
<1>2. ASSUME hash \in Hash
      PROVE [e EXCEPT !.state = "exposed", !.creators = @ \cup {hash}] \in Entry
  BY <1>1, <1>2 DEF Entry, EntryStates
<1>3. ASSUME hash \in Hash
      PROVE [e EXCEPT !.state = "revoking", !.neutralizing = hash,
                      !.prior = IF e.state \in OpenEntry THEN e.state ELSE e.prior] \in Entry
  BY <1>1, <1>3 DEF Entry, EntryStates
<1>4. [e EXCEPT !.state = "exposed"] \in Entry
  BY <1>1 DEF Entry, EntryStates
<1> QED
  BY <1>1, <1>2, <1>3, <1>4 DEF CommittedEntry, e

LEMMA RecordCandidateTyped ==
  ASSUME NEW s, s \in KernelState, NEW p \in PlanIds, s.plans[p].nonce \in Nonces
  PROVE RecordCandidate(s, p) \in [Nonces -> NonceRecord]
<1> DEFINE q == s.plans[p]
           old == s.nonces[q.nonce]
           candidate == [plan |-> p, step |-> q.cursor, level |-> q.level, sent |-> "unsent"]
           record == [old EXCEPT !.open = TRUE, !.candidates = Append(old.candidates, candidate),
                                 !.lastActionHead =
                                    IF s.head > 0 THEN s.head ELSE old.lastActionHead]
<1>1. q \in Plan /\ old \in NonceRecord /\ s.head \in Nat
  BY DEF KernelState
<1>2. candidate \in Candidate
  <2> HIDE DEF q
  <2> QED
    BY <1>1 DEF Plan, Candidate, SendStatus
<1>3. old.candidates \in Seq(Candidate)
  BY <1>1 DEF NonceRecord
<1> HIDE DEF old, candidate
<1>4. Append(old.candidates, candidate) \in Seq(Candidate)
  BY <1>2, <1>3, AppendProperties
<1>5. record \in NonceRecord
  BY <1>1, <1>4 DEF NonceRecord
<1>6. RecordCandidate(s, p) = [s.nonces EXCEPT ![q.nonce] = record]
  BY DEF RecordCandidate, old, candidate
<1> QED
  BY <1>5, <1>6 DEF KernelState

LEMMA CommitTyped ==
  ASSUME NEW s, Typed(s), NEW p \in PlanIds, s.plans[p].cursor \in DOMAIN StepsOf(p),
         Step(s, p).kind = "tx" => s.plans[p].nonce \in Nonces
  PROVE Typed(Commit(s, p))
<1> DEFINE q == s.plans[p]
           tx == Step(s, p).kind = "tx"
           len == Len(s.nonces[q.nonce].candidates)
           place == IF tx THEN len + 1 ELSE 0
           entries == [o \in Offers |-> CommittedEntry(s, Step(s, p), <<q.nonce, place>>, o)]
           nonces == IF tx THEN RecordCandidate(s, p) ELSE s.nonces
           next == IF tx /\ s.nextNonce = q.nonce THEN s.nextNonce + 1 ELSE s.nextNonce
           subs == [i \in Intents |->
                      IF StepPlan(i) = p THEN "exposed" ELSE s.submissions[i]]
           exposed == q.exposed \/ ~Recovery(p)
           plan == [q EXCEPT !.phase = "commit", !.pending = place, !.exposed = exposed,
                             !.flush = Len(s.writes) + 1]
           slot == IF s.slot = Free THEN Committing ELSE s.slot
           free == [s EXCEPT !.slot = Free]
           done == [s EXCEPT !.entries = entries, !.nonces = nonces, !.nextNonce = next,
                             !.submissions = subs, !.plans[p] = plan, !.slot = slot]
<1>0. s \in KernelState /\ q \in Plan
  BY DEF Typed, KernelState
<1>1. place \in Nat /\ (tx => <<q.nonce, place>> \in Hash)
  <2>1. ASSUME tx PROVE len \in Nat /\ q.nonce \in Nat
    <3>1. q.nonce \in Nonces
      BY <2>1
    <3>2. s.nonces[q.nonce].candidates \in Seq(Candidate)
      BY <1>0, <3>1 DEF KernelState, NonceRecord
    <3> QED
      BY <3>1, <3>2, LenProperties, BoundsAssumption, SMTT(30) DEF Nonces
  <2> HIDE DEF len, tx, q
  <2>2. place \in Nat
    BY <2>1
  <2> HIDE DEF place
  <2> QED
    BY <2>1, <2>2 DEF Hash
<1>2. entries \in [Offers -> Entry]
  BY <1>0, <1>1, CommittedEntryTyped
<1>3. nonces \in [Nonces -> NonceRecord]
  BY <1>0, RecordCandidateTyped DEF KernelState
<1>4. next \in Int
  BY <1>0 DEF KernelState
<1>5. subs \in [Intents -> Submission]
  BY <1>0 DEF KernelState, Submission
<1>6. plan \in Plan /\ plan.cursor = q.cursor /\ plan.nonce = q.nonce
  <2>1. Len(s.writes) \in Nat
    BY <1>0, LenProperties DEF KernelState
  <2> DEFINE length == Len(s.writes)
  <2> HIDE DEF q, place, tx, exposed, length
  <2>2. exposed \in BOOLEAN
    BY Zenon DEF exposed
  <2>3. length + 1 \in Nat
    BY <2>1 DEF length
  <2>4. plan \in Plan
    BY <1>0, <1>1, <2>2, <2>3 DEF Plan, Phases, length
  <2> QED
    BY <1>0, <2>4 DEF Plan
<1>7. Placed(p, plan)
  BY <1>6 DEF Placed, Step
<1>8. slot \in PlanIds \cup {Free, Committing}
  BY <1>0 DEF KernelState
<1>9. Commit(s, p) = IF CommitRefused(s, p) THEN FailPlans(free, {p}) ELSE done
  BY DEF Commit, Committed
<1> HIDE DEF q, tx, len, place, entries, nonces, next, subs, plan, slot
<1>10. done \in KernelState /\ done.plans = [s.plans EXCEPT ![p] = plan]
  BY <1>0, <1>2, <1>3, <1>4, <1>5, <1>6, <1>8 DEF KernelState
<1>11. Typed(done)
  BY <1>7, <1>10 DEF Typed, KernelState
<1>12. free \in KernelState /\ free.plans = s.plans
  BY <1>0 DEF KernelState
<1>13. Typed(free)
  BY <1>12 DEF Typed
<1> HIDE DEF done, free
<1> QED
  BY <1>9, <1>11, <1>13, FailPlansTyped

LEMMA SetSentTyped ==
  ASSUME NEW s, Typed(s), NEW n \in Nonces, NEW c \in DOMAIN s.nonces[n].candidates,
         NEW sent \in SendStatus
  PROVE /\ Typed(SetSent(s, n, c, sent))
        /\ SetSent(s, n, c, sent).plans = s.plans
<1> DEFINE r == s.nonces[n]
           cs == [r.candidates EXCEPT ![c] = [r.candidates[c] EXCEPT !.sent = sent]]
           record == [r EXCEPT !.candidates = cs]
<1>0. s \in KernelState /\ r \in NonceRecord
  BY DEF Typed, KernelState
<1>1. r.candidates \in Seq(Candidate)
  BY <1>0 DEF NonceRecord
<1>2. c \in 1 .. Len(r.candidates) /\ r.candidates[c] \in Candidate
  BY <1>1, LenProperties, ElementOfSeq
<1>3. [r.candidates[c] EXCEPT !.sent = sent] \in Candidate
  <2> DEFINE d == r.candidates[c]
  <2> HIDE DEF d
  <2>1. d \in Candidate => [d EXCEPT !.sent = sent] \in Candidate
    BY DEF Candidate
  <2> QED
    BY <1>2, <2>1 DEF d
<1>4. cs \in Seq(Candidate)
  BY <1>1, <1>2, <1>3, ExceptSeq
<1>5. SetSent(s, n, c, sent) = [s EXCEPT !.nonces = [s.nonces EXCEPT ![n] = record]]
  BY <1>0 DEF SetSent, KernelState
<1> HIDE DEF r, cs
<1>6. record \in NonceRecord
  BY <1>0, <1>4 DEF NonceRecord
<1> HIDE DEF record
<1>7. SetSent(s, n, c, sent) \in KernelState /\ SetSent(s, n, c, sent).plans = s.plans
  BY <1>0, <1>5, <1>6, SMTT(30) DEF KernelState
<1> QED
  BY <1>7 DEF Typed

-----------------------------------------------------------------------------
(* Chain evidence.                                                         *)

LEMMA SettleCompensationTyped ==
  ASSUME NEW s, Typed(s)
  PROVE Typed(SettleCompensation(s))
<1> DEFINE S == {p \in PlanIds : s.plans[p].status = "compensating"}
           failed == {p \in S : \E o \in Mine(s, p) : s.entries[o].stuck}
           done == {p \in S \ failed : /\ \A o \in Mine(s, p) : s.entries[o].state \notin Unretired
                                       /\ ~CandidateOpen(s, p)}
           plans == [p \in PlanIds |-> IF p \in failed \cup done THEN NoPlan ELSE s.plans[p]]
           subs == [i \in Intents |->
                      IF StepPlan(i) \in done THEN "compensated" ELSE s.submissions[i]]
<1>1. SettleCompensation(s) = [s EXCEPT !.plans = plans, !.submissions = subs]
  BY DEF SettleCompensation
<1> HIDE DEF failed, done
<1>2. plans \in [PlanIds -> Plan] /\ \A p \in PlanIds : Placed(p, plans[p])
  BY NoPlanTyped DEF Typed, KernelState
<1>3. subs \in [Intents -> Submission]
  BY DEF Typed, KernelState, Submission
<1> HIDE DEF plans, subs
<1>4. SettleCompensation(s) \in KernelState /\ SettleCompensation(s).plans = plans
  BY <1>1, <1>2, <1>3, ZenonT(60) DEF Typed, KernelState
<1> QED
  BY <1>2, <1>4 DEF Typed

LEMMA IncludedPlanTyped ==
  ASSUME NEW q \in Plan, NEW block \in Nat
  PROVE LET moved == [q EXCEPT !.cursor = @ + 1, !.phase = "ready", !.pending = 0,
                               !.lastInclusion = block]
        IN moved \in Plan /\ moved.phase = "ready"
<1>1. q.cursor + 1 \in Nat \ {0}
  BY DEF Plan
<1>2. ASSUME NEW c \in Nat \ {0}
      PROVE [q EXCEPT !.cursor = c, !.phase = "ready", !.pending = 0,
                      !.lastInclusion = block] \in Plan
  BY DEF Plan, Phases
<1>3. [q EXCEPT !.cursor = @ + 1, !.phase = "ready", !.pending = 0,
                !.lastInclusion = block].phase = "ready"
  BY DEF Plan
<1> QED
  BY <1>1, <1>2, <1>3

LEMMA IncludeTyped ==
  ASSUME NEW s, Typed(s), NEW won \in SUBSET PlanIds,
         \A p \in won : s.plans[p].nonce \in Nonces
  PROVE Typed(Include(s, won))
<1> DEFINE plans == [p \in PlanIds |->
                       IF p \in won
                       THEN [s.plans[p] EXCEPT
                               !.cursor = @ + 1, !.phase = "ready", !.pending = 0,
                               !.lastInclusion = s.nonces[s.plans[p].nonce].resolution.block]
                       ELSE s.plans[p]]
<1>1. Include(s, won) = [s EXCEPT !.plans = plans]
  BY DEF Include
<1>2. plans \in [PlanIds -> Plan] /\ \A p \in PlanIds : Placed(p, plans[p])
  <2> SUFFICES ASSUME NEW p \in PlanIds PROVE plans[p] \in Plan /\ Placed(p, plans[p])
    BY Zenon
  <2>1. s.plans[p] \in Plan /\ Placed(p, s.plans[p])
    BY DEF Typed, KernelState
  <2>2. CASE p \in won
    <3> DEFINE q == s.plans[p]
               block == s.nonces[q.nonce].resolution.block
    <3>1. block \in Nat
      BY <2>2 DEF Typed, KernelState, NonceRecord, Resolution
    <3>2. plans[p] = [q EXCEPT !.cursor = @ + 1, !.phase = "ready", !.pending = 0,
                               !.lastInclusion = block]
      BY <2>2
    <3>3. q \in Plan
      BY <2>1
    <3> HIDE DEF q, block, plans
    <3>4. plans[p] \in Plan /\ plans[p].phase = "ready"
      BY <3>1, <3>2, <3>3, IncludedPlanTyped
    <3> QED
      BY <3>4 DEF Placed, Working, Numbered
  <2>3. CASE p \notin won
    BY <2>1, <2>3
  <2> QED
    BY <2>2, <2>3
<1> HIDE DEF plans
<1>3. Include(s, won) \in KernelState /\ Include(s, won).plans = plans
  BY <1>1, <1>2, ZenonT(60) DEF Typed, KernelState
<1> QED
  BY <1>2, <1>3 DEF Typed

LEMMA ProgressIncludedTyped ==
  ASSUME NEW s, Typed(s)
  PROVE Typed(ProgressIncluded(s))
<1> DEFINE S == {p \in InPhase(s, "include") :
                   s.plans[p].nonce \in Nonces /\ Resolved(s.nonces[s.plans[p].nonce])}
           won == Won(s, S)
<1>1. ProgressIncluded(s) = FailPlans(Advance(Include(s, won), won), S \ won)
  BY ValueIsItself DEF ProgressIncluded, Progressed, ProgressResolved
<1>2. /\ S \in SUBSET PlanIds /\ won \in SUBSET PlanIds
      /\ \A p \in won : s.plans[p].nonce \in Nonces
  BY DEF InPhase, Executing, Won
<1> HIDE DEF S, won
<1>3. Typed(Advance(Include(s, won), won))
  BY <1>2, IncludeTyped, AdvanceTyped
<1> QED
  BY <1>1, <1>2, <1>3, FailPlansTyped

LEMMA ProgressPlansTyped ==
  ASSUME NEW s, Typed(s)
  PROVE Typed(ProgressPlans(s))
BY SettleCompensationTyped, ProgressIncludedTyped, ValueIsItself DEF ProgressPlans

LEMMA ResolvedHashesTyped ==
  ASSUME NEW s, s \in KernelState
  PROVE \A h \in ResolvedHashes(s) : h \in Hash /\ h[1] \in Nonces
<1> SUFFICES ASSUME NEW n \in Nonces, NEW c \in DOMAIN s.nonces[n].candidates
             PROVE <<n, c>> \in Hash
  BY DEF ResolvedHashes
<1>1. s.nonces[n].candidates \in Seq(Candidate)
  BY DEF KernelState, NonceRecord
<1>2. c \in 1 .. Len(s.nonces[n].candidates) /\ Len(s.nonces[n].candidates) \in Nat
  BY <1>1, LenProperties
<1>3. c \in Nat /\ n \in Nat
  BY <1>2, BoundsAssumption DEF Nonces
<1> QED
  BY <1>3 DEF Hash

LEMMA RetiredTyped == ASSUME NEW e \in Entry PROVE Retired(e) \in Entry
BY NoEntryTyped DEF Retired, Entry, EntryStates

LEMMA LiveTyped ==
  ASSUME NEW s, s \in KernelState, NEW e \in Entry, NEW last,
         \A h \in last : h[1] \in Nonces
  PROVE Live(s, e, last) \in Entry
<1> DEFINE at == s.nonces[(CHOOSE h \in last : TRUE)[1]].resolution.block
<1>1. ASSUME last # {} PROVE at \in Nat
  <2>1. (CHOOSE h \in last : TRUE) \in last
    BY <1>1
  <2> QED
    BY <2>1 DEF KernelState, NonceRecord, Resolution
<1> DEFINE state == IF e.state = "exposed" THEN "live" ELSE e.state
           prior == IF e.state = "revoking" THEN "live" ELSE e.prior
<1>2. Live(s, e, last) = IF last = {} THEN e
                         ELSE [e EXCEPT !.state = state, !.prior = prior, !.liveAt = at]
  BY DEF Live
<1>3. state \in EntryStates /\ prior \in OpenEntry
  BY DEF Entry, EntryStates, OpenEntry
<1>4. ASSUME NEW x \in EntryStates, NEW y \in OpenEntry, NEW z \in Nat
      PROVE [e EXCEPT !.state = x, !.prior = y, !.liveAt = z] \in Entry
  BY DEF Entry
<1> HIDE DEF at, state, prior
<1> QED
  BY <1>1, <1>2, <1>3, <1>4

LEMMA SettledEntryTyped ==
  ASSUME NEW s, s \in KernelState, NEW o \in Offers
  PROVE SettledEntry(s, o, s.entries[o], ResolvedHashes(s)) \in Entry
<1> DEFINE e == s.entries[o]
           H == ResolvedHashes(s)
           lost == LostNonce(s, e, H)
           dead == Failed(s, o, H)
           back == HandedBack(e, lost)
           live == Live(s, back, Latest(Created(s, o, H)))
           over == \/ Neutralized(s, o, e, H, lost)
                   \/ dead # {} /\ e.creators \subseteq e.deadCreators \cup dead
<1>0. e \in Entry
  BY DEF KernelState
<1>1. dead \subseteq Hash /\ \A h \in Latest(Created(s, o, H)) : h[1] \in Nonces
  BY ResolvedHashesTyped DEF Failed, Latest, Created
<1>2. SettledEntry(s, o, e, H) = CASE e.state \in {"none", "retired"} -> e
                                   [] over -> Retired(e)
                                   [] OTHER -> [live EXCEPT !.deadCreators = @ \cup dead]
  BY DEF SettledEntry, Applied
<1> HIDE DEF e, H, lost, dead, over
<1>3. back \in Entry
  BY <1>0, ZenonT(60) DEF HandedBack, Entry, EntryStates, OpenEntry, Hash, NoHash
<1> HIDE DEF back
<1>4. live \in Entry
  BY <1>1, <1>3, LiveTyped
<1> HIDE DEF live
<1>5. [live EXCEPT !.deadCreators = @ \cup dead] \in Entry
  BY <1>1, <1>4 DEF Entry
<1>6. SettledEntry(s, o, e, H) \in Entry
  BY <1>0, <1>2, <1>5, RetiredTyped
<1> QED
  BY <1>6 DEF e, H

LEMMA SettleNoncesTyped ==
  ASSUME NEW s, Typed(s)
  PROVE Typed(SettleNonces(s))
<1> DEFINE entries == [o \in Offers |-> SettledEntry(s, o, s.entries[o], ResolvedHashes(s))]
           nonces == [n \in Nonces |->
                        IF IsFinal(s, s.nonces[n]) /\ ~Awaited(s, n) /\ ~s.nonces[n].foreign
                        THEN NoRecord ELSE s.nonces[n]]
<1>1. entries \in [Offers -> Entry]
  BY SettledEntryTyped DEF Typed
<1>2. nonces \in [Nonces -> NonceRecord]
  BY NoRecordTyped DEF Typed, KernelState
<1>3. SettleNonces(s) = [s EXCEPT !.entries = entries, !.nonces = nonces]
  BY DEF SettleNonces
<1> HIDE DEF entries, nonces
<1>4. SettleNonces(s) \in KernelState /\ SettleNonces(s).plans = s.plans
  BY <1>1, <1>2, <1>3, ZenonT(60) DEF Typed, KernelState
<1> QED
  BY <1>4 DEF Typed

LEMMA SettleEntriesTyped ==
  ASSUME NEW s, Typed(s)
  PROVE Typed(SettleEntries(s))
<1> DEFINE over(o) == /\ s.entries[o].state \in Held
                      /\ \/ s.entries[o].neutralized /\ s.entries[o].observed <= s.finalized
                         \/ s.finalized > Expiry[o]
           entries == [o \in Offers |-> IF over(o) THEN Retired(s.entries[o]) ELSE s.entries[o]]
<1>1. SettleEntries(s) = [s EXCEPT !.entries = entries]
  BY DEF SettleEntries
<1> HIDE DEF over
<1>2. entries \in [Offers -> Entry]
  BY RetiredTyped DEF Typed, KernelState
<1> HIDE DEF entries
<1>3. SettleEntries(s) \in KernelState /\ SettleEntries(s).plans = s.plans
  BY <1>1, <1>2, ZenonT(60) DEF Typed, KernelState
<1> QED
  BY <1>3 DEF Typed

LEMMA LatchBoundTyped == ASSUME NEW s, Typed(s) PROVE Typed(LatchBound(s))
BY EnterRecoveringTyped DEF LatchBound

-----------------------------------------------------------------------------
(* Startup, rebroadcast, recovery.                                         *)

LEMMA CheckStartedTyped ==
  ASSUME NEW s, Typed(s)
  PROVE Typed(CheckStarted(s))
<1> DEFINE since == IF s.startHead = 0 THEN s.head ELSE s.startHead
           asked == [s EXCEPT !.startHead = since]
           ran == [s EXCEPT !.startHead = 0, !.nonceChecked = FALSE, !.lifecycle = "running"]
<1>1. CheckStarted(s) \in {s, EnterRecovering(s), asked, ran}
  BY DEF CheckStarted
<1>2. asked \in KernelState /\ asked.plans = s.plans
  BY ZenonT(60) DEF Typed, KernelState
<1>3. ran \in KernelState /\ ran.plans = s.plans
  BY DEF Typed, KernelState, Lifecycle
<1>4. Typed(asked) /\ Typed(ran)
  BY <1>2, <1>3 DEF Typed
<1> HIDE DEF asked, ran
<1> QED
  BY <1>1, <1>4, EnterRecoveringTyped

LEMMA FirstResendTyped ==
  ASSUME NEW s, s \in KernelState, NEW n \in Nonces
  PROVE FirstResend(s, n) \in SUBSET Tx
<1> SUFFICES ASSUME NEW c \in DOMAIN s.nonces[n].candidates
             PROVE TxAt(n, c, s.nonces[n].candidates[c]) \in Tx
  BY DEF FirstResend, ResendPlaces
<1>1. s.nonces[n].candidates \in Seq(Candidate)
  BY DEF KernelState, NonceRecord
<1>2. c \in Nat /\ s.nonces[n].candidates[c] \in Candidate
  BY <1>1, LenProperties, ElementOfSeq
<1> QED
  BY <1>2 DEF TxAt, Tx, Candidate

LEMMA RebroadcastTyped ==
  ASSUME NEW s, Typed(s)
  PROVE Typed(Rebroadcast(s))
<1> DEFINE nonces == [n \in Nonces |->
                        IF n \in Resent(s) THEN [s.nonces[n] EXCEPT !.lastActionHead = s.head]
                        ELSE s.nonces[n]]
           resends == s.resends \cup UNION {FirstResend(s, n) : n \in Resent(s)}
           sent == [s EXCEPT !.nonces = nonces, !.resends = resends]
<1>1. nonces \in [Nonces -> NonceRecord]
  <2> SUFFICES ASSUME NEW n \in Nonces PROVE nonces[n] \in NonceRecord
    BY Zenon
  <2>1. s.nonces[n] \in NonceRecord /\ s.head \in Nat
    BY DEF Typed, KernelState
  <2>2. [s.nonces[n] EXCEPT !.lastActionHead = s.head] \in NonceRecord
    BY <2>1 DEF NonceRecord
  <2> QED
    BY <2>1, <2>2
<1>2. resends \in SUBSET Tx
  BY FirstResendTyped DEF Typed, KernelState, Resent
<1>3. Rebroadcast(s) = IF s.head = 0 THEN s ELSE sent
  BY DEF Rebroadcast
<1> HIDE DEF nonces, resends
<1>4. sent \in KernelState /\ sent.plans = s.plans
  BY <1>1, <1>2 DEF Typed, KernelState
<1>5. Typed(sent)
  BY <1>4 DEF Typed
<1> HIDE DEF sent
<1> QED
  BY <1>3, <1>5

LEMMA MarkStuckTyped ==
  ASSUME NEW s, Typed(s), NEW S
  PROVE Typed(MarkStuck(s, S))
<1> DEFINE entries == [o \in Offers |->
                         IF o \in S THEN [s.entries[o] EXCEPT !.stuck = TRUE] ELSE s.entries[o]]
<1>1. entries \in [Offers -> Entry]
  <2> SUFFICES ASSUME NEW o \in Offers PROVE entries[o] \in Entry
    BY Zenon
  <2>1. s.entries[o] \in Entry
    BY DEF Typed, KernelState
  <2>2. [s.entries[o] EXCEPT !.stuck = TRUE] \in Entry
    BY <2>1 DEF Entry
  <2> QED
    BY <2>1, <2>2
<1>2. MarkStuck(s, S) = [s EXCEPT !.entries = entries]
  BY DEF MarkStuck
<1> HIDE DEF entries
<1>3. MarkStuck(s, S) \in KernelState /\ MarkStuck(s, S).plans = s.plans
  BY <1>1, <1>2, ZenonT(60) DEF Typed, KernelState
<1> QED
  BY <1>3 DEF Typed

LEMMA NewRecoveryPlanTyped ==
  ASSUME NEW target \in Int
  PROVE LET plan == [NoPlan EXCEPT !.status = "executing", !.phase = "simulate",
                                   !.target = target]
        IN plan \in Plan /\ \A p \in PlanIds : Recovery(p) => Placed(p, plan)
<1> DEFINE plan == [NoPlan EXCEPT !.status = "executing", !.phase = "simulate",
                                  !.target = target]
<1>1. plan \in Plan
  BY NoPlanTyped DEF Plan, Phases
<1>2. plan.phase = "simulate" /\ plan.cursor = 1
  BY DEF NoPlan
<1> HIDE DEF plan
<1>3. ASSUME NEW p \in PlanIds, Recovery(p) PROVE Placed(p, plan)
  <2>1. 1 \in DOMAIN StepsOf(p)
    BY <1>3 DEF StepsOf
  <2> QED
    BY <1>2, <2>1 DEF Placed, Working, Numbered
<1> QED
  BY <1>1, <1>3 DEF plan

LEMMA RecoverTargetTyped ==
  ASSUME NEW s, NEW S, NEW o
  PROVE RecoverTarget(s, S, o) \in Int
<1> DEFINE T == {n \in Nonces : Occupiable(s, n)
                                /\ (s.lifecycle = "recovering" \/ RejectedOnly(s.nonces[n]))}
           due(n) == Cardinality(Below(T, n)) = Cardinality(Below(S, o))
           pick == CHOOSE n \in T : due(n)
<1>1. RecoverTarget(s, S, o) = IF \E n \in T : due(n) THEN pick ELSE Undefined
  BY DEF RecoverTarget, Paired
<1>2. T \subseteq Int
  BY BoundsAssumption DEF Nonces
<1>3. (\E n \in T : due(n)) => pick \in T
  <2> HIDE DEF T, due
  <2> QED
    OBVIOUS
<1>4. CASE \E n \in T : due(n)
  <2> HIDE DEF T, due, pick
  <2> QED
    BY <1>1, <1>2, <1>3, <1>4
<1>5. CASE ~\E n \in T : due(n)
  <2> HIDE DEF T, due, pick
  <2> QED
    BY <1>1, <1>5 DEF Undefined
<1> QED
  BY <1>4, <1>5

LEMMA StartedTyped ==
  ASSUME NEW s, Typed(s), NEW new \in SUBSET PlanIds, NEW target,
         \A p \in new : Recovery(p) /\ target[p[2]] \in Int
  PROVE Typed(Started(s, new, target))
<1> DEFINE kept == s.before \ ((new \X PlanIds) \cup (PlanIds \X new))
           plans == [p \in PlanIds |->
              IF p \in new THEN [NoPlan EXCEPT !.status = "executing", !.phase = "simulate",
                                               !.target = target[p[2]]]
              ELSE s.plans[p]]
           before == kept \cup ((PlanIds \ new) \X new)
                          \cup {pair \in new \X new : pair[1][2] < pair[2][2]}
           r == [s EXCEPT !.plans = plans, !.before = before]
<1>0. s \in KernelState /\ \A p \in PlanIds : Placed(p, s.plans[p])
  BY DEF Typed
<1>1. Started(s, new, target) = r
  BY DEF Started
<1>2. plans \in [PlanIds -> Plan] /\ \A p \in PlanIds : Placed(p, plans[p])
  <2> SUFFICES ASSUME NEW p \in PlanIds PROVE plans[p] \in Plan /\ Placed(p, plans[p])
    BY Zenon
  <2>1. CASE p \in new
    BY <2>1, NewRecoveryPlanTyped
  <2>2. CASE p \notin new
    BY <1>0, <2>2 DEF KernelState
  <2> QED
    BY <2>1, <2>2
<1>3. before \in SUBSET (PlanIds \X PlanIds)
  <2>1. kept \subseteq PlanIds \X PlanIds
    BY <1>0 DEF KernelState
  <2> HIDE DEF kept
  <2> QED
    BY <2>1
<1> HIDE DEF plans, before
<1>4. r \in KernelState /\ r.plans = plans
  BY <1>0, <1>2, <1>3 DEF KernelState
<1> QED
  BY <1>1, <1>2, <1>4 DEF Typed

LEMMA StartNeutralizersTyped ==
  ASSUME NEW s, Typed(s), NEW S \in SUBSET Offers
  PROVE Typed(StartNeutralizers(s, S))
<1> DEFINE new == {Neutralizer(o) : o \in S}
           target == [o \in S |-> RecoverTarget(s, S, o)]
           entries == [o \in Offers |->
              IF o \in S THEN [s.entries[o] EXCEPT !.recoveryAttempts = @ + 1]
              ELSE s.entries[o]]
           r == [s EXCEPT !.entries = entries]
<1>1. /\ new \in SUBSET PlanIds
      /\ \A p \in new : Recovery(p) /\ target[p[2]] \in Int
  BY RecoverTargetTyped DEF Neutralizer, PlanIds, Recovery
<1>2. StartNeutralizers(s, S) = Started(r, new, target)
  BY DEF StartNeutralizers
<1>3. entries \in [Offers -> Entry]
  <2> SUFFICES ASSUME NEW o \in Offers PROVE entries[o] \in Entry
    BY Zenon
  <2>1. s.entries[o] \in Entry
    BY DEF Typed, KernelState
  <2>2. [s.entries[o] EXCEPT !.recoveryAttempts = @ + 1] \in Entry
    BY <2>1 DEF Entry
  <2> QED
    BY <2>1, <2>2
<1> HIDE DEF new, target, entries
<1>4. r \in KernelState /\ r.plans = s.plans
  BY <1>3 DEF Typed, KernelState
<1>5. Typed(r)
  BY <1>4 DEF Typed
<1> HIDE DEF r
<1> QED
  BY <1>1, <1>2, <1>5, StartedTyped

LEMMA StartFillsTyped ==
  ASSUME NEW s, Typed(s), NEW S \in SUBSET Nonces
  PROVE Typed(StartFills(s, S))
<1> DEFINE new == {Fill(n) : n \in S}
           target == [n \in S |-> n]
<1>1. /\ new \in SUBSET PlanIds
      /\ \A p \in new : Recovery(p) /\ target[p[2]] \in Int
  BY BoundsAssumption DEF Fill, PlanIds, Recovery, Nonces
<1>2. StartFills(s, S) = Started(s, new, target)
  BY DEF StartFills
<1> HIDE DEF new, target
<1> QED
  BY <1>1, <1>2, StartedTyped

LEMMA RecoverOwedTyped ==
  ASSUME NEW s, Typed(s), NEW owed \in SUBSET Offers, NEW spent, NEW ends
  PROVE Typed(RecoverOwed(s, owed, spent, ends))
<1> DEFINE begin == {o \in owed \ spent : ends => \A x \in spent : o < x}
           stuck == {o \in spent : ends => Below(spent, o) = {}}
           r == MarkStuck(StartNeutralizers(s, begin), stuck)
<1>1. RecoverOwed(s, owed, spent, ends) =
        IF ends THEN EnterRecovering(r) ELSE StartFills(r, FillsDue(r))
  BY ValueIsItself DEF RecoverOwed, StartAndMark, AfterNeutralizers, FillDue
<1>2. begin \in SUBSET Offers
  OBVIOUS
<1> HIDE DEF begin, stuck
<1>3. Typed(r)
  BY <1>2, StartNeutralizersTyped, MarkStuckTyped
<1> HIDE DEF r
<1>4. FillsDue(r) \in SUBSET Nonces
  BY DEF FillsDue
<1> QED
  BY <1>1, <1>3, <1>4, EnterRecoveringTyped, StartFillsTyped

LEMMA RecoverTyped ==
  ASSUME NEW s, Typed(s)
  PROVE Typed(Recover(s))
<1> DEFINE owed == {o \in Offers : OwesNeutralizer(s, o)}
           spent == Spent(s, owed)
           ends == s.lifecycle = "running" /\ spent # {}
<1>1. Recover(s) \in {s, RecoverOwed(s, owed, spent, ends)}
  BY DEF Recover, RecoverSome, RecoverAll
<1>2. owed \in SUBSET Offers
  OBVIOUS
<1> HIDE DEF owed, spent, ends
<1> QED
  BY <1>1, <1>2, RecoverOwedTyped

-----------------------------------------------------------------------------
(* The slot, the ledger, the end of an event.                              *)

LEMMA NextLevelTyped ==
  ASSUME NEW s, s \in KernelState, NEW n \in Nonces
  PROVE NextLevel(s, n) \in Nat
<1> DEFINE cs == s.nonces[n].candidates
           tops == {l \in {cs[c].level : c \in DOMAIN cs} : \A c \in DOMAIN cs : cs[c].level <= l}
           top == CHOOSE l \in tops : TRUE
<1>1. cs \in Seq(Candidate)
  BY DEF KernelState, NonceRecord
<1>2. \A c \in DOMAIN cs : cs[c] \in Candidate
  BY <1>1, LenProperties, ElementOfSeq
<1>3. tops \subseteq Nat
  <2> HIDE DEF cs
  <2> QED
    BY <1>2 DEF Candidate
<1>4. NextLevel(s, n) = IF tops = {} THEN 1 ELSE 1 + top
  BY DEF NextLevel
<1> HIDE DEF tops
<1>5. tops # {} => top \in Nat
  BY <1>3
<1> HIDE DEF top
<1>6. CASE tops = {}
  BY <1>4, <1>6
<1>7. CASE tops # {}
  BY <1>4, <1>5, <1>7
<1> QED
  BY <1>6, <1>7

LEMMA DurableEntryTyped == ASSUME NEW e \in Entry PROVE DurableEntry(e) \in Entry
BY NoEntryTyped, ZenonT(60) DEF DurableEntry, Entry, NoEntry

LEMMA DurableRecordTyped == ASSUME NEW r \in NonceRecord PROVE DurableRecord(r) \in NonceRecord
BY NoRecordTyped DEF DurableRecord, NonceRecord

LEMMA ToDurableTyped == ASSUME NEW s, s \in KernelState PROVE ToDurable(s) \in Ledger
<1>1. [o \in Offers |-> DurableEntry(s.entries[o])] \in [Offers -> Entry]
  BY DurableEntryTyped DEF KernelState
<1>2. [n \in Nonces |-> DurableRecord(s.nonces[n])] \in [Nonces -> NonceRecord]
  BY DurableRecordTyped DEF KernelState
<1> QED
  BY <1>1, <1>2 DEF ToDurable, Ledger, KernelState

LEMMA FlushIfChangedTyped ==
  ASSUME NEW s, Typed(s)
  PROVE Typed(FlushIfChanged(s))
<1> DEFINE ledger == ToDurable(s)
           writes == Append(s.writes, ledger)
           r == [s EXCEPT !.writes = writes, !.lastDurable = ledger]
<1>1. FlushIfChanged(s) \in {s, r}
  BY DEF FlushIfChanged, Flush
<1>2. ledger \in Ledger
  BY ToDurableTyped DEF Typed
<1> HIDE DEF ledger
<1>3. writes \in Seq(Ledger)
  BY <1>2, AppendProperties DEF Typed, KernelState
<1> HIDE DEF writes
<1>4. r \in KernelState /\ r.plans = s.plans
  BY <1>2, <1>3 DEF Typed, KernelState
<1>5. Typed(r)
  BY <1>4 DEF Typed
<1> HIDE DEF r
<1> QED
  BY <1>1, <1>5

LEMMA CheckStoppedTyped == ASSUME NEW s, Typed(s) PROVE Typed(CheckStopped(s))
BY StopTyped DEF CheckStopped, StopWhen

LEMMA PruneFinishedTyped ==
  ASSUME NEW s, Typed(s)
  PROVE Typed(PruneFinished(s))
<1> DEFINE live == {p \in PlanIds : s.plans[p].status # "none"}
           before == s.before \cap (live \X live)
<1>1. PruneFinished(s) = [s EXCEPT !.before = before]
  BY DEF PruneFinished
<1>2. before \in SUBSET (PlanIds \X PlanIds)
  BY DEF Typed, KernelState
<1> HIDE DEF before
<1>3. PruneFinished(s) \in KernelState /\ PruneFinished(s).plans = s.plans
  BY <1>1, <1>2, ZenonT(60) DEF Typed, KernelState
<1> QED
  BY <1>3 DEF Typed

\* a plan that stands at one of its steps is simulated again
LEMMA SimulateAgainTyped ==
  ASSUME NEW s, Typed(s), NEW S \in SUBSET PlanIds,
         \A p \in S : s.plans[p].cursor \in DOMAIN StepsOf(p)
  PROVE /\ Typed(SimulateAgain(s, S))
        /\ \A p \in PlanIds \ S : SimulateAgain(s, S).plans[p] = s.plans[p]
        /\ SimulateAgain(s, S).nextNonce = s.nextNonce
<1> DEFINE plans == [p \in PlanIds |->
                       IF p \in S THEN [s.plans[p] EXCEPT !.phase = "simulate"] ELSE s.plans[p]]
<1>1. SimulateAgain(s, S) = [s EXCEPT !.plans = plans]
  BY DEF SimulateAgain
<1>2. plans \in [PlanIds -> Plan] /\ \A p \in PlanIds : Placed(p, plans[p])
  <2> SUFFICES ASSUME NEW p \in PlanIds PROVE plans[p] \in Plan /\ Placed(p, plans[p])
    BY Zenon
  <2>1. s.plans[p] \in Plan /\ Placed(p, s.plans[p])
    BY DEF Typed, KernelState
  <2> DEFINE again == [s.plans[p] EXCEPT !.phase = "simulate"]
  <2>2. again \in Plan /\ again.phase = "simulate" /\ again.cursor = s.plans[p].cursor
    BY <2>1 DEF Plan, Phases
  <2>3. CASE p \in S
    <3>1. plans[p] = again
      BY <2>3
    <3> HIDE DEF again, plans
    <3> QED
      BY <2>2, <2>3, <3>1 DEF Placed, Numbered
  <2>4. CASE p \notin S
    BY <2>1, <2>4
  <2> QED
    BY <2>3, <2>4
<1>3. \A p \in PlanIds \ S : plans[p] = s.plans[p]
  OBVIOUS
<1> HIDE DEF plans
<1>4. /\ SimulateAgain(s, S) \in KernelState /\ SimulateAgain(s, S).plans = plans
      /\ SimulateAgain(s, S).nextNonce = s.nextNonce
  BY <1>1, <1>2, ZenonT(60) DEF Typed, KernelState
<1> QED
  BY <1>2, <1>3, <1>4 DEF Typed

LEMMA SignTyped ==
  ASSUME NEW s, Typed(s), NEW p \in PlanIds, NEW n \in Nonces,
         s.plans[p].cursor \in DOMAIN StepsOf(p)
  PROVE Typed(Sign(s, p, n))
<1> DEFINE q == s.plans[p]
           plan == [q EXCEPT !.phase = "sign", !.nonce = n, !.level = NextLevel(s, n)]
           r == [s EXCEPT !.plans[p] = plan, !.slot = p]
<1>0. s \in KernelState /\ q \in Plan
  BY DEF Typed, KernelState
<1>1. NextLevel(s, n) \in Nat /\ n \in Int
  BY <1>0, NextLevelTyped, BoundsAssumption DEF Nonces
<1>2. Sign(s, p, n) = r
  BY <1>0, ZenonT(60) DEF Sign, KernelState
<1> HIDE DEF q
<1>3. plan \in Plan /\ plan.cursor = q.cursor /\ plan.nonce = n
  BY <1>0, <1>1 DEF Plan, Phases
<1>4. Placed(p, plan)
  BY <1>3 DEF Placed, q
<1> HIDE DEF plan
<1>5. r \in KernelState /\ r.plans = [s.plans EXCEPT ![p] = plan]
  BY <1>0, <1>3 DEF KernelState
<1> QED
  BY <1>0, <1>2, <1>4, <1>5 DEF Typed, KernelState

\* one that waits for the slot stands at one of its steps
LEMMA WaitingPlaced ==
  ASSUME NEW s, Typed(s), NEW p \in InPhase(s, "await-slot")
  PROVE p \in PlanIds /\ s.plans[p].cursor \in DOMAIN StepsOf(p)
BY DEF Typed, InPhase, Executing, Placed, Working

LEMMA PassRecoveriesTyped ==
  ASSUME NEW s, Typed(s), NEW S \in SUBSET RecoveryPlans(InPhase(s, "await-slot"))
  PROVE /\ Typed(PassRecoveries(s, S))
        /\ \A p \in PlanIds : Recovery(p) /\ Signable(s, p) =>
             PassRecoveries(s, S).plans[p] = s.plans[p]
        /\ PassRecoveries(s, S).nextNonce = s.nextNonce
<1> DEFINE again == {p \in S : ~SimFresh(s, p)}
           lost == {p \in S : Lost(s, p)}
           r == SimulateAgain(s, again)
<1>1. PassRecoveries(s, S) = FailRecovery(r, lost)
  BY ValueIsItself DEF PassRecoveries
<1>2. /\ again \in SUBSET PlanIds /\ lost \in SUBSET PlanIds
      /\ \A p \in again : s.plans[p].cursor \in DOMAIN StepsOf(p)
      /\ \A p \in PlanIds : Signable(s, p) => p \notin again /\ p \notin lost
  BY WaitingPlaced DEF RecoveryPlans, Lost, Signable
<1> HIDE DEF again, lost
<1>3. /\ Typed(r) /\ r.nextNonce = s.nextNonce
      /\ \A p \in PlanIds : Signable(s, p) => r.plans[p] = s.plans[p]
  BY <1>2, SimulateAgainTyped
<1> HIDE DEF r
<1> QED
  BY <1>1, <1>2, <1>3, FailRecoveryTyped

LEMMA PassStepsTyped ==
  ASSUME NEW s, Typed(s), NEW S \in SUBSET InPhase(s, "await-slot"), NEW allowed
  PROVE /\ Typed(PassSteps(s, S, allowed))
        /\ \A p \in PlanIds \cap allowed : Releasing(s, p) \/ Signable(s, p) =>
             PassSteps(s, S, allowed).plans[p] = s.plans[p]
        /\ PassSteps(s, S, allowed).nextNonce = s.nextNonce
<1> DEFINE again == {p \in S \cap allowed : ~Releasing(s, p) /\ ~SimFresh(s, p)}
           r == SimulateAgain(s, again)
<1>1. PassSteps(s, S, allowed) = FailSteps(r, S \ allowed)
  BY ValueIsItself DEF PassSteps
<1>2. /\ again \in SUBSET PlanIds /\ S \ allowed \in SUBSET PlanIds
      /\ \A p \in again : s.plans[p].cursor \in DOMAIN StepsOf(p)
      /\ \A p \in PlanIds : Releasing(s, p) \/ Signable(s, p) => p \notin again
  BY WaitingPlaced DEF Signable
<1> HIDE DEF again
<1>3. /\ Typed(r) /\ r.nextNonce = s.nextNonce
      /\ \A p \in PlanIds : Releasing(s, p) \/ Signable(s, p) => r.plans[p] = s.plans[p]
  BY <1>2, SimulateAgainTyped
<1> HIDE DEF r
<1> QED
  BY <1>1, <1>2, <1>3, FailStepsTyped

\* the nonce a plan signs at, when neither it nor the next nonce has changed
LEMMA NonceForKept ==
  ASSUME NEW s, NEW r, NEW p, r.plans[p] = s.plans[p], r.nextNonce = s.nextNonce
  PROVE NonceFor(r, p) = NonceFor(s, p)
BY DEF NonceFor

LEMMA DispatchRecoveriesTyped ==
  ASSUME NEW s, Typed(s)
  PROVE Typed(DispatchRecoveries(s, RecoveryPlans(InPhase(s, "await-slot"))))
<1> DEFINE W == RecoveryPlans(InPhase(s, "await-slot"))
           first == First(s, {p \in W : Signable(s, p)})
           r == PassRecoveries(s, Reached(s, W, first))
<1>1. DispatchRecoveries(s, W) = SlotToRecovery(r, first)
  <2>1. Value(r) = r
    BY ValueIsItself
  <2>2. DispatchRecoveries(s, W) = RecoveriesTo(s, W, first)
    BY DEF DispatchRecoveries
  <2>3. RecoveriesTo(s, W, first) = SlotToRecovery(Value(r), first)
    BY DEF RecoveriesTo
  <2> QED
    BY <2>1, <2>2, <2>3
<1>2. /\ Reached(s, W, first) \in SUBSET W
      /\ \A p \in first : p \in W /\ Signable(s, p)
  BY DEF Reached, First
<1>3. \A p \in W : p \in InPhase(s, "await-slot") /\ Recovery(p)
  BY DEF RecoveryPlans
<1> HIDE DEF first
<1>4. /\ Typed(r) /\ r.nextNonce = s.nextNonce
      /\ \A p \in PlanIds : Recovery(p) /\ Signable(s, p) => r.plans[p] = s.plans[p]
  BY <1>2, PassRecoveriesTyped
<1> HIDE DEF r, W
<1>5. ASSUME first = {} PROVE Typed(DispatchRecoveries(s, W))
  BY <1>1, <1>4, <1>5 DEF SlotToRecovery
<1>6. ASSUME first # {} PROVE Typed(DispatchRecoveries(s, W))
  <2>1. PICK p \in first : p = CHOOSE q \in first : TRUE
    BY <1>6
  <2>2. p \in PlanIds /\ s.plans[p].cursor \in DOMAIN StepsOf(p)
    BY <1>2, <1>3, WaitingPlaced
  <2>3. r.plans[p] = s.plans[p] /\ NonceFor(s, p) \in Nonces
    BY <1>2, <1>3, <1>4, <2>2 DEF Signable
  <2>4. NonceFor(r, p) \in Nonces
    BY <1>4, <2>3, NonceForKept
  <2>5. SlotToRecovery(r, first) = Sign(r, p, NonceFor(r, p))
    <3> DEFINE pick == CHOOSE q \in first : TRUE
    <3>1. SlotToRecovery(r, first) = Sign(r, pick, NonceFor(r, pick))
      BY <1>6 DEF SlotToRecovery
    <3>2. pick = p
      BY <2>1
    <3> HIDE DEF pick
    <3> QED
      BY <3>1, <3>2
  <2> QED
    BY <1>1, <1>4, <2>2, <2>3, <2>4, <2>5, SignTyped
<1>7. Typed(DispatchRecoveries(s, W))
  BY <1>5, <1>6
<1> QED
  BY <1>7 DEF W

LEMMA DispatchStepsTyped ==
  ASSUME NEW s, Typed(s)
  PROVE Typed(DispatchSteps(s, StepPlans(InPhase(s, "await-slot"))))
<1> DEFINE W == StepPlans(InPhase(s, "await-slot"))
           allowed == {p \in W : StillAuthorized(s, p)}
           first == First(s, {p \in allowed : Releasing(s, p) \/ Signable(s, p)})
           r == PassSteps(s, Reached(s, W, first), allowed)
<1>1. DispatchSteps(s, W) = SlotToStep(r, first)
  <2>1. Value(r) = r
    BY ValueIsItself
  <2>2. DispatchSteps(s, W) = StepsTo(s, W, allowed, first)
    BY DEF DispatchSteps, StepsAmong
  <2>3. StepsTo(s, W, allowed, first) = SlotToStep(Value(r), first)
    BY DEF StepsTo
  <2> QED
    BY <2>1, <2>2, <2>3
<1>2. /\ Reached(s, W, first) \in SUBSET W
      /\ \A p \in first : p \in allowed /\ (Releasing(s, p) \/ Signable(s, p))
      /\ allowed \subseteq W
  BY DEF Reached, First
<1>3. W \subseteq InPhase(s, "await-slot")
  BY DEF StepPlans
<1> HIDE DEF first, allowed, W
<1>4. /\ Typed(r) /\ r.nextNonce = s.nextNonce
      /\ \A p \in PlanIds \cap allowed : Releasing(s, p) \/ Signable(s, p) =>
           r.plans[p] = s.plans[p]
  BY <1>2, <1>3, PassStepsTyped
<1> HIDE DEF r
<1>5. ASSUME first = {} PROVE Typed(DispatchSteps(s, W))
  BY <1>1, <1>4, <1>5 DEF SlotToStep
<1>6. ASSUME first # {} PROVE Typed(DispatchSteps(s, W))
  <2>1. PICK p \in first : p = CHOOSE q \in first : TRUE
    BY <1>6
  <2>2. p \in PlanIds /\ s.plans[p].cursor \in DOMAIN StepsOf(p)
    BY <1>2, <1>3, WaitingPlaced
  <2>3. r.plans[p] = s.plans[p]
    BY <1>2, <1>4, <2>2
  <2>4. SlotToStep(r, first) =
          IF Releasing(r, p) THEN Commit(r, p) ELSE Sign(r, p, NonceFor(r, p))
    <3> DEFINE pick == CHOOSE q \in first : TRUE
    <3>1. SlotToStep(r, first) =
            IF Releasing(r, pick) THEN Commit(r, pick) ELSE Sign(r, pick, NonceFor(r, pick))
      BY <1>6 DEF SlotToStep
    <3>2. pick = p
      BY <2>1
    <3> HIDE DEF pick
    <3> QED
      BY <3>1, <3>2
  <2>5. ASSUME Releasing(r, p) PROVE Typed(Commit(r, p))
    <3>1. Step(r, p).kind # "tx"
      BY <2>5 DEF Releasing
    <3> QED
      BY <1>4, <2>2, <2>3, <3>1, CommitTyped
  <2>6. ASSUME ~Releasing(r, p) PROVE Typed(Sign(r, p, NonceFor(r, p)))
    <3>1. ~Releasing(s, p)
      BY <2>3, <2>6 DEF Releasing, Step
    <3>2. NonceFor(s, p) \in Nonces
      BY <1>2, <3>1 DEF Signable
    <3> QED
      BY <1>4, <2>2, <2>3, <3>2, NonceForKept, SignTyped
  <2> QED
    BY <1>1, <2>4, <2>5, <2>6
<1>7. Typed(DispatchSteps(s, W))
  BY <1>5, <1>6
<1> QED
  BY <1>7 DEF W

LEMMA DispatchSlotTyped ==
  ASSUME NEW s, Typed(s)
  PROVE Typed(DispatchSlot(s))
<1> DEFINE r == DispatchRecoveries(s, RecoveryPlans(InPhase(s, "await-slot")))
<1>1. Typed(r)
  BY DispatchRecoveriesTyped
<1>2. DispatchSlot(s) = IF s.slot # Free THEN s ELSE DispatchRest(r)
  BY ValueIsItself DEF DispatchSlot
<1> HIDE DEF r
<1>3. Typed(DispatchRest(r))
  BY <1>1, DispatchStepsTyped DEF DispatchRest
<1> QED
  BY <1>2, <1>3

LEMMA AfterEventTyped ==
  ASSUME NEW s, Typed(s)
  PROVE Typed(AfterEvent(s))
<1> DEFINE settled == SettleEntries(SettleNonces(ProgressPlans(s)))
           bounded == LatchBound(SettleCompensation(settled))
           resent == Rebroadcast(CheckStarted(bounded))
           acted == DispatchSlot(Recover(resent))
<1>1. AfterEvent(s) = PruneFinished(CheckStopped(FlushIfChanged(acted)))
  BY ValueIsItself DEF AfterEvent
<1>2. Typed(settled)
  BY ProgressPlansTyped, SettleNoncesTyped, SettleEntriesTyped
<1> HIDE DEF settled
<1>3. Typed(bounded)
  BY <1>2, SettleCompensationTyped, LatchBoundTyped
<1> HIDE DEF bounded
<1>4. Typed(resent)
  BY <1>3, CheckStartedTyped, RebroadcastTyped
<1> HIDE DEF resent
<1>5. Typed(acted)
  BY <1>4, RecoverTyped, DispatchSlotTyped
<1> HIDE DEF acted
<1> QED
  BY <1>1, <1>5, FlushIfChangedTyped, CheckStoppedTyped, PruneFinishedTyped

\* Whatever a handler leaves, what the rest of the event makes of it is typed.
LEMMA ReduceTyped == ASSUME NEW s, Typed(s) PROVE Typed(Reduce(s))
BY AfterEventTyped, ValueIsItself DEF Reduce

-----------------------------------------------------------------------------
(* What the handlers of the events leave.                                  *)

LEMMA WithPlanTyped ==
  ASSUME NEW s, Typed(s), NEW p \in PlanIds, NEW q \in Plan, Placed(p, q)
  PROVE Typed([s EXCEPT !.plans[p] = q])
<1> DEFINE r == [s EXCEPT !.plans[p] = q]
<1>1. r \in KernelState /\ r.plans = [s.plans EXCEPT ![p] = q]
  BY DEF Typed, KernelState
<1> QED
  BY <1>1 DEF Typed, KernelState

\* a change that leaves every plan alone
LEMMA SamePlansTyped ==
  ASSUME NEW s, Typed(s), NEW r \in KernelState, r.plans = s.plans
  PROVE Typed(r)
BY DEF Typed

LEMMA DoubtTyped ==
  ASSUME NEW s, Typed(s), NEW p \in PlanIds, NEW d \in {"none", "lapsed", "facts"}
  PROVE Typed([s EXCEPT !.plans[p].doubt = d])
<1> DEFINE q == [s.plans[p] EXCEPT !.doubt = d]
<1>1. s.plans[p] \in Plan /\ Placed(p, s.plans[p])
  BY DEF Typed, KernelState
<1>2. q \in Plan /\ q.phase = s.plans[p].phase /\ q.cursor = s.plans[p].cursor
      /\ q.nonce = s.plans[p].nonce
  BY <1>1 DEF Plan
<1>3. Placed(p, q)
  BY <1>1, <1>2 DEF Placed
<1>4. [s EXCEPT !.plans[p].doubt = d] = [s EXCEPT !.plans[p] = q]
  BY DEF Typed, KernelState
<1> HIDE DEF q
<1> QED
  BY <1>2, <1>3, <1>4, WithPlanTyped

\* a plan sent back to a phase in which it does not work
LEMMA PhaseTyped ==
  ASSUME NEW s, Typed(s), NEW p \in PlanIds, NEW phase \in Phases \ Working
  PROVE Typed([s EXCEPT !.plans[p].phase = phase])
<1> DEFINE q == [s.plans[p] EXCEPT !.phase = phase]
<1>1. s.plans[p] \in Plan
  BY DEF Typed, KernelState
<1>2. q \in Plan /\ q.phase = phase
  BY <1>1 DEF Plan
<1>3. Placed(p, q)
  BY <1>2 DEF Placed, Working, Numbered
<1>4. [s EXCEPT !.plans[p].phase = phase] = [s EXCEPT !.plans[p] = q]
  BY DEF Typed, KernelState
<1> HIDE DEF q
<1> QED
  BY <1>2, <1>3, <1>4, WithPlanTyped

LEMMA SlotTyped ==
  ASSUME NEW s, Typed(s), NEW slot \in PlanIds \cup {Free, Committing}
  PROVE Typed([s EXCEPT !.slot = slot])
<1> DEFINE r == [s EXCEPT !.slot = slot]
<1>1. r \in KernelState /\ r.plans = s.plans
  BY DEF Typed, KernelState
<1> QED
  BY <1>1, SamePlansTyped

LEMMA EntriesTyped ==
  ASSUME NEW s, Typed(s), NEW entries \in [Offers -> Entry]
  PROVE Typed([s EXCEPT !.entries = entries])
<1> DEFINE r == [s EXCEPT !.entries = entries]
<1>1. r \in KernelState /\ r.plans = s.plans
  BY DEF Typed, KernelState
<1> QED
  BY <1>1, SamePlansTyped

LEMMA NoncesTyped ==
  ASSUME NEW s, Typed(s), NEW nonces \in [Nonces -> NonceRecord]
  PROVE Typed([s EXCEPT !.nonces = nonces])
<1> DEFINE r == [s EXCEPT !.nonces = nonces]
<1>1. r \in KernelState /\ r.plans = s.plans
  BY DEF Typed, KernelState
<1> QED
  BY <1>1, SamePlansTyped

LEMMA LoadedNoncesTyped ==
  ASSUME NEW ledger \in Ledger
  PROVE LoadedNonces(ledger) \in [Nonces -> NonceRecord]
<1> SUFFICES ASSUME NEW n \in Nonces PROVE LoadedNonces(ledger)[n] \in NonceRecord
  BY DEF LoadedNonces
<1> DEFINE r == ledger.nonces[n]
           cs == r.candidates
           loaded == [c \in DOMAIN cs |-> IF KeptHome(cs[c]) THEN cs[c]
                                          ELSE [cs[c] EXCEPT !.sent = "unknown"]]
<1>1. r \in NonceRecord
  BY DEF Ledger
<1>2. cs \in Seq(Candidate)
  BY <1>1 DEF NonceRecord
<1>3. LoadedNonces(ledger)[n] = [r EXCEPT !.candidates = loaded]
  BY DEF LoadedNonces
<1> HIDE DEF cs
<1>4. loaded \in [DOMAIN cs -> Candidate]
  <2> SUFFICES ASSUME NEW c \in DOMAIN cs PROVE loaded[c] \in Candidate
    BY Zenon
  <2>1. cs[c] \in Candidate
    BY <1>2, LenProperties, ElementOfSeq
  <2>2. \A d \in Candidate : [d EXCEPT !.sent = "unknown"] \in Candidate
    BY DEF Candidate, SendStatus
  <2> QED
    BY <2>1, <2>2
<1> HIDE DEF loaded, r
<1>5. loaded \in Seq(Candidate)
  BY <1>2, <1>4, MapSeq
<1> QED
  BY <1>1, <1>3, <1>5 DEF NonceRecord

LEMMA LoadedTyped ==
  ASSUME NEW ledger \in Ledger, NEW W
  PROVE Typed(Loaded(ledger, W))
<1> DEFINE entries == [o \in Offers |->
             IF o \in W THEN [ledger.entries[o] EXCEPT !.compensate = TRUE] ELSE ledger.entries[o]]
           nonces == LoadedNonces(ledger)
<1>1. entries \in [Offers -> Entry]
  <2> SUFFICES ASSUME NEW o \in Offers PROVE entries[o] \in Entry
    BY Zenon
  <2>1. ledger.entries[o] \in Entry
    BY DEF Ledger
  <2>2. [ledger.entries[o] EXCEPT !.compensate = TRUE] \in Entry
    BY <2>1 DEF Entry
  <2> QED
    BY <2>1, <2>2
<1>2. nonces \in [Nonces -> NonceRecord]
  BY LoadedNoncesTyped
<1> DEFINE next == ledger.nextNonce
           submissions == ledger.submissions
<1>3. Loaded(ledger, W) = [initialState EXCEPT
                             !.lifecycle = "starting", !.nextNonce = next,
                             !.entries = entries, !.nonces = nonces,
                             !.submissions = submissions]
  BY DEF Loaded
<1>4. next \in Int /\ submissions \in [Intents -> Submission]
  BY DEF Ledger
<1> HIDE DEF entries, nonces, next, submissions
<1>5. Loaded(ledger, W) \in KernelState /\ Loaded(ledger, W).plans = initialState.plans
  <2>1. initialState \in KernelState
    BY InitialStateTyped DEF Typed
  <2> QED
    BY <1>1, <1>2, <1>3, <1>4, <2>1, ZenonT(60) DEF KernelState, Lifecycle
<1> QED
  BY <1>5, InitialStateTyped, SamePlansTyped

LEMMA RestartedTyped ==
  ASSUME NEW s, Typed(s)
  PROVE Typed([s EXCEPT !.lastDurable = ToDurable(s)])
<1> DEFINE r == [s EXCEPT !.lastDurable = ToDurable(s)]
<1>1. ToDurable(s) \in Ledger
  BY ToDurableTyped DEF Typed
<1>2. r \in KernelState /\ r.plans = s.plans
  BY <1>1 DEF Typed, KernelState
<1> QED
  BY <1>2, SamePlansTyped

LEMMA OnHeadTyped ==
  ASSUME NEW s, Typed(s), NEW number \in Nat
  PROVE Typed(OnHead(s, number))
<1> DEFINE stamped(r) == [r EXCEPT !.lastActionHead = IF @ = 0 THEN number ELSE @,
                                   !.unknownSince = IF HasUnknown(r) /\ @ = Undefined
                                                    THEN number ELSE @]
           nonces == [n \in Nonces |-> IF ~s.nonces[n].open THEN s.nonces[n]
                                       ELSE stamped(s.nonces[n])]
           finalized == IF number - FinalityLag > s.finalized
                        THEN number - FinalityLag ELSE s.finalized
<1>1. \A r \in NonceRecord : stamped(r) \in NonceRecord
  <2> SUFFICES ASSUME NEW r \in NonceRecord PROVE stamped(r) \in NonceRecord
    OBVIOUS
  <2> DEFINE action == IF r.lastActionHead = 0 THEN number ELSE r.lastActionHead
             since == IF HasUnknown(r) /\ r.unknownSince = Undefined THEN number
                      ELSE r.unknownSince
  <2>1. action \in Nat /\ since \in Int
    BY DEF NonceRecord
  <2>2. stamped(r) = [r EXCEPT !.lastActionHead = action, !.unknownSince = since]
    OBVIOUS
  <2> HIDE DEF action, since, stamped
  <2> QED
    BY <2>1, <2>2 DEF NonceRecord
<1>2. nonces \in [Nonces -> NonceRecord]
  <2> HIDE DEF stamped
  <2> QED
    BY <1>1 DEF Typed, KernelState
<1>3. finalized \in Int
  BY BoundsAssumption, SMTT(30) DEF Typed, KernelState
<1>4. OnHead(s, number) = [s EXCEPT !.head = number, !.finalized = finalized, !.nonces = nonces]
  BY DEF OnHead
<1> HIDE DEF nonces, finalized
<1>5. OnHead(s, number) \in KernelState /\ OnHead(s, number).plans = s.plans
  BY <1>2, <1>3, <1>4, ZenonT(60) DEF Typed, KernelState
<1> QED
  BY <1>5, SamePlansTyped

LEMMA SignedTypedTyped ==
  ASSUME Typed(k), NEW p \in PlanIds, k.plans[p].phase = "sign"
  PROVE Typed(SignedTyped(p))
<1> DEFINE entries == [o \in Offers |->
                         IF o \in Step(k, p).creates /\ Ours(k, p, {o}, {"intended"})
                         THEN [k.entries[o] EXCEPT !.state = "signed"] ELSE k.entries[o]]
           cursor == k.plans[p].cursor + 1
           q == [k.plans[p] EXCEPT !.cursor = cursor, !.phase = "ready"]
           r == [k EXCEPT !.entries = entries]
           signed == [r EXCEPT !.plans[p] = q]
<1>1. entries \in [Offers -> Entry]
  <2> SUFFICES ASSUME NEW o \in Offers PROVE entries[o] \in Entry
    BY Zenon
  <2>1. k.entries[o] \in Entry
    BY DEF Typed, KernelState
  <2>2. [k.entries[o] EXCEPT !.state = "signed"] \in Entry
    BY <2>1 DEF Entry, EntryStates
  <2> QED
    BY <2>1, <2>2
<1>2. k.plans[p] \in Plan
  BY DEF Typed, KernelState
<1>3. q \in Plan /\ q.phase = "ready"
  <2>1. cursor \in Nat \ {0}
    BY <1>2 DEF Plan
  <2>2. ASSUME NEW c \in Nat \ {0}
        PROVE LET new == [k.plans[p] EXCEPT !.cursor = c, !.phase = "ready"]
              IN new \in Plan /\ new.phase = "ready"
    BY <1>2 DEF Plan, Phases
  <2> HIDE DEF cursor
  <2> QED
    BY <2>1, <2>2
<1>4. Placed(p, q)
  BY <1>3 DEF Placed, Working, Numbered
<1>5. SignedTyped(p) = IF ~StillAuthorized(k, p) THEN FailPlans(k, {p})
                       ELSE Advance([k EXCEPT !.entries = entries, !.plans[p] = q], {p})
  BY DEF SignedTyped
<1>6. [k EXCEPT !.entries = entries, !.plans[p] = q] = signed
  BY DEF Typed, KernelState
<1> HIDE DEF entries, q
<1>7. Typed(r)
  BY <1>1, EntriesTyped
<1> HIDE DEF r
<1>8. Typed(signed)
  BY <1>3, <1>4, <1>7, WithPlanTyped
<1> HIDE DEF signed
<1>9. {p} \in SUBSET PlanIds
  OBVIOUS
<1> QED
  BY <1>5, <1>6, <1>8, <1>9, FailPlansTyped, AdvanceTyped

LEMMA SignedTxTyped ==
  ASSUME Typed(k), NEW p \in PlanIds, k.plans[p].phase = "sign"
  PROVE Typed(SignedTx(p))
<1> DEFINE open == [k EXCEPT !.slot = Free]
           mine == [k EXCEPT !.slot = p]
<1>1. SignedTx(p) \in {FailPlans(open, {p}), SimulateAgain(open, {p}), Commit(mine, p)}
  BY DEF SignedTx
<1>2. Typed(open) /\ open.plans = k.plans
  BY SlotTyped, ZenonT(60) DEF Typed, KernelState
<1>3. Typed(mine) /\ mine.plans = k.plans
  BY SlotTyped, ZenonT(60) DEF Typed, KernelState
<1> HIDE DEF open
<1>4. k.plans[p].cursor \in DOMAIN StepsOf(p)
  BY DEF Typed, Placed, Working
<1>5. {p} \in SUBSET PlanIds /\ \A q \in {p} : open.plans[q].cursor \in DOMAIN StepsOf(q)
  BY <1>2, <1>4
<1>9. Typed(SimulateAgain(open, {p}))
  BY <1>2, <1>5, SimulateAgainTyped
<1> HIDE DEF mine
<1>6. mine.plans[p].cursor \in DOMAIN StepsOf(p)
      /\ (Step(mine, p).kind = "tx" => mine.plans[p].nonce \in Nonces)
  BY <1>3 DEF Typed, Placed, Working, Numbered, Step
<1>7. Typed(Commit(mine, p))
  BY <1>3, <1>6, CommitTyped
<1> QED
  BY <1>1, <1>2, <1>5, <1>7, <1>9, FailPlansTyped

LEMMA MarkPendingTyped ==
  ASSUME NEW s, Typed(s), NEW S, NEW sent \in SendStatus
  PROVE Typed(MarkPending(s, S, sent))
<1> DEFINE pending(n, c) == \E p \in S : HasPending(p) /\ k.plans[p].nonce = n
                                                      /\ k.plans[p].pending = c
           cs(n) == [c \in DOMAIN s.nonces[n].candidates |->
                       IF pending(n, c) THEN [s.nonces[n].candidates[c] EXCEPT !.sent = sent]
                       ELSE s.nonces[n].candidates[c]]
           nonces == [n \in Nonces |-> [s.nonces[n] EXCEPT !.candidates = cs(n)]]
<1>1. MarkPending(s, S, sent) = [s EXCEPT !.nonces = nonces]
  BY DEF MarkPending
<1> HIDE DEF pending
<1>2. \A n \in Nonces : cs(n) \in Seq(Candidate)
  <2> SUFFICES ASSUME NEW n \in Nonces PROVE cs(n) \in Seq(Candidate)
    OBVIOUS
  <2>1. s.nonces[n].candidates \in Seq(Candidate)
    BY DEF Typed, KernelState, NonceRecord
  <2>2. cs(n) \in [DOMAIN s.nonces[n].candidates -> Candidate]
    <3> SUFFICES ASSUME NEW c \in DOMAIN s.nonces[n].candidates PROVE cs(n)[c] \in Candidate
      BY Zenon
    <3>1. s.nonces[n].candidates[c] \in Candidate
      BY <2>1, LenProperties, ElementOfSeq
    <3>2. \A d \in Candidate : [d EXCEPT !.sent = sent] \in Candidate
      BY DEF Candidate
    <3> QED
      BY <3>1, <3>2
  <2> HIDE DEF cs
  <2> QED
    BY <2>1, <2>2, MapSeq
<1> HIDE DEF cs
<1>3. nonces \in [Nonces -> NonceRecord]
  <2> SUFFICES ASSUME NEW n \in Nonces PROVE nonces[n] \in NonceRecord
    BY Zenon
  <2>1. s.nonces[n] \in NonceRecord
    BY DEF Typed, KernelState
  <2> QED
    BY <1>2, <2>1 DEF NonceRecord
<1> HIDE DEF nonces
<1> QED
  BY <1>1, <1>3, NoncesTyped

LEMMA HandBackPendingTyped ==
  ASSUME NEW s, Typed(s), NEW S
  PROVE Typed(HandBackPending(s, S))
<1> DEFINE ours(e) == /\ e.state = "revoking"
                      /\ \E p \in S : HasPending(p)
                              /\ e.neutralizing = <<k.plans[p].nonce, k.plans[p].pending>>
           entries == [o \in Offers |->
              IF ours(s.entries[o])
              THEN [s.entries[o] EXCEPT !.state = s.entries[o].prior, !.neutralizing = NoHash]
              ELSE s.entries[o]]
<1>1. HandBackPending(s, S) = [s EXCEPT !.entries = entries]
  BY DEF HandBackPending
<1> HIDE DEF ours
<1>2. entries \in [Offers -> Entry]
  <2> SUFFICES ASSUME NEW o \in Offers PROVE entries[o] \in Entry
    BY Zenon
  <2>1. s.entries[o] \in Entry
    BY DEF Typed, KernelState
  <2>2. [s.entries[o] EXCEPT !.state = s.entries[o].prior, !.neutralizing = NoHash] \in Entry
    BY <2>1 DEF Entry, EntryStates, OpenEntry, Hash, NoHash
  <2> QED
    BY <2>1, <2>2
<1> HIDE DEF entries
<1> QED
  BY <1>1, <1>2, EntriesTyped

LEMMA AnsweredTyped ==
  ASSUME NEW s, Typed(s), s.writes # <<>>
  PROVE Typed(Answered(s))
<1> DEFINE plans == [p \in PlanIds |->
               IF s.plans[p].flush > 0 THEN [s.plans[p] EXCEPT !.flush = @ - 1]
               ELSE s.plans[p]]
<1>1. Answered(s) = [s EXCEPT !.writes = Tail(s.writes), !.plans = plans]
  BY DEF Answered, Typed, KernelState
<1>2. Tail(s.writes) \in Seq(Ledger)
  BY HeadTailProperties DEF Typed, KernelState
<1>3. plans \in [PlanIds -> Plan] /\ \A p \in PlanIds : Placed(p, plans[p])
  <2> SUFFICES ASSUME NEW p \in PlanIds PROVE plans[p] \in Plan /\ Placed(p, plans[p])
    BY Zenon
  <2>1. s.plans[p] \in Plan /\ Placed(p, s.plans[p])
    BY DEF Typed, KernelState
  <2> DEFINE q == [s.plans[p] EXCEPT !.flush = @ - 1]
  <2>2. ASSUME s.plans[p].flush > 0
        PROVE q \in Plan /\ q.phase = s.plans[p].phase /\ q.cursor = s.plans[p].cursor
              /\ q.nonce = s.plans[p].nonce
    <3>1. s.plans[p].flush - 1 \in Nat
      BY <2>1, <2>2, SMTT(30) DEF Plan
    <3>2. ASSUME NEW f \in Nat
          PROVE LET new == [s.plans[p] EXCEPT !.flush = f]
                IN new \in Plan /\ new.phase = s.plans[p].phase
                   /\ new.cursor = s.plans[p].cursor /\ new.nonce = s.plans[p].nonce
      BY <2>1 DEF Plan
    <3> QED
      BY <3>1, <3>2
  <2>3. ASSUME s.plans[p].flush > 0 PROVE Placed(p, q)
    <3> HIDE DEF q
    <3> QED
      BY <2>1, <2>2, <2>3 DEF Placed
  <2> QED
    BY <2>1, <2>2, <2>3
<1> HIDE DEF plans
<1>4. Answered(s) \in KernelState /\ Answered(s).plans = plans
  BY <1>1, <1>2, <1>3, ZenonT(60) DEF Typed, KernelState
<1> QED
  BY <1>3, <1>4 DEF Typed

LEMMA FlushedTyped ==
  ASSUME Typed(k), k.writes # <<>>, NEW late \in BOOLEAN
  PROVE Typed(Flushed(late))
<1> DEFINE kept == {p \in Waiting : Withheld(k, p) \/ late}
           sent == Waiting \ kept
           acked == [k EXCEPT !.acked = TRUE]
           s == Answered(acked)
           plans == [p \in PlanIds |->
                       CASE p \in sent -> [s.plans[p] EXCEPT !.phase = "expose"]
                         [] p \in kept -> [s.plans[p] EXCEPT !.phase = "include"]
                         [] OTHER -> s.plans[p]]
           slot == IF sent # {} THEN CHOOSE p \in sent : TRUE
                   ELSE IF kept # {} THEN Free ELSE s.slot
           dispatched == [s EXCEPT !.plans = plans, !.slot = slot]
           marked == MarkPending(dispatched, kept, "withheld")
           back == HandBackPending(marked, kept)
<1>1. Flushed(late) = FailPlans(back, kept)
  BY ValueIsItself DEF Flushed, FlushedBut, Keep, Dispatching
<1>2. Typed(acked) /\ acked.writes # <<>> /\ acked.plans = k.plans
  <2>1. acked \in KernelState /\ acked.plans = k.plans /\ acked.writes = k.writes
    BY DEF Typed, KernelState
  <2> QED
    BY <2>1, SamePlansTyped
<1>3. kept \in SUBSET PlanIds /\ sent \in SUBSET PlanIds
      /\ \A p \in sent : k.plans[p].phase = "commit"
  BY DEF Waiting, InPhase, Executing
<1> HIDE DEF kept, sent
<1>4. Typed(s)
  BY <1>2, AnsweredTyped
<1>5. \A p \in PlanIds : s.plans[p].phase = k.plans[p].phase
  <2> SUFFICES ASSUME NEW p \in PlanIds PROVE s.plans[p].phase = k.plans[p].phase
    OBVIOUS
  <2>1. k.plans[p] \in Plan /\ acked \in KernelState
    BY <1>2 DEF Typed, KernelState
  <2>2. s.plans[p] = IF k.plans[p].flush > 0
                     THEN [k.plans[p] EXCEPT !.flush = k.plans[p].flush - 1] ELSE k.plans[p]
    BY <1>2, <2>1 DEF Answered, KernelState
  <2> HIDE DEF s
  <2> QED
    BY <2>1, <2>2 DEF Plan
<1> HIDE DEF s, acked
<1>6. plans \in [PlanIds -> Plan] /\ \A p \in PlanIds : Placed(p, plans[p])
  <2> SUFFICES ASSUME NEW p \in PlanIds PROVE plans[p] \in Plan /\ Placed(p, plans[p])
    BY Zenon
  <2>1. s.plans[p] \in Plan /\ Placed(p, s.plans[p])
    BY <1>4 DEF Typed, KernelState
  <2>2. ASSUME NEW ph \in Phases
        PROVE LET new == [s.plans[p] EXCEPT !.phase = ph]
              IN new \in Plan /\ new.phase = ph /\ new.cursor = s.plans[p].cursor
                 /\ new.nonce = s.plans[p].nonce
    BY <2>1 DEF Plan
  <2>3. Placed(p, [s.plans[p] EXCEPT !.phase = "include"])
    BY <2>2 DEF Placed, Phases, Working, Numbered
  <2>4. ASSUME p \in sent PROVE Placed(p, [s.plans[p] EXCEPT !.phase = "expose"])
    <3>1. s.plans[p].phase = "commit"
      BY <1>3, <1>5, <2>4
    <3> QED
      BY <2>1, <2>2, <3>1 DEF Placed, Phases, Working, Numbered
  <2>5. [s.plans[p] EXCEPT !.phase = "expose"] \in Plan
        /\ [s.plans[p] EXCEPT !.phase = "include"] \in Plan
    BY <2>2 DEF Phases
  <2> QED
    BY <2>1, <2>3, <2>4, <2>5
<1>7. slot \in PlanIds \cup {Free, Committing}
  BY <1>3, <1>4 DEF Typed, KernelState
<1> HIDE DEF plans, slot
<1>8. Typed(dispatched)
  <2>1. dispatched \in KernelState /\ dispatched.plans = plans
    BY <1>4, <1>6, <1>7 DEF Typed, KernelState
  <2> QED
    BY <1>6, <2>1 DEF Typed
<1> HIDE DEF dispatched
<1>9. Typed(marked)
  BY <1>8, MarkPendingTyped DEF SendStatus
<1> HIDE DEF marked
<1>10. Typed(back)
  BY <1>9, HandBackPendingTyped
<1> QED
  BY <1>1, <1>3, <1>10, FailPlansTyped

LEMMA FlushFailedTyped ==
  ASSUME Typed(k), k.writes # <<>>
  PROVE Typed(FlushFailed)
<1> DEFINE unacked == [k EXCEPT !.acked = FALSE]
           s == Answered(unacked)
           plans == [p \in PlanIds |->
                       IF p \in Waiting THEN [s.plans[p] EXCEPT !.phase = "include"]
                       ELSE s.plans[p]]
           moved == [s EXCEPT !.plans = plans]
           marked == MarkPending(moved, Waiting, "rejected")
           failed == FailPlans(marked, {p \in Waiting : ~HasPending(p)})
           freed == [failed EXCEPT !.slot = Free]
<1>1. FlushFailed = IF freed.lifecycle = "recovering" THEN Stop(freed, "unsafe")
                    ELSE EnterRecovering(freed)
  <2>1. Value(s) = s
    BY ValueIsItself
  <2>2. FailedToFlush(s) = failed
    BY DEF FailedToFlush, ToInclude
  <2>3. FlushFailed = StoppedOrRecovering([FailedToFlush(Value(s)) EXCEPT !.slot = Free])
    BY DEF FlushFailed
  <2>4. FlushFailed = StoppedOrRecovering(freed)
    BY <2>1, <2>2, <2>3
  <2> QED
    BY <2>4 DEF StoppedOrRecovering
<1>2. Typed(unacked) /\ unacked.writes # <<>>
  <2>1. unacked \in KernelState /\ unacked.plans = k.plans /\ unacked.writes = k.writes
    BY DEF Typed, KernelState
  <2> QED
    BY <2>1, SamePlansTyped
<1> HIDE DEF unacked
<1>3. Typed(s)
  BY <1>2, AnsweredTyped
<1> HIDE DEF s
<1>4. plans \in [PlanIds -> Plan] /\ \A p \in PlanIds : Placed(p, plans[p])
  <2> SUFFICES ASSUME NEW p \in PlanIds PROVE plans[p] \in Plan /\ Placed(p, plans[p])
    BY Zenon
  <2>1. s.plans[p] \in Plan /\ Placed(p, s.plans[p])
    BY <1>3 DEF Typed, KernelState
  <2> DEFINE new == [s.plans[p] EXCEPT !.phase = "include"]
  <2>2. new \in Plan /\ new.phase = "include"
    BY <2>1 DEF Plan, Phases
  <2>3. Placed(p, new)
    BY <2>2 DEF Placed, Working, Numbered
  <2> QED
    BY <2>1, <2>2, <2>3
<1> HIDE DEF plans
<1>5. Typed(moved)
  <2>1. moved \in KernelState /\ moved.plans = plans
    BY <1>3, <1>4 DEF Typed, KernelState
  <2> QED
    BY <1>4, <2>1 DEF Typed
<1> HIDE DEF moved
<1>6. Typed(marked)
  BY <1>5, MarkPendingTyped DEF SendStatus
<1> HIDE DEF marked
<1>7. {p \in Waiting : ~HasPending(p)} \in SUBSET PlanIds
  BY DEF Waiting, InPhase, Executing
<1>8. Typed(failed)
  BY <1>6, <1>7, FailPlansTyped
<1> HIDE DEF failed
<1>9. Typed(freed)
  BY <1>8, SlotTyped
<1> HIDE DEF freed
<1> QED
  BY <1>1, <1>9, StopTyped, EnterRecoveringTyped

LEMMA TakenTyped ==
  ASSUME k \in KernelState, NEW p \in PlanIds
  PROVE Taken(p) \in PlanIds \cup {Free, Committing}
BY DEF Taken, KernelState

LEMMA SentTyped ==
  ASSUME Typed(k), NEW p \in PlanIds, NEW sent \in SendStatus
  PROVE Typed(Sent(p, sent))
<1> DEFINE n == k.plans[p].nonce
           c == k.plans[p].pending
           open == [k EXCEPT !.slot = Taken(p)]
           s == [k EXCEPT !.slot = Taken(p), !.plans[p].phase = "include"]
           t == SetSent(s, n, c, sent)
           since == IF sent = "unknown" /\ t.nonces[n].unknownSince = Undefined
                    THEN k.head ELSE t.nonces[n].unknownSince
           r == [t.nonces[n] EXCEPT !.unknownSince = since]
           nonces == [t.nonces EXCEPT ![n] = r]
<1>1. Typed(open)
  BY TakenTyped, SlotTyped DEF Typed
<1>2. open.plans = k.plans /\ open.nonces = k.nonces
  BY DEF Typed, KernelState
<1>3. s = [open EXCEPT !.plans[p].phase = "include"]
  BY <1>2
<1>4. Sent(p, sent) =
        IF ~HasPending(p) \/ k.nonces[n].candidates[c].sent # "unsent" THEN s
        ELSE [t EXCEPT !.nonces[n].unknownSince =
                IF sent = "unknown" /\ @ = Undefined THEN k.head ELSE @]
  BY DEF Sent
<1> HIDE DEF s
<1> HIDE DEF open
<1>5. Typed(s)
  BY <1>1, <1>3, PhaseTyped DEF Phases, Working
<1>6. s.nonces = k.nonces
  BY <1>1, <1>2, <1>3 DEF Typed, KernelState
<1>7. CASE ~HasPending(p) \/ k.nonces[n].candidates[c].sent # "unsent"
  BY <1>5, <1>4, <1>7
<1>8. CASE ~(~HasPending(p) \/ k.nonces[n].candidates[c].sent # "unsent")
  <2>1. n \in Nonces /\ c \in DOMAIN s.nonces[n].candidates
    BY <1>6, <1>8 DEF HasPending
  <2>2. Typed(t)
    BY <1>5, <2>1, SetSentTyped
  <2>3. Sent(p, sent) = [t EXCEPT !.nonces[n].unknownSince =
                           IF sent = "unknown" /\ @ = Undefined THEN k.head ELSE @]
    BY <1>4, <1>8
  <2> HIDE DEF t
  <2>4. Sent(p, sent) = [t EXCEPT !.nonces = nonces]
    BY <2>2, <2>3 DEF Typed, KernelState
  <2>5. t.nonces[n] \in NonceRecord /\ t.nonces \in [Nonces -> NonceRecord]
    BY <2>1, <2>2 DEF Typed, KernelState
  <2>6. since \in Int
    BY <2>5, SMTT(30) DEF Typed, KernelState, NonceRecord
  <2> HIDE DEF since
  <2>7. r \in NonceRecord
    BY <2>5, <2>6 DEF NonceRecord
  <2> HIDE DEF r
  <2>8. nonces \in [Nonces -> NonceRecord]
    BY <2>1, <2>5, <2>7
  <2> HIDE DEF nonces
  <2> QED
    BY <2>2, <2>4, <2>8, NoncesTyped
<1> QED
  BY <1>7, <1>8

LEMMA ForkedEntryTyped ==
  ASSUME NEW e \in Entry, NEW fork \in Nat
  PROVE ForkedEntry(e, fork) \in Entry
<1> DEFINE d == IF e.observed > fork THEN [e EXCEPT !.observed = 0, !.neutralized = FALSE] ELSE e
           state == IF d.state = "live" THEN "exposed" ELSE d.state
           prior == IF e.state = "revoking" THEN "exposed" ELSE d.prior
<1>1. d \in Entry
  BY DEF Entry
<1>2. ForkedEntry(e, fork) = IF e.liveAt <= fork THEN d
                             ELSE [d EXCEPT !.state = state, !.prior = prior, !.liveAt = 0]
  BY DEF ForkedEntry
<1> HIDE DEF d
<1>3. state \in EntryStates /\ prior \in OpenEntry
  BY <1>1 DEF Entry, EntryStates, OpenEntry
<1>4. ASSUME NEW x \in EntryStates, NEW y \in OpenEntry
      PROVE [d EXCEPT !.state = x, !.prior = y, !.liveAt = 0] \in Entry
  BY <1>1 DEF Entry
<1> HIDE DEF state, prior
<1> QED
  BY <1>1, <1>2, <1>3, <1>4

LEMMA RolledBackTyped ==
  ASSUME Typed(k), NEW fork \in Nat
  PROVE Typed(RolledBack(fork))
<1> DEFINE s == IF fork < k.finalized THEN EnterRecovering(k) ELSE k
           plans == [p \in PlanIds |->
                       IF s.plans[p].sim > fork THEN [s.plans[p] EXCEPT !.sim = Orphaned]
                       ELSE s.plans[p]]
           nonces == [n \in Nonces |->
                        IF s.nonces[n].resolution.block > fork
                        THEN [s.nonces[n] EXCEPT !.resolution = Unresolved] ELSE s.nonces[n]]
           entries == [o \in Offers |-> ForkedEntry(s.entries[o], fork)]
<1>1. RolledBack(fork) = [s EXCEPT !.plans = plans, !.nonces = nonces, !.entries = entries]
  <2>1. Value(s) = s
    BY ValueIsItself
  <2>2. Forked(s, fork) = [s EXCEPT !.plans = plans, !.nonces = nonces, !.entries = entries]
    BY DEF Forked
  <2>3. RolledBack(fork) = Forked(Value(s), fork)
    BY DEF RolledBack
  <2> QED
    BY <2>1, <2>2, <2>3
<1>2. Typed(s)
  BY EnterRecoveringTyped
<1> HIDE DEF s
<1>3. plans \in [PlanIds -> Plan] /\ \A p \in PlanIds : Placed(p, plans[p])
  <2> SUFFICES ASSUME NEW p \in PlanIds PROVE plans[p] \in Plan /\ Placed(p, plans[p])
    BY Zenon
  <2> DEFINE new == [s.plans[p] EXCEPT !.sim = Orphaned]
  <2>1. s.plans[p] \in Plan /\ Placed(p, s.plans[p])
    BY <1>2 DEF Typed, KernelState
  <2>2. new \in Plan /\ new.phase = s.plans[p].phase /\ new.cursor = s.plans[p].cursor
        /\ new.nonce = s.plans[p].nonce
    BY <2>1 DEF Plan, Orphaned
  <2>3. Placed(p, new)
    <3> HIDE DEF new
    <3> QED
      BY <2>1, <2>2 DEF Placed
  <2> QED
    BY <2>1, <2>2, <2>3
<1>4. nonces \in [Nonces -> NonceRecord]
  <2> SUFFICES ASSUME NEW n \in Nonces PROVE nonces[n] \in NonceRecord
    BY Zenon
  <2>1. s.nonces[n] \in NonceRecord
    BY <1>2 DEF Typed, KernelState
  <2>2. [s.nonces[n] EXCEPT !.resolution = Unresolved] \in NonceRecord
    BY <2>1 DEF NonceRecord, Unresolved, Resolution, Outcomes
  <2> QED
    BY <2>1, <2>2
<1>5. entries \in [Offers -> Entry]
  BY <1>2, ForkedEntryTyped DEF Typed, KernelState
<1> HIDE DEF plans, nonces, entries
<1>6. RolledBack(fork) \in KernelState /\ RolledBack(fork).plans = plans
  BY <1>1, <1>2, <1>3, <1>4, <1>5, ZenonT(60) DEF Typed, KernelState
<1> QED
  BY <1>3, <1>6 DEF Typed

-----------------------------------------------------------------------------
(* Every action keeps the invariant.                                       *)

\* an event that touches nothing but the kernel
LEMMA HandledTyped ==
  ASSUME IInv, NEW s, Typed(s), Handle(s), faults' \in Nat
  PROVE IInv'
<1>1. Typed(k)'
  BY ReduceTyped DEF Handle
<1>2. k' \in KernelState
  BY <1>1 DEF Typed
<1> QED
  BY <1>1, <1>2 DEF IInv, TypeOK, Handle

LEMMA FaultsTyped ==
  ASSUME IInv, NoFault \/ \E kind : Fault(kind)
  PROVE faults' \in Nat
BY DEF IInv, TypeOK, NoFault, Fault

LEMMA StartTyped == ASSUME IInv, Start PROVE IInv'
<1>1. PICK W \in SUBSET {o \in Offers : disk.entries[o].state \in Held} :
        /\ IF W = {} THEN NoFault ELSE Fault("policy")
        /\ LET s == Loaded(disk, W) IN Handle([s EXCEPT !.lastDurable = ToDurable(s)])
  BY DEF Start
<1> DEFINE s == Loaded(disk, W)
<1>2. Typed(s)
  BY LoadedTyped DEF IInv, TypeOK
<1>3. Handle([s EXCEPT !.lastDurable = ToDurable(s)])
  BY <1>1
<1> HIDE DEF s
<1>4. faults' \in Nat
  BY <1>1, FaultsTyped
<1> QED
  BY <1>2, <1>3, <1>4, RestartedTyped, HandledTyped

LEMMA SubmitTyped == ASSUME IInv, NEW i \in Intents, Submit(i) PROVE IInv'
<1> DEFINE p == StepPlan(i)
           entries == [o \in Offers |->
             IF o \in Creates(p) THEN [NoEntry EXCEPT !.state = "intended", !.owner = p]
             ELSE k.entries[o]]
           plan == [NoPlan EXCEPT !.status = "executing"]
           s == [k EXCEPT !.entries = entries]
<1>1. Handle(AddPlan(s, p, plan)) /\ NoFault
  BY DEF Submit
<1>2. p \in PlanIds
  BY DEF StepPlan, PlanIds
<1>3. entries \in [Offers -> Entry]
  <2> HIDE DEF p
  <2>1. [NoEntry EXCEPT !.state = "intended", !.owner = p] \in Entry
    BY <1>2, NoEntryTyped DEF Entry, EntryStates
  <2> QED
    BY <2>1 DEF IInv, Typed, KernelState
<1>4. plan \in Plan /\ plan.phase = "ready"
  BY NoPlanTyped DEF Plan, NoPlan
<1>5. Placed(p, plan)
  BY <1>4 DEF Placed, Working, Numbered
<1> HIDE DEF p, entries, plan
<1>6. Typed(s)
  BY <1>3, EntriesTyped DEF IInv
<1> HIDE DEF s
<1>7. Typed(AddPlan(s, p, plan))
  BY <1>2, <1>4, <1>5, <1>6, AddPlanTyped
<1> QED
  BY <1>1, <1>7, FaultsTyped, HandledTyped

LEMMA AdvanceStageTyped == ASSUME IInv, NEW i \in Intents, AdvanceStage(i) PROVE IInv'
<1> DEFINE p == StepPlan(i)
           next == [k EXCEPT !.plans[p].stage = k.plans[p].cursor, !.plans[p].phase = "ready",
                             !.plans[p].doubt = "none"]
           q == [k.plans[p] EXCEPT !.stage = k.plans[p].cursor, !.phase = "ready",
                                   !.doubt = "none"]
<1>1. Handle(Advance(next, {p})) /\ NoFault
  BY DEF AdvanceStage
<1>2. p \in PlanIds
  BY DEF StepPlan, PlanIds
<1> HIDE DEF p
<1>3. k.plans[p] \in Plan
  BY <1>2 DEF IInv, Typed, KernelState
<1>4. q \in Plan /\ q.phase = "ready"
  BY <1>3 DEF Plan, Phases
<1>5. Placed(p, q)
  BY <1>4 DEF Placed, Working, Numbered
<1>6. next = [k EXCEPT !.plans[p] = q]
  BY <1>2 DEF IInv, Typed, KernelState
<1> HIDE DEF q, next
<1>7. Typed(next) /\ {p} \in SUBSET PlanIds
  BY <1>2, <1>4, <1>5, <1>6, WithPlanTyped DEF IInv
<1> QED
  BY <1>1, <1>7, AdvanceTyped, FaultsTyped, HandledTyped

LEMMA ClockTyped == ASSUME IInv, Clock PROVE IInv'
<1>1. ASSUME Overdue PROVE IInv'
  <2> DEFINE s == [k EXCEPT !.overdue = TRUE]
  <2>1. s \in KernelState /\ s.plans = k.plans
    BY DEF IInv, Typed, KernelState
  <2>2. Typed(s)
    BY <2>1, SamePlansTyped DEF IInv
  <2> QED
    BY <1>1, <2>2, FaultsTyped, HandledTyped DEF Overdue
<1>2. ASSUME NEW i \in Intents, Observed(i) PROVE IInv'
  <2>1. StepPlan(i) \in PlanIds
    BY DEF StepPlan, PlanIds
  <2>2. \A d \in {"none", "lapsed", "facts"} : Typed([k EXCEPT !.plans[StepPlan(i)].doubt = d])
    BY <2>1, DoubtTyped DEF IInv
  <2>3. PICK d \in {"none", "facts"} : Handle([k EXCEPT !.plans[StepPlan(i)].doubt = d])
    <3> DEFINE d == IF k.plans[StepPlan(i)].doubt = "none" THEN "facts" ELSE "none"
    <3>1. Handle([k EXCEPT !.plans[StepPlan(i)].doubt = d])
      BY <1>2, <2>1 DEF Observed, IInv, Typed, KernelState
    <3> QED
      BY <3>1
  <2>4. faults' \in Nat
    BY <1>2, FaultsTyped DEF Observed
  <2>5. Typed([k EXCEPT !.plans[StepPlan(i)].doubt = d])
    BY <2>2
  <2> QED
    BY <2>3, <2>4, <2>5, HandledTyped
<1>3. ASSUME NEW i \in Intents, Lapse(i) PROVE IInv'
  <2> DEFINE p == StepPlan(i)
             late == [k EXCEPT !.plans[p].doubt = "lapsed"]
  <2>1. Fault("lapse")
        /\ Handle(IF k.plans[p].phase \in PreCommit THEN FailPlans(late, {p}) ELSE late)
    BY <1>3 DEF Lapse
  <2>2. p \in PlanIds
    BY DEF StepPlan, PlanIds
  <2> HIDE DEF p
  <2>3. Typed(late) /\ {p} \in SUBSET PlanIds
    BY <2>2, DoubtTyped DEF IInv
  <2> HIDE DEF late
  <2> QED
    BY <2>1, <2>3, FailPlansTyped, FaultsTyped, HandledTyped
<1>4. ASSUME NEW o \in Offers, GoStale(o) \/ Affirm(o) PROVE IInv'
  <2>1. ASSUME NEW b \in BOOLEAN PROVE Typed([k EXCEPT !.entries[o].stale = b])
    <3> DEFINE e == [k.entries[o] EXCEPT !.stale = b]
               entries == [k.entries EXCEPT ![o] = e]
    <3>1. k.entries \in [Offers -> Entry] /\ k.entries[o] \in Entry
      BY DEF IInv, Typed, KernelState
    <3>2. e \in Entry
      BY <3>1 DEF Entry
    <3>3. [k EXCEPT !.entries[o].stale = b] = [k EXCEPT !.entries = entries]
      BY DEF IInv, Typed, KernelState
    <3> HIDE DEF e
    <3>4. entries \in [Offers -> Entry]
      BY <3>1, <3>2
    <3> HIDE DEF entries
    <3> QED
      BY <3>3, <3>4, EntriesTyped DEF IInv
  <2>2. CASE GoStale(o)
    BY <2>1, <2>2, FaultsTyped, HandledTyped DEF GoStale
  <2>3. CASE Affirm(o)
    BY <2>1, <2>3, FaultsTyped, HandledTyped DEF Affirm
  <2> QED
    BY <1>4, <2>2, <2>3
<1> QED
  BY <1>1, <1>2, <1>3, <1>4 DEF Clock

LEMMA StopOrHaltTyped == ASSUME IInv, StopOrHalt PROVE IInv'
BY EnterRecoveringTyped, FaultsTyped, HandledTyped DEF StopOrHalt, IInv

LEMMA FlushesTyped == ASSUME IInv, FlushAnswered \/ FlushRejected PROVE IInv'
<1>1. k.writes # <<>>
  BY DEF FlushAnswered, FlushRejected
<1>2. k' \in {Reduce(Flushed(FALSE)), Reduce(Flushed(TRUE)), Reduce(FlushFailed)}
  BY DEF FlushAnswered, FlushRejected
<1>3. Typed(Reduce(Flushed(FALSE))) /\ Typed(Reduce(Flushed(TRUE)))
      /\ Typed(Reduce(FlushFailed))
  BY <1>1, FlushedTyped, FlushFailedTyped, ReduceTyped DEF IInv
<1>4. Typed(k)' /\ k' \in KernelState
  BY <1>2, <1>3 DEF Typed
<1>5. Head(k.writes) \in Ledger
  BY <1>1, HeadTailProperties DEF IInv, Typed, KernelState
<1>6. disk' \in Ledger
  BY <1>5 DEF FlushAnswered, FlushRejected, IInv, TypeOK
<1>7. UNCHANGED <<net, released, chain>>
  BY DEF FlushAnswered, FlushRejected
<1>8. NoFault \/ \E kind : Fault(kind)
  BY DEF FlushAnswered, FlushRejected
<1>9. faults' \in Nat
  BY <1>8, FaultsTyped
<1> QED
  BY <1>4, <1>6, <1>7, <1>9 DEF IInv, TypeOK

LEMMA SimulatedTyped == ASSUME IInv, NEW p \in PlanIds, Simulated(p) PROVE IInv'
<1>1. p \in PlanIds /\ {p} \in SUBSET PlanIds /\ k.plans[p].phase = "simulate"
  BY DEF Simulated, InPhase, Executing
<1>2. CASE Fault("simulate") /\ Handle(FailPlans(k, {p}))
  BY <1>1, <1>2, FailPlansTyped, FaultsTyped, HandledTyped DEF IInv
<1>3. CASE NoFault /\ Handle([k EXCEPT !.plans[p].sim = k.head, !.plans[p].phase = "await-slot"])
  <2> DEFINE q == [k.plans[p] EXCEPT !.sim = k.head, !.phase = "await-slot"]
             s == [k EXCEPT !.plans[p] = q]
  <2>1. k.plans[p] \in Plan /\ Placed(p, k.plans[p]) /\ k.head \in Nat
    BY DEF IInv, Typed, KernelState
  <2>2. q \in Plan /\ q.phase = "await-slot" /\ q.cursor = k.plans[p].cursor
    <3>1. ASSUME NEW h \in Int
          PROVE LET new == [k.plans[p] EXCEPT !.sim = h, !.phase = "await-slot"]
                IN new \in Plan /\ new.phase = "await-slot" /\ new.cursor = k.plans[p].cursor
      BY <2>1 DEF Plan, Phases
    <3>2. k.head \in Int
      BY <2>1
    <3> QED
      BY <3>1, <3>2
  <2>3. Placed(p, q)
    <3> HIDE DEF q
    <3> QED
      BY <1>1, <2>1, <2>2 DEF Placed, Working, Numbered
  <2>4. [k EXCEPT !.plans[p].sim = k.head, !.plans[p].phase = "await-slot"] = s
    BY DEF IInv, Typed, KernelState
  <2> HIDE DEF q
  <2>5. Typed(s)
    BY <2>2, <2>3, WithPlanTyped DEF IInv
  <2> HIDE DEF s
  <2> QED
    BY <1>3, <2>4, <2>5, FaultsTyped, HandledTyped
<1> QED
  BY <1>2, <1>3 DEF Simulated

LEMMA SignaturesTyped ==
  ASSUME IInv, NEW p \in PlanIds, Signed(p) \/ SignFailed(p) PROVE IInv'
<1>1. k.plans[p].phase = "sign" /\ {p} \in SUBSET PlanIds /\ Typed(k)
  BY DEF Signed, SignFailed, InPhase, Executing, IInv
<1>2. CASE Signed(p)
  <2>1. Typed(SignedTyped(p)) /\ Typed(SignedTx(p))
    BY <1>1, SignedTypedTyped, SignedTxTyped
  <2> QED
    BY <1>2, <2>1, FaultsTyped, HandledTyped DEF Signed
<1>3. CASE SignFailed(p)
  <2>1. Typed([k EXCEPT !.slot = Taken(p)])
    BY <1>1, TakenTyped, SlotTyped DEF Typed
  <2>2. Typed(FailPlans([k EXCEPT !.slot = Taken(p)], {p}))
    BY <1>1, <2>1, FailPlansTyped
  <2> QED
    BY <1>3, <2>2, FaultsTyped, HandledTyped DEF SignFailed
<1> QED
  BY <1>2, <1>3

LEMMA HandoffTyped == ASSUME IInv, NEW p \in PlanIds, Handoff(p) PROVE IInv'
<1>1. k.plans[p] \in Plan /\ Placed(p, k.plans[p]) /\ k.plans[p].phase = "expose"
  BY DEF IInv, Typed, KernelState, Handoff, Exposing, InPhase, Executing
<1>2. k.plans[p].cursor \in DOMAIN StepsOf(p)
  BY <1>1 DEF Placed, Working
<1>3. Step(k, p).exposes \in SUBSET Offers
  BY <1>2, StepTyped DEF StepSpec
<1>4. ASSUME Step(k, p).kind = "tx" PROVE TxOf(p) \in Tx
  <2>1. k.plans[p].nonce \in Nonces
    BY <1>1, <1>4 DEF Placed, Numbered, Step
  <2> QED
    BY <1>1, <2>1 DEF TxOf, Tx, Plan
<1>5. net' \subseteq Tx /\ released' \subseteq Offers
  BY <1>3, <1>4 DEF Handoff, IInv, TypeOK
<1>6. UNCHANGED <<k, disk, chain>> /\ faults' \in Nat
  BY FaultsTyped DEF Handoff
<1>7. k' = k /\ disk' = disk /\ chain' = chain
  BY <1>6
<1>8. Typed(k)'
  BY <1>7 DEF IInv
<1> QED
  BY <1>5, <1>6, <1>7, <1>8 DEF IInv, TypeOK

LEMMA BroadcastedTyped == ASSUME IInv, NEW p \in PlanIds, Broadcasted(p) PROVE IInv'
<1>1. \A sent \in SendStatus : Typed(Reduce(Sent(p, sent)))
  BY SentTyped, ReduceTyped DEF IInv
<1>2. \E sent \in {"accepted", "unknown", "rejected"} : k' = Reduce(Sent(p, sent))
  BY DEF Broadcasted
<1>3. Typed(k)' /\ k' \in KernelState
  BY <1>1, <1>2 DEF SendStatus, Typed
<1>4. net' \subseteq Tx
  BY DEF Broadcasted, IInv, TypeOK
<1>5. disk' = disk /\ released' = released /\ chain' = chain
  BY DEF Broadcasted
<1>6. NoFault \/ \E kind : Fault(kind)
  BY DEF Broadcasted
<1>7. faults' \in Nat
  BY <1>6, FaultsTyped
<1> QED
  BY <1>3, <1>4, <1>5, <1>7 DEF IInv, TypeOK

LEMMA WithheldAtHandoffTyped ==
  ASSUME IInv, NEW p \in PlanIds, WithheldAtHandoff(p) PROVE IInv'
<1>1. Typed(Sent(p, "withheld"))
  BY SentTyped DEF IInv, SendStatus
<1>2. Typed(HandBackPending(Sent(p, "withheld"), {p})) /\ {p} \in SUBSET PlanIds
  BY <1>1, HandBackPendingTyped
<1>3. Typed(FailPlans(HandBackPending(Sent(p, "withheld"), {p}), {p}))
  BY <1>2, FailPlansTyped
<1> QED
  BY <1>3, FaultsTyped, HandledTyped DEF WithheldAtHandoff

LEMMA ReleasedTyped == ASSUME IInv, NEW p \in PlanIds, Released(p) PROVE IInv'
<1> DEFINE after == IF k.plans[p].lastInclusion > k.head THEN k.plans[p].lastInclusion
                    ELSE k.head + 1
           q == [k.plans[p] EXCEPT !.lastInclusion = after, !.phase = "ready",
                                   !.cursor = k.plans[p].cursor + 1]
           open == [k EXCEPT !.slot = Taken(p)]
           s == [k EXCEPT !.slot = Taken(p), !.plans[p] = q]
<1>1. Handle(Advance(s, {p})) /\ NoFault
  BY DEF Released
<1>2. k.plans[p] \in Plan /\ k.head \in Nat
  BY DEF IInv, Typed, KernelState
<1>3. after \in Nat /\ k.plans[p].cursor + 1 \in Nat \ {0}
  BY <1>2 DEF Plan
<1>4. q \in Plan /\ q.phase = "ready"
  <2>1. ASSUME NEW a \in Nat, NEW c \in Nat \ {0}
        PROVE LET new == [k.plans[p] EXCEPT !.lastInclusion = a, !.phase = "ready",
                                            !.cursor = c]
              IN new \in Plan /\ new.phase = "ready"
    BY <1>2 DEF Plan, Phases
  <2> HIDE DEF after
  <2> QED
    BY <1>3, <2>1
<1>5. Placed(p, q)
  BY <1>4 DEF Placed, Working, Numbered
<1> HIDE DEF q
<1>6. Typed(open)
  BY TakenTyped, SlotTyped DEF IInv, Typed
<1>7. s = [open EXCEPT !.plans[p] = q]
  BY DEF IInv, Typed, KernelState
<1> HIDE DEF open, s
<1>8. Typed(s) /\ {p} \in SUBSET PlanIds
  BY <1>4, <1>5, <1>6, <1>7, WithPlanTyped
<1> QED
  BY <1>1, <1>8, AdvanceTyped, FaultsTyped, HandledTyped

LEMMA ResendsTyped ==
  ASSUME IInv, NEW t \in k.resends, HandoffAgain(t) \/ ResendAnswered(t) PROVE IInv'
<1>1. t \in Tx /\ k.resends \in SUBSET Tx
  BY DEF IInv, Typed, KernelState
<1>2. CASE HandoffAgain(t)
  <2>1. k' = k /\ disk' = disk /\ released' = released /\ chain' = chain
        /\ net' \subseteq Tx /\ faults' \in Nat
    BY <1>1, <1>2, FaultsTyped DEF HandoffAgain, IInv, TypeOK
  <2>2. Typed(k)'
    BY <2>1 DEF IInv
  <2> QED
    BY <2>1, <2>2 DEF IInv, TypeOK
<1>3. CASE ResendAnswered(t)
  <2> DEFINE s == [k EXCEPT !.resends = k.resends \ {t}]
  <2>1. s \in KernelState /\ s.plans = k.plans /\ s.nonces = k.nonces
    BY <1>1 DEF IInv, Typed, KernelState
  <2>2. Typed(s)
    BY <2>1, SamePlansTyped DEF IInv
  <2>3. \/ Handle(s)
        \/ /\ t.place \in DOMAIN k.nonces[t.nonce].candidates
           /\ Handle(SetSent(s, t.nonce, t.place, "accepted"))
    BY <1>3 DEF ResendAnswered
  <2> HIDE DEF s
  <2>4. CASE Handle(s)
    BY <1>3, <2>2, <2>4, FaultsTyped, HandledTyped DEF ResendAnswered
  <2>5. CASE /\ t.place \in DOMAIN k.nonces[t.nonce].candidates
             /\ Handle(SetSent(s, t.nonce, t.place, "accepted"))
    <3>1. t.nonce \in Nonces
      BY <1>1 DEF Tx
    <3>2. Typed(SetSent(s, t.nonce, t.place, "accepted"))
      BY <2>1, <2>2, <2>5, <3>1, SetSentTyped DEF SendStatus
    <3> QED
      BY <1>3, <2>5, <3>2, FaultsTyped, HandledTyped DEF ResendAnswered
  <2> QED
    BY <2>3, <2>4, <2>5
<1> QED
  BY <1>2, <1>3

LEMMA SeenTyped == ASSUME IInv, NEW t \in net, Seen(t) PROVE IInv'
<1>1. t.nonce \in Nonces /\ t.place \in DOMAIN k.nonces[t.nonce].candidates
  BY DEF IInv, TypeOK, Tx, Seen
<1>2. Typed(SetSent(k, t.nonce, t.place, "accepted"))
  BY <1>1, SetSentTyped DEF SendStatus, IInv
<1> QED
  BY <1>2, FaultsTyped, HandledTyped DEF Seen

LEMMA EffectsTyped == ASSUME IInv, Effects PROVE IInv'
BY FlushesTyped, SimulatedTyped, SignaturesTyped, HandoffTyped, BroadcastedTyped,
   WithheldAtHandoffTyped, ReleasedTyped, ResendsTyped, SeenTyped
   DEF Effects, InPhase, Executing

LEMMA BlocksTyped ==
  ASSUME net \subseteq Tx, NEW head \in Nat, NEW mined, NEW m \in Blocks(head, mined)
  PROVE m \in Mined
<1>1. PICK t \in {t \in net : t.nonce = Len(mined)}
                 \cup (IF Len(mined) \in Nonces THEN {Foreign} ELSE {}),
           o \in {"executed", "unconfirmed", "reverted"} :
        m = [block |-> head, tx |-> t, outcome |-> o]
  BY DEF Blocks
<1>2. t \in Tx \cup {Foreign}
  BY <1>1
<1> QED
  BY <1>1, <1>2 DEF Mined

\* the chain moves, and the kernel sees it or not
LEMMA ChainTyped ==
  ASSUME IInv, UNCHANGED <<disk, net, released>>, faults' \in Nat, Typed(k)',
         NEW head \in Nat, NEW mined \in Seq(Mined), chain' = [head |-> head, mined |-> mined]
  PROVE IInv'
<1>1. k' \in KernelState
  BY DEF Typed
<1>2. chain' \in [head : Nat, mined : Seq(Mined)]
  OBVIOUS
<1> QED
  BY <1>1, <1>2 DEF IInv, TypeOK

LEMMA NewBlockTyped == ASSUME IInv, NewBlock PROVE IInv'
<1> DEFINE height == chain.head + 1
<1>1. chain \in [head : Nat, mined : Seq(Mined)] /\ height \in Nat
  BY DEF IInv, TypeOK
<1>2. Typed(k)'
  <2>1. Typed(OnHead(k, height))
    BY <1>1, OnHeadTyped DEF IInv
  <2>2. Typed(Reduce(OnHead(k, height)))
    BY <2>1, ReduceTyped
  <2>3. k' \in {Reduce(OnHead(k, height)), k}
    BY DEF NewBlock
  <2> QED
    BY <2>2, <2>3 DEF IInv
<1>3. UNCHANGED <<disk, net, released>>
  BY DEF NewBlock
<1>4. CASE NoFault /\ chain' = [chain EXCEPT !.head = height]
  <2>1. chain' = [head |-> height, mined |-> chain.mined]
    BY <1>1, <1>4
  <2>2. faults' \in Nat
    BY <1>4, FaultsTyped
  <2> QED
    BY <1>1, <1>2, <1>3, <2>1, <2>2, ChainTyped
<1>5. ASSUME NEW m \in Blocks(height, chain.mined),
             IF Ordinary(m) THEN NoFault
             ELSE Fault(IF m.tx = Foreign THEN "foreign" ELSE "outcome"),
             chain' = [head |-> height, mined |-> Append(chain.mined, m)]
      PROVE IInv'
  <2>1. m \in Mined
    BY <1>1, <1>5, BlocksTyped DEF IInv, TypeOK
  <2>2. Append(chain.mined, m) \in Seq(Mined)
    BY <1>1, <2>1, AppendProperties
  <2>3. faults' \in Nat
    BY <1>5, FaultsTyped
  <2> HIDE DEF height
  <2> QED
    BY <1>1, <1>2, <1>3, <1>5, <2>2, <2>3, ChainTyped
<1> QED
  BY <1>4, <1>5 DEF NewBlock

LEMMA UpToTyped ==
  ASSUME NEW mined \in Seq(Mined), NEW fork
  PROVE UpTo(mined, fork) \in Seq(Mined)
<1>1. \A i \in 1 .. Len(mined) - 1 : mined[i] \in Mined
  BY ElementOfSeq, LenProperties
<1>2. SubSeq(mined, 1, Len(mined) - 1) \in Seq(Mined)
  BY <1>1, LenProperties, SubSeqProperties
<1> QED
  BY <1>2 DEF UpTo

LEMMA ReplaceTipTyped == ASSUME IInv, ReplaceTip PROVE IInv'
<1> DEFINE fork == chain.head - 1
<1>1. chain \in [head : Nat, mined : Seq(Mined)]
  BY DEF IInv, TypeOK
<1>2. fork \in Nat
  BY <1>1 DEF ReplaceTip
<1>3. Typed(k)'
  <2>1. Typed(Reduce(RolledBack(fork)))
    BY <1>2, RolledBackTyped, ReduceTyped DEF IInv
  <2>2. Typed(OnHead(Reduce(RolledBack(fork)), chain.head))
    BY <1>1, <2>1, OnHeadTyped
  <2>3. Typed(Reduce(OnHead(Reduce(RolledBack(fork)), chain.head)))
    BY <2>2, ReduceTyped
  <2>4. k' \in {Reduce(OnHead(Reduce(RolledBack(fork)), chain.head)), k}
    BY DEF ReplaceTip
  <2> QED
    BY <2>3, <2>4 DEF IInv
<1>4. chain' = [head |-> chain.head, mined |-> UpTo(chain.mined, fork)]
  BY <1>1 DEF ReplaceTip
<1>5. UNCHANGED <<disk, net, released>> /\ faults' \in Nat
  BY FaultsTyped DEF ReplaceTip
<1>6. UpTo(chain.mined, fork) \in Seq(Mined)
  BY <1>1, UpToTyped
<1> QED
  BY <1>1, <1>3, <1>4, <1>5, <1>6, ChainTyped

LEMMA StartHeadTyped == ASSUME IInv, StartHead PROVE IInv'
<1>1. Typed(OnHead(k, chain.head))
  BY OnHeadTyped DEF IInv, TypeOK
<1> QED
  BY <1>1, FaultsTyped, HandledTyped DEF StartHead

LEMMA ForeignRecordTyped ==
  ASSUME NEW head \in Nat PROVE ForeignRecord(head) \in NonceRecord
<1>1. ASSUME NEW since \in Int
      PROVE [NoRecord EXCEPT !.open = TRUE, !.foreign = TRUE,
                             !.lastActionHead = head, !.unknownSince = since] \in NonceRecord
  BY NoRecordTyped DEF NonceRecord
<1>2. head \in Int
  OBVIOUS
<1> QED
  BY <1>1, <1>2 DEF ForeignRecord

LEMMA PendingNonceTyped == PendingNonce \in Nat
<1> DEFINE S == {m \in Nonces : \A n \in 0 .. m : n < Len(chain.mined) \/ \E t \in net : t.nonce = n}
<1>1. IsFiniteSet(Nonces)
  BY BoundsAssumption, FS_Interval DEF Nonces
<1>2. IsFiniteSet(S)
  BY <1>1, FS_Subset
<1>3. PendingNonce = Cardinality(S)
  BY DEF PendingNonce
<1> HIDE DEF S
<1> QED
  BY <1>2, <1>3, FS_CardinalityType

LEMMA NonceReadTyped ==
  ASSUME Typed(k), NEW latest \in Nat, NEW pending \in Nat
  PROVE Typed(NonceRead(latest, pending))
<1> DEFINE through == IF pending > latest THEN pending ELSE latest
           s == [k EXCEPT !.chainNonce = latest,
                          !.nonceChecked = @ \/ k.lifecycle = "starting"]
           nonces == [n \in Nonces |->
                        IF n >= k.nextNonce /\ n < through THEN ForeignRecord(k.head)
                        ELSE s.nonces[n]]
           first == [s EXCEPT !.nextNonce = latest]
           found == [s EXCEPT !.nextNonce = through, !.nonces = nonces]
<1>1. NonceRead(latest, pending) \in
        {Stop(s, "refused"), first, EnterRecovering(found), s}
  BY DEF NonceRead
<1>2. through \in Int /\ latest \in Int
  OBVIOUS
<1>3. s \in KernelState /\ s.plans = k.plans
  BY DEF Typed, KernelState
<1>4. Typed(s)
  BY <1>3, SamePlansTyped
<1>5. nonces \in [Nonces -> NonceRecord]
  <2> HIDE DEF s
  <2>1. ForeignRecord(k.head) \in NonceRecord
    BY ForeignRecordTyped DEF Typed, KernelState
  <2>2. \A n \in Nonces : s.nonces[n] \in NonceRecord
    BY <1>3 DEF KernelState
  <2> QED
    BY <2>1, <2>2
<1> HIDE DEF s, through, nonces
<1>6. first \in KernelState /\ first.plans = s.plans
      /\ found \in KernelState /\ found.plans = s.plans
  BY <1>2, <1>3, <1>5, ZenonT(60) DEF KernelState
<1>7. Typed(first) /\ Typed(found)
  BY <1>4, <1>6, SamePlansTyped
<1> HIDE DEF first, found
<1> QED
  BY <1>1, <1>4, <1>7, StopTyped, EnterRecoveringTyped

LEMMA NonceAtTyped == ASSUME IInv, NonceAt PROVE IInv'
<1>1. Len(chain.mined) \in Nat
  BY LenProperties DEF IInv, TypeOK
<1>2. \A pending \in {Len(chain.mined), PendingNonce} :
        Typed(NonceRead(Len(chain.mined), pending))
  BY <1>1, PendingNonceTyped, NonceReadTyped DEF IInv
<1> QED
  BY <1>2, FaultsTyped, HandledTyped DEF NonceAt

LEMMA MinedTyped ==
  ASSUME TypeOK, NEW n \in Nonces, n < Len(chain.mined)
  PROVE chain.mined[n + 1] \in Mined
<1>1. chain.mined \in Seq(Mined) /\ n \in Nat
  BY BoundsAssumption DEF TypeOK, Nonces
<1>2. n + 1 \in 1 .. Len(chain.mined)
  BY <1>1, LenProperties
<1> QED
  BY <1>1, <1>2, ElementOfSeq

LEMMA ReceiptTyped == ASSUME IInv, NEW n \in Nonces, Receipt(n) PROVE IInv'
<1> DEFINE m == chain.mined[n + 1]
           c == k.nonces[n].candidates[Winner(n)]
           p == c.plan
           resolution == [block |-> m.block, winner |-> Winner(n), outcome |-> m.outcome]
           r == [k EXCEPT !.nonces[n].resolution = resolution]
           moved == ~Recovery(p) /\ k.plans[p].status # "none" /\ c.step < k.plans[p].cursor
                    /\ m.block > k.plans[p].lastInclusion
           record == [k.nonces[n] EXCEPT !.resolution = resolution]
           nonces == [k.nonces EXCEPT ![n] = record]
           q == [k.plans[p] EXCEPT !.lastInclusion = m.block]
<1>1. Handle(IF moved THEN [r EXCEPT !.plans[p].lastInclusion = m.block] ELSE r) /\ NoFault
  BY DEF Receipt
<1>2. m \in Mined
  BY MinedTyped DEF Receipt, Unanswered, IInv
<1>3. k.nonces \in [Nonces -> NonceRecord] /\ k.nonces[n] \in NonceRecord
      /\ k.nonces[n].candidates \in Seq(Candidate)
  BY DEF IInv, Typed, KernelState, NonceRecord
<1>4. Winner(n) \in DOMAIN k.nonces[n].candidates
  BY DEF Winner, Receipt
<1>5. Winner(n) \in Nat /\ c \in Candidate
  BY <1>3, <1>4, LenProperties, ElementOfSeq
<1>6. p \in PlanIds
  BY <1>5 DEF Candidate
<1>7. resolution \in Resolution
  BY <1>2, <1>5 DEF Resolution, Mined, Outcomes
<1> HIDE DEF resolution
<1>8. record \in NonceRecord
  BY <1>3, <1>7 DEF NonceRecord
<1>9. r = [k EXCEPT !.nonces = nonces]
  BY DEF IInv, Typed, KernelState
<1> HIDE DEF record
<1>10. nonces \in [Nonces -> NonceRecord]
  BY <1>3, <1>8
<1> HIDE DEF nonces
<1>11. Typed(r) /\ r.plans = k.plans
  BY <1>9, <1>10, NoncesTyped, ZenonT(60) DEF IInv, Typed, KernelState
<1> HIDE DEF r, moved
<1>12. Typed([r EXCEPT !.plans[p].lastInclusion = m.block])
  <2>1. k.plans[p] \in Plan /\ Placed(p, k.plans[p]) /\ m.block \in Nat
    BY <1>2, <1>6 DEF IInv, Typed, KernelState, Mined
  <2> HIDE DEF m, p
  <2>2. q \in Plan /\ q.phase = k.plans[p].phase /\ q.cursor = k.plans[p].cursor
        /\ q.nonce = k.plans[p].nonce
    BY <2>1 DEF Plan
  <2>3. [r EXCEPT !.plans[p].lastInclusion = m.block] = [r EXCEPT !.plans[p] = q]
    BY <1>11
  <2> HIDE DEF q
  <2>4. Placed(p, q)
    BY <2>1, <2>2 DEF Placed
  <2> QED
    BY <1>6, <1>11, <2>2, <2>3, <2>4, WithPlanTyped
<1> QED
  BY <1>1, <1>11, <1>12, FaultsTyped, HandledTyped

LEMMA NonceTxTyped == ASSUME IInv, NEW n \in Nonces, NonceTx(n) PROVE IInv'
<1> DEFINE resolution == [block |-> chain.mined[n + 1].block, winner |-> 0,
                          outcome |-> "foreign"]
           record == [k.nonces[n] EXCEPT !.resolution = resolution, !.foreign = TRUE]
           nonces == [k.nonces EXCEPT ![n] = record]
           r == [k EXCEPT !.nonces[n].resolution = resolution, !.nonces[n].foreign = TRUE]
<1>1. Handle(EnterRecovering(r)) /\ NoFault
  BY DEF NonceTx
<1>2. chain.mined[n + 1] \in Mined
  BY MinedTyped DEF NonceTx, Unanswered, IInv
<1>3. resolution \in Resolution
  BY <1>2 DEF Resolution, Mined, Outcomes
<1> HIDE DEF resolution
<1>4. k.nonces \in [Nonces -> NonceRecord] /\ k.nonces[n] \in NonceRecord
  BY DEF IInv, Typed, KernelState
<1>5. record \in NonceRecord
  BY <1>3, <1>4 DEF NonceRecord
<1>6. r = [k EXCEPT !.nonces = nonces]
  BY DEF IInv, Typed, KernelState
<1> HIDE DEF record
<1>7. nonces \in [Nonces -> NonceRecord]
  BY <1>4, <1>5
<1> HIDE DEF nonces
<1>8. Typed(r)
  BY <1>6, <1>7, NoncesTyped DEF IInv
<1> HIDE DEF r
<1> QED
  BY <1>1, <1>8, EnterRecoveringTyped, FaultsTyped, HandledTyped

LEMMA CommitmentObservedTyped ==
  ASSUME IInv, NEW o \in Offers, CommitmentObserved(o) PROVE IInv'
<1> DEFINE over == \E n \in DOMAIN chain.mined : NeutralizedBy(chain.mined[n], o)
           e == [k.entries[o] EXCEPT !.observed = k.head, !.neutralized = over]
           entries == [k.entries EXCEPT ![o] = e]
           s == [k EXCEPT !.entries[o].observed = k.head, !.entries[o].neutralized = over]
<1>1. Handle(s) /\ NoFault
  BY DEF CommitmentObserved
<1>2. over \in BOOLEAN
  OBVIOUS
<1> HIDE DEF over
<1>3. k.entries \in [Offers -> Entry] /\ k.entries[o] \in Entry /\ k.head \in Nat
  BY DEF IInv, Typed, KernelState
<1>4. e \in Entry
  BY <1>2, <1>3 DEF Entry
<1>5. s = [k EXCEPT !.entries = entries]
  BY DEF IInv, Typed, KernelState
<1> HIDE DEF e
<1>6. entries \in [Offers -> Entry]
  BY <1>3, <1>4
<1> HIDE DEF entries
<1>7. Typed(s)
  BY <1>5, <1>6, EntriesTyped DEF IInv
<1> HIDE DEF s
<1> QED
  BY <1>1, <1>7, FaultsTyped, HandledTyped

LEMMA BlockchainTyped == ASSUME IInv, Blockchain PROVE IInv'
BY NewBlockTyped, ReplaceTipTyped, StartHeadTyped, NonceAtTyped, ReceiptTyped, NonceTxTyped,
   CommitmentObservedTyped DEF Blockchain, Unanswered

LEMMA CrashTyped == ASSUME IInv, Crash PROVE IInv'
<1>1. Typed(initialState) /\ k' = initialState
  BY InitialStateTyped DEF Crash
<1>2. Typed(k)' /\ k' \in KernelState
  BY <1>1 DEF Typed
<1>3. k.writes \in Seq(Ledger)
  BY DEF IInv, Typed, KernelState
<1>4. disk' \in Ledger
  BY <1>3, LenProperties, ElementOfSeq DEF Crash, IInv, TypeOK
<1>5. UNCHANGED <<net, released, chain>> /\ faults' \in Nat
  BY FaultsTyped DEF Crash
<1> QED
  BY <1>2, <1>4, <1>5 DEF IInv, TypeOK

LEMMA InitTyped == ASSUME Init PROVE IInv
<1>1. <<>> \in Seq(Mined)
  BY EmptySeq
<1> QED
  BY <1>1, InitialStateTyped, EmptyLedgerTyped DEF Init, IInv, TypeOK, Typed

LEMMA NextTyped == ASSUME IInv, [Next]_vars PROVE IInv'
<1>1. CASE Start
  BY <1>1, StartTyped
<1>2. CASE Bot
  BY <1>2, SubmitTyped, AdvanceStageTyped DEF Bot
<1>3. CASE Clock
  BY <1>3, ClockTyped
<1>4. CASE StopOrHalt
  BY <1>4, StopOrHaltTyped
<1>5. CASE Effects
  BY <1>5, EffectsTyped
<1>6. CASE Blockchain
  BY <1>6, BlockchainTyped
<1>7. CASE Crash
  BY <1>7, CrashTyped
<1>8. CASE UNCHANGED vars
  BY <1>8 DEF vars, IInv, TypeOK, Typed
<1> QED
  BY <1>1, <1>2, <1>3, <1>4, <1>5, <1>6, <1>7, <1>8 DEF Next

-----------------------------------------------------------------------------
(* Whatever crashes, fails, is lost, reorged or resubmitted: each of these *)
(* leaves the kernel, the ledger file, the network and the chain of the    *)
(* types the model declares, and every working plan at one of its steps.   *)

\* Spec keeps the inductive invariant: every plan the reducer works on stands at one of its
\* steps, and one that signs, commits or exposes a transaction has a nonce.
THEOREM InductiveInvariant == Spec => []IInv
<1>1. Init => IInv
  BY InitTyped
<1>2. IInv /\ [Next]_vars => IInv'
  BY NextTyped
<1> QED
  BY <1>1, <1>2, PTL DEF Spec

\* The reducer's state, the ledger it writes and reads back, and everything it handed over are
\* of the declared types at every step, for any plans, offers, bounds and adversity.
THEOREM TypeCorrect == Spec => []TypeOK
<1>1. IInv => TypeOK
  BY DEF IInv
<1> QED
  BY <1>1, InductiveInvariant, PTL
=============================================================================
