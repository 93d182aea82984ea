--------------------------- MODULE KernelReducer ---------------------------
(***************************************************************************)
(* framework/kernel/src/kernel.ts: the data and the operators of the       *)
(* reducer that decides when a signed transaction or signature may leave   *)
(* the process, what is recorded before it does, and how everything that   *)
(* left is accounted for on chain.                                         *)
(*                                                                         *)
(* Each operator takes a state of the kernel, a record k, to the next one. *)
(* Reduce(k) is afterEvent: what every event ends with, applied to the     *)
(* state the event's handler computed.  TransactionKernel has the          *)
(* handlers and the environment.                                           *)
(*                                                                         *)
(* Abstractions.  A transaction's hash is its nonce and its place in the   *)
(* nonce record.  A plan's deadline and facts are one field, doubt.  Fees, *)
(* resources, caps, conflicts and supersession, and steps materialized     *)
(* late are left out.  Evidence above a fork is dropped by Reorg, so what  *)
(* is stored is canonical; only a simulation can outlive its block         *)
(* (sim = Orphaned).  A terminal plan is kept nowhere: no guard tells it   *)
(* from an absent one.                                                     *)
(***************************************************************************)
EXTENDS Integers, Sequences, FiniteSets

CONSTANTS
  Intents,              \* submission ids of the strategy's plans
  Offers,               \* commitment ids, numbered in the order they are recorded
  Steps,                \* Steps[i] is the sequence of steps of plan i
  Exposure,             \* Exposure[o]: "broadcast" or "inclusion"
  Expiry,               \* Expiry[o]: the last block at which o can be consumed
  MaxNonce,             \* bound: nonces are 0..MaxNonce-1
  MaxHead,              \* bound: the chain's last block
  Adversity,            \* the kinds of adverse events that can happen
  MaxFaults,            \* bound: adverse events in a behaviour
  FinalityLag,          \* a block is final this many blocks below the head
  MaxSimLagBlocks, StuckBlocks, LatchBoundBlocks, MaxRecoveryAttempts  \* KernelConfig

Nonces == 0 .. MaxNonce - 1
StepSpec == [kind : {"sign", "tx", "release"}, creates : SUBSET Offers,
             exposes : SUBSET Offers, retires : SUBSET Offers, consumes : BOOLEAN]

AdverseEvents == {"crash", "flush", "sign", "simulate", "late", "answer", "facts", "lapse",
                  "stale", "halt", "overdue", "outcome", "foreign", "reorg", "policy"}

ASSUME BoundsAssumption ==
  /\ Adversity \subseteq AdverseEvents
  /\ Offers \subseteq Nat
  /\ {MaxNonce, MaxHead, MaxFaults, FinalityLag} \subseteq Nat
  /\ {MaxSimLagBlocks, StuckBlocks, LatchBoundBlocks, MaxRecoveryAttempts} \subseteq Nat
ASSUME StepsAssumption ==
  /\ Steps \in [Intents -> Seq(StepSpec)]
  /\ Exposure \in [Offers -> {"broadcast", "inclusion"}]
  /\ Expiry \in [Offers -> Nat]

-----------------------------------------------------------------------------
(* Plans, nonce records and entries.                                       *)

StepPlan(i) == <<"step", i>>
Neutralizer(o) == <<"neutralizer", o>>
Fill(n) == <<"fill", n>>
PlanIds == ({"step"} \X Intents) \cup ({"neutralizer"} \X Offers) \cup ({"fill"} \X Nonces)
Recovery(p) == p[1] # "step"
Free == <<"free", 0>>             \* no plan; as the slot: undefined
Committing == <<"committing", 0>> \* the slot held for a release's commit (-1)

Undefined == -1
Orphaned == -1

\* fillPayload, and the stored neutralizer of an entry
RecoveryStep(p) == [kind |-> "tx", creates |-> {}, exposes |-> {}, consumes |-> FALSE,
                    retires |-> IF p[1] = "neutralizer" THEN {p[2]} ELSE {}]
StepsOf(p) == IF Recovery(p) THEN <<RecoveryStep(p)>> ELSE Steps[p[2]]

Phases == {"ready", "awaiting-advance", "simulate", "await-slot", "sign",
           "commit", "expose", "include"}
PreCommit == {"ready", "awaiting-advance", "simulate", "await-slot", "sign"}
Plan == [status : {"none", "executing", "compensating"}, phase : Phases,
         cursor : Nat \ {0}, stage : Nat \ {0}, exposed : BOOLEAN,
         doubt : {"none", "lapsed", "facts"},
         sim : Int, nonce : Int, level : Nat, pending : Nat, target : Int,
         flush : Nat, lastInclusion : Nat]
NoPlan == [status |-> "none", phase |-> "ready", cursor |-> 1, stage |-> 1,
           exposed |-> FALSE, doubt |-> "none", sim |-> 0, nonce |-> Undefined,
           level |-> 0, pending |-> 0, target |-> Undefined, flush |-> 0,
           lastInclusion |-> 0]

SendStatus == {"unsent", "accepted", "unknown", "rejected", "withheld"}
Candidate == [plan : PlanIds, step : Nat, level : Nat, sent : SendStatus]
Outcomes == {"none", "executed", "unconfirmed", "reverted", "foreign"}
Resolution == [block : Nat, winner : Nat, outcome : Outcomes]
Unresolved == [block |-> 0, winner |-> 0, outcome |-> "none"]
NonceRecord == [open : BOOLEAN, candidates : Seq(Candidate), resolution : Resolution,
                lastActionHead : Nat, failedFillHead : Int, unknownSince : Int,
                foreign : BOOLEAN]
NoRecord == [open |-> FALSE, candidates |-> <<>>, resolution |-> Unresolved,
             lastActionHead |-> 0, failedFillHead |-> Undefined,
             unknownSince |-> Undefined, foreign |-> FALSE]

EntryStates == {"none", "intended", "signed", "exposed", "live", "revoking", "retired"}
OpenEntry == {"exposed", "live"}
Held == {"exposed", "live", "revoking"}
Unretired == {"intended", "signed", "exposed", "live", "revoking"}
Hash == Nat \X Nat                \* nonce, place in its record
NoHash == <<0, 0>>
Entry == [state : EntryStates, owner : PlanIds \cup {Free}, prior : OpenEntry,
          neutralizing : Hash, creators : SUBSET Hash, deadCreators : SUBSET Hash,
          compensate : BOOLEAN, stuck : BOOLEAN, recoveryAttempts : Nat,
          observed : Nat, neutralized : BOOLEAN, liveAt : Nat, stale : BOOLEAN]
NoEntry == [state |-> "none", owner |-> Free, prior |-> "exposed",
            neutralizing |-> NoHash, creators |-> {}, deadCreators |-> {},
            compensate |-> FALSE, stuck |-> FALSE, recoveryAttempts |-> 0,
            observed |-> 0, neutralized |-> FALSE, liveAt |-> 0, stale |-> FALSE]

Submission == {"none", "exposed", "settled", "compensated"}
Ledger == [nextNonce : Int, entries : [Offers -> Entry], nonces : [Nonces -> NonceRecord],
           submissions : [Intents -> Submission]]
EmptyLedger == [nextNonce |-> Undefined, entries |-> [o \in Offers |-> NoEntry],
                nonces |-> [n \in Nonces |-> NoRecord],
                submissions |-> [i \in Intents |-> "none"]]

Lifecycle == {"idle", "starting", "running", "recovering", "stopped"}
Tx == [nonce : Nonces, place : Nat, plan : PlanIds, step : Nat]
initialState ==
  [lifecycle |-> "idle", outcome |-> "none", nonceChecked |-> FALSE, startHead |-> 0,
   overdue |-> FALSE, head |-> 0, finalized |-> -1, chainNonce |-> 0,
   nextNonce |-> Undefined,
   entries |-> EmptyLedger.entries, nonces |-> EmptyLedger.nonces,
   plans |-> [p \in PlanIds |-> NoPlan], before |-> {},
   submissions |-> EmptyLedger.submissions,
   slot |-> Free, resends |-> {}, writes |-> <<>>, acked |-> TRUE,
   lastDurable |-> EmptyLedger]

\* x itself: TLC computes it here, once, before a later step reads its parts
Value(x) == CHOOSE y \in {x} : y = x

Step(k, p) == StepsOf(p)[k.plans[p].cursor]
Executing(k) == {p \in PlanIds : k.plans[p].status = "executing"}
InPhase(k, phase) == {p \in Executing(k) : k.plans[p].phase = phase}
StepPlans(S) == {p \in S : ~Recovery(p)}
RecoveryPlans(S) == {p \in S : Recovery(p)}

-----------------------------------------------------------------------------
(* Authorization.                                                          *)

\* of a plan of the strategy: what its payloads are read to do
RiskIncreasing(p) ==
  LET steps == Steps[p[2]]
  IN \E s \in DOMAIN steps : steps[s].creates # {} \/ steps[s].consumes
RiskReducing(p) ==
  LET steps == Steps[p[2]]
  IN ~RiskIncreasing(p) /\ \E s \in DOMAIN steps : steps[s].retires # {}

\* r.resolution is defined
Resolved(r) == r.resolution.block # 0
HasUnknown(r) == \E c \in DOMAIN r.candidates : r.candidates[c].sent = "unknown"

Latched(k) ==
  \E n \in Nonces :
     /\ k.nonces[n].open /\ ~Resolved(k.nonces[n])
     /\ k.nonces[n].foreign \/ HasUnknown(k.nonces[n])

MayIncreaseRisk(k) == k.lifecycle = "running" /\ ~Latched(k)

LifecycleAllows(k, p) ==
  \/ Recovery(p)
  \/ MayIncreaseRisk(k)
  \/ RiskReducing(p) /\ k.lifecycle # "stopped"

DecisionRefused(k, p) ==
  \/ ~LifecycleAllows(k, p)
  \/ /\ ~Recovery(p)
     /\ k.plans[p].phase \in PreCommit
     /\ k.plans[p].doubt = "lapsed"

EvidenceRefused(k, p) ==
  /\ ~Recovery(p) /\ ~RiskReducing(p)
  /\ k.plans[p].phase \in PreCommit \/ RiskIncreasing(p)
  /\ k.plans[p].doubt # "none"

StillAuthorized(k, p) == ~DecisionRefused(k, p) /\ ~EvidenceRefused(k, p)

SimFresh(k, p) ==
  /\ k.head > 0
  /\ k.plans[p].sim > 0
  /\ k.plans[p].sim >= k.head - MaxSimLagBlocks
  /\ k.plans[p].sim >= k.plans[p].lastInclusion

Withheld(k, p) == ~StillAuthorized(k, p) \/ k.plans[p].sim = Orphaned

-----------------------------------------------------------------------------
(* Plans end: failPlan, enterRecovering, settlePlan.                       *)

\* mutant: what a failed plan exposed is dropped with what it did not
EntriesAfterEndDropped(k, S, hurt) ==
  [o \in Offers |-> IF k.entries[o].owner \in S THEN NoEntry ELSE k.entries[o]]
\* dropUnexposed for every plan of S, and compensate for those in hurt
EntriesAfterEnd(k, S, hurt) ==
  [o \in Offers |->
     LET e == k.entries[o]
     IN CASE e.owner \in S /\ e.state \in {"intended", "signed"} -> NoEntry
          [] e.owner \in hurt /\ e.state \in OpenEntry -> [e EXCEPT !.compensate = TRUE]
          [] OTHER -> e]

SlotAfterFail(k, S) ==
  IF k.slot \in S /\ k.plans[k.slot].phase = "sign" THEN Free ELSE k.slot

FailSteps(k, S) ==
  LET hurt == {p \in S : k.plans[p].exposed}
  IN [k EXCEPT
        !.slot = SlotAfterFail(k, S),
        !.entries = EntriesAfterEnd(k, S, hurt),
        !.plans = [p \in PlanIds |->
           IF p \in hurt THEN [NoPlan EXCEPT !.status = "compensating"]
           ELSE IF p \in S THEN NoPlan ELSE k.plans[p]],
        !.submissions = [i \in Intents |->
           IF StepPlan(i) \in hurt THEN "exposed" ELSE k.submissions[i]]]

FailForbidden(k) ==
  FailSteps(k, {p \in Executing(k) : k.plans[p].phase \in PreCommit /\ ~LifecycleAllows(k, p)})
EnterRecovering(k) ==
  IF k.lifecycle \notin {"starting", "running"} THEN k
  ELSE FailForbidden(Value([k EXCEPT !.lifecycle = "recovering", !.overdue = FALSE]))

EndRecovery(k, S, spent) ==
  [k EXCEPT
     !.slot = SlotAfterFail(k, S),
     !.plans = [p \in PlanIds |-> IF p \in S THEN NoPlan ELSE k.plans[p]],
     !.nonces = [n \in Nonces |->
        IF Fill(n) \in S /\ k.nonces[n].open
        THEN [k.nonces[n] EXCEPT !.failedFillHead = k.head] ELSE k.nonces[n]],
     !.entries = [o \in Offers |->
        IF o \in spent THEN [k.entries[o] EXCEPT !.stuck = TRUE] ELSE k.entries[o]]]
\* the last attempt to neutralize an entry marks it stuck
MarkSpent(k, S, spent) ==
  IF spent = {} THEN EndRecovery(k, S, spent)
  ELSE EnterRecovering(Value(EndRecovery(k, S, spent)))
FailRecovery(k, S) ==
  MarkSpent(k, S, {o \in Offers : /\ Neutralizer(o) \in S
                                  /\ k.entries[o].state # "none"
                                  /\ k.entries[o].recoveryAttempts >= MaxRecoveryAttempts})

FailPlans(k, S) == FailRecovery(Value(FailSteps(k, StepPlans(S))), RecoveryPlans(S))

Stop(k, outcome) == [k EXCEPT !.lifecycle = "stopped", !.outcome = outcome]

SettlePlans(k, S) ==
  [k EXCEPT
     !.entries = EntriesAfterEnd(k, S, {}),
     !.plans = [p \in PlanIds |-> IF p \in S THEN NoPlan ELSE k.plans[p]],
     !.submissions = [i \in Intents |->
        IF StepPlan(i) \in S THEN "settled" ELSE k.submissions[i]]]

-----------------------------------------------------------------------------
(* Plans move: advance.                                                    *)

AtStageBoundary(k, p) ==
  LET q == k.plans[p]
  IN /\ ~Recovery(p) /\ ~RiskReducing(p)
     /\ q.cursor > q.stage
     /\ StepsOf(p)[q.cursor - 1].kind # "sign"

PhaseOf(kind) ==
  CASE kind = "tx" -> "simulate" [] kind = "sign" -> "sign" [] OTHER -> "await-slot"

\* advance of the plans past their last step, at the end of a stage, and going to their next step
AdvanceTo(k, done, parked, going) ==
  LET refused == {p \in going : DecisionRefused(k, p)}
      lapsed == {p \in parked : k.plans[p].doubt = "lapsed"}
      moved == [k EXCEPT !.plans = [p \in PlanIds |->
                  CASE p \in parked -> [k.plans[p] EXCEPT !.phase = "awaiting-advance"]
                    [] p \in going \ refused ->
                         [k.plans[p] EXCEPT !.phase = PhaseOf(Step(k, p).kind)]
                    [] OTHER -> k.plans[p]]]
  IN FailSteps(Value(SettlePlans(Value(moved), done)), refused \cup lapsed)
\* advance(s, out, plan) for every plan of S, each of them executing and ready
Advance(k, S) ==
  LET done == {p \in S : k.plans[p].cursor > Len(StepsOf(p))}
      parked == {p \in S \ done : AtStageBoundary(k, p)}
  IN AdvanceTo(k, done, parked, S \ (done \cup parked))

AddPlan(k, p, plan) ==
  Advance([k EXCEPT !.plans[p] = plan,
                    !.before = @ \cup ({q \in PlanIds : k.plans[q].status # "none"} \X {p})],
          {p})

-----------------------------------------------------------------------------
(* The commit point, and what hands a recorded exposure back.              *)

\* every id is this plan's own entry, in one of the states
Ours(k, p, ids, states) ==
  \A o \in ids : k.entries[o].owner = p /\ k.entries[o].state \in states

CommitRefused(k, p) ==
  LET s == Step(k, p)
  IN \/ ~Ours(k, p, s.exposes, {"signed", "exposed", "live"})
     \/ ~Ours(k, p, s.creates, {"intended", "signed"})
     \/ \E o \in s.retires : k.entries[o].state \notin Held

\* what the step s does to an entry once it is committed
CommittedEntry(k, s, hash, o) ==
  LET e == k.entries[o]
  IN CASE s.kind = "tx" /\ o \in s.creates ->
            [e EXCEPT !.state = "exposed", !.creators = @ \cup {hash}]
       [] s.kind = "tx" /\ o \in s.retires ->
            [e EXCEPT !.state = "revoking", !.neutralizing = hash,
                      !.prior = IF e.state \in OpenEntry THEN e.state ELSE e.prior]
       [] o \in s.exposes /\ e.state = "signed" /\ (s.kind = "tx" => o \notin s.creates) ->
            [e EXCEPT !.state = "exposed"]
       [] OTHER -> e

RecordCandidate(k, p) ==
  LET q == k.plans[p]
      old == k.nonces[q.nonce]
      new == [plan |-> p, step |-> q.cursor, level |-> q.level, sent |-> "unsent"]
  IN [k.nonces EXCEPT ![q.nonce] =
        [old EXCEPT !.open = TRUE, !.candidates = Append(old.candidates, new),
                    !.lastActionHead = IF k.head > 0 THEN k.head ELSE old.lastActionHead]]

Committed(k, p, q, tx, place) ==
  [k EXCEPT
     !.entries = [o \in Offers |-> CommittedEntry(k, Step(k, p), <<q.nonce, place>>, o)],
     !.nonces = IF tx THEN RecordCandidate(k, p) ELSE k.nonces,
     !.nextNonce = IF tx /\ @ = q.nonce THEN @ + 1 ELSE @,
     !.submissions = [i \in Intents |->
        IF StepPlan(i) = p THEN "exposed" ELSE k.submissions[i]],
     !.plans[p] = [q EXCEPT !.phase = "commit", !.pending = place,
                            !.exposed = q.exposed \/ ~Recovery(p),
                            !.flush = Len(k.writes) + 1],
     !.slot = IF k.slot = Free THEN Committing ELSE @]
Commit(k, p) ==
  IF CommitRefused(k, p) THEN FailPlans([k EXCEPT !.slot = Free], {p})
  ELSE Committed(k, p, k.plans[p], Step(k, p).kind = "tx",
                 IF Step(k, p).kind = "tx"
                 THEN Len(k.nonces[k.plans[p].nonce].candidates) + 1 ELSE 0)

SetSent(k, n, c, sent) == [k EXCEPT !.nonces[n].candidates[c].sent = sent]

-----------------------------------------------------------------------------
(* Chain evidence: progressPlans, settleNonces, settleEntries.             *)

CandidateStep(c) == StepsOf(c.plan)[c.step]
Executed(r, c) == r.resolution.winner = c /\ r.resolution.outcome = "executed"
\* mutant: a winner whose expected transition is not confirmed is taken not to have run
RanAsExpected(r, c) == Executed(r, c)
\* the winner succeeded, whether or not its expected transition is confirmed
Ran(r, c) == r.resolution.winner = c /\ r.resolution.outcome \in {"executed", "unconfirmed"}
\* mutant: inclusion is taken for finality
IsIncluded(k, r) == Resolved(r)
IsFinal(k, r) == Resolved(r) /\ r.resolution.block <= k.finalized

Mine(k, p) == {o \in Offers : k.entries[o].owner = p /\ k.entries[o].state # "none"}
\* mutant: a plan's own transaction is not asked about
CandidateOpenForEntriesOnly(k, p) ==
  \E n \in Nonces : \E c \in DOMAIN k.nonces[n].candidates :
     CandidateStep(k.nonces[n].candidates[c]).retires \cap Mine(k, p) # {}
CandidateOpen(k, p) ==
  \E n \in Nonces : \E c \in DOMAIN k.nonces[n].candidates :
     \/ k.nonces[n].candidates[c].plan = p
     \/ CandidateStep(k.nonces[n].candidates[c]).retires \cap Mine(k, p) # {}

SettleCompensation(k) ==
  LET S == {p \in PlanIds : k.plans[p].status = "compensating"}
      failed == {p \in S : \E o \in Mine(k, p) : k.entries[o].stuck}
      done == {p \in S \ failed : /\ \A o \in Mine(k, p) : k.entries[o].state \notin Unretired
                                  /\ ~CandidateOpen(k, p)}
  IN [k EXCEPT
        !.plans = [p \in PlanIds |-> IF p \in failed \cup done THEN NoPlan ELSE k.plans[p]],
        !.submissions = [i \in Intents |->
           IF StepPlan(i) \in done THEN "compensated" ELSE k.submissions[i]]]

\* their own transaction won the nonce and executed
Won(k, S) == {p \in S : k.plans[p].pending # 0
                         /\ Executed(k.nonces[k.plans[p].nonce], k.plans[p].pending)}
Include(k, won) ==
  [k EXCEPT !.plans = [p \in PlanIds |->
     IF p \in won
     THEN [k.plans[p] EXCEPT !.cursor = @ + 1, !.phase = "ready", !.pending = 0,
                             !.lastInclusion = k.nonces[k.plans[p].nonce].resolution.block]
     ELSE k.plans[p]]]
ProgressResolved(k, S, won) ==
  FailPlans(Value(Advance(Value(Include(k, won)), won)), S \ won)
Progressed(k, S) == ProgressResolved(k, S, Won(k, S))
\* the plans whose transaction's nonce is resolved
ProgressIncluded(k) ==
  Progressed(k, {p \in InPhase(k, "include") : k.plans[p].nonce \in Nonces
                                               /\ Resolved(k.nonces[k.plans[p].nonce])})
ProgressPlans(k) == ProgressIncluded(Value(SettleCompensation(k)))

\* <<nonce, place>> of the candidates whose nonce is resolved
ResolvedHashes(k) ==
  UNION {{<<n, c>> : c \in DOMAIN k.nonces[n].candidates} :
           n \in {m \in Nonces : Resolved(k.nonces[m])}}
StepAt(k, h) == CandidateStep(k.nonces[h[1]].candidates[h[2]])
Earlier(g, h) == g[1] < h[1] \/ (g[1] = h[1] /\ g[2] < h[2])

Retired(e) == [NoEntry EXCEPT !.state = "retired", !.owner = e.owner, !.stuck = e.stuck]

\* the neutralizer of e lost its nonce
LostNonce(k, e, H) ==
  e.state = "revoking" /\ e.neutralizing \in H
  /\ ~Executed(k.nonces[e.neutralizing[1]], e.neutralizing[2])
\* of the candidates in H: those that ran and made o, and the final ones that did not
Created(k, o, H) ==
  {h \in H : o \in StepAt(k, h).creates \cup StepAt(k, h).exposes /\ Ran(k.nonces[h[1]], h[2])}
Failed(k, o, H) ==
  {h \in H : /\ o \in StepAt(k, h).creates /\ Exposure[o] = "inclusion"
             /\ ~Ran(k.nonces[h[1]], h[2]) /\ IsFinal(k, k.nonces[h[1]])}
Neutralized(k, o, e, H, lost) ==
  /\ e.state = "revoking"
  /\ \E h \in H : /\ o \in StepAt(k, h).retires
                  /\ Executed(k.nonces[h[1]], h[2]) /\ IsFinal(k, k.nonces[h[1]])
                  /\ ~(lost /\ Earlier(e.neutralizing, h))
HandedBack(e, lost) ==
  IF lost THEN [e EXCEPT !.state = e.prior, !.neutralizing = NoHash] ELSE e
Latest(H) == {h \in H : \A f \in H : ~Earlier(h, f)}
\* last: the latest of the candidates that made e
Live(k, e, last) ==
  IF last = {} THEN e
  ELSE [e EXCEPT
          !.state = IF @ = "exposed" THEN "live" ELSE @,
          !.prior = IF e.state = "revoking" THEN "live" ELSE @,
          !.liveAt = k.nonces[(CHOOSE h \in last : TRUE)[1]].resolution.block]
\* applyRetires and applyCreation over every candidate, in the order of nonce and place
Applied(k, o, e, H, lost, dead) ==
  CASE e.state \in {"none", "retired"} -> e
    [] \/ Neutralized(k, o, e, H, lost)
       \/ dead # {} /\ e.creators \subseteq e.deadCreators \cup dead -> Retired(e)
    [] OTHER -> [Live(k, HandedBack(e, lost), Latest(Created(k, o, H)))
                   EXCEPT !.deadCreators = @ \cup dead]
SettledEntry(k, o, e, H) == Applied(k, o, e, H, LostNonce(k, e, H), Failed(k, o, H))

Awaited(k, n) ==
  \E p \in Executing(k) : k.plans[p].nonce = n /\ k.plans[p].phase \notin PreCommit

SettleNonces(k) ==
  [k EXCEPT
     !.entries = [o \in Offers |-> SettledEntry(k, o, k.entries[o], ResolvedHashes(k))],
     !.nonces = [n \in Nonces |->
        IF IsFinal(k, k.nonces[n]) /\ ~Awaited(k, n) /\ ~k.nonces[n].foreign
        THEN NoRecord ELSE k.nonces[n]]]

SettleEntries(k) ==
  [k EXCEPT !.entries = [o \in Offers |->
     LET e == k.entries[o]
     IN IF /\ e.state \in Held
           /\ \/ e.neutralized /\ e.observed <= k.finalized
              \/ k.finalized > Expiry[o]
        THEN Retired(e) ELSE e]]

LatchBound(k) ==
  IF \E n \in Nonces : LET r == k.nonces[n]
                       IN /\ ~Resolved(r) /\ HasUnknown(r)
                          /\ r.unknownSince # Undefined
                          /\ k.head - r.unknownSince > LatchBoundBlocks
  THEN EnterRecovering(k) ELSE k

-----------------------------------------------------------------------------
(* Startup, rebroadcast, recovery.                                         *)

CheckStarted(k) ==
  LET since == IF k.startHead = 0 THEN k.head ELSE k.startHead
      waiting == \/ \E n \in Nonces : /\ k.nonces[n].open /\ ~Resolved(k.nonces[n])
                                      /\ n < k.chainNonce
                 \/ \E o \in Offers : /\ k.entries[o].state \in Unretired
                                      /\ k.entries[o].observed < since
      checked == k.nonceChecked /\ k.head > 0
      alarmed == \/ \E o \in Offers : k.entries[o].state \in OpenEntry /\ k.entries[o].stale
                 \/ checked /\ \E n \in Nonces : k.nonces[n].foreign
  IN CASE k.lifecycle # "starting" -> k
       [] alarmed -> EnterRecovering(k)
       [] ~checked -> k
       [] waiting -> [k EXCEPT !.startHead = since]
       [] OTHER -> [k EXCEPT !.startHead = 0, !.nonceChecked = FALSE, !.lifecycle = "running"]

TxAt(n, place, c) == [nonce |-> n, place |-> place, plan |-> c.plan, step |-> c.step]

Resendable(k, c) ==
  \/ Recovery(c.plan)
  \/ /\ k.plans[c.plan].status = "executing" /\ k.plans[c.plan].doubt # "lapsed"
     /\ k.lifecycle = "running"
ResendPlaces(k, n) ==
  {c \in DOMAIN k.nonces[n].candidates :
     /\ k.nonces[n].candidates[c].sent = "unknown"
     /\ Resendable(k, k.nonces[n].candidates[c])}
Resent(k) ==
  {n \in Nonces : /\ k.nonces[n].open /\ ~Resolved(k.nonces[n])
                  /\ k.head - k.nonces[n].lastActionHead >= StuckBlocks
                  /\ ResendPlaces(k, n) # {}}
FirstResend(k, n) ==
  {TxAt(n, c, k.nonces[n].candidates[c]) :
     c \in {c \in ResendPlaces(k, n) : \A d \in ResendPlaces(k, n) : c <= d}}

Rebroadcast(k) ==
  IF k.head = 0 THEN k
  ELSE [k EXCEPT
          !.nonces = [n \in Nonces |->
             IF n \in Resent(k) THEN [k.nonces[n] EXCEPT !.lastActionHead = k.head]
             ELSE k.nonces[n]],
          !.resends = @ \cup UNION {FirstResend(k, n) : n \in Resent(k)}]

KeptHome(c) == c.sent \in {"rejected", "withheld"}
RejectedOnly(r) == ~r.foreign /\ \A c \in DOMAIN r.candidates : KeptHome(r.candidates[c])

\* the plan that committed this candidate still executes
OwnerExecutes(k, n, place) ==
  LET p == k.nonces[n].candidates[place].plan
  IN /\ k.plans[p].status = "executing"
     /\ Recovery(p) => k.plans[p].nonce = n /\ k.plans[p].pending = place

Occupiable(k, n) ==
  LET r == k.nonces[n]
  IN /\ r.open /\ ~Resolved(r) /\ ~r.foreign
     /\ \A c \in DOMAIN r.candidates :
          Recovery(r.candidates[c].plan) => KeptHome(r.candidates[c])
     /\ \A p \in RecoveryPlans(Executing(k)) : k.plans[p].target # n
     /\ \/ k.lifecycle = "recovering"
        \/ RejectedOnly(r)
        \/ \A c \in DOMAIN r.candidates : ~OwnerExecutes(k, n, c)

RetiredNextBy(k, o) ==
  \E p \in StepPlans(Executing(k)) :
     /\ k.plans[p].phase \in PreCommit /\ k.plans[p].cursor \in DOMAIN StepsOf(p)
     /\ o \in Step(k, p).retires

OwesNeutralizer(k, o) ==
  LET e == k.entries[o]
      recovering == k.lifecycle = "recovering"
  IN /\ e.state \in OpenEntry /\ ~e.stuck
     /\ recovering \/ e.compensate \/ e.stale
     /\ recovering \/ e.stale \/ ~RetiredNextBy(k, o)
     /\ k.plans[Neutralizer(o)].status # "executing"

Below(S, x) == {y \in S : y < x}

\* the member of T with as many below it as o has in S
Paired(T, S, o) ==
  LET due(n) == Cardinality(Below(T, n)) = Cardinality(Below(S, o))
  IN IF \E n \in T : due(n) THEN CHOOSE n \in T : due(n) ELSE Undefined
\* recoverTarget for the neutralizer of o when those of the offers of S start in order
RecoverTarget(k, S, o) ==
  Paired({n \in Nonces : Occupiable(k, n)
                         /\ (k.lifecycle = "recovering" \/ RejectedOnly(k.nonces[n]))}, S, o)

\* startRecovery, in the order of their entries or nonces: advance sends each to its one step
Started(k, new, target) ==
  [k EXCEPT
     !.plans = [p \in PlanIds |->
        IF p \in new THEN [NoPlan EXCEPT !.status = "executing", !.phase = "simulate",
                                         !.target = target[p[2]]]
        ELSE k.plans[p]],
     !.before = (@ \ ((new \X PlanIds) \cup (PlanIds \X new)))
                \cup ((PlanIds \ new) \X new)
                \cup {pair \in new \X new : pair[1][2] < pair[2][2]}]
StartNeutralizers(k, S) ==
  Started([k EXCEPT !.entries = [o \in Offers |->
             IF o \in S THEN [k.entries[o] EXCEPT !.recoveryAttempts = @ + 1] ELSE k.entries[o]]],
          {Neutralizer(o) : o \in S}, [o \in S |-> RecoverTarget(k, S, o)])
StartFills(k, S) == Started(k, {Fill(n) : n \in S}, [n \in S |-> n])

FillsDue(k) ==
  {n \in Nonces :
     LET r == k.nonces[n]
     IN /\ Occupiable(k, n)
        /\ r.failedFillHead # Undefined => k.head > r.failedFillHead
        /\ \/ RejectedOnly(r)
           \/ k.lifecycle = "recovering" /\ k.head - r.lastActionHead >= StuckBlocks}

MarkStuck(k, S) ==
  [k EXCEPT !.entries = [o \in Offers |->
     IF o \in S THEN [k.entries[o] EXCEPT !.stuck = TRUE] ELSE k.entries[o]]]

\* recover, given the entries that are owed a neutralizer and those of them out of attempts:
\* in running, the first of the latter ends the pass
StartAndMark(k, S, stuck) == MarkStuck(Value(StartNeutralizers(k, S)), stuck)
FillDue(k) == StartFills(k, FillsDue(k))
AfterNeutralizers(k, ends) == IF ends THEN EnterRecovering(k) ELSE FillDue(k)
RecoverOwed(k, owed, spent, ends) ==
  AfterNeutralizers(
    Value(StartAndMark(k, {o \in owed \ spent : ends => \A x \in spent : o < x},
                          {o \in spent : ends => Below(spent, o) = {}})),
    ends)
Spent(k, owed) == {o \in owed : k.entries[o].recoveryAttempts >= MaxRecoveryAttempts}
RecoverAll(k, owed, spent) == RecoverOwed(k, owed, spent, k.lifecycle = "running" /\ spent # {})
RecoverSome(k, owed) == RecoverAll(k, owed, Spent(k, owed))
Recover(k) ==
  IF k.lifecycle \notin {"running", "recovering"} THEN k
  ELSE RecoverSome(k, {o \in Offers : OwesNeutralizer(k, o)})

-----------------------------------------------------------------------------
(* The slot, the ledger, the end of an event.                              *)

\* the nonce dispatchSlot would sign at; MaxNonce bounds the model
NonceFor(k, p) == IF k.plans[p].target # Undefined THEN k.plans[p].target ELSE k.nextNonce
LostTarget(k, p) ==
  LET t == k.plans[p].target
  IN t # Undefined /\ (t \notin Nonces \/ ~k.nonces[t].open \/ Resolved(k.nonces[t]))

NextLevel(k, n) ==
  LET cs == k.nonces[n].candidates
      tops == {l \in {cs[c].level : c \in DOMAIN cs} : \A c \in DOMAIN cs : cs[c].level <= l}
  IN IF tops = {} THEN 1 ELSE 1 + CHOOSE l \in tops : TRUE

\* how dispatchSlot finds a plan that waits for the slot and is still authorized
Releasing(k, p) == Step(k, p).kind = "release"
Lost(k, p) == SimFresh(k, p) /\ LostTarget(k, p)
Signable(k, p) == SimFresh(k, p) /\ ~LostTarget(k, p) /\ NonceFor(k, p) \in Nonces

\* the first of the plans that can take the slot, and those looked at on the way to it
First(k, able) == {p \in able : \A q \in able \ {p} : <<q, p>> \notin k.before}
Reached(k, W, first) == {p \in W : \A q \in first : <<q, p>> \notin k.before}
\* a transaction's simulation is out of date: advance sends the plan to the same step
SimulateAgain(k, S) ==
  [k EXCEPT !.plans = [p \in PlanIds |->
     IF p \in S THEN [k.plans[p] EXCEPT !.phase = "simulate"] ELSE k.plans[p]]]
Sign(k, p, n) ==
  [k EXCEPT !.plans[p].phase = "sign", !.plans[p].nonce = n, !.plans[p].level = NextLevel(k, n),
            !.slot = p]

\* what a pass leaves of the plans it looked at: recovery is always authorized
PassRecoveries(k, S) ==
  FailRecovery(Value(SimulateAgain(k, {p \in S : ~SimFresh(k, p)})), {p \in S : Lost(k, p)})
\* a plan of the strategy has no target to lose
PassSteps(k, S, allowed) ==
  FailSteps(Value(SimulateAgain(k, {p \in S \cap allowed : ~Releasing(k, p) /\ ~SimFresh(k, p)})),
            S \ allowed)
\* first: at most one plan, which takes the slot
SlotToRecovery(k, first) ==
  IF first = {} THEN k ELSE LET p == CHOOSE p \in first : TRUE IN Sign(k, p, NonceFor(k, p))
SlotToStep(k, first) ==
  IF first = {} THEN k
  ELSE LET p == CHOOSE p \in first : TRUE
       IN IF Releasing(k, p) THEN Commit(k, p) ELSE Sign(k, p, NonceFor(k, p))

RecoveriesTo(k, W, first) == SlotToRecovery(Value(PassRecoveries(k, Reached(k, W, first))), first)
DispatchRecoveries(k, W) == RecoveriesTo(k, W, First(k, {p \in W : Signable(k, p)}))
StepsTo(k, W, allowed, first) ==
  SlotToStep(Value(PassSteps(k, Reached(k, W, first), allowed)), first)
StepsAmong(k, W, allowed) ==
  StepsTo(k, W, allowed, First(k, {p \in allowed : Releasing(k, p) \/ Signable(k, p)}))
DispatchSteps(k, W) == StepsAmong(k, W, {p \in W : StillAuthorized(k, p)})

\* recovery before the plans of the strategy
DispatchRest(k) ==
  IF k.slot # Free THEN k ELSE DispatchSteps(k, StepPlans(InPhase(k, "await-slot")))
DispatchSlot(k) ==
  IF k.slot # Free THEN k
  ELSE DispatchRest(Value(DispatchRecoveries(k, RecoveryPlans(InPhase(k, "await-slot")))))

\* mutant: an entry being neutralized is not written
DurableEntryIfOpen(e) ==
  IF e.state \notin OpenEntry THEN NoEntry
  ELSE [NoEntry EXCEPT !.state = e.state, !.owner = e.owner, !.prior = e.prior,
                       !.creators = e.creators, !.deadCreators = e.deadCreators,
                       !.compensate = e.compensate]
DurableEntry(e) ==
  IF e.state \notin Held THEN NoEntry
  ELSE [NoEntry EXCEPT !.state = e.state, !.owner = e.owner, !.prior = e.prior,
                       !.neutralizing = e.neutralizing, !.creators = e.creators,
                       !.deadCreators = e.deadCreators, !.compensate = e.compensate]
DurableRecord(r) ==
  IF ~r.open THEN NoRecord
  ELSE [NoRecord EXCEPT !.open = TRUE, !.candidates = r.candidates,
                        !.unknownSince = r.unknownSince, !.foreign = r.foreign]
ToDurable(k) ==
  [nextNonce |-> k.nextNonce,
   entries |-> [o \in Offers |-> DurableEntry(k.entries[o])],
   nonces |-> [n \in Nonces |-> DurableRecord(k.nonces[n])],
   submissions |-> k.submissions]

\* mutant: no write is issued for a commit that changed nothing
FlushOnlyIfChanged(k) ==
  IF ToDurable(k) = k.lastDurable THEN k
  ELSE [k EXCEPT !.writes = Append(@, ToDurable(k)), !.lastDurable = ToDurable(k)]
Flush(k, ledger) ==
  LET awaited == \E p \in InPhase(k, "commit") : k.plans[p].flush > Len(k.writes)
  IN IF ledger = k.lastDurable /\ ~awaited THEN k
     ELSE [k EXCEPT !.writes = Append(@, ledger), !.lastDurable = ledger]
FlushIfChanged(k) == Flush(k, ToDurable(k))

\* s.ackedSeq >= s.seq
Durable(k) == k.writes = <<>> /\ k.acked
\* checkStopped, with what counts as quiet
StopWhen(k, quiet) ==
  CASE k.lifecycle # "recovering" -> k
    [] quiet -> Stop(k, "clean")
    [] k.overdue -> Stop(k, "unsafe")
    [] OTHER -> k
SettledOffers(k) == \A o \in Offers : k.entries[o].state \notin Unretired
SettledPlans(k) ==
  k.slot = Free /\ \A p \in Executing(k) : k.plans[p].phase \in PreCommit
\* mutant: an offer still held does not keep the kernel from stopping
CheckStoppedPastOffers(k) ==
  StopWhen(k, (\A n \in Nonces : ~k.nonces[n].open) /\ SettledPlans(k) /\ Durable(k))
CheckStopped(k) ==
  StopWhen(k, /\ SettledOffers(k)
              /\ \A n \in Nonces : ~k.nonces[n].open
              /\ SettledPlans(k)
              /\ Durable(k))

PruneFinished(k) ==
  LET live == {p \in PlanIds : k.plans[p].status # "none"}
  IN [k EXCEPT !.before = @ \cap (live \X live)]

\* afterEvent: the second progressPlans finds no included plan left to move
AfterEvent(k) ==
  LET settled == Value(SettleEntries(Value(SettleNonces(Value(ProgressPlans(k))))))
      bounded == Value(LatchBound(Value(SettleCompensation(settled))))
      resent == Value(Rebroadcast(Value(CheckStarted(bounded))))
      acted == Value(DispatchSlot(Value(Recover(resent))))
  IN PruneFinished(CheckStopped(Value(FlushIfChanged(acted))))

Reduce(k) == IF k.lifecycle \in {"idle", "stopped"} THEN k ELSE AfterEvent(Value(k))
=============================================================================
