------------------------- MODULE TransactionKernel -------------------------
(***************************************************************************)
(* The transaction kernel at work: the handler of each event               *)
(* (framework/kernel/src/kernel.ts) and the environment that delivers the  *)
(* events, which is the executor, the ledger store, the chain adapter, the *)
(* clock, the bot, and crashes and restarts.                               *)
(*                                                                         *)
(* A request is outstanding exactly while its plan is in the phase that    *)
(* waits for it, so a late answer has no action.  Adverse events are of    *)
(* the kinds in Adversity, at most MaxFaults of them in a behaviour.       *)
(***************************************************************************)
EXTENDS KernelReducer

-----------------------------------------------------------------------------
(* The system: the kernel k, the ledger file, the network and the chain.   *)

VARIABLES
  k,         \* the kernel's state
  disk,      \* the ledger file
  net,       \* transactions handed to the network
  released,  \* commitments released offchain
  chain,     \* [head, mined]: mined[n + 1] is what consumed nonce n
  faults     \* adverse events so far
vars == <<k, disk, net, released, chain, faults>>

KernelState ==
  [lifecycle : Lifecycle, outcome : {"none", "clean", "unsafe", "refused"},
   nonceChecked : BOOLEAN, startHead : Nat, overdue : BOOLEAN,
   head : Nat, finalized : Int, chainNonce : Nat, nextNonce : Int,
   entries : [Offers -> Entry], nonces : [Nonces -> NonceRecord],
   plans : [PlanIds -> Plan], before : SUBSET (PlanIds \X PlanIds),
   submissions : [Intents -> Submission],
   slot : PlanIds \cup {Free, Committing}, resends : SUBSET Tx,
   writes : Seq(Ledger), acked : BOOLEAN, lastDurable : Ledger]

Foreign == [nonce |-> 0, place |-> 0, plan |-> Free, step |-> 0]
Mined == [block : Nat, tx : Tx \cup {Foreign}, outcome : {"executed", "unconfirmed", "reverted"}]

Init ==
  /\ k = initialState
  /\ disk = EmptyLedger
  /\ net = {}
  /\ released = {}
  /\ chain = [head |-> 1, mined |-> <<>>]
  /\ faults = 0

Alive == k.lifecycle \in {"starting", "running", "recovering"}
Fault(kind) == kind \in Adversity /\ faults < MaxFaults /\ faults' = faults + 1
NoFault == UNCHANGED faults
\* an event whose handler leaves the kernel in k1, and touches nothing outside
Handle(k1) == k' = Reduce(k1) /\ UNCHANGED <<disk, net, released, chain>>

Final(n) == n < Len(chain.mined) /\ chain.mined[n + 1].block <= chain.head - FinalityLag

\* the records of nonces, as loaded: what may have been sent is unknown
LoadedNonces(ledger) ==
  [n \in Nonces |->
     LET cs == ledger.nonces[n].candidates
     IN [ledger.nonces[n] EXCEPT !.candidates = [c \in DOMAIN cs |->
           IF KeptHome(cs[c]) THEN cs[c] ELSE [cs[c] EXCEPT !.sent = "unknown"]]]]
\* start: W is what withdrawUnadoptable withdraws under the restart's policy
\* mutant: the submissions of earlier processes are not read back
LoadedWithoutSubmissions(ledger, W) ==
  [initialState EXCEPT
     !.lifecycle = "starting",
     !.nextNonce = ledger.nextNonce,
     !.entries = [o \in Offers |->
        IF o \in W THEN [ledger.entries[o] EXCEPT !.compensate = TRUE] ELSE ledger.entries[o]],
     !.nonces = LoadedNonces(ledger)]
Loaded(ledger, W) ==
  [initialState EXCEPT
     !.lifecycle = "starting",
     !.nextNonce = ledger.nextNonce,
     !.entries = [o \in Offers |->
        IF o \in W THEN [ledger.entries[o] EXCEPT !.compensate = TRUE] ELSE ledger.entries[o]],
     !.nonces = LoadedNonces(ledger),
     !.submissions = ledger.submissions]
Start ==
  /\ k.lifecycle = "idle"
  /\ \E W \in SUBSET {o \in Offers : disk.entries[o].state \in Held} :
       /\ IF W = {} THEN NoFault ELSE Fault("policy")
       /\ LET s == Loaded(disk, W) IN Handle([s EXCEPT !.lastDurable = ToDurable(s)])

ReferencesUnresolved(p) ==
  \/ \E o \in Offers : k.entries[o].owner = p /\ k.entries[o].state \in Unretired
  \/ \E n \in Nonces : \E c \in DOMAIN k.nonces[n].candidates : k.nonces[n].candidates[c].plan = p

Creates(p) == UNION {StepsOf(p)[s].creates : s \in DOMAIN StepsOf(p)}
Retires(p) == UNION {StepsOf(p)[s].retires : s \in DOMAIN StepsOf(p)}

\* submit, when it admits
Submit(i) ==
  LET p == StepPlan(i)
  IN /\ Alive /\ NoFault
     /\ k.plans[p].status = "none" /\ k.submissions[i] = "none"
     /\ ~ReferencesUnresolved(p)
     /\ \A o \in Creates(p) : k.entries[o].state = "none"
     /\ \A o \in Retires(p) : k.entries[o].state \in Held
     /\ LifecycleAllows(k, p)
     /\ Handle(AddPlan(
          [k EXCEPT !.entries = [o \in Offers |->
             IF o \in Creates(p) THEN [NoEntry EXCEPT !.state = "intended", !.owner = p]
             ELSE k.entries[o]]],
          p, [NoPlan EXCEPT !.status = "executing"]))

\* advanceStage, when it moves the plan: the next stage rests on facts read at the head
AdvanceStage(i) ==
  LET p == StepPlan(i)
      next == [k EXCEPT !.plans[p].stage = k.plans[p].cursor, !.plans[p].phase = "ready",
                        !.plans[p].doubt = "none"]
  IN /\ Alive /\ p \in InPhase(k, "awaiting-advance") /\ NoFault
     /\ LifecycleAllows(k, p) /\ k.head >= k.plans[p].lastInclusion
     /\ Handle(Advance(next, {p}))

\* observe: the plan's facts change, or read again as decided
Observed(i) ==
  LET p == StepPlan(i)
      q == k.plans[p]
  IN /\ Alive /\ q.status = "executing"
     /\ \/ q.doubt = "none" /\ Fault("facts")
        \/ (q.doubt = "facts" \/ (q.doubt = "lapsed" /\ q.phase = "include")) /\ NoFault
     /\ Handle([k EXCEPT !.plans[p].doubt = IF @ = "none" THEN "facts" ELSE "none"])

\* tick, past plan i's deadline
Lapse(i) ==
  LET p == StepPlan(i)
      late == [k EXCEPT !.plans[p].doubt = "lapsed"]
  IN /\ Alive /\ k.plans[p].status = "executing" /\ k.plans[p].doubt # "lapsed" /\ Fault("lapse")
     /\ Handle(IF k.plans[p].phase \in PreCommit THEN FailPlans(late, {p}) ELSE late)

\* tick, past an entry's affirmation
GoStale(o) ==
  /\ Alive /\ k.entries[o].state \in OpenEntry /\ ~k.entries[o].stale /\ Fault("stale")
  /\ Handle([k EXCEPT !.entries[o].stale = TRUE])
Affirm(o) ==
  /\ Alive /\ k.entries[o].stale /\ NoFault
  /\ Handle([k EXCEPT !.entries[o].stale = FALSE])

\* tick, past the recovery bound
Overdue == /\ k.lifecycle = "recovering" /\ ~k.overdue /\ Fault("overdue")
           /\ Handle([k EXCEPT !.overdue = TRUE])

\* Stop and Halt
StopOrHalt == Alive /\ k.lifecycle # "recovering" /\ Fault("halt") /\ Handle(EnterRecovering(k))

-----------------------------------------------------------------------------
(* Answers of the signer, the simulator, the ledger store and the network. *)

\* mutant: the slot is not given back
NotTaken(p) == k.slot
Taken(p) == IF k.slot = p THEN Free ELSE k.slot

Simulated(p) ==
  /\ Alive /\ p \in InPhase(k, "simulate") /\ k.head > 0
  /\ \E ok \in BOOLEAN :
       /\ IF ok THEN NoFault ELSE Fault("simulate")
       /\ Handle(IF ok THEN [k EXCEPT !.plans[p].sim = k.head, !.plans[p].phase = "await-slot"]
                 ELSE FailPlans(k, {p}))

SignedTyped(p) ==
  IF ~StillAuthorized(k, p) THEN FailPlans(k, {p})
  ELSE Advance(
         [k EXCEPT
            !.entries = [o \in Offers |->
               IF o \in Step(k, p).creates /\ Ours(k, p, {o}, {"intended"})
               THEN [k.entries[o] EXCEPT !.state = "signed"] ELSE k.entries[o]],
            !.plans[p] = [k.plans[p] EXCEPT !.cursor = k.plans[p].cursor + 1,
                                           !.phase = "ready"]], {p})
SignedTx(p) ==
  LET open == [k EXCEPT !.slot = Free]
  IN CASE ~StillAuthorized(k, p) -> FailPlans(open, {p})
       [] StillAuthorized(k, p) /\ ~SimFresh(k, p) ->
            SimulateAgain(open, {p})
       [] OTHER -> Commit([k EXCEPT !.slot = p], p)
Signed(p) ==
  /\ Alive /\ p \in InPhase(k, "sign") /\ NoFault
  /\ Handle(IF Step(k, p).kind = "sign" THEN SignedTyped(p) ELSE SignedTx(p))
\* effectFailed for a signature
SignFailed(p) ==
  /\ Alive /\ p \in InPhase(k, "sign") /\ Fault("sign")
  /\ Handle(FailPlans([k EXCEPT !.slot = Taken(p)], {p}))

\* the candidate a committed plan waits to send
HasPending(p) ==
  LET q == k.plans[p]
  IN q.pending # 0 /\ q.nonce \in Nonces /\ q.pending \in DOMAIN k.nonces[q.nonce].candidates
TxOf(p) == [nonce |-> k.plans[p].nonce, place |-> k.plans[p].pending,
            plan |-> p, step |-> k.plans[p].cursor]

\* sent for the pending candidate of every plan of S
MarkPending(s, S, sent) ==
  [s EXCEPT !.nonces = [n \in Nonces |->
     [s.nonces[n] EXCEPT !.candidates = [c \in DOMAIN s.nonces[n].candidates |->
        IF \E p \in S : HasPending(p) /\ k.plans[p].nonce = n /\ k.plans[p].pending = c
        THEN [s.nonces[n].candidates[c] EXCEPT !.sent = sent]
        ELSE s.nonces[n].candidates[c]]]]]

\* the oldest write is answered: plans wait on the ones behind it
\* mutant: every plan's write is taken to be the oldest
AnsweredEvery(s) ==
  [s EXCEPT !.writes = Tail(@),
            !.plans = [p \in PlanIds |-> [s.plans[p] EXCEPT !.flush = @ - 1]]]
Answered(s) ==
  [s EXCEPT !.writes = Tail(@),
            !.plans = [p \in PlanIds |->
               IF s.plans[p].flush > 0 THEN [s.plans[p] EXCEPT !.flush = @ - 1]
               ELSE s.plans[p]]]
\* mutant: any write's answer is taken for a plan's own
WaitingForAny == InPhase(k, "commit")
Waiting == {p \in InPhase(k, "commit") : k.plans[p].flush <= 1}

\* handBack: the entries neutralized by the pending candidate of a plan of S
HandBackPending(s, S) ==
  [s EXCEPT !.entries = [o \in Offers |->
     LET e == s.entries[o]
     IN IF /\ e.state = "revoking"
           /\ \E p \in S : HasPending(p)
                           /\ e.neutralizing = <<k.plans[p].nonce, k.plans[p].pending>>
        THEN [e EXCEPT !.state = e.prior, !.neutralizing = NoHash] ELSE e]]

Dispatching(s, kept, sent) ==
  [s EXCEPT !.plans = [p \in PlanIds |->
              CASE p \in sent -> [s.plans[p] EXCEPT !.phase = "expose"]
                [] p \in kept -> [s.plans[p] EXCEPT !.phase = "include"]
                [] OTHER -> s.plans[p]],
            !.slot = IF sent # {} THEN CHOOSE p \in sent : TRUE
                     ELSE IF kept # {} THEN Free ELSE @]
Keep(s, kept) == FailPlans(Value(HandBackPending(MarkPending(s, kept, "withheld"), kept)), kept)
FlushedBut(kept) ==
  Keep(Value(Dispatching(Value(Answered([k EXCEPT !.acked = TRUE])), kept, Waiting \ kept)), kept)
\* late: the dispatch window has passed
Flushed(late) == FlushedBut({p \in Waiting : Withheld(k, p) \/ late})
FlushAnswered ==
  /\ Alive /\ k.writes # <<>>
  /\ disk' = Head(k.writes)
  /\ \E late \in BOOLEAN :
       /\ IF late THEN Waiting # {} /\ Fault("late") ELSE NoFault
       /\ k' = Reduce(Flushed(late))
  /\ UNCHANGED <<net, released, chain>>

ToInclude(s, S) ==
  [s EXCEPT !.plans = [p \in PlanIds |->
     IF p \in S THEN [s.plans[p] EXCEPT !.phase = "include"] ELSE s.plans[p]]]
FailedToFlush(s) ==
  FailPlans(MarkPending(ToInclude(s, Waiting), Waiting, "rejected"), {p \in Waiting : ~HasPending(p)})
StoppedOrRecovering(s) ==
  IF s.lifecycle = "recovering" THEN Stop(s, "unsafe") ELSE EnterRecovering(s)
FlushFailed ==
  StoppedOrRecovering([FailedToFlush(Value(Answered([k EXCEPT !.acked = FALSE]))) EXCEPT !.slot = Free])
FlushRejected ==
  /\ Alive /\ k.writes # <<>> /\ Fault("flush")
  /\ disk' \in {disk, Head(k.writes)}
  /\ k' = Reduce(FlushFailed)
  /\ UNCHANGED <<net, released, chain>>

\* withholds: what the executor asks before it hands bytes to the network
HandoffRefused(p) == ~Recovery(p) /\ (k.plans[p].status # "executing" \/ Withheld(k, p))
ResendRefused(t) ==
  LET place == t.place \in DOMAIN k.nonces[t.nonce].candidates
  IN IF place /\ k.nonces[t.nonce].candidates[t.place].sent = "unknown"
     THEN ~Resendable(k, k.nonces[t.nonce].candidates[t.place])
     ELSE HandoffRefused(t.plan)

Exposing(p) == p \in InPhase(k, "expose")
\* what p is exposing has been handed over
Dispatched(p) ==
  IF Step(k, p).kind = "tx" THEN TxOf(p) \in net ELSE Step(k, p).exposes \subseteq released
Handoff(p) ==
  /\ Alive /\ Exposing(p) /\ ~HandoffRefused(p) /\ NoFault
  /\ ~Dispatched(p)
  /\ IF Step(k, p).kind = "tx"
     THEN net' = net \cup {TxOf(p)} /\ UNCHANGED released
     ELSE released' = released \cup Step(k, p).exposes /\ UNCHANGED net
  /\ UNCHANGED <<k, disk, chain>>
HandoffAgain(t) ==
  /\ Alive /\ t \in k.resends \ net /\ ~ResendRefused(t) /\ NoFault
  /\ net' = net \cup {t}
  /\ UNCHANGED <<k, disk, released, chain>>

\* the answer to a broadcast: what it says of the candidate, and the slot
\* mutant: an answer that never came is taken for a refusal
SentOrRefused(p, sent) ==
  LET q == k.plans[p]
      s == [k EXCEPT !.slot = Taken(p), !.plans[p].phase = "include"]
  IN IF ~HasPending(p) \/ k.nonces[q.nonce].candidates[q.pending].sent # "unsent" THEN s
     ELSE SetSent(s, q.nonce, q.pending, IF sent = "unknown" THEN "rejected" ELSE sent)
Sent(p, sent) ==
  LET q == k.plans[p]
      s == [k EXCEPT !.slot = Taken(p), !.plans[p].phase = "include"]
  IN IF ~HasPending(p) \/ k.nonces[q.nonce].candidates[q.pending].sent # "unsent" THEN s
     ELSE [SetSent(s, q.nonce, q.pending, sent) EXCEPT
             !.nonces[q.nonce].unknownSince =
                IF sent = "unknown" /\ @ = Undefined THEN k.head ELSE @]
Broadcasted(p) ==
  /\ Alive /\ Exposing(p) /\ Step(k, p).kind = "tx" /\ TxOf(p) \in net
  /\ \E answer \in {"accepted", "unknown", "rejected"} :
       /\ IF answer = "accepted" THEN NoFault ELSE Fault("answer")
       /\ net' = IF answer = "rejected" THEN net \ {TxOf(p)} ELSE net
       /\ k' = Reduce(Sent(p, answer))
  /\ \A n \in DOMAIN chain.mined : net' # net => chain.mined[n].tx # TxOf(p)
  /\ UNCHANGED <<disk, released, chain>>
WithheldAtHandoff(p) ==
  /\ Alive /\ Exposing(p) /\ Step(k, p).kind = "tx" /\ TxOf(p) \notin net
  /\ IF HandoffRefused(p) THEN NoFault ELSE Fault("late")
  /\ Handle(FailPlans(HandBackPending(Sent(p, "withheld"), {p}), {p}))

ResendAnswered(t) ==
  LET s == [k EXCEPT !.resends = @ \ {t}]
      listed == /\ t.place \in DOMAIN k.nonces[t.nonce].candidates
                /\ k.nonces[t.nonce].candidates[t.place].sent = "unknown"
  IN /\ Alive /\ t \in k.resends /\ NoFault
     /\ \E accepted \in BOOLEAN :
          /\ accepted => listed /\ t \in net
          /\ Handle(IF accepted THEN SetSent(s, t.nonce, t.place, "accepted") ELSE s)
Released(p) ==
  LET q == k.plans[p]
      after == IF q.lastInclusion > k.head THEN q.lastInclusion ELSE k.head + 1
  IN /\ Alive /\ Exposing(p) /\ Step(k, p).kind = "release" /\ NoFault
     /\ Handle(Advance([k EXCEPT !.slot = Taken(p),
                                 !.plans[p] = [q EXCEPT !.lastInclusion = after, !.phase = "ready",
                                                        !.cursor = q.cursor + 1]], {p}))
Seen(t) ==
  /\ Alive /\ t \in net
  /\ t.place \in DOMAIN k.nonces[t.nonce].candidates
  /\ k.nonces[t.nonce].candidates[t.place].sent = "unknown"
  /\ k.nonces[t.nonce].candidates[t.place].plan = t.plan /\ NoFault
  /\ Handle(SetSent(k, t.nonce, t.place, "accepted"))

-----------------------------------------------------------------------------
(* The chain, and what the chain adapter reads of it.                      *)

OnHead(s, number) ==
  [s EXCEPT
     !.head = number,
     !.finalized = IF number - FinalityLag > @ THEN number - FinalityLag ELSE @,
     !.nonces = [n \in Nonces |->
        LET r == s.nonces[n]
        IN IF ~r.open THEN r
           ELSE [r EXCEPT !.lastActionHead = IF @ = 0 THEN number ELSE @,
                          !.unknownSince = IF HasUnknown(r) /\ @ = Undefined THEN number ELSE @]]]

\* the chain's next block: empty, or with the transaction of the next nonce
Blocks(head, mined) ==
  LET next == Len(mined)
  IN {[block |-> head, tx |-> t, outcome |-> o] :
        t \in {t \in net : t.nonce = next} \cup (IF next \in Nonces THEN {Foreign} ELSE {}),
        o \in {"executed", "unconfirmed", "reverted"}}
Ordinary(m) == m.tx # Foreign /\ m.outcome = "executed"

NewBlock ==
  LET height == chain.head + 1
  IN /\ chain.head < MaxHead
     /\ \/ NoFault /\ chain' = [chain EXCEPT !.head = height]
        \/ \E m \in Blocks(height, chain.mined) :
             /\ IF Ordinary(m) THEN NoFault
                ELSE Fault(IF m.tx = Foreign THEN "foreign" ELSE "outcome")
             /\ chain' = [head |-> height, mined |-> Append(chain.mined, m)]
     /\ k' = IF Alive /\ k.head > 0 THEN Reduce(OnHead(k, height)) ELSE k
     /\ UNCHANGED <<disk, net, released>>

\* the first poll of a process
StartHead == /\ Alive /\ k.head = 0 /\ NoFault
             /\ Handle(OnHead(k, chain.head))

\* reorg
ForkedEntry(e, fork) ==
  LET seen == IF e.observed > fork THEN [e EXCEPT !.observed = 0, !.neutralized = FALSE] ELSE e
  IN IF e.liveAt <= fork THEN seen
     ELSE [seen EXCEPT !.state = IF @ = "live" THEN "exposed" ELSE @,
                       !.prior = IF e.state = "revoking" THEN "exposed" ELSE @,
                       !.liveAt = 0]
Forked(s, fork) ==
  [s EXCEPT
     !.plans = [p \in PlanIds |->
        IF s.plans[p].sim > fork THEN [s.plans[p] EXCEPT !.sim = Orphaned] ELSE s.plans[p]],
     !.nonces = [n \in Nonces |->
        IF s.nonces[n].resolution.block > fork
        THEN [s.nonces[n] EXCEPT !.resolution = Unresolved] ELSE s.nonces[n]],
     !.entries = [o \in Offers |-> ForkedEntry(s.entries[o], fork)]]
RolledBack(fork) ==
  Forked(Value(IF fork < k.finalized THEN EnterRecovering(k) ELSE k), fork)

\* the tip is replaced, and its transaction returns to the network
UpTo(mined, fork) ==
  IF mined # <<>> /\ mined[Len(mined)].block > fork
  THEN SubSeq(mined, 1, Len(mined) - 1) ELSE mined
ReplaceTip ==
  LET fork == chain.head - 1
  IN /\ fork > 0 /\ fork >= chain.head - FinalityLag /\ Fault("reorg")
     /\ chain' = [chain EXCEPT !.mined = UpTo(@, fork)]
     /\ k' = IF Alive /\ k.head > 0
             THEN Reduce(OnHead(Reduce(RolledBack(fork)), chain.head)) ELSE k
     /\ UNCHANGED <<disk, net, released>>

\* which candidate of the record consumed the nonce; 0 when none did
Winner(n) ==
  LET t == chain.mined[n + 1].tx
      cs == k.nonces[n].candidates
  IN IF t # Foreign /\ t.place \in DOMAIN cs /\ cs[t.place].plan = t.plan /\ cs[t.place].step = t.step
     THEN t.place ELSE 0
Unanswered ==
  {n \in Nonces : /\ Alive /\ k.head > 0
                  /\ k.nonces[n].open /\ ~Resolved(k.nonces[n]) /\ n < Len(chain.mined)}

\* receipt, and nonceTx when it finds a recorded hash; then reinclude
Receipt(n) ==
  LET m == chain.mined[n + 1]
      p == k.nonces[n].candidates[Winner(n)].plan
      step == k.nonces[n].candidates[Winner(n)].step
      r == [k EXCEPT !.nonces[n].resolution =
              [block |-> m.block, winner |-> Winner(n), outcome |-> m.outcome]]
      moved == ~Recovery(p) /\ k.plans[p].status # "none" /\ step < k.plans[p].cursor
               /\ m.block > k.plans[p].lastInclusion
  IN /\ n \in Unanswered /\ Winner(n) # 0 /\ NoFault
     /\ Handle(IF moved THEN [r EXCEPT !.plans[p].lastInclusion = m.block] ELSE r)

\* nonceTx, for a hash the kernel has no record of
NonceTx(n) ==
  /\ n \in Unanswered /\ Winner(n) = 0 /\ n < k.chainNonce /\ NoFault
  /\ Handle(EnterRecovering(
       [k EXCEPT !.nonces[n].resolution = [block |-> chain.mined[n + 1].block, winner |-> 0,
                                           outcome |-> "foreign"],
                 !.nonces[n].foreign = TRUE]))

\* the account's next nonce counting the transactions the network holds
PendingNonce ==
  LET held(n) == n < Len(chain.mined) \/ \E t \in net : t.nonce = n
  IN Cardinality({m \in Nonces : \A n \in 0 .. m : held(n)})

ForeignRecord(head) == [NoRecord EXCEPT !.open = TRUE, !.foreign = TRUE,
                                        !.lastActionHead = head, !.unknownSince = head]
NonceRead(latest, pending) ==
  LET through == IF pending > latest THEN pending ELSE latest
      s == [k EXCEPT !.chainNonce = latest,
                     !.nonceChecked = @ \/ k.lifecycle = "starting"]
  IN CASE k.nextNonce = Undefined ->
            IF pending # latest THEN Stop(s, "refused") ELSE [s EXCEPT !.nextNonce = latest]
       [] k.nextNonce # Undefined /\ through > k.nextNonce ->
            IF k.lifecycle = "starting" THEN Stop(s, "refused")
            ELSE EnterRecovering(
                   [s EXCEPT !.nextNonce = through,
                             !.nonces = [n \in Nonces |->
                                IF n >= k.nextNonce /\ n < through THEN ForeignRecord(k.head)
                                ELSE s.nonces[n]]])
       [] OTHER -> s
NonceAt ==
  /\ Alive /\ k.head > 0 /\ NoFault
  /\ \E pending \in {Len(chain.mined), PendingNonce} : Handle(NonceRead(Len(chain.mined), pending))

\* a recorded neutralizer of o has taken effect on the chain
NeutralizedBy(m, o) ==
  m.tx # Foreign /\ m.outcome = "executed" /\ o \in StepsOf(m.tx.plan)[m.tx.step].retires
CommitmentObserved(o) ==
  /\ Alive /\ k.head > 0 /\ k.entries[o].state \in Held /\ NoFault
  /\ Handle([k EXCEPT
       !.entries[o].observed = k.head,
       !.entries[o].neutralized = \E n \in DOMAIN chain.mined : NeutralizedBy(chain.mined[n], o)])

-----------------------------------------------------------------------------
(* The process ends: each write not answered may have landed or not.       *)

Crash ==
  /\ k.lifecycle # "idle"
  /\ IF k.lifecycle = "stopped" THEN NoFault ELSE Fault("crash")
  /\ k' = initialState
  /\ disk' \in {disk} \cup {k.writes[w] : w \in DOMAIN k.writes}
  /\ UNCHANGED <<net, released, chain>>

Bot == \E i \in Intents : Submit(i) \/ AdvanceStage(i)
Clock == Overdue \/ (\E i \in Intents : Observed(i) \/ Lapse(i))
                 \/ (\E o \in Offers : GoStale(o) \/ Affirm(o))
Effects ==
  \/ FlushAnswered \/ FlushRejected
  \/ \E p \in InPhase(k, "simulate") : Simulated(p)
  \/ \E p \in InPhase(k, "sign") : Signed(p)
  \/ \E p \in InPhase(k, "sign") : SignFailed(p)
  \/ \E p \in InPhase(k, "expose") : Handoff(p)
  \/ \E p \in InPhase(k, "expose") : Broadcasted(p)
  \/ \E p \in InPhase(k, "expose") : WithheldAtHandoff(p)
  \/ \E p \in InPhase(k, "expose") : Released(p)
  \/ \E t \in k.resends : HandoffAgain(t)
  \/ \E t \in k.resends : ResendAnswered(t)
  \/ \E t \in net : Seen(t)
Blockchain ==
  \/ NewBlock \/ ReplaceTip \/ StartHead \/ NonceAt
  \/ \E n \in Unanswered : Receipt(n)
  \/ \E n \in Unanswered : NonceTx(n)
  \/ \E o \in Offers : CommitmentObserved(o)
Next == Start \/ Bot \/ Clock \/ StopOrHalt \/ Effects \/ Blockchain \/ Crash
Spec == Init /\ [][Next]_vars

\* The executor answers every command: each has a timeout, and the store's queue moves on.
\* Weak fairness, with what enables the action written out.
Handing(p) == Alive /\ Exposing(p) /\ ~HandoffRefused(p) /\ ~Dispatched(p)
Asked(p) == Alive /\ (p \in InPhase(k, "sign") \/ (Exposing(p) /\ (HandoffRefused(p) \/ Dispatched(p))))
Answers(p) == Signed(p) \/ Broadcasted(p) \/ WithheldAtHandoff(p) \/ Released(p)
Writing == Alive /\ k.writes # <<>>
LiveSpec ==
  /\ Spec
  /\ []<>~Writing \/ []<><<FlushAnswered>>_vars
  /\ \A p \in PlanIds : /\ []<>~Handing(p) \/ []<><<Handoff(p)>>_vars
                        /\ []<>~Asked(p) \/ []<><<Answers(p)>>_vars

-----------------------------------------------------------------------------
(* Properties.                                                             *)

\* The reducer's state, the ledger file and what the environment holds are of their types, so no
\* handler reads a candidate, a write or a step that is not there.
TypeOK ==
  /\ k \in KernelState
  /\ disk \in Ledger
  /\ net \subseteq Tx
  /\ released \subseteq Offers
  /\ chain \in [head : Nat, mined : Seq(Mined)]
  /\ faults \in Nat

\* ledger l records that t may have been sent
Lists(l, t) ==
  LET cs == l.nonces[t.nonce].candidates
  IN t.place \in DOMAIN cs /\ cs[t.place].plan = t.plan /\ cs[t.place].step = t.step

\* Nothing is on the network that a crash now would forget: the ledger file lists every
\* transaction handed off, until its nonce is consumed at finality.  commit records, flushed
\* dispatches, and a ledger write may fail, or its answer come late, at any point between.
SentIsDurable == \A t \in net : Final(t.nonce) \/ Lists(disk, t)

\* A submission's step is never executed twice, whatever is resubmitted, resent, crashed or
\* reorged: submit refuses an id the ledger knows, and a nonce is given to one step only.
NoDoubleExecution ==
  \A i, j \in DOMAIN chain.mined :
     LET s == chain.mined[i].tx
         t == chain.mined[j].tx
     IN i # j /\ s # Foreign /\ ~Recovery(s.plan) => <<s.plan, s.step>> # <<t.plan, t.step>>

\* o can still be consumed, now or after a reorg above finality
FinallyNeutralized(o) ==
  \E n \in Nonces : Final(n) /\ NeutralizedBy(chain.mined[n + 1], o)
Carries(t, o) ==
  LET s == StepsOf(t.plan)[t.step]
  IN o \in (IF Exposure[o] = "broadcast" THEN s.creates \cup s.exposes ELSE s.creates)
MayStillCreate(t) ==
  \/ ~Final(t.nonce)
  \/ chain.mined[t.nonce + 1].tx = t /\ chain.mined[t.nonce + 1].outcome # "reverted"
Open(o) ==
  /\ ~FinallyNeutralized(o)
  /\ chain.head - FinalityLag <= Expiry[o]
  /\ \/ Exposure[o] = "broadcast" /\ o \in released
     \/ \E t \in net : Carries(t, o) /\ (Exposure[o] = "broadcast" \/ MayStillCreate(t))

\* An offer someone could still consume is held, in the ledger file and in every running kernel:
\* dropUnexposed never drops it, and settleNonces and settleEntries never retire it on evidence
\* that a reorg, a late inclusion or a restart can undo.
OpenOfferIsHeld ==
  \A o \in Offers : Open(o) => /\ disk.entries[o].state \in Held
                               /\ k.lifecycle # "idle" => k.entries[o].state \in Held

\* A clean stop leaves nothing that can execute or be consumed: checkStopped sees every offer,
\* nonce, plan in flight and unanswered write that could still matter.
CleanStopIsQuiet ==
  k.outcome = "clean" => /\ \A o \in Offers : ~Open(o)
                         /\ \A t \in net : Final(t.nonce)

\* A submission that settleCompensation reports compensated has no transaction left to land and
\* no offer left to consume, though its plan failed at any point of its way.
CompensatedIsOver ==
  \A i \in Intents : k.submissions[i] = "compensated" =>
     /\ \A t \in net : t.plan = StepPlan(i) => Final(t.nonce)
     /\ \A o \in Creates(StepPlan(i)) : ~Open(o)

\* Bytes the kernel recorded as rejected or withheld are not on the network, so recover may fill
\* their nonce at once and start loads them as they are: no answer is taken for a refusal.
KeptHomeStaysHome ==
  \A n \in Nonces : \A c \in DOMAIN k.nonces[n].candidates :
     KeptHome(k.nonces[n].candidates[c]) => TxAt(n, c, k.nonces[n].candidates[c]) \notin net

\* n is below l's cursor, and neither in an open record nor consumed for good
Hole(l, n) == n < l.nextNonce /\ ~l.nonces[n].open /\ ~Final(n)
\* where the running kernel's records come from: a process starts from the file
Known == IF k.lifecycle = "idle" THEN disk ELSE k
\* Once the account's nonce has been read, no step leaves a nonce without a record before its
\* consumption is final, in the file or in a kernel, so recover can fill any gap: settleNonces
\* deletes no record a reorg can reopen, and a commit, or a nonce others took, opens one.
NoNonceHole ==
  [][\A n \in Nonces :
       /\ Hole(disk, n)' => Hole(disk, n) \/ disk.nextNonce = Undefined
       /\ Alive' /\ Hole(k, n)' => Hole(Known, n) \/ Known.nextNonce = Undefined]_vars

\* A plan past its commit waits for a write flushIfChanged did issue, and the slot is held by a
\* plan that signs, commits or exposes: nothing waits for an answer that will not come.
NoneWaitsForNothing ==
  Alive => /\ \A p \in InPhase(k, "commit") : k.plans[p].flush \in 1 .. Len(k.writes)
           /\ k.slot \in PlanIds =>
                k.slot \in UNION {InPhase(k, ph) : ph \in {"sign", "commit", "expose"}}
           /\ k.slot = Committing => InPhase(k, "commit") # {}

\* Whatever fails on the way, every path of signed, flushed, flushFailed, broadcasted, released
\* and effectFailed gives the slot back in the end, so no plan blocks the account for good.
SlotIsReleased ==
  \A p \in PlanIds \cup {Committing} : k.slot = p ~> k.slot # p \/ k.lifecycle = "stopped"

\* What the ledger file says of a submission only moves forward: never from over back to exposed,
\* never forgotten, whatever write is lost or fails and whichever process wrote it.
Moves(s, t) ==
  \/ s = t
  \/ s = "none"
  \/ s = "exposed" /\ t \in {"settled", "compensated"}
SubmissionsAdvance ==
  [][\A i \in Intents : Moves(disk.submissions[i], disk'.submissions[i])]_vars

\* framework/kernel/SPEC.md: one exposure pipeline per account, the slot, held from the signature
\* of a transaction to the answer to its broadcast.  flushFailed frees it for a stale write.
OnePipeline ==
  Cardinality({p \in Executing(k) :
     /\ k.plans[p].phase \in {"sign", "commit", "expose"}
     /\ Step(k, p).kind = "tx"}) <= 1

\* framework/kernel/SPEC.md: a foreign record means a transaction the kernel never signed.  commit
\* recreates the record of a nonce consumed while its replacement was being signed.
ForeignIsForeign ==
  \A n \in Nonces : /\ k.nonces[n].foreign /\ Resolved(k.nonces[n])
                    /\ n < Len(chain.mined)
                    => chain.mined[n + 1].tx = Foreign
=============================================================================
