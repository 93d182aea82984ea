---------------------- MODULE TransactionKernelSafety ----------------------
(***************************************************************************)
(* The safety of TransactionKernel: what was handed to the network is on   *)
(* file, no step executes twice, submissions move forward, no nonce loses  *)
(* its record, no offer that can be consumed is let go, and nothing is     *)
(* waited for in vain, for every value of the constants.                   *)
(*                                                                         *)
(* SInv is the inductive invariant.  While no process runs, Filed says     *)
(* what the file, and each write that may have become the file, knows of   *)
(* the network; while one runs, Safe adds what the kernel knows.  OfferInv *)
(* is inductive beside it, and says what all of them know of the offers.   *)
(* Keeps is what every step keeps: both, and the two action properties.    *)
(* There is a lemma per handler, each from what its operators keep and     *)
(* from ReduceOnward and ReducedOffers, the lemmas about what every event  *)
(* ends with.                                                              *)
(***************************************************************************)
EXTENDS TransactionKernelSteps

-----------------------------------------------------------------------------
(* The inductive invariant, and what a step keeps of it.                   *)

\* what was mined at a nonce was on the network, with that nonce
MinedWasSent ==
  \A j \in DOMAIN chain.mined :
     chain.mined[j].tx # Foreign => chain.mined[j].tx \in net /\ chain.mined[j].tx.nonce = j - 1

SInv ==
  /\ IInv
  /\ MinedWasSent
  /\ Filed(k, disk, net, chain)
  /\ Alive => Safe(k, disk, net, chain)

\* every offer that can still be consumed is held by the file, by what may become the file, and
\* by the kernel; what a running kernel waits for will come, and it is at the head of the chain
OfferInv ==
  /\ Stored(k, disk, net, released, chain)
  /\ k.lifecycle # "idle" => Covers(chain, k, released, Outside(k, net))
  /\ Alive => Offered(k, disk, net, released, chain) /\ Issued(k) /\ k.head \in {0, chain.head}
  /\ Ended(k, net, chain)
  /\ \A j \in DOMAIN chain.mined : chain.mined[j].block <= chain.head

Keeps ==
  /\ SInv'
  /\ \A n \in Nonces : FinalOn(chain, n) => FinalOn(chain', n)
  /\ Advances(chain', disk, disk')
  /\ Alive' => Advances(chain', Known, k')
  /\ OfferInv => OfferInv'

LEMMA InvFull ==
  ASSUME SInv, Alive
  PROVE /\ Full(k, disk, net, chain) /\ Ready(k) /\ Typed(k) /\ k \in KernelState
        /\ disk \in Ledger /\ net \in SUBSET Tx /\ chain.head \in Nat
        /\ chain \in [head : Nat, mined : Seq(Mined)] /\ Known = k
<1>1. IInv /\ Filed(k, disk, net, chain) /\ Safe(k, disk, net, chain)
  BY DEF SInv
<1>2. Known = k
  BY DEF Known, Alive
<1> QED
  BY <1>1, <1>2 DEF Full, Ready, Safe, IInv, TypeOK, Typed

LEMMA InvAttended ==
  ASSUME SInv, OfferInv, Alive
  PROVE /\ Attended(k, disk, net, released, chain) /\ Issued(k)
        /\ MinedSent(chain, net) /\ chain \in Chains
<1>1. Full(k, disk, net, chain) /\ chain \in Chains
  BY InvFull DEF Chains
<1>2. k.outcome # "clean"
  BY DEF OfferInv, Ended, Alive
<1>3. MinedSent(chain, net)
  BY DEF SInv, MinedWasSent, MinedSent
<1> QED
  BY <1>1, <1>2, <1>3 DEF OfferInv, Attended

\* what an event ends with keeps the offers held
LEMMA ReducedOffers ==
  ASSUME IInv', MinedWasSent', NEW s, k' = Reduce(s),
         Attended(s, disk', net', released', chain'),
         \A j \in DOMAIN chain'.mined : chain'.mined[j].block <= chain'.head
  PROVE OfferInv'
<1>1. disk' \in Ledger /\ net' \in SUBSET Tx /\ chain' \in Chains
  BY DEF IInv, TypeOK, Chains
<1>2. MinedSent(chain', net')
  BY DEF MinedWasSent, MinedSent
<1> DEFINE r == Reduce(s)
<1>3. /\ Offered(r, disk', net', released', chain') /\ Ended(r, net', chain')
      /\ r.head \in {0, chain'.head}
      /\ r.lifecycle \notin {"idle", "stopped"} => Issued(r)
  BY <1>1, <1>2, ReduceOffered
<1> HIDE DEF r
<1>4. k' = r
  BY DEF r
<1>5. /\ Offered(k', disk', net', released', chain') /\ Ended(k', net', chain')
      /\ k'.head \in {0, chain'.head}
      /\ k'.lifecycle \notin {"idle", "stopped"} => Issued(k')
  BY <1>3, <1>4
<1>6. Stored(k', disk', net', released', chain') /\ Covers(chain', k', released', Outside(k', net'))
  BY <1>5 DEF Offered
<1> QED
  BY <1>5, <1>6 DEF OfferInv, Alive

\* an event that touches nothing but the kernel
LEMMA HandledKeeps ==
  ASSUME SInv, IInv', Alive, NEW s, Onward(k, s, disk, net, chain), Handle(s),
         OfferInv => Attended(s, disk, net, released, chain)
  PROVE Keeps
<1>1. /\ Full(k, disk, net, chain) /\ disk \in Ledger /\ net \in SUBSET Tx
      /\ chain.head \in Nat /\ Known = k
  BY InvFull
<1>2. Onward(s, Reduce(s), disk, net, chain)
  BY <1>1, ReduceOnward DEF Onward
<1>3. Onward(k, Reduce(s), disk, net, chain)
  BY <1>1, <1>2, OnwardTrans
<1>4. k' = Reduce(s) /\ disk' = disk /\ net' = net /\ chain' = chain /\ released' = released
  BY DEF Handle
<1>5. Filed(k', disk', net', chain') /\ Safe(k', disk', net', chain')
  BY <1>3, <1>4 DEF Onward, Full
<1>6. MinedWasSent'
  BY <1>4 DEF MinedWasSent, SInv
<1>7. SInv'
  BY <1>5, <1>6 DEF SInv
<1>8. Advances(chain', disk, disk') /\ Advances(chain', Known, k')
  BY <1>1, <1>3, <1>4, AdvancesItself DEF Onward, Ledger
<1>9. OfferInv => OfferInv'
  <2> SUFFICES ASSUME OfferInv PROVE OfferInv'
    OBVIOUS
  <2>1. \A j \in DOMAIN chain'.mined : chain'.mined[j].block <= chain'.head
    BY <1>4 DEF OfferInv
  <2>2. Attended(s, disk', net', released', chain')
    BY <1>4
  <2> QED
    BY <1>4, <1>6, <2>1, <2>2, ReducedOffers
<1> QED
  BY <1>4, <1>7, <1>8, <1>9 DEF Keeps

LEMMA QuietKeeps ==
  ASSUME SInv, IInv', Alive, NEW s, Quiet(k, s), Handle(s), OfferInv => Mild(k, s)
  PROVE Keeps
<1>1. Onward(k, s, disk, net, chain)
  BY InvFull, QuietOnward
<1>2. ASSUME OfferInv PROVE Attended(s, disk, net, released, chain)
  BY <1>2, InvFull, InvAttended, AttendedGentle DEF Gentle
<1> QED
  BY <1>1, <1>2, HandledKeeps

LEMMA GentleKeeps ==
  ASSUME SInv, IInv', Alive, NEW s, Gentle(k, s), Handle(s)
  PROVE Keeps
BY QuietKeeps DEF Gentle

-----------------------------------------------------------------------------
(* Handlers that leave alone what is listed.                               *)

\* only what no property of the ledger is about changes
LEMMA SameFieldsQuiet ==
  ASSUME NEW s, NEW r, Ready(s), Typed(r), r.plans = s.plans, r.submissions = s.submissions,
         r.nonces = s.nonces, r.writes = s.writes, r.nextNonce = s.nextNonce,
         r.finalized = s.finalized, r.resends \subseteq s.resends, r.head = s.head
  PROVE Quiet(s, r)
BY SameQuiet, SameRecordItself DEF SameLists

LEMMA EntriesQuiet ==
  ASSUME NEW s, Ready(s), NEW entries \in [Offers -> Entry]
  PROVE Quiet(s, [s EXCEPT !.entries = entries])
<1> DEFINE r == [s EXCEPT !.entries = entries]
<1>1. Typed(r)
  BY EntriesTyped DEF Ready
<1>2. /\ r.plans = s.plans /\ r.submissions = s.submissions /\ r.nonces = s.nonces
      /\ r.writes = s.writes /\ r.nextNonce = s.nextNonce /\ r.finalized = s.finalized
      /\ r.resends = s.resends /\ r.head = s.head
  BY DEF Ready, Typed, KernelState
<1> HIDE DEF r
<1> QED
  BY <1>1, <1>2, SameFieldsQuiet DEF r

\* entries change, and none that is held is let go
LEMMA EntriesGentle ==
  ASSUME NEW s, Ready(s), NEW entries \in [Offers -> Entry],
         \A o \in Offers : KeptEntry(s.entries[o], entries[o])
  PROVE Gentle(s, [s EXCEPT !.entries = entries])
<1> DEFINE r == [s EXCEPT !.entries = entries]
<1>1. r.plans = s.plans /\ r.slot = s.slot /\ r.outcome = s.outcome /\ r.entries = entries
  BY DEF Ready, Typed, KernelState
<1>2. Quiet(s, r)
  BY EntriesQuiet
<1> HIDE DEF r
<1>3. Mild(s, r)
  BY <1>1, EntriesMild
<1> QED
  BY <1>2, <1>3 DEF Gentle, r

LEMMA SlotQuiet ==
  ASSUME NEW s, Ready(s), NEW slot \in PlanIds \cup {Free, Committing}
  PROVE Quiet(s, [s EXCEPT !.slot = slot]) /\ [s EXCEPT !.slot = slot].plans = s.plans
<1> DEFINE r == [s EXCEPT !.slot = slot]
<1>1. Typed(r)
  BY SlotTyped DEF Ready
<1>2. /\ r.plans = s.plans /\ r.submissions = s.submissions /\ r.nonces = s.nonces
      /\ r.writes = s.writes /\ r.nextNonce = s.nextNonce /\ r.finalized = s.finalized
      /\ r.resends = s.resends /\ r.head = s.head
  BY DEF Ready, Typed, KernelState
<1> HIDE DEF r
<1> QED
  BY <1>1, <1>2, SameFieldsQuiet DEF r

\* one plan changes, quietly
LEMMA OnePlanQuiet ==
  ASSUME NEW s, Ready(s), NEW p \in PlanIds, NEW q \in Plan, Placed(p, q),
         QuietPlan(p, s.plans[p], q), q.status = s.plans[p].status,
         q.exposed = s.plans[p].exposed
  PROVE Quiet(s, [s EXCEPT !.plans[p] = q])
<1> DEFINE r == [s EXCEPT !.plans[p] = q]
<1>1. Typed(r)
  BY WithPlanTyped DEF Ready
<1>2. /\ r.plans = [s.plans EXCEPT ![p] = q] /\ r.submissions = s.submissions
      /\ r.nonces = s.nonces /\ r.writes = s.writes /\ r.nextNonce = s.nextNonce
      /\ r.finalized = s.finalized /\ r.resends = s.resends /\ r.head = s.head
      /\ s.plans \in [PlanIds -> Plan]
  BY DEF Ready, Typed, KernelState
<1> HIDE DEF r
<1>3. SameStatus(p, s.plans[p], q)
  BY StatusKept
<1>4. \A x \in PlanIds : /\ QuietPlan(x, s.plans[x], r.plans[x])
                         /\ SameStatus(x, s.plans[x], r.plans[x])
  <2> SUFFICES ASSUME NEW x \in PlanIds
               PROVE /\ QuietPlan(x, s.plans[x], r.plans[x])
                     /\ SameStatus(x, s.plans[x], r.plans[x])
    OBVIOUS
  <2>1. CASE x = p
    BY <1>2, <1>3, <2>1
  <2>2. CASE x # p
    <3>1. r.plans[x] = s.plans[x] /\ s.plans[x] \in Plan
      BY <1>2, <2>2
    <3> QED
      BY <3>1, QuietPlanItself, SameStatusItself
  <2> QED
    BY <2>1, <2>2
<1>5. SameLists(s, r)
  BY <1>2, SameRecordItself DEF SameLists
<1> QED
  BY <1>1, <1>2, <1>4, <1>5, PlansQuiet DEF r

LEMMA DoubtQuiet ==
  ASSUME NEW s, Ready(s), NEW p \in PlanIds, NEW d \in {"none", "lapsed", "facts"}
  PROVE Quiet(s, [s EXCEPT !.plans[p].doubt = d])
<1> DEFINE q == [s.plans[p] EXCEPT !.doubt = d]
<1>1. s.plans[p] \in Plan /\ Placed(p, s.plans[p])
  BY DEF Ready, Typed, KernelState
<1>2. /\ q \in Plan /\ q.phase = s.plans[p].phase /\ q.cursor = s.plans[p].cursor
      /\ q.nonce = s.plans[p].nonce /\ q.status = s.plans[p].status
      /\ q.exposed = s.plans[p].exposed /\ q.pending = s.plans[p].pending
      /\ q.flush = s.plans[p].flush
  BY <1>1 DEF Plan
<1>3. [s EXCEPT !.plans[p].doubt = d] = [s EXCEPT !.plans[p] = q]
  BY DEF Ready, Typed, KernelState
<1> HIDE DEF q
<1>4. Placed(p, q)
  BY <1>1, <1>2 DEF Placed
<1>5. QuietPlan(p, s.plans[p], q)
  BY <1>2 DEF QuietPlan, SamePending, Attached
<1> QED
  BY <1>2, <1>3, <1>4, <1>5, OnePlanQuiet

\* the slot is given back, if it is p's
LEMMA TakenGentle ==
  ASSUME Ready(k), NEW p
  PROVE LET r == [k EXCEPT !.slot = Taken(p)] IN Gentle(k, r) /\ r.plans = k.plans
<1>1. k = [k EXCEPT !.slot = k.slot]
  BY DEF Ready, Typed, KernelState
<1>2. Taken(p) \in {Free, k.slot}
  BY DEF Taken
<1> QED
  BY <1>1, <1>2, FreeGentle, GentleItself

\* one plan changes, and neither its transaction nor its turn is at stake
LEMMA OnePlanGentle ==
  ASSUME NEW s, Ready(s), NEW p \in PlanIds, NEW q \in Plan, Placed(p, q),
         QuietPlan(p, s.plans[p], q), q.status = s.plans[p].status,
         q.exposed = s.plans[p].exposed, KeptPlan(p, s.plans[p], q),
         s.plans[p].phase = "sign" =>
           \/ s.slot # p
           \/ q.phase = "sign" /\ q.cursor = s.plans[p].cursor
  PROVE Gentle(s, [s EXCEPT !.plans[p] = q])
<1> DEFINE r == [s EXCEPT !.plans[p] = q]
<1>1. /\ r.plans = [s.plans EXCEPT ![p] = q] /\ r.slot = s.slot /\ r.outcome = s.outcome
      /\ r.entries = s.entries /\ s.plans \in [PlanIds -> Plan]
  BY DEF Ready, Typed, KernelState
<1>2. Quiet(s, r)
  BY OnePlanQuiet
<1> HIDE DEF r
<1>3. \A x \in PlanIds : KeptPlan(x, s.plans[x], r.plans[x])
  BY <1>1, KeptPlanItself
<1>4. KeptSlot(s, r)
  BY <1>1 DEF KeptSlot
<1>5. Mild(s, r)
  BY <1>1, <1>3, <1>4, KeptEntryItself DEF Mild
<1> QED
  BY <1>2, <1>5 DEF Gentle, r

LEMMA DoubtGentle ==
  ASSUME NEW s, Ready(s), NEW p \in PlanIds, NEW d \in {"none", "lapsed", "facts"}
  PROVE LET r == [s EXCEPT !.plans[p].doubt = d]
        IN Gentle(s, r) /\ r.plans[p].phase = s.plans[p].phase
<1> DEFINE q == [s.plans[p] EXCEPT !.doubt = d]
           r == [s EXCEPT !.plans[p].doubt = d]
<1>1. s.plans[p] \in Plan /\ s.plans \in [PlanIds -> Plan] /\ s \in KernelState
  BY DEF Ready, Typed, KernelState
<1>2. /\ q.status = s.plans[p].status /\ q.phase = s.plans[p].phase
      /\ q.cursor = s.plans[p].cursor /\ q.flush = s.plans[p].flush
      /\ q.target = s.plans[p].target
  BY <1>1 DEF Plan
<1>3. /\ r.plans = [s.plans EXCEPT ![p] = q] /\ r.slot = s.slot /\ r.outcome = s.outcome
      /\ r.entries = s.entries
  BY <1>1 DEF KernelState
<1>4. Quiet(s, r)
  BY DoubtQuiet
<1> HIDE DEF r, q
<1>5. KeptPlan(p, s.plans[p], q)
  BY <1>2 DEF KeptPlan, InFlightPlan, Fits
<1>6. \A x \in PlanIds : KeptPlan(x, s.plans[x], r.plans[x])
  BY <1>1, <1>3, <1>5, KeptPlanItself
<1>7. KeptSlot(s, r)
  BY <1>1, <1>2, <1>3 DEF KeptSlot
<1>8. Mild(s, r)
  BY <1>3, <1>6, <1>7, KeptEntryItself DEF Mild
<1>9. r.plans[p].phase = s.plans[p].phase
  BY <1>1, <1>2, <1>3
<1> QED
  BY <1>4, <1>8, <1>9 DEF Gentle, r

LEMMA ClockKeeps == ASSUME SInv, IInv', Clock PROVE Keeps
<1>1. ASSUME Overdue PROVE Keeps
  <2> DEFINE s == [k EXCEPT !.overdue = TRUE]
  <2>0. Alive /\ Handle(s)
    BY <1>1 DEF Overdue, Alive
  <2>1. Ready(k) /\ k \in KernelState
    BY <2>0, InvFull
  <2>2. /\ s \in KernelState /\ s.plans = k.plans /\ s.submissions = k.submissions
        /\ s.nonces = k.nonces /\ s.writes = k.writes /\ s.nextNonce = k.nextNonce
        /\ s.finalized = k.finalized /\ s.resends = k.resends /\ s.head = k.head
        /\ s.slot = k.slot /\ s.outcome = k.outcome /\ s.entries = k.entries
    BY <2>1 DEF KernelState
  <2> HIDE DEF s
  <2>3. Gentle(k, s)
    BY <2>1, <2>2, SamePlansTyped, SameFieldsQuiet, SameMild DEF Ready, Gentle
  <2> QED
    BY <2>0, <2>3, GentleKeeps
<1>2. ASSUME NEW i \in Intents, Observed(i) PROVE Keeps
  <2>1. StepPlan(i) \in PlanIds /\ Alive
    BY <1>2 DEF StepPlan, PlanIds, Observed
  <2>2. PICK d \in {"none", "facts"} : Handle([k EXCEPT !.plans[StepPlan(i)].doubt = d])
    <3> DEFINE d == IF k.plans[StepPlan(i)].doubt = "none" THEN "facts" ELSE "none"
    <3>1. Handle([k EXCEPT !.plans[StepPlan(i)].doubt = d])
      BY <1>2, <2>1 DEF Observed, SInv, IInv, Typed, KernelState
    <3> QED
      BY <3>1
  <2>3. Ready(k)
    BY <2>1, InvFull
  <2>4. Gentle(k, [k EXCEPT !.plans[StepPlan(i)].doubt = d])
    BY <2>1, <2>3, DoubtGentle
  <2> QED
    BY <2>1, <2>2, <2>4, GentleKeeps
<1>3. ASSUME NEW i \in Intents, Lapse(i) PROVE Keeps
  <2> DEFINE p == StepPlan(i)
             late == [k EXCEPT !.plans[p].doubt = "lapsed"]
  <2>1. Alive /\ Handle(IF k.plans[p].phase \in PreCommit THEN FailPlans(late, {p}) ELSE late)
    BY <1>3 DEF Lapse
  <2>2. p \in PlanIds /\ Ready(k)
    BY <2>1, InvFull DEF StepPlan, PlanIds
  <2> HIDE DEF p
  <2>3. Gentle(k, late) /\ {p} \in SUBSET PlanIds /\ late.plans[p].phase = k.plans[p].phase
    BY <2>2, DoubtGentle
  <2> HIDE DEF late
  <2>4. ASSUME k.plans[p].phase \in PreCommit PROVE Gentle(k, FailPlans(late, {p}))
    <3>1. Landed(late, {p})
      BY <2>3, <2>4 DEF Landed, InFlightPlan, PreCommit
    <3>2. Gentle(late, FailPlans(late, {p}))
      BY <2>3, <3>1, FailPlansGentle, GentleReady
    <3> QED
      BY <2>2, <2>3, <3>2, GentleTrans
  <2> QED
    BY <2>1, <2>3, <2>4, GentleKeeps
<1>4. ASSUME NEW o \in Offers, GoStale(o) \/ Affirm(o) PROVE Keeps
  <2>0. Alive
    BY <1>4 DEF GoStale, Affirm
  <2>1. Ready(k) /\ k \in KernelState
    BY <2>0, InvFull
  <2>2. ASSUME NEW b \in BOOLEAN PROVE Gentle(k, [k EXCEPT !.entries[o].stale = b])
    <3> DEFINE e == [k.entries[o] EXCEPT !.stale = b]
               entries == [k.entries EXCEPT ![o] = e]
    <3>1. k.entries \in [Offers -> Entry] /\ k.entries[o] \in Entry
      BY <2>1 DEF KernelState
    <3>2. e \in Entry /\ KeptEntry(k.entries[o], e)
      BY <3>1 DEF Entry, KeptEntry
    <3>3. [k EXCEPT !.entries[o].stale = b] = [k EXCEPT !.entries = entries]
      BY <2>1 DEF KernelState
    <3> HIDE DEF e
    <3>4. entries \in [Offers -> Entry] /\ \A x \in Offers : KeptEntry(k.entries[x], entries[x])
      BY <3>1, <3>2, KeptEntryItself
    <3> HIDE DEF entries
    <3> QED
      BY <2>1, <3>3, <3>4, EntriesGentle
  <2>3. \E b \in BOOLEAN : Handle([k EXCEPT !.entries[o].stale = b])
    BY <1>4 DEF GoStale, Affirm
  <2> QED
    BY <2>0, <2>2, <2>3, GentleKeeps
<1> QED
  BY <1>1, <1>2, <1>3, <1>4 DEF Clock

LEMMA StopOrHaltKeeps == ASSUME SInv, IInv', StopOrHalt PROVE Keeps
BY InvFull, EnterRecoveringGentle, GentleKeeps DEF StopOrHalt

LEMMA CommitmentObservedKeeps ==
  ASSUME SInv, IInv', NEW o \in Offers, CommitmentObserved(o)
  PROVE Keeps
<1> DEFINE over == \E n \in DOMAIN chain.mined : NeutralizedBy(chain.mined[n], o)
           e == [k.entries[o] EXCEPT !.observed = k.head, !.neutralized = over]
           entries == [k.entries EXCEPT ![o] = e]
           s == [k EXCEPT !.entries[o].observed = k.head, !.entries[o].neutralized = over]
<1>1. Alive /\ Handle(s) /\ k.head > 0
  BY DEF CommitmentObserved
<1>2. over \in BOOLEAN
  OBVIOUS
<1>8. ASSUME OfferInv, over
      PROVE \E n \in Nonces : /\ n < Len(chain.mined) /\ NeutralizedBy(chain.mined[n + 1], o)
                              /\ chain.mined[n + 1].block <= k.head
  <2>1. PICK j \in DOMAIN chain.mined : NeutralizedBy(chain.mined[j], o)
    BY <1>8
  <2>2. chain.mined[j].tx \in net /\ chain.mined[j].tx.nonce = j - 1
    BY <2>1 DEF NeutralizedBy, SInv, MinedWasSent
  <2>3. net \in SUBSET Tx /\ chain.mined \in Seq(Mined)
    BY <1>1, InvFull
  <2>4. j - 1 \in Nonces /\ j \in 1 .. Len(chain.mined)
    BY <2>2, <2>3 DEF Tx
  <2>5. chain.mined[j].block <= k.head
    BY <1>1, <1>8 DEF OfferInv
  <2> QED
    BY <2>1, <2>3, <2>4, <2>5
<1> HIDE DEF over
<1>3. k.entries \in [Offers -> Entry] /\ k.entries[o] \in Entry /\ k.head \in Nat
      /\ Ready(k) /\ k \in KernelState
  BY <1>1, InvFull DEF KernelState
<1>4. /\ e \in Entry /\ e.state = k.entries[o].state /\ e.creators = k.entries[o].creators
      /\ e.deadCreators = k.entries[o].deadCreators /\ e.neutralized = over /\ e.observed = k.head
  BY <1>2, <1>3 DEF Entry
<1>5. s = [k EXCEPT !.entries = entries]
  BY <1>3 DEF KernelState
<1> HIDE DEF e
<1>6. entries \in [Offers -> Entry]
  BY <1>3, <1>4
<1>7. Quiet(k, s)
  BY <1>3, <1>5, <1>6, EntriesQuiet
<1>9. /\ s.plans = k.plans /\ s.slot = k.slot /\ s.writes = k.writes /\ s.resends = k.resends
      /\ s.nonces = k.nonces /\ s.entries = entries /\ s.outcome = k.outcome /\ s.head = k.head
  BY <1>3, <1>5 DEF KernelState
<1> HIDE DEF s
<1>10. ASSUME OfferInv PROVE Attended(s, disk, net, released, chain)
  <2>1. Attended(k, disk, net, released, chain)
    BY <1>1, <1>10, InvAttended
  <2>2. Offered(k, disk, net, released, chain) /\ Typed(k)
    BY <2>1 DEF Attended, Full
  <2>3. StillHeld(k, s) /\ Fresh(s)
    BY <1>3, <1>4, <1>9, <2>2 DEF StillHeld, Fresh, Offered
  <2>4. \A n \in Nonces : SeenNonce(s, chain, n)
    BY <1>9, <2>2 DEF SeenNonce, Offered, Witnessed
  <2>5. ASSUME NEW x \in Offers PROVE SeenEntry(s, chain, x)
    <3>1. CASE x = o
      <4>1. s.entries[x] = e /\ s.head = k.head /\ s.head # 0
        BY <1>1, <1>3, <1>9, <3>1
      <4> QED
        BY <1>4, <1>8, <1>10, <3>1, <4>1 DEF SeenEntry
    <3>2. CASE x # o
      <4>1. s.entries[x] = k.entries[x] /\ s.head = k.head
        BY <1>3, <1>9, <3>2
      <4> QED
        BY <2>2, <4>1 DEF SeenEntry, Offered, Witnessed
    <3> QED
      BY <3>1, <3>2
  <2>6. \A n \in Nonces : SameTxs(k.nonces[n], s.nonces[n])
    BY <1>9 DEF SameTxs
  <2> HIDE DEF entries
  <2>7. Offered(s, disk, net, released, chain)
    BY <1>9, <2>2, <2>3, <2>4, <2>5, <2>6, EvidenceOffered DEF Witnessed
  <2>8. Full(s, disk, net, chain)
    BY <1>1, <1>7, InvFull, QuietOnward DEF Onward
  <2> QED
    BY <1>9, <2>1, <2>7, <2>8 DEF Attended
<1> HIDE DEF entries
<1>11. Onward(k, s, disk, net, chain)
  BY <1>1, <1>7, InvFull, QuietOnward
<1> QED
  BY <1>1, <1>10, <1>11, HandledKeeps

LEMMA SimulatedKeeps == ASSUME SInv, IInv', NEW p \in PlanIds, Simulated(p) PROVE Keeps
<1>0. /\ Alive /\ {p} \in SUBSET PlanIds /\ k.plans[p].phase = "simulate"
      /\ k.plans[p].status = "executing"
  BY DEF Simulated, InPhase, Executing
<1>1. Ready(k) /\ Typed(k) /\ k \in KernelState
  BY <1>0, InvFull
<1>2. CASE Handle(FailPlans(k, {p}))
  <2>1. Landed(k, {p})
    BY <1>0 DEF Landed, InFlightPlan
  <2> QED
    BY <1>0, <1>1, <1>2, <2>1, FailPlansGentle, GentleKeeps
<1>3. CASE Handle([k EXCEPT !.plans[p].sim = k.head, !.plans[p].phase = "await-slot"])
  <2> DEFINE q == [k.plans[p] EXCEPT !.sim = k.head, !.phase = "await-slot"]
             s == [k EXCEPT !.plans[p] = q]
  <2>1. k.plans[p] \in Plan /\ Placed(p, k.plans[p]) /\ k.head \in Nat
    BY <1>1 DEF Typed, KernelState
  <2>2. /\ q \in Plan /\ q.phase = "await-slot" /\ q.cursor = k.plans[p].cursor
        /\ q.nonce = k.plans[p].nonce /\ q.status = k.plans[p].status
        /\ q.exposed = k.plans[p].exposed /\ q.target = k.plans[p].target
    <3>1. ASSUME NEW h \in Int
          PROVE LET new == [k.plans[p] EXCEPT !.sim = h, !.phase = "await-slot"]
                IN /\ new \in Plan /\ new.phase = "await-slot"
                   /\ new.cursor = k.plans[p].cursor /\ new.nonce = k.plans[p].nonce
                   /\ new.status = k.plans[p].status /\ new.exposed = k.plans[p].exposed
                   /\ new.target = k.plans[p].target
      BY <2>1 DEF Plan, Phases
    <3>2. k.head \in Int
      BY <2>1
    <3> QED
      BY <3>1, <3>2
  <2>3. [k EXCEPT !.plans[p].sim = k.head, !.plans[p].phase = "await-slot"] = s
    BY <1>1 DEF KernelState
  <2> HIDE DEF q
  <2>4. Placed(p, q)
    BY <1>0, <2>1, <2>2 DEF Placed, Working, Numbered
  <2>5. QuietPlan(p, k.plans[p], q)
    BY <1>0, <2>1, <2>2 DEF QuietPlan, Attached
  <2>6. KeptPlan(p, k.plans[p], q)
    BY <1>0, <2>2 DEF KeptPlan, InFlightPlan, Fits
  <2>7. Gentle(k, s)
    BY <1>0, <1>1, <2>2, <2>4, <2>5, <2>6, OnePlanGentle
  <2> HIDE DEF s
  <2> QED
    BY <1>0, <1>3, <2>3, <2>7, GentleKeeps
<1> QED
  BY <1>2, <1>3 DEF Simulated

\* a plan passes the step it is at
PastStep(q, after) ==
  [q EXCEPT !.lastInclusion = after, !.phase = "ready", !.cursor = q.cursor + 1]
NextOf(s, p, after) == [s EXCEPT !.plans[p] = PastStep(s.plans[p], after)]

\* what passing a step does to the kernel
MovedOn(s, r, p) ==
  /\ Quiet(s, r) /\ Quiet(s, Advance(r, {p})) /\ Ready(r)
  /\ s.plans \in [PlanIds -> Plan] /\ r.plans = [s.plans EXCEPT ![p] = r.plans[p]]
  /\ r.plans[p].status = "executing" /\ r.plans[p].phase = "ready"
  /\ r.plans[p].target = s.plans[p].target
  /\ r.slot = s.slot /\ r.outcome = s.outcome /\ r.entries = s.entries

LEMMA NextStepQuiet ==
  ASSUME NEW s, NEW p \in PlanIds, NEW after \in Nat, Ready(s),
         s.plans[p].status = "executing"
  PROVE MovedOn(s, NextOf(s, p, after), p)
<1> DEFINE old == s.plans[p]
           cursor == old.cursor + 1
           q == PastStep(old, after)
           r == [s EXCEPT !.plans[p] = q]
<1>1. old \in Plan /\ s.plans \in [PlanIds -> Plan] /\ s \in KernelState
  BY DEF Ready, Typed, KernelState
<1>2. cursor \in Nat \ {0} /\ cursor > old.cursor
  BY <1>1 DEF Plan
<1>3. /\ q \in Plan /\ q.phase = "ready" /\ q.cursor = cursor /\ q.nonce = old.nonce
      /\ q.status = old.status /\ q.exposed = old.exposed /\ q.target = old.target
  <2>1. q = [old EXCEPT !.lastInclusion = after, !.phase = "ready", !.cursor = cursor]
    BY DEF PastStep
  <2> HIDE DEF cursor, old, q
  <2> QED
    BY <1>1, <1>2, <2>1, ZenonT(60) DEF Plan, Phases
<1>0. old.status = "executing"
  OBVIOUS
<1>10. r = NextOf(s, p, after)
  BY DEF NextOf
<1> HIDE DEF q
<1>4. Placed(p, q)
  BY <1>3 DEF Placed, Working, Numbered
<1>5. QuietPlan(p, s.plans[p], q)
  BY <1>2, <1>3 DEF QuietPlan, old
<1>6. Quiet(s, r)
  BY <1>3, <1>4, <1>5, OnePlanQuiet
<1>9. /\ r.plans = [s.plans EXCEPT ![p] = q] /\ r.plans[p] = q
      /\ r.slot = s.slot /\ r.outcome = s.outcome /\ r.entries = s.entries
  BY <1>1 DEF KernelState
<1> HIDE DEF r
<1>7. {p} \in SUBSET PlanIds /\ \A x \in {p} : r.plans[x].status = "executing"
                                                 /\ r.plans[x].phase = "ready"
  BY <1>0, <1>3, <1>9
<1>8. Quiet(r, Advance(r, {p})) /\ Ready(r)
  BY <1>6, <1>7, AdvanceQuiet DEF Quiet
<1>11. Quiet(s, Advance(r, {p}))
  BY <1>6, <1>8, QuietTrans
<1> QED
  BY <1>0, <1>1, <1>3, <1>6, <1>8, <1>9, <1>10, <1>11 DEF MovedOn

LEMMA NextStepGentle ==
  ASSUME NEW s, NEW p \in PlanIds, NEW r, Ready(s), MovedOn(s, r, p),
         s.plans[p].status = "executing", s.plans[p].phase = "sign", s.slot # p
  PROVE Gentle(s, Advance(r, {p}))
<1> DEFINE q == r.plans[p]
<1>1. /\ Quiet(s, r) /\ r.plans = [s.plans EXCEPT ![p] = q] /\ Ready(r)
      /\ s.plans \in [PlanIds -> Plan]
      /\ q.status = "executing" /\ q.phase = "ready" /\ q.target = s.plans[p].target
      /\ r.slot = s.slot /\ r.outcome = s.outcome /\ r.entries = s.entries
  BY DEF MovedOn
<1>3. KeptPlan(p, s.plans[p], q)
  BY <1>1 DEF KeptPlan, InFlightPlan, Fits
<1> HIDE DEF q
<1>2. r.plans[p] = q /\ \A x \in PlanIds \ {p} : r.plans[x] = s.plans[x]
  BY <1>1
<1>4. \A x \in PlanIds : KeptPlan(x, s.plans[x], r.plans[x])
  BY <1>2, <1>3, KeptPlanItself
<1>5. Mild(s, r)
  <2>1. KeptSlot(s, r)
    BY <1>1, <1>2 DEF KeptSlot
  <2> QED
    BY <1>1, <1>4, <2>1, KeptEntryItself DEF Mild
<1>6. Gentle(s, r)
  BY <1>1, <1>5 DEF Gentle
<1>7. {p} \in SUBSET PlanIds /\ \A x \in {p} : r.plans[x].status = "executing"
                                                 /\ r.plans[x].phase = "ready"
  BY <1>1, <1>2
<1>8. Gentle(r, Advance(r, {p}))
  BY <1>1, <1>7, AdvanceGentle
<1> QED
  BY <1>6, <1>8, GentleTrans

LEMMA SignedTypedQuiet ==
  ASSUME Ready(k), NEW p \in PlanIds, k.plans[p].status = "executing"
  PROVE /\ Quiet(k, SignedTyped(p))
        /\ k.plans[p].phase = "sign" /\ k.slot # p => Mild(k, SignedTyped(p))
<1> DEFINE entries == [o \in Offers |->
                         IF o \in Step(k, p).creates /\ Ours(k, p, {o}, {"intended"})
                         THEN [k.entries[o] EXCEPT !.state = "signed"] ELSE k.entries[o]]
           old == k.plans[p]
           q == [old EXCEPT !.cursor = old.cursor + 1, !.phase = "ready"]
           r == [k EXCEPT !.entries = entries]
<1>0. k \in KernelState /\ {p} \in SUBSET PlanIds /\ old \in Plan
  BY DEF Ready, Typed, KernelState
<1>1. entries \in [Offers -> Entry] /\ \A o \in Offers : KeptEntry(k.entries[o], entries[o])
  <2> SUFFICES ASSUME NEW o \in Offers PROVE entries[o] \in Entry /\ KeptEntry(k.entries[o], entries[o])
    BY Zenon
  <2>1. k.entries[o] \in Entry
    BY <1>0 DEF KernelState
  <2>2. /\ [k.entries[o] EXCEPT !.state = "signed"] \in Entry
        /\ k.entries[o].state = "intended" =>
             KeptEntry(k.entries[o], [k.entries[o] EXCEPT !.state = "signed"])
    BY <2>1 DEF Entry, EntryStates, KeptEntry, Held
  <2>3. Ours(k, p, {o}, {"intended"}) => k.entries[o].state = "intended"
    BY DEF Ours
  <2> QED
    BY <2>1, <2>2, <2>3, KeptEntryItself
<1>2. SignedTyped(p) = IF ~StillAuthorized(k, p) THEN FailPlans(k, {p})
                       ELSE Advance([k EXCEPT !.entries = entries, !.plans[p] = q], {p})
  BY DEF SignedTyped
<1>3. [k EXCEPT !.entries = entries, !.plans[p] = q] = [r EXCEPT !.plans[p] = q]
  BY <1>0 DEF KernelState
<1>4. r.plans = k.plans /\ r.slot = k.slot
  BY <1>0 DEF KernelState
<1>5. q = PastStep(old, old.lastInclusion) /\ old.lastInclusion \in Nat
  <2>1. old = [old EXCEPT !.lastInclusion = old.lastInclusion] /\ old.lastInclusion \in Nat
    BY <1>0 DEF Plan
  <2> QED
    BY <2>1 DEF PastStep
<1> HIDE DEF entries, q
<1>6. Quiet(k, r) /\ Gentle(k, r)
  BY <1>1, EntriesQuiet, EntriesGentle
<1> HIDE DEF r
<1>7. /\ r.plans[p].status = "executing" /\ Ready(r)
      /\ MovedOn(r, NextOf(r, p, old.lastInclusion), p)
  <2>1. r.plans[p].status = "executing" /\ Ready(r)
    BY <1>4, <1>6 DEF Quiet
  <2> QED
    BY <1>5, <2>1, NextStepQuiet
<1> DEFINE next == NextOf(r, p, old.lastInclusion)
<1>10. next = [r EXCEPT !.plans[p] = q]
  BY <1>4, <1>5 DEF NextOf
<1> HIDE DEF next
<1>11. Quiet(r, Advance(next, {p})) /\ MovedOn(r, next, p)
  BY <1>7 DEF MovedOn, next
<1>8. Quiet(k, SignedTyped(p))
  <2>1. Quiet(k, Advance(next, {p}))
    BY <1>6, <1>11, QuietTrans
  <2>2. Quiet(k, FailPlans(k, {p}))
    BY <1>0, FailPlansQuiet
  <2> QED
    BY <1>2, <1>3, <1>10, <2>1, <2>2
<1>9. ASSUME k.plans[p].phase = "sign", k.slot # p PROVE Gentle(k, SignedTyped(p))
  <2>1. Gentle(r, Advance(next, {p}))
    BY <1>4, <1>7, <1>9, <1>11, NextStepGentle
  <2>2. Gentle(k, Advance(next, {p}))
    BY <1>6, <2>1, GentleTrans
  <2>3. Landed(k, {p})
    BY <1>9 DEF Landed, InFlightPlan
  <2>4. Gentle(k, FailPlans(k, {p}))
    BY <1>0, <2>3, FailPlansGentle
  <2> QED
    BY <1>2, <1>3, <1>10, <2>2, <2>4
<1> QED
  BY <1>8, <1>9 DEF Gentle

LEMMA SignedTxOnward ==
  ASSUME NEW d \in Ledger, NEW N \in SUBSET Tx, NEW ch, Full(k, d, N, ch), NEW p \in PlanIds,
         k.plans[p].phase = "sign", k.plans[p].status = "executing"
  PROVE Onward(k, SignedTx(p), d, N, ch)
<1> DEFINE open == [k EXCEPT !.slot = Free]
           mine == [k EXCEPT !.slot = p]
<1>0. Ready(k) /\ Typed(k)
  BY FullReady
<1>1. SignedTx(p) \in {FailPlans(open, {p}), SimulateAgain(open, {p}), Commit(mine, p)}
  BY DEF SignedTx
<1>2. Quiet(k, open) /\ open.plans = k.plans /\ Quiet(k, mine) /\ mine.plans = k.plans
  BY <1>0, SlotQuiet
<1> HIDE DEF open
<1>3. k.plans[p].cursor \in DOMAIN StepsOf(p) /\ ~Attached(k.plans[p])
  BY <1>0 DEF Typed, Placed, Working, Attached
<1>4. {p} \in SUBSET PlanIds /\ \A q \in {p} : /\ open.plans[q].cursor \in DOMAIN StepsOf(q)
                                               /\ ~Attached(open.plans[q])
  BY <1>2, <1>3
<1>5. Quiet(k, SimulateAgain(open, {p})) /\ Quiet(k, FailPlans(open, {p}))
  BY <1>0, <1>2, <1>4, SimulateAgainQuiet, FailPlansQuiet, QuietTrans DEF Quiet
<1> HIDE DEF mine
<1>6. Onward(k, mine, d, N, ch)
  BY <1>2, QuietOnward
<1>7. /\ mine.plans[p].cursor \in DOMAIN StepsOf(p)
      /\ mine.plans[p].status = "executing" /\ ~Attached(mine.plans[p])
  BY <1>2, <1>3
<1>8. Step(mine, p).kind = "tx" => mine.plans[p].nonce \in Nonces
  BY <1>0, <1>2 DEF Typed, Placed, Numbered, Step
<1>9. Onward(mine, Commit(mine, p), d, N, ch)
  BY <1>6, <1>7, <1>8, CommitOnward DEF Onward
<1>10. Onward(k, Commit(mine, p), d, N, ch)
  BY <1>6, <1>9, OnwardTrans
<1> QED
  BY <1>1, <1>5, <1>10, QuietOnward

LEMMA SignedTxAttended ==
  ASSUME SInv, OfferInv, Alive, NEW p \in PlanIds, k.plans[p].phase = "sign",
         k.plans[p].status = "executing", Step(k, p).kind = "tx"
  PROVE Attended(SignedTx(p), disk, net, released, chain)
<1> DEFINE open == [k EXCEPT !.slot = Free]
           mine == [k EXCEPT !.slot = p]
<1>0. /\ Attended(k, disk, net, released, chain) /\ MinedSent(chain, net) /\ chain \in Chains
      /\ Full(k, disk, net, chain) /\ Ready(k) /\ Typed(k) /\ disk \in Ledger
      /\ net \in SUBSET Tx /\ Offered(k, disk, net, released, chain)
  BY InvFull, InvAttended DEF Attended
<1>1. SignedTx(p) \in {FailPlans(open, {p}), SimulateAgain(open, {p}), Commit(mine, p)}
  BY DEF SignedTx
<1>2. /\ Gentle(k, open) /\ open.plans = k.plans /\ open.slot = Free
      /\ Quiet(k, mine) /\ mine.plans = k.plans /\ mine.slot = p
      /\ mine.entries = k.entries /\ mine.nonces = k.nonces /\ mine.writes = k.writes
      /\ mine.resends = k.resends /\ mine.outcome = k.outcome /\ mine.head = k.head
  BY <1>0, SlotQuiet, FreeGentle DEF Typed, KernelState
<1> HIDE DEF open, mine
<1>3. k.plans[p].cursor \in DOMAIN StepsOf(p) /\ ~Attached(k.plans[p])
  BY <1>0 DEF Typed, Placed, Working, Attached
<1>4. Attended(open, disk, net, released, chain) /\ Ready(open)
  BY <1>0, <1>2, AttendedGentle, GentleReady
<1>5. Gentle(open, FailPlans(open, {p}))
  <2>1. {p} \in SUBSET PlanIds /\ Landed(open, {p})
    BY <1>2 DEF Landed, InFlightPlan
  <2> QED
    BY <1>4, <2>1, FailPlansGentle
<1>6. Gentle(open, SimulateAgain(open, {p}))
  <2> DEFINE S == {p}
  <2>1. /\ S \in SUBSET PlanIds
        /\ \A x \in S : /\ open.plans[x].cursor \in DOMAIN StepsOf(x) /\ ~Attached(open.plans[x])
                         /\ Step(open, x).kind = "tx"
                         /\ (open.plans[x].phase = "sign" => open.slot # x)
    BY <1>2, <1>3, NotPlans DEF Step
  <2> HIDE DEF S
  <2>2. Gentle(open, SimulateAgain(open, S))
    BY <1>4, <2>1, SimulateAgainGentle
  <2> QED
    BY <2>2 DEF S
<1>7. Works(mine) /\ Back(k, mine)
  <2>1. Occupies(mine, p)
    BY <1>2 DEF Occupies, Step
  <2>2. AllFit(mine) /\ InPhase(mine, "commit") = InPhase(k, "commit") /\ mine.slot # Committing
    BY <1>0, <1>2, NotPlans DEF Offered, Works, AllFit, InPhase, Executing
  <2> QED
    BY <1>0, <1>2, <2>1, <2>2, PlansBack DEF Offered, Works
<1>8. Offered(mine, disk, net, released, chain)
  BY <1>0, <1>2, <1>7, OnePlanOffered
<1>9. Full(mine, disk, net, chain)
  BY <1>0, <1>2, QuietOnward DEF Onward
<1>10. /\ mine.plans[p].cursor \in DOMAIN StepsOf(p)
       /\ mine.plans[p].status = "executing" /\ ~Attached(mine.plans[p])
       /\ Step(mine, p).kind = "tx" => mine.plans[p].nonce \in Nonces
  BY <1>0, <1>2, <1>3 DEF Typed, Placed, Numbered, Step
<1>11. Attended(Commit(mine, p), disk, net, released, chain)
  <2> DEFINE r == Commit(mine, p)
  <2>1. /\ Offered(r, disk, net, released, chain)
        /\ r.outcome = "clean" => mine.outcome = "clean"
        /\ r.head = mine.head
    BY <1>0, <1>2, <1>8, <1>9, <1>10, CommitOffered
  <2>2. Full(r, disk, net, chain)
    BY <1>0, <1>9, <1>10, CommitOnward DEF Onward
  <2> HIDE DEF r
  <2>3. Attended(r, disk, net, released, chain)
    BY <1>0, <1>2, <2>1, <2>2 DEF Attended
  <2> QED
    BY <2>3 DEF r
<1>12. /\ Attended(FailPlans(open, {p}), disk, net, released, chain)
       /\ Attended(SimulateAgain(open, {p}), disk, net, released, chain)
  BY <1>0, <1>4, <1>5, <1>6, AttendedGentle
<1> QED
  BY <1>1, <1>11, <1>12

LEMMA SignaturesKeep ==
  ASSUME SInv, IInv', NEW p \in PlanIds, Signed(p) \/ SignFailed(p)
  PROVE Keeps
<1>1. /\ k.plans[p].phase = "sign" /\ k.plans[p].status = "executing" /\ Alive
      /\ {p} \in SUBSET PlanIds
  BY DEF Signed, SignFailed, InPhase, Executing
<1>2. /\ Ready(k) /\ k \in KernelState /\ Full(k, disk, net, chain) /\ disk \in Ledger
      /\ net \in SUBSET Tx
  BY <1>1, InvFull
<1>3. CASE Signed(p)
  <2>1. CASE Step(k, p).kind = "sign"
    <3>1. Quiet(k, SignedTyped(p)) /\ (k.slot # p => Mild(k, SignedTyped(p)))
      BY <1>1, <1>2, SignedTypedQuiet
    <3>2. OfferInv => k.slot # p
      BY <1>1, <2>1 DEF OfferInv, Offered, Works, Occupies
    <3> QED
      BY <1>1, <1>3, <2>1, <3>1, <3>2, QuietKeeps DEF Signed
  <2>2. CASE Step(k, p).kind # "sign"
    <3>1. Onward(k, SignedTx(p), disk, net, chain)
      BY <1>1, <1>2, SignedTxOnward
    <3>2. ASSUME OfferInv PROVE Step(k, p).kind = "tx"
      <4>1. Fits(p, k.plans[p])
        BY <1>1, <3>2 DEF OfferInv, Offered, Works, AllFit
      <4>2. k.plans[p].cursor \in DOMAIN StepsOf(p)
        BY <1>1, <1>2 DEF Ready, Typed, Placed, Working
      <4>3. Step(k, p).kind \in {"sign", "tx", "release"}
        BY <4>2, StepTyped DEF StepSpec
      <4> QED
        BY <1>1, <2>2, <4>1, <4>3 DEF Fits, Step
    <3>3. OfferInv => Attended(SignedTx(p), disk, net, released, chain)
      BY <1>1, <3>2, SignedTxAttended
    <3> QED
      BY <1>1, <1>3, <2>2, <3>1, <3>3, HandledKeeps DEF Signed
  <2> QED
    BY <2>1, <2>2
<1>4. CASE SignFailed(p)
  <2> DEFINE s == [k EXCEPT !.slot = Taken(p)]
  <2>1. Gentle(k, s) /\ s.plans = k.plans
    BY <1>2, TakenGentle
  <2>2. Handle(FailPlans(s, {p}))
    BY <1>4 DEF SignFailed
  <2> HIDE DEF s
  <2>3. Landed(s, {p})
    BY <1>1, <2>1 DEF Landed, InFlightPlan
  <2>4. Gentle(s, FailPlans(s, {p}))
    BY <1>1, <2>1, <2>3, FailPlansGentle, GentleReady
  <2>5. Gentle(k, FailPlans(s, {p}))
    BY <1>2, <2>1, <2>4, GentleTrans
  <2> QED
    BY <1>1, <2>2, <2>5, GentleKeeps
<1> QED
  BY <1>3, <1>4

LEMMA ReleasedKeeps == ASSUME SInv, IInv', NEW p \in PlanIds, Released(p) PROVE Keeps
<1> DEFINE old == k.plans[p]
           after == IF old.lastInclusion > k.head THEN old.lastInclusion ELSE k.head + 1
           q == [old EXCEPT !.lastInclusion = after, !.phase = "ready",
                            !.cursor = old.cursor + 1]
           open == [k EXCEPT !.slot = Taken(p)]
           s == [k EXCEPT !.slot = Taken(p), !.plans[p] = q]
<1>1. /\ Alive /\ Handle(Advance(s, {p})) /\ old.status = "executing"
      /\ old.phase = "expose" /\ {p} \in SUBSET PlanIds
  BY DEF Released, Exposing, InPhase, Executing
<1>2. Ready(k) /\ k \in KernelState /\ old \in Plan /\ k.head \in Nat
  BY <1>1, InvFull DEF KernelState
<1>3. after \in Nat
  BY <1>2 DEF Plan
<1>4. Quiet(k, open) /\ open.plans = k.plans
  BY <1>2, TakenTyped, SlotQuiet
<1>6. q = PastStep(open.plans[p], after) /\ open.plans[p].status = "executing"
  BY <1>1, <1>4 DEF PastStep
<1>5. s = NextOf(open, p, after)
  <2>1. s = [open EXCEPT !.plans[p] = q]
    BY <1>2 DEF KernelState
  <2> QED
    BY <1>6, <2>1 DEF NextOf
<1>9. /\ s.entries = k.entries /\ s.nonces = k.nonces /\ s.writes = k.writes
      /\ s.resends = k.resends /\ s.outcome = k.outcome /\ s.head = k.head
      /\ s.slot = Taken(p) /\ k.plans \in [PlanIds -> Plan]
  BY <1>2 DEF KernelState
<1> HIDE DEF open, s, q, after
<1>7. /\ Quiet(open, s) /\ s.plans = [open.plans EXCEPT ![p] = q]
      /\ s.plans[p].status = "executing" /\ s.plans[p].phase = "ready"
      /\ q.status = "executing" /\ q.phase = "ready" /\ q.target = open.plans[p].target
  <2>1. Ready(open)
    BY <1>4 DEF Quiet
  <2>2. MovedOn(open, s, p)
    BY <1>3, <1>5, <1>6, <2>1, NextStepQuiet
  <2>3. s.plans[p] = q
    BY <1>2, <1>4, <1>5, <1>6, <2>2 DEF NextOf, MovedOn
  <2> QED
    BY <2>2, <2>3 DEF MovedOn
<1>8. Quiet(k, s)
  BY <1>2, <1>4, <1>7, QuietTrans
<1>10. Onward(k, s, disk, net, chain) /\ Full(s, disk, net, chain) /\ Ready(s)
  BY <1>1, <1>8, InvFull, QuietOnward DEF Onward, Quiet
<1>11. Gentle(s, Advance(s, {p}))
  BY <1>1, <1>7, <1>10, AdvanceGentle
<1>12. Quiet(k, Advance(s, {p}))
  BY <1>2, <1>8, <1>11, QuietTrans DEF Gentle
<1>13. ASSUME OfferInv PROVE Attended(Advance(s, {p}), disk, net, released, chain)
  <2>1. Attended(k, disk, net, released, chain)
    BY <1>1, <1>13, InvAttended
  <2>2. LandsPlan(k, s, p)
    <3>1. Taken(p) = IF k.slot = p THEN Free ELSE k.slot
      BY DEF Taken
    <3>2. s.plans[p] = q /\ \A x \in PlanIds \ {p} : s.plans[x] = k.plans[x]
      BY <1>4, <1>7, <1>9
    <3> QED
      BY <1>1, <1>4, <1>7, <1>9, <3>1, <3>2 DEF LandsPlan
  <2>3. Works(s) /\ Back(k, s)
    BY <1>1, <2>1, <2>2, LandedWorks DEF Attended, Offered
  <2>4. Offered(s, disk, net, released, chain)
    BY <1>9, <2>1, <2>3, OnePlanOffered DEF Attended, Full
  <2>5. Attended(s, disk, net, released, chain)
    BY <1>9, <1>10, <2>1, <2>4 DEF Attended
  <2> QED
    BY <1>1, <1>11, <2>5, InvFull, AttendedGentle
<1>14. Onward(k, Advance(s, {p}), disk, net, chain)
  BY <1>1, <1>12, InvFull, QuietOnward
<1> QED
  BY <1>1, <1>13, <1>14, HandledKeeps

-----------------------------------------------------------------------------
(* A plan that is submitted, or goes on to its next stage.                 *)

\* what Submit adds, before advance
LEMMA NewPlanOnward ==
  ASSUME NEW d \in Ledger, NEW N \in SUBSET Tx, NEW ch, NEW s, Full(s, d, N, ch),
         NEW i \in Intents, s.submissions[i] = "none",
         NEW r, Typed(r), NEW plan, plan = [NoPlan EXCEPT !.status = "executing"],
         r.plans = [s.plans EXCEPT ![StepPlan(i)] = plan], r.nonces = s.nonces,
         r.writes = s.writes, r.nextNonce = s.nextNonce, r.resends = s.resends,
         r.finalized = s.finalized, r.head = s.head, r.submissions = s.submissions
  PROVE Onward(s, r, d, N, ch)
<1> DEFINE p == StepPlan(i)
<1>1. p \in PlanIds /\ ~Recovery(p) /\ p[2] = i
  BY DEF StepPlan, PlanIds, Recovery
<1>2. /\ plan.status = "executing" /\ plan.phase = "ready" /\ plan.exposed = FALSE
      /\ plan.nonce = Undefined
  BY DEF NoPlan
<1>3. /\ Typed(s) /\ s.plans \in [PlanIds -> Plan] /\ r.plans[p] = plan
      /\ \A x \in PlanIds \ {p} : r.plans[x] = s.plans[x]
  BY <1>1 DEF Full, Typed, KernelState
<1>4. Submitted(r)
  <2>1. \A j \in Intents : StepPlan(j) \in PlanIds /\ (StepPlan(j) = p => j = i)
    BY DEF StepPlan, PlanIds
  <2> HIDE DEF p
  <2>2. ASSUME NEW j \in Intents
        PROVE LET q == r.plans[StepPlan(j)]
              IN /\ q.status = "executing" => r.submissions[j] \in {"none", "exposed"}
                 /\ q.status = "compensating" => r.submissions[j] = "exposed"
    <3>1. CASE StepPlan(j) = p
      BY <1>2, <1>3, <2>1, <3>1
    <3>2. CASE StepPlan(j) # p
      BY <1>3, <2>1, <3>2, ZenonT(60) DEF Submitted, Full, Safe
    <3> QED
      BY <3>1, <3>2
  <2>3. \A x \in PlanIds : r.plans[x].exposed => r.plans[x].status = "executing"
    BY <1>2, <1>3 DEF Submitted, Full, Safe
  <2> QED
    BY <2>2, <2>3 DEF Submitted
<1> HIDE DEF p
<1>5. Behind(r)
  <2>1. Undefined <= s.nextNonce
    BY DEF Full, Safe, Sound, Undefined, Typed, KernelState
  <2> QED
    BY <1>2, <1>3, <2>1 DEF Behind, Full, Safe
<1>6. InFlight(r, d)
  <2> SUFFICES ASSUME NEW x \in Executing(r), r.plans[x].phase \in {"commit", "expose"},
                      Step(r, x).kind = "tx"
               PROVE LET t == TxIn(x, r.plans[x])
                     IN /\ Lists(r, t)
                        /\ \A w \in DOMAIN r.writes :
                             w >= r.plans[x].flush => Lists(r.writes[w], t)
                        /\ r.plans[x].phase = "expose" => OnFile(r, d, t)
    BY DEF InFlight
  <2>1. x \in PlanIds \ {p}
    BY <1>2, <1>3 DEF Executing
  <2>2. x \in Executing(s) /\ Step(s, x) = Step(r, x) /\ r.plans[x] = s.plans[x]
    BY <1>3, <2>1 DEF Executing, Step
  <2>3. \A t : /\ Lists(r, t) <=> Lists(s, t)
               /\ OnFile(r, d, t) <=> OnFile(s, d, t)
    BY DEF Lists, OnFile
  <2>4. InFlight(s, d)
    BY DEF Full, Safe
  <2> QED
    BY <2>2, <2>3, <2>4 DEF InFlight
<1>7. Passed(r, Outside(r, N))
  <2>1. Listed(r) = Listed(s) /\ Outside(r, N) = Outside(s, N)
    BY DEF Listed, Outside
  <2>2. s.nonces \in [Nonces -> NonceRecord] /\ s.resends \subseteq Tx
    BY <1>3 DEF Typed, KernelState
  <2>3. Outside(s, N) \cup Listed(s) \subseteq Tx
    BY <2>2, ListedTyped DEF Outside
  <2>4. ASSUME NEW t \in Outside(s, N) \cup Listed(s), ~Recovery(t.plan),
               r.plans[t.plan].status = "executing"
        PROVE Past(r.plans[t.plan], t)
    <3>1. t.plan \in PlanIds
      BY <2>3 DEF Tx
    <3>2. t.plan # p
      BY <1>1, <2>4 DEF Once, Full, Safe
    <3> QED
      BY <1>3, <2>4, <3>1, <3>2 DEF Passed, Full, Safe
  <2> QED
    BY <2>1, <2>4 DEF Passed
<1> QED
  BY <1>4, <1>5, <1>6, <1>7, MovesItself, PlansOnward

LEMMA SubmitKeeps == ASSUME SInv, IInv', NEW i \in Intents, Submit(i) PROVE Keeps
<1> DEFINE p == StepPlan(i)
           entries == [o \in Offers |->
             IF o \in Creates(p) THEN [NoEntry EXCEPT !.state = "intended", !.owner = p]
             ELSE k.entries[o]]
           plan == [NoPlan EXCEPT !.status = "executing"]
           s == [k EXCEPT !.entries = entries]
           before == s.before \cup ({q \in PlanIds : s.plans[q].status # "none"} \X {p})
           r == [s EXCEPT !.plans[p] = plan, !.before = before]
<1>1. Alive /\ Handle(AddPlan(s, p, plan)) /\ k.submissions[i] = "none"
  BY DEF Submit
<1>2. p \in PlanIds /\ {p} \in SUBSET PlanIds
  BY DEF StepPlan, PlanIds
<1>3. /\ Ready(k) /\ k \in KernelState /\ Full(k, disk, net, chain) /\ disk \in Ledger
      /\ net \in SUBSET Tx
  BY <1>1, InvFull
<1>4. entries \in [Offers -> Entry]
  <2> HIDE DEF p
  <2>1. [NoEntry EXCEPT !.state = "intended", !.owner = p] \in Entry
    BY <1>2, NoEntryTyped DEF Entry, EntryStates
  <2> QED
    BY <1>3, <2>1 DEF KernelState
<1>5. plan \in Plan /\ plan.phase = "ready" /\ plan.status = "executing"
  BY NoPlanTyped DEF Plan, NoPlan
<1>6. Placed(p, plan)
  BY <1>5 DEF Placed, Working, Numbered
<1>7. AddPlan(s, p, plan) = Advance(r, {p})
  BY DEF AddPlan
<1>8. plan = [NoPlan EXCEPT !.status = "executing"]
  OBVIOUS
<1> HIDE DEF entries, plan
<1>9. Gentle(k, s)
  <2>1. ASSUME NEW o \in Offers PROVE KeptEntry(k.entries[o], entries[o])
    <3>1. CASE o \in Creates(p)
      <4>1. entries[o] = [NoEntry EXCEPT !.state = "intended", !.owner = p]
        BY <3>1 DEF entries
      <4>2. /\ entries[o].creators = {} /\ entries[o].deadCreators = {}
            /\ ~entries[o].neutralized
        BY <4>1 DEF NoEntry
      <4>3. k.entries[o].state = "none"
        BY <1>1, <3>1 DEF Submit
      <4> QED
        BY <4>2, <4>3 DEF KeptEntry, Held
    <3>2. CASE o \notin Creates(p)
      BY <3>2, KeptEntryItself DEF entries
    <3> QED
      BY <3>1, <3>2
  <2> QED
    BY <1>3, <1>4, <2>1, EntriesGentle
<1>10. s.submissions[i] = "none" /\ s.plans = k.plans
  BY <1>1, <1>3 DEF KernelState
<1> HIDE DEF s
<1>11. Onward(k, s, disk, net, chain) /\ Quiet(k, s)
  BY <1>3, <1>9, QuietOnward DEF Gentle
<1>12. s \in KernelState /\ Typed(s)
  BY <1>11 DEF Quiet, Ready, Typed
<1>13. before \in SUBSET (PlanIds \X PlanIds)
  BY <1>2, <1>12 DEF KernelState
<1> HIDE DEF before
<1>14. /\ r \in KernelState /\ r.plans = [s.plans EXCEPT ![p] = plan]
       /\ r.submissions = s.submissions /\ r.nonces = s.nonces /\ r.writes = s.writes
       /\ r.nextNonce = s.nextNonce /\ r.finalized = s.finalized /\ r.resends = s.resends
       /\ r.head = s.head /\ r.slot = s.slot /\ r.outcome = s.outcome /\ r.entries = s.entries
  <2> HIDE DEF p
  <2> QED
    BY <1>2, <1>5, <1>12, <1>13, ZenonT(60) DEF KernelState
<1> HIDE DEF r
<1>15. Typed(r)
  <2>1. \A q \in PlanIds : Placed(q, r.plans[q])
    BY <1>2, <1>6, <1>12, <1>14 DEF Typed, KernelState
  <2> QED
    BY <1>14, <2>1 DEF Typed
<1>16. Onward(s, r, disk, net, chain)
  BY <1>3, <1>8, <1>10, <1>11, <1>14, <1>15, NewPlanOnward DEF Onward
<1>17. Gentle(r, Advance(r, {p}))
  <2>1. r.plans[p].status = "executing" /\ r.plans[p].phase = "ready"
    BY <1>2, <1>5, <1>12, <1>14 DEF KernelState
  <2> QED
    BY <1>2, <1>3, <1>16, <2>1, FullReady, AdvanceGentle DEF Onward
<1>18. Onward(r, Advance(r, {p}), disk, net, chain)
  BY <1>3, <1>16, <1>17, QuietOnward DEF Onward, Gentle
<1>19. Onward(k, Advance(r, {p}), disk, net, chain)
  BY <1>3, <1>11, <1>16, <1>18, OnwardTrans
<1>20. Tame(s, r)
  <2>1. /\ r.plans[p] = plan /\ \A x \in PlanIds \ {p} : r.plans[x] = s.plans[x]
        /\ s.plans[p].status = "none" /\ p[1] = "step" /\ plan.status = "executing"
        /\ plan.phase = "ready"
    BY <1>1, <1>2, <1>5, <1>10, <1>12, <1>14 DEF KernelState, Submit, StepPlan
  <2> HIDE DEF p
  <2>2. KeptPlan(p, s.plans[p], plan) /\ ~InFlightPlan(plan)
    BY <2>1 DEF KeptPlan, InFlightPlan, Fits
  <2>3. \A x \in PlanIds : KeptPlan(x, s.plans[x], r.plans[x])
    BY <2>1, <2>2, KeptPlanItself
  <2>4. KeptSlot(s, r)
    BY <1>14, <2>1 DEF KeptSlot
  <2>5. Mild(s, r)
    BY <1>14, <2>3, <2>4, KeptEntryItself DEF Mild
  <2>6. Back(s, r)
    BY <2>1, <2>2 DEF Back
  <2> QED
    BY <1>14, <2>5, <2>6 DEF Tame, FewerRecord, SameTxs
<1>21. ASSUME OfferInv PROVE Attended(Advance(r, {p}), disk, net, released, chain)
  <2>1. Attended(s, disk, net, released, chain)
    BY <1>1, <1>3, <1>9, <1>21, InvAttended, AttendedGentle
  <2>2. Full(r, disk, net, chain)
    BY <1>16 DEF Onward
  <2>3. Attended(r, disk, net, released, chain)
    BY <1>14, <1>20, <2>1, <2>2, AttendedTame DEF Attended
  <2> QED
    BY <1>3, <1>17, <2>3, AttendedGentle
<1> QED
  BY <1>1, <1>7, <1>19, <1>21, HandledKeeps

LEMMA AdvanceStageKeeps ==
  ASSUME SInv, IInv', NEW i \in Intents, AdvanceStage(i)
  PROVE Keeps
<1> DEFINE p == StepPlan(i)
           next == [k EXCEPT !.plans[p].stage = k.plans[p].cursor, !.plans[p].phase = "ready",
                             !.plans[p].doubt = "none"]
           q == [k.plans[p] EXCEPT !.stage = k.plans[p].cursor, !.phase = "ready",
                                   !.doubt = "none"]
<1>1. /\ Handle(Advance(next, {p})) /\ Alive
      /\ p \in InPhase(k, "awaiting-advance")
  BY DEF AdvanceStage
<1>2. p \in PlanIds /\ {p} \in SUBSET PlanIds /\ ~Recovery(p)
  BY DEF StepPlan, PlanIds, Recovery
<1> HIDE DEF p
<1>3. k.plans[p].phase = "awaiting-advance" /\ k.plans[p].status = "executing"
  BY <1>1 DEF InPhase, Executing
<1>4. k \in KernelState /\ k.plans[p] \in Plan
  BY <1>2 DEF SInv, IInv, Typed, KernelState
<1>5. /\ q \in Plan /\ q.phase = "ready" /\ q.cursor = k.plans[p].cursor
      /\ q.status = k.plans[p].status /\ q.exposed = k.plans[p].exposed
      /\ q.nonce = k.plans[p].nonce /\ q.target = k.plans[p].target
  BY <1>4 DEF Plan, Phases
<1>6. next = [k EXCEPT !.plans[p] = q]
  BY <1>2, <1>4 DEF KernelState
<1> HIDE DEF q
<1>7. Placed(p, q)
  BY <1>5 DEF Placed, Working, Numbered
<1>8. QuietPlan(p, k.plans[p], q) /\ KeptPlan(p, k.plans[p], q)
  BY <1>3, <1>5 DEF QuietPlan, Attached, KeptPlan, InFlightPlan, Fits
<1>9. next.plans[p].status = "executing" /\ next.plans[p].phase = "ready"
  BY <1>2, <1>3, <1>4, <1>5, <1>6 DEF KernelState
<1> HIDE DEF next
<1>10. Ready(k)
  BY <1>1, InvFull
<1>11. Gentle(k, next)
  BY <1>2, <1>3, <1>5, <1>6, <1>7, <1>8, <1>10, OnePlanGentle
<1>12. Gentle(next, Advance(next, {p}))
  BY <1>2, <1>9, <1>11, AdvanceGentle, GentleReady
<1>13. Gentle(k, Advance(next, {p}))
  BY <1>10, <1>11, <1>12, GentleTrans
<1> QED
  BY <1>1, <1>13, GentleKeeps

-----------------------------------------------------------------------------
(* Answers: what is read of the candidates changes, and phases move on.    *)

\* candidates are marked; what may now be out was, or is on file
LEMMA ToldOnward ==
  ASSUME NEW d \in Ledger, NEW N \in SUBSET Tx, NEW ch, NEW s, NEW r,
         Full(s, d, N, ch), Typed(r), Retold(s, r), r.finalized = s.finalized, r.head = s.head,
         \A n \in Nonces : r.nonces[n].resolution \in {s.nonces[n].resolution, Unresolved},
         \A n \in Nonces : \A c \in DOMAIN s.nonces[n].candidates :
            Out(r.nonces[n].candidates[c]) =>
               \/ Out(s.nonces[n].candidates[c])
               \/ OnFile(s, d, TxAt(n, c, s.nonces[n].candidates[c]))
  PROVE Onward(s, r, d, N, ch)
<1>1. Evidence(r, ch)
  <2>1. ASSUME NEW n \in Nonces, Resolved(r.nonces[n])
        PROVE r.nonces[n].resolution = s.nonces[n].resolution
    BY <2>1 DEF Resolved, Unresolved
  <2> QED
    BY <2>1 DEF Evidence, Full, Safe, Resolved
<1>2. OutOnFile(r, d)
  <2> SUFFICES ASSUME NEW n \in Nonces, NEW c \in DOMAIN r.nonces[n].candidates,
                      Out(r.nonces[n].candidates[c])
               PROVE OnFile(r, d, TxAt(n, c, r.nonces[n].candidates[c]))
    BY DEF OutOnFile
  <2>1. /\ c \in DOMAIN s.nonces[n].candidates
        /\ TxAt(n, c, r.nonces[n].candidates[c]) = TxAt(n, c, s.nonces[n].candidates[c])
        /\ r.writes = s.writes
    BY DEF Retold, SameTxs, TxAt
  <2>2. OutOnFile(s, d)
    BY DEF Full, Safe
  <2>3. OnFile(s, d, TxAt(n, c, s.nonces[n].candidates[c]))
    BY <2>1, <2>2 DEF OutOnFile
  <2> QED
    BY <2>1, <2>3 DEF OnFile
<1> QED
  BY <1>1, <1>2, RetoldOnward

LEMMA SetSentFields ==
  ASSUME NEW s, Typed(s), NEW n \in Nonces, NEW c \in DOMAIN s.nonces[n].candidates,
         NEW sent \in SendStatus
  PROVE LET r == SetSent(s, n, c, sent)
        IN /\ r.submissions = s.submissions /\ r.writes = s.writes
           /\ r.nextNonce = s.nextNonce /\ r.finalized = s.finalized
           /\ r.resends = s.resends /\ r.head = s.head
           /\ \A m \in Nonces : /\ SameTxs(s.nonces[m], r.nonces[m])
                                /\ r.nonces[m].open = s.nonces[m].open
                                /\ r.nonces[m].resolution = s.nonces[m].resolution
           /\ \A m \in Nonces : \A x \in DOMAIN s.nonces[m].candidates :
                <<m, x>> # <<n, c>> =>
                   r.nonces[m].candidates[x] = s.nonces[m].candidates[x]
<1> DEFINE old == s.nonces[n]
           new == [old.candidates[c] EXCEPT !.sent = sent]
           cs == [old.candidates EXCEPT ![c] = new]
           record == [old EXCEPT !.candidates = cs]
           r == SetSent(s, n, c, sent)
<1>0. s \in KernelState /\ old \in NonceRecord /\ old.candidates \in Seq(Candidate)
  BY DEF Typed, KernelState, NonceRecord
<1>1. c \in 1 .. Len(old.candidates) /\ old.candidates[c] \in Candidate
  BY <1>0, LenProperties, ElementOfSeq
<1>2. new.plan = old.candidates[c].plan /\ new.step = old.candidates[c].step
  <2> DEFINE x == old.candidates[c]
  <2> HIDE DEF x
  <2>1. x \in Candidate => LET y == [x EXCEPT !.sent = sent] IN y.plan = x.plan /\ y.step = x.step
    BY DEF Candidate
  <2> QED
    BY <1>1, <2>1 DEF x
<1>3. r = [s EXCEPT !.nonces = [s.nonces EXCEPT ![n] = record]]
  BY <1>0 DEF SetSent, KernelState
<1>4. /\ DOMAIN cs = DOMAIN old.candidates /\ cs[c] = new
      /\ \A x \in DOMAIN old.candidates \ {c} : cs[x] = old.candidates[x]
  BY <1>0, <1>1
<1> HIDE DEF new, cs
<1>5. record.open = old.open /\ record.resolution = old.resolution /\ record.candidates = cs
  BY <1>0 DEF NonceRecord
<1> HIDE DEF record, r
<1>6. /\ r.submissions = s.submissions /\ r.writes = s.writes
      /\ r.nextNonce = s.nextNonce /\ r.finalized = s.finalized
      /\ r.resends = s.resends /\ r.head = s.head /\ r.nonces = [s.nonces EXCEPT ![n] = record]
  BY <1>0, <1>3, ZenonT(60) DEF KernelState
<1>7. r.nonces[n] = record /\ \A m \in Nonces \ {n} : r.nonces[m] = s.nonces[m]
  BY <1>0, <1>6 DEF KernelState
<1>8. SameTxs(old, record)
  BY <1>2, <1>4, <1>5 DEF SameTxs
<1>9. ASSUME NEW m \in Nonces
      PROVE /\ SameTxs(s.nonces[m], r.nonces[m])
            /\ r.nonces[m].open = s.nonces[m].open
            /\ r.nonces[m].resolution = s.nonces[m].resolution
            /\ \A x \in DOMAIN s.nonces[m].candidates :
                 <<m, x>> # <<n, c>> => r.nonces[m].candidates[x] = s.nonces[m].candidates[x]
  <2>1. CASE m = n
    BY <1>4, <1>5, <1>7, <1>8, <2>1
  <2>2. CASE m # n
    BY <1>7, <2>2 DEF SameTxs
  <2> QED
    BY <2>1, <2>2
<1> QED
  BY <1>6, <1>9 DEF r

\* phases move on: from the commit to exposing what is on file, and to inclusion
Later(q, u) ==
  /\ u.status = q.status /\ u.exposed = q.exposed /\ u.cursor = q.cursor
  /\ u.nonce = q.nonce /\ u.pending = q.pending /\ u.flush = q.flush
  /\ \/ u.phase = q.phase
     \/ u.phase = "include" /\ q.phase \in {"commit", "expose"}
     \/ u.phase = "expose" /\ q.phase = "commit"

LEMMA LaterOnward ==
  ASSUME NEW d \in Ledger, NEW N \in SUBSET Tx, NEW ch, NEW s, NEW r,
         Full(s, d, N, ch), Typed(r), r.nonces = s.nonces, r.writes = s.writes,
         r.nextNonce = s.nextNonce, r.resends = s.resends, r.finalized = s.finalized,
         r.head = s.head, r.submissions = s.submissions,
         \A p \in PlanIds : Later(s.plans[p], r.plans[p]),
         \A p \in PlanIds : r.plans[p].phase = "expose" /\ s.plans[p].phase = "commit"
                            /\ Step(s, p).kind = "tx" => OnFile(s, d, TxIn(p, s.plans[p]))
  PROVE Onward(s, r, d, N, ch)
<1>1. Submitted(r)
  <2>1. \A i \in Intents : StepPlan(i) \in PlanIds
    BY DEF StepPlan, PlanIds
  <2> QED
    BY <2>1 DEF Submitted, Full, Safe, Later
<1>2. Behind(r)
  BY DEF Behind, Full, Safe, Later
<1>3. InFlight(r, d)
  <2> SUFFICES ASSUME NEW x \in Executing(r), r.plans[x].phase \in {"commit", "expose"},
                      Step(r, x).kind = "tx"
               PROVE LET t == TxIn(x, r.plans[x])
                     IN /\ Lists(r, t)
                        /\ \A w \in DOMAIN r.writes :
                             w >= r.plans[x].flush => Lists(r.writes[w], t)
                        /\ r.plans[x].phase = "expose" => OnFile(r, d, t)
    BY DEF InFlight
  <2>1. x \in PlanIds
    BY DEF Executing
  <2>2. /\ x \in Executing(s) /\ Step(s, x) = Step(r, x)
        /\ TxIn(x, r.plans[x]) = TxIn(x, s.plans[x]) /\ r.plans[x].flush = s.plans[x].flush
        /\ s.plans[x].phase \in {"commit", "expose"}
    BY <2>1 DEF Executing, Step, Later, TxIn
  <2>3. \A t : /\ Lists(r, t) <=> Lists(s, t)
               /\ OnFile(r, d, t) <=> OnFile(s, d, t)
    BY ZenonT(60) DEF Lists, OnFile
  <2>4. InFlight(s, d)
    BY DEF Full, Safe
  <2>5. /\ Lists(s, TxIn(x, s.plans[x]))
        /\ \A w \in DOMAIN s.writes :
             w >= s.plans[x].flush => Lists(s.writes[w], TxIn(x, s.plans[x]))
        /\ s.plans[x].phase = "expose" => OnFile(s, d, TxIn(x, s.plans[x]))
    BY <2>2, <2>4 DEF InFlight
  <2>6. r.plans[x].phase = "expose" => OnFile(s, d, TxIn(x, s.plans[x]))
    BY <2>1, <2>2, <2>5
  <2> QED
    BY <2>2, <2>3, <2>5, <2>6
<1>4. Passed(r, Outside(r, N))
  <2>1. Listed(r) = Listed(s) /\ Outside(r, N) = Outside(s, N)
    BY DEF Listed, Outside
  <2>2. s.nonces \in [Nonces -> NonceRecord] /\ s.resends \subseteq Tx
    BY DEF Full, Typed, KernelState
  <2>3. Outside(s, N) \cup Listed(s) \subseteq Tx
    BY <2>2, ListedTyped DEF Outside
  <2>4. ASSUME NEW t \in Outside(s, N) \cup Listed(s), ~Recovery(t.plan),
               r.plans[t.plan].status = "executing"
        PROVE Past(r.plans[t.plan], t)
    <3>1. t.plan \in PlanIds
      BY <2>3 DEF Tx
    <3>2. Past(s.plans[t.plan], t) /\ Later(s.plans[t.plan], r.plans[t.plan])
      BY <2>4, <3>1 DEF Passed, Full, Safe, Later
    <3> QED
      BY <3>2 DEF Past, Later
  <2> QED
    BY <2>1, <2>4 DEF Passed
<1> QED
  BY <1>1, <1>2, <1>3, <1>4, MovesItself, PlansOnward

\* the transaction in flight is the pending candidate
LEMMA PendingIsInFlight ==
  ASSUME NEW d, NEW s, InFlight(s, d), NEW p \in Executing(s),
         s.plans[p].phase \in {"commit", "expose"}, Step(s, p).kind = "tx"
  PROVE LET q == s.plans[p]
        IN /\ q.pending \in DOMAIN s.nonces[q.nonce].candidates
           /\ TxAt(q.nonce, q.pending, s.nonces[q.nonce].candidates[q.pending]) = TxIn(p, q)
<1>1. Lists(s, TxIn(p, s.plans[p]))
  BY DEF InFlight
<1> QED
  BY <1>1 DEF Lists, TxIn, TxAt

LEMMA SetSentAsides ==
  ASSUME NEW s, Typed(s), NEW n, NEW c, NEW sent
  PROVE LET r == SetSent(s, n, c, sent)
        IN r.slot = s.slot /\ r.entries = s.entries /\ r.outcome = s.outcome
BY DEF SetSent, Typed, KernelState

\* in r, p has been told what became of its broadcast
ToldOf(s, r, p) ==
  /\ LandsPlan(s, r, p)
  /\ r.entries = s.entries /\ r.resends = s.resends /\ r.outcome = s.outcome /\ r.head = s.head
  /\ \A m \in Nonces : FewerRecord(s.nonces[m], r.nonces[m])

LEMMA SentOnward ==
  ASSUME NEW d \in Ledger, NEW N \in SUBSET Tx, NEW ch, Full(k, d, N, ch), NEW p \in PlanIds,
         k.plans[p].status = "executing", k.plans[p].phase = "expose", Step(k, p).kind = "tx",
         NEW sent \in SendStatus
  PROVE Onward(k, Sent(p, sent), d, N, ch) /\ ToldOf(k, Sent(p, sent), p)
<1> DEFINE q == k.plans[p]
           n == q.nonce
           c == q.pending
           s == [k EXCEPT !.slot = Taken(p), !.plans[p].phase = "include"]
           u == [q EXCEPT !.phase = "include"]
           t == SetSent(s, n, c, sent)
           since == IF sent = "unknown" /\ t.nonces[n].unknownSince = Undefined
                    THEN k.head ELSE t.nonces[n].unknownSince
           r == [t.nonces[n] EXCEPT !.unknownSince = since]
           nonces == [t.nonces EXCEPT ![n] = r]
<1>1. Typed(k) /\ k \in KernelState /\ q \in Plan /\ Taken(p) \in PlanIds \cup {Free, Committing}
  BY TakenTyped DEF Full, Typed, KernelState
<1>2. /\ u \in Plan /\ u.phase = "include" /\ u.cursor = q.cursor /\ u.nonce = q.nonce
      /\ u.status = q.status /\ u.exposed = q.exposed /\ u.pending = q.pending
      /\ u.flush = q.flush /\ u.target = q.target
  BY <1>1 DEF Plan, Phases
<1>3. s = [k EXCEPT !.slot = Taken(p), !.plans[p] = u]
  BY <1>1 DEF KernelState
<1>4. Sent(p, sent) =
        IF ~HasPending(p) \/ k.nonces[n].candidates[c].sent # "unsent" THEN s
        ELSE [t EXCEPT !.nonces[n].unknownSince =
                IF sent = "unknown" /\ @ = Undefined THEN k.head ELSE @]
  BY DEF Sent
<1> HIDE DEF u, s
<1>5. /\ s \in KernelState /\ s.plans = [k.plans EXCEPT ![p] = u]
      /\ s.submissions = k.submissions /\ s.nonces = k.nonces /\ s.writes = k.writes
      /\ s.nextNonce = k.nextNonce /\ s.finalized = k.finalized /\ s.resends = k.resends
      /\ s.head = k.head /\ s.slot = Taken(p) /\ s.entries = k.entries /\ s.outcome = k.outcome
  BY <1>1, <1>2, <1>3, ZenonT(60) DEF KernelState
<1>6. s.plans[p] = u /\ \A x \in PlanIds \ {p} : s.plans[x] = k.plans[x]
  BY <1>1, <1>5 DEF KernelState
<1>7. Placed(p, u)
  BY <1>2 DEF Placed, Working, Numbered
<1>8. Typed(s)
  BY <1>1, <1>5, <1>6, <1>7 DEF Typed
<1>9. Onward(k, s, d, N, ch)
  <2>1. \A x \in PlanIds : Later(k.plans[x], s.plans[x])
    BY <1>2, <1>6 DEF Later
  <2>2. \A x \in PlanIds : ~(s.plans[x].phase = "expose" /\ k.plans[x].phase = "commit")
    BY <1>2, <1>6
  <2> QED
    BY <1>5, <1>8, <2>1, <2>2, LaterOnward
<1>12. LandsPlan(k, s, p)
  <2>1. Taken(p) = IF k.slot = p THEN Free ELSE k.slot
    BY DEF Taken
  <2> QED
    BY <1>2, <1>5, <1>6, <2>1 DEF LandsPlan
<1>13. ToldOf(k, s, p)
  BY <1>5, <1>12 DEF ToldOf, FewerRecord, SameTxs
<1>10. CASE ~HasPending(p) \/ k.nonces[n].candidates[c].sent # "unsent"
  BY <1>4, <1>9, <1>10, <1>13
<1>11. CASE ~(~HasPending(p) \/ k.nonces[n].candidates[c].sent # "unsent")
  <2>1. n \in Nonces /\ c \in DOMAIN s.nonces[n].candidates
    BY <1>5, <1>11 DEF HasPending
  <2>2. /\ Typed(t) /\ t.plans = s.plans
        /\ t.slot = s.slot /\ t.entries = s.entries /\ t.outcome = s.outcome
    <3> HIDE DEF s, n, c, r, nonces, since
    <3> QED
      BY <1>8, <2>1, SetSentTyped, SetSentAsides
  <2>3. /\ t.submissions = s.submissions /\ t.writes = s.writes
        /\ t.nextNonce = s.nextNonce /\ t.finalized = s.finalized
        /\ t.resends = s.resends /\ t.head = s.head
        /\ \A m \in Nonces : /\ SameTxs(s.nonces[m], t.nonces[m])
                             /\ t.nonces[m].open = s.nonces[m].open
                             /\ t.nonces[m].resolution = s.nonces[m].resolution
        /\ \A m \in Nonces : \A x \in DOMAIN s.nonces[m].candidates :
             <<m, x>> # <<n, c>> => t.nonces[m].candidates[x] = s.nonces[m].candidates[x]
    <3> HIDE DEF s, n, c, r, nonces, since
    <3> QED
      BY <1>8, <2>1, SetSentFields
  <2>4. Sent(p, sent) = [t EXCEPT !.nonces[n].unknownSince =
                           IF sent = "unknown" /\ @ = Undefined THEN k.head ELSE @]
    BY <1>4, <1>11
  <2> HIDE DEF t
  <2>5. Sent(p, sent) = [t EXCEPT !.nonces = nonces]
    BY <2>2, <2>4 DEF Typed, KernelState
  <2>6. t.nonces[n] \in NonceRecord /\ t.nonces \in [Nonces -> NonceRecord]
    BY <2>1, <2>2 DEF Typed, KernelState
  <2>7. since \in Int
    BY <1>1, <2>6, SMTT(30) DEF KernelState, NonceRecord
  <2> HIDE DEF since
  <2>8. /\ r \in NonceRecord /\ r.open = t.nonces[n].open
        /\ r.candidates = t.nonces[n].candidates /\ r.resolution = t.nonces[n].resolution
    BY <2>6, <2>7 DEF NonceRecord
  <2> HIDE DEF r
  <2>9. nonces \in [Nonces -> NonceRecord] /\ nonces[n] = r
        /\ \A m \in Nonces \ {n} : nonces[m] = t.nonces[m]
    BY <2>1, <2>6, <2>8
  <2> HIDE DEF nonces
  <2> DEFINE v == [t EXCEPT !.nonces = nonces]
  <2>10. Typed(v)
    BY <2>2, <2>9, NoncesTyped
  <2>11. /\ v.plans = t.plans /\ v.submissions = t.submissions /\ v.writes = t.writes
         /\ v.nextNonce = t.nextNonce /\ v.finalized = t.finalized /\ v.resends = t.resends
         /\ v.head = t.head /\ v.nonces = nonces
         /\ v.slot = t.slot /\ v.entries = t.entries /\ v.outcome = t.outcome
    BY <2>2 DEF Typed, KernelState
  <2> HIDE DEF v
  <2>12. \A m \in Nonces : /\ v.nonces[m].open = t.nonces[m].open
                           /\ v.nonces[m].candidates = t.nonces[m].candidates
                           /\ v.nonces[m].resolution = t.nonces[m].resolution
    BY <2>8, <2>9, <2>11
  <2>13. Retold(s, v)
    BY <2>2, <2>3, <2>11, <2>12 DEF Retold, SameTxs
  <2>14. InFlight(k, d) /\ p \in Executing(k)
    BY DEF Full, Safe, Executing
  <2>15. TxAt(n, c, k.nonces[n].candidates[c]) = TxIn(p, q)
    BY <2>14, PendingIsInFlight
  <2>16. OnFile(k, d, TxIn(p, q))
    BY <2>14 DEF InFlight
  <2>17. \A x : OnFile(s, d, x) <=> OnFile(k, d, x)
    BY <1>5 DEF OnFile
  <2>18. ASSUME NEW m \in Nonces, NEW x \in DOMAIN s.nonces[m].candidates,
                Out(v.nonces[m].candidates[x])
         PROVE \/ Out(s.nonces[m].candidates[x])
               \/ OnFile(s, d, TxAt(m, x, s.nonces[m].candidates[x]))
    <3>1. CASE m = n /\ x = c
      BY <1>5, <2>15, <2>16, <2>17, <3>1
    <3>2. CASE ~(m = n /\ x = c)
      BY <2>3, <2>12, <2>18, <3>2
    <3> QED
      BY <3>1, <3>2
  <2>19. \A m \in Nonces : v.nonces[m].resolution = s.nonces[m].resolution
    BY <2>3, <2>12
  <2>20. Onward(s, v, d, N, ch)
    BY <1>9, <2>3, <2>10, <2>11, <2>13, <2>18, <2>19, ToldOnward DEF Onward
  <2>21. LandsPlan(k, v, p)
    BY <1>12, <2>2, <2>3, <2>11 DEF LandsPlan
  <2>22. \A m \in Nonces : FewerRecord(k.nonces[m], v.nonces[m])
    BY <1>5, <2>3, <2>12 DEF FewerRecord, SameTxs
  <2>23. ToldOf(k, v, p)
    BY <1>5, <2>2, <2>3, <2>11, <2>21, <2>22 DEF ToldOf
  <2> QED
    BY <1>9, <2>5, <2>20, <2>23, OnwardTrans DEF v
<1> QED
  BY <1>10, <1>11

LEMMA ToldAttended ==
  ASSUME NEW s, NEW r, NEW d \in Ledger, NEW N, NEW R, NEW ch, Attended(s, d, N, R, ch),
         NEW p \in PlanIds, s.plans[p].phase = "expose", ToldOf(s, r, p), Full(r, d, N, ch)
  PROVE Attended(r, d, N, R, ch)
<1>1. /\ LandsPlan(s, r, p) /\ r.entries = s.entries /\ r.resends = s.resends
      /\ r.outcome = s.outcome /\ r.head = s.head /\ r.writes = s.writes
      /\ \A m \in Nonces : FewerRecord(s.nonces[m], r.nonces[m])
  BY DEF ToldOf, LandsPlan
<1>2. /\ Typed(s) /\ Works(s) /\ Offered(s, d, N, R, ch) /\ Fresh(s) /\ Witnessed(s, ch)
  BY DEF Attended, Full, Offered
<1>3. Works(r) /\ Back(s, r)
  BY <1>1, <1>2, LandedWorks
<1>4. Listed(r) \subseteq Listed(s)
  BY <1>1, FewerListed
<1>5. StillHeld(s, r) /\ Fresh(r)
  BY <1>1, <1>2 DEF StillHeld, Fresh
<1>6. Witnessed(r, ch)
  <2>1. \A n \in Nonces : SeenNonce(r, ch, n)
    BY <1>1, <1>2, SeenNonceKept DEF Witnessed
  <2>2. \A o \in Offers : SeenEntry(r, ch, o)
    BY <1>1, <1>2 DEF Witnessed, SeenEntry
  <2> QED
    BY <2>1, <2>2 DEF Witnessed
<1>7. Offered(r, d, N, R, ch)
  BY <1>1, <1>2, <1>3, <1>4, <1>5, <1>6, KeptOffered
<1> QED
  BY <1>1, <1>7 DEF Attended

-----------------------------------------------------------------------------
(* What is handed to the network.                                          *)

\* an event that brings the kernel to s, wherever the file, the network and the chain go
LEMMA HappensKeeps ==
  ASSUME SInv, IInv', Alive, NEW s, Onward(k, s, disk', net', chain'),
         k' = s \/ k' = Reduce(s), Advances(chain', disk, disk'), MinedWasSent',
         \A n \in Nonces : FinalOn(chain, n) => FinalOn(chain', n),
         OfferInv => \/ OfferInv'
                     \/ /\ Attended(s, disk', net', released', chain')
                        /\ k' # Reduce(s) => Issued(s)
                        /\ \A j \in DOMAIN chain'.mined : chain'.mined[j].block <= chain'.head
  PROVE Keeps
<1>1. /\ disk' \in Ledger /\ chain'.head \in Nat /\ Known = k /\ net' \in SUBSET Tx
      /\ Full(k, disk, net, chain) /\ k \in KernelState
  BY InvFull DEF IInv, TypeOK, Ledger
<1>2. Full(s, disk', net', chain') /\ s \in KernelState
  BY DEF Onward, Full, Typed
<1>3. /\ Onward(s, Reduce(s), disk', net', chain')
      /\ Onward(s, s, disk', net', chain')
  BY <1>1, <1>2, ReduceOnward, FullReady
<1>4. Full(k', disk', net', chain') /\ Advances(chain', s, k')
  BY <1>3 DEF Onward
<1>5. Advances(chain', k, k')
  <2>1. k.nextNonce \in Int /\ s.nextNonce \in Int /\ k'.nextNonce \in Int /\ Sound(k)
    BY <1>1, <1>2, <1>4 DEF KernelState, Full, Typed, Safe
  <2> QED
    BY <1>4, <2>1, AdvancesTrans DEF Onward
<1>6. SInv'
  BY <1>4 DEF SInv, Full
<1>7. ASSUME OfferInv PROVE OfferInv'
  <2> SUFFICES ASSUME ~OfferInv' PROVE OfferInv'
    OBVIOUS
  <2>1. CASE k' = Reduce(s)
    BY <1>7, <2>1, ReducedOffers
  <2>2. CASE k' = s /\ k' # Reduce(s)
    <3>1. /\ Offered(k', disk', net', released', chain') /\ Issued(k')
          /\ k'.outcome # "clean" /\ k'.head \in {0, chain'.head}
      BY <1>7, <2>2 DEF Attended
    <3>2. Ended(k', net', chain')
      BY <3>1 DEF Ended
    <3>3. Stored(k', disk', net', released', chain') /\ Covers(chain', k', released', Outside(k', net'))
      BY <3>1 DEF Offered
    <3> QED
      BY <1>7, <3>1, <3>2, <3>3 DEF OfferInv
  <2> QED
    BY <2>1, <2>2
<1> QED
  BY <1>1, <1>5, <1>6, <1>7 DEF Keeps

\* an event that, besides the kernel, changes what the network holds
LEMMA NetHandledKeeps ==
  ASSUME SInv, IInv', Alive, NEW s, Onward(k, s, disk, net', chain), k' = s \/ k' = Reduce(s),
         disk' = disk, chain' = chain,
         \A j \in DOMAIN chain.mined : chain.mined[j].tx # Foreign => chain.mined[j].tx \in net',
         OfferInv => Attended(s, disk, net', released', chain) /\ (k' # Reduce(s) => Issued(s))
  PROVE Keeps
<1>1. MinedWasSent'
  BY DEF MinedWasSent, SInv
<1>2. Advances(chain', disk, disk')
  BY InvFull, AdvancesItself DEF Ledger
<1>3. OfferInv => /\ Attended(s, disk', net', released', chain')
                  /\ k' # Reduce(s) => Issued(s)
                  /\ \A j \in DOMAIN chain'.mined : chain'.mined[j].block <= chain'.head
  BY DEF OfferInv
<1> QED
  BY <1>1, <1>2, <1>3, HappensKeeps

\* the kernel is as before, and what the network has gained is on file
LEMMA NetOnward ==
  ASSUME SInv, Alive, net' \in SUBSET Tx,
         \A t \in net' \ net : Lists(k, t) /\ OnFile(k, disk, t)
  PROVE /\ Onward(k, k, disk, net', chain)
        /\ OfferInv => Attended(k, disk, net', released, chain)
<1>1. /\ Full(k, disk, net, chain) /\ disk \in Ledger /\ net \in SUBSET Tx /\ Typed(k)
      /\ k \in KernelState
  BY InvFull
<1> DEFINE same == [k EXCEPT !.resends = k.resends]
<1>2. k.resends \in SUBSET Tx /\ same = k
  BY <1>1 DEF KernelState
<1>3. \A t \in (net' \cup k.resends) \ Outside(k, net) : Lists(k, t) /\ OnFile(k, disk, t)
  BY DEF Outside
<1>4. Typed(same)
  BY <1>1, <1>2
<1>5. Onward(k, same, disk, net', chain)
  BY <1>1, <1>2, <1>3, <1>4, MoreOutside
<1> HIDE DEF same
<1>6. Onward(k, k, disk, net', chain)
  BY <1>2, <1>5
<1>7. ASSUME OfferInv PROVE Attended(k, disk, net', released, chain)
  <2>1. Attended(k, disk, net, released, chain)
    BY <1>7, InvAttended
  <2>2. /\ Outside(k, net') \subseteq Tx
        /\ \A t \in Outside(k, net') \ Outside(k, net) : Lists(k, t) /\ OnFile(k, disk, t)
    BY <1>2, <1>3 DEF Outside
  <2>3. \A n \in Nonces : FewerRecord(k.nonces[n], k.nonces[n])
    BY DEF FewerRecord, SameTxs
  <2>4. Offered(k, disk, net', released, chain)
    BY <1>1, <2>1, <2>2, <2>3, OutsideOffered DEF Attended
  <2> QED
    BY <1>6, <2>1, <2>4 DEF Attended, Onward
<1> QED
  BY <1>6, <1>7

LEMMA HandoffKeeps == ASSUME SInv, IInv', NEW p \in PlanIds, Handoff(p) PROVE Keeps
<1>1. /\ Alive /\ k' = k /\ disk' = disk /\ chain' = chain
      /\ p \in Executing(k) /\ k.plans[p].phase = "expose"
  BY DEF Handoff, Exposing, InPhase
<1>2. /\ Full(k, disk, net, chain) /\ net' \in SUBSET Tx
  BY <1>1, InvFull DEF IInv, TypeOK
<1>3. \A t \in net' \ net : Lists(k, t) /\ OnFile(k, disk, t)
  <2>1. CASE Step(k, p).kind = "tx"
    <3>1. net' = net \cup {TxOf(p)}
      BY <2>1 DEF Handoff
    <3>2. TxOf(p) = TxIn(p, k.plans[p])
      BY DEF TxOf, TxIn
    <3> QED
      BY <1>1, <1>2, <2>1, <3>1, <3>2 DEF InFlight, Full, Safe
  <2>2. CASE Step(k, p).kind # "tx"
    BY <2>2 DEF Handoff
  <2> QED
    BY <2>1, <2>2
<1>4. /\ Onward(k, k, disk, net', chain)
      /\ OfferInv => Attended(k, disk, net', released, chain)
  BY <1>1, <1>2, <1>3, NetOnward
<1>5. net \subseteq net'
  BY DEF Handoff
<1>6. ASSUME OfferInv PROVE Attended(k, disk, net', released', chain)
  <2>1. CASE Step(k, p).kind = "tx"
    BY <1>4, <1>6, <2>1 DEF Handoff
  <2>2. CASE Step(k, p).kind # "tx"
    <3>1. released' = released \cup Step(k, p).exposes /\ net' = net
      BY <2>2 DEF Handoff
    <3>2. /\ p \in PlanIds /\ k.plans[p].status = "executing"
          /\ Attended(k, disk, net, released, chain)
      BY <1>1, <1>6, InvAttended DEF Executing
    <3>3. Offered(k, disk, net, released', chain)
      BY <1>1, <2>2, <3>1, <3>2, ReleasedOffered DEF Attended, Full
    <3> QED
      BY <3>1, <3>2, <3>3 DEF Attended
  <2> QED
    BY <2>1, <2>2
<1>7. OfferInv => Issued(k)
  BY <1>1, InvAttended
<1> QED
  BY <1>1, <1>4, <1>5, <1>6, <1>7, NetHandledKeeps DEF SInv, MinedWasSent

LEMMA HandoffAgainKeeps == ASSUME SInv, IInv', NEW t \in k.resends, HandoffAgain(t) PROVE Keeps
<1>1. /\ Alive /\ k' = k /\ disk' = disk /\ chain' = chain /\ net' = net \cup {t}
  BY DEF HandoffAgain
<1>2. /\ Full(k, disk, net, chain) /\ net' \in SUBSET Tx /\ disk \in Ledger
      /\ net \in SUBSET Tx /\ Typed(k) /\ k \in KernelState
  BY <1>1, InvFull DEF IInv, TypeOK
<1>3. net' = net \cup {t} /\ k.resends \subseteq Tx
  BY <1>1, <1>2 DEF KernelState
<1> DEFINE same == [k EXCEPT !.resends = k.resends]
<1>4. same = k /\ \A u \in (net' \cup k.resends) \ Outside(k, net) :
                     Lists(k, u) /\ OnFile(k, disk, u)
  BY <1>2, <1>3 DEF Outside, KernelState
<1>6. Typed(same)
  BY <1>2, <1>4
<1>7. Onward(k, same, disk, net', chain)
  BY <1>2, <1>3, <1>4, <1>6, MoreOutside
<1> HIDE DEF same
<1>5. Onward(k, k, disk, net', chain)
  BY <1>4, <1>7
<1>8. ASSUME OfferInv PROVE Attended(k, disk, net', released', chain) /\ Issued(k)
  <2>1. Attended(k, disk, net, released, chain) /\ Issued(k)
    BY <1>1, <1>8, InvAttended
  <2>2. Outside(k, net') = Outside(k, net) /\ released' = released
    BY <1>3 DEF Outside, HandoffAgain
  <2>3. Offered(k, disk, net', released, chain)
    BY <2>1, <2>2 DEF Attended, Offered, Stored
  <2> QED
    BY <1>5, <2>1, <2>2, <2>3 DEF Attended, Onward
<1> QED
  BY <1>1, <1>5, <1>8, NetHandledKeeps DEF SInv, MinedWasSent

LEMMA BroadcastedKeeps == ASSUME SInv, IInv', NEW p \in PlanIds, Broadcasted(p) PROVE Keeps
<1>1. PICK answer \in {"accepted", "unknown", "rejected"} :
        /\ net' = IF answer = "rejected" THEN net \ {TxOf(p)} ELSE net
        /\ k' = Reduce(Sent(p, answer))
  BY DEF Broadcasted
<1>2. /\ Alive /\ disk' = disk /\ chain' = chain /\ Step(k, p).kind = "tx"
      /\ k.plans[p].status = "executing" /\ k.plans[p].phase = "expose"
      /\ \A n \in DOMAIN chain.mined : net' # net => chain.mined[n].tx # TxOf(p)
  BY DEF Broadcasted, Exposing, InPhase, Executing
<1>3. net' \in SUBSET Tx /\ disk \in Ledger
  BY <1>2, InvFull DEF IInv, TypeOK
<1>4. \A t \in net' \ net : Lists(k, t) /\ OnFile(k, disk, t)
  BY <1>1
<1>5. /\ Full(k, disk, net', chain)
      /\ OfferInv => Attended(k, disk, net', released, chain)
  BY <1>2, <1>3, <1>4, NetOnward DEF Onward
<1>6. Onward(k, Sent(p, answer), disk, net', chain) /\ ToldOf(k, Sent(p, answer), p)
  BY <1>2, <1>3, <1>5, SentOnward DEF SendStatus
<1>8. ASSUME OfferInv
      PROVE Attended(Sent(p, answer), disk, net', released', chain)
  <2>1. released' = released
    BY DEF Broadcasted
  <2> QED
    BY <1>2, <1>3, <1>5, <1>6, <1>8, <2>1, ToldAttended DEF Onward
<1>7. \A j \in DOMAIN chain.mined : chain.mined[j].tx # Foreign => chain.mined[j].tx \in net'
  BY <1>1, <1>2 DEF SInv, MinedWasSent
<1> QED
  BY <1>1, <1>2, <1>6, <1>7, <1>8, NetHandledKeeps

LEMMA HandBackQuiet == ASSUME NEW s, Ready(s), NEW S PROVE Quiet(s, HandBackPending(s, S))
<1> DEFINE r == HandBackPending(s, S)
<1>1. Typed(r)
  BY HandBackPendingTyped DEF Ready
<1>2. /\ r.plans = s.plans /\ r.submissions = s.submissions /\ r.nonces = s.nonces
      /\ r.writes = s.writes /\ r.nextNonce = s.nextNonce /\ r.finalized = s.finalized
      /\ r.resends = s.resends /\ r.head = s.head
  BY DEF HandBackPending, Ready, Typed, KernelState
<1> HIDE DEF r
<1> QED
  BY <1>1, <1>2, SameFieldsQuiet DEF r

LEMMA HandBackMild == ASSUME NEW s, Ready(s), NEW S PROVE Mild(s, HandBackPending(s, S))
<1> DEFINE r == HandBackPending(s, S)
<1>1. /\ s.entries \in [Offers -> Entry] /\ r.plans = s.plans /\ r.slot = s.slot
      /\ r.outcome = s.outcome
  BY DEF HandBackPending, Ready, Typed, KernelState
<1>2. ASSUME NEW o \in Offers PROVE KeptEntry(s.entries[o], r.entries[o])
  <2> DEFINE e == s.entries[o]
             f == [e EXCEPT !.state = e.prior, !.neutralizing = NoHash]
  <2>1. e \in Entry /\ (r.entries[o] = e \/ r.entries[o] = f)
    BY <1>1 DEF HandBackPending, Ready, Typed, KernelState
  <2>2. KeptEntry(e, f)
    BY <2>1, HandedBackHeld DEF KeptEntry, Entry, Held, OpenEntry, NoHash, Hash
  <2> QED
    BY <2>1, <2>2, KeptEntryItself
<1> HIDE DEF r
<1> QED
  BY <1>1, <1>2, EntriesMild DEF r

LEMMA WithheldAtHandoffKeeps ==
  ASSUME SInv, IInv', NEW p \in PlanIds, WithheldAtHandoff(p)
  PROVE Keeps
<1> DEFINE s == Sent(p, "withheld")
           b == HandBackPending(s, {p})
<1>1. /\ Alive /\ Handle(FailPlans(b, {p})) /\ Step(k, p).kind = "tx"
      /\ k.plans[p].status = "executing" /\ k.plans[p].phase = "expose"
      /\ {p} \in SUBSET PlanIds
  BY DEF WithheldAtHandoff, Exposing, InPhase, Executing
<1>2. Full(k, disk, net, chain) /\ disk \in Ledger /\ net \in SUBSET Tx
  BY <1>1, InvFull
<1>3. Onward(k, s, disk, net, chain) /\ ToldOf(k, s, p)
  BY <1>1, <1>2, SentOnward DEF SendStatus
<1> HIDE DEF s
<1>4. Full(s, disk, net, chain) /\ Ready(s)
  BY <1>3, FullReady DEF Onward
<1>5. Quiet(s, b) /\ Mild(s, b) /\ Ready(b) /\ b.plans = s.plans
  <2>1. b.plans = s.plans
    BY DEF HandBackPending, b
  <2> QED
    BY <1>4, <2>1, HandBackQuiet, HandBackMild DEF Quiet
<1> HIDE DEF b
<1>9. Landed(b, {p})
  BY <1>3, <1>5 DEF ToldOf, LandsPlan, Landed, InFlightPlan
<1>10. Gentle(s, FailPlans(b, {p}))
  <2>1. Gentle(b, FailPlans(b, {p}))
    BY <1>1, <1>5, <1>9, FailPlansGentle
  <2> QED
    BY <1>4, <1>5, <2>1, GentleTrans DEF Gentle
<1>6. Quiet(s, FailPlans(b, {p}))
  BY <1>10 DEF Gentle
<1>11. ASSUME OfferInv PROVE Attended(FailPlans(b, {p}), disk, net, released, chain)
  <2>1. Attended(s, disk, net, released, chain)
    BY <1>1, <1>2, <1>3, <1>11, InvAttended, ToldAttended DEF Onward
  <2> QED
    BY <1>2, <1>10, <2>1, AttendedGentle
<1>7. Onward(s, FailPlans(b, {p}), disk, net, chain)
  BY <1>2, <1>4, <1>6, QuietOnward
<1>8. Onward(k, FailPlans(b, {p}), disk, net, chain)
  BY <1>2, <1>3, <1>7, OnwardTrans
<1> QED
  BY <1>1, <1>8, <1>11, HandledKeeps

\* the network has what was not known to be there
LEMMA AcceptedQuiet ==
  ASSUME NEW s, Ready(s), NEW n \in Nonces, NEW c \in DOMAIN s.nonces[n].candidates,
         s.nonces[n].candidates[c].sent = "unknown"
  PROVE Quiet(s, SetSent(s, n, c, "accepted"))
<1> DEFINE r == SetSent(s, n, c, "accepted")
<1>1. Typed(s) /\ "accepted" \in SendStatus
  BY DEF Ready, SendStatus
<1>2. Typed(r) /\ r.plans = s.plans
  BY <1>1, SetSentTyped
<1>3. /\ r.submissions = s.submissions /\ r.writes = s.writes
      /\ r.nextNonce = s.nextNonce /\ r.finalized = s.finalized
      /\ r.resends = s.resends /\ r.head = s.head
      /\ \A m \in Nonces : /\ SameTxs(s.nonces[m], r.nonces[m])
                           /\ r.nonces[m].open = s.nonces[m].open
                           /\ r.nonces[m].resolution = s.nonces[m].resolution
      /\ \A m \in Nonces : \A x \in DOMAIN s.nonces[m].candidates :
           <<m, x>> # <<n, c>> => r.nonces[m].candidates[x] = s.nonces[m].candidates[x]
  BY <1>1, SetSentFields
<1> HIDE DEF r
<1>4. \A m \in Nonces : \A x \in DOMAIN s.nonces[m].candidates :
        Out(r.nonces[m].candidates[x]) => Out(s.nonces[m].candidates[x])
  <2> SUFFICES ASSUME NEW m \in Nonces, NEW x \in DOMAIN s.nonces[m].candidates,
                      Out(r.nonces[m].candidates[x])
               PROVE Out(s.nonces[m].candidates[x])
    OBVIOUS
  <2>1. CASE m = n /\ x = c
    BY <2>1 DEF Out
  <2>2. CASE ~(m = n /\ x = c)
    BY <1>3, <2>2
  <2> QED
    BY <2>1, <2>2
<1>5. \A m \in Nonces : SameRecord(s.nonces[m], r.nonces[m])
  BY <1>3, <1>4 DEF SameTxs, SameRecord
<1>6. SameLists(s, r)
  BY <1>3, <1>5 DEF SameLists
<1> QED
  BY <1>2, <1>3, <1>6, SameQuiet DEF r

LEMMA AcceptedGentle ==
  ASSUME NEW s, Ready(s), NEW n \in Nonces, NEW c \in DOMAIN s.nonces[n].candidates,
         s.nonces[n].candidates[c].sent = "unknown"
  PROVE Gentle(s, SetSent(s, n, c, "accepted"))
<1> DEFINE r == SetSent(s, n, c, "accepted")
<1>1. Quiet(s, r)
  BY AcceptedQuiet
<1>2. r.plans = s.plans /\ r.slot = s.slot /\ r.entries = s.entries /\ r.outcome = s.outcome
  <2>1. Typed(s) /\ "accepted" \in SendStatus
    BY DEF Ready, SendStatus
  <2> QED
    BY <2>1, SetSentTyped, SetSentAsides
<1> HIDE DEF r
<1>3. Gentle(s, r)
  BY <1>1, <1>2, SameMild DEF Gentle
<1> QED
  BY <1>3 DEF r

LEMMA SeenKeeps == ASSUME SInv, IInv', NEW t \in net, Seen(t) PROVE Keeps
<1>1. /\ Alive /\ t.place \in DOMAIN k.nonces[t.nonce].candidates
      /\ k.nonces[t.nonce].candidates[t.place].sent = "unknown"
      /\ Handle(SetSent(k, t.nonce, t.place, "accepted"))
  BY DEF Seen
<1>2. Ready(k) /\ t.nonce \in Nonces
  BY <1>1, InvFull DEF Tx
<1>3. Gentle(k, SetSent(k, t.nonce, t.place, "accepted"))
  BY <1>1, <1>2, AcceptedGentle
<1> QED
  BY <1>1, <1>3, GentleKeeps

LEMMA ResendAnsweredKeeps ==
  ASSUME SInv, IInv', NEW t \in k.resends, ResendAnswered(t)
  PROVE Keeps
<1> DEFINE s == [k EXCEPT !.resends = @ \ {t}]
           listed == /\ t.place \in DOMAIN k.nonces[t.nonce].candidates
                     /\ k.nonces[t.nonce].candidates[t.place].sent = "unknown"
<1>1. Alive
  BY DEF ResendAnswered
<1>2. PICK accepted \in BOOLEAN :
        /\ accepted => listed
        /\ Handle(IF accepted THEN SetSent(s, t.nonce, t.place, "accepted") ELSE s)
  BY DEF ResendAnswered
<1>3. Ready(k) /\ k \in KernelState /\ t.nonce \in Nonces
  BY <1>1, InvFull DEF KernelState, Tx
<1>4. /\ s \in KernelState /\ s.plans = k.plans /\ s.submissions = k.submissions
      /\ s.nonces = k.nonces /\ s.writes = k.writes /\ s.nextNonce = k.nextNonce
      /\ s.finalized = k.finalized /\ s.resends \subseteq k.resends /\ s.head = k.head
      /\ s.slot = k.slot /\ s.entries = k.entries /\ s.outcome = k.outcome
  BY <1>3 DEF KernelState
<1> HIDE DEF s
<1>5. Gentle(k, s)
  <2>1. Quiet(k, s)
    BY <1>3, <1>4, SamePlansTyped, SameFieldsQuiet DEF Ready
  <2> QED
    BY <1>4, <2>1, SameMild DEF Gentle
<1>6. Ready(s)
  BY <1>5, GentleReady
<1>7. CASE accepted
  <2>1. Gentle(s, SetSent(s, t.nonce, t.place, "accepted"))
    BY <1>2, <1>3, <1>4, <1>6, <1>7, AcceptedGentle
  <2>2. Gentle(k, SetSent(s, t.nonce, t.place, "accepted"))
    BY <1>3, <1>5, <2>1, GentleTrans
  <2> QED
    BY <1>1, <1>2, <1>7, <2>2, GentleKeeps
<1>8. CASE ~accepted
  BY <1>1, <1>2, <1>5, <1>8, GentleKeeps
<1> QED
  BY <1>7, <1>8

-----------------------------------------------------------------------------
(* The answer to the oldest write.                                         *)

LEMMA AnsweredFields ==
  ASSUME NEW s, Typed(s), s.writes # <<>>
  PROVE LET r == Answered(s)
        IN /\ r.submissions = s.submissions /\ r.nonces = s.nonces
           /\ r.nextNonce = s.nextNonce /\ r.finalized = s.finalized
           /\ r.resends = s.resends /\ r.head = s.head
           /\ r.writes \in Seq(Ledger)
           /\ \A w \in DOMAIN r.writes : w + 1 \in DOMAIN s.writes
                                         /\ r.writes[w] = s.writes[w + 1]
           /\ 1 \in DOMAIN s.writes /\ Head(s.writes) = s.writes[1]
           /\ \A p \in PlanIds :
                LET q == s.plans[p]
                    u == r.plans[p]
                IN /\ u.status = q.status /\ u.exposed = q.exposed /\ u.cursor = q.cursor
                   /\ u.nonce = q.nonce /\ u.pending = q.pending /\ u.phase = q.phase
                   /\ q.flush > 0 => u.flush = q.flush - 1
                   /\ q.flush \in Nat
<1> DEFINE plans == [p \in PlanIds |->
               IF s.plans[p].flush > 0 THEN [s.plans[p] EXCEPT !.flush = @ - 1]
               ELSE s.plans[p]]
           r == Answered(s)
<1>0. s \in KernelState /\ s.writes \in Seq(Ledger)
  BY DEF Typed, KernelState
<1>1. r = [s EXCEPT !.writes = Tail(s.writes), !.plans = plans]
  BY <1>0 DEF Answered, KernelState
<1> HIDE DEF plans, r
<1>2. /\ r.submissions = s.submissions /\ r.nonces = s.nonces
      /\ r.nextNonce = s.nextNonce /\ r.finalized = s.finalized
      /\ r.resends = s.resends /\ r.head = s.head /\ r.writes = Tail(s.writes)
      /\ r.plans = plans
  BY <1>0, <1>1, ZenonT(60) DEF KernelState
<1>3. /\ Tail(s.writes) \in Seq(Ledger) /\ 1 \in DOMAIN s.writes /\ Head(s.writes) = s.writes[1]
      /\ \A w \in DOMAIN Tail(s.writes) : /\ w + 1 \in DOMAIN s.writes
                                          /\ Tail(s.writes)[w] = s.writes[w + 1]
  BY <1>0, SMTT(30)
<1>4. ASSUME NEW p \in PlanIds
      PROVE LET q == s.plans[p]
                u == plans[p]
            IN /\ u.status = q.status /\ u.exposed = q.exposed /\ u.cursor = q.cursor
               /\ u.nonce = q.nonce /\ u.pending = q.pending /\ u.phase = q.phase
               /\ q.flush > 0 => u.flush = q.flush - 1
               /\ q.flush \in Nat
  <2>1. s.plans[p] \in Plan
    BY <1>0 DEF KernelState
  <2>2. ASSUME NEW f
        PROVE LET new == [s.plans[p] EXCEPT !.flush = f]
                  q == s.plans[p]
              IN /\ new.status = q.status /\ new.exposed = q.exposed /\ new.cursor = q.cursor
                 /\ new.nonce = q.nonce /\ new.pending = q.pending /\ new.phase = q.phase
                 /\ new.flush = f
    BY <2>1 DEF Plan
  <2>3. plans[p] = IF s.plans[p].flush > 0
                   THEN [s.plans[p] EXCEPT !.flush = s.plans[p].flush - 1] ELSE s.plans[p]
    BY <2>1 DEF plans, Plan
  <2>4. s.plans[p].flush \in Nat
    BY <2>1 DEF Plan
  <2>5. CASE s.plans[p].flush > 0
    BY <2>2, <2>3, <2>4, <2>5
  <2>6. CASE ~(s.plans[p].flush > 0)
    BY <2>3, <2>4, <2>6
  <2> QED
    BY <2>5, <2>6
<1> QED
  BY <1>2, <1>3, <1>4 DEF r

\* In m, what waited in s for the oldest write is exposing, or done with it, and the others wait
\* for one write less.
Shifts(s, m) ==
  /\ m.entries = s.entries /\ m.nonces = s.nonces /\ m.resends = s.resends
  /\ m.outcome = s.outcome /\ m.head = s.head
  /\ Len(m.writes) = Len(s.writes) - 1
  /\ \A w \in DOMAIN m.writes : w + 1 \in DOMAIN s.writes /\ m.writes[w] = s.writes[w + 1]
  /\ \A p \in PlanIds :
       LET q == s.plans[p]
           u == m.plans[p]
       IN /\ u.status = q.status /\ u.cursor = q.cursor /\ u.target = q.target
          /\ q.flush > 0 => u.flush = q.flush - 1
          /\ IF p \in InPhase(s, "commit") /\ q.flush <= 1
             THEN u.phase \in {"expose", "include"} ELSE u.phase = q.phase
  /\ \/ m.slot = Free
     \/ m.slot \in InPhase(m, "expose")
     \/ m.slot = s.slot /\ \A p \in InPhase(s, "commit") : s.plans[p].flush > 1

LEMMA ShiftedWorks ==
  ASSUME NEW s, NEW m, Typed(s), Works(s), Issued(s), Shifts(s, m)
  PROVE Works(m) /\ Issued(m)
<1>1. AllFit(m)
  <2> SUFFICES ASSUME NEW p \in PlanIds PROVE Fits(p, m.plans[p])
    BY DEF AllFit
  <2>1. Fits(p, s.plans[p])
    BY DEF Works, AllFit
  <2> QED
    BY <2>1 DEF Fits, Shifts
<1>2. /\ Len(s.writes) \in Nat
      /\ \A p \in PlanIds : s.plans[p].flush \in Nat
  BY DEF Typed, KernelState, Plan
<1>3. ASSUME NEW p \in InPhase(m, "commit")
      PROVE p \in InPhase(s, "commit") /\ m.plans[p].flush \in 1 .. Len(m.writes)
  <2>1. p \in PlanIds /\ m.plans[p].status = "executing" /\ m.plans[p].phase = "commit"
    BY DEF InPhase, Executing
  <2>2. s.plans[p].status = "executing" /\ s.plans[p].phase = "commit" /\ ~(s.plans[p].flush <= 1)
    BY <2>1 DEF Shifts, InPhase, Executing
  <2>3. p \in InPhase(s, "commit")
    BY <2>1, <2>2 DEF InPhase, Executing
  <2>4. s.plans[p].flush \in 1 .. Len(s.writes)
    BY <2>3 DEF Issued
  <2>5. m.plans[p].flush = s.plans[p].flush - 1 /\ Len(m.writes) = Len(s.writes) - 1
    BY <2>1, <2>4 DEF Shifts
  <2> QED
    BY <1>2, <2>2, <2>3, <2>4, <2>5
<1>4. Issued(m)
  BY <1>3 DEF Issued
<1>5. \A p \in InPhase(m, "commit") : m.plans[p].flush \in 1 .. Len(m.writes) + 1
  <2>1. Len(m.writes) \in Int
    BY <1>2 DEF Shifts
  <2> QED
    BY <1>3, <2>1
<1>6. CASE m.slot = Free
  <2>1. Free # Committing /\ Free \notin PlanIds
    BY NotPlans DEF Free, Committing
  <2> QED
    BY <1>1, <1>4, <1>5, <1>6, <2>1 DEF Works
<1>7. CASE m.slot \in InPhase(m, "expose")
  <2>1. m.slot \in PlanIds /\ Occupies(m, m.slot)
    BY <1>7 DEF Occupies, InPhase, Executing
  <2> QED
    BY <1>1, <1>4, <1>5, <2>1, NotPlans DEF Works
<1>8. CASE m.slot = s.slot /\ \A p \in InPhase(s, "commit") : s.plans[p].flush > 1
  <2>1. \A p \in PlanIds : /\ m.plans[p].phase = s.plans[p].phase
                           /\ m.plans[p].status = s.plans[p].status
                           /\ m.plans[p].cursor = s.plans[p].cursor
    BY <1>2, <1>8 DEF Shifts
  <2>2. InPhase(m, "commit") = InPhase(s, "commit")
    BY <2>1 DEF InPhase, Executing
  <2>3. \A p \in PlanIds : Occupies(s, p) => Occupies(m, p)
    BY <2>1 DEF Occupies, Step
  <2> QED
    BY <1>1, <1>4, <1>5, <1>8, <2>2, <2>3 DEF Works
<1> QED
  BY <1>6, <1>7, <1>8 DEF Shifts

LEMMA ShiftedReleases ==
  ASSUME NEW s, NEW m, NEW d, NEW ch, Typed(s), Typed(m), Issued(s), Shifts(s, m),
         s.writes # <<>>, Releases(s, d, ch), NEW e, e = d \/ e = s.writes[1],
         \A p \in PlanIds : m.plans[p].phase = "expose" /\ s.plans[p].phase = "commit"
                              => e = s.writes[1]
  PROVE Releases(m, e, ch)
<1> SUFFICES ASSUME NEW p \in PlanIds, InFlightPlan(m.plans[p]), Step(m, p).kind # "tx",
                    NEW o \in Step(m, p).exposes, Exposure[o] = "broadcast" /\ ~OverOn(ch, o)
             PROVE Releasable(m, e, p, o)
  BY DEF Releases
<1> DEFINE q == s.plans[p]
           u == m.plans[p]
<1>1. /\ InFlightPlan(q) /\ Step(s, p) = Step(m, p)
      /\ q.flush > 0 => u.flush = q.flush - 1
      /\ IF p \in InPhase(s, "commit") /\ q.flush <= 1
         THEN u.phase \in {"expose", "include"} ELSE u.phase = q.phase
      /\ q.status = u.status
      /\ \A w \in DOMAIN m.writes : w + 1 \in DOMAIN s.writes /\ m.writes[w] = s.writes[w + 1]
      /\ m.entries = s.entries
  BY DEF Shifts, Step, InFlightPlan, InPhase, Executing
<1>2. Releasable(s, d, p, o)
  BY <1>1 DEF Releases
<1>3. /\ 1 \in DOMAIN s.writes /\ q.flush \in Nat
      /\ \A w \in DOMAIN m.writes : w \in Nat \ {0}
  <2>1. s.writes \in Seq(Ledger) /\ m.writes \in Seq(Ledger) /\ q \in Plan
    BY DEF Typed, KernelState
  <2>2. Len(s.writes) \in Nat /\ Len(s.writes) # 0 /\ DOMAIN s.writes = 1 .. Len(s.writes)
    BY <2>1, EmptySeq, LenProperties
  <2>3. Len(m.writes) \in Nat /\ DOMAIN m.writes = 1 .. Len(m.writes)
    BY <2>1, LenProperties
  <2> QED
    BY <2>1, <2>2, <2>3 DEF Plan
<1>4. s.entries[o].state \in Held
  BY <1>2 DEF Releasable
<1>5. CASE q.phase = "expose"
  <2>1. u.phase = "expose"
    BY <1>1, <1>5 DEF InPhase
  <2>2. \A w \in DOMAIN s.writes : s.writes[w].entries[o].state \in Held
    BY <1>2, <1>5 DEF Releasable
  <2>3. d.entries[o].state \in Held
    BY <1>2, <1>5 DEF Releasable
  <2> QED
    BY <1>1, <1>3, <1>4, <2>2, <2>3 DEF Releasable
<1>6. CASE q.phase = "commit"
  <2>1. p \in InPhase(s, "commit") /\ q.flush \in 1 .. Len(s.writes)
    BY <1>1, <1>6 DEF InPhase, Executing, Issued, InFlightPlan
  <2>2. \A w \in DOMAIN s.writes : w >= q.flush => s.writes[w].entries[o].state \in Held
    BY <1>2 DEF Releasable
  <2>3. CASE u.phase = "commit"
    <3>1. u.flush = q.flush - 1 /\ q.flush \in Nat
      BY <1>1, <1>3, <2>1
    <3>2. ASSUME NEW w \in DOMAIN m.writes, w >= u.flush PROVE m.writes[w].entries[o].state \in Held
      BY <1>1, <1>3, <2>2, <3>1, <3>2
    <3> QED
      BY <1>1, <1>4, <2>3, <3>2 DEF Releasable
  <2>4. CASE u.phase = "expose"
    <3>1. q.flush <= 1 /\ e = s.writes[1]
      BY <1>1, <1>6, <2>4 DEF InPhase
    <3>2. \A w \in DOMAIN s.writes : s.writes[w].entries[o].state \in Held
      <4>1. \A w \in DOMAIN s.writes : w \in Nat \ {0}
        BY DEF Typed, KernelState
      <4>2. \A w \in DOMAIN s.writes : w >= q.flush
        BY <1>3, <3>1, <4>1
      <4> QED
        BY <2>2, <4>2
    <3> QED
      BY <1>1, <1>3, <1>4, <3>1, <3>2 DEF Releasable
  <2> QED
    BY <2>3, <2>4 DEF InFlightPlan
<1> QED
  BY <1>1, <1>5, <1>6 DEF InFlightPlan

LEMMA ShiftedAttended ==
  ASSUME NEW s, NEW m, NEW d, NEW N, NEW R, NEW ch, Attended(s, d, N, R, ch), Issued(s),
         Shifts(s, m), s.writes # <<>>, NEW e, Full(m, e, N, ch), e \in {d, Head(s.writes)},
         \A p \in PlanIds : m.plans[p].phase = "expose" /\ s.plans[p].phase = "commit"
                              => e = Head(s.writes)
  PROVE Attended(m, e, N, R, ch)
<1>1. /\ Typed(s) /\ Typed(m) /\ Works(s) /\ Offered(s, d, N, R, ch)
      /\ Stored(s, d, N, R, ch) /\ Covers(ch, s, R, Outside(s, N)) /\ Releases(s, d, ch)
      /\ Fresh(s) /\ Witnessed(s, ch)
  BY DEF Attended, Full, Offered
<1>2. /\ m.entries = s.entries /\ m.nonces = s.nonces /\ m.resends = s.resends
      /\ m.outcome = s.outcome /\ m.head = s.head
      /\ \A w \in DOMAIN m.writes : w + 1 \in DOMAIN s.writes /\ m.writes[w] = s.writes[w + 1]
  BY DEF Shifts
<1>3. Head(s.writes) = s.writes[1] /\ 1 \in DOMAIN s.writes
  <2>1. s.writes \in Seq(Ledger)
    BY <1>1 DEF Typed, KernelState
  <2> QED
    BY <2>1, EmptySeq, LenProperties
<1>4. Works(m)
  BY <1>1, ShiftedWorks
<1>5. Outside(m, N) = Outside(s, N) /\ Listed(m) = Listed(s)
  BY <1>2 DEF Outside, Listed
<1>6. Stored(m, e, N, R, ch)
  <2>1. e = d \/ e = s.writes[1]
    BY <1>3
  <2> QED
    BY <1>1, <1>2, <1>3, <1>5, <2>1 DEF Stored
<1>7. Covers(ch, m, R, Outside(m, N))
  <2>1. Listed(m) \subseteq Listed(s) /\ Outside(m, N) \subseteq Outside(s, N) \cup Listed(s)
    BY <1>5
  <2> QED
    BY <1>1, <1>2, <2>1, CoversKept
<1>8. Releases(m, e, ch)
  BY <1>1, <1>3, ShiftedReleases
<1>9. Fresh(m) /\ Witnessed(m, ch)
  BY <1>1, <1>2 DEF Fresh, Witnessed, SeenNonce, SeenEntry
<1> QED
  BY <1>2, <1>4, <1>6, <1>7, <1>8, <1>9 DEF Attended, Offered

LEMMA AnsweredAsides ==
  ASSUME NEW s, Typed(s), s.writes # <<>>
  PROVE LET r == Answered(s)
        IN /\ r.slot = s.slot /\ r.entries = s.entries /\ r.outcome = s.outcome
           /\ Len(r.writes) = Len(s.writes) - 1
           /\ \A p \in PlanIds : r.plans[p].target = s.plans[p].target
<1> DEFINE r == Answered(s)
           plans == [p \in PlanIds |->
               IF s.plans[p].flush > 0 THEN [s.plans[p] EXCEPT !.flush = @ - 1]
               ELSE s.plans[p]]
<1>1. s \in KernelState /\ s.writes \in Seq(Ledger)
  BY DEF Typed, KernelState
<1>2. r = [s EXCEPT !.writes = Tail(s.writes), !.plans = plans]
  BY <1>1 DEF Answered, KernelState
<1>3. Len(Tail(s.writes)) = Len(s.writes) - 1
  BY <1>1, HeadTailProperties
<1>4. ASSUME NEW p \in PlanIds PROVE plans[p].target = s.plans[p].target
  <2>1. s.plans[p] \in Plan
    BY <1>1 DEF KernelState
  <2>2. \A f : [s.plans[p] EXCEPT !.flush = f].target = s.plans[p].target
    BY <2>1 DEF Plan
  <2> QED
    BY <2>2
<1> HIDE DEF plans, r
<1>5. /\ r.slot = s.slot /\ r.entries = s.entries /\ r.outcome = s.outcome
      /\ r.writes = Tail(s.writes) /\ r.plans = plans
  BY <1>1, <1>2, ZenonT(60) DEF KernelState
<1> QED
  BY <1>3, <1>4, <1>5 DEF r

\* the file is as it was or, with what waited for the write on it, the write
LEMMA AnsweredOnward ==
  ASSUME NEW d \in Ledger, NEW N \in SUBSET Tx, NEW ch, NEW s, Full(s, d, N, ch),
         s.writes # <<>>, NEW e \in {d, Head(s.writes)}
  PROVE /\ Onward(s, Answered(s), e, N, ch)
        /\ Advances(ch, d, e)
        /\ \A p \in Executing(s) :
             /\ e = Head(s.writes) /\ s.plans[p].phase = "commit" /\ Step(s, p).kind = "tx"
             /\ s.plans[p].flush <= 1
             => OnFile(Answered(s), e, TxIn(p, s.plans[p]))
<1> DEFINE r == Answered(s)
<1>1. /\ r.submissions = s.submissions /\ r.nonces = s.nonces
      /\ r.nextNonce = s.nextNonce /\ r.finalized = s.finalized
      /\ r.resends = s.resends /\ r.head = s.head
      /\ r.writes \in Seq(Ledger)
      /\ \A w \in DOMAIN r.writes : w + 1 \in DOMAIN s.writes
                                    /\ r.writes[w] = s.writes[w + 1]
      /\ 1 \in DOMAIN s.writes /\ Head(s.writes) = s.writes[1]
      /\ \A p \in PlanIds :
           LET q == s.plans[p]
               u == r.plans[p]
           IN /\ u.status = q.status /\ u.exposed = q.exposed /\ u.cursor = q.cursor
              /\ u.nonce = q.nonce /\ u.pending = q.pending /\ u.phase = q.phase
              /\ q.flush > 0 => u.flush = q.flush - 1
              /\ q.flush \in Nat
  BY AnsweredFields DEF Full
<1>2. Typed(r)
  BY AnsweredTyped DEF Full
<1> HIDE DEF r
<1>3. /\ e = d \/ e = s.writes[1]
      /\ SoundFile(e) /\ Once(e, Outside(s, N)) /\ Advances(ch, e, s)
      /\ \A w \in DOMAIN s.writes : w # 1 => Advances(ch, e, s.writes[w])
      /\ \A t : OnFile(s, d, t) => Lists(e, t)
  <2>1. e = d \/ e = s.writes[1]
    BY <1>1
  <2>2. CASE e = d
    BY <2>2 DEF Full, Filed, Safe, OnFile
  <2>3. CASE e = s.writes[1]
    <3>1. \A w \in DOMAIN s.writes : w \in Nat \ {0}
      BY DEF Full, Typed, KernelState
    <3>2. \A w \in DOMAIN s.writes : 1 \in 1 .. w
      BY <3>1
    <3> QED
      BY <1>1, <2>3, <3>2 DEF Full, Filed, Safe, OnFile
  <2> QED
    BY <2>1, <2>2, <2>3
<1>4. Outside(r, N) = Outside(s, N) /\ Listed(r) = Listed(s)
  BY <1>1 DEF Outside, Listed
<1>5. \A t : OnFile(s, d, t) => OnFile(r, e, t)
  BY <1>1, <1>3 DEF OnFile
<1>6. \A t : Lists(r, t) <=> Lists(s, t)
  BY <1>1 DEF Lists
<1>7. \A w \in DOMAIN r.writes : w \in Nat \ {0}
  BY <1>1
<1>8. Filed(r, e, N, ch)
  <2>1. ASSUME NEW w \in DOMAIN r.writes
        PROVE /\ SoundFile(r.writes[w]) /\ Once(r.writes[w], Outside(r, N))
              /\ Advances(ch, e, r.writes[w])
              /\ \A v \in 1 .. w : Advances(ch, r.writes[v], r.writes[w])
    <3>1. w + 1 \in DOMAIN s.writes /\ r.writes[w] = s.writes[w + 1] /\ w + 1 # 1
      BY <1>1, <1>7
    <3>2. ASSUME NEW v \in 1 .. w PROVE Advances(ch, r.writes[v], r.writes[w])
      <4>1. v \in DOMAIN r.writes /\ v + 1 \in 1 .. w + 1
        BY <1>1, <1>7
      <4>2. r.writes[v] = s.writes[v + 1]
        BY <1>1, <4>1
      <4> QED
        BY <3>1, <4>1, <4>2 DEF Full, Filed
    <3>3. SoundFile(s.writes[w + 1]) /\ Once(s.writes[w + 1], Outside(s, N))
      BY <3>1 DEF Full, Filed
    <3> QED
      BY <1>3, <1>4, <3>1, <3>2, <3>3
  <2>2. \A t \in Outside(r, N) : FinalOn(ch, t.nonce) \/ OnFile(r, e, t)
    BY <1>4, <1>5 DEF Full, Filed
  <2> QED
    BY <1>3, <1>4, <2>1, <2>2 DEF Filed
<1>9. Submitted(r) /\ Behind(r)
  <2>1. \A i \in Intents : StepPlan(i) \in PlanIds
    BY DEF StepPlan, PlanIds
  <2> QED
    BY <1>1, <2>1 DEF Submitted, Behind, Full, Safe
<1>10. Evidence(r, ch) /\ Sound(r) /\ Once(r, Outside(r, N))
  BY <1>1, <1>4 DEF Evidence, Sound, Once, Full, Safe
<1>11. InFlight(r, e)
  <2> SUFFICES ASSUME NEW x \in Executing(r), r.plans[x].phase \in {"commit", "expose"},
                      Step(r, x).kind = "tx"
               PROVE LET t == TxIn(x, r.plans[x])
                     IN /\ Lists(r, t)
                        /\ \A w \in DOMAIN r.writes :
                             w >= r.plans[x].flush => Lists(r.writes[w], t)
                        /\ r.plans[x].phase = "expose" => OnFile(r, e, t)
    BY DEF InFlight
  <2>1. x \in PlanIds
    BY DEF Executing
  <2>2. /\ x \in Executing(s) /\ Step(s, x) = Step(r, x)
        /\ TxIn(x, r.plans[x]) = TxIn(x, s.plans[x])
        /\ s.plans[x].phase = r.plans[x].phase
    BY <1>1, <2>1 DEF Executing, Step, TxIn
  <2>3. /\ Lists(s, TxIn(x, s.plans[x]))
        /\ \A w \in DOMAIN s.writes :
             w >= s.plans[x].flush => Lists(s.writes[w], TxIn(x, s.plans[x]))
        /\ s.plans[x].phase = "expose" => OnFile(s, d, TxIn(x, s.plans[x]))
    BY <2>2 DEF InFlight, Full, Safe
  <2>4. ASSUME NEW w \in DOMAIN r.writes, w >= r.plans[x].flush
        PROVE w + 1 >= s.plans[x].flush
    <3>1. r.plans[x].flush \in Nat
      BY <1>2, <2>1 DEF Typed, KernelState, Plan
    <3> QED
      BY <1>1, <1>7, <2>1, <2>4, <3>1
  <2> QED
    BY <1>1, <1>5, <1>6, <2>2, <2>3, <2>4
<1>12. Passed(r, Outside(r, N))
  <2>1. s.nonces \in [Nonces -> NonceRecord] /\ s.resends \subseteq Tx
    BY DEF Full, Typed, KernelState
  <2>2. Outside(s, N) \cup Listed(s) \subseteq Tx
    BY <2>1, ListedTyped DEF Outside
  <2>3. ASSUME NEW t \in Outside(s, N) \cup Listed(s), ~Recovery(t.plan),
               r.plans[t.plan].status = "executing"
        PROVE Past(r.plans[t.plan], t)
    <3>1. t.plan \in PlanIds
      BY <2>2 DEF Tx
    <3>2. Past(s.plans[t.plan], t)
      BY <1>1, <2>3, <3>1 DEF Passed, Full, Safe
    <3> QED
      BY <1>1, <3>1, <3>2 DEF Past
  <2> QED
    BY <1>4, <2>3 DEF Passed
<1>13. OutOnFile(r, e)
  BY <1>1, <1>5 DEF OutOnFile, Full, Safe
<1>14. /\ Advances(ch, s, r) /\ Advances(ch, e, r)
       /\ \A w \in DOMAIN r.writes : Advances(ch, r.writes[w], r)
  <2>1. \A l : Advances(ch, l, s) => Advances(ch, l, r)
    BY <1>1 DEF Advances, HoleOn
  <2>2. s.nextNonce \in Int
    BY DEF Full, Typed, KernelState
  <2> QED
    BY <1>1, <1>3, <2>1, <2>2, AdvancesItself DEF Full, Safe
<1>15. Safe(r, e, N, ch)
  BY <1>4, <1>6, <1>9, <1>10, <1>11, <1>12, <1>13, <1>14 DEF Safe, Full
<1>16. Advances(ch, d, e)
  BY <1>1, <1>3, AdvancesItself DEF Ledger, Full, Filed
<1>17. ASSUME NEW p \in Executing(s), e = Head(s.writes), s.plans[p].phase = "commit",
              Step(s, p).kind = "tx", s.plans[p].flush <= 1
       PROVE OnFile(r, e, TxIn(p, s.plans[p]))
  <2>1. \A w \in DOMAIN s.writes : Lists(s.writes[w], TxIn(p, s.plans[p]))
    <3>1. p \in PlanIds /\ \A w \in DOMAIN s.writes : w \in Nat \ {0}
      BY DEF Full, Typed, KernelState, Executing
    <3>2. \A w \in DOMAIN s.writes : w >= s.plans[p].flush
      BY <1>1, <1>17, <3>1
    <3> QED
      BY <1>17, <3>2 DEF InFlight, Full, Safe
  <2> QED
    BY <1>1, <1>17, <2>1 DEF OnFile
<1> QED
  BY <1>2, <1>8, <1>14, <1>15, <1>16, <1>17 DEF Onward, Full, r

\* a first step that may change the file or the network, and one that does not
LEMMA OnwardFrom ==
  ASSUME NEW s, NEW r, NEW u, NEW d, NEW N, NEW e, NEW M, NEW ch,
         Full(s, d, N, ch), Onward(s, r, e, M, ch), Onward(r, u, e, M, ch)
  PROVE Onward(s, u, e, M, ch)
<1>1. Sound(s) /\ s.nextNonce \in Int /\ r.nextNonce \in Int /\ u.nextNonce \in Int
  BY DEF Onward, Full, Safe, Typed, KernelState
<1> QED
  BY <1>1, AdvancesTrans DEF Onward

\* the pending candidates of the plans in S never left
LEMMA MarkPendingQuiet ==
  ASSUME NEW s, Ready(s), NEW S, NEW sent \in {"withheld", "rejected"}
  PROVE Quiet(s, MarkPending(s, S, sent))
<1> DEFINE pending(n, c) == \E p \in S : HasPending(p) /\ k.plans[p].nonce = n
                                                      /\ k.plans[p].pending = c
           cs(n) == [c \in DOMAIN s.nonces[n].candidates |->
                       IF pending(n, c) THEN [s.nonces[n].candidates[c] EXCEPT !.sent = sent]
                       ELSE s.nonces[n].candidates[c]]
           nonces == [n \in Nonces |-> [s.nonces[n] EXCEPT !.candidates = cs(n)]]
           r == MarkPending(s, S, sent)
<1>0. s \in KernelState /\ s.nonces \in [Nonces -> NonceRecord]
  BY DEF Ready, Typed, KernelState
<1>1. r = [s EXCEPT !.nonces = nonces]
  BY DEF MarkPending
<1> HIDE DEF pending
<1>2. Typed(r)
  BY MarkPendingTyped DEF SendStatus, Ready
<1>3. ASSUME NEW n \in Nonces PROVE SameRecord(s.nonces[n], nonces[n])
  <2>1. s.nonces[n] \in NonceRecord /\ s.nonces[n].candidates \in Seq(Candidate)
    BY <1>0 DEF NonceRecord
  <2>2. ASSUME NEW c \in DOMAIN s.nonces[n].candidates
        PROVE /\ cs(n)[c].plan = s.nonces[n].candidates[c].plan
              /\ cs(n)[c].step = s.nonces[n].candidates[c].step
              /\ Out(cs(n)[c]) => Out(s.nonces[n].candidates[c])
    <3> DEFINE old == s.nonces[n].candidates[c]
    <3>1. old \in Candidate
      BY <2>1, LenProperties, ElementOfSeq
    <3>2. cs(n)[c] = IF pending(n, c) THEN [old EXCEPT !.sent = sent] ELSE old
      OBVIOUS
    <3> HIDE DEF old, cs
    <3>3. LET new == [old EXCEPT !.sent = sent]
          IN new.plan = old.plan /\ new.step = old.step /\ ~Out(new)
      BY <3>1 DEF Candidate, Out
    <3>4. /\ cs(n)[c].plan = old.plan /\ cs(n)[c].step = old.step
          /\ Out(cs(n)[c]) => Out(old)
      <4>1. CASE pending(n, c)
        BY <3>2, <3>3, <4>1
      <4>2. CASE ~pending(n, c)
        BY <3>2, <4>2
      <4> QED
        BY <4>1, <4>2
    <3> QED
      BY <3>4 DEF old
  <2>3. DOMAIN cs(n) = DOMAIN s.nonces[n].candidates
    OBVIOUS
  <2> HIDE DEF cs
  <2>4. /\ nonces[n].open = s.nonces[n].open /\ nonces[n].candidates = cs(n)
        /\ nonces[n].resolution = s.nonces[n].resolution
    BY <2>1 DEF NonceRecord
  <2> HIDE DEF nonces
  <2> QED
    BY <2>2, <2>3, <2>4 DEF SameRecord
<1> HIDE DEF nonces, r
<1>4. /\ r.plans = s.plans /\ r.submissions = s.submissions /\ r.nonces = nonces
      /\ r.writes = s.writes /\ r.nextNonce = s.nextNonce /\ r.finalized = s.finalized
      /\ r.resends = s.resends /\ r.head = s.head
  BY <1>0, <1>1 DEF KernelState
<1>5. SameLists(s, r)
  BY <1>3, <1>4 DEF SameLists
<1> QED
  BY <1>2, <1>4, <1>5, SameQuiet DEF r

LEMMA MarkPendingGentle ==
  ASSUME NEW s, Ready(s), NEW S, NEW sent \in {"withheld", "rejected"}
  PROVE Gentle(s, MarkPending(s, S, sent)) /\ MarkPending(s, S, sent).plans = s.plans
<1> DEFINE r == MarkPending(s, S, sent)
<1>1. r.plans = s.plans /\ r.slot = s.slot /\ r.entries = s.entries /\ r.outcome = s.outcome
  BY DEF MarkPending, Ready, Typed, KernelState
<1>2. Quiet(s, r)
  BY MarkPendingQuiet
<1> HIDE DEF r
<1>3. Gentle(s, r) /\ r.plans = s.plans
  BY <1>1, <1>2, SameMild DEF Gentle
<1> QED
  BY <1>3 DEF r

\* the phases that a flush moves on from, and those of s, are those of the kernel
LEMMA FlushedOnward ==
  ASSUME NEW d \in Ledger, NEW N \in SUBSET Tx, NEW ch, Full(k, d, N, ch),
         k.writes # <<>>, NEW late \in BOOLEAN
  PROVE /\ Onward(k, Flushed(late), Head(k.writes), N, ch) /\ Advances(ch, d, Head(k.writes))
        /\ \E m : /\ Shifts(k, m) /\ Full(m, Head(k.writes), N, ch)
                  /\ Gentle(m, Flushed(late))
<1> DEFINE kept == {p \in Waiting : Withheld(k, p) \/ late}
           sent == Waiting \ kept
           acked == [k EXCEPT !.acked = TRUE]
           s == Answered(acked)
           plans == [p \in PlanIds |->
                       CASE p \in sent -> [s.plans[p] EXCEPT !.phase = "expose"]
                         [] p \in kept -> [s.plans[p] EXCEPT !.phase = "include"]
                         [] OTHER -> s.plans[p]]
           slot == IF sent # {} THEN CHOOSE p \in sent : TRUE
                   ELSE IF kept # {} THEN Free ELSE s.slot
           moved == [s EXCEPT !.plans = plans, !.slot = slot]
           marked == MarkPending(moved, kept, "withheld")
           back == HandBackPending(marked, kept)
           e == Head(k.writes)
<1>1. Flushed(late) = FailPlans(back, kept)
  BY ValueIsItself DEF Flushed, FlushedBut, Keep, Dispatching
<1>2. Ready(k) /\ Typed(k) /\ k \in KernelState
  BY FullReady DEF Typed
<1>3. /\ acked \in KernelState /\ acked.plans = k.plans /\ acked.submissions = k.submissions
      /\ acked.nonces = k.nonces /\ acked.writes = k.writes /\ acked.nextNonce = k.nextNonce
      /\ acked.finalized = k.finalized /\ acked.resends = k.resends /\ acked.head = k.head
      /\ acked.slot = k.slot /\ acked.entries = k.entries /\ acked.outcome = k.outcome
  BY <1>2 DEF KernelState
<1>4. /\ kept \in SUBSET PlanIds /\ sent \in SUBSET PlanIds
      /\ \A p \in kept \cup sent : /\ k.plans[p].phase = "commit" /\ p \in Executing(k)
                                   /\ k.plans[p].flush <= 1
      /\ kept \cup sent = Waiting /\ kept \cap sent = {}
  BY DEF Waiting, InPhase, Executing
<1> HIDE DEF kept, sent, acked
<1>5. Onward(k, acked, d, N, ch)
  BY <1>2, <1>3, SamePlansTyped, SameFieldsQuiet, QuietOnward
<1>6. Full(acked, d, N, ch) /\ e \in {d, Head(acked.writes)} /\ e = Head(acked.writes)
      /\ acked.writes # <<>>
  BY <1>3, <1>5 DEF Onward
<1> HIDE DEF e
<1>7. /\ Onward(acked, s, e, N, ch) /\ Advances(ch, d, e)
      /\ \A p \in Executing(acked) :
           acked.plans[p].phase = "commit" /\ Step(acked, p).kind = "tx"
             /\ acked.plans[p].flush <= 1 => OnFile(s, e, TxIn(p, acked.plans[p]))
  BY <1>6, AnsweredOnward
<1>8. Onward(k, s, e, N, ch)
  <2>1. Sound(k) /\ k.nextNonce \in Int /\ acked.nextNonce \in Int /\ s.nextNonce \in Int
    BY <1>5, <1>7 DEF Full, Safe, Typed, KernelState, Onward
  <2> HIDE DEF s
  <2> QED
    BY <1>5, <1>7, <2>1, AdvancesTrans DEF Onward
<1>9. Typed(s) /\ s \in KernelState
  BY <1>7 DEF Onward, Full, Typed
<1>10. \A p \in PlanIds : LET q == k.plans[p]
                              u == s.plans[p]
                          IN /\ u.cursor = q.cursor /\ u.nonce = q.nonce
                             /\ u.pending = q.pending /\ u.phase = q.phase
  BY <1>3, <1>6, AnsweredFields DEF Full
<1>26. /\ s.slot = k.slot /\ s.entries = k.entries /\ s.outcome = k.outcome
       /\ s.nonces = k.nonces /\ s.resends = k.resends /\ s.head = k.head
       /\ Len(s.writes) = Len(k.writes) - 1
       /\ \A w \in DOMAIN s.writes : w + 1 \in DOMAIN k.writes /\ s.writes[w] = k.writes[w + 1]
       /\ \A p \in PlanIds : LET q == k.plans[p]
                              u == s.plans[p]
                          IN /\ u.status = q.status /\ u.target = q.target
                             /\ q.flush > 0 => u.flush = q.flush - 1
  BY <1>3, <1>6, AnsweredFields, AnsweredAsides DEF Full
<1>11. e \in Ledger
  BY <1>6, HeadTailProperties DEF Full, Typed, KernelState
<1> HIDE DEF s
<1>12. \A p \in PlanIds : /\ plans[p] \in Plan /\ Placed(p, plans[p])
                          /\ Later(s.plans[p], plans[p])
                          /\ plans[p].phase = "expose" /\ s.plans[p].phase = "commit"
                             => p \in sent
  <2> SUFFICES ASSUME NEW p \in PlanIds
               PROVE /\ plans[p] \in Plan /\ Placed(p, plans[p])
                     /\ Later(s.plans[p], plans[p])
                     /\ plans[p].phase = "expose" /\ s.plans[p].phase = "commit"
                        => p \in sent
    BY Zenon
  <2>1. s.plans[p] \in Plan /\ Placed(p, s.plans[p])
    BY <1>9 DEF Typed, KernelState
  <2>2. p \in kept \cup sent => s.plans[p].phase = "commit"
    BY <1>4, <1>10
  <2>3. ASSUME NEW ph \in {"expose", "include"}, s.plans[p].phase = "commit"
        PROVE LET u == [s.plans[p] EXCEPT !.phase = ph]
              IN u \in Plan /\ Placed(p, u) /\ Later(s.plans[p], u) /\ u.phase = ph
    <3> DEFINE u == [s.plans[p] EXCEPT !.phase = ph]
               q == s.plans[p]
    <3>1. /\ u \in Plan /\ u.status = q.status /\ u.exposed = q.exposed
          /\ u.cursor = q.cursor /\ u.nonce = q.nonce /\ u.pending = q.pending
          /\ u.flush = q.flush /\ u.phase = ph
      BY <2>1 DEF Plan, Phases
    <3> HIDE DEF u
    <3>2. Placed(p, u)
      BY <2>1, <2>3, <3>1 DEF Placed, Working, Numbered
    <3>3. Later(q, u)
      BY <2>3, <3>1 DEF Later
    <3> QED
      BY <3>1, <3>2, <3>3 DEF u
  <2>4. CASE p \in sent
    BY <2>2, <2>3, <2>4
  <2>5. CASE p \in kept /\ p \notin sent
    BY <2>2, <2>3, <2>5
  <2>6. CASE p \notin kept \cup sent
    <3>1. plans[p] = s.plans[p]
      BY <2>6
    <3> QED
      BY <2>1, <3>1 DEF Later
  <2> QED
    BY <2>4, <2>5, <2>6
<1>27. \A p \in PlanIds : /\ plans[p].target = s.plans[p].target
                          /\ p \in sent => plans[p].phase = "expose"
                          /\ p \in kept => plans[p].phase = "include"
                          /\ p \notin Waiting => plans[p] = s.plans[p]
  <2> SUFFICES ASSUME NEW p \in PlanIds
               PROVE /\ plans[p].target = s.plans[p].target
                     /\ p \in sent => plans[p].phase = "expose"
                     /\ p \in kept => plans[p].phase = "include"
                     /\ p \notin Waiting => plans[p] = s.plans[p]
    BY Zenon
  <2>1. s.plans[p] \in Plan
    BY <1>9 DEF KernelState
  <2>2. \A ph : /\ [s.plans[p] EXCEPT !.phase = ph].target = s.plans[p].target
                /\ [s.plans[p] EXCEPT !.phase = ph].phase = ph
    BY <2>1 DEF Plan
  <2>3. CASE p \in sent /\ p \notin kept
    <3>1. plans[p] = [s.plans[p] EXCEPT !.phase = "expose"]
      BY <2>3
    <3> QED
      BY <1>4, <2>2, <2>3, <3>1
  <2>4. CASE p \in kept /\ p \notin sent
    <3>1. plans[p] = [s.plans[p] EXCEPT !.phase = "include"]
      BY <2>4
    <3> QED
      BY <1>4, <2>2, <2>4, <3>1
  <2>5. CASE p \notin kept \cup sent
    <3>1. plans[p] = s.plans[p]
      BY <2>5
    <3> QED
      BY <2>5, <3>1
  <2> QED
    BY <1>4, <2>3, <2>4, <2>5
<1>28. \/ sent # {} /\ slot \in sent
       \/ slot = Free
       \/ sent = {} /\ kept = {} /\ slot = s.slot
  BY Zenon
<1>13. plans \in [PlanIds -> Plan]
  <2>1. plans = [p \in PlanIds |-> plans[p]]
    OBVIOUS
  <2> HIDE DEF plans
  <2> QED
    BY <1>12, <2>1
<1>14. slot \in PlanIds \cup {Free, Committing}
  BY <1>4, <1>9 DEF KernelState
<1> HIDE DEF plans, slot
<1>15. /\ moved \in KernelState /\ moved.plans = plans /\ moved.submissions = s.submissions
       /\ moved.nonces = s.nonces /\ moved.writes = s.writes /\ moved.nextNonce = s.nextNonce
       /\ moved.finalized = s.finalized /\ moved.resends = s.resends /\ moved.head = s.head
       /\ moved.slot = slot /\ moved.entries = s.entries /\ moved.outcome = s.outcome
  BY <1>9, <1>13, <1>14, ZenonT(60) DEF KernelState
<1> HIDE DEF moved
<1>16. Typed(moved)
  BY <1>12, <1>15 DEF Typed
<1>17. \A p \in PlanIds : moved.plans[p].phase = "expose" /\ s.plans[p].phase = "commit"
                            /\ Step(s, p).kind = "tx" => OnFile(s, e, TxIn(p, s.plans[p]))
  <2> SUFFICES ASSUME NEW p \in PlanIds, moved.plans[p].phase = "expose",
                      s.plans[p].phase = "commit", Step(s, p).kind = "tx"
               PROVE OnFile(s, e, TxIn(p, s.plans[p]))
    OBVIOUS
  <2>1. p \in sent
    BY <1>12, <1>15
  <2>2. /\ p \in Executing(acked) /\ acked.plans[p].phase = "commit"
        /\ acked.plans[p].flush <= 1
    BY <1>3, <1>4, <2>1 DEF Executing
  <2>3. Step(acked, p) = Step(s, p) /\ TxIn(p, acked.plans[p]) = TxIn(p, s.plans[p])
    BY <1>3, <1>10 DEF Step, TxIn
  <2> QED
    BY <1>7, <2>2, <2>3
<1>18. Onward(s, moved, e, N, ch)
  <2>1. \A p \in PlanIds : Later(s.plans[p], moved.plans[p])
    BY <1>12, <1>15
  <2>2. Full(s, e, N, ch)
    BY <1>8 DEF Onward
  <2> QED
    BY <1>11, <1>15, <1>16, <1>17, <2>1, <2>2, LaterOnward
<1>19. Ready(moved) /\ Full(moved, e, N, ch)
  BY <1>18, FullReady DEF Onward
<1>20. Gentle(moved, marked) /\ marked.plans = moved.plans
  BY <1>19, MarkPendingGentle
<1> HIDE DEF marked
<1>21. Gentle(marked, back) /\ back.plans = marked.plans /\ Ready(back)
  <2>1. Ready(marked)
    BY <1>20, GentleReady
  <2>2. back.plans = marked.plans
    BY <2>1 DEF HandBackPending, Ready, Typed, KernelState
  <2> HIDE DEF back
  <2>3. Gentle(marked, back)
    BY <2>1, HandBackQuiet, HandBackMild DEF Gentle, back
  <2> QED
    BY <2>2, <2>3, GentleReady
<1> HIDE DEF back
<1>29. Landed(back, kept)
  BY <1>4, <1>15, <1>20, <1>21, <1>27 DEF Landed, InFlightPlan
<1>30. Gentle(back, FailPlans(back, kept))
  BY <1>4, <1>21, <1>29, FailPlansGentle
<1>31. Gentle(moved, FailPlans(back, kept))
  <2>1. Gentle(moved, back)
    BY <1>19, <1>20, <1>21, GentleTrans
  <2> QED
    BY <1>19, <1>30, <2>1, GentleTrans
<1>22. Quiet(moved, FailPlans(back, kept))
  BY <1>31 DEF Gentle
<1>32. Shifts(k, moved)
  <2>1. ASSUME NEW p \in PlanIds
        PROVE LET q == k.plans[p]
                  u == moved.plans[p]
              IN /\ u.status = q.status /\ u.cursor = q.cursor /\ u.target = q.target
                 /\ q.flush > 0 => u.flush = q.flush - 1
                 /\ IF p \in InPhase(k, "commit") /\ q.flush <= 1
                    THEN u.phase \in {"expose", "include"} ELSE u.phase = q.phase
    <3>1. LET v == s.plans[p]
              u == moved.plans[p]
          IN u.status = v.status /\ u.cursor = v.cursor /\ u.target = v.target /\ u.flush = v.flush
      BY <1>12, <1>15, <1>27 DEF Later
    <3>2. p \in Waiting <=> p \in InPhase(k, "commit") /\ k.plans[p].flush <= 1
      BY DEF Waiting
    <3>3. p \in Waiting => moved.plans[p].phase \in {"expose", "include"}
      BY <1>4, <1>15, <1>27
    <3>4. p \notin Waiting => moved.plans[p].phase = k.plans[p].phase
      BY <1>10, <1>15, <1>27
    <3> QED
      BY <1>10, <1>26, <3>1, <3>2, <3>3, <3>4
  <2>2. \/ moved.slot = Free
        \/ moved.slot \in InPhase(moved, "expose")
        \/ moved.slot = k.slot /\ \A p \in InPhase(k, "commit") : k.plans[p].flush > 1
    <3>1. ASSUME NEW p \in sent PROVE p \in InPhase(moved, "expose")
      <4>1. p \in PlanIds /\ k.plans[p].status = "executing"
        BY <1>4 DEF Executing
      <4> QED
        BY <1>15, <1>27, <2>1, <4>1 DEF InPhase, Executing
    <3>2. ASSUME sent = {}, kept = {}, NEW p \in InPhase(k, "commit") PROVE k.plans[p].flush > 1
      <4>1. p \notin Waiting /\ k.plans[p].flush \in Nat
        BY <1>2, <1>4, <3>2 DEF InPhase, Executing, KernelState, Plan
      <4> QED
        BY <3>2, <4>1 DEF Waiting
    <3> QED
      BY <1>15, <1>26, <1>28, <3>1, <3>2
  <2> QED
    BY <1>15, <1>26, <2>1, <2>2 DEF Shifts
<1>23. Onward(moved, FailPlans(back, kept), e, N, ch)
  BY <1>11, <1>19, <1>22, QuietOnward
<1>24. Onward(k, moved, e, N, ch)
  BY <1>8, <1>18, OnwardFrom
<1>25. Onward(k, FailPlans(back, kept), e, N, ch)
  BY <1>23, <1>24, OnwardFrom
<1>33. \E m : Shifts(k, m) /\ Full(m, e, N, ch) /\ Gentle(m, Flushed(late))
  BY <1>1, <1>19, <1>31, <1>32
<1> QED
  BY <1>1, <1>7, <1>25, <1>33 DEF e

LEMMA FlushAnsweredKeeps == ASSUME SInv, IInv', FlushAnswered PROVE Keeps
<1>1. PICK late \in BOOLEAN : k' = Reduce(Flushed(late))
  BY DEF FlushAnswered
<1>2. Alive /\ k.writes # <<>> /\ disk' = Head(k.writes) /\ net' = net /\ chain' = chain
  BY DEF FlushAnswered
<1>3. Full(k, disk, net, chain) /\ disk \in Ledger /\ net \in SUBSET Tx
  BY <1>2, InvFull
<1>4. Onward(k, Flushed(late), disk', net', chain') /\ Advances(chain', disk, disk')
  BY <1>2, <1>3, FlushedOnward
<1>5. MinedWasSent'
  BY <1>2 DEF MinedWasSent, SInv
<1>6. ASSUME OfferInv PROVE Attended(Flushed(late), disk', net', released', chain')
  <2>1. /\ Attended(k, disk, net, released, chain) /\ Issued(k) /\ released' = released
        /\ disk' \in Ledger
    BY <1>2, <1>6, InvAttended DEF FlushAnswered, IInv, TypeOK
  <2>2. PICK m : Shifts(k, m) /\ Full(m, disk', net, chain) /\ Gentle(m, Flushed(late))
    BY <1>2, <1>3, FlushedOnward
  <2>3. Attended(m, disk', net, released, chain)
    BY <1>2, <2>1, <2>2, ShiftedAttended
  <2> QED
    BY <1>2, <1>3, <2>1, <2>2, <2>3, AttendedGentle
<1>7. chain' = chain
  BY <1>2
<1> QED
  BY <1>1, <1>2, <1>4, <1>5, <1>6, HappensKeeps DEF OfferInv

LEMMA FlushFailedOnward ==
  ASSUME NEW d \in Ledger, NEW N \in SUBSET Tx, NEW ch, Full(k, d, N, ch),
         k.writes # <<>>, NEW e \in {d, Head(k.writes)}
  PROVE /\ Onward(k, FlushFailed, e, N, ch) /\ Advances(ch, d, e)
        /\ \E m : /\ Shifts(k, m) /\ Full(m, e, N, ch) /\ Gentle(m, FlushFailed)
                  /\ \A p \in PlanIds : ~(m.plans[p].phase = "expose" /\ k.plans[p].phase = "commit")
<1> DEFINE unacked == [k EXCEPT !.acked = FALSE]
           s == Answered(unacked)
           plans == [p \in PlanIds |->
                       IF p \in Waiting THEN [s.plans[p] EXCEPT !.phase = "include"]
                       ELSE s.plans[p]]
           moved == [s EXCEPT !.plans = plans]
           marked == MarkPending(moved, Waiting, "rejected")
           lost == {p \in Waiting : ~HasPending(p)}
           failed == FailPlans(marked, lost)
           freed == [failed EXCEPT !.slot = Free]
<1>1. FlushFailed = IF freed.lifecycle = "recovering" THEN Stop(freed, "unsafe")
                    ELSE EnterRecovering(freed)
  <2>1. Value(s) = s
    BY ValueIsItself
  <2>2. FailedToFlush(s) = failed
    BY DEF FailedToFlush, ToInclude
  <2>3. FlushFailed = StoppedOrRecovering([FailedToFlush(Value(s)) EXCEPT !.slot = Free])
    BY DEF FlushFailed
  <2>4. FlushFailed = StoppedOrRecovering(freed)
    BY <2>1, <2>2, <2>3
  <2> QED
    BY <2>4 DEF StoppedOrRecovering
<1>2. Ready(k) /\ Typed(k) /\ k \in KernelState
  BY FullReady DEF Typed
<1>3. /\ unacked \in KernelState /\ unacked.plans = k.plans
      /\ unacked.submissions = k.submissions
      /\ unacked.nonces = k.nonces /\ unacked.writes = k.writes
      /\ unacked.nextNonce = k.nextNonce /\ unacked.finalized = k.finalized
      /\ unacked.resends = k.resends /\ unacked.head = k.head
      /\ unacked.entries = k.entries /\ unacked.outcome = k.outcome
  BY <1>2 DEF KernelState
<1>4. /\ Waiting \in SUBSET PlanIds /\ lost \in SUBSET PlanIds
      /\ \A p \in Waiting : k.plans[p].phase = "commit"
  BY DEF Waiting, InPhase, Executing
<1> HIDE DEF unacked, lost
<1>5. Onward(k, unacked, d, N, ch)
  BY <1>2, <1>3, SamePlansTyped, SameFieldsQuiet, QuietOnward
<1>6. Full(unacked, d, N, ch) /\ e \in {d, Head(unacked.writes)} /\ unacked.writes # <<>>
  BY <1>3, <1>5 DEF Onward
<1>7. Onward(unacked, s, e, N, ch) /\ Advances(ch, d, e)
  BY <1>6, AnsweredOnward
<1>8. \A p \in PlanIds : s.plans[p].phase = k.plans[p].phase
  BY <1>3, <1>6, AnsweredFields DEF Full
<1>24. /\ s.entries = k.entries /\ s.outcome = k.outcome
       /\ s.nonces = k.nonces /\ s.resends = k.resends /\ s.head = k.head
       /\ Len(s.writes) = Len(k.writes) - 1
       /\ \A w \in DOMAIN s.writes : w + 1 \in DOMAIN k.writes /\ s.writes[w] = k.writes[w + 1]
       /\ \A p \in PlanIds : LET q == k.plans[p]
                              u == s.plans[p]
                          IN /\ u.status = q.status /\ u.target = q.target /\ u.cursor = q.cursor
                             /\ q.flush > 0 => u.flush = q.flush - 1
  BY <1>3, <1>6, AnsweredFields, AnsweredAsides DEF Full
<1>9. e \in Ledger
  BY <1>2, HeadTailProperties DEF KernelState
<1> HIDE DEF s
<1>10. Onward(k, s, e, N, ch)
  <2>1. Sound(k) /\ k.nextNonce \in Int /\ unacked.nextNonce \in Int /\ s.nextNonce \in Int
    BY <1>5, <1>7 DEF Full, Safe, Typed, KernelState, Onward
  <2> QED
    BY <1>5, <1>7, <2>1, AdvancesTrans DEF Onward
<1>11. Typed(s) /\ s \in KernelState /\ Full(s, e, N, ch)
  BY <1>7 DEF Onward, Full, Typed
<1>12. \A p \in PlanIds : /\ plans[p] \in Plan /\ Placed(p, plans[p])
                          /\ Later(s.plans[p], plans[p])
                          /\ ~(plans[p].phase = "expose" /\ s.plans[p].phase = "commit")
  <2> SUFFICES ASSUME NEW p \in PlanIds
               PROVE /\ plans[p] \in Plan /\ Placed(p, plans[p])
                     /\ Later(s.plans[p], plans[p])
                     /\ ~(plans[p].phase = "expose" /\ s.plans[p].phase = "commit")
    BY Zenon
  <2>1. s.plans[p] \in Plan /\ Placed(p, s.plans[p])
    BY <1>11 DEF Typed, KernelState
  <2>2. CASE p \in Waiting
    <3> DEFINE u == [s.plans[p] EXCEPT !.phase = "include"]
               q == s.plans[p]
    <3>1. /\ u \in Plan /\ u.status = q.status /\ u.exposed = q.exposed
          /\ u.cursor = q.cursor /\ u.nonce = q.nonce /\ u.pending = q.pending
          /\ u.flush = q.flush /\ u.phase = "include"
      BY <2>1 DEF Plan, Phases
    <3>2. plans[p] = u /\ q.phase = "commit"
      BY <1>4, <1>8, <2>2
    <3> HIDE DEF u, plans
    <3>3. Placed(p, u)
      BY <3>1 DEF Placed, Working, Numbered
    <3>4. Later(q, u)
      BY <3>1, <3>2 DEF Later
    <3> QED
      BY <3>1, <3>2, <3>3, <3>4
  <2>3. CASE p \notin Waiting
    <3>1. plans[p] = s.plans[p]
      BY <2>3
    <3> QED
      BY <2>1, <3>1 DEF Later
  <2> QED
    BY <2>2, <2>3
<1>25. \A p \in PlanIds : /\ plans[p].target = s.plans[p].target
                          /\ p \in Waiting => plans[p].phase = "include"
                          /\ p \notin Waiting => plans[p] = s.plans[p]
  BY <1>11 DEF KernelState, Plan
<1>13. plans \in [PlanIds -> Plan]
  <2>1. plans = [p \in PlanIds |-> plans[p]]
    OBVIOUS
  <2> HIDE DEF plans
  <2> QED
    BY <1>12, <2>1
<1> HIDE DEF plans
<1>14. /\ moved \in KernelState /\ moved.plans = plans /\ moved.submissions = s.submissions
       /\ moved.nonces = s.nonces /\ moved.writes = s.writes /\ moved.nextNonce = s.nextNonce
       /\ moved.finalized = s.finalized /\ moved.resends = s.resends /\ moved.head = s.head
       /\ moved.entries = s.entries /\ moved.outcome = s.outcome
  BY <1>11, <1>13, ZenonT(60) DEF KernelState
<1> HIDE DEF moved
<1>15. Typed(moved)
  BY <1>12, <1>14 DEF Typed
<1>16. Onward(s, moved, e, N, ch)
  <2>1. \A p \in PlanIds : /\ Later(s.plans[p], moved.plans[p])
                           /\ ~(moved.plans[p].phase = "expose" /\ s.plans[p].phase = "commit")
    BY <1>12, <1>14
  <2> QED
    BY <1>9, <1>11, <1>14, <1>15, <2>1, LaterOnward
<1>17. Ready(moved) /\ Full(moved, e, N, ch)
  BY <1>16, FullReady DEF Onward
<1> DEFINE m == [moved EXCEPT !.slot = Free]
<1>26. /\ m.plans = plans /\ m.entries = k.entries /\ m.nonces = k.nonces
       /\ m.resends = k.resends /\ m.outcome = k.outcome /\ m.head = k.head
       /\ m.writes = s.writes /\ m.slot = Free
  BY <1>14, <1>24 DEF KernelState
<1>27. Gentle(moved, m)
  BY <1>17, FreeGentle
<1>28. moved = [m EXCEPT !.slot = moved.slot] /\ moved.slot \in PlanIds \cup {Free, Committing}
  BY <1>14 DEF KernelState
<1> HIDE DEF m
<1>29. Ready(m) /\ Quiet(m, moved)
  <2>1. Ready(m)
    BY <1>27, GentleReady
  <2> QED
    BY <1>28, <2>1, SlotQuiet
<1>30. Onward(moved, m, e, N, ch)
  BY <1>9, <1>17, <1>27, QuietOnward DEF Gentle
<1>31. Full(m, e, N, ch)
  BY <1>30 DEF Onward
<1>18. Gentle(moved, marked) /\ marked.plans = moved.plans
  BY <1>17, MarkPendingGentle
<1> HIDE DEF marked
<1>19. Gentle(moved, failed)
  <2>1. Ready(marked)
    BY <1>18, GentleReady
  <2>2. lost \subseteq Waiting
    BY DEF lost
  <2>3. Landed(marked, lost)
    BY <1>4, <1>14, <1>18, <1>25, <2>2 DEF Landed, InFlightPlan
  <2>4. Gentle(marked, failed)
    BY <1>4, <2>1, <2>3, FailPlansGentle
  <2> QED
    BY <1>17, <1>18, <2>4, GentleTrans
<1> HIDE DEF failed
<1>32. Ready(failed) /\ failed \in KernelState
  BY <1>19, GentleReady DEF Typed
<1>33. /\ freed.plans = failed.plans /\ freed.entries = failed.entries
       /\ freed.outcome = failed.outcome /\ freed.slot = Free
  BY <1>32 DEF KernelState
<1>34. Gentle(failed, freed)
  BY <1>32, FreeGentle
<1> HIDE DEF freed
<1>20. Gentle(m, freed)
  <2>1. Quiet(m, freed)
    BY <1>17, <1>19, <1>29, <1>32, <1>34, QuietTrans DEF Gentle
  <2>2. Mild(moved, failed)
    BY <1>19 DEF Gentle
  <2>3. KeptSlot(m, freed)
    BY <1>26, <1>33, NotPlans DEF KeptSlot
  <2>4. Mild(m, freed)
    BY <1>14, <1>24, <1>26, <1>33, <2>2, <2>3 DEF Mild
  <2> QED
    BY <2>1, <2>4 DEF Gentle
<1>21. Gentle(m, FlushFailed)
  <2>1. Ready(freed)
    BY <1>20, GentleReady
  <2>2. Gentle(freed, Stop(freed, "unsafe")) /\ Gentle(freed, EnterRecovering(freed))
    BY <2>1, StopGentle, EnterRecoveringGentle
  <2>3. Gentle(m, Stop(freed, "unsafe")) /\ Gentle(m, EnterRecovering(freed))
    BY <1>20, <1>29, <2>2, GentleTrans
  <2> QED
    BY <1>1, <2>3
<1>22. Onward(m, FlushFailed, e, N, ch)
  BY <1>9, <1>21, <1>31, QuietOnward, <1>29 DEF Gentle
<1>23. Onward(k, m, e, N, ch)
  <2>1. Onward(s, m, e, N, ch)
    BY <1>11, <1>16, <1>30, OnwardFrom
  <2> QED
    BY <1>2, <1>10, <2>1, OnwardFrom
<1>35. Shifts(k, m) /\ \A p \in PlanIds : ~(m.plans[p].phase = "expose" /\ k.plans[p].phase = "commit")
  <2>1. ASSUME NEW p \in PlanIds
        PROVE LET q == k.plans[p]
                  u == m.plans[p]
              IN /\ u.status = q.status /\ u.cursor = q.cursor /\ u.target = q.target
                 /\ q.flush > 0 => u.flush = q.flush - 1
                 /\ IF p \in InPhase(k, "commit") /\ q.flush <= 1
                    THEN u.phase \in {"expose", "include"} ELSE u.phase = q.phase
                 /\ ~(u.phase = "expose" /\ q.phase = "commit")
    <3>1. LET v == s.plans[p]
              u == m.plans[p]
          IN u.status = v.status /\ u.cursor = v.cursor /\ u.target = v.target /\ u.flush = v.flush
      BY <1>12, <1>25, <1>26 DEF Later
    <3>2. p \in Waiting <=> p \in InPhase(k, "commit") /\ k.plans[p].flush <= 1
      BY DEF Waiting
    <3>3. p \in Waiting => m.plans[p].phase = "include"
      BY <1>25, <1>26
    <3>4. p \notin Waiting => m.plans[p].phase = k.plans[p].phase
      BY <1>8, <1>25, <1>26
    <3> QED
      BY <1>24, <3>1, <3>2, <3>3, <3>4
  <2> QED
    BY <1>24, <1>26, <2>1 DEF Shifts
<1>36. Onward(k, FlushFailed, e, N, ch)
  BY <1>22, <1>23, OnwardFrom
<1> QED
  BY <1>7, <1>21, <1>31, <1>35, <1>36

LEMMA FlushRejectedKeeps == ASSUME SInv, IInv', FlushRejected PROVE Keeps
<1>1. /\ Alive /\ k.writes # <<>> /\ disk' \in {disk, Head(k.writes)}
      /\ k' = Reduce(FlushFailed) /\ net' = net /\ chain' = chain
  BY DEF FlushRejected
<1>2. Full(k, disk, net, chain) /\ disk \in Ledger /\ net \in SUBSET Tx
  BY <1>1, InvFull
<1>3. /\ Onward(k, FlushFailed, disk', net', chain') /\ Advances(chain', disk, disk')
      /\ \E m : /\ Shifts(k, m) /\ Full(m, disk', net, chain) /\ Gentle(m, FlushFailed)
                /\ \A p \in PlanIds : ~(m.plans[p].phase = "expose" /\ k.plans[p].phase = "commit")
  BY <1>1, <1>2, FlushFailedOnward
<1>4. MinedWasSent'
  BY <1>1 DEF MinedWasSent, SInv
<1>5. ASSUME OfferInv PROVE Attended(FlushFailed, disk', net', released', chain')
  <2>1. /\ Attended(k, disk, net, released, chain) /\ Issued(k) /\ released' = released
        /\ disk' \in Ledger
    BY <1>1, <1>5, InvAttended DEF FlushRejected, IInv, TypeOK
  <2>2. PICK m : /\ Shifts(k, m) /\ Full(m, disk', net, chain) /\ Gentle(m, FlushFailed)
                 /\ \A p \in PlanIds : ~(m.plans[p].phase = "expose" /\ k.plans[p].phase = "commit")
    BY <1>3
  <2>3. Attended(m, disk', net, released, chain)
    BY <1>1, <2>1, <2>2, ShiftedAttended
  <2> QED
    BY <1>1, <1>2, <2>1, <2>2, <2>3, AttendedGentle
<1>6. chain' = chain
  BY <1>1
<1> QED
  BY <1>1, <1>3, <1>4, <1>5, <1>6, HappensKeeps DEF OfferInv

-----------------------------------------------------------------------------
(* The chain moves.                                                        *)

\* what is final stays final: on the chain that comes after, everything else carries over
LEMMA OtherChainAdvances ==
  ASSUME NEW ch, NEW ci, \A n \in Nonces : FinalOn(ch, n) => FinalOn(ci, n),
         NEW l, NEW m, Advances(ch, l, m)
  PROVE Advances(ci, l, m)
BY DEF Advances, HoleOn

LEMMA OtherChainFiled ==
  ASSUME NEW ch, NEW ci, \A n \in Nonces : FinalOn(ch, n) => FinalOn(ci, n),
         NEW s, NEW d, NEW N \in SUBSET Tx, s.resends \subseteq Tx, Filed(s, d, N, ch)
  PROVE Filed(s, d, N, ci)
<1>1. \A l, m : Advances(ch, l, m) => Advances(ci, l, m)
  BY OtherChainAdvances
<1>2. \A t \in Outside(s, N) : t.nonce \in Nonces
  BY DEF Outside, Tx
<1> QED
  BY <1>1, <1>2 DEF Filed

LEMMA OtherChainFull ==
  ASSUME NEW ch, NEW ci, \A n \in Nonces : FinalOn(ch, n) => FinalOn(ci, n),
         NEW s, NEW d, NEW N \in SUBSET Tx, Full(s, d, N, ch), Evidence(s, ci)
  PROVE Full(s, d, N, ci)
<1>1. \A l, m : Advances(ch, l, m) => Advances(ci, l, m)
  BY OtherChainAdvances
<1>2. s.resends \subseteq Tx
  BY DEF Full, Typed, KernelState
<1>3. \A t \in Outside(s, N) : t.nonce \in Nonces
  BY <1>2 DEF Outside, Tx
<1>4. Filed(s, d, N, ci)
  BY <1>2, OtherChainFiled DEF Full
<1>5. Safe(s, d, N, ci)
  BY <1>1, <1>3 DEF Safe, Full
<1> QED
  BY <1>4, <1>5 DEF Full

\* the kernel does not hear of it
LEMMA ChainKeeps ==
  ASSUME SInv, IInv', k' = k, disk' = disk, net' = net, released' = released, MinedWasSent',
         Follows(chain, chain'), Alive => Evidence(k, chain'),
         OfferInv => /\ Alive => Witnessed(k, chain') /\ k.head \in {0, chain'.head}
                     /\ \A j \in DOMAIN chain'.mined : chain'.mined[j].block <= chain'.head
  PROVE Keeps
<1>1. /\ disk \in Ledger /\ net \in SUBSET Tx /\ k \in KernelState /\ k.resends \subseteq Tx
      /\ disk.nextNonce \in Int /\ k.writes \in Seq(Ledger) /\ k.nonces \in [Nonces -> NonceRecord]
  BY DEF SInv, IInv, TypeOK, KernelState, Ledger
<1>2. Advances(chain', disk, disk')
  BY <1>1, AdvancesItself
<1>5. \A n \in Nonces : FinalOn(chain, n) => FinalOn(chain', n)
  BY DEF Follows
<1>6. chain \in Chains /\ chain' \in Chains
  BY DEF SInv, IInv, TypeOK, Chains
<1>3. CASE Alive
  <2>1. Full(k, disk, net, chain') /\ Known = k
    BY <1>1, <1>3, <1>5, InvFull, OtherChainFull
  <2>2. Onward(k, k, disk', net', chain')
    BY <2>1, FullReady
  <2>3. ASSUME OfferInv PROVE Attended(k, disk', net', released', chain') /\ Issued(k)
    <3>1. Attended(k, disk, net, released, chain) /\ Issued(k)
      BY <1>3, <2>3, InvAttended
    <3>2. Offered(k, disk, net, released, chain')
      BY <1>1, <1>3, <1>6, <2>3, <3>1, FollowsOffered DEF Attended, Full
    <3> QED
      BY <1>3, <2>1, <2>3, <3>1, <3>2 DEF Attended
  <2> QED
    BY <1>2, <1>3, <1>5, <2>2, <2>3, HappensKeeps
<1>4. CASE ~Alive
  <2>1. Filed(k, disk, net, chain')
    BY <1>1, <1>5, OtherChainFiled DEF SInv
  <2>2. ~Alive'
    BY <1>4 DEF Alive
  <2>3. ASSUME OfferInv PROVE OfferInv'
    <3>1. Stored(k, disk, net, released, chain')
      BY <1>1, <1>6, <2>3, FollowsStored DEF OfferInv
    <3>2. k.lifecycle # "idle" => Covers(chain', k, released, Outside(k, net))
      <4>1. Outside(k, net) \cup Listed(k) \subseteq Tx
        BY <1>1, ListedTyped DEF Outside
      <4> QED
        BY <1>6, <2>3, <4>1, FollowsCovers DEF OfferInv
    <3>3. Ended(k, net, chain')
      BY <1>1, <2>3, FollowsEnded DEF OfferInv
    <3> QED
      BY <2>2, <2>3, <3>1, <3>2, <3>3 DEF OfferInv
  <2> QED
    BY <1>2, <1>5, <2>1, <2>2, <2>3 DEF Keeps, SInv
<1> QED
  BY <1>3, <1>4

LEMMA OnHeadOnward ==
  ASSUME NEW d \in Ledger, NEW N \in SUBSET Tx, NEW ch, NEW s, Full(s, d, N, ch),
         NEW number \in Nat, number = ch.head, s.head # 0 => number # 0
  PROVE /\ Onward(s, OnHead(s, number), d, N, ch) /\ Tame(s, OnHead(s, number))
        /\ OnHead(s, number).outcome = s.outcome /\ OnHead(s, number).head = number
        /\ OnHead(s, number).lifecycle = s.lifecycle
        /\ OnHead(s, number).entries = s.entries
<1> DEFINE stamped(r) == [r EXCEPT !.lastActionHead = IF @ = 0 THEN number ELSE @,
                                   !.unknownSince = IF HasUnknown(r) /\ @ = Undefined
                                                    THEN number ELSE @]
           nonces == [n \in Nonces |-> IF ~s.nonces[n].open THEN s.nonces[n]
                                       ELSE stamped(s.nonces[n])]
           finalized == IF number - FinalityLag > s.finalized
                        THEN number - FinalityLag ELSE s.finalized
           r == OnHead(s, number)
<1>0. s \in KernelState /\ Typed(s) /\ s.nonces \in [Nonces -> NonceRecord]
  BY DEF Full, Typed, KernelState
<1>1. Typed(r)
  BY <1>0, OnHeadTyped
<1>2. r = [s EXCEPT !.head = number, !.finalized = finalized, !.nonces = nonces]
  BY DEF OnHead
<1>3. ASSUME NEW n \in Nonces
      PROVE /\ nonces[n].candidates = s.nonces[n].candidates
            /\ nonces[n].open = s.nonces[n].open
            /\ nonces[n].resolution = s.nonces[n].resolution
  <2>1. s.nonces[n] \in NonceRecord
    BY <1>0
  <2>2. \A x \in NonceRecord : /\ stamped(x).candidates = x.candidates
                               /\ stamped(x).open = x.open
                               /\ stamped(x).resolution = x.resolution
    BY DEF NonceRecord
  <2> HIDE DEF stamped
  <2> QED
    BY <2>1, <2>2
<1>4. finalized = -1 \/ finalized <= ch.head - FinalityLag
  BY BoundsAssumption, SMTT(30) DEF Full, Safe, Evidence
<1> HIDE DEF nonces, finalized, r
<1>5. /\ r.plans = s.plans /\ r.submissions = s.submissions /\ r.nonces = nonces
      /\ r.writes = s.writes /\ r.nextNonce = s.nextNonce /\ r.finalized = finalized
      /\ r.resends = s.resends /\ r.head = number /\ r.entries = s.entries
      /\ r.slot = s.slot /\ r.outcome = s.outcome /\ r.lifecycle = s.lifecycle
  BY <1>0, <1>2, ZenonT(60) DEF KernelState
<1>6. Retold(s, r)
  BY <1>3, <1>5 DEF Retold, SameTxs
<1>7. Evidence(r, ch)
  BY <1>3, <1>4, <1>5 DEF Evidence, Full, Safe, Resolved
<1>8. OutOnFile(r, d)
  BY <1>3, <1>5 DEF OutOnFile, OnFile, Full, Safe
<1>9. Onward(s, r, d, N, ch)
  BY <1>1, <1>6, <1>7, <1>8, RetoldOnward
<1>10. Tame(s, r)
  <2>1. Mild(s, r) /\ Back(s, r)
    BY <1>5, SameMild, PlansBack
  <2>2. \A n \in Nonces : FewerRecord(s.nonces[n], r.nonces[n])
    BY <1>3, <1>5 DEF FewerRecord, SameTxs
  <2> QED
    BY <1>5, <2>1, <2>2 DEF Tame
<1> QED
  BY <1>5, <1>9, <1>10 DEF r

LEMMA OnHeadAttended ==
  ASSUME NEW d \in Ledger, NEW N \in SUBSET Tx, NEW R, NEW ch, NEW s, Full(s, d, N, ch),
         Offered(s, d, N, R, ch), s.outcome # "clean",
         NEW number \in Nat, number = ch.head, s.head # 0 => number # 0
  PROVE Attended(OnHead(s, number), d, N, R, ch)
<1> DEFINE r == OnHead(s, number)
<1>1. Onward(s, r, d, N, ch) /\ Tame(s, r) /\ r.outcome = s.outcome /\ r.head = number
  BY OnHeadOnward
<1> HIDE DEF r
<1>2. Offered(r, d, N, R, ch)
  BY <1>1, TameOffered DEF Full
<1>3. Attended(r, d, N, R, ch)
  BY <1>1, <1>2 DEF Attended, Onward
<1> QED
  BY <1>3 DEF r

LEMMA StartHeadKeeps == ASSUME SInv, IInv', StartHead PROVE Keeps
<1>1. Alive /\ k.head = 0 /\ Handle(OnHead(k, chain.head))
  BY DEF StartHead
<1>2. Full(k, disk, net, chain) /\ disk \in Ledger /\ net \in SUBSET Tx /\ chain.head \in Nat
  BY <1>1, InvFull
<1>3. Onward(k, OnHead(k, chain.head), disk, net, chain)
  BY <1>1, <1>2, OnHeadOnward
<1>4. ASSUME OfferInv PROVE Attended(OnHead(k, chain.head), disk, net, released, chain)
  BY <1>1, <1>2, <1>4, InvAttended, OnHeadAttended DEF Attended
<1> QED
  BY <1>1, <1>3, <1>4, HandledKeeps

\* chain ci has what ch has, and its head is higher
Longer(ch, ci) ==
  /\ ci.head = ch.head + 1 /\ Len(ch.mined) <= Len(ci.mined)
  /\ \A j \in DOMAIN ch.mined : ci.mined[j] = ch.mined[j]

LEMMA LongerKeeps ==
  ASSUME NEW ch \in [head : Nat, mined : Seq(Mined)], NEW ci \in [head : Nat, mined : Seq(Mined)],
         Longer(ch, ci)
  PROVE /\ \A n \in Nonces : FinalOn(ch, n) => FinalOn(ci, n)
        /\ \A s : Evidence(s, ch) /\ s.finalized \in Int => Evidence(s, ci)
        /\ Follows(ch, ci)
        /\ \A s : Evidence(s, ch) /\ Witnessed(s, ch) => Witnessed(s, ci)
<1>1. /\ ch.head \in Nat /\ ci.head = ch.head + 1 /\ FinalityLag \in Nat
      /\ ch.mined \in Seq(Mined) /\ ci.mined \in Seq(Mined)
  BY BoundsAssumption DEF Longer
<1>2. ASSUME NEW n \in Nonces, n < Len(ch.mined)
      PROVE n < Len(ci.mined) /\ ci.mined[n + 1] = ch.mined[n + 1]
            /\ ch.mined[n + 1].block \in Nat
  <2>1. n \in Nat /\ n + 1 \in DOMAIN ch.mined
    BY <1>1, <1>2, BoundsAssumption, SMTT(30) DEF Nonces
  <2>2. ch.mined[n + 1] \in Mined
    BY <1>1, <2>1, ElementOfSeq, LenProperties
  <2>3. n < Len(ci.mined)
    BY <1>1, <1>2, <2>1, LenProperties DEF Longer
  <2> QED
    BY <2>1, <2>2, <2>3 DEF Longer, Mined
<1>3. ASSUME NEW n \in Nonces, FinalOn(ch, n) PROVE FinalOn(ci, n)
  <2>1. n < Len(ch.mined) /\ ch.mined[n + 1].block <= ch.head - FinalityLag
    BY <1>3 DEF FinalOn
  <2> QED
    BY <1>1, <1>2, <2>1 DEF FinalOn
<1>4. ASSUME NEW s, Evidence(s, ch), s.finalized \in Int PROVE Evidence(s, ci)
  <2>1. s.finalized = -1 \/ s.finalized <= ci.head - FinalityLag
    BY <1>1, <1>4 DEF Evidence
  <2> QED
    BY <1>2, <1>4, <2>1 DEF Evidence
<1>5. Follows(ch, ci)
  BY <1>1, <1>2, <1>3 DEF Follows, FinalOn
<1>6. ASSUME NEW s, Evidence(s, ch), Witnessed(s, ch) PROVE Witnessed(s, ci)
  <2>1. ASSUME NEW n \in Nonces, Resolved(s.nonces[n]) PROVE ci.mined[n + 1] = ch.mined[n + 1]
    BY <1>2, <1>6, <2>1 DEF Evidence
  <2>2. ASSUME NEW n \in Nonces PROVE SeenNonce(s, ci, n)
    BY <1>6, <2>1 DEF Witnessed, SeenNonce
  <2>3. ASSUME NEW o \in Offers PROVE SeenEntry(s, ci, o)
    BY <1>2, <1>6 DEF Witnessed, SeenEntry
  <2> QED
    BY <2>2, <2>3 DEF Witnessed
<1> QED
  BY <1>3, <1>4, <1>5, <1>6

LEMMA NewBlockKeeps == ASSUME SInv, IInv', NewBlock PROVE Keeps
<1> DEFINE height == chain.head + 1
<1>1. /\ chain \in [head : Nat, mined : Seq(Mined)] /\ disk \in Ledger /\ net \in SUBSET Tx
      /\ chain' \in [head : Nat, mined : Seq(Mined)] /\ k \in KernelState
      /\ chain.mined \in Seq(Mined) /\ chain.head \in Nat
  BY DEF SInv, IInv, TypeOK
<1>2. disk' = disk /\ net' = net /\ released' = released
      /\ k' = IF Alive /\ k.head > 0 THEN Reduce(OnHead(k, height)) ELSE k
  BY DEF NewBlock
<1>3. \/ chain' = [chain EXCEPT !.head = height]
      \/ \E m \in Blocks(height, chain.mined) :
           chain' = [head |-> height, mined |-> Append(chain.mined, m)]
  BY DEF NewBlock
<1>4. /\ Longer(chain, chain') /\ chain'.head = height /\ MinedWasSent'
      /\ (\A j \in DOMAIN chain.mined : chain.mined[j].block <= chain.head) =>
            \A j \in DOMAIN chain'.mined : chain'.mined[j].block <= height
  <2>1. CASE chain' = [chain EXCEPT !.head = height]
    <3>1. chain'.head = height /\ chain'.mined = chain.mined
      BY <1>1, <2>1
    <3>2. ASSUME NEW j \in DOMAIN chain.mined PROVE chain.mined[j].block \in Nat
      <4>1. chain.mined[j] \in Mined
        BY <1>1, ElementOfSeq, LenProperties
      <4> QED
        BY <4>1 DEF Mined
    <3> QED
      BY <1>1, <1>2, <3>1, <3>2 DEF Longer, MinedWasSent, SInv
  <2>2. CASE \E m \in Blocks(height, chain.mined) :
                chain' = [head |-> height, mined |-> Append(chain.mined, m)]
    <3>1. PICK m \in Blocks(height, chain.mined) :
                chain' = [head |-> height, mined |-> Append(chain.mined, m)]
      BY <2>2
    <3>2. chain'.head = height /\ chain'.mined = Append(chain.mined, m)
      BY <3>1
    <3>3. /\ m.tx # Foreign => m.tx \in net /\ m.tx.nonce = Len(chain.mined)
          /\ m.block = height
      BY DEF Blocks
    <3> DEFINE mined == Append(chain.mined, m)
    <3>4. /\ Len(mined) = Len(chain.mined) + 1 /\ DOMAIN mined = 1 .. Len(chain.mined) + 1
          /\ \A j \in DOMAIN chain.mined : mined[j] = chain.mined[j]
          /\ mined[Len(chain.mined) + 1] = m /\ DOMAIN chain.mined = 1 .. Len(chain.mined)
          /\ Len(chain.mined) \in Nat
      BY <1>1, AppendProperties, LenProperties
    <3> HIDE DEF mined
    <3>5. chain'.mined = mined
      BY <3>2 DEF mined
    <3>6. Longer(chain, chain')
      BY <1>1, <3>2, <3>4, <3>5 DEF Longer
    <3>7. MinedWasSent'
      <4> SUFFICES ASSUME NEW j \in DOMAIN mined, mined[j].tx # Foreign
                   PROVE mined[j].tx \in net /\ mined[j].tx.nonce = j - 1
        BY <1>2, <3>5 DEF MinedWasSent
      <4>1. CASE j = Len(chain.mined) + 1
        BY <3>3, <3>4, <4>1
      <4>2. CASE j # Len(chain.mined) + 1
        <5>1. j \in DOMAIN chain.mined /\ mined[j] = chain.mined[j]
          BY <3>4, <4>2
        <5> QED
          BY <5>1 DEF MinedWasSent, SInv
      <4> QED
        BY <4>1, <4>2
    <3>8. ASSUME \A j \in DOMAIN chain.mined : chain.mined[j].block <= chain.head,
                 NEW j \in DOMAIN mined
          PROVE mined[j].block <= height
      <4>1. CASE j = Len(chain.mined) + 1
        BY <1>1, <3>3, <3>4, <4>1
      <4>2. CASE j # Len(chain.mined) + 1
        <5>1. j \in DOMAIN chain.mined /\ mined[j] = chain.mined[j]
          BY <3>4, <4>2
        <5>2. chain.mined[j] \in Mined
          BY <1>1, <5>1, ElementOfSeq, LenProperties
        <5>3. chain.mined[j].block \in Nat
          BY <5>2 DEF Mined
        <5> QED
          BY <1>1, <3>8, <5>1, <5>3
      <4> QED
        BY <4>1, <4>2
    <3> QED
      BY <3>2, <3>5, <3>6, <3>7, <3>8
  <2> QED
    BY <1>3, <2>1, <2>2
<1>5. /\ \A n \in Nonces : FinalOn(chain, n) => FinalOn(chain', n)
      /\ \A s : Evidence(s, chain) /\ s.finalized \in Int => Evidence(s, chain')
      /\ Follows(chain, chain')
      /\ \A s : Evidence(s, chain) /\ Witnessed(s, chain) => Witnessed(s, chain')
  BY <1>1, <1>4, LongerKeeps
<1>6. Alive => Evidence(k, chain) /\ Evidence(k, chain')
  BY <1>1, <1>5 DEF SInv, Safe, KernelState
<1>9. ASSUME OfferInv
      PROVE /\ Alive => Witnessed(k, chain')
            /\ \A j \in DOMAIN chain'.mined : chain'.mined[j].block <= chain'.head
  <2>1. \A j \in DOMAIN chain'.mined : chain'.mined[j].block <= chain'.head
    BY <1>4, <1>9 DEF OfferInv
  <2>2. Alive => Witnessed(k, chain')
    BY <1>5, <1>6, <1>9 DEF OfferInv, Offered
  <2> QED
    BY <2>1, <2>2
<1>10. chain \in Chains /\ chain' \in Chains /\ height \in Nat /\ height # 0
  BY <1>1 DEF Chains
<1> HIDE DEF height
<1>7. CASE Alive /\ k.head > 0
  <2>1. Full(k, disk, net, chain')
    BY <1>1, <1>5, <1>6, <1>7, InvFull, OtherChainFull
  <2>3. Onward(k, OnHead(k, height), disk, net, chain')
    BY <1>1, <1>4, <1>10, <2>1, OnHeadOnward
  <2>4. Advances(chain', disk, disk')
    BY <1>1, <1>2, AdvancesItself DEF Ledger
  <2>5. ASSUME OfferInv PROVE Attended(OnHead(k, height), disk, net, released, chain')
    <3>1. Attended(k, disk, net, released, chain)
      BY <1>7, <2>5, InvAttended
    <3>2. Offered(k, disk, net, released, chain')
      BY <1>1, <1>5, <1>7, <1>9, <1>10, <2>5, <3>1, FollowsOffered DEF Attended, Full
    <3> QED
      BY <1>1, <1>4, <1>10, <2>1, <3>1, <3>2, OnHeadAttended DEF Attended
  <2> QED
    BY <1>2, <1>4, <1>5, <1>7, <1>9, <2>3, <2>4, <2>5, HappensKeeps
<1>8. CASE ~(Alive /\ k.head > 0)
  <2>1. k' = k /\ (Alive => k.head = 0)
    BY <1>1, <1>2, <1>8 DEF KernelState
  <2> QED
    BY <1>2, <1>4, <1>5, <1>6, <1>9, <2>1, ChainKeeps
<1> QED
  BY <1>7, <1>8

\* a plan's simulation is orphaned
LEMMA OrphanedPlan ==
  ASSUME NEW s, Ready(s), NEW p \in PlanIds
  PROVE LET u == [s.plans[p] EXCEPT !.sim = Orphaned]
        IN QuietPlan(p, s.plans[p], u) /\ SameStatus(p, s.plans[p], u)
<1> DEFINE q == s.plans[p]
           u == [q EXCEPT !.sim = Orphaned]
<1>1. q \in Plan
  BY DEF Ready, Typed, KernelState
<1>2. /\ u.status = q.status /\ u.exposed = q.exposed /\ u.cursor = q.cursor
      /\ u.nonce = q.nonce /\ u.pending = q.pending /\ u.flush = q.flush /\ u.phase = q.phase
  BY <1>1 DEF Plan
<1> HIDE DEF u
<1>3. QuietPlan(p, q, u)
  BY <1>1, <1>2 DEF QuietPlan, Attached, SamePending
<1>4. SameStatus(p, q, u)
  BY <1>2, StatusKept
<1> QED
  BY <1>3, <1>4 DEF u

LEMMA ForkedEntryKept ==
  ASSUME NEW e \in Entry, NEW fork \in Nat
  PROVE LET f == ForkedEntry(e, fork)
        IN KeptEntry(e, f) /\ (f.neutralized => f.observed <= fork)
<1> DEFINE seen == IF e.observed > fork THEN [e EXCEPT !.observed = 0, !.neutralized = FALSE] ELSE e
           dead == [seen EXCEPT !.state = IF @ = "live" THEN "exposed" ELSE @,
                                !.prior = IF e.state = "revoking" THEN "exposed" ELSE @,
                                !.liveAt = 0]
<1>1. ForkedEntry(e, fork) = IF e.liveAt <= fork THEN seen ELSE dead
  BY DEF ForkedEntry
<1>2. /\ DOMAIN seen = DOMAIN e /\ seen.state = e.state /\ seen.creators = e.creators
      /\ seen.deadCreators = e.deadCreators
      /\ seen.neutralized => e.neutralized /\ seen.observed = e.observed /\ seen.observed <= fork
  <2>0. e.observed \in Nat
    BY DEF Entry
  <2>1. CASE e.observed > fork
    <3>1. seen = [e EXCEPT !.observed = 0, !.neutralized = FALSE]
      BY <2>1
    <3> HIDE DEF seen
    <3> QED
      BY <3>1 DEF Entry
  <2>2. CASE ~(e.observed > fork)
    <3>1. seen = e
      BY <2>2
    <3> HIDE DEF seen
    <3> QED
      BY <2>0, <2>2, <3>1
  <2> QED
    BY <2>1, <2>2
<1> HIDE DEF seen
<1>3. /\ dead.state = IF seen.state = "live" THEN "exposed" ELSE seen.state
      /\ dead.creators = seen.creators /\ dead.deadCreators = seen.deadCreators
      /\ dead.neutralized = seen.neutralized /\ dead.observed = seen.observed
  BY <1>2 DEF Entry
<1> HIDE DEF dead
<1>4. KeptEntry(e, seen) /\ KeptEntry(e, dead)
  BY <1>2, <1>3 DEF KeptEntry, Held
<1> QED
  BY <1>1, <1>2, <1>3, <1>4

\* what rested on the blocks above the fork is taken back
LEMMA ForkedGentle ==
  ASSUME NEW s, Ready(s), NEW fork \in Nat, Typed(Forked(s, fork))
  PROVE /\ Gentle(s, Forked(s, fork))
        /\ \A n \in Nonces : Forked(s, fork).nonces[n].resolution.block <= fork
        /\ \A o \in Offers : LET f == Forked(s, fork).entries[o]
                             IN f.neutralized => f.observed <= fork
<1> DEFINE plans == [p \in PlanIds |->
                       IF s.plans[p].sim > fork THEN [s.plans[p] EXCEPT !.sim = Orphaned]
                       ELSE s.plans[p]]
           nonces == [n \in Nonces |->
                        IF s.nonces[n].resolution.block > fork
                        THEN [s.nonces[n] EXCEPT !.resolution = Unresolved] ELSE s.nonces[n]]
           entries == [o \in Offers |-> ForkedEntry(s.entries[o], fork)]
           r == Forked(s, fork)
<1>0. s \in KernelState /\ s.plans \in [PlanIds -> Plan] /\ s.nonces \in [Nonces -> NonceRecord]
  BY DEF Ready, Typed, KernelState
<1>1. r = [s EXCEPT !.plans = plans, !.nonces = nonces, !.entries = entries]
  BY DEF Forked
<1> HIDE DEF plans, nonces, entries, r
<1>2. /\ r.plans = plans /\ r.submissions = s.submissions /\ r.nonces = nonces
      /\ r.writes = s.writes /\ r.nextNonce = s.nextNonce /\ r.finalized = s.finalized
      /\ r.resends = s.resends /\ r.head = s.head /\ r.entries = entries /\ r.slot = s.slot
      /\ r.outcome = s.outcome
  BY <1>0, <1>1, ZenonT(60) DEF KernelState
<1>3. ASSUME NEW n \in Nonces
      PROVE SameRecord(s.nonces[n], nonces[n]) /\ nonces[n].resolution.block <= fork
  <2>1. s.nonces[n] \in NonceRecord /\ s.nonces[n].resolution.block \in Nat
    BY <1>0 DEF NonceRecord, Resolution
  <2>2. CASE s.nonces[n].resolution.block > fork
    <3>1. nonces[n] = [s.nonces[n] EXCEPT !.resolution = Unresolved]
      BY <2>2 DEF nonces
    <3>2. /\ nonces[n].open = s.nonces[n].open
          /\ nonces[n].candidates = s.nonces[n].candidates
          /\ nonces[n].resolution = Unresolved
      BY <2>1, <3>1 DEF NonceRecord
    <3> QED
      BY <3>2 DEF SameRecord, Unresolved
  <2>3. CASE ~(s.nonces[n].resolution.block > fork)
    <3>1. nonces[n] = s.nonces[n]
      BY <2>3 DEF nonces
    <3> QED
      BY <2>1, <2>3, <3>1 DEF SameRecord
  <2> QED
    BY <2>2, <2>3
<1>4. ASSUME NEW p \in PlanIds
      PROVE /\ QuietPlan(p, s.plans[p], plans[p]) /\ SameStatus(p, s.plans[p], plans[p])
            /\ plans[p].status = s.plans[p].status /\ plans[p].phase = s.plans[p].phase
            /\ plans[p].cursor = s.plans[p].cursor /\ plans[p].flush = s.plans[p].flush
            /\ plans[p].target = s.plans[p].target
  <2>1. CASE s.plans[p].sim > fork
    <3>1. plans[p] = [s.plans[p] EXCEPT !.sim = Orphaned]
      BY <2>1 DEF plans
    <3>2. /\ plans[p].status = s.plans[p].status /\ plans[p].phase = s.plans[p].phase
          /\ plans[p].cursor = s.plans[p].cursor /\ plans[p].flush = s.plans[p].flush
          /\ plans[p].target = s.plans[p].target
      BY <1>0, <3>1 DEF Plan
    <3> QED
      BY <3>1, <3>2, OrphanedPlan
  <2>2. CASE ~(s.plans[p].sim > fork)
    <3>1. plans[p] = s.plans[p] /\ s.plans[p] \in Plan
      BY <1>0, <2>2 DEF plans
    <3> QED
      BY <3>1, QuietPlanItself, SameStatusItself
  <2> QED
    BY <2>1, <2>2
<1>5. SameLists(s, r)
  BY <1>2, <1>3 DEF SameLists
<1>6. Quiet(s, r)
  BY <1>2, <1>4, <1>5, PlansQuiet DEF r
<1>7. ASSUME NEW o \in Offers
      PROVE KeptEntry(s.entries[o], entries[o]) /\ (entries[o].neutralized => entries[o].observed <= fork)
  <2>1. entries[o] = ForkedEntry(s.entries[o], fork) /\ s.entries[o] \in Entry
    BY <1>0 DEF entries, KernelState
  <2> QED
    BY <2>1, ForkedEntryKept
<1>8. \A p \in PlanIds : KeptPlan(p, s.plans[p], plans[p])
  BY <1>4 DEF KeptPlan, InFlightPlan, Fits
<1>9. KeptSlot(s, r)
  BY <1>2, <1>4 DEF KeptSlot
<1>10. Gentle(s, r)
  BY <1>2, <1>6, <1>7, <1>8, <1>9 DEF Gentle, Mild
<1> QED
  BY <1>2, <1>3, <1>7, <1>10 DEF r

LEMMA RolledBackGentle ==
  ASSUME Ready(k), NEW fork \in Nat
  PROVE /\ Gentle(k, RolledBack(fork))
        /\ \A n \in Nonces : RolledBack(fork).nonces[n].resolution.block <= fork
        /\ \A o \in Offers : LET f == RolledBack(fork).entries[o]
                             IN f.neutralized => f.observed <= fork
<1> DEFINE s == IF fork < k.finalized THEN EnterRecovering(k) ELSE k
<1>1. RolledBack(fork) = Forked(s, fork)
  <2>1. Value(s) = s
    BY ValueIsItself
  <2>2. RolledBack(fork) = Forked(Value(s), fork)
    BY DEF RolledBack
  <2> QED
    BY <2>1, <2>2
<1>2. Gentle(k, s)
  BY EnterRecoveringGentle, GentleItself
<1> HIDE DEF s
<1>3. Typed(Forked(s, fork)) /\ Ready(s)
  BY <1>1, <1>2, RolledBackTyped, GentleReady DEF Ready
<1>4. /\ Gentle(s, Forked(s, fork))
      /\ \A n \in Nonces : Forked(s, fork).nonces[n].resolution.block <= fork
      /\ \A o \in Offers : LET f == Forked(s, fork).entries[o]
                           IN f.neutralized => f.observed <= fork
  BY <1>3, ForkedGentle
<1> QED
  BY <1>1, <1>2, <1>4, GentleTrans

LEMMA UpToFork ==
  ASSUME NEW mined \in Seq(Mined), NEW fork \in Nat
  PROVE LET new == UpTo(mined, fork)
        IN /\ new \in Seq(Mined) /\ DOMAIN new \subseteq DOMAIN mined
           /\ \A j \in DOMAIN new : new[j] = mined[j]
           /\ \A j \in DOMAIN mined : mined[j].block <= fork => j \in DOMAIN new
<1> DEFINE new == UpTo(mined, fork)
<1>1. \A j \in DOMAIN mined : mined[j].block \in Nat
  <2> SUFFICES ASSUME NEW j \in DOMAIN mined PROVE mined[j].block \in Nat
    OBVIOUS
  <2>1. mined[j] \in Mined
    BY LenProperties, ElementOfSeq
  <2> QED
    BY <2>1 DEF Mined
<1>2. CASE mined # <<>> /\ mined[Len(mined)].block > fork
  <2>1. new = SubSeq(mined, 1, Len(mined) - 1)
    BY <1>2 DEF UpTo
  <2>2. Len(mined) \in Nat \ {0}
    BY <1>2, EmptySeq, LenProperties
  <2>3. /\ new \in Seq(Mined) /\ Len(new) = Len(mined) - 1
        /\ \A j \in 1 .. Len(mined) - 1 : new[j] = mined[j]
    <3> DEFINE n == Len(mined) - 1
    <3>1. n \in Nat /\ \A i \in 1 .. n : mined[i] \in Mined
      BY <2>2, ElementOfSeq, LenProperties
    <3>2. SubSeq(mined, 1, n) \in Seq(Mined)
      BY <3>1, SubSeqProperties
    <3>3. Len(SubSeq(mined, 1, n)) = IF 1 <= n THEN n - 1 + 1 ELSE 0
      BY <3>1, SubSeqProperties
    <3>4. \A i \in 1 .. n - 1 + 1 : SubSeq(mined, 1, n)[i] = mined[1 + i - 1]
      BY <3>1, SubSeqProperties
    <3>5. n - 1 + 1 = n /\ \A i \in 1 .. n : 1 + i - 1 = i
      BY <3>1
    <3>6. Len(SubSeq(mined, 1, n)) = n
      BY <3>1, <3>3, <3>5
    <3>7. \A i \in 1 .. n : SubSeq(mined, 1, n)[i] = mined[i]
      BY <3>4, <3>5
    <3> QED
      BY <2>1, <3>2, <3>6, <3>7
  <2>4. DOMAIN new = 1 .. Len(mined) - 1 /\ DOMAIN mined = 1 .. Len(mined)
    BY <2>3, LenProperties
  <2> HIDE DEF new
  <2> QED
    BY <1>1, <1>2, <2>2, <2>3, <2>4 DEF new
<1>3. CASE ~(mined # <<>> /\ mined[Len(mined)].block > fork)
  <2>1. new = mined
    BY <1>3 DEF UpTo
  <2> QED
    BY <2>1
<1> QED
  BY <1>2, <1>3

LEMMA ReplaceTipKeeps == ASSUME SInv, IInv', ReplaceTip PROVE Keeps
<1> DEFINE fork == chain.head - 1
           rb == RolledBack(fork)
           mid == Reduce(rb)
<1>1. /\ chain \in [head : Nat, mined : Seq(Mined)] /\ disk \in Ledger /\ net \in SUBSET Tx
      /\ chain.mined \in Seq(Mined) /\ chain.head \in Nat /\ k \in KernelState
      /\ FinalityLag \in Nat
  BY BoundsAssumption DEF SInv, IInv, TypeOK
<1>2. /\ fork > 0 /\ fork >= chain.head - FinalityLag
      /\ chain' = [chain EXCEPT !.mined = UpTo(chain.mined, fork)]
      /\ disk' = disk /\ net' = net /\ released' = released
      /\ k' = IF Alive /\ k.head > 0 THEN Reduce(OnHead(mid, chain.head)) ELSE k
  BY DEF ReplaceTip
<1>3. fork \in Nat
  BY <1>1, <1>2
<1> DEFINE mined == UpTo(chain.mined, fork)
<1>4. /\ mined \in Seq(Mined) /\ DOMAIN mined \subseteq DOMAIN chain.mined
      /\ \A j \in DOMAIN mined : mined[j] = chain.mined[j]
      /\ \A j \in DOMAIN chain.mined : chain.mined[j].block <= fork => j \in DOMAIN mined
  BY <1>1, <1>3, UpToFork
<1>5. chain'.head = chain.head /\ chain'.mined = mined
  BY <1>1, <1>2
<1> HIDE DEF mined
<1>6. ASSUME NEW n \in Nonces, n < Len(chain.mined), chain.mined[n + 1].block <= fork
      PROVE n < Len(mined) /\ mined[n + 1] = chain.mined[n + 1]
  <2>1. n \in Nat
    BY BoundsAssumption, SMTT(30) DEF Nonces
  <2>2. DOMAIN chain.mined = 1 .. Len(chain.mined) /\ DOMAIN mined = 1 .. Len(mined)
        /\ Len(mined) \in Nat /\ Len(chain.mined) \in Nat
    BY <1>1, <1>4, LenProperties
  <2>3. n + 1 \in DOMAIN chain.mined
    BY <1>6, <2>1, <2>2
  <2>4. n + 1 \in DOMAIN mined
    BY <1>4, <1>6, <2>3
  <2> QED
    BY <1>4, <2>1, <2>2, <2>4
<1>7. ASSUME NEW n \in Nonces, FinalOn(chain, n)
      PROVE FinalOn(chain', n) /\ chain'.mined[n + 1] = chain.mined[n + 1]
  <2>1. n < Len(chain.mined) /\ chain.mined[n + 1].block <= chain.head - FinalityLag
    BY <1>7 DEF FinalOn
  <2>2. chain.mined[n + 1].block \in Nat
    <3>1. n + 1 \in DOMAIN chain.mined
      BY <1>1, <2>1, LenProperties, BoundsAssumption, SMTT(30) DEF Nonces
    <3>2. chain.mined[n + 1] \in Mined
      BY <1>1, <3>1, LenProperties, ElementOfSeq
    <3> QED
      BY <3>2 DEF Mined
  <2>3. chain.mined[n + 1].block <= fork
    BY <1>1, <1>2, <1>3, <2>1, <2>2
  <2> QED
    BY <1>5, <1>6, <2>1, <2>3 DEF FinalOn
<1>8. MinedWasSent'
  BY <1>2, <1>4, <1>5 DEF MinedWasSent, SInv
<1>11. Follows(chain, chain') /\ chain \in Chains /\ chain' \in Chains
  BY <1>1, <1>4, <1>5, <1>7 DEF Follows, Chains, IInv, TypeOK
<1>12. ASSUME OfferInv, NEW j \in DOMAIN chain'.mined PROVE chain'.mined[j].block <= chain'.head
  BY <1>4, <1>5, <1>12 DEF OfferInv
<1>13. ASSUME NEW s, Evidence(s, chain), Witnessed(s, chain),
              \A n \in Nonces : s.nonces[n].resolution.block <= fork,
              \A o \in Offers : s.entries[o].neutralized => s.entries[o].observed <= fork,
              s \in KernelState
       PROVE Witnessed(s, chain')
  <2>1. ASSUME NEW n \in Nonces, Resolved(s.nonces[n]) PROVE chain'.mined[n + 1] = chain.mined[n + 1]
    BY <1>5, <1>6, <1>13, <2>1 DEF Evidence
  <2>2. ASSUME NEW n \in Nonces PROVE SeenNonce(s, chain', n)
    BY <1>13, <2>1 DEF Witnessed, SeenNonce
  <2>3. ASSUME NEW o \in Offers, s.entries[o].neutralized PROVE SeenEntry(s, chain', o)
    <3>1. SeenEntry(s, chain, o) /\ s.entries[o].observed <= fork /\ s.entries[o].observed \in Nat
      BY <1>13, <2>3 DEF Witnessed, KernelState, Entry
    <3>2. PICK n \in Nonces : /\ n < Len(chain.mined) /\ NeutralizedBy(chain.mined[n + 1], o)
                              /\ chain.mined[n + 1].block <= s.entries[o].observed
      BY <2>3, <3>1 DEF SeenEntry
    <3>3. chain.mined[n + 1].block \in Nat
      <4>1. n + 1 \in DOMAIN chain.mined
        BY <1>1, <3>2, LenProperties, BoundsAssumption, SMTT(30) DEF Nonces
      <4>2. chain.mined[n + 1] \in Mined
        BY <1>1, <4>1, LenProperties, ElementOfSeq
      <4> QED
        BY <4>2 DEF Mined
    <3> DEFINE b == chain.mined[n + 1].block
               seen == s.entries[o].observed
    <3>4. b \in Nat /\ seen \in Nat /\ b <= seen /\ seen <= fork
      BY <3>1, <3>2, <3>3
    <3> HIDE DEF b, seen, fork
    <3>5. b <= fork
      BY <1>3, <3>4
    <3>6. n < Len(chain'.mined) /\ chain'.mined[n + 1] = chain.mined[n + 1]
      BY <1>5, <1>6, <3>2, <3>5 DEF b
    <3> QED
      BY <3>1, <3>2, <3>6, <2>3 DEF SeenEntry
  <2>4. \A o \in Offers : SeenEntry(s, chain', o)
    BY <2>3 DEF SeenEntry
  <2> QED
    BY <2>2, <2>4 DEF Witnessed
<1>9. CASE Alive /\ k.head > 0
  <2>1. Full(k, disk, net, chain) /\ Ready(k)
    BY <1>9, InvFull
  <2> HIDE DEF fork
  <2>2. /\ Gentle(k, rb) /\ \A n \in Nonces : rb.nonces[n].resolution.block <= fork
        /\ \A o \in Offers : rb.entries[o].neutralized => rb.entries[o].observed <= fork
    BY <1>3, <2>1, RolledBackGentle
  <2> HIDE DEF rb
  <2>3. Onward(k, rb, disk, net, chain)
    BY <1>1, <2>1, <2>2, QuietOnward DEF Gentle
  <2>4. Evidence(rb, chain')
    <3>1. Evidence(rb, chain)
      BY <2>3 DEF Onward, Full, Safe
    <3>2. ASSUME NEW n \in Nonces, Resolved(rb.nonces[n])
          PROVE /\ rb.head # 0 /\ n < Len(mined)
                /\ mined[n + 1].block = rb.nonces[n].resolution.block
      <4>1. /\ rb.head # 0 /\ n < Len(chain.mined)
            /\ chain.mined[n + 1].block = rb.nonces[n].resolution.block
        BY <3>1, <3>2 DEF Evidence
      <4>2. chain.mined[n + 1].block <= fork
        BY <2>2, <4>1
      <4> QED
        BY <1>6, <4>1, <4>2
    <3> QED
      BY <1>5, <3>1, <3>2 DEF Evidence
  <2>5. Full(rb, disk, net, chain') /\ Advances(chain', k, rb)
    BY <1>1, <1>7, <2>3, <2>4, OtherChainFull, OtherChainAdvances DEF Onward
  <2>6. Onward(k, rb, disk, net, chain')
    BY <2>5 DEF Onward
  <2>7. Full(k, disk, net, chain) /\ chain'.head \in Nat
    BY <1>1, <1>5, <2>1
  <2>8. Onward(rb, mid, disk, net, chain')
    BY <1>1, <2>5, <2>7, ReduceOnward
  <2>12. ASSUME OfferInv
         PROVE Offered(mid, disk, net, released, chain') /\ Ended(mid, net, chain')
    <3>1. Attended(k, disk, net, released, chain)
      BY <1>9, <2>12, InvAttended
    <3>2. Attended(rb, disk, net, released, chain)
      BY <1>1, <2>2, <3>1, AttendedGentle
    <3>3. Typed(rb) /\ rb \in KernelState /\ Evidence(rb, chain) /\ rb.outcome # "clean"
          /\ Offered(rb, disk, net, released, chain) /\ rb.head \in {0, chain'.head}
      BY <1>5, <3>2 DEF Attended, Full, Safe, Typed
    <3>4. Witnessed(rb, chain')
      BY <1>13, <2>2, <3>3 DEF Offered
    <3>5. Offered(rb, disk, net, released, chain')
      BY <1>1, <1>11, <3>3, <3>4, FollowsOffered
    <3>6. Attended(rb, disk, net, released, chain')
      BY <2>5, <3>3, <3>5 DEF Attended
    <3>7. MinedSent(chain', net)
      BY <1>2, <1>8 DEF MinedWasSent, MinedSent
    <3> QED
      BY <1>1, <1>11, <3>6, <3>7, ReduceOffered
  <2> HIDE DEF mid
  <2>9. Onward(mid, OnHead(mid, chain.head), disk, net, chain')
    <3>1. chain.head # 0 /\ chain.head \in Nat /\ chain.head = chain'.head
      BY <1>1, <1>2, <1>3, <1>5 DEF fork
    <3>2. Full(mid, disk, net, chain')
      BY <2>8 DEF Onward
    <3> QED
      BY <1>1, <3>1, <3>2, OnHeadOnward
  <2>10. Onward(k, OnHead(mid, chain.head), disk, net, chain')
    <3>1. Sound(k) /\ k.nextNonce \in Int /\ rb.nextNonce \in Int /\ mid.nextNonce \in Int
          /\ OnHead(mid, chain.head).nextNonce \in Int
      BY <2>1, <2>5, <2>8, <2>9 DEF Onward, Full, Safe, Typed, KernelState
    <3>2. Advances(chain', k, mid)
      BY <2>6, <2>8, <3>1, AdvancesTrans DEF Onward
    <3>3. Advances(chain', k, OnHead(mid, chain.head))
      BY <2>9, <3>1, <3>2, AdvancesTrans DEF Onward
    <3> QED
      BY <2>9, <3>3 DEF Onward
  <2>11. Advances(chain', disk, disk')
    BY <1>1, <1>2, AdvancesItself DEF Ledger
  <2> DEFINE next == OnHead(mid, chain.head)
  <2>13. /\ Full(mid, disk, net, chain') /\ Typed(mid) /\ chain.head \in Nat
         /\ chain.head = chain'.head /\ chain.head # 0
    BY <1>1, <1>2, <1>3, <1>5, <2>8 DEF Onward, Full, fork
  <2>14. /\ Tame(mid, next) /\ next.outcome = mid.outcome /\ next.head = chain.head
         /\ next.lifecycle = mid.lifecycle /\ next.entries = mid.entries
    <3>1. /\ Onward(mid, next, disk, net, chain')
          /\ Tame(mid, next) /\ next.outcome = mid.outcome /\ next.head = chain.head
          /\ next.lifecycle = mid.lifecycle /\ next.entries = mid.entries
      BY <1>1, <2>13, OnHeadOnward
    <3> QED
      BY <3>1
  <2>15. OfferInv /\ mid.outcome # "clean" => Attended(next, disk, net, released, chain')
    BY <1>1, <2>12, <2>13, OnHeadAttended
  <2> HIDE DEF next
  <2>16. k' = Reduce(next)
    BY <1>2, <1>9 DEF next
  <2>17. ASSUME OfferInv, mid.outcome = "clean" PROVE OfferInv'
    <3>1. /\ mid.lifecycle = "stopped" /\ SettledOffers(mid)
          /\ \A t \in net : FinalOn(chain', t.nonce)
      BY <2>12, <2>17 DEF Ended
    <3>2. k' = next
      BY <2>14, <2>16, <3>1 DEF Reduce
    <3>3. Offered(next, disk, net, released, chain')
      BY <2>12, <2>13, <2>14, <2>17, TameOffered
    <3>4. Ended(next, net, chain')
      BY <2>14, <3>1 DEF Ended, SettledOffers
    <3>5. Stored(next, disk, net, released, chain')
          /\ Covers(chain', next, released, Outside(next, net)) /\ next.lifecycle = "stopped"
      BY <2>14, <3>1, <3>3 DEF Offered
    <3> QED
      BY <1>2, <1>12, <2>17, <3>2, <3>4, <3>5 DEF OfferInv, Alive
  <2>18. Onward(k, next, disk', net', chain')
    BY <1>2, <2>10 DEF next
  <2>19. OfferInv => \/ OfferInv'
                     \/ /\ Attended(next, disk', net', released', chain')
                        /\ \A j \in DOMAIN chain'.mined : chain'.mined[j].block <= chain'.head
    BY <1>2, <1>12, <2>15, <2>17
  <2> QED
    BY <1>7, <1>8, <1>9, <2>11, <2>16, <2>18, <2>19, HappensKeeps
<1>10. CASE ~(Alive /\ k.head > 0)
  <2>1. ASSUME Alive PROVE Evidence(k, chain')
    <3>1. Evidence(k, chain) /\ k.head = 0
      BY <1>1, <1>10, <2>1 DEF SInv, Safe, KernelState
    <3> QED
      BY <1>5, <3>1 DEF Evidence
  <2>2. k' = k /\ (Alive => k.head = 0)
    BY <1>1, <1>2, <1>10 DEF KernelState
  <2>3. ASSUME OfferInv, Alive PROVE Witnessed(k, chain')
    <3>1. k.head = 0 /\ Evidence(k, chain) /\ Witnessed(k, chain)
      BY <2>2, <2>3 DEF SInv, Safe, OfferInv, Offered
    <3>2. /\ \A n \in Nonces : ~Resolved(k.nonces[n])
          /\ \A o \in Offers : ~k.entries[o].neutralized
      BY <3>1 DEF Evidence, Witnessed, SeenEntry
    <3> QED
      BY <3>2 DEF Witnessed, SeenNonce, SeenEntry
  <2> QED
    BY <1>2, <1>8, <1>11, <1>12, <2>1, <2>2, <2>3, ChainKeeps
<1> QED
  BY <1>9, <1>10
-----------------------------------------------------------------------------
(* What the adapter reads of a nonce.                                      *)

\* nonce n is found mined
LEMMA ResolvedOnward ==
  ASSUME NEW d \in Ledger, NEW N \in SUBSET Tx, NEW ch, NEW s, Full(s, d, N, ch),
         NEW n \in Nonces, n < Len(ch.mined), s.head # 0,
         NEW record \in NonceRecord, record.candidates = s.nonces[n].candidates,
         record.open = s.nonces[n].open, record.resolution.block = ch.mined[n + 1].block,
         NEW r, r = [s EXCEPT !.nonces = [s.nonces EXCEPT ![n] = record]]
  PROVE Onward(s, r, d, N, ch)
<1>1. Typed(s) /\ s \in KernelState /\ s.nonces \in [Nonces -> NonceRecord]
      /\ s.nonces[n] \in NonceRecord
  BY DEF Full, Typed, KernelState
<1> DEFINE nonces == [s.nonces EXCEPT ![n] = record]
<1>3. nonces \in [Nonces -> NonceRecord]
  BY <1>1
<1>4. \A m \in Nonces : /\ nonces[m].candidates = s.nonces[m].candidates
                        /\ nonces[m].open = s.nonces[m].open
                        /\ m # n => nonces[m] = s.nonces[m]
  BY <1>1
<1>5. nonces[n].resolution.block = ch.mined[n + 1].block
  BY <1>1
<1>6. r = [s EXCEPT !.nonces = nonces]
  OBVIOUS
<1> HIDE DEF nonces
<1>7. /\ r.plans = s.plans /\ r.submissions = s.submissions /\ r.writes = s.writes
      /\ r.nextNonce = s.nextNonce /\ r.resends = s.resends /\ r.finalized = s.finalized
      /\ r.head = s.head /\ r.nonces = nonces /\ r.lifecycle = s.lifecycle
  BY <1>1, <1>6, ZenonT(60) DEF KernelState
<1>8. Typed(r)
  BY <1>1, <1>3, <1>6, NoncesTyped
<1>9. Retold(s, r)
  BY <1>4, <1>7 DEF Retold, SameTxs
<1>10. Evidence(r, ch)
  BY <1>4, <1>5, <1>7 DEF Evidence, Full, Safe, Resolved
<1>11. OutOnFile(r, d)
  BY <1>4, <1>7 DEF OutOnFile, OnFile, Full, Safe
<1> QED
  BY <1>7, <1>8, <1>9, <1>10, <1>11, RetoldOnward

LEMMA ResolvedAttended ==
  ASSUME NEW d, NEW N, NEW R, NEW ch, NEW s, Attended(s, d, N, R, ch),
         NEW n \in Nonces, NEW record, record.candidates = s.nonces[n].candidates,
         NEW r, r = [s EXCEPT !.nonces = [s.nonces EXCEPT ![n] = record]],
         Onward(s, r, d, N, ch), SeenNonce(r, ch, n)
  PROVE Attended(r, d, N, R, ch)
<1>1. Typed(s) /\ s \in KernelState /\ s.nonces \in [Nonces -> NonceRecord]
      /\ Offered(s, d, N, R, ch) /\ Full(r, d, N, ch)
  BY DEF Attended, Onward, Full, Typed, KernelState
<1> DEFINE nonces == [s.nonces EXCEPT ![n] = record]
<1>2. \A m \in Nonces : /\ SameTxs(s.nonces[m], nonces[m])
                        /\ m # n => nonces[m] = s.nonces[m]
  BY <1>1 DEF SameTxs
<1>3. r = [s EXCEPT !.nonces = nonces]
  OBVIOUS
<1> HIDE DEF nonces
<1>4. /\ r.plans = s.plans /\ r.slot = s.slot /\ r.writes = s.writes
      /\ r.resends = s.resends /\ r.entries = s.entries /\ r.head = s.head
      /\ r.outcome = s.outcome /\ r.nonces = nonces
  BY <1>1, <1>3, ZenonT(60) DEF KernelState
<1>5. StillHeld(s, r) /\ Fresh(r)
  BY <1>1, <1>4 DEF StillHeld, Fresh, Offered
<1>6. ASSUME NEW m \in Nonces PROVE SeenNonce(r, ch, m)
  <2>1. CASE m = n
    BY <2>1
  <2>2. CASE m # n
    <3>1. r.nonces[m] = s.nonces[m] /\ SeenNonce(s, ch, m)
      BY <1>1, <1>2, <1>4, <2>2 DEF Offered, Witnessed
    <3> QED
      BY <3>1 DEF SeenNonce
  <2> QED
    BY <2>1, <2>2
<1>7. \A o \in Offers : SeenEntry(r, ch, o)
  BY <1>1, <1>4 DEF SeenEntry, Offered, Witnessed
<1>8. Offered(r, d, N, R, ch)
  BY <1>1, <1>2, <1>4, <1>5, <1>6, <1>7, EvidenceOffered DEF Witnessed
<1> QED
  BY <1>1, <1>4, <1>8 DEF Attended

LEMMA NonceTxKeeps == ASSUME SInv, IInv', NEW n \in Nonces, NonceTx(n) PROVE Keeps
<1> DEFINE resolution == [block |-> chain.mined[n + 1].block, winner |-> 0,
                          outcome |-> "foreign"]
           record == [k.nonces[n] EXCEPT !.resolution = resolution, !.foreign = TRUE]
           r == [k EXCEPT !.nonces[n].resolution = resolution, !.nonces[n].foreign = TRUE]
<1>1. Handle(EnterRecovering(r)) /\ Alive /\ n < Len(chain.mined) /\ k.head # 0
  BY DEF NonceTx, Unanswered, SInv, IInv, Typed, KernelState
<1>2. /\ Full(k, disk, net, chain) /\ disk \in Ledger /\ net \in SUBSET Tx
      /\ k \in KernelState
  BY <1>1, InvFull
<1>3. chain.mined[n + 1] \in Mined
  BY <1>1, MinedTyped DEF SInv, IInv
<1>4. resolution \in Resolution /\ resolution.block = chain.mined[n + 1].block
  BY <1>3 DEF Resolution, Mined, Outcomes
<1> HIDE DEF resolution
<1>5. k.nonces[n] \in NonceRecord
  BY <1>2 DEF KernelState
<1>6. /\ record \in NonceRecord /\ record.candidates = k.nonces[n].candidates
      /\ record.open = k.nonces[n].open /\ record.resolution = resolution
  BY <1>4, <1>5 DEF NonceRecord
<1>7. r = [k EXCEPT !.nonces = [k.nonces EXCEPT ![n] = record]]
  BY <1>2 DEF KernelState
<1> HIDE DEF record, r
<1>8. Onward(k, r, disk, net, chain)
  BY <1>1, <1>2, <1>4, <1>6, <1>7, ResolvedOnward
<1>9. Full(r, disk, net, chain) /\ Ready(r)
  BY <1>8, FullReady DEF Onward
<1>10. Onward(r, EnterRecovering(r), disk, net, chain)
  BY <1>2, <1>9, EnterRecoveringQuiet, QuietOnward
<1>11. Onward(k, EnterRecovering(r), disk, net, chain)
  BY <1>2, <1>8, <1>10, OnwardTrans
<1>12. ASSUME OfferInv
       PROVE Attended(EnterRecovering(r), disk, net, released, chain)
  <2>1. r.nonces[n] = record
    BY <1>2, <1>5, <1>7 DEF KernelState
  <2>2. k.nonces[n].candidates \in Seq(Candidate)
    BY <1>5 DEF NonceRecord
  <2>3. ASSUME NEW c \in DOMAIN k.nonces[n].candidates
        PROVE chain.mined[n + 1].tx # TxAt(n, c, k.nonces[n].candidates[c])
    <3>1. c \in Nat /\ c # 0 /\ k.nonces[n].candidates[c] \in Candidate
      BY <2>2, LenProperties, ElementOfSeq
    <3> DEFINE t == TxAt(n, c, k.nonces[n].candidates[c])
    <3>2. /\ t.place = c /\ t.plan = k.nonces[n].candidates[c].plan
          /\ t.step = k.nonces[n].candidates[c].step /\ t.plan # Free
      BY <3>1, NotPlans DEF TxAt, Candidate
    <3>3. Foreign.plan = Free /\ Winner(n) = 0
      BY DEF Foreign, NonceTx
    <3> HIDE DEF t
    <3>4. ASSUME chain.mined[n + 1].tx = t PROVE FALSE
      BY <2>3, <3>1, <3>2, <3>3, <3>4 DEF Winner
    <3> QED
      BY <3>4 DEF t
  <2>4. SeenNonce(r, chain, n)
    BY <1>6, <2>1, <2>3 DEF SeenNonce, resolution
  <2>5. Attended(r, disk, net, released, chain)
    BY <1>1, <1>6, <1>7, <1>8, <1>12, <2>4, InvAttended, ResolvedAttended
  <2>6. Gentle(r, EnterRecovering(r))
    BY <1>9, EnterRecoveringGentle
  <2> QED
    BY <1>2, <2>5, <2>6, AttendedGentle
<1> QED
  BY <1>1, <1>11, <1>12, HandledKeeps

LEMMA ReceiptKeeps == ASSUME SInv, IInv', NEW n \in Nonces, Receipt(n) PROVE Keeps
<1> DEFINE m == chain.mined[n + 1]
           c == k.nonces[n].candidates[Winner(n)]
           p == c.plan
           resolution == [block |-> m.block, winner |-> Winner(n), outcome |-> m.outcome]
           record == [k.nonces[n] EXCEPT !.resolution = resolution]
           r == [k EXCEPT !.nonces[n].resolution = resolution]
           moved == ~Recovery(p) /\ k.plans[p].status # "none" /\ c.step < k.plans[p].cursor
                    /\ m.block > k.plans[p].lastInclusion
           q == [k.plans[p] EXCEPT !.lastInclusion = m.block]
<1>1. Handle(IF moved THEN [r EXCEPT !.plans[p].lastInclusion = m.block] ELSE r)
  BY DEF Receipt
<1>0. Alive /\ n < Len(chain.mined) /\ k.head # 0
  <2>1. n \in Unanswered /\ k.head \in Nat
    BY DEF Receipt, SInv, IInv, Typed, KernelState
  <2> QED
    BY <2>1 DEF Unanswered
<1>2. /\ Full(k, disk, net, chain) /\ disk \in Ledger /\ net \in SUBSET Tx
      /\ k \in KernelState
  BY <1>0, InvFull
<1>3. m \in Mined
  BY <1>0, MinedTyped DEF SInv, IInv
<1>4. k.nonces[n] \in NonceRecord /\ k.nonces[n].candidates \in Seq(Candidate)
  BY <1>2 DEF KernelState, NonceRecord
<1>5. Winner(n) \in DOMAIN k.nonces[n].candidates
  BY DEF Winner, Receipt
<1>6. Winner(n) \in Nat /\ c \in Candidate
  BY <1>4, <1>5, LenProperties, ElementOfSeq
<1>7. p \in PlanIds
  BY <1>6 DEF Candidate
<1>8. resolution \in Resolution /\ resolution.block = chain.mined[n + 1].block
  BY <1>3, <1>6 DEF Resolution, Mined, Outcomes
<1> HIDE DEF resolution
<1>9. /\ record \in NonceRecord /\ record.candidates = k.nonces[n].candidates
      /\ record.open = k.nonces[n].open /\ record.resolution = resolution
  BY <1>4, <1>8 DEF NonceRecord
<1>11. r = [k EXCEPT !.nonces = [k.nonces EXCEPT ![n] = record]]
  BY <1>2 DEF KernelState
<1> HIDE DEF record, r, moved
<1>12. Onward(k, r, disk, net, chain) /\ r.plans = k.plans
  <2>1. Onward(k, r, disk, net, chain)
    BY <1>0, <1>2, <1>8, <1>9, <1>11, ResolvedOnward
  <2>2. r.plans = k.plans
    BY <1>2, <1>11 DEF KernelState
  <2> QED
    BY <2>1, <2>2
<1>13. Full(r, disk, net, chain) /\ Ready(r) /\ r \in KernelState
  BY <1>12, FullReady DEF Onward, Ready, Typed
<1>14. Onward(k, [r EXCEPT !.plans[p].lastInclusion = m.block], disk, net, chain)
  <2>1. k.plans[p] \in Plan /\ Placed(p, k.plans[p]) /\ m.block \in Nat
    BY <1>2, <1>3, <1>7 DEF Full, Typed, KernelState, Mined
  <2> HIDE DEF m, p
  <2>2. /\ q \in Plan /\ q.phase = k.plans[p].phase /\ q.cursor = k.plans[p].cursor
        /\ q.nonce = k.plans[p].nonce /\ q.status = k.plans[p].status
        /\ q.exposed = k.plans[p].exposed /\ q.flush = k.plans[p].flush
        /\ q.pending = k.plans[p].pending
    BY <2>1 DEF Plan
  <2>3. [r EXCEPT !.plans[p].lastInclusion = m.block] = [r EXCEPT !.plans[p] = q]
    BY <1>12
  <2> HIDE DEF q
  <2>4. Placed(p, q)
    BY <2>1, <2>2 DEF Placed
  <2>5. QuietPlan(p, r.plans[p], q)
    BY <1>12, <2>2 DEF QuietPlan, SamePending, Attached
  <2>6. Quiet(r, [r EXCEPT !.plans[p] = q])
    BY <1>7, <1>12, <1>13, <2>2, <2>4, <2>5, OnePlanQuiet
  <2>7. Onward(r, [r EXCEPT !.plans[p] = q], disk, net, chain)
    BY <1>2, <1>13, <2>6, QuietOnward
  <2>8. Onward(k, [r EXCEPT !.plans[p] = q], disk, net, chain)
    BY <1>2, <1>12, <2>7, OnwardTrans
  <2> QED
    BY <2>3, <2>8
<1>15. ASSUME OfferInv PROVE Attended(r, disk, net, released, chain)
  <2>1. r.nonces[n] = record
    BY <1>2, <1>4, <1>11 DEF KernelState
  <2> DEFINE w == Winner(n)
             t == m.tx
  <2>2. w \in DOMAIN k.nonces[n].candidates /\ w # 0
    BY <1>5 DEF Receipt
  <2>3. /\ t # Foreign /\ t.place = w /\ k.nonces[n].candidates[w].plan = t.plan
        /\ k.nonces[n].candidates[w].step = t.step
    BY <2>2 DEF Winner
  <2>4. t.nonce = n /\ t \in Tx
    <3>1. n + 1 \in DOMAIN chain.mined /\ n \in Nat
      <4>1. chain.mined \in Seq(Mined) /\ n \in Nat
        BY <1>0 DEF SInv, IInv, TypeOK, Nonces
      <4> QED
        BY <1>0, <4>1
    <3>2. chain.mined[n + 1].tx \in net /\ chain.mined[n + 1].tx.nonce = (n + 1) - 1
      BY <2>3, <3>1 DEF SInv, MinedWasSent
    <3> QED
      BY <1>2, <3>1, <3>2
  <2>5. t = TxAt(n, w, k.nonces[n].candidates[w])
    BY <2>3, <2>4 DEF Tx, TxAt
  <2>6. /\ resolution.winner = w /\ resolution.outcome = m.outcome
    BY DEF resolution
  <2> HIDE DEF w
  <2>7. SeenNonce(r, chain, n)
    BY <1>9, <2>1, <2>2, <2>5, <2>6 DEF SeenNonce
  <2> QED
    BY <1>0, <1>9, <1>11, <1>12, <1>15, <2>7, InvAttended, ResolvedAttended
<1>16. ASSUME OfferInv
       PROVE Attended([r EXCEPT !.plans[p].lastInclusion = m.block], disk, net, released, chain)
  <2>1. k.plans[p] \in Plan /\ Placed(p, k.plans[p]) /\ m.block \in Nat
    BY <1>2, <1>3, <1>7 DEF Full, Typed, KernelState, Mined
  <2>2. Attended(r, disk, net, released, chain)
    BY <1>15, <1>16
  <2> HIDE DEF m, p
  <2>3. /\ q \in Plan /\ q.phase = k.plans[p].phase /\ q.cursor = k.plans[p].cursor
        /\ q.nonce = k.plans[p].nonce /\ q.status = k.plans[p].status
        /\ q.exposed = k.plans[p].exposed /\ q.flush = k.plans[p].flush
        /\ q.pending = k.plans[p].pending /\ q.target = k.plans[p].target
    BY <2>1 DEF Plan
  <2>4. [r EXCEPT !.plans[p].lastInclusion = m.block] = [r EXCEPT !.plans[p] = q]
    BY <1>12
  <2> HIDE DEF q
  <2>5. Placed(p, q)
    BY <2>1, <2>3 DEF Placed
  <2>6. QuietPlan(p, r.plans[p], q)
    BY <1>12, <2>3 DEF QuietPlan, SamePending, Attached
  <2>7. KeptPlan(p, r.plans[p], q)
    BY <1>12, <2>3 DEF KeptPlan, InFlightPlan, Fits
  <2>8. Gentle(r, [r EXCEPT !.plans[p] = q])
    BY <1>7, <1>12, <1>13, <2>3, <2>5, <2>6, <2>7, OnePlanGentle
  <2> QED
    BY <1>2, <2>2, <2>4, <2>8, AttendedGentle
<1> QED
  BY <1>0, <1>1, <1>12, <1>14, <1>15, <1>16, HandledKeeps DEF moved

\* the cursor moves on, over nonces that others took
LEMMA CursorOnward ==
  ASSUME NEW d \in Ledger, NEW N \in SUBSET Tx, NEW ch, NEW s, NEW r, Full(s, d, N, ch), Typed(r),
         r.plans = s.plans, r.submissions = s.submissions, r.writes = s.writes,
         r.resends = s.resends, r.finalized = s.finalized, r.head = s.head,
         s.nextNonce <= r.nextNonce,
         \A n \in Nonces :
            \/ /\ r.nonces[n] = s.nonces[n]
               /\ s.nextNonce # Undefined => n < s.nextNonce \/ n >= r.nextNonce
            \/ /\ n >= s.nextNonce /\ n < r.nextNonce /\ r.nonces[n].open
               /\ DOMAIN r.nonces[n].candidates = {} /\ ~Resolved(r.nonces[n])
  PROVE Onward(s, r, d, N, ch)
<1>1. /\ Typed(s) /\ s.nextNonce \in Int /\ r.nextNonce \in Int
      /\ s.nonces \in [Nonces -> NonceRecord] /\ r.nonces \in [Nonces -> NonceRecord]
      /\ s.plans \in [PlanIds -> Plan] /\ s.resends \in SUBSET Tx
      /\ Sound(s) /\ Submitted(s) /\ Behind(s) /\ Evidence(s, ch) /\ InFlight(s, d)
      /\ Passed(s, Outside(s, N)) /\ OutOnFile(s, d)
  BY DEF Full, Safe, Typed, KernelState
<1>2. \A n \in Nonces : n \in Int
  BY BoundsAssumption DEF Nonces
<1>3. ASSUME NEW n \in Nonces, n >= s.nextNonce
      PROVE DOMAIN s.nonces[n].candidates = {} /\ ~s.nonces[n].open
  BY <1>1, <1>2, <1>3 DEF Sound
<1>4. ASSUME NEW t \in Tx PROVE Lists(r, t) <=> Lists(s, t)
  <2>1. t.nonce \in Nonces
    BY DEF Tx
  <2>2. CASE r.nonces[t.nonce] = s.nonces[t.nonce]
    BY <2>2 DEF Lists
  <2>3. CASE r.nonces[t.nonce] # s.nonces[t.nonce]
    BY <1>3, <2>1, <2>3 DEF Lists
  <2> QED
    BY <2>2, <2>3
<1>5. SameListed(s, r)
  BY <1>4 DEF SameListed
<1>6. Listed(r) = Listed(s) /\ Outside(r, N) = Outside(s, N)
  BY <1>1, <1>5, ListedSame DEF Outside
<1>7. Sound(r)
  <2>1. r.nextNonce >= Undefined
    BY <1>1 DEF Sound, Undefined
  <2>2. ASSUME NEW n \in Nonces
        PROVE /\ DOMAIN r.nonces[n].candidates # {} => r.nonces[n].open
              /\ r.nonces[n].open => n < r.nextNonce
    BY <1>1, <1>2 DEF Sound
  <2> QED
    BY <2>1, <2>2 DEF Sound
<1>8. Submitted(r)
  BY <1>1 DEF Submitted
<1>9. Behind(r)
  <2> SUFFICES ASSUME NEW p \in PlanIds PROVE r.plans[p].nonce <= r.nextNonce
    BY DEF Behind
  <2>1. s.plans[p].nonce \in Int /\ s.plans[p].nonce <= s.nextNonce
    BY <1>1 DEF Behind, Plan
  <2> QED
    BY <1>1, <2>1
<1>10. Evidence(r, ch)
  BY <1>1 DEF Evidence
<1>11. InFlight(r, d)
  <2> SUFFICES ASSUME NEW p \in Executing(r), r.plans[p].phase \in {"commit", "expose"},
                      Step(r, p).kind = "tx"
               PROVE /\ Lists(r, TxIn(p, r.plans[p]))
                     /\ \A w \in DOMAIN r.writes :
                          w >= r.plans[p].flush => Lists(r.writes[w], TxIn(p, r.plans[p]))
                     /\ r.plans[p].phase = "expose" => OnFile(r, d, TxIn(p, r.plans[p]))
    BY DEF InFlight
  <2>1. p \in Executing(s) /\ p \in PlanIds /\ Step(s, p).kind = "tx"
        /\ s.plans[p].phase \in {"commit", "expose"}
    BY DEF Executing, Step
  <2>2. TxIn(p, s.plans[p]) \in Tx
    BY <1>1, <2>1, TxInTyped
  <2>3. /\ Lists(s, TxIn(p, s.plans[p]))
        /\ \A w \in DOMAIN s.writes :
             w >= s.plans[p].flush => Lists(s.writes[w], TxIn(p, s.plans[p]))
        /\ s.plans[p].phase = "expose" => OnFile(s, d, TxIn(p, s.plans[p]))
    BY <1>1, <2>1 DEF InFlight
  <2> QED
    BY <1>4, <2>2, <2>3 DEF OnFile
<1>12. Passed(r, Outside(r, N))
  BY <1>1, <1>6 DEF Passed
<1>13. OutOnFile(r, d)
  <2> SUFFICES ASSUME NEW n \in Nonces, NEW c \in DOMAIN r.nonces[n].candidates,
                      Out(r.nonces[n].candidates[c])
               PROVE OnFile(r, d, TxAt(n, c, r.nonces[n].candidates[c]))
    BY DEF OutOnFile
  <2>1. r.nonces[n] = s.nonces[n]
    OBVIOUS
  <2> QED
    BY <1>1, <2>1 DEF OutOnFile, OnFile
<1>14. Advances(ch, s, r)
  <2>1. \A i \in Intents : Moves(s.submissions[i], r.submissions[i])
    BY MovesItself
  <2>2. ASSUME NEW n \in Nonces, s.nextNonce # Undefined, HoleOn(ch, r, n)
        PROVE HoleOn(ch, s, n)
    <3>1. n \in Int /\ n < r.nextNonce /\ ~r.nonces[n].open
      BY <1>2, <2>2 DEF HoleOn
    <3>2. r.nonces[n] = s.nonces[n] /\ (n < s.nextNonce \/ n >= r.nextNonce)
      BY <2>2, <3>1
    <3> QED
      BY <1>1, <2>2, <3>1, <3>2 DEF HoleOn
  <2> QED
    BY <2>1, <2>2 DEF Advances
<1>15. Holds(s, r, d, N, ch)
  BY <1>7, <1>8, <1>9, <1>10, <1>11, <1>12, <1>13, <1>14 DEF Holds
<1>16. Relists(ch, s, r)
  BY <1>4 DEF Relists
<1> QED
  BY <1>15, <1>16, HoldsOnward

LEMMA NonceReadOnward ==
  ASSUME NEW d \in Ledger, NEW N \in SUBSET Tx, NEW ch, Full(k, d, N, ch),
         NEW latest \in Nat, NEW pending \in Nat
  PROVE /\ Onward(k, NonceRead(latest, pending), d, N, ch)
        /\ \A R : Attended(k, d, N, R, ch) => Attended(NonceRead(latest, pending), d, N, R, ch)
<1> DEFINE through == IF pending > latest THEN pending ELSE latest
           s == [k EXCEPT !.chainNonce = latest,
                          !.nonceChecked = @ \/ k.lifecycle = "starting"]
           nonces == [n \in Nonces |->
                        IF n >= k.nextNonce /\ n < through THEN ForeignRecord(k.head)
                        ELSE s.nonces[n]]
           first == [s EXCEPT !.nextNonce = latest]
           found == [s EXCEPT !.nextNonce = through, !.nonces = nonces]
           opened == k.nextNonce = Undefined /\ pending = latest
           beyond == k.nextNonce # Undefined /\ through > k.nextNonce
<1>1. \/ NonceRead(latest, pending) \in {Stop(s, "refused"), s}
      \/ opened /\ NonceRead(latest, pending) = first
      \/ beyond /\ NonceRead(latest, pending) = EnterRecovering(found)
  BY DEF NonceRead
<1>2. through \in Int /\ latest \in Int
  OBVIOUS
<1>3. /\ Typed(k) /\ k \in KernelState /\ Sound(k) /\ k.nextNonce \in Int /\ k.head \in Nat
      /\ Full(k, d, N, ch) /\ Ready(k)
  BY FullReady DEF Full, Safe, Typed, KernelState
<1>4. /\ s \in KernelState /\ s.plans = k.plans /\ s.submissions = k.submissions
      /\ s.nonces = k.nonces /\ s.writes = k.writes /\ s.nextNonce = k.nextNonce
      /\ s.finalized = k.finalized /\ s.resends = k.resends /\ s.head = k.head
  BY <1>3 DEF KernelState
<1>5. Typed(s)
  BY <1>3, <1>4, SamePlansTyped
<1>6. Quiet(k, s)
  BY <1>3, <1>4, <1>5, SameFieldsQuiet
<1>7. Onward(k, s, d, N, ch) /\ Ready(s)
  BY <1>6, QuietOnward DEF Quiet
<1>15. s.slot = k.slot /\ s.outcome = k.outcome /\ s.entries = k.entries
  BY <1>3 DEF KernelState
<1>16. ASSUME NEW R, Attended(k, d, N, R, ch)
       PROVE Attended(s, d, N, R, ch)
  <2>1. Gentle(k, s)
    BY <1>4, <1>6, <1>15, SameMild DEF Gentle
  <2> QED
    BY <1>16, <2>1, AttendedGentle
<1> HIDE DEF s, through
<1>17. ASSUME NEW R, Attended(k, d, N, R, ch)
       PROVE Attended(Stop(s, "refused"), d, N, R, ch)
  <2>1. Gentle(s, Stop(s, "refused"))
    BY <1>7, StopGentle
  <2> QED
    BY <1>16, <1>17, <2>1, AttendedGentle
<1>8. Onward(k, Stop(s, "refused"), d, N, ch)
  <2>1. Quiet(s, Stop(s, "refused"))
    BY <1>7, StopQuiet
  <2>2. Onward(s, Stop(s, "refused"), d, N, ch)
    BY <1>7, <2>1, QuietOnward DEF Onward
  <2> QED
    BY <1>7, <2>2, OnwardTrans
<1>9. ForeignRecord(k.head) \in NonceRecord
  BY <1>3, ForeignRecordTyped
<1>10. \A n \in Nonces : s.nonces[n] \in NonceRecord
  BY <1>4 DEF KernelState
<1>11. nonces \in [Nonces -> NonceRecord]
  BY <1>9, <1>10
<1>12. ASSUME opened PROVE Onward(k, first, d, N, ch)
  <2>1. /\ first \in KernelState /\ first.plans = k.plans /\ first.submissions = k.submissions
        /\ first.nonces = k.nonces /\ first.writes = k.writes /\ first.nextNonce = latest
        /\ first.finalized = k.finalized /\ first.resends = k.resends /\ first.head = k.head
    BY <1>2, <1>4 DEF KernelState
  <2>2. Typed(first)
    BY <1>5, <1>4, <2>1, SamePlansTyped
  <2>3. k.nextNonce = Undefined /\ k.nextNonce <= latest
    BY <1>12 DEF Undefined
  <2> HIDE DEF first
  <2> QED
    BY <1>3, <2>1, <2>2, <2>3, CursorOnward
<1>18. ASSUME opened, NEW R, Attended(k, d, N, R, ch) PROVE Attended(first, d, N, R, ch)
  <2>1. /\ first.plans = k.plans /\ first.nonces = k.nonces /\ first.writes = k.writes
        /\ first.resends = k.resends /\ first.head = k.head /\ first.slot = k.slot
        /\ first.outcome = k.outcome /\ first.entries = k.entries
        /\ first.finalized = k.finalized
    BY <1>4, <1>15 DEF KernelState
  <2>2. Full(first, d, N, ch)
    BY <1>12, <1>18 DEF Onward
  <2> HIDE DEF first
  <2>3. \A n \in Nonces : FewerRecord(k.nonces[n], first.nonces[n])
    BY <2>1 DEF FewerRecord, SameTxs
  <2>4. Tame(k, first)
    BY <2>1, <2>3, SameMild, PlansBack DEF Tame
  <2> QED
    BY <1>18, <2>1, <2>2, <2>4, AttendedTame DEF Attended
<1>13. ASSUME beyond PROVE Onward(k, found, d, N, ch)
  <2>1. nonces \in [Nonces -> NonceRecord]
    BY <1>11
  <2>2. ASSUME NEW n \in Nonces
        PROVE \/ /\ nonces[n] = k.nonces[n]
                 /\ n < k.nextNonce \/ n >= through
              \/ /\ n >= k.nextNonce /\ n < through /\ nonces[n].open
                 /\ DOMAIN nonces[n].candidates = {} /\ ~Resolved(nonces[n])
    <3>1. n \in Int
      BY BoundsAssumption DEF Nonces
    <3>2. CASE n >= k.nextNonce /\ n < through
      <4>1. nonces[n] = ForeignRecord(k.head)
        BY <3>2
      <4>2. ForeignRecord(k.head).open /\ ForeignRecord(k.head).candidates = <<>>
            /\ ForeignRecord(k.head).resolution = Unresolved
        BY DEF ForeignRecord, NoRecord
      <4>3. DOMAIN ForeignRecord(k.head).candidates = {}
        BY <4>2
      <4> HIDE DEF nonces
      <4> QED
        BY <3>2, <4>1, <4>2, <4>3 DEF Resolved, Unresolved
    <3>3. CASE ~(n >= k.nextNonce /\ n < through)
      BY <1>2, <1>3, <1>4, <3>1, <3>3
    <3> QED
      BY <3>2, <3>3
  <2> HIDE DEF nonces
  <2>3. /\ found \in KernelState /\ found.plans = k.plans /\ found.submissions = k.submissions
        /\ found.nonces = nonces /\ found.writes = k.writes /\ found.nextNonce = through
        /\ found.finalized = k.finalized /\ found.resends = k.resends /\ found.head = k.head
    BY <1>2, <1>4, <2>1, ZenonT(60) DEF KernelState
  <2>4. Typed(found)
    BY <1>4, <1>5, <2>3, SamePlansTyped
  <2>5. k.nextNonce <= through
    BY <1>2, <1>3, <1>13
  <2> HIDE DEF found
  <2> QED
    BY <1>3, <2>2, <2>3, <2>4, <2>5, CursorOnward
<1>19. ASSUME beyond, NEW R, Attended(k, d, N, R, ch) PROVE Attended(found, d, N, R, ch)
  <2>1. nonces \in [Nonces -> NonceRecord]
    BY <1>11
  <2>2. ASSUME NEW n \in Nonces PROVE FewerRecord(k.nonces[n], nonces[n])
    <3>1. CASE n >= k.nextNonce /\ n < through
      <4>1. nonces[n] = ForeignRecord(k.head) /\ n >= k.nextNonce
        BY <3>1
      <4>2. /\ ForeignRecord(k.head).candidates = <<>>
            /\ ForeignRecord(k.head).resolution = Unresolved
        BY DEF ForeignRecord, NoRecord
      <4>3. DOMAIN k.nonces[n].candidates = {}
        <5>1. n \in Int /\ k.nextNonce \in Int
              /\ (DOMAIN k.nonces[n].candidates # {} => n < k.nextNonce)
          BY <1>3, BoundsAssumption DEF Sound, Nonces
        <5> QED
          BY <4>1, <5>1
      <4>4. DOMAIN ForeignRecord(k.head).candidates = {}
        BY <4>2
      <4> HIDE DEF nonces
      <4> QED
        BY <4>1, <4>2, <4>3, <4>4 DEF FewerRecord, SameTxs
    <3>2. CASE ~(n >= k.nextNonce /\ n < through)
      <4>1. nonces[n] = k.nonces[n]
        BY <1>4, <3>2
      <4> HIDE DEF nonces
      <4> QED
        BY <4>1 DEF FewerRecord, SameTxs
    <3> QED
      BY <3>1, <3>2
  <2> HIDE DEF nonces
  <2>3. /\ found.plans = k.plans /\ found.nonces = nonces /\ found.writes = k.writes
        /\ found.resends = k.resends /\ found.head = k.head /\ found.slot = k.slot
        /\ found.outcome = k.outcome /\ found.entries = k.entries
    BY <1>4, <1>15, ZenonT(60) DEF KernelState
  <2>4. Full(found, d, N, ch)
    BY <1>13, <1>19 DEF Onward
  <2> HIDE DEF found
  <2>5. Tame(k, found)
    BY <2>2, <2>3, SameMild, PlansBack DEF Tame
  <2> QED
    BY <1>19, <2>3, <2>4, <2>5, AttendedTame DEF Attended
<1>20. ASSUME beyond, NEW R, Attended(k, d, N, R, ch)
       PROVE Attended(EnterRecovering(found), d, N, R, ch)
  <2>1. Attended(found, d, N, R, ch) /\ Full(found, d, N, ch)
    BY <1>13, <1>19, <1>20 DEF Onward
  <2> HIDE DEF found
  <2>2. Gentle(found, EnterRecovering(found))
    BY <2>1, FullReady, EnterRecoveringGentle
  <2> QED
    BY <2>1, <2>2, AttendedGentle
<1>14. ASSUME beyond PROVE Onward(k, EnterRecovering(found), d, N, ch)
  <2> HIDE DEF found
  <2>1. Full(found, d, N, ch) /\ Ready(found) /\ Onward(k, found, d, N, ch)
    BY <1>13, <1>14, FullReady DEF Onward
  <2>2. Onward(found, EnterRecovering(found), d, N, ch)
    BY <2>1, EnterRecoveringQuiet, QuietOnward
  <2> QED
    BY <2>1, <2>2, OnwardTrans
<1> HIDE DEF first, found, opened, beyond
<1> QED
  BY <1>1, <1>7, <1>8, <1>12, <1>14, <1>16, <1>17, <1>18, <1>20

LEMMA NonceAtKeeps == ASSUME SInv, IInv', NonceAt PROVE Keeps
<1>1. PICK pending \in {Len(chain.mined), PendingNonce} :
        Handle(NonceRead(Len(chain.mined), pending))
  BY DEF NonceAt
<1>2. Alive /\ Full(k, disk, net, chain) /\ disk \in Ledger /\ net \in SUBSET Tx
  BY InvFull DEF NonceAt
<1>3. Len(chain.mined) \in Nat /\ pending \in Nat
  BY <1>1, LenProperties, PendingNonceTyped DEF SInv, IInv, TypeOK
<1>4. Onward(k, NonceRead(Len(chain.mined), pending), disk, net, chain)
  BY <1>2, <1>3, NonceReadOnward
<1>5. ASSUME OfferInv
      PROVE Attended(NonceRead(Len(chain.mined), pending), disk, net, released, chain)
  <2>1. Attended(k, disk, net, released, chain)
    BY <1>2, <1>5, InvAttended
  <2> QED
    BY <1>2, <1>3, <2>1, NonceReadOnward
<1> QED
  BY <1>1, <1>2, <1>4, <1>5, HandledKeeps

-----------------------------------------------------------------------------
(* A process starts from the file, and ends.                               *)

\* a kernel with no write on its way and no transaction to resend, over what another leaves:
\* the file as it is, or with one of the writes
LEMMA FreshFiled ==
  ASSUME NEW d \in Ledger, NEW N \in SUBSET Tx, NEW ch, NEW s, s.writes \in Seq(Ledger),
         s.resends \in SUBSET Tx, Filed(s, d, N, ch),
         NEW e \in {d} \cup {s.writes[w] : w \in DOMAIN s.writes},
         NEW r, r.writes = <<>>, r.resends = {}
  PROVE Filed(r, e, N, ch) /\ Advances(ch, d, e)
<1>1. e \in Ledger
  BY ElementOfSeq, LenProperties
<1>2. SoundFile(e) /\ Once(e, Outside(s, N)) /\ Advances(ch, d, e)
  <2>1. CASE e = d
    BY <2>1, AdvancesItself DEF Filed, Ledger
  <2>2. CASE e # d
    BY <2>2 DEF Filed
  <2> QED
    BY <2>1, <2>2
<1>3. Outside(r, N) = N /\ N \subseteq Outside(s, N) /\ DOMAIN r.writes = {}
  BY DEF Outside
<1>4. Listed(e) \subseteq Tx
  BY <1>1, ListedTyped DEF Ledger
<1>5. Once(e, Outside(r, N))
  <2>1. \A i \in Intents : Moves(e.submissions[i], e.submissions[i])
    BY MovesItself
  <2>2. Outside(r, N) \cup Listed(e) \subseteq Outside(s, N) \cup Listed(e)
        /\ Outside(r, N) \cup Listed(e) \subseteq Tx
    BY <1>3, <1>4
  <2> QED
    BY <1>2, <2>1, <2>2, OnceFewer
<1>6. ASSUME NEW t \in Outside(r, N) PROVE FinalOn(ch, t.nonce) \/ OnFile(r, e, t)
  <2>1. FinalOn(ch, t.nonce) \/ OnFile(s, d, t)
    BY <1>3 DEF Filed
  <2>2. OnFile(s, d, t) => Lists(e, t)
    BY DEF OnFile
  <2> QED
    BY <1>3, <2>1, <2>2 DEF OnFile
<1> QED
  BY <1>2, <1>3, <1>5, <1>6 DEF Filed

LEMMA CrashKeeps == ASSUME SInv, IInv', Crash PROVE Keeps
<1>1. /\ k' = initialState /\ net' = net /\ chain' = chain /\ released' = released
      /\ disk' \in {disk} \cup {k.writes[w] : w \in DOMAIN k.writes}
  BY DEF Crash
<1>2. /\ disk \in Ledger /\ net \in SUBSET Tx /\ k.writes \in Seq(Ledger)
      /\ k.resends \in SUBSET Tx /\ Filed(k, disk, net, chain)
  BY DEF SInv, IInv, TypeOK, KernelState
<1>3. initialState.writes = <<>> /\ initialState.resends = {} /\ initialState.lifecycle = "idle"
  BY DEF initialState
<1>4. Filed(initialState, disk', net, chain) /\ Advances(chain, disk, disk')
  BY <1>1, <1>2, <1>3, FreshFiled
<1>5. ~Alive'
  BY <1>1, <1>3 DEF Alive
<1>6. Filed(k, disk, net, chain)'
  BY <1>1, <1>4
<1>7. MinedWasSent'
  BY <1>1 DEF MinedWasSent, SInv
<1>8. ASSUME OfferInv PROVE OfferInv'
  <2>1. Covers(chain, disk', released, Outside(k, net)) /\ Plain(disk')
    BY <1>1, <1>8 DEF OfferInv, Stored
  <2>2. Outside(initialState, net) \subseteq Outside(k, net)
    BY <1>3 DEF Outside
  <2>3. Covers(chain, disk', released, Outside(initialState, net))
    BY <2>1, <2>2, CoversKept
  <2>4. Stored(initialState, disk', net, released, chain)
    BY <1>3, <2>1, <2>3 DEF Stored
  <2>5. Ended(initialState, net, chain)
    BY DEF Ended, initialState
  <2> QED
    BY <1>1, <1>3, <1>5, <1>8, <2>4, <2>5 DEF OfferInv
<1> QED
  BY <1>1, <1>4, <1>5, <1>6, <1>7, <1>8 DEF Keeps, SInv

\* an entry of the file, under the policy of the restart
LoadedEntry(e, f) ==
  /\ f.state = e.state /\ f.creators = e.creators /\ f.deadCreators = e.deadCreators
  /\ f.neutralized = e.neutralized

\* what a process has loaded
LEMMA LoadedFields ==
  ASSUME NEW d \in Ledger, NEW W
  PROVE LET s == [Loaded(d, W) EXCEPT !.lastDurable = ToDurable(Loaded(d, W))]
        IN /\ Typed(s) /\ s.submissions = d.submissions /\ s.nextNonce = d.nextNonce
           /\ s.writes = <<>> /\ s.resends = {} /\ s.finalized = -1
           /\ \A p \in PlanIds : s.plans[p] = NoPlan
           /\ \A n \in Nonces : /\ SameTxs(d.nonces[n], s.nonces[n])
                                /\ s.nonces[n].open = d.nonces[n].open
                                /\ s.nonces[n].resolution = d.nonces[n].resolution
           /\ \A o \in Offers : LoadedEntry(d.entries[o], s.entries[o])
           /\ s.slot = Free /\ s.head = 0 /\ s.outcome = "none"
<1> DEFINE s == Loaded(d, W)
           r == [s EXCEPT !.lastDurable = ToDurable(s)]
<1>1. /\ s.submissions = d.submissions /\ s.nextNonce = d.nextNonce
      /\ s.nonces = LoadedNonces(d)
      /\ s.writes = <<>> /\ s.resends = {} /\ s.finalized = -1
      /\ s.plans = [p \in PlanIds |-> NoPlan]
      /\ s.slot = Free /\ s.head = 0 /\ s.outcome = "none"
      /\ s.entries = [o \in Offers |-> IF o \in W THEN [d.entries[o] EXCEPT !.compensate = TRUE]
                                       ELSE d.entries[o]]
  BY DEF Loaded, initialState
<1>7. ASSUME NEW o \in Offers PROVE LoadedEntry(d.entries[o], s.entries[o])
  <2>1. d.entries[o] \in Entry
    BY DEF Ledger
  <2>2. s.entries[o] \in {d.entries[o], [d.entries[o] EXCEPT !.compensate = TRUE]}
    BY <1>1
  <2> QED
    BY <2>1, <2>2 DEF Entry, LoadedEntry
<1>2. ASSUME NEW n \in Nonces
      PROVE /\ SameTxs(d.nonces[n], LoadedNonces(d)[n])
            /\ LoadedNonces(d)[n].open = d.nonces[n].open
            /\ LoadedNonces(d)[n].resolution = d.nonces[n].resolution
  <2> DEFINE cs == d.nonces[n].candidates
             loaded == [c \in DOMAIN cs |->
                          IF KeptHome(cs[c]) THEN cs[c] ELSE [cs[c] EXCEPT !.sent = "unknown"]]
  <2>1. d.nonces[n] \in NonceRecord
    BY DEF Ledger
  <2>2. cs \in Seq(Candidate)
    BY <2>1 DEF NonceRecord
  <2>3. LoadedNonces(d)[n] = [d.nonces[n] EXCEPT !.candidates = loaded]
    BY DEF LoadedNonces
  <2>4. ASSUME NEW c \in DOMAIN cs
        PROVE loaded[c].plan = cs[c].plan /\ loaded[c].step = cs[c].step
    <3>1. cs[c] \in Candidate
      BY <2>2, LenProperties, ElementOfSeq
    <3> QED
      BY <3>1 DEF Candidate
  <2>5. DOMAIN loaded = DOMAIN cs
    OBVIOUS
  <2> HIDE DEF loaded
  <2>6. /\ LoadedNonces(d)[n].candidates = loaded
        /\ LoadedNonces(d)[n].open = d.nonces[n].open
        /\ LoadedNonces(d)[n].resolution = d.nonces[n].resolution
    BY <2>1, <2>3 DEF NonceRecord
  <2> QED
    BY <2>4, <2>5, <2>6 DEF SameTxs
<1>3. Typed(s)
  BY LoadedTyped
<1>4. Typed(r)
  <2> HIDE DEF s
  <2> QED
    BY <1>3, RestartedTyped
<1> HIDE DEF s
<1>5. /\ r.submissions = s.submissions /\ r.nextNonce = s.nextNonce /\ r.nonces = s.nonces
      /\ r.writes = s.writes /\ r.resends = s.resends /\ r.finalized = s.finalized
      /\ r.plans = s.plans /\ r.slot = s.slot /\ r.head = s.head /\ r.outcome = s.outcome
      /\ r.entries = s.entries
  BY <1>3 DEF Typed, KernelState
<1> HIDE DEF r
<1>6. /\ Typed(r) /\ r.submissions = d.submissions /\ r.nextNonce = d.nextNonce
      /\ r.writes = <<>> /\ r.resends = {} /\ r.finalized = -1
      /\ \A p \in PlanIds : r.plans[p] = NoPlan
      /\ \A n \in Nonces : /\ SameTxs(d.nonces[n], r.nonces[n])
                           /\ r.nonces[n].open = d.nonces[n].open
                           /\ r.nonces[n].resolution = d.nonces[n].resolution
      /\ \A o \in Offers : LoadedEntry(d.entries[o], r.entries[o])
      /\ r.slot = Free /\ r.head = 0 /\ r.outcome = "none"
  BY <1>1, <1>2, <1>4, <1>5, <1>7
<1> QED
  BY <1>6 DEF r, s

\* what is loaded is safe
LEMMA LoadedFull ==
  ASSUME NEW d \in Ledger, NEW N \in SUBSET Tx, NEW ch, NEW r, Typed(r), Filed(r, d, N, ch),
         r.submissions = d.submissions, r.nextNonce = d.nextNonce, r.writes = <<>>,
         r.resends = {}, r.finalized = -1, \A p \in PlanIds : r.plans[p] = NoPlan,
         \A n \in Nonces : /\ SameTxs(d.nonces[n], r.nonces[n])
                           /\ r.nonces[n].open = d.nonces[n].open
                           /\ r.nonces[n].resolution = d.nonces[n].resolution
  PROVE Full(r, d, N, ch)
<1>1. /\ d.nonces \in [Nonces -> NonceRecord] /\ r.nonces \in [Nonces -> NonceRecord]
      /\ r.nextNonce \in Int /\ DOMAIN r.writes = {} /\ Outside(r, N) = N
  BY DEF Ledger, Typed, KernelState, Outside
<1>2. SoundFile(d) /\ Sound(d) /\ Once(d, Outside(r, N))
  BY DEF Filed, SoundFile
<1>3. SameListed(d, r)
  BY SameTxsListed
<1>4. \A t \in Tx : Lists(r, t) <=> Lists(d, t)
  BY <1>3 DEF SameListed
<1>5. \A p \in PlanIds : /\ r.plans[p].status = "none" /\ ~r.plans[p].exposed
                         /\ r.plans[p].nonce = Undefined
  BY DEF NoPlan
<1>6. Sound(r)
  BY <1>2 DEF Sound, SameTxs
<1>7. Once(r, Outside(r, N))
  <2>1. Listed(r) = Listed(d)
    BY <1>1, <1>3, ListedSame
  <2> QED
    BY <1>2, <2>1 DEF Once
<1>8. Submitted(r)
  <2>1. \A i \in Intents : StepPlan(i) \in PlanIds
    BY DEF StepPlan, PlanIds
  <2> QED
    BY <1>5, <2>1 DEF Submitted
<1>9. Behind(r)
  BY <1>5, <1>6 DEF Behind, Sound
<1>10. Evidence(r, ch)
  BY <1>2 DEF Evidence, SoundFile, Resolved
<1>11. InFlight(r, d)
  BY <1>5 DEF InFlight, Executing
<1>12. \A t \in Outside(r, N) : FinalOn(ch, t.nonce) \/ Lists(r, t)
  <2> SUFFICES ASSUME NEW t \in Outside(r, N) PROVE FinalOn(ch, t.nonce) \/ Lists(r, t)
    OBVIOUS
  <2>1. FinalOn(ch, t.nonce) \/ Lists(d, t)
    BY DEF Filed, OnFile
  <2> QED
    BY <1>1, <1>4, <2>1
<1>13. Passed(r, Outside(r, N))
  <2> SUFFICES ASSUME NEW t \in Outside(r, N) \cup Listed(r)
               PROVE r.plans[t.plan].status # "executing"
    BY DEF Passed
  <2>1. t \in Tx
    BY <1>1, ListedTyped
  <2> QED
    BY <1>5, <2>1 DEF Tx
<1>14. OutOnFile(r, d)
  <2> SUFFICES ASSUME NEW n \in Nonces, NEW c \in DOMAIN r.nonces[n].candidates
               PROVE OnFile(r, d, TxAt(n, c, r.nonces[n].candidates[c]))
    BY DEF OutOnFile
  <2>1. Lists(d, TxAt(n, c, r.nonces[n].candidates[c]))
    BY DEF Lists, TxAt, SameTxs
  <2> QED
    BY <1>1, <2>1 DEF OnFile
<1>15. Advances(ch, d, r)
  BY <1>1, MovesItself DEF Advances, HoleOn
<1>16. \A w \in DOMAIN r.writes : Advances(ch, r.writes[w], r)
  BY <1>1
<1>17. Safe(r, d, N, ch)
  BY <1>6, <1>7, <1>8, <1>9, <1>10, <1>11, <1>12, <1>13, <1>14, <1>15, <1>16 DEF Safe
<1> QED
  BY <1>17 DEF Full

\* and so are the offers
LEMMA LoadedAttended ==
  ASSUME NEW d \in Ledger, NEW N \in SUBSET Tx, NEW R, NEW ch, NEW s, NEW r, Full(r, d, N, ch),
         Filed(s, d, N, ch), Stored(s, d, N, R, ch), r.writes = <<>>, r.resends = {},
         \A p \in PlanIds : r.plans[p] = NoPlan,
         \A n \in Nonces : /\ SameTxs(d.nonces[n], r.nonces[n])
                           /\ r.nonces[n].resolution = d.nonces[n].resolution,
         \A o \in Offers : LoadedEntry(d.entries[o], r.entries[o]),
         r.slot = Free, r.head = 0, r.outcome = "none"
  PROVE Attended(r, d, N, R, ch)
<1>1. /\ d.nonces \in [Nonces -> NonceRecord] /\ r.nonces \in [Nonces -> NonceRecord]
      /\ DOMAIN r.writes = {} /\ Outside(r, N) = N /\ N \subseteq Outside(s, N)
  BY DEF Ledger, Full, Typed, KernelState, Outside
<1>2. Listed(r) = Listed(d)
  BY <1>1, SameTxsListed, ListedSame
<1>3. Covers(ch, d, R, Outside(s, N)) /\ Plain(d)
  BY DEF Stored
<1>4. Covers(ch, d, R, N)
  BY <1>1, <1>3, CoversKept
<1>5. Covers(ch, r, R, N)
  BY <1>2, <1>4, CoversKept DEF LoadedEntry
<1>6. \A p \in PlanIds : /\ r.plans[p].status = "none" /\ ~InFlightPlan(r.plans[p])
                         /\ Fits(p, r.plans[p])
  BY DEF NoPlan, InFlightPlan, Fits
<1>7. Works(r)
  <2>1. r.slot \notin PlanIds /\ r.slot # Committing
    BY NotPlans DEF Free, Committing
  <2> QED
    BY <1>6, <2>1 DEF Works, AllFit, InPhase, Executing
<1>8. Stored(r, d, N, R, ch)
  BY <1>1, <1>3, <1>4 DEF Stored
<1>9. Releases(r, d, ch)
  BY <1>6 DEF Releases
<1>10. Fresh(r)
  BY <1>3 DEF Fresh, Plain, LoadedEntry
<1>11. Witnessed(r, ch)
  <2>1. \A n \in Nonces : ~Resolved(r.nonces[n])
    BY DEF Filed, SoundFile, Resolved
  <2>2. \A o \in Offers : ~r.entries[o].neutralized
    BY <1>3 DEF Plain, LoadedEntry
  <2> QED
    BY <2>1, <2>2 DEF Witnessed, SeenNonce, SeenEntry
<1>12. Offered(r, d, N, R, ch)
  BY <1>1, <1>5, <1>7, <1>8, <1>9, <1>10, <1>11 DEF Offered
<1> QED
  BY <1>12 DEF Attended

LEMMA StartKeeps == ASSUME SInv, IInv', Start PROVE Keeps
<1>1. PICK W \in SUBSET {o \in Offers : disk.entries[o].state \in Held} :
        LET s == Loaded(disk, W) IN Handle([s EXCEPT !.lastDurable = ToDurable(s)])
  BY DEF Start
<1> DEFINE r == [Loaded(disk, W) EXCEPT !.lastDurable = ToDurable(Loaded(disk, W))]
<1>2. /\ k' = Reduce(r) /\ disk' = disk /\ net' = net /\ chain' = chain
      /\ released' = released
  BY <1>1 DEF Handle
<1>3. /\ disk \in Ledger /\ net \in SUBSET Tx /\ k.writes \in Seq(Ledger) /\ chain.head \in Nat
      /\ k.resends \in SUBSET Tx /\ Filed(k, disk, net, chain) /\ Known = disk
  BY DEF SInv, IInv, TypeOK, KernelState, Start, Known
<1>4. /\ Typed(r) /\ r.submissions = disk.submissions /\ r.nextNonce = disk.nextNonce
      /\ r.writes = <<>> /\ r.resends = {} /\ r.finalized = -1
      /\ \A p \in PlanIds : r.plans[p] = NoPlan
      /\ \A n \in Nonces : /\ SameTxs(disk.nonces[n], r.nonces[n])
                           /\ r.nonces[n].open = disk.nonces[n].open
                           /\ r.nonces[n].resolution = disk.nonces[n].resolution
      /\ \A o \in Offers : LoadedEntry(disk.entries[o], r.entries[o])
      /\ r.slot = Free /\ r.head = 0 /\ r.outcome = "none"
  BY <1>3, LoadedFields
<1> HIDE DEF r
<1>5. Filed(r, disk, net, chain)
  BY <1>3, <1>4, FreshFiled
<1>6. Full(r, disk, net, chain)
  BY <1>3, <1>4, <1>5, LoadedFull
<1>7. Full(Reduce(r), disk, net, chain)
  BY <1>3, <1>6, ReduceOnward DEF Onward
<1>8. Full(k', disk', net', chain')
  BY <1>2, <1>7
<1>9. MinedWasSent'
  BY <1>2 DEF MinedWasSent, SInv
<1>10. SInv'
  BY <1>8, <1>9 DEF SInv, Full
<1>11. Advances(chain', disk, disk')
  BY <1>2, <1>3, AdvancesItself DEF Ledger
<1>12. Advances(chain', Known, k')
  BY <1>2, <1>3, <1>8 DEF Full, Safe
<1>13. ASSUME OfferInv PROVE OfferInv'
  <2>1. Stored(k, disk, net, released, chain)
    BY <1>13 DEF OfferInv
  <2>2. Attended(r, disk, net, released, chain)
    BY <1>3, <1>4, <1>6, <2>1, LoadedAttended
  <2>3. Attended(r, disk', net', released', chain')
    BY <1>2, <2>2
  <2>4. \A j \in DOMAIN chain'.mined : chain'.mined[j].block <= chain'.head
    BY <1>2, <1>13 DEF OfferInv
  <2> QED
    BY <1>2, <1>9, <2>3, <2>4, ReducedOffers
<1> QED
  BY <1>2, <1>10, <1>11, <1>12, <1>13 DEF Keeps

LEMMA InitSafe == ASSUME Init PROVE SInv
<1>1. IInv
  BY InitTyped
<1>2. /\ k.writes = <<>> /\ k.resends = {} /\ disk = EmptyLedger /\ net = {} /\ ~Alive
      /\ chain.mined = <<>>
  BY DEF Init, initialState, Alive
<1>3. MinedWasSent
  BY <1>2 DEF MinedWasSent
<1>4. Listed(EmptyLedger) = {}
  <2>1. \A n \in Nonces : DOMAIN EmptyLedger.nonces[n].candidates = {}
    BY DEF EmptyLedger, NoRecord
  <2> QED
    BY <2>1 DEF Listed
<1>5. SoundFile(EmptyLedger)
  <2>1. /\ EmptyLedger.nextNonce = Undefined
        /\ \A n \in Nonces : EmptyLedger.nonces[n] = NoRecord
    BY DEF EmptyLedger
  <2>2. DOMAIN NoRecord.candidates = {} /\ ~NoRecord.open /\ ~Resolved(NoRecord)
    BY DEF NoRecord, Resolved, Unresolved
  <2> QED
    BY <2>1, <2>2 DEF SoundFile, Sound, Undefined
<1>6. Outside(k, net) = {}
  BY <1>2 DEF Outside
<1>7. Filed(k, disk, net, chain)
  <2>1. Once(disk, Outside(k, net))
    BY <1>2, <1>4, <1>6 DEF Once
  <2>2. DOMAIN k.writes = {}
    BY <1>2
  <2> QED
    BY <1>2, <1>5, <1>6, <2>1, <2>2 DEF Filed
<1> QED
  BY <1>1, <1>2, <1>3, <1>7 DEF SInv

LEMMA InitOffers == ASSUME Init PROVE OfferInv
<1>1. /\ k = initialState /\ disk = EmptyLedger /\ net = {} /\ released = {}
      /\ chain.mined = <<>>
  BY DEF Init
<1>2. /\ k.writes = <<>> /\ k.resends = {} /\ k.lifecycle = "idle" /\ k.outcome = "none"
  BY <1>1 DEF initialState
<1>3. Listed(EmptyLedger) = {}
  <2>1. \A n \in Nonces : DOMAIN EmptyLedger.nonces[n].candidates = {}
    BY DEF EmptyLedger, NoRecord
  <2> QED
    BY <2>1 DEF Listed
<1>4. Outside(k, net) = {}
  BY <1>1, <1>2 DEF Outside
<1>5. Plain(EmptyLedger)
  BY DEF Plain, Fresh, EmptyLedger, NoEntry
<1>6. Covers(chain, EmptyLedger, {}, {})
  BY <1>3 DEF Covers, CoversOffer
<1>7. Stored(k, disk, net, released, chain)
  <2>1. DOMAIN k.writes = {}
    BY <1>2
  <2>2. Covers(chain, disk, released, Outside(k, net)) /\ Plain(disk)
    BY <1>1, <1>4, <1>5, <1>6
  <2> QED
    BY <2>1, <2>2 DEF Stored
<1>8. Ended(k, net, chain) /\ ~Alive
  BY <1>2 DEF Ended, Alive
<1> QED
  BY <1>1, <1>2, <1>7, <1>8 DEF OfferInv

LEMMA StutterKeeps == ASSUME SInv, IInv', UNCHANGED vars PROVE Keeps
<1>1. k' = k /\ disk' = disk /\ net' = net /\ chain' = chain /\ released' = released
  BY DEF vars
<1>2. MinedWasSent'
  BY <1>1 DEF MinedWasSent, SInv
<1>3. Alive => Evidence(k, chain')
  BY <1>1 DEF SInv, Safe
<1>4. Follows(chain, chain')
  <2>1. chain.head \in Nat
    BY DEF SInv, IInv, TypeOK
  <2> QED
    BY <1>1, <2>1 DEF Follows
<1>5. OfferInv => /\ Alive => Witnessed(k, chain') /\ k.head \in {0, chain'.head}
                  /\ \A j \in DOMAIN chain'.mined : chain'.mined[j].block <= chain'.head
  BY <1>1 DEF OfferInv, Offered
<1> QED
  BY <1>1, <1>2, <1>3, <1>4, <1>5, ChainKeeps

-----------------------------------------------------------------------------
(* A step, whichever it is.                                                *)

LEMMA EffectsKeep == ASSUME SInv, IInv', Effects PROVE Keeps
BY FlushAnsweredKeeps, FlushRejectedKeeps, SimulatedKeeps, SignaturesKeep, HandoffKeeps,
   BroadcastedKeeps, WithheldAtHandoffKeeps, ReleasedKeeps, HandoffAgainKeeps,
   ResendAnsweredKeeps, SeenKeeps DEF Effects, InPhase, Executing

LEMMA BlockchainKeeps == ASSUME SInv, IInv', Blockchain PROVE Keeps
BY NewBlockKeeps, ReplaceTipKeeps, StartHeadKeeps, NonceAtKeeps, ReceiptKeeps, NonceTxKeeps,
   CommitmentObservedKeeps DEF Blockchain, Unanswered

LEMMA NextKeeps == ASSUME SInv, [Next]_vars PROVE Keeps
<1>1. IInv'
  BY NextTyped DEF SInv
<1>2. CASE Start
  BY <1>1, <1>2, StartKeeps
<1>3. CASE Bot
  BY <1>1, <1>3, SubmitKeeps, AdvanceStageKeeps DEF Bot
<1>4. CASE Clock
  BY <1>1, <1>4, ClockKeeps
<1>5. CASE StopOrHalt
  BY <1>1, <1>5, StopOrHaltKeeps
<1>6. CASE Effects
  BY <1>1, <1>6, EffectsKeep
<1>7. CASE Blockchain
  BY <1>1, <1>7, BlockchainKeeps
<1>8. CASE Crash
  BY <1>1, <1>8, CrashKeeps
<1>9. CASE UNCHANGED vars
  BY <1>1, <1>9, StutterKeeps
<1> QED
  BY <1>2, <1>3, <1>4, <1>5, <1>6, <1>7, <1>8, <1>9 DEF Next

-----------------------------------------------------------------------------
(* Whatever crashes, fails, is lost, reorged or resubmitted, for every     *)
(* number of plans, offers, nonces, blocks and adverse events.             *)

\* The file, the writes on their way and the running kernel agree with what is on the network and
\* what was mined, so each of the promises below survives every step of the code.
THEOREM SafetyInvariant == Spec => []SInv
<1>1. Init => SInv
  BY InitSafe
<1>2. SInv /\ [Next]_vars => SInv'
  BY NextKeeps DEF Keeps
<1> QED
  BY <1>1, <1>2, PTL DEF Spec

\* Every transaction handed to the network is listed by the ledger file, until its nonce is
\* consumed at finality: a crash after any step forgets none.
THEOREM SentStaysDurable == Spec => []SentIsDurable
<1>1. SInv => SentIsDurable
  BY DEF SInv, Filed, SentIsDurable, OnFile, Outside, FinalOn, Final
<1> QED
  BY <1>1, SafetyInvariant, PTL

\* No step of a submission is mined twice, at whatever nonces its transactions were signed.
THEOREM NothingExecutesTwice == Spec => []NoDoubleExecution
<1>1. ASSUME SInv PROVE NoDoubleExecution
  <2> SUFFICES ASSUME NEW i \in DOMAIN chain.mined, NEW j \in DOMAIN chain.mined, i # j,
                      chain.mined[i].tx # Foreign, ~Recovery(chain.mined[i].tx.plan),
                      chain.mined[i].tx.plan = chain.mined[j].tx.plan,
                      chain.mined[i].tx.step = chain.mined[j].tx.step
               PROVE FALSE
    BY DEF NoDoubleExecution
  <2> DEFINE t == chain.mined[i].tx
             u == chain.mined[j].tx
  <2>1. chain.mined \in Seq(Mined)
    BY <1>1 DEF SInv, IInv, TypeOK
  <2>2. i \in Int /\ j \in Int
    BY <2>1, LenProperties
  <2>3. t \in net /\ t.nonce = i - 1
    BY <1>1 DEF SInv, MinedWasSent
  <2>4. t \in Tx
    BY <1>1, <2>3 DEF SInv, IInv, TypeOK
  <2>5. u # Foreign
    BY <2>4 DEF Tx, PlanIds, Foreign, Free
  <2>6. u \in net /\ u.nonce = j - 1
    BY <1>1, <2>5 DEF SInv, MinedWasSent
  <2>7. Once(disk, Outside(k, net))
    BY <1>1 DEF SInv, Filed
  <2>8. t = u
    BY <2>3, <2>6, <2>7 DEF Once, Outside
  <2> QED
    BY <2>2, <2>3, <2>6, <2>8
<1>2. SInv => NoDoubleExecution
  BY <1>1
<1> QED
  BY <1>2, SafetyInvariant, PTL

\* What the ledger file says of a submission only moves forward, whichever write lands or is
\* lost, and whichever process reads it back.
THEOREM SubmissionsMoveForward == Spec => SubmissionsAdvance
<1>1. SInv /\ [Next]_vars => \A i \in Intents : Moves(disk.submissions[i], disk'.submissions[i])
  BY NextKeeps DEF Keeps, Advances
<1> QED
  BY <1>1, SafetyInvariant, PTL DEF Spec, SubmissionsAdvance

\* No step leaves a nonce below the cursor without a record, in the file or in the kernel, before
\* the nonce is consumed for good.
THEOREM RecordsOutlastTheirNonce == Spec => NoNonceHole
<1> DEFINE NoHole ==
      \A n \in Nonces :
       /\ Hole(disk, n)' => Hole(disk, n) \/ disk.nextNonce = Undefined
       /\ Alive' /\ Hole(k, n)' => Hole(Known, n) \/ Known.nextNonce = Undefined
<1>1. ASSUME SInv, [Next]_vars PROVE NoHole
  <2>1. Keeps
    BY <1>1, NextKeeps
  <2> SUFFICES ASSUME NEW n \in Nonces
               PROVE /\ Hole(disk, n)' => Hole(disk, n) \/ disk.nextNonce = Undefined
                     /\ Alive' /\ Hole(k, n)' => Hole(Known, n) \/ Known.nextNonce = Undefined
    OBVIOUS
  <2>2. FinalOn(chain, n) => FinalOn(chain', n)
    BY <2>1 DEF Keeps
  <2>3. ASSUME NEW l, HoleOn(chain', l, n) PROVE HoleOn(chain, l, n)
    BY <2>2, <2>3 DEF HoleOn
  <2>4. \A l : HoleOn(chain, l, n) <=> Hole(l, n)
    BY DEF HoleOn, Hole, FinalOn, Final
  <2>5. Hole(disk, n)' <=> HoleOn(chain', disk', n)
    BY DEF HoleOn, Hole, FinalOn, Final
  <2>6. Hole(k, n)' <=> HoleOn(chain', k', n)
    BY DEF HoleOn, Hole, FinalOn, Final
  <2>7. Hole(disk, n)' => Hole(disk, n) \/ disk.nextNonce = Undefined
    BY <2>1, <2>3, <2>4, <2>5 DEF Keeps, Advances
  <2>8. Alive' /\ Hole(k, n)' => Hole(Known, n) \/ Known.nextNonce = Undefined
    BY <2>1, <2>3, <2>4, <2>6 DEF Keeps, Advances
  <2> QED
    BY <2>7, <2>8
<1>2. SInv /\ [Next]_vars => NoHole
  BY <1>1
<1> HIDE DEF NoHole
<1>3. Spec => [][NoHole]_vars
  BY <1>2, SafetyInvariant, PTL DEF Spec
<1> QED
  BY <1>3 DEF NoHole, NoNonceHole

\* What the file, the writes on their way and the kernel hold of the offers agrees with what is
\* released, what is on the network and what was mined, however the evidence came and went.
THEOREM OfferInvariant == Spec => []OfferInv
<1>1. Init => SInv /\ OfferInv
  BY InitSafe, InitOffers
<1>2. (SInv /\ OfferInv) /\ [Next]_vars => (SInv /\ OfferInv)'
  BY NextKeeps DEF Keeps
<1> QED
  BY <1>1, <1>2, PTL DEF Spec

\* A plan past its commit waits for a write that was issued, and whatever holds the slot is a plan
\* that signs, commits or exposes: no answer is waited for that cannot come.
THEOREM WaitsEnd == Spec => []NoneWaitsForNothing
<1>1. ASSUME OfferInv PROVE NoneWaitsForNothing
  <2> SUFFICES ASSUME Alive
               PROVE /\ \A p \in InPhase(k, "commit") : k.plans[p].flush \in 1 .. Len(k.writes)
                     /\ k.slot \in PlanIds =>
                          k.slot \in UNION {InPhase(k, ph) : ph \in {"sign", "commit", "expose"}}
                     /\ k.slot = Committing => InPhase(k, "commit") # {}
    BY DEF NoneWaitsForNothing
  <2>1. Works(k) /\ Issued(k)
    BY <1>1 DEF OfferInv, Offered
  <2>2. ASSUME k.slot \in PlanIds
        PROVE \E ph \in {"sign", "commit", "expose"} : k.slot \in InPhase(k, ph)
    BY <2>1, <2>2 DEF Works, Occupies, InPhase, Executing
  <2>3. k.slot \in PlanIds =>
          k.slot \in UNION {InPhase(k, ph) : ph \in {"sign", "commit", "expose"}}
    BY <2>2
  <2> QED
    BY <2>1, <2>3 DEF Works, Issued
<1>2. OfferInv => NoneWaitsForNothing
  BY <1>1
<1> QED
  BY <1>2, OfferInvariant, PTL

\* o is covered wherever someone can still consume it
LEMMA OpenIsCovered ==
  ASSUME SInv, NEW o \in Offers, Open(o), NEW l, Covers(chain, l, released, Outside(k, net))
  PROVE l.entries[o].state \in Held
<1>1. ~OverOn(chain, o)
  <2>1. chain.head - FinalityLag \in Int /\ Expiry[o] \in Int
    BY BoundsAssumption, StepsAssumption DEF SInv, IInv, TypeOK
  <2>2. ~(chain.head - FinalityLag > Expiry[o])
    BY <2>1 DEF Open
  <2> QED
    BY <2>2 DEF Open, OverOn, FinallyNeutralized, FinalOn, Final
<1>2. CoversOffer(chain, l, released, Outside(k, net), o)
  BY <1>1 DEF Covers
<1>3. CASE Exposure[o] = "broadcast" /\ o \in released
  BY <1>2, <1>3 DEF CoversOffer
<1>4. CASE ~(Exposure[o] = "broadcast" /\ o \in released)
  <2>1. PICK t \in net : Carries(t, o) /\ (Exposure[o] = "broadcast" \/ MayStillCreate(t))
    BY <1>4 DEF Open
  <2>2. MayStillCreate(t) => ~DeadOn(chain, t)
    BY DEF MayStillCreate, DeadOn, Final, FinalOn
  <2>3. Makes(chain, t, o) /\ t \in Outside(k, net)
    BY <2>1, <2>2 DEF Makes, Outside
  <2> QED
    BY <1>2, <2>3 DEF CoversOffer, Covered
<1> QED
  BY <1>3, <1>4

\* An offer that anyone can still consume, now or after a reorg above finality, is held by the
\* file and by the running kernel: none is dropped or retired on evidence that can be undone.
THEOREM OpenOffersHeld == Spec => []OpenOfferIsHeld
<1>1. ASSUME SInv, OfferInv PROVE OpenOfferIsHeld
  <2>1. Covers(chain, disk, released, Outside(k, net))
    BY <1>1 DEF OfferInv, Stored
  <2>2. k.lifecycle # "idle" => Covers(chain, k, released, Outside(k, net))
    BY <1>1 DEF OfferInv
  <2> QED
    BY <1>1, <2>1, <2>2, OpenIsCovered DEF OpenOfferIsHeld
<1>2. SInv /\ OfferInv => OpenOfferIsHeld
  BY <1>1
<1> QED
  BY <1>2, SafetyInvariant, OfferInvariant, PTL

\* A kernel that stopped clean leaves no offer to consume and no transaction to land: what
\* checkStopped looks at is all that there is.
THEOREM CleanStops == Spec => []CleanStopIsQuiet
<1>1. ASSUME SInv, OfferInv, k.outcome = "clean"
      PROVE (\A o \in Offers : ~Open(o)) /\ \A t \in net : Final(t.nonce)
  <2>1. /\ k.lifecycle = "stopped" /\ SettledOffers(k)
        /\ \A t \in net : FinalOn(chain, t.nonce)
    BY <1>1 DEF OfferInv, Ended
  <2>2. Covers(chain, k, released, Outside(k, net))
    BY <1>1, <2>1 DEF OfferInv
  <2>3. \A o \in Offers : k.entries[o].state \notin Held
    BY <2>1 DEF SettledOffers, Held, Unretired
  <2>4. \A o \in Offers : ~Open(o)
    BY <1>1, <2>2, <2>3, OpenIsCovered
  <2> QED
    BY <2>1, <2>4 DEF FinalOn, Final
<1>2. SInv /\ OfferInv => CleanStopIsQuiet
  BY <1>1 DEF CleanStopIsQuiet
<1> QED
  BY <1>2, SafetyInvariant, OfferInvariant, PTL

=============================================================================
