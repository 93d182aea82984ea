-------------------------- MODULE ControllerTasks --------------------------
(***************************************************************************)
(* A task family of framework/controller: the fold of tasks.each with its  *)
(* backoff fold, the preparations it asks for and the kernel's answers to  *)
(* the acts it submits.  Every step of the engine delivers one input to    *)
(* both folds and the family then decides once, so an action is an input   *)
(* and the decision after.  Nothing is counted from the start: a wait is   *)
(* the blocks left of it, a reading knows whether it is still its key's    *)
(* last, and a conflict mark whether that reading predates it.             *)
(***************************************************************************)
EXTENDS Integers, Sequences, FiniteSets, SequencesExt

CONSTANTS
  Keys,             \* 1 .. n: the bot's keys, in string order
  MayAsk,           \* what each key's policy can ask: [task, priority, ids]
  Versions, Inputs, \* what a fact and an input can read
  Absent,           \* a fact read as absent
  None, Bad,        \* no value; a candidate whose policy's return is refused
  MaxReservations, Concurrency, BaseBlocks, MaxBlocks,
  MaxSteps,         \* how many steps an act of each key may have
  Exposing,         \* the keys whose acts may leave entries
  Hanging,          \* the keys whose handler may hang
  Adversity,        \* what may happen beside the plain course, by name, at any time
  Rare,             \* what may happen only MaxRare times
  MaxRare,          \* bound
  MaxNonces         \* bound: the records each key, and recovery, may have that are not final yet

Wants == UNION {MayAsk[k] : k \in Keys}
Tasks == {w.task : w \in Wants}
Ids(k) == UNION {w.ids : w \in MayAsk[k]}
Untasked == ""                     \* the slot of an act whose intent id names no task
Slots == Tasks \cup {Untasked}
Recovery == 0                      \* whose nonces name no key
Holders == Keys \cup {Recovery}
Until == {"none", "ahead", "past"} \* a reading's expiry
Readings == [version : Versions \cup {Absent}, expiry : Until]
Tickets == [want : Wants, void : BOOLEAN, expiry : Until, current : BOOLEAN,
            basis : Wants \X (Versions \cup {None}) \X Inputs]
Notes == [task : Tasks, current : BOOLEAN] \* what a family remembers of an act it sent

ASSUME ControllerAssumption ==
  /\ Cardinality(Keys) \in Nat /\ Keys = 1 .. Cardinality(Keys) /\ DOMAIN MayAsk = Keys
  /\ Versions # {} /\ Inputs # {} /\ \A k \in Keys : MayAsk[k] # {}
  /\ {MaxReservations, Concurrency, MaxBlocks, MaxRare} \subseteq Nat
  /\ MaxSteps \in [Keys -> Nat \ {0}] /\ MaxNonces \in [Holders -> Nat]
  /\ Exposing \cup Hanging \subseteq Keys
  /\ BaseBlocks \in 1 .. MaxBlocks
  /\ None \notin Notes \cup Tickets \cup Readings
  /\ {None, Bad} \cap Wants = {} /\ Absent \notin Versions

VARIABLES
  candidate, fact, input, \* the nodes the family watches
  behind,                 \* conflict ids marked above the block of a key's last reading
  acts,                   \* each key's acts: on their way, executing, or with unretired entries
  nonces,                 \* the records in the kernel's ledger, unresolved and not yet final
  accepting,              \* view.acceptingNewWork
  backoff,                \* each slot's failures and the blocks left of its wait
  family,                 \* preparing, ready, submitted, declined, stale, served
  rare,                   \* rare events so far
  closed, ended, due      \* history, for the properties
ctrlVars == <<candidate, fact, input, behind, acts, nonces, accepting, backoff, family, rare,
              closed, ended, due>>

\* the state a step is computed from; asked gathers the keys its decision prepares
Now == [candidate |-> candidate, fact |-> fact, input |-> input, behind |-> behind,
        acts |-> acts, nonces |-> nonces, accepting |-> accepting, backoff |-> backoff,
        asked |-> {}, ended |-> ended, due |-> due,
        preparing |-> family.preparing, ready |-> family.ready, submitted |-> family.submitted,
        stale |-> family.stale, declined |-> family.declined, served |-> family.served]
FamilyOf(s) ==
  [preparing |-> s.preparing, ready |-> s.ready, submitted |-> s.submitted, stale |-> s.stale,
   declined |-> s.declined, served |-> s.served]

-----------------------------------------------------------------------------
(* What a decision reads.                                                  *)

Wanting(s, k) == s.candidate[k] \in Wants
Reads(s, k) == IF s.fact[k] = None THEN None ELSE s.fact[k].version
Fingerprint(s, k) == <<s.candidate[k], Reads(s, k), s.input[k]>>
Held(s, field) == {k \in Keys : s[field][k] # None}
Of(s, k, stages) == {i \in DOMAIN s.acts[k] : s.acts[k][i].at \in stages}
\* viewOf: what names a key is a plan that executes, an entry not retired, a nonce unresolved
Executing == {"admitted", "pending", "between"}
Compensated == {"compensating", "kept"}
Unresolved(s) == UNION {{h} \X (1 .. s.nonces[h].open) : h \in Holders}
\* executing plans no record lists: before their first nonce, and between two once all are final
Unlisted(s) ==
  {k \in Keys : \E i \in Of(s, k, {"admitted", "between"}) : s.acts[k][i].records = 0}
Reserved(s) == Cardinality(Unresolved(s)) + Cardinality(Unlisted(s))
\* the mutant counts what is under way, and neither recovery's nonces nor what a reorg takes back
WorkingReservations(s) ==
  Cardinality({k \in Keys : Of(s, k, {"sent"} \cup Executing) # {}})
NumReservations(s) == Reserved(s) + Cardinality(Held(s, "submitted"))
\* the view's busy keys and the family's own acts without a notice; the mutant lets a key go while
\* its entries are being compensated or await retirement
BusyIfExecuting(s, k) == Of(s, k, Executing) # {} \/ s.nonces[k].open > 0 \/ s.submitted[k] # None
Busy(s, k) ==
  Of(s, k, Executing \cup Compensated) # {} \/ s.nonces[k].open > 0 \/ s.submitted[k] # None
IsBackedOff(s, k, task) == s.backoff[k][task].left > 0 \/ s.backoff[k][Untasked].left > 0

Priority(s, k) == IF Wanting(s, k) THEN s.candidate[k].priority ELSE 0
\* ranked: by priority, and keys of one priority in turn after the one served last; the mutant
\* takes no turns
BeforeByKey(s, a, b) ==
  Priority(s, a) > Priority(s, b) \/ (Priority(s, a) = Priority(s, b) /\ a < b)
Before(s, a, b) ==
  LET turn(k) == IF k > s.served THEN k ELSE k + Cardinality(Keys)
  IN Priority(s, a) > Priority(s, b) \/ (Priority(s, a) = Priority(s, b) /\ turn(a) < turn(b))
Rankings(s) ==
  {order \in [Keys -> Keys] : \A i, j \in Keys : i < j => Before(s, order[i], order[j])}

-----------------------------------------------------------------------------
(* The decision.                                                           *)

\* normalizePolicies: a refused policy voids the key's ticket; the mutant leaves it
VoidNone(s) == s
Voided(ticket) == [ticket EXCEPT !.void = TRUE]
VoidTickets(s) ==
  [s EXCEPT !.preparing = [k \in Keys |->
     IF s.candidate[k] = Bad /\ @[k] # None THEN Voided(s.preparing[k]) ELSE @[k]]]

\* heldDrop
DropHeld(s) ==
  [s EXCEPT !.ready = [k \in Keys |->
     IF @[k] # None /\ (@[k].late \/ ~Wanting(s, k) \/ s.candidate[k].task # @[k].want.task
                        \/ s.candidate[k].ids # @[k].want.ids)
     THEN None ELSE @[k]]]

Declining(s, k, ticket) == [s EXCEPT !.declined[k][ticket.want.task] = ticket.basis]

\* submitDrop; the mutant submits on a fact that reads otherwise since
UnsubmittableIfLost(s, k, r) == s.fact[k] = None \/ r.expiry # "ahead"
Unsubmittable(s, k, r) ==
  s.fact[k] = None \/ r.expiry # "ahead" \/ s.fact[k].version # r.basis[2]
Submitted(s, k, r) ==
  [s EXCEPT !.ready[k] = None, !.served = k,
     !.submitted[k] = [task |-> r.want.task, current |-> r.current],
     !.acts[k] = Append(@, [at |-> "sent", task |-> r.want.task, ids |-> r.want.ids,
                            rests |-> r.basis[2], left |-> 0, records |-> 0])]
Submit(s, k) ==
  LET r == s.ready[k]
      dropped == [s EXCEPT !.ready[k] = None]
  IN IF \/ r = None \/ NumReservations(s) >= MaxReservations
        \/ Busy(s, k) \/ IsBackedOff(s, k, r.want.task)
     THEN s
     ELSE IF ~Unsubmittable(s, k, r) THEN Submitted(s, k, r)
     ELSE IF s.fact[k] # None /\ r.expiry = "none" THEN Declining(dropped, k, r) ELSE dropped

Preparable(s, k) ==
  /\ Wanting(s, k) /\ s.fact[k] # None /\ s.input[k] # None
  /\ s.fact[k].version # Absent /\ s.fact[k].expiry # "past"
  /\ LET want == s.candidate[k] IN
       /\ s.declined[k][want.task] # Fingerprint(s, k) /\ want.task \notin s.stale[k]
       /\ s.behind[k] \cap want.ids = {}
       /\ ~IsBackedOff(s, k, want.task)
  /\ ~Busy(s, k) /\ s.preparing[k] = None /\ s.ready[k] = None

\* the caps of prepareNext; the mutant forgets the preparations outstanding
FullIfReserved(s) ==
  \/ Cardinality(Held(s, "preparing")) >= Concurrency
  \/ NumReservations(s) + Cardinality(Held(s, "ready")) >= MaxReservations
Full(s) ==
  \/ Cardinality(Held(s, "preparing")) >= Concurrency
  \/ NumReservations(s) + Cardinality(Held(s, "preparing")) + Cardinality(Held(s, "ready"))
       >= MaxReservations
Prepare(s, k) ==
  IF Full(s) \/ ~Preparable(s, k) THEN s
  ELSE [s EXCEPT !.served = k, !.asked = @ \cup {k},
          !.preparing[k] = [want |-> s.candidate[k], basis |-> Fingerprint(s, k), void |-> FALSE,
                            expiry |-> s.fact[k].expiry, current |-> TRUE]]

\* declines are kept while the key's candidate, fact and input are those they were given on
KeepDeclines(s) ==
  [s EXCEPT !.declined = [k \in Keys |-> [t \in Tasks |->
     IF @[k][t] = Fingerprint(s, k) THEN @[k][t] ELSE None]]]

\* the decision takes its steps in order, each from what the last one left
Checked(s) == DropHeld(VoidTickets(s))
InTurn(op(_, _), s, order) ==
  LET after[k \in 0 .. Cardinality(Keys)] ==
        IF k = 0 THEN {s} ELSE {op(e, order[k]) : e \in after[k - 1]}
  IN after[Cardinality(Keys)]
Submits(s, order) == IF s.accepting THEN InTurn(Submit, s, order) ELSE {s}
Prepares(s, order) == IF s.accepting THEN InTurn(Prepare, s, order) ELSE {s}

-----------------------------------------------------------------------------
(* A step: one input, then the decision.                                   *)

\* what was declined on other values than the step's is declined no more
Renewed(s) ==
  [s EXCEPT !.ended = [k \in Keys |->
     IF Fingerprint(Now, k) = Fingerprint(s, k) THEN @[k]
     ELSE [t \in Tasks |-> IF @[k][t] = "declined" THEN "no" ELSE @[k][t]]]]
\* the keys whose policy failed with work under way
StillClosed(s, d) ==
  {k \in closed \cup {j \in Keys : s.candidate[j] = Bad} :
     k \notin d.asked /\ (d.preparing[k] # None \/ d.ready[k] # None)}

Step(given) == \E g \in {given} :
  /\ candidate' = g.candidate /\ fact' = g.fact /\ input' = g.input /\ behind' = g.behind
  /\ nonces' = g.nonces /\ accepting' = g.accepting /\ backoff' = g.backoff /\ due' = g.due
  /\ \E s \in {Renewed(g)} : \E checked \in {Checked(s)} :
     \E order \in Rankings(checked) : \E sent \in Submits(checked, order) :
     \E next \in Prepares(sent, order) : \E d \in {KeepDeclines(next)} :
       /\ acts' = d.acts /\ family' = FamilyOf(d)
       /\ closed' = StillClosed(s, d) /\ ended' = d.ended

\* the graph: candidates, inputs and facts
ChangeCandidate(k) ==
  \E c \in MayAsk[k] \cup {None, Bad} : c # candidate[k] /\ Step([Now EXCEPT !.candidate[k] = c])
ChangeInput(k) ==
  \E i \in Inputs \cup {None} : i # input[k] /\ Step([Now EXCEPT !.input[k] = i])
\* what was missing or refused is there again
Recover(k) ==
  \/ candidate[k] \notin Wants /\ \E c \in MayAsk[k] : Step([Now EXCEPT !.candidate[k] = c])
  \/ input[k] = None /\ \E i \in Inputs : Step([Now EXCEPT !.input[k] = i])

\* a new reading: what was captured of the key is no longer its last, and a stale hold is over
Reading(k, reading, marks) ==
  LET old(ticket) == IF ticket = None THEN None ELSE [ticket EXCEPT !.current = FALSE] IN
  Step([Now EXCEPT !.fact[k] = reading, !.behind[k] = marks, !.stale[k] = {},
          !.preparing[k] = old(@), !.ready[k] = old(@), !.submitted[k] = old(@),
          !.ended[k] = [t \in Tasks |-> IF @[t] = "stale" THEN "no" ELSE @[t]]])
ReadAgain(k) ==
  \E v \in IF fact[k] = None THEN Versions ELSE {fact[k].version} :
    Reading(k, [version |-> v, expiry |-> "ahead"], {})
\* it reads otherwise, or with no expiry, or at a block before a mark
ReadOtherwise(k) ==
  /\ fact[k] # None
  /\ \/ \E v \in (Versions \cup {Absent}) \ {fact[k].version} :
          Reading(k, [version |-> v, expiry |-> "ahead"], {})
     \/ Reading(k, [fact[k] EXCEPT !.expiry = "none"], {})
     \/ \E marks \in SUBSET behind[k] \ {{}} :
          Reading(k, [fact[k] EXCEPT !.expiry = "ahead"], marks)
FailToRead(k) == fact[k] # None /\ Reading(k, None, behind[k])

\* time: a reading expires, with what was captured of it, or an older capture or an answer does
Lapsed(ticket, isCurrent) ==
  IF ticket # None /\ ticket.current = isCurrent /\ ticket.expiry = "ahead"
  THEN [ticket EXCEPT !.expiry = "past"] ELSE ticket
Lapse(k) ==
  /\ \E old \in BOOLEAN :
       /\ IF old THEN fact' = fact
          ELSE fact[k] # None /\ fact[k].expiry = "ahead"
               /\ fact' = [fact EXCEPT ![k].expiry = "past"]
       /\ family' = [family EXCEPT !.preparing[k] = Lapsed(@, ~old), !.ready[k] = Lapsed(@, ~old)]
  /\ UNCHANGED <<candidate, input, behind, acts, nonces, accepting, backoff, closed, ended, due>>
Overstay(k) ==
  /\ family.ready[k] # None /\ family' = [family EXCEPT !.ready[k].late = TRUE]
  /\ UNCHANGED <<candidate, fact, input, behind, acts, nonces, accepting, backoff, closed, ended,
                 due>>
\* the runtime wakes the watchers of what expired
Wake == (\E k \in Keys : fact[k] # None /\ fact[k].expiry = "past") /\ Step(Now)

\* the backoff fold
Waits[failures \in 1 .. MaxBlocks] ==
  IF failures = 1 THEN BaseBlocks
  ELSE IF 2 * Waits[failures - 1] < MaxBlocks THEN 2 * Waits[failures - 1] ELSE MaxBlocks
Forgotten == [failures |-> 0, left |-> -MaxBlocks]
\* bound: failures stop counting once their wait no longer grows
Widened(entry) ==
  LET n == IF entry.failures > 0 /\ Waits[entry.failures] = MaxBlocks THEN entry.failures
           ELSE entry.failures + 1
  IN [failures |-> n, left |-> Waits[n]]
Failing(s, k, slot) ==
  LET entry == Widened(s.backoff[k][slot]) IN
  [s EXCEPT !.backoff[k][slot] = entry, !.due[k][slot] = [wait |-> entry.left, age |-> 0]]
Clearing(s, k, slot) ==
  [s EXCEPT !.backoff[k][slot] = Forgotten, !.due[k][slot] = [wait |-> 0, age |-> 0]]
\* the mutants forget a failure as soon as its wait is over, and never
PrunedNever(entry) == entry
PrunedWhenOver(entry) == IF entry.left <= 0 THEN Forgotten ELSE entry
Pruned(entry) == IF entry.left + MaxBlocks <= 0 THEN Forgotten ELSE entry
AfterHead(entry) == Pruned([entry EXCEPT !.left = @ - 1])
Aged == [k \in Keys |-> [t \in Slots |-> AfterHead(backoff[k][t])]]
NewHead ==
  Step([Now EXCEPT
    !.backoff = Aged,
    !.due = [k \in Keys |-> [t \in Slots |->
               IF @[k][t].wait = 0 \/ @[k][t].age + 1 >= @[k][t].wait + MaxBlocks
               THEN [wait |-> 0, age |-> 0]
               ELSE [wait |-> @[k][t].wait, age |-> @[k][t].age + 1]]]])

\* a preparation's answer: an act, a decline, or a failure that backs off.  A handler may answer or
\* hang; at its timeout the runtime answers for it, and nothing it does later is heard.
Free(k) == [Now EXCEPT !.preparing[k] = None, !.declined[k][family.preparing[k].want.task] = None]
Readied(ticket) ==
  [want |-> ticket.want, basis |-> ticket.basis, void |-> ticket.void, expiry |-> ticket.expiry,
   current |-> ticket.current, late |-> FALSE]
Ok(k) ==
  LET ticket == family.preparing[k] IN
  /\ ticket # None
  /\ Step(IF ticket.void THEN Free(k) ELSE [Free(k) EXCEPT !.ready[k] = Readied(ticket)])
Decline(k) ==
  LET ticket == family.preparing[k]
      same == Fingerprint(Now, k) = ticket.basis
  IN /\ ticket # None
     /\ Step(IF ticket.void THEN Free(k)
             ELSE Declining([Free(k) EXCEPT !.ended[k][ticket.want.task] =
                               IF same /\ k \notin closed THEN "declined" ELSE @], k, ticket))
GiveUp(k) ==
  /\ family.preparing[k] # None /\ Step(Failing(Free(k), k, family.preparing[k].want.task))

-----------------------------------------------------------------------------
(* The kernel, as the family sees it: every transition delivers its view   *)
(* and its activity in one step.                                           *)

Noticed(s, k) == [s EXCEPT !.submitted[k] = None]
Ends(s, k, i) == [s EXCEPT !.acts[k] = RemoveAt(@, i)]
Becomes(k, i, act) == [Now EXCEPT !.acts[k][i] = act]
At(k, i, stages) == acts[k][i].at \in stages
Slot(k, i) == acts[k][i].task

Admit(k, i) ==
  /\ At(k, i, {"sent"})
  /\ \E steps \in 1 .. MaxSteps[k] :
       Step(Noticed(Becomes(k, i, [acts[k][i] EXCEPT !.at = "admitted", !.rests = None,
                                                     !.left = steps]), k))
RefuseAsBad(k, i) ==
  At(k, i, {"sent"}) /\ Step(Failing(Noticed(Ends(Now, k, i), k), k, Slot(k, i)))
\* noticed: held until the fact is read again; the mutant holds nothing
HeldNever(s, k, sent) == {}
HeldStale(s, k, sent) == IF sent # None /\ sent.current THEN {sent.task} ELSE {}
RefuseAsStale(k, i) ==
  LET sent == family.submitted[k] IN
  /\ At(k, i, {"sent"}) /\ sent # None
  /\ Step([Noticed(Ends(Now, k, i), k) EXCEPT
             !.stale[k] = @ \cup HeldStale(Now, k, sent),
             !.ended[k][sent.task] = IF sent.current THEN "stale" ELSE @])

\* a step's transaction takes a nonce, whose record lists the act until its resolution is final
Taken(h) == [nonces EXCEPT ![h].open = @ + 1]
Commit(k, i) ==
  /\ At(k, i, {"admitted", "between"}) /\ nonces[k].open + nonces[k].mined < MaxNonces[k]
  /\ Step([Becomes(k, i, [acts[k][i] EXCEPT !.at = "pending", !.records = @ + 1])
             EXCEPT !.nonces = Taken(k)])
\* a transaction is mined: readings taken before that block predate its effect
Marked(ids) == {b \in [Keys -> SUBSET UNION {Ids(j) : j \in Keys}] :
  \A j \in Keys : b[j] \in {behind[j], behind[j] \cup (Ids(j) \cap ids)}}
Resolved(h) == [nonces EXCEPT ![h].open = @ - 1, ![h].mined = @ + 1]
\* an act waits for the last of its key's nonces: the earlier ones are mined before it
Awaited(k, i) == At(k, i, {"pending"}) /\ nonces[k].open = 1
\* the ledger after the step an act is at, a transaction mined or a release, which takes no nonce
StepDone(k, i) ==
  IF Awaited(k, i) THEN {Resolved(k)}
  ELSE IF At(k, i, {"admitted", "between"}) THEN {nonces} ELSE {}
Left(k, i, at) == Becomes(k, i, [acts[k][i] EXCEPT !.at = at])
Leaves(k) == IF k \in Exposing THEN BOOLEAN ELSE {FALSE}
Include(k, i) ==
  /\ acts[k][i].left > 1
  /\ \E n \in StepDone(k, i), b \in Marked(acts[k][i].ids) :
       Step([Becomes(k, i, [acts[k][i] EXCEPT !.at = "between", !.left = @ - 1])
               EXCEPT !.nonces = n, !.behind = b])
\* the last step settles the plan at its inclusion, and its entries stay until they are retired
Settle(k, i) ==
  /\ acts[k][i].left <= 1
  /\ \E n \in StepDone(k, i), b \in Marked(acts[k][i].ids), stays \in Leaves(k) :
       Step([Clearing(IF stays THEN Left(k, i, "kept") ELSE Ends(Now, k, i), k, Slot(k, i))
               EXCEPT !.nonces = n, !.behind = b])
\* abandoned before its first step, compensated after: its nonce, mined or not, and its entries stay
Fail(k, i) ==
  /\ At(k, i, Executing)
  /\ \E b \in Marked(acts[k][i].ids), n \in {nonces} \cup StepDone(k, i),
        stays \in IF At(k, i, {"admitted"}) THEN {FALSE} ELSE Leaves(k) :
       /\ n # nonces \/ b = behind
       /\ Step([Failing(IF stays THEN Left(k, i, "compensating") ELSE Ends(Now, k, i),
                        k, Slot(k, i)) EXCEPT !.nonces = n, !.behind = b])
\* the compensation cannot complete, and its entries stay all the same
GetStuck(k, i) ==
  At(k, i, {"compensating"}) /\ Step(Failing(Left(k, i, "kept"), k, Slot(k, i)))
Retire(k, i) == At(k, i, Compensated) /\ Step(Ends(Now, k, i))

\* a nonce no plan waits for: of an act that is over, of recovery, or that a reorg took back
Land(h) ==
  /\ nonces[h].open > 0 /\ (h \in Keys => \A i \in DOMAIN acts[h] : ~Awaited(h, i))
  /\ \E ids \in IF h \in Keys THEN {w.ids : w \in MayAsk[h]} ELSE {{}} : \E b \in Marked(ids) :
       Step([Now EXCEPT !.nonces = Resolved(h), !.behind = b])
\* a resolution is final and its record deleted, the oldest first
Finalize(h) ==
  LET kept == nonces[h].open + nonces[h].mined - 1
      still(act) == IF act.records > kept THEN [act EXCEPT !.records = kept] ELSE act
      given == [Now EXCEPT !.nonces = [nonces EXCEPT ![h].mined = @ - 1]]
  IN /\ nonces[h].mined > 0
     /\ Step(IF h \notin Keys THEN given
             ELSE [given EXCEPT !.acts[h] = [i \in DOMAIN @ |-> still(@[i])]])
\* a reorg takes back resolutions that are not final, of whatever act
Reorg ==
  \E back \in [Holders -> UNION {0 .. nonces[h].mined : h \in Holders}] :
    /\ \A h \in Holders : back[h] <= nonces[h].mined
    /\ \E h \in Holders : back[h] > 0
    /\ Step([Now EXCEPT !.nonces = [h \in Holders |->
         [open |-> nonces[h].open + back[h], mined |-> nonces[h].mined - back[h]]]])
\* recovery's own plans: each holds a reservation before its nonce as on it, and may fail, or end
\* on a nonce that is counted already
Repair ==
  /\ \/ \E k \in Keys : Of(Now, k, Compensated) # {}
     \/ Unresolved(Now) # {}
  /\ nonces[Recovery].open + nonces[Recovery].mined < MaxNonces[Recovery]
  /\ Step([Now EXCEPT !.nonces = Taken(Recovery)])
RepairEnds ==
  /\ nonces[Recovery].open > 0
  /\ Step([Now EXCEPT !.nonces = [nonces EXCEPT ![Recovery].open = @ - 1]])

\* the bot writes an act of its own, past the family
ActRaw(k) ==
  /\ acts[k] = <<>>
  /\ Step([Now EXCEPT !.acts[k] = <<[at |-> "admitted", task |-> Untasked, ids |-> {},
                                     rests |-> None, left |-> 1, records |-> 0]>>])
Halt == accepting /\ Step([Now EXCEPT !.accepting = FALSE])
Resume == ~accepting /\ Step([Now EXCEPT !.accepting = TRUE])

NoFamily ==
  [preparing |-> [k \in Keys |-> None], ready |-> [k \in Keys |-> None],
   submitted |-> [k \in Keys |-> None], stale |-> [k \in Keys |-> {}],
   declined |-> [k \in Keys |-> [t \in Tasks |-> None]], served |-> 0]
NoBackoff == [k \in Keys |-> [t \in Slots |-> Forgotten]]
NoHistory ==
  /\ closed' = {} /\ ended' = [k \in Keys |-> [t \in Tasks |-> "no"]]
  /\ due' = [k \in Keys |-> [t \in Slots |-> [wait |-> 0, age |-> 0]]]
\* nothing of the family is persisted, and of the kernel neither plans nor resolutions: its entries
\* and its nonces are adopted, those of recovery that had one
Adopted(k) ==
  LET kept == <<[at |-> "kept", task |-> Untasked, ids |-> {}, rests |-> None, left |-> 0,
                 records |-> 0]>>
  IN IF Of(Now, k, Compensated) # {} THEN {kept}
     ELSE IF k \in Exposing /\ Of(Now, k, {"pending", "between"}) # {} THEN {<<>>, kept} ELSE {<<>>}
Restart ==
  /\ family' = NoFamily /\ backoff' = NoBackoff /\ NoHistory
  /\ \E a \in [Keys -> UNION {Adopted(k) : k \in Keys}], n \in 0 .. nonces[Recovery].open :
       /\ \A k \in Keys : a[k] \in Adopted(k)
       /\ acts' = a
       /\ nonces' = [h \in Holders |->
            [open |-> nonces[h].mined + (IF h = Recovery THEN n ELSE nonces[h].open), mined |-> 0]]
  /\ accepting' = FALSE /\ UNCHANGED <<candidate, fact, input, behind>>

\* a run whose nodes have been read once
First(S) == CHOOSE x \in S : TRUE
CtrlInit ==
  /\ candidate = [k \in Keys |-> First(MayAsk[k])] /\ input = [k \in Keys |-> First(Inputs)]
  /\ fact = [k \in Keys |-> [version |-> First(Versions), expiry |-> "ahead"]]
  /\ behind = [k \in Keys |-> {}] /\ acts = [k \in Keys |-> <<>>]
  /\ nonces = [h \in Holders |-> [open |-> 0, mined |-> 0]]
  /\ accepting = TRUE /\ backoff = NoBackoff /\ family = NoFamily /\ rare = 0
  /\ closed = {} /\ ended = [k \in Keys |-> [t \in Tasks |-> "no"]]
  /\ due = [k \in Keys |-> [t \in Slots |-> [wait |-> 0, age |-> 0]]]

May(kind) ==
  \/ kind \in Adversity /\ UNCHANGED rare
  \/ kind \in Rare /\ rare < MaxRare /\ rare' = rare + 1
\* the kernel's own course
Handled(k) ==
  \E i \in DOMAIN acts[k] :
    Admit(k, i) \/ Commit(k, i) \/ Include(k, i) \/ Settle(k, i) \/ Retire(k, i)
Closes(h) == Land(h) \/ Finalize(h)
Plain(k) == Recover(k) \/ ReadAgain(k) \/ Ok(k) \/ Handled(k)
World(k) ==
  \/ May("candidate") /\ ChangeCandidate(k)
  \/ May("input") /\ ChangeInput(k)
  \/ May("fact") /\ (ReadOtherwise(k) \/ FailToRead(k))
  \/ May("lapse") /\ Lapse(k)
  \/ May("late") /\ Overstay(k)
Failure(k) ==
  \/ May("decline") /\ Decline(k)
  \/ k \in Hanging /\ GiveUp(k) /\ UNCHANGED rare
  \/ May("raw") /\ ActRaw(k)
  \/ \E i \in DOMAIN acts[k] :
       \/ May("bad") /\ (RefuseAsBad(k, i) \/ Fail(k, i))
       \/ GetStuck(k, i) /\ UNCHANGED rare
       \/ May("stale") /\ RefuseAsStale(k, i)
CtrlNext ==
  \/ (NewHead \/ Wake \/ Resume \/ RepairEnds) /\ UNCHANGED rare
  \/ (\/ \E k \in Keys : Plain(k)
      \/ \E h \in Holders : Closes(h)) /\ UNCHANGED rare
  \/ \E k \in Keys : World(k) \/ Failure(k)
  \/ May("reorg") /\ Reorg
  \/ May("recovery") /\ Repair
  \/ May("halt") /\ (Halt \/ Restart)
CtrlSpec == CtrlInit /\ [][CtrlNext]_ctrlVars

\* The event loop runs and time passes: heads arrive while something waits for one or nothing is
\* under way, a fact is read again while its last reading holds its key, a preparation is answered,
\* by its timeout at the latest, and what the kernel has does not stay as it is.  The last three
\* say so of what they bring about, which is weaker than fairness of the actions that bring it.
Holds(h) == nonces[h].open + nonces[h].mined > 0
CtrlFairness ==
  /\ WF_backoff(backoff' = Aged) /\ WF_ctrlVars(family = NoFamily /\ UNCHANGED rare /\ NewHead)
  /\ \A k \in Keys :
       /\ []<>(behind[k] = {} /\ family.stale[k] = {})
       /\ []<>(family.preparing[k] = None)
       /\ \/ []<>(acts[k] = <<>> /\ ~Holds(k))
          \/ []<><<acts'[k] # acts[k] \/ nonces'[k] # nonces[k]>>_ctrlVars
  /\ []<>~Holds(Recovery) \/ []<><<nonces'[Recovery] # nonces[Recovery]>>_ctrlVars
CtrlLiveSpec == CtrlSpec /\ CtrlFairness

-----------------------------------------------------------------------------
(* Properties.                                                             *)

CtrlTypeOK ==
  /\ candidate \in [Keys -> Wants \cup {None, Bad}]
  /\ fact \in [Keys -> Readings \cup {None}]
  /\ input \in [Keys -> Inputs \cup {None}]
  /\ behind \in [Keys -> SUBSET UNION {Ids(k) : k \in Keys}]
  /\ nonces \in [Holders -> [open : Nat, mined : Nat]]
  /\ accepting \in BOOLEAN /\ rare \in 0 .. MaxRare
  /\ backoff \in [Keys -> [Slots -> [failures : 0 .. MaxBlocks, left : -MaxBlocks .. MaxBlocks]]]
  /\ \A k \in Keys :
       /\ family.preparing[k] \in Tickets \cup {None} /\ family.stale[k] \subseteq Tasks
       /\ family.ready[k] = None \/ ~family.ready[k].void

Asked(k) ==
  /\ family'.preparing[k] # None
  /\ family.preparing[k] = None \/ (family.preparing[k].void /\ ~family'.preparing[k].void)
Sent(k) ==
  Cardinality(Of([acts |-> acts'], k, {"sent"})) > Cardinality(Of([acts |-> acts], k, {"sent"}))
After == [acts |-> acts', nonces |-> nonces']

\* An act leaves only when nothing of its key can still take effect: nothing on its way, executing,
\* being compensated or unretired, and no transaction unresolved, a reorg's and an earlier run's
\* included.
OneActPerKey == [][\A k \in Keys : Sent(k) => Len(acts'[k]) = 1 /\ nonces'[k].open = 0]_ctrlVars

\* When an act leaves, and when a preparation is asked for, the native reservations of the acts on
\* their way, of every plan and nonce in the kernel, recovery's included, and of what is being
\* prepared are within the kernel's caps: a reorg, a later step or recovery may pass them, but the
\* family never adds to it.
WithinReservations == [][
  LET claims == Reserved(After) + Cardinality({k \in Keys : Of(After, k, {"sent"}) # {}})
      coming == Cardinality({k \in Keys : family'.preparing[k] # None})
                + Cardinality({k \in Keys : family'.ready[k] # None})
  IN /\ (\E k \in Keys : Sent(k)) => claims <= MaxReservations
     /\ (\E k \in Keys : Asked(k)) => claims + coming <= MaxReservations]_ctrlVars

\* An act leaves only if, at that moment, its key's policy asks for that task, its fact still reads
\* as it did when the act was prepared, and no policy failure came between.
ActsAsAsked == [][\A k \in Keys : Sent(k) =>
  LET act == Last(acts'[k]) IN
  /\ k \notin closed /\ accepting'
  /\ candidate'[k] \in Wants /\ candidate'[k].task = act.task /\ candidate'[k].ids = act.ids
  /\ fact'[k] # None /\ fact'[k].version = act.rests]_ctrlVars

\* An attempt that came to nothing is not repeated as it was: after a decline something it was built
\* from changed, after a stale refusal its fact was read again, after a failure its wait is over.
NoIdleRetry == [][\A k \in Keys : Asked(k) =>
  LET task == candidate'[k].task IN
  /\ ended'[k][task] = "no"
  /\ \A slot \in {task, Untasked} : due'[k][slot].age >= due'[k][slot].wait]_ctrlVars

\* A slot that fails again before a whole maximum wait has passed since its last wait waits twice
\* as long, up to that maximum, unless it settled in between.
WaitsWiden == [][\A k \in Keys, slot \in Slots :
  LET before == due[k][slot]
      after == due'[k][slot]
  IN after # before /\ after.wait > 0 /\ after.age = 0 /\ before.wait > 0
       => after.wait >= Min({2 * before.wait, MaxBlocks})]_ctrlVars

\* A key whose policy and inputs stand and whose fact is bounded and read again takes its turn,
\* however long the keys of the same rank keep acting and whatever fails, if no act of theirs marks
\* its conflicts.
Servable(k) ==
  /\ accepting /\ candidate[k] \in Wants /\ input[k] # None
  /\ fact[k] # None /\ fact[k].version # Absent /\ fact[k].expiry = "ahead"
  /\ family.declined[k] = [t \in Tasks |-> None]
  /\ \A j \in Keys \ {k} : candidate[j] \in Wants =>
       candidate[j].priority <= candidate[k].priority /\ candidate[j].ids \cap candidate[k].ids = {}
TurnsAreTaken == \A k \in Keys : <>[]Servable(k) => []<>(family.preparing[k] # None)
=============================================================================
