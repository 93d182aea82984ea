---------------------------- MODULE PendingQueue ----------------------------
(***************************************************************************)
(* The pending-transaction queue of packages/bot-kit, with the signer that *)
(* hands it nonces and the block runner that drives it: on each new block  *)
(* one maintenance pass (onBlock), then one tick whose callers submit.     *)
(*                                                                         *)
(* Each await of the code is a point where the chain can move, so a pass   *)
(* and a submit are several actions.  The chain mines, in nonce order, any *)
(* transaction its pool holds; it can drop one, and take one the queue     *)
(* knows nothing of.  A transaction is its nonce, its label and how many   *)
(* times it was bumped; fees only decide that a bump may hit the ceiling.  *)
(* Block heights are relative: how long ago an entry was sighted and a     *)
(* label settled, counted no further than the code's comparisons need.     *)
(***************************************************************************)
EXTENDS Integers, Sequences

CONSTANTS
  Labels,                 \* what a send is tracked and deduplicated under
  None,
  StuckBlocks,            \* blocks a sighted entry may sit before it is replaced
  MaxBumpAttempts,        \* replacements before an entry is dropped
  ReconcileEveryBlocks,   \* passes between two reads of the consumed nonce
  SettledCooldownBlocks,  \* blocks a settled label is still held back
  MaxNonce,               \* bound: nonces 0 .. MaxNonce
  MaxGap,                 \* bound: blocks between two passes
  MaxFaults               \* bound: failed reads, lost answers, dropped or foreign transactions

ASSUME QueueAssumption ==
  /\ StuckBlocks \in Nat /\ MaxBumpAttempts \in Nat /\ SettledCooldownBlocks \in Nat
  /\ ReconcileEveryBlocks \in Nat \ {0}
  /\ MaxNonce \in Nat /\ MaxGap \in Nat \ {0} /\ MaxFaults \in Nat

VARIABLES
  \* the chain
  mined,        \* the transaction that consumed each nonce; None for one that is not the queue's
  pool,         \* transactions the network holds
  \* the signer
  nextNonce,    \* its cursor, None until the first sync
  \* the queue
  pending,      \* the entry tracked under each nonce
  settled,      \* blocks since each label settled, while it cools down
  sendAborted,  \* a send claimed a nonce and failed without a hash
  hole,         \* the span of dropped nonces that nothing may ever consume
  blocksSeen,   \* passes since the last reconciliation
  told,         \* the last settlement a caller was told of
  \* the runner
  phase,        \* what runs: nothing, a step of the pass, or the tick
  todo,         \* entries the pass still has to look at, the current one included
  priced,       \* the pass has read the base fee
  inflight,     \* the labels this tick does not submit, read once at its start
  step,         \* where each label's submit is
  claim,        \* the nonce its send claimed
  line,         \* the callers in the submit mutex, its holder first
  \* history
  base,         \* the cursor's value after its last sync
  known,        \* nonces consumed when the pass began or a replacement last reverted
  faults
chainVars == <<mined, pool>>
queueVars == <<pending, settled, sendAborted, hole, blocksSeen, told>>
passVars == <<phase, todo, priced>>
tickVars == <<inflight, step, claim, line>>
signerVars == <<nextNonce, base>>
vars == <<chainVars, queueVars, passVars, tickVars, signerVars, known, faults>>

Nonces == 0 .. MaxNonce
Bumps == 0 .. MaxBumpAttempts
Tx == [nonce : Nonces, label : Labels, bump : Bumps]
Entry == [label : Labels, bumps : SUBSET Bumps, age : {None} \cup 0 .. StuckBlocks + 1,
          attempt : Bumps]
\* None is no number, no label and no record
ASSUME NoneAssumption == None \notin Nat \cup Labels \cup Tx \cup Entry \cup [low : Nonces, high : Nonces]

Hash(n, l, b) == [nonce |-> n, label |-> l, bump |-> b]

Tracked == {n \in Nonces : pending[n] # None}
Consumed == Len(mined)
InPool(n) == \E t \in pool : t.nonce = n

Fault == faults < MaxFaults /\ faults' = faults + 1
Fine == UNCHANGED faults

-----------------------------------------------------------------------------
(* What the chain says, and the queue's own bookkeeping.                   *)

\* scanReceipts: a hash broadcast for nonce n has a receipt; the mutant asks the last one only
HasLatestReceipt(n) ==
  n < Consumed /\ \E b \in pending[n].bumps :
     (\A c \in pending[n].bumps : c <= b) /\ mined[n + 1] = Hash(n, pending[n].label, b)
HasReceipt(n) ==
  n < Consumed /\ \E b \in pending[n].bumps : mined[n + 1] = Hash(n, pending[n].label, b)

\* settle: the entry leaves, its caller is told, and its label may start to cool down
Settle(n, kind, cools) ==
  /\ pending' = [pending EXCEPT ![n] = None]
  /\ told' = [nonce |-> n, kind |-> kind]
  /\ settled' = IF cools /\ SettledCooldownBlocks > 0
                THEN [settled EXCEPT ![pending[n].label] = 0] ELSE settled
Confirm(n) == Settle(n, "confirmed", TRUE) /\ UNCHANGED hole

\* latchNonceHole; the mutant forgets the dropped nonces it has latched before
LatchedLast(n) == [low |-> n, high |-> n]
Latched(n) ==
  IF hole = None THEN [low |-> n, high |-> n]
  ELSE [low |-> IF n < hole.low THEN n ELSE hole.low,
        high |-> IF n > hole.high THEN n ELSE hole.high]

\* retired with its broadcasts still out: the nonce becomes part of the hole
Retire(n) == Settle(n, "dropped", TRUE) /\ hole' = Latched(n)

\* a replacement that failed is a spent attempt; the mutant counts only those that were sent
AttemptedFree(n) == pending' = [pending EXCEPT ![n].attempt = @]
Attempted(n) == pending' = [pending EXCEPT ![n].attempt = @ + 1]
KeepQueue == UNCHANGED <<pending, settled, told, hole>>

-----------------------------------------------------------------------------
(* The maintenance pass.                                                   *)

Grown(age, gap, most) ==
  IF age = None THEN None ELSE IF age + gap > most THEN most ELSE age + gap

\* the watcher saw a new head, gap blocks on: onBlock starts over what is tracked
Poll ==
  /\ phase = "idle"
  /\ \E gap \in 1 .. MaxGap :
       /\ pending' = [n \in Nonces |->
            IF pending[n] = None THEN None
            ELSE [pending[n] EXCEPT !.age = Grown(@, gap, StuckBlocks + 1)]]
       /\ settled' = [l \in Labels |-> Grown(settled[l], gap, SettledCooldownBlocks + 1)]
  /\ phase' = "sweep" /\ todo' = Tracked /\ priced' = FALSE
  /\ known' = Consumed
  /\ UNCHANGED <<chainVars, sendAborted, hole, blocksSeen, told, tickVars, signerVars, faults>>

Current(n) == n \in todo /\ \A m \in todo : n <= m
Passing(p) == phase = p /\ UNCHANGED <<chainVars, sendAborted, tickVars, signerVars>>
NextEntry(n) == phase' = "sweep" /\ todo' = todo \ {n}

\* the sweep reads every hash of the entry; what it cannot read it leaves alone
Scan(n) ==
  /\ Passing("sweep") /\ Current(n) /\ UNCHANGED <<blocksSeen, known, priced>>
  /\ \/ HasReceipt(n) /\ Fine /\ Confirm(n) /\ NextEntry(n)
     \/ Fault /\ KeepQueue /\ NextEntry(n)
     \/ /\ ~HasReceipt(n) /\ Fine /\ UNCHANGED <<settled, told, hole>>
        /\ \/ /\ pending[n].age = None
              /\ pending' = [pending EXCEPT ![n].age = 0] /\ NextEntry(n)
           \/ /\ pending[n].age # None /\ pending[n].age <= StuckBlocks
              /\ UNCHANGED pending /\ NextEntry(n)
           \/ /\ pending[n].age # None /\ pending[n].age > StuckBlocks
              /\ UNCHANGED <<pending, todo>> /\ phase' = "stuck"

\* the mutant allows one replacement too many
MayBumpOneMore(n) == pending[n].attempt <= MaxBumpAttempts
MayBump(n) == pending[n].attempt < MaxBumpAttempts

\* getBaseFee, once per pass, then the head of replaceStuck: an entry out of attempts or priced
\* above the ceiling is dropped without another look at the chain
Decide(n) ==
  /\ Passing("stuck") /\ Current(n) /\ UNCHANGED <<blocksSeen, known>>
  /\ \/ ~priced /\ Fault /\ KeepQueue /\ NextEntry(n) /\ UNCHANGED priced
     \/ Fine /\ Retire(n) /\ NextEntry(n) /\ priced' = TRUE
     \/ /\ MayBump(n) /\ Fine /\ KeepQueue /\ phase' = "replace" /\ UNCHANGED todo /\ priced' = TRUE

\* replaceStuck's send at the entry's own nonce, with a bumped fee
Replace(n) ==
  LET bump == pending[n].attempt + 1
      bumped == [pending[n] EXCEPT !.bumps = @ \cup {bump}, !.age = None, !.attempt = bump]
  IN /\ phase = "replace" /\ Current(n)
     /\ UNCHANGED <<mined, sendAborted, tickVars, signerVars, settled, told, hole, blocksSeen, priced>>
     /\ \/ /\ n >= Consumed /\ Fine
           /\ pool' = pool \cup {Hash(n, pending[n].label, bump)}
           /\ pending' = [pending EXCEPT ![n] = bumped] /\ NextEntry(n) /\ UNCHANGED known
        \/ /\ Fault /\ UNCHANGED <<pool, known>>
           /\ pending' = [pending EXCEPT ![n] = bumped] /\ NextEntry(n)
        \/ Fine /\ UNCHANGED <<pool, known>> /\ Attempted(n) /\ NextEntry(n)
        \/ Fine /\ UNCHANGED <<pool, pending, todo>> /\ phase' = "reverted" /\ known' = Consumed

\* the re-broadcast reverts: only a clean scan may retire the entry
Recheck(n) ==
  /\ Passing("reverted") /\ Current(n) /\ NextEntry(n) /\ UNCHANGED <<blocksSeen, known, priced>>
  /\ \/ HasReceipt(n) /\ Fine /\ Confirm(n)
     \/ ~HasReceipt(n) /\ Fine /\ Retire(n)
     \/ Fault /\ Attempted(n) /\ UNCHANGED <<settled, told, hole>>

\* reconcileOnCadence
EndSweep ==
  /\ Passing("sweep") /\ todo = {} /\ KeepQueue /\ Fine /\ UNCHANGED <<todo, known, priced>>
  /\ blocksSeen' = (blocksSeen + 1) % ReconcileEveryBlocks
  /\ phase' = IF blocksSeen' = 0 /\ Tracked # {} THEN "count" ELSE "hole"

\* reconcile's getConsumedNonce
Count ==
  /\ Passing("count") /\ KeepQueue /\ UNCHANGED <<blocksSeen, known, priced>>
  /\ \/ /\ Fine /\ phase' = "reconcile"
        /\ todo' = {n \in Tracked : n < Consumed}
     \/ Fault /\ phase' = "hole" /\ UNCHANGED todo

\* a consumed nonce is ours if a receipt says so, else lost to another transaction: not a hole
Reconcile(n) ==
  /\ Passing("reconcile") /\ Current(n)
  /\ UNCHANGED <<blocksSeen, known, priced, phase>> /\ todo' = todo \ {n}
  /\ \/ HasReceipt(n) /\ Fine /\ Confirm(n)
     \/ ~HasReceipt(n) /\ Fine /\ Settle(n, "dropped", FALSE) /\ UNCHANGED hole
     \/ Fault /\ KeepQueue
EndReconcile ==
  /\ Passing("reconcile") /\ todo = {} /\ KeepQueue /\ Fine
  /\ UNCHANGED <<blocksSeen, known, priced, todo>> /\ phase' = "hole"

\* inflightLabels, what the tick must not submit: labels tracked or still cooling down.  The mutant
\* holds back only the labels that cool down.
InflightCooling(entries, cooling) == {l \in Labels : cooling[l] # None}
Inflight(entries, cooling) ==
  {entries[n].label : n \in {m \in Nonces : entries[m] # None}} \cup
  {l \in Labels : cooling[l] # None}
\* every dropped nonce is consumed; the mutant is off by one
FilledAtHigh == hole # None /\ Consumed >= hole.high
Filled == hole # None /\ Consumed > hole.high

\* releaseSendLatch; the mutant releases it only when the pass had something to settle
ReleaseSendLatchIfTracked == sendAborted' = (sendAborted /\ Tracked = {})
ReleaseSendLatch == sendAborted' = FALSE

\* clearNonceHoleIfFilled, pruneSettledCooldowns, releaseSendLatch; then the tick reads what is
\* in flight
EndPass ==
  /\ phase = "hole"
  /\ \/ Fine /\ hole' = IF Filled THEN None ELSE hole
     \/ hole # None /\ Fault /\ UNCHANGED hole
  /\ settled' = [l \in Labels |->
       IF settled[l] # None /\ settled[l] > SettledCooldownBlocks THEN None ELSE settled[l]]
  /\ ReleaseSendLatch
  /\ phase' = "tick" /\ inflight' = Inflight(pending, settled')
  /\ UNCHANGED <<chainVars, pending, blocksSeen, told, todo, priced, step, claim, line,
                 signerVars, known>>

-----------------------------------------------------------------------------
(* The tick: its callers submit, one at a time under the mutex.            *)

Ticking(l, at) ==
  /\ phase = "tick" /\ step[l] = at
  /\ UNCHANGED <<mined, blocksSeen, told, settled, passVars, inflight, known>>
\* the submit mutex; the mutant lets every caller in the line run
HoldsAny(l) == line # <<>>
Holds(l) == line # <<>> /\ Head(line) = l
Done(l) == step' = [step EXCEPT ![l] = "done"] /\ line' = Tail(line)

\* a caller reaches submit: each label once, and none that is in flight
Submit(l) ==
  /\ Ticking(l, "out") /\ l \notin inflight /\ Fine
  /\ step' = [step EXCEPT ![l] = "waiting"] /\ line' = Append(line, l)
  /\ UNCHANGED <<pool, pending, sendAborted, hole, claim, signerVars>>

\* claimNonce moves the cursor before the send is awaited
Claim(l, n) ==
  /\ n <= MaxNonce
  /\ nextNonce' = n + 1 /\ claim' = [claim EXCEPT ![l] = n]
  /\ step' = [step EXCEPT ![l] = "sending"] /\ UNCHANGED line

\* submitLocked up to its first await: refused by a latch, off to sync, or sending
Enter(l) ==
  /\ Ticking(l, "waiting") /\ Holds(l) /\ Fine
  /\ UNCHANGED <<pool, pending, sendAborted, hole, base>>
  /\ \/ sendAborted /\ Done(l) /\ UNCHANGED <<claim, nextNonce>>
     \/ /\ ~sendAborted /\ Tracked = {}
        /\ step' = [step EXCEPT ![l] = "syncing"] /\ UNCHANGED <<claim, nextNonce, line>>
     \/ /\ ~sendAborted /\ Tracked # {}
        /\ \/ hole # None /\ Done(l) /\ UNCHANGED <<claim, nextNonce>>
           \/ hole = None /\ Claim(l, nextNonce)
           \/ hole = None /\ nextNonce > MaxNonce /\ Done(l) /\ UNCHANGED <<claim, nextNonce>>

\* the chain's pending count: the first nonce from the consumed ones on that the pool does not hold
IsPendingCount(c) == ~InPool(c) /\ \A m \in Consumed .. c - 1 : InPool(m)

\* syncNonce is answered: the cursor is the chain's, so no hole is left below it
Sync(l) ==
  /\ Ticking(l, "syncing") /\ UNCHANGED <<pool, pending, sendAborted>>
  /\ \/ \E c \in Consumed .. MaxNonce + 1 :
          /\ IsPendingCount(c) /\ Fine
          /\ hole' = None /\ base' = c
          /\ \/ Claim(l, c)
             \/ c > MaxNonce /\ nextNonce' = c /\ Done(l) /\ UNCHANGED claim
     \/ Fault /\ Done(l) /\ UNCHANGED <<hole, claim, signerVars>>

GiveBack(n) == nextNonce' = IF nextNonce < n THEN nextNonce ELSE n
Fresh(l) == [label |-> l, bumps |-> {0}, age |-> None, attempt |-> 0]

\* the signer's send is answered: tracked once its hash may be out, else the nonce is given back
Send(l) ==
  LET n == claim[l]
      out == pool \cup {Hash(n, l, 0)}
      track == pending' = [pending EXCEPT ![n] = Fresh(l)] /\ UNCHANGED <<sendAborted, nextNonce>>
  IN /\ Ticking(l, "sending") /\ Done(l)
     /\ claim' = [claim EXCEPT ![l] = None] /\ UNCHANGED <<hole, base>>
     /\ \/ n >= Consumed /\ Fine /\ track /\ pool' = out
        \/ Fault /\ track /\ UNCHANGED pool
        \/ Fine /\ GiveBack(n) /\ UNCHANGED <<pool, pending, sendAborted>>
        \/ /\ Fault /\ GiveBack(n) /\ sendAborted' = TRUE /\ UNCHANGED pending
           /\ pool' \in {pool} \cup (IF n >= Consumed THEN {out} ELSE {})

EndTick ==
  /\ phase = "tick" /\ line = <<>>
  /\ phase' = "idle" /\ inflight' = {} /\ step' = [l \in Labels |-> "out"]
  /\ UNCHANGED <<chainVars, queueVars, todo, priced, claim, line, signerVars, known, faults>>

-----------------------------------------------------------------------------
(* The chain, and a restart: nothing of the queue is persisted.            *)

Mine(t) ==
  /\ t \in pool /\ t.nonce = Consumed
  /\ mined' = Append(mined, t) /\ pool' = {u \in pool : u.nonce # t.nonce}
  /\ UNCHANGED <<queueVars, passVars, tickVars, signerVars, known, faults>>
MineForeign ==
  /\ Consumed <= MaxNonce /\ Fault
  /\ mined' = Append(mined, None) /\ pool' = {u \in pool : u.nonce # Consumed}
  /\ UNCHANGED <<queueVars, passVars, tickVars, signerVars, known>>
Evict(t) ==
  /\ t \in pool /\ Fault /\ pool' = pool \ {t}
  /\ UNCHANGED <<mined, queueVars, passVars, tickVars, signerVars, known>>

StartsEmpty ==
  /\ pending = [n \in Nonces |-> None] /\ settled = [l \in Labels |-> None]
  /\ sendAborted = FALSE /\ hole = None /\ blocksSeen = 0 /\ told = None
  /\ phase = "idle" /\ todo = {} /\ priced = FALSE
  /\ inflight = {} /\ step = [l \in Labels |-> "out"] /\ claim = [l \in Labels |-> None]
  /\ line = <<>> /\ nextNonce = None /\ base = 0 /\ known = 0
Restart ==
  /\ Fault /\ UNCHANGED chainVars
  /\ pending' = [n \in Nonces |-> None] /\ settled' = [l \in Labels |-> None]
  /\ sendAborted' = FALSE /\ hole' = None /\ blocksSeen' = 0 /\ told' = None
  /\ phase' = "idle" /\ todo' = {} /\ priced' = FALSE
  /\ inflight' = {} /\ step' = [l \in Labels |-> "out"] /\ claim' = [l \in Labels |-> None]
  /\ line' = <<>> /\ nextNonce' = None /\ base' = 0 /\ known' = 0

Init == StartsEmpty /\ mined = <<>> /\ pool = {} /\ faults = 0

Entries == \E n \in todo : Scan(n) \/ Decide(n) \/ Replace(n) \/ Recheck(n) \/ Reconcile(n)
Pass == Entries \/ EndSweep \/ Count \/ EndReconcile \/ EndPass
Submitting(l) == Enter(l) \/ Sync(l) \/ Send(l)
Next ==
  \/ Poll \/ Pass \/ EndTick
  \/ \E l \in Labels : Submit(l) \/ Submitting(l)
  \/ \E t \in pool : Mine(t) \/ Evict(t)
  \/ MineForeign \/ Restart
Spec == Init /\ [][Next]_vars

\* The event loop runs what is ready and every read is answered; the chain owes nothing.  A
\* label that stays worth submitting is submitted in some tick.
Fairness ==
  /\ WF_vars(Poll) /\ WF_vars(Pass) /\ WF_vars(EndTick)
  /\ \A l \in Labels : WF_vars(Submitting(l)) /\ SF_vars(Submit(l))
LiveSpec == Spec /\ Fairness

-----------------------------------------------------------------------------
(* Properties.                                                             *)

TypeOK ==
  /\ mined \in Seq(Tx \cup {None}) /\ Consumed <= MaxNonce + 1 /\ pool \subseteq Tx
  /\ nextNonce \in 0 .. MaxNonce + 1 \cup {None} /\ base \in 0 .. MaxNonce + 1
  /\ pending \in [Nonces -> Entry \cup {None}]
  /\ settled \in [Labels -> 0 .. SettledCooldownBlocks + 1 \cup {None}]
  /\ sendAborted \in BOOLEAN /\ priced \in BOOLEAN
  /\ hole \in [low : Nonces, high : Nonces] \cup {None}
  /\ blocksSeen \in 0 .. ReconcileEveryBlocks - 1
  /\ told \in [nonce : Nonces, kind : {"confirmed", "dropped"}] \cup {None}
  /\ phase \in {"idle", "sweep", "stuck", "replace", "reverted", "count", "reconcile", "hole",
                "tick"}
  /\ todo \subseteq Nonces /\ inflight \subseteq Labels
  /\ step \in [Labels -> {"out", "waiting", "syncing", "sending", "done"}]
  /\ claim \in [Labels -> Nonces \cup {None}] /\ line \in Seq(Labels)
  /\ known \in 0 .. MaxNonce + 1 /\ faults \in 0 .. MaxFaults

\* A claim never lands on a tracked nonce, and the cursor is past every tracked one: syncNonce
\* cannot rewind it onto a nonce in flight, and pending.set never overwrites an entry.
CursorAhead ==
  /\ Tracked # {} => nextNonce # None
  /\ \A n \in Tracked : /\ n < nextNonce
                        /\ \A l \in Labels : claim[l] # None => n < claim[l]

\* A first send never takes a nonce that a dropped one below it keeps from mining: below the claim,
\* from the last sync on, every nonce is consumed or still tracked.
NoSendAboveHole ==
  \A l \in Labels : step[l] = "sending" =>
     \A m \in base .. claim[l] - 1 : m < Consumed \/ m \in Tracked

\* Where the cursor has been since it was synced, a nonce is consumed, tracked, in the latched
\* span or claimed right now: no hole escapes the latch, however entries leave.
NoNonceUnaccounted ==
  nextNonce # None => \A m \in base .. nextNonce - 1 :
     \/ m < Consumed \/ m \in Tracked
     \/ hole # None /\ hole.low <= m /\ m <= hole.high
     \/ \E l \in Labels : claim[l] = m

\* A label is tracked under one nonce at most, and never while it cools down: what the tick
\* leaves out is enough, though it is read once and sends are awaited after.
Backpressure ==
  /\ \A n, m \in Tracked : pending[n].label = pending[m].label => n = m
  /\ phase = "tick" => \A n \in Tracked : settled[pending[n].label] = None
                                        \/ pending[n].label \in inflight

\* A caller is never told that its send was dropped when one of its hashes, a bumped one or the
\* original, was mined before the pass began, or before its replacement was found to revert.
NoMinedWorkDiscarded ==
  [][told' # told /\ told' # None /\ told'.kind = "dropped" =>
       LET n == told'.nonce
       IN n < known => \A b \in pending[n].bumps : mined[n + 1] # Hash(n, pending[n].label, b)]_vars

\* Every tracked send is settled in the end, mined or not, and every latch is released: a nonce
\* hole, which refuses every new send, cannot hold the queue for good.
EntriesSettle == \A n \in Nonces : n \in Tracked ~> n \notin Tracked
LatchesClear == (hole # None ~> hole = None) /\ (sendAborted ~> ~sendAborted)
=============================================================================
