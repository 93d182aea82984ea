# Verification of morpho-bots

TLA+ models of the parts of this repository that decide what is signed, what leaves the process and
what must be accounted for afterwards; TLC runs over small instances; theorems checked by TLAPS.
`PROJECT.json` lists the components, runs, mutants of the properties, the map from definitions to
source lines, the hazards, the findings and the theorems.

    cd tla
    tlasany MCTransactionKernel.tla
    tlc -workers 2 -config create.cfg MCTransactionKernel
    tlapm TransactionKernelSafety.tla

State of the project: the transaction kernel and its ledger file, the controller's tasks, the engine's
runner, the pending queue of the liquidation bots and the ladder of the quoter bot are modelled and
checked by twelve runs. TLAPS proves the main safety of each of the six for every value of the
constants; what it does not prove is listed at the end of section 4.

## 1. Inventory

Sizes are lines of TypeScript under `src`. "Hard" is what a test would hardly reach.

### framework/kernel (5200): one signing account's transaction kernel

| part | state | operations | hard |
|---|---|---|---|
| reducer `kernel.ts`, `types.ts`, `durable.ts` | lifecycle; plans with phase and cursor; the exposure slot; nonce records with candidates and resolutions; entries (offers) with their state; submissions; marks and watermarks; write sequence numbers | one handler per event (`Start Submit Advance Simulated Signed EffectFailed Flushed FlushFailed Broadcasted WithheldAtHandoff Released Head Header Reorg Receipt NonceTx NonceAt CommitmentObserved Observe Affirm Tick StopRequested Halt`), each followed by `afterEvent` | everything asynchronous is answered later than the state it was asked in; crash between flush and handoff; reorgs; lost answers; recovery racing the plan it recovers |
| executor `executor.ts` | what is outstanding, a latch per send | runs each command with a timeout; asks the kernel once more at the handoff | late guard, answer after a timeout |
| store `store.ts` | a queue of reads and writes, one file | temporary, fsync, rename, directory sync | crash between the steps |
| chain adapter `chain-adapter.ts`, `observe.ts` | last head, delivered headers, generation, lookups | polls the node, delivers heads, reorgs, receipts, nonces, observations | reads that began before a reorg |
| host `host.ts`, `start-kernel.ts`, `validation.ts` | wiring, parsing | one event reduced at a time | none of its own |

Correct means: nothing leaves before it is durable; an offer that may still be taken is held until it
is neutralised or expired at finality; no step runs twice; nonces are never skipped; a clean stop
forgets nothing; the slot comes back.

### framework/engine (2600), controller (1800), validators (500)

The engine runs a graph of nodes step by step (`runner.ts`), with recovery scopes and a journal:
correct when each effect is started once, a failure gives every recovery scope its wind-down, and the
shutdown finalises the journal once. The controller picks the next key and task (`tasks.ts`), races a
preparation against its timeout, and backs off (`backoff.ts`): correct when one preparation per task
runs and a failing task's wait grows and is not forgotten early. The validators read calldata and
typed data against a policy: pure.

### packages/bot-kit (2400): queueing for the liquidation bots

`queue/pending-queue.ts` keeps the pending transactions, the send latch, the nonce hole, cooldowns;
`submit` and `onBlock` (settle, replace, reconcile) interleave at every `await`. `signer.ts` keeps the
nonce cursor. Correct when nonces are contiguous, a success is never dropped by its own replacement,
and the latches are released when, and only when, the chain shows they may be. `runner/` runs
maintenance before each tick; `policy.ts`, `simulate.ts`, `fee-policy.ts` are arithmetic and reads.

### packages/kit (2500) and the shared packages

`kernel-effects.ts`, `kernel-chain.ts`, `transaction-kernel.ts` implement the kernel's ports over RPC;
`journal-file.ts` frames the engine's journal; the rest reports. `swaps`, `telemetry`,
`observability`, `monitoring`, `offers`, `logging`, `utils`, `contracts`, `oxlint-plugin` are I/O,
encoders, generated code or lint rules.

### The bots

| bot | own logic |
|---|---|
| blue-liquidation (2200), midnight-liquidation (8600) | discovery, sizing, submission per block; the revert streak of `runner/revert-streak.ts` |
| midnight-crossed-books | pure matching of crossed orders, API access |
| quoter-bot (22600) | three monitors that fail together, one queue for writes, shutdown cleanup; the ladder; ownership files |
| vault-v1-reallocation (2100), vault-v2-reallocation (2600) | strategies that balance allocations (`reconcile.ts`, `equalize-utilizations.ts`), reads and encoding |

### How they interact

A bot's workflow (controller over engine) submits plans to the kernel; the kernel emits commands; the
executor runs them through the effects of `kit` and dispatches the answers as events; the store
acknowledges each ledger write; the chain adapter dispatches what the node says. The liquidation bots
use `bot-kit`'s queue and signer instead of the kernel. Nothing is shared between processes but the
ledger file and the chain.

## 2. What is modelled

| part | modules |
|---|---|
| kernel: reducer, executor, chain | `KernelReducer`, `TransactionKernel`, `MCTransactionKernel`, `TransactionKernelProofs`, `TransactionKernelSteps`, `TransactionKernelSafety` |
| kernel: ledger file | `LedgerStore`, `DurableRegister` (abstract), `MCLedgerStore`, `LedgerStoreProofs` |
| bot-kit: queue, signer, block runner | `PendingQueue`, `MCPendingQueue`, `PendingQueueProofs` |
| controller: tasks, backoff, act | `ControllerTasks`, `MCControllerTasks`, `ControllerTasksProofs` |
| engine: runner | `EngineRunner`, `MCEngineRunner`, `EngineRunnerProofs` |
| quoter-bot: ladder, ownership, shutdown | `LadderQuoter`, `MCLadderQuoter`, `LadderQuoterProofs` |

An action is a handler, or what runs between two awaits: nothing of a JavaScript process interleaves
elsewhere. Operators keep the source's names, and `PROJECT.json` maps each to its lines.

### The kernel

`KernelReducer` is the reducer's data and every operator of `afterEvent`, without a variable;
`TransactionKernel` extends it with the handlers and the environment. (`KernelState` is in the latter:
TLC would enumerate that set if it stood in a module of constants.)

- `k`, the reducer's state: lifecycle, plans, slot, nonce records, entries, submissions, the write
  queue and the resends under way (`KernelState`). `disk`: the ledger file. `net`: transactions handed
  to a node. `released`: offers whose signature was handed out. `chain`: head and the account's
  transactions in blocks. `faults`: adverse events so far.
- A handler computes a state and ends with `Reduce`, the whole of `afterEvent`: plans progress, nonces
  and entries settle, latch bound, start check, rebroadcast, recovery, slot dispatch, flush if the
  ledger changed, clean-stop check.
- The bot: `Submit`, `AdvanceStage`. The clock: `Observed`, `Lapse`, `GoStale`, `Affirm`, `Overdue`.
  The executor's answers: `Simulated`, `Signed`, `SignFailed`, `Handoff`, `Broadcasted`,
  `WithheldAtHandoff`, `Released`, and for resends `HandoffAgain`, `ResendAnswered`. `Handoff` is
  apart from the answer because the answer can be lost, late or wrong when the handoff has happened.
- The store: `FlushAnswered`, `FlushRejected`; `Crash` leaves the file at the last answered write or
  at any write still queued, which is what `DurableRegister` promises of it. `Start` loads it.
- The chain: `NewBlock` (empty, our next transaction, or a foreign one, executed, unconfirmed or
  reverted), `ReplaceTip` (reorg above finality), `StartHead`, `Receipt`, `NonceTx`, `NonceAt`,
  `CommitmentObserved`, in any order.

Simplifications. A transaction's hash is its nonce and its place among the nonce's candidates. The
deadline and the watched facts of a plan are one field, `doubt`. A request is outstanding exactly while
its plan is in the phase that waits for it, so an answer the reducer ignores because the request is
gone is no step. A plan that is over is kept nowhere: no guard modelled tells it from an absent one.
Recovery plans are identified by what they recover, so an id serves again after its plan is over. A
block holds at most one transaction of the account. A reorg replaces the tip alone, within the finality
lag, and the adapter's `Reorg` and next `Head` are one step because nothing is reduced between them. A
simulation is of the head. Plans are progressed in a fixed order. Left out: fees and escalation levels,
resources and caps, conflicts between plans and supersession, late materialization, the records of
releases and the conflict marks they raise, stored headers, retirement of an entry as fully consumed,
forgetting of all evidence, foreign transactions seen as pending only, several processes; enrollment and
ledger validation, which refuse to start.

### The ledger file

`LedgerStore` has an action per await of `persist`, `ensureDirectory` and `readNow` in `store.ts`, each
of which may fail; a process may die between any two and another start; a power loss undoes directory
changes that were not synced and tears files that were not. Several processes may use one path: `rename`
decides. `DurableRegister` is the promise: the reads and writes of one process in order, an acknowledged
write never taken back, a rejected one landed or not, a read of a whole ledger or none. The mapping
(`Register`) reads the register's value at the path. The codec is the identity on whole ledgers. No
store of the repository reports a fence, which the reducer would understand.

### The pending queue

`PendingQueue` is `pending-queue.ts` with `signer.ts` and the loop of `runner.ts`: one maintenance pass
per block (`sweep`, `stuck`, `replace`, `reverted`, `count`, `reconcile`, `hole` are its awaits, in
`phase`), then one tick in which callers submit through the mutex (`line`), each at a `step` of its own.
The chain mines in nonce order what its pool holds, drops, and takes transactions the queue did not send.

Simplifications. Heights are relative, counted no further than the comparisons need. Receipts are
abstracted to mined or not; receipt reorgs, which the queue does not follow either, and reads of nodes
that lag behind each other are left out. A custom signer's `TxSendError` is there as a send aborted
before it left. The memoized first read of `claimNonce` cannot be reached once `syncNonce` is set, so it
is not there; the submit mutex and that sync keep two sends from sharing one read of the cursor.
`getConsumedNonce` is taken as set. The order of
the entries is that of their nonces, which `CursorAhead` justifies. Callers submit concurrently, as the
queue's own documentation allows.

### The controller

`ControllerTasks` is one task family: every input of the engine (a head, a fact, an input, a candidate,
a preparation's end or timeout, an act's status, the kernel's view) followed by the decision of that
step, with the backoff fold. `candidate`, `fact`, `input` are the nodes it watches; `family` is its
own state; `backoff` failures and the blocks left to wait, per key and task. `Step` takes the state with
its input and passes it through the parts of `decide` in the code's order: `Checked`, `Submits` and
`Prepares` (one key after the other, in the order of `Before`), `KeepDeclines`.

What the view (`view.ts`) tells of the kernel outlives the notices the family gets, so both are there.
`acts` holds what each key has: an act on its way, a plan that executes (admitted, waiting for a
transaction, or between two steps), one that is being compensated, and what is settled or failed with
entries not yet retired. `nonces` is the ledger of records, per key and for recovery, each open
(unresolved) or mined and not final. `Busy` and `NumReservations` are computed from these as `viewOf`
does: a key is busy through its plans, its entries not retired and its open nonces; a reservation is an
open nonce, whoever's it is, or an executing plan that no record lists. `Commit` opens a nonce;
`Include`, `Settle` and `Fail` resolve it or leave it; `GetStuck` and `Retire` end a compensation;
`Land` mines a nonce no plan waits for; `Finalize` deletes a record and `Reorg` reopens any of those
that are not final, also of acts that are over; `Repair` and `RepairEnds` are recovery's own plans;
`Halt` and `Resume` are the kernel's lifecycle. `Restart` forgets the family and the plans and adopts
entries and nonces, every resolution forgotten, as nothing of a family is persisted.

Simplifications. Heights are relative. The kernel's view and activity arrive in one step. Failures
saturate where the wait stops growing. A plan waits for the last open nonce of its key, the earlier ones
being mined before it, as nonces are. A recovery plan's reservation is its nonce from the start; one
that takes over a nonce counted already is a reservation that ends without being mined. The entries of an act are one. Acts the bot submits past
the family (`ActRaw`) come only for a key that has none: two of them are the bot's own doing. The checks
of the graph at build time, the steps an act is built from, its journal entries and `workflow.ts` are
left out. `closed`, `ended` and `due` are history for the properties.

### The engine's runner

`EngineRunner` is `runner.ts` on one record `r`: pushed writes, the drain of the event loop in its
parts, effects with their lane (concurrency, bounded waiting, recovery work first), degradation to the
recovery scope, wind-down, clean stop, rejection, and the journal's writer with its capacity, append
deadline and finalization. Which effects a write requests, and what throws, is open.

Simplifications. One operator outside the scope, one member fold, one lane. Clocks, expiries and wakes
act as pushes. `ready`, lane budgets and the policy's re-entry are left out. The growth of an entry at
write time is a failure of the append. An aborted handler is assumed to settle, as `SPEC.md` asks of
effects. Not counted, as `SPEC.md` §15 says of the code: an effect already at work at the clean stop
that rejects later. Seen while modelling: a first failure whose origin is not known halts at once,
without the wind-down that `SPEC.md` §11 gives a failure outside the scope.

### The quoter's ladder

`LadderQuoter` is one market of the quoter bot: the cycles and shutdown of
`ladder-quoter.service.ts`, the reserve, cancel, forget, ratify, publish and confirm steps of
`ladder-make.service.ts`, the ownership file, and the executor that sends one transaction at a time and
may never learn what became of it. `pool` holds what may still land, with nonces relative to the
account's; `owned` is the ownership file; `at` and `job` say where the process is.

Simplifications. A publication is a number, never used twice, with a group of buys or of sells or both.
What to quote and when to rest is a choice. The API may not show a closed group as closed, and one it
does not show counts as active. A node answers any prefix of the contiguous pool as the next nonce.
Every receipt wait may time out, after which the executor sends nothing until a restart; what it gave
up on may still land. A receipt is not taken back by a reorg: the queue under the executor does not
follow that either. Buys whose cap is used up count as takeable, as `isGroupClosed` has it. Removed
markets, the bootstrap and setup monitors (they only stop or block the ladder here), the operator's
invalidation command, the spread guard and the cooldown after crossed books are left out, and so is a
power loss before the renamed ownership file is on disk (`strategy-state-file.utils.ts` renames and
never syncs). Seen while modelling, and a documented trade-off: after a crash between reserve and
publish, the restarted process rests on a reservation that never landed until the wanted quote changes.

### Bounds

| bound | meaning | why enough |
|---|---|---|
| `MaxNonce`, `MaxHead` (kernel) | nonces 1..2, blocks 2..4 | a transaction, its neutralizer or a second plan; inclusion, finality one block later, and the blocks a resend or the latch bound needs |
| `MaxFaults`, `Adversity` (kernel) | adverse events in a behaviour, and their kinds | each run names the kinds it mixes; every normal step stays possible around them |
| `FinalityLag`, `MaxSimLagBlocks`, `StuckBlocks`, `LatchBoundBlocks`, `MaxRecoveryAttempts` | settings, scaled to 1..3 | each boundary is crossed within `MaxHead` |
| `MaxWrites` (store) = 3, two processes | writes asked | one acknowledged, one landed and one queued, over two processes |
| `MaxNonce` = 2 (queue), two labels | three sends | a hole below a later send, with one more to refuse |
| `MaxGap` = 2, `MaxFaults` = 1 (queue) | blocks a watcher skips; failed reads, lost answers, drops, foreign transactions | past `StuckBlocks` and the cooldown of 1 |
| `MaxRare` = 1, two keys, `MaxBlocks` = 2 (controller) | rare events; keys of one rank that contend for one reservation; the widest wait | one key's handler hangs without bound; the wait doubles once and saturates |
| `MaxSteps` = 2 and 1, `MaxNonces` = 2, 1 and 1 (controller) | steps of an act of each key; records that are not final, of each key and of recovery | a second step while the first's nonce can be reopened; one of recovery's beside them |
| `MaxWrites` = 2, `MaxNotes` = 1, `Capacity` = 3 (engine) | writes, notes of effects, unwritten journal entries | a failure between two writes, and the overflow of the journal |
| `MaxPublications` = 2, `MaxPool` = 2, `MaxFaults` = 2 (ladder) | publications, transactions that may still land, faults | an old quote and its successor, one lost and one late; lost receipts are not counted |

With one reservation an open nonce alone fills the cap, so in `controller` a key that is busy only through
a reopened nonce, with room left for its next act, does not occur. `KeysActOnce` proves that case for
every cap, and the safety properties also pass with `MaxReservations = 2` and `Concurrency = 1` under
`CtrlSpec` (about twice the states). In `two_plans` nothing becomes final, with two heads and a lag of
one; a retirement that comes too early is still caught there, and `OpenOffersHeld` covers finality.

A step past a bound does not happen; a kernel plan that finds no nonce left waits for the slot. Labels
are symmetric in `pending_queue` (a safety run); no liveness run uses symmetry. `CHECK_DEADLOCK` is off
for `engine` and `ladder` alone: a runner that settled, or a process whose cleanup applied, stops.

## 3. Runs

| run | instance | properties |
|---|---|---|
| `create` | one plan creates an offer, open from its inclusion; all adverse events of the kernel | `TypeOK` `SentIsDurable` `CleanStopIsQuiet` `OpenOfferIsHeld` `CompensatedIsOver` `KeptHomeStaysHome` `NoNonceHole` |
| `two_plans` | one plan creates, open from its broadcast, another cancels | `OpenOfferIsHeld` `NoneWaitsForNothing` |
| `two_stages` | a plan of two transactions; a crash, a reorg, a foreign transaction | `NoDoubleExecution` `SubmissionsAdvance` |
| `release` | an offer released offchain twice, two adverse events, under `LiveSpec` | `SlotIsReleased` |
| `one_pipeline` | two plans committing, an older write fails | `OnePipeline` is violated (finding) |
| `foreign_own` | a replacement signed while its nonce is consumed | `ForeignIsForeign` is violated (finding) |
| `ledger_store` | two processes, three writes, any await failing, crashes, power loss | `IsRegister` |
| `pending_queue` | two labels, three nonces | `TypeOK` `CursorAhead` `NoSendAboveHole` `NoNonceUnaccounted` `Backpressure` `NoMinedWorkDiscarded` |
| `pending_queue_live` | two labels, two nonces, under `LiveSpec` | `EntriesSettle` `LatchesClear` |
| `controller` | two keys of one rank, one reservation; two-step acts, a reorg, recovery or a restart; under `CtrlLiveSpec` | `CtrlTypeOK` `OneActPerKey` `WithinReservations` `ActsAsAsked` `NoIdleRetry` `WaitsWiden` `TurnsAreTaken` |
| `engine` | an effect outside the scope, one inside, a reporter | `RunnerTypeOK` `ScopeKeepsAll` `JournalIsWhole` `StopIsHonest` `WindsDownFirst` `StopSettles` |
| `ladder` | two publications through a Setter, two faults of nine kinds | `QuoterTypeOK` `LiveIsOwned` `OneQuoteAtATime` `AppliedCleanupIsFlat` `BuysStayOff` `StopEnds` |

The properties, in words. Kernel:

- `SentIsDurable`: whatever a node may have is in the ledger file, until its nonce is final.
- `OpenOfferIsHeld`: an offer that can still be consumed, now or after a reorg above finality, is in a
  held state in the ledger file and in the running kernel.
- `KeptHomeStaysHome`: a candidate recorded as rejected or withheld is on no node.
- `NoNonceHole` (action): once the account's nonce has been read, no step leaves a nonce below the
  cursor without a record before its consumption is final. It is about steps because the first reading
  of an account takes over a cursor that may rest on a transaction of an earlier owner, and a reorg of
  that transaction leaves a hole that no step of the kernel made.
- `NoDoubleExecution`: no step is mined twice, whatever is resubmitted, resent or reorged.
- `CleanStopIsQuiet`: after a clean stop no offer is open and no transaction can be mined.
- `CompensatedIsOver`: a submission reported compensated has nothing left to land or to be consumed.
- `NoneWaitsForNothing`: a committing plan waits for a write that is queued; the slot is held by a
  plan that works.
- `SubmissionsAdvance` (action): what the ledger file says of a submission only moves forward.
- `SlotIsReleased` (liveness): a slot taken is given back.

Ledger file: `IsRegister`, the refinement of section 2. Pending queue:

- `CursorAhead`: no claim lands on a tracked nonce; `NoSendAboveHole`: no first send goes above a
  nonce that was dropped; `NoNonceUnaccounted`: every nonce since the last sync is consumed, tracked,
  claimed or in the latched hole; `Backpressure`: a label is tracked once, and not while it cools down.
- `NoMinedWorkDiscarded` (action): a caller is never told of a drop when one of its hashes was mined
  before the pass could know.
- `EntriesSettle`, `LatchesClear` (liveness): every tracked send settles and every latch is released.

Controller: `OneActPerKey` (an act leaves only when the kernel has nothing else of its key: no plan, no
entry to compensate or retire, no open nonce, one that a reorg took back or an earlier run left included;
a reorg later on may still reopen a transaction beside the newer act, which no decision can foresee);
`WithinReservations` (when an act leaves or a preparation is asked for, all plans and open nonces,
recovery's too, the acts on their way and the preparations are within the caps: the kernel's own nonces
may pass them in between, but the family never adds to that); `ActsAsAsked` (what leaves is what the policy asks for
at that moment, over a fact that reads as it did); `NoIdleRetry` (an attempt that came to nothing is not
repeated as it was); `WaitsWiden` (waits double, up to the maximum); `TurnsAreTaken` (liveness: no key
of the same rank starves another).

Engine: `ScopeKeepsAll` (the recovery scope folds every accepted write in order and each of its requests
is in exactly one place, whatever failed outside); `WindsDownFirst` (after degradation nothing outside
the scope goes on, and nothing starts before the wind-down is folded); `JournalIsWhole` (no gap, and
a clean end only if whole); `StopIsHonest` (`stopped` settles last, and with the first failure);
`StopSettles` (liveness).

Ladder: `LiveIsOwned` (what can be taken, or may be later, is in the ownership file); `OneQuoteAtATime`
(two publications are never takeable together); `AppliedCleanupIsFlat` (a cleanup that reports success
leaves nothing to take); `BuysStayOff` (after the loss guard no buy can be taken until it passes);
`StopEnds` (liveness: a process told to stop ends).

Every property has a mutant: a changed definition of the model, a bug one could write in that place,
under which TLC finds it violated.

### Fairness

Only liveness runs assume any, and each is weak fairness of what the code itself schedules, one strong:

- `release`: each command is answered. `run` in `executor.ts` bounds every effect with a timeout, and
  the store's queue moves on after a failure as after a success. Neither the bot, the clock nor the
  chain is assumed to do anything. The guards (`Handing`, `Asked`, `Writing`) are spelled out.
- `pending_queue_live`: the event loop (`Poll`, `Pass`, `EndTick`, a submit that began) and, strongly,
  each label's `Submit`: a label that is worth submitting in tick after tick is submitted in one.
  The chain owes nothing.
- `controller`: heads arrive, facts are read again, a preparation ends by its timeout at the latest, and
  the kernel and the chain do not leave what a key or recovery has as it is: it changes again and again
  until it is gone. `SlotIsReleased` says so of the kernel's pipeline; the rest is the chain's to mine and
  to finalize.
- `engine`: the event loop; an append and the finalization end at their deadline; aborted handlers
  settle.
- `ladder`: the process's own steps: reads and writes return or time out, and a receipt wait has a
  deadline.

### Findings

- `foreign_own`. While a replacement at a nonce is being signed, the plan's own transaction there can
  become final; `settleNonces` deletes the record, `commit` starts an empty one for the consumed
  nonce, and the chain's answer is then taken for a transaction the kernel never signed
  (`kernel.ts:1215`, `SPEC.md:474`).
- `one_pipeline`. `flushFailed` frees the slot whichever write failed; a newer plan that is committing
  loses it to a third (`kernel.ts:2016`, `SPEC.md:227`, `SPEC.md:955`).

## 4. Proofs

Each holds for every value of the constants its module's assumptions allow, with no bound on behaviours
but the ones the model's guards name.

### The kernel's types (`TransactionKernelProofs`)

`InductiveInvariant` (`Spec => []IInv`) and `TypeCorrect` (`Spec => []TypeOK`). `TypeOK` says more than
that fields have ranges: candidates refer to steps that exist, resolutions to candidates that are there,
and writes in the queue are whole ledgers, so no handler reads what is not there. It is not inductive:
`Signed` writes a candidate with the plan's nonce and step, and nothing in `TypeOK` says that a plan
that signs has them. `IInv` adds `Placed`: a working plan stands at one of its own steps, and a plan
that signs, commits or exposes a transaction has a nonce. A lemma per operator of the reducer (each
keeps `Typed`), composed along `afterEvent` into a lemma for `Reduce`, then a lemma per handler, a step
per action and the temporal step.

### The kernel's safety (`TransactionKernelSteps`, `TransactionKernelSafety`)

`SentStaysDurable`, `NothingExecutesTwice` (invariants), `SubmissionsMoveForward` and
`RecordsOutlastTheirNonce` (action properties), each from `SafetyInvariant` (`Spec => []SInv`);
`OpenOffersHeld`, `CleanStops` and `WaitsEnd` (invariants), each from `OfferInvariant`
(`Spec => []OfferInv`), which rests on the former.

None of the first four is inductive. That the file lists what is on the network says nothing of the writes
still queued, any of which a crash may leave as the file; nor of the transaction a plan is about to hand
over; nor of the records the reducer deletes because it takes them for final. `SInv` has these parts:

- `MinedWasSent`: what was mined was on the network, at its nonce.
- `Filed`, of the file and of every queued write, with or without a process: their records are open and
  below the cursor (`SoundFile`), they list no two transactions of one step, also counting what is
  outside (`Once`), each is an advance on the file and on the writes before it (`Advances`), and what is
  outside, on the network or being resent, is listed by all of them or final.
- `Safe`, of the running kernel: the same of its own records; the transaction a plan commits or exposes
  is listed, by the writes from its own on, and by the file once it is exposed (`InFlight`); what a
  plan has passed is all that is listed of it (`Passed`); what it takes for mined is mined, and what it
  takes for final is (`Evidence`); a candidate that may be out is on file (`OutOnFile`); a plan that
  executes has an open submission (`Submitted`) and signs no nonce beyond the cursor (`Behind`).

Why each is needed: `Evidence` so that `settleNonces` deletes only records of nonces that stay
consumed; `InFlight` and the count of answered writes so that `flushed` releases a plan on its own
acknowledgement; `OutOnFile` so that a resend, also one after a restart, is of something on file;
`Passed` and `Submitted` so that a commit lists a step that nothing lists yet; `Advances` along the
queue so that a crash to any queued write forgets nothing and reopens nothing.

The argument: most operators of `afterEvent` are `Quiet` (they list nothing new, bring no plan to a
commit, take evidence back but never add any), and a `Quiet` step keeps `SInv`; the settling of nonces,
the rebroadcast, the commit and the write are followed one by one; their composition (`ReduceOnward`) is
what every handler ends with. Then a lemma per handler, the restart and the crash, and one step per
action. TLC checked `SInv` over `create`, `two_plans` and `two_stages` before it was proved.

`SInv` is about nonces. What keeps an offer held is about entries, and `OfferInv` has these parts, of
the file, the queued writes and the running kernel alike:

- `Covers`: every offer that is neither expired nor neutralized at finality, and that was released or
  is carried by a transaction listed or outside which may still create it, is held. One that is open from
  its inclusion also counts that transaction among its creators that are not dead, and no other
  transaction has its hash (`Shielded`): `settleEntries` retires such an offer when its creators are
  dead, so a creator it has forgotten would be an offer it loses.
- `Releases`: what a plan is about to release is held by the kernel, by the writes from the plan's own
  on, and by the file once the plan exposes.
- `Witnessed`: what a record says of the winner of its nonce is what was mined, and what
  an entry says was neutralized was, by a block the kernel has looked at. A reorg replaces the tip, so
  `reorg` must take back all of it that was seen above the fork.
- `Fresh` and `Plain`: what was never exposed has no creators, and a file says nothing of evidence.
- `Works` and `Issued`: the write a commit waits for is in the queue, the slot is held by a plan that
  signs, commits or exposes, and a plan is at a step its phase fits. `CleanStops` needs it too: a plan
  past its commit cannot be missed.
- `Ended`: what a kernel that stopped clean knew of was over, and stays so.

An offer whose exposure is `broadcast` counts as open (`Open`) once a transaction that carries it was
broadcast, or it was released offchain; any other as long as a transaction may create it (`SPEC.md:421`).
The argument has the same shape: most operators are `Gentle` (`Quiet`, and `Mild`: they let go of no
entry, no plan in flight and no slot in use) or `Tame`, and `OfferInv` survives those at once; the
settling of entries and nonces, the commit, the write, the release and the reorg are followed one by
one up to `ReducedOffers`, and each handler's lemma shows that it hands `Reduce` a kernel that is
`Attended`.

### The ledger file is a durable register (`LedgerStoreProofs`)

`StoreIsRegister`: `StoreSpec => IsRegister`. The mapping reads the register at the path, so the proof
must know that the file there is whole and stays whole. `StoreInvariant` says so: a rename moves a file
its process has synced (`Busy`), what a power loss may bring back was synced (`Kept`), and while the
directory is not durable nothing was renamed. With it the mapping is the identity (`RegisterIs`), each
rename is a `Land`, each directory sync an `Acknowledge`, each failure a `Reject`, and the other steps
are invisible.

### The pending queue (`PendingQueueProofs`)

`QueueTypeCorrect`, `CursorStaysAhead`, `NoncesAccounted`, `NoSendOverAHole`, `LabelsHeldBack`
(invariants) and `MinedWorkKept` (an action property), from `QueueInvariant`. What the properties say
of the state at rest has to be known at every await of a pass and of a tick. The invariant adds what a
pass knows of the entries it has yet to look at (`PassOK`: those it read as consumed are, those it
holds to be stuck are still tracked), that one caller at a time is between the read of the cursor and
the tracking of its send (`LineOK`), and which labels the callers of the tick may submit (`LabelsOK`).
`MinedWorkKept` needs that no hash of an entry was mined before the nonce the pass read (`Unmined`).

### The ladder (`LadderQuoterProofs`)

`QuoterTypeCorrect`, `LiveStaysOwned`, `OneQuoteLive`, `CleanupIsFlat` and `BuysStayCanceled` over
`QuoterLiveSpec`, from `QuoterInvariant`. The invariant says where an operation stands (`JobOK`), what
the executor's transaction is and where it may have gone (`ExecOK`), that a publication to come is
fresh (`FreshOK`), that every group that can be taken, or will be when a prefix of the pool lands, is
owned (`CoverOK`, `ExposedOwned`) and of one publication (`OneExposed`), and that after a cleanup or a
loss guard nothing of the pool brings back what was closed.

### The controller's tasks (`ControllerTasksProofs`)

`ControllerTypeIsOK` (an invariant), `KeysActOnce`, `ReservationsHold`, `ActsAreAsked`, `RetriesAreDue`
and `WaitsDoWiden` (action properties), from `ControllerIsSound` (`CtrlSpec => []CtrlInv`). The keys are
`1 .. n`, as the assumption of `ControllerTasks` says, for any n; policies, caps and waits are any.

The properties speak of what leaves and of what is asked for; what was remembered on the way has to be
known in every state. `CtrlInv` says that a state is of its type and that a key has one act at most
(`States`), and:

- `OneAtATime`: a key is prepared or ready, not both, and the family remembers a request exactly while
  it is on its way. `KeysActOnce` needs it: `Busy` sees a request through what the family remembers.
- `Counted`, of a decision that asks for something: reservations, requests, preparations and what is
  ready are within the caps together. It is about what was asked, because a reorg, a later step or
  recovery may raise the count past the caps between two decisions.
- `Remembered`: a decline is kept with the values it was given on while they stand, a stale refusal
  until the fact is read again, and nothing under way was declined. `RetriesAreDue` needs it.
- `Waiting`: what is left of a wait is what its failures earned less the blocks since, until a whole
  maximum wait after. `RetriesAreDue` and `WaitsDoWiden` need it.
- `Shut`: a failed policy leaves nothing ready, and voids what it leaves under way. `ActsAreAsked`
  needs it: an answer that arrives later must find its ticket void.

The argument follows `Step`. Each input leaves a state that is `Given`: sound, but for what it changes
of the values declines were given on, and for the keys whose policy just failed. Each part of the
decision keeps what is sound (`CheckedKeeps`, `SubmitsKeep`, `PreparesKeep`, `KeepDeclinesKeep`), the two
passes over the keys by induction up to the number of keys.

### The engine's runner (`EngineRunnerProofs`)

`RunnerTypeIsOK`, `ScopeLosesNothing`, `JournalKeepsWhole`, `StopStaysHonest` (invariants) and
`ScopeWindsDownFirst` (an action property), from `RunnerIsSound` (`RunnerSpec => []RunnerInv`). The parts
of `RunnerInv`:

- `Journaled`: the entries written, being written and buffered are consecutive and within the capacity,
  none is missing unless the journal failed, it ends clean only then, and nothing waits behind an idle
  writer.
- `Over`: the lane holds no more than it may, a finished run has nothing pending, its journal closes when
  nothing runs, and only a finished run has a verdict.
- `Honest`: a degraded run degraded with its first failure, and what the verdict and the outcome may say
  of it.
- `Winding`: in a degraded run that goes on, what runs or waits is the scope's, or aborted.
- `Whole`, while the run goes on: the writes folded, then those being folded, then those pending are the
  writes accepted, each once and in order, with the wind-down among them exactly when the run degraded.
- `Placed`, while the run goes on: a request is buffered, waiting, running or answered, in one of these
  places only, its write is folded, and what the scope was asked is in one of them.

A turn of the event loop composes operators that stop in the middle of a write, so the last two parts
carry what is between (the `gap` of a write that is being folded, the requests `lost` on their way from
one place to the next), and there is a lemma for each operator; an action composes them. The routing of a
write's effects is a fold over a sequence and is followed by induction up to its length.

The provers cannot instantiate the library's induction theorems, whose hypotheses are operators. Both
modules prove induction up to a number over a set (`UpTo`) and the existence of what is built step by
step (`StepByStep`) from the well-foundedness of `<`, and use those for folds and recursive functions.

### Only model-checked

- Liveness (`SlotIsReleased`, `EntriesSettle`, `LatchesClear`, `TurnsAreTaken`, `StopSettles`,
  `StopEnds`): fairness and `ENABLED` are out of TLAPS's reach.
- `KeptHomeStaysHome`. Over arbitrary constants it may fail of the model and not of the code: a
  recovery plan started again for a nonce can be signing there while the nonce's earlier transaction
  becomes final and its record is deleted (the race of the first finding). Its new candidate then has
  the old one's nonce, place and plan, which is all the model's identity of a transaction holds, while
  the code tells the two apart by their hashes. That takes two adverse events; the run has one.
- `CompensatedIsOver`: two submissions may name one offer. If the plan of the first fails before it
  exposes the offer, the kernel forgets the offer's id and may admit it again, so the offer that the
  first was compensated for is rightly open once the second makes it. The assumptions do not exclude
  such plans, and the run has none.

## 5. Not modelled

Payload encoding and validation, RPC, reports, telemetry, market sizing, pricing of the ladder,
generated API clients, charts and scripts: they are pure I/O, formatting, or arithmetic over data the
properties above do not tell apart. The conflict marks and the evidence floor of the kernel, the chain
adapter's own memory, and the bootstrap and setup monitors of the quoter bot keep state of their own and
are not modelled either; three hazards of `PROJECT.json` stand without a property for that reason, each
with its note. The strategies of the vault bots and the matching of crossed orders are pure functions in
fixed-point arithmetic; what they submit goes through the controller and the kernel.
