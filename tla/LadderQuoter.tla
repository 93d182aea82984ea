---------------------------- MODULE LadderQuoter ----------------------------
(***************************************************************************)
(* The ladder of the quoter bot on one market: its cycles and shutdown,    *)
(* the make service that reserves a publication in the ownership file,     *)
(* cancels what it replaces and publishes, and the executor that sends its *)
(* transactions one at a time and may not learn what became of one.        *)
(*                                                                         *)
(* A publication is a number, never used twice, and has a group of buys    *)
(* and a group of sells, or one of them.  What to quote and when to rest   *)
(* is pricing, left to a choice.  A transaction the executor gave up on    *)
(* stays in the pool, where it may land later, in nonce order, unless      *)
(* another lands at its nonce.                                             *)
(***************************************************************************)
EXTENDS Integers, FiniteSets

CONSTANTS
  Setter,           \* the ratifier is a Setter: a root is approved before its publication
  Quotes,           \* the sides a quote may have
  Adversity,        \* the faults this instance has
  MaxPublications,  \* bound: publications prepared
  MaxPool,          \* bound: transactions the pool holds, one more is refused
  MaxFaults         \* bound: faults

ASSUME QuoterAssumption ==
  /\ Setter \in BOOLEAN
  /\ Quotes \subseteq SUBSET {"buy", "sell"}
  /\ MaxPublications \in Nat /\ MaxPool \in Nat /\ MaxFaults \in Nat

VARIABLES
  \* the chain
  ratified,   \* groups under an approved root
  published,  \* groups whose publication landed
  canceled,   \* groups consumed to the cancellation sentinel
  filled,     \* groups whose cap is used up
  lossy,      \* the market's loss factor differs from the accepted one
  pool,       \* transactions that may still land, by nonces ahead of the account's
  \* the state directory
  owned,      \* groups of the publications in the ownership file
  \* the process
  at,         \* where its cycle, job or shutdown is
  job,        \* the make operation under way
  fresh,      \* groups of the publication the operation prepares
  targets,    \* groups the operation cancels
  amiss,      \* the invalidation of all groups already failed for one
  receipt,    \* what the executor can read of the transaction it waits for
  blocked,    \* reconciliationRequired
  sent,       \* the transaction of this step is broadcast, its settlement awaited
  confirmedCanceled,
  stopping,   \* the signal is aborted, or the failures used up their budget
  made,       \* publications prepared so far
  \* history
  buysOff,    \* the loss guard cancelled the buys and has not passed since
  faults
chainVars == <<ratified, published, canceled, filled, lossy>>
workVars == <<job, fresh, targets, amiss>>
txVars == <<pool, receipt, blocked, sent>>
memoryVars == <<confirmedCanceled, stopping, made, buysOff>>
vars == <<chainVars, owned, at, workVars, txVars, memoryVars, faults>>

Groups == (1 .. MaxPublications) \X {"buy", "sell"}
Buys == (1 .. MaxPublications) \X {"buy"}
Jobs == {"quote", "withdraw", "readFailed", "cancelBuys", "hardHalt", "cleanup"}
Kinds == {"cancel", "ratify", "publish"}
Ended == {"applied", "failed"}
Running == at \notin Ended \cup {"down"}

Fault(kind) == kind \in Adversity /\ faults < MaxFaults /\ faults' = faults + 1
Fine == UNCHANGED faults

-----------------------------------------------------------------------------
(* The protocol's side.                                                    *)

\* isGroupClosed: only the sentinel closes a buy, a used up cap closes a sell
Closed(g) == g \in canceled \/ (g \in filled /\ g \notin Buys)
Live(g) == g \in published \cup ratified /\ ~Closed(g)
MayGoLive(g) ==
  /\ ~Closed(g)
  /\ \E tx \in pool : tx.kind \in {"ratify", "publish"} /\ g \in tx.groups

\* a transaction of the account's next nonce is mined, whoever still waits for it
Land ==
  \E tx \in pool, ok \in BOOLEAN :
    /\ tx.ahead = 0
    /\ IF ok THEN Fine ELSE Fault("revert")
    /\ pool' = {[u EXCEPT !.ahead = @ - 1] : u \in {v \in pool : v.ahead > 0}}
    /\ receipt' = IF tx.ours THEN (IF ok THEN "success" ELSE "revert") ELSE receipt
    /\ ratified' = IF ok /\ tx.kind = "ratify" THEN ratified \cup tx.groups ELSE ratified
    /\ published' = IF ok /\ tx.kind = "publish" THEN published \cup tx.groups ELSE published
    /\ canceled' = IF ok /\ tx.kind = "cancel" THEN canceled \cup tx.groups ELSE canceled
    /\ UNCHANGED <<filled, lossy, owned, at, workVars, blocked, sent, memoryVars>>

\* takers use up the cap of a live group
Fill ==
  /\ Fault("fill")
  /\ \E g \in published \ filled : Live(g) /\ filled' = filled \cup {g}
  /\ UNCHANGED <<ratified, published, canceled, lossy, owned, at, workVars, txVars, memoryVars>>

Loss ==
  /\ Fault("loss")
  /\ lossy' = ~lossy
  /\ UNCHANGED <<ratified, published, canceled, filled, owned, at, workVars, txVars, memoryVars>>

-----------------------------------------------------------------------------
(* The ownership file: each write replaces it whole.  A failed write       *)
(* leaves it as it was.                                                    *)

ReleasePublication == \/ owned' = owned \ fresh
                      \/ UNCHANGED owned /\ "disk" \in Adversity

-----------------------------------------------------------------------------
(* How an operation begins and ends, and what the cycle makes of it.       *)

Begin(j) == at' = "list" /\ job' = j /\ fresh' = {} /\ targets' = {} /\ amiss' = FALSE

End(how) == at' = how /\ job' = "quote" /\ fresh' = {} /\ targets' = {} /\ amiss' = FALSE
Rest == End("idle")

\* the mutant tries a halt again until it takes
FailsOrHaltsAgain ==
  /\ UNCHANGED buysOff
  /\ CASE job \in {"quote", "withdraw"} -> Rest
       [] job \in {"readFailed", "cancelBuys", "hardHalt"} -> Begin("hardHalt")
       [] job = "cleanup" -> End("failed")

\* a failure is handled and retried, or halts the strategy, or ends the shutdown
Fails ==
  /\ UNCHANGED buysOff
  /\ CASE job \in {"quote", "withdraw"} -> Rest
       [] job \in {"readFailed", "cancelBuys"} -> Begin("hardHalt")
       [] job = "hardHalt" -> Begin("cleanup")
       [] job = "cleanup" -> End("failed")

Succeeds ==
  /\ buysOff' = (buysOff \/ job = "cancelBuys")
  /\ CASE job \in {"quote", "withdraw", "readFailed", "cancelBuys"} -> Rest
       [] job = "hardHalt" -> Begin("cleanup")
       [] job = "cleanup" -> End("applied")

Stays == UNCHANGED <<job, fresh, targets, amiss, buysOff>>

\* the mutant reports the batch alone
ConcludesBatch == Succeeds
\* invalidateOwnedGroups throws once it has tried them all
Concludes == IF amiss THEN Fails ELSE Succeeds

-----------------------------------------------------------------------------
(* The cycle.                                                              *)

\* guardLending: a mismatch, or a guard that cannot be read, cancels the buys first
LendHalted ==
  /\ at = "idle" /\ ~stopping
  /\ IF lossy THEN Fine ELSE Fault("read")
  /\ Begin("cancelBuys")
  /\ UNCHANGED <<chainVars, owned, txVars, memoryVars>>

\* runOnce: rest, quote, withdraw, or halt on what cannot be read or decided
Decide ==
  /\ at = "idle" /\ ~stopping /\ ~lossy
  /\ \/ Rest /\ Fine
     \/ made < MaxPublications /\ Begin("quote") /\ Fine
     \/ Begin("withdraw") /\ Fine
     \/ Begin("readFailed") /\ Fault("read")
     \/ Begin("hardHalt") /\ Fault("read")
  /\ buysOff' = FALSE
  /\ UNCHANGED <<chainVars, owned, txVars, confirmedCanceled, stopping, made>>

\* runContinuously: no cycle starts once the signal is aborted; the cleanup does
StopCycles ==
  /\ at = "idle" /\ stopping
  /\ Begin("cleanup") /\ Fine
  /\ UNCHANGED <<chainVars, owned, txVars, memoryVars>>

\* the operator, a peer that halted, or the budget of failing cycles
Stop ==
  /\ Running /\ ~stopping
  /\ stopping' = TRUE /\ Fine
  /\ UNCHANGED <<chainVars, owned, at, workVars, txVars, confirmedCanceled, made, buysOff>>

-----------------------------------------------------------------------------
(* What an operation cancels.                                              *)

\* the mutant cancels only what the API shows, not a publication it has not indexed yet
ActiveShown(shown) == {g \in owned : g \in published /\ g \notin shown}

\* reconcile: every owned group the API does not show as closed, one it does not show included
ActiveGroupIds(shown) == {g \in owned : g \notin shown}
ClosedOwned == {g \in owned : Closed(g)}

AfterCancel(f) == IF f = {} THEN "done" ELSE "admit"

ListActive ==
  /\ at = "list" /\ job \in {"quote", "withdraw", "readFailed"}
  /\ \E shown \in SUBSET ClosedOwned :
       targets' = ActiveGroupIds(shown) \ confirmedCanceled
  /\ IF job = "quote"
     THEN \E sides \in Quotes :
            /\ made' = made + 1
            /\ fresh' = {made + 1} \X sides
            /\ at' = "reserve"
     ELSE /\ at' = IF targets' = {} THEN "done" ELSE "cancel"
          /\ UNCHANGED <<made, fresh>>
  /\ UNCHANGED <<chainVars, owned, job, amiss, txVars, confirmedCanceled, stopping, buysOff>>
  /\ Fine

\* the mutant leaves a buy whose cap is used up
PendingOpenBuys == {g \in (owned \cap Buys) \ confirmedCanceled : ~Closed(g) /\ g \notin filled}
\* cancelBuys
PendingBuys == {g \in (owned \cap Buys) \ confirmedCanceled : ~Closed(g)}
ListBuys ==
  /\ at = "list" /\ job = "cancelBuys"
  /\ targets' = PendingBuys
  /\ at' = IF targets' = {} THEN "done" ELSE "cancel"
  /\ UNCHANGED <<chainVars, owned, job, fresh, amiss, txVars, memoryVars>>
  /\ Fine

\* invalidateOwnedGroups, up to its batch: what is closed is forgotten, a group that cannot be
\* read or forgotten counts against the whole
ListOwned ==
  /\ at = "list" /\ job \in {"hardHalt", "cleanup"}
  /\ \E skipped \in SUBSET (owned \ confirmedCanceled) :
       /\ IF skipped = {} THEN Fine ELSE Fault("read")
       /\ owned' = owned \ (ClosedOwned \ (skipped \cup confirmedCanceled))
       /\ targets' = {g \in owned \ (skipped \cup confirmedCanceled) : ~Closed(g)}
       /\ amiss' = (skipped # {})
  /\ at' = IF targets' = {} THEN "done" ELSE "cancel"
  /\ UNCHANGED <<chainVars, job, fresh, txVars, memoryVars>>

\* a read the list is made of fails, or the publication cannot be prepared
ListFails ==
  /\ at = "list" /\ Fault("read")
  /\ Fails
  /\ UNCHANGED <<chainVars, owned, txVars, confirmedCanceled, stopping, made>>

Done ==
  /\ at = "done"
  /\ Concludes /\ Fine
  /\ UNCHANGED <<chainVars, owned, txVars, confirmedCanceled, stopping, made>>

\* reservePublication, before anything is cancelled or signed
Reserved == owned \cup fresh
Reserve ==
  /\ at = "reserve"
  /\ \/ /\ owned' = Reserved /\ Fine
        /\ at' = IF targets = {} THEN AfterCancel(fresh) ELSE "cancel"
        /\ Stays
     \/ UNCHANGED owned /\ Fault("disk") /\ Fails
  /\ UNCHANGED <<chainVars, txVars, confirmedCanceled, stopping, made>>

-----------------------------------------------------------------------------
(* The executor.                                                           *)

TxGroups(kind) == IF kind = "cancel" THEN targets ELSE fresh

\* the mutant places a transaction past everything the pool holds
NonceAfterAll == {MaxPool + 1}

\* the cursor is read from a node, which need not hold every transaction of the pool
NextNonce == {n \in 0 .. MaxPool : \A m \in 0 .. n - 1 : \E tx \in pool : tx.ahead = m}

Broadcast ==
  /\ at \in Kinds /\ ~sent /\ ~blocked /\ Cardinality(pool) < MaxPool
  /\ \E n \in NextNonce :
       pool' = pool \cup {[kind |-> at, groups |-> TxGroups(at), ahead |-> n, ours |-> TRUE]}
  /\ blocked' = TRUE /\ sent' = TRUE /\ receipt' = "none"
  /\ UNCHANGED <<chainVars, owned, at, workVars, memoryVars>>
  /\ Fine

Disowned == {[tx EXCEPT !.ours = FALSE] : tx \in pool}

\* the mutant reads a revert after the approval as a publication that never was
ReleasesAfterApproval(kind, how) == how \in {"refused", "reverted"}

\* which failures mean the publication can never take effect
Releases(kind, how) ==
  /\ how \in {"refused", "reverted"}
  /\ kind = "publish" => ~Setter

OnFailure(kind, how) ==
  IF kind = "cancel" /\ job \in {"hardHalt", "cleanup"}
  THEN at' = "recheck" /\ UNCHANGED owned /\ Stays
  ELSE /\ Fails
       /\ IF kind = "cancel" \/ Releases(kind, how) THEN ReleasePublication ELSE UNCHANGED owned

\* a policy, a simulation, the node or the unsettled transaction before it refuses
Refuse ==
  /\ at \in Kinds /\ ~sent
  /\ IF blocked \/ Cardinality(pool) = MaxPool THEN Fine ELSE Fault("refuse")
  /\ OnFailure(at, "refused")
  /\ UNCHANGED <<chainVars, txVars, confirmedCanceled, stopping, made>>

Waits(kind) == at = kind /\ sent

\* the settlement names the receipt
Settles(kind, what) ==
  /\ Waits(kind) /\ receipt = what
  /\ blocked' = FALSE /\ sent' = FALSE /\ receipt' = "none" /\ pool' = Disowned

CancelConfirmed ==
  /\ Settles("cancel", "success")
  /\ at' = "forget"
  /\ confirmedCanceled' = confirmedCanceled \cup targets
  /\ UNCHANGED <<chainVars, owned, workVars, stopping, made, buysOff>>
  /\ Fine

RatifyConfirmed ==
  /\ Settles("ratify", "success")
  /\ \/ at' = "publish" /\ Fine /\ Stays
     \/ Fails /\ Fault("read")
  /\ UNCHANGED <<chainVars, owned, confirmedCanceled, stopping, made>>

PublishConfirmed ==
  /\ Settles("publish", "success")
  /\ Succeeds /\ Fine
  /\ UNCHANGED <<chainVars, owned, confirmedCanceled, stopping, made>>

Reverted ==
  \E kind \in Kinds :
    /\ Settles(kind, "revert")
    /\ OnFailure(kind, "reverted") /\ Fine
    /\ UNCHANGED <<chainVars, confirmedCanceled, stopping, made>>

\* the queue gave up on the transaction, which may land all the same
Dropped ==
  \E kind \in Kinds :
    /\ Settles(kind, "none") /\ Fault("drop")
    /\ OnFailure(kind, "dropped")
    /\ UNCHANGED <<chainVars, confirmedCanceled, stopping, made>>

\* the receipt's deadline passed: every later send of this process is refused
TimesOut ==
  \E kind \in Kinds :
    /\ Waits(kind)
    /\ OnFailure(kind, "pending") /\ Fine
    /\ sent' = FALSE /\ receipt' = "none" /\ pool' = Disowned
    /\ UNCHANGED <<chainVars, blocked, confirmedCanceled, stopping, made>>

-----------------------------------------------------------------------------
(* After the cancellation.                                                 *)

\* forgetGroups; outside a halt, a file that cannot be written fails the operation
ForgetCanceled ==
  /\ at = "forget"
  /\ \/ /\ owned' = owned \ targets /\ Fine
        /\ at' = AfterCancel(fresh) /\ Stays
     \/ UNCHANGED owned /\ Fault("disk") /\ job \in {"hardHalt", "cleanup"}
        /\ at' = "recheck" /\ Stays
     \/ /\ job \notin {"hardHalt", "cleanup"} /\ Fault("disk")
        /\ owned' \in {owned, owned \ fresh}
        /\ IF job = "cancelBuys" THEN Rest /\ UNCHANGED buysOff ELSE Fails
  /\ UNCHANGED <<chainVars, txVars, confirmedCanceled, stopping, made>>

\* batchCancellationFailures: what closed all the same is no failure
Recheck ==
  /\ at = "recheck"
  /\ \E gone \in SUBSET {g \in targets : Closed(g)} :
       /\ IF gone = {g \in targets : Closed(g)} THEN Fine ELSE Fault("read")
       /\ owned' = owned \ gone
       /\ IF gone = targets THEN Concludes ELSE Fails
  /\ UNCHANGED <<chainVars, txVars, confirmedCanceled, stopping, made>>

\* the buys are admitted against a fresh snapshot, or the publication is withheld
Admit ==
  /\ at = "admit"
  /\ \/ /\ fresh \cap Buys = {} \/ ~lossy
        /\ at' = IF Setter THEN "ratify" ELSE "publish"
        /\ UNCHANGED owned /\ Stays /\ Fine
     \/ /\ fresh \cap Buys # {}
        /\ ReleasePublication /\ Fine
        /\ Rest /\ UNCHANGED buysOff
  /\ UNCHANGED <<chainVars, txVars, confirmedCanceled, stopping, made>>

-----------------------------------------------------------------------------
(* The process dies between any two steps, and starts again.  A startup    *)
(* that fails, on a nonce its node shows as pending for one, cancels what  *)
(* is owned; a node that lost the transaction shows none.                  *)

Crash ==
  /\ Running /\ Fault("crash")
  /\ End("down")
  /\ pool' = Disowned /\ receipt' = "none" /\ blocked' = FALSE /\ sent' = FALSE
  /\ confirmedCanceled' = {} /\ stopping' = FALSE
  /\ UNCHANGED <<chainVars, owned, made, buysOff>>

Restart ==
  /\ \/ at = "down" /\ Fine
     \/ at = "failed" /\ Fault("restart")
  /\ blocked' = FALSE /\ confirmedCanceled' = {} /\ stopping' = FALSE
  /\ Rest \/ Begin("cleanup")
  /\ UNCHANGED <<chainVars, owned, pool, receipt, sent, made, buysOff>>

-----------------------------------------------------------------------------
Init ==
  /\ ratified = {} /\ published = {} /\ canceled = {} /\ filled = {} /\ lossy = FALSE
  /\ pool = {} /\ receipt = "none" /\ blocked = FALSE /\ sent = FALSE
  /\ owned = {} /\ confirmedCanceled = {} /\ stopping = FALSE /\ made = 0
  /\ at = "idle" /\ job = "quote" /\ fresh = {} /\ targets = {} /\ amiss = FALSE
  /\ buysOff = FALSE /\ faults = 0

Work ==
  \/ LendHalted \/ Decide \/ StopCycles
  \/ ListActive \/ ListBuys \/ ListOwned \/ ListFails \/ Done \/ Reserve
  \/ Broadcast \/ Refuse \/ Reverted \/ Dropped \/ TimesOut
  \/ CancelConfirmed \/ RatifyConfirmed \/ PublishConfirmed
  \/ ForgetCanceled \/ Recheck \/ Admit

Next == Work \/ Land \/ Fill \/ Loss \/ Stop \/ Crash \/ Restart

\* The process goes on: its reads and writes return, a receipt is waited for until a deadline.
QuoterLiveSpec == Init /\ [][Next]_vars /\ WF_vars(Work)

-----------------------------------------------------------------------------
QuoterTypeOK ==
  /\ {ratified, published, canceled, filled, owned, confirmedCanceled, fresh, targets}
       \subseteq SUBSET Groups
  /\ pool \subseteq [kind : Kinds, groups : SUBSET Groups, ahead : 0 .. MaxPool,
                     ours : BOOLEAN]
  /\ at \in {"idle", "list", "done", "reserve", "forget", "recheck", "admit", "down"}
            \cup Kinds \cup Ended
  /\ job \in Jobs
  /\ receipt \in {"none", "success", "revert"}
  /\ {lossy, amiss, blocked, sent, stopping, buysOff} \subseteq BOOLEAN
  /\ made \in 0 .. MaxPublications /\ faults \in 0 .. MaxFaults

\* A group that can be taken, or will be if a transaction still in the pool lands, is in the
\* ownership file: whatever the executor did not learn, whatever crashed or could not be written,
\* a later cleanup finds it.
LiveIsOwned == \A g \in Groups : Live(g) \/ MayGoLive(g) => g \in owned

\* Two publications of the market can never be taken at once: the old one is cancelled for good
\* before the new one is sent, and one believed lost cannot come back.
OneQuoteAtATime == \A g, h \in Groups : Live(g) /\ Live(h) => g[1] = h[1]

\* When the process ends with its cleanup applied, no group can be taken, then or later.
AppliedCleanupIsFlat == at = "applied" => \A g \in Groups : ~Live(g) /\ ~MayGoLive(g)

\* Once the loss guard has cancelled a market's buys, none can be taken before the guard passes,
\* one whose cap is used up included: what was in flight then, or retried since, cannot bring one.
BuysStayOff == buysOff => \A g \in Buys : ~Live(g) /\ ~MayGoLive(g)

\* A process told to stop ends, unless it dies: every wait has an end and no failure starts over.
StopEnds == stopping ~> ~Running
=============================================================================
