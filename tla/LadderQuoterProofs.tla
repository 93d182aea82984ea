------------------------- MODULE LadderQuoterProofs -------------------------
(***************************************************************************)
(* The safety of LadderQuoter, for any number of publications, any pool    *)
(* and any adversity.                                                      *)
(*                                                                         *)
(* A group is exposed when it can be taken, or will be if a transaction of *)
(* the pool lands.  All that is exposed is owned and of one publication.   *)
(* What keeps it so is what the operation under way has seen to: ExecOK is *)
(* what the executor's transaction may still do, FreshOK that a            *)
(* publication released had no effect, CoverOK that an operation closes    *)
(* all it set out to close.                                                *)
(***************************************************************************)
EXTENDS LadderQuoter, TLAPS

Out(g) ==
  \/ g \in published \cup ratified
  \/ \E tx \in pool : tx.kind \in {"ratify", "publish"} /\ g \in tx.groups
Exposed(g) == ~Closed(g) /\ Out(g)

ExposedOwned == \A g \in Groups : Exposed(g) => g \in owned
OneExposed == \A g, h \in Groups : Exposed(g) /\ Exposed(h) => g[1] = h[1]

\* the transaction that makes a publication takeable
First == IF Setter THEN "ratify" ELSE "publish"
Resting == {"idle", "down"} \cup Ended

JobOK ==
  /\ at \in Resting \cup {"list"} => fresh = {} /\ targets = {} /\ ~amiss
  /\ at \in Resting => job = "quote"
  /\ fresh # {} => job = "quote"
  /\ at = "reserve" => job = "quote"
  /\ at \in {"admit", "ratify", "publish"} => fresh # {}
  /\ at = "ratify" => Setter
  /\ at = "recheck" => job \in {"hardHalt", "cleanup"}
  /\ at = "list" /\ job = "quote" => made < MaxPublications
  /\ buysOff /\ job = "quote" => at \in Resting

ExecOK ==
  /\ sent => at \in Kinds
  /\ receipt # "none" => sent
  /\ \A tx \in pool : tx.ours =>
       sent /\ receipt = "none" /\ tx.kind = at /\ tx.groups = TxGroups(at)
  /\ \A tx, u \in pool : tx.ours /\ u.ours => tx = u
  /\ at = "cancel" /\ receipt = "success" => targets \subseteq canceled
  /\ confirmedCanceled \subseteq canceled

FreshOK ==
  /\ \A g \in Groups : Out(g) \/ g \in owned \/ g \in targets => g[1] <= made
  /\ \A g \in fresh : g[1] = made /\ g \notin targets
  /\ at \in {"cancel", "forget", "admit", "ratify", "publish"} => fresh \subseteq owned
  /\ at \in {"reserve", "cancel", "forget", "admit", First} => \A g \in fresh :
       /\ g \in published \cup ratified => at = First /\ receipt = "success"
       /\ \A tx \in pool : tx.kind # "cancel" /\ g \in tx.groups => tx.ours

CoverOK ==
  /\ at \notin Resting \cup {"list"} /\ (job = "quote" \/ (job = "cleanup" /\ ~amiss)) =>
       \A g \in owned : Closed(g) \/ g \in targets \/ g \in fresh
  /\ at # "list" /\ job = "cancelBuys" => \A g \in owned \cap Buys : Closed(g) \/ g \in targets
  /\ at = "forget" => targets \subseteq canceled
  /\ at \in {"admit", "ratify", "publish", "done"} => \A g \in targets : Closed(g)

QInv ==
  /\ QuoterTypeOK /\ JobOK /\ ExecOK /\ FreshOK /\ CoverOK
  /\ ExposedOwned /\ OneExposed
  /\ at = "applied" => \A g \in Groups : ~Exposed(g)
  /\ buysOff => \A g \in Buys : ~Exposed(g)

-----------------------------------------------------------------------------
(* Types, and what a step that leaves the chain alone does to a group.     *)

Typed ==
  /\ ratified \subseteq Groups /\ published \subseteq Groups /\ canceled \subseteq Groups
  /\ filled \subseteq Groups /\ owned \subseteq Groups /\ confirmedCanceled \subseteq Groups
  /\ fresh \subseteq Groups /\ targets \subseteq Groups
  /\ pool \subseteq [kind : Kinds, groups : SUBSET Groups, ahead : 0 .. MaxPool, ours : BOOLEAN]
  /\ at \in {"idle", "list", "done", "reserve", "forget", "recheck", "admit", "down"}
            \cup Kinds \cup Ended
  /\ job \in Jobs
  /\ receipt \in {"none", "success", "revert"}
  /\ lossy \in BOOLEAN /\ amiss \in BOOLEAN /\ blocked \in BOOLEAN
  /\ sent \in BOOLEAN /\ stopping \in BOOLEAN /\ buysOff \in BOOLEAN
  /\ made \in 0 .. MaxPublications /\ faults \in 0 .. MaxFaults

LEMMA TypedNow == QuoterTypeOK <=> Typed
<1>1. {ratified, published, canceled, filled, owned, confirmedCanceled, fresh, targets}
        \subseteq SUBSET Groups
      <=> /\ ratified \subseteq Groups /\ published \subseteq Groups /\ canceled \subseteq Groups
          /\ filled \subseteq Groups /\ owned \subseteq Groups /\ confirmedCanceled \subseteq Groups
          /\ fresh \subseteq Groups /\ targets \subseteq Groups
  OBVIOUS
<1>2. {lossy, amiss, blocked, sent, stopping, buysOff} \subseteq BOOLEAN
      <=> /\ lossy \in BOOLEAN /\ amiss \in BOOLEAN /\ blocked \in BOOLEAN
          /\ sent \in BOOLEAN /\ stopping \in BOOLEAN /\ buysOff \in BOOLEAN
  BY Zenon
<1> QED
  BY <1>1, <1>2 DEF QuoterTypeOK, Typed

LEMMA TypedNext == QuoterTypeOK' <=> Typed'
BY TypedNow, PTL

LEMMA InvTyped == QInv => Typed
BY TypedNow DEF QInv

LEMMA FaultsTyped == ASSUME Typed, Fine \/ \E kind : Fault(kind) PROVE faults' \in 0 .. MaxFaults
BY QuoterAssumption, SMT DEF Typed, Fine, Fault

Pooled(s) == s \subseteq [kind : Kinds, groups : SUBSET Groups, ahead : 0 .. MaxPool, ours : BOOLEAN]

\* nothing in the pool is the executor's any more, and nothing else about it changes
LEMMA DisownedAlike ==
  ASSUME Typed
  PROVE  /\ Pooled(Disowned) /\ \A tx \in Disowned : ~tx.ours
         /\ \A tx \in pool : \E u \in Disowned : u.kind = tx.kind /\ u.groups = tx.groups
         /\ \A u \in Disowned : \E tx \in pool : u.kind = tx.kind /\ u.groups = tx.groups
<1>1. ASSUME NEW tx \in pool
      PROVE  LET u == [tx EXCEPT !.ours = FALSE]
             IN /\ u \in [kind : Kinds, groups : SUBSET Groups, ahead : 0 .. MaxPool, ours : BOOLEAN]
                /\ ~u.ours /\ u.kind = tx.kind /\ u.groups = tx.groups
  BY DEF Typed
<1> QED
  BY <1>1, Zenon DEF Disowned, Pooled

\* the chain is as it was, and the pool holds what it held
StillOut == UNCHANGED chainVars /\ (pool' = pool \/ pool' = Disowned)

LEMMA SameExposed ==
  ASSUME Typed, StillOut
  PROVE  \A g : /\ Out(g)' <=> Out(g)
                /\ Closed(g)' <=> Closed(g)
                /\ Exposed(g)' <=> Exposed(g)
<1>1. ASSUME NEW g PROVE Out(g)' <=> Out(g)
  BY DisownedAlike DEF StillOut, chainVars, Out
<1>2. ASSUME NEW g PROVE Closed(g)' <=> Closed(g)
  BY DEF StillOut, chainVars, Closed
<1> QED
  BY <1>1, <1>2 DEF Exposed

-----------------------------------------------------------------------------
(* An operation that ends.                                                 *)

Quiet == \A tx \in pool : ~tx.ours
Leaves == (\E j \in Jobs : Begin(j)) \/ (\E how \in Resting : End(how))

\* The next operation starts, or the process rests, with nothing prepared and nothing sent.
LEMMA LeaveInv ==
  ASSUME QInv, Leaves, StillOut, Quiet', sent' = FALSE, receipt' = "none", made' = made,
         confirmedCanceled' \subseteq confirmedCanceled,
         owned' \subseteq owned, \A g \in owned \ owned' : ~Exposed(g),
         blocked' \in BOOLEAN, stopping' \in BOOLEAN, faults' \in 0 .. MaxFaults,
         buysOff' \in BOOLEAN, buysOff' => \A g \in Buys : ~Exposed(g),
         at' = "applied" => \A g \in Groups : ~Exposed(g),
         at' = "list" /\ job' = "quote" => made < MaxPublications /\ ~buysOff'
  PROVE  QInv'
<1> USE DEF StillOut, chainVars
<1>1. Typed /\ JobOK /\ ExecOK /\ FreshOK /\ ExposedOwned /\ OneExposed
  BY InvTyped DEF QInv
<1>2. /\ at' \in Resting \cup {"list"} /\ job' \in Jobs /\ fresh' = {} /\ targets' = {} /\ amiss' = FALSE
      /\ at' \in Resting => job' = "quote"
  BY DEF Leaves, Begin, End, Rest, Jobs, Resting, Ended
<1>3. \A g : (Out(g)' <=> Out(g)) /\ (Closed(g)' <=> Closed(g)) /\ (Exposed(g)' <=> Exposed(g))
  BY <1>1, SameExposed
<1>4. Typed'
  BY <1>1, <1>2, DisownedAlike DEF Typed, Pooled, Resting
<1>5. JobOK'
  BY <1>2 DEF JobOK, Resting, Ended
<1>6. ExecOK'
  BY <1>1 DEF ExecOK, Quiet
<1>7. FreshOK'
  BY <1>1, <1>2, <1>3 DEF FreshOK, Resting, Ended, First
<1>8. CoverOK'
  BY <1>2 DEF CoverOK, Resting, Ended, Jobs
<1>9. ExposedOwned' /\ OneExposed'
  BY <1>1, <1>3 DEF ExposedOwned, OneExposed
<1> QED
  BY <1>3, <1>4, <1>5, <1>6, <1>7, <1>8, <1>9, TypedNext DEF QInv
\* A failure leaves, unless it is the last one's.
LEMMA FailsLeaves ==
  ASSUME Typed, Fails
  PROVE  /\ Leaves /\ buysOff' = buysOff /\ at' # "applied"
         /\ at' = "list" => job' # "quote"
BY DEF Typed, Fails, Leaves, Rest, Begin, End, Jobs, Resting, Ended

LEMMA FailInv ==
  ASSUME QInv, Fails, StillOut, Quiet', sent' = FALSE, receipt' = "none", made' = made,
         UNCHANGED <<confirmedCanceled, stopping>>,
         owned' \subseteq owned, \A g \in owned \ owned' : ~Exposed(g),
         blocked' \in BOOLEAN, faults' \in 0 .. MaxFaults
  PROVE  QInv'
<1>1. Typed /\ buysOff \in BOOLEAN /\ stopping \in BOOLEAN
  BY InvTyped DEF Typed
<1>2. buysOff => \A g \in Buys : ~Exposed(g)
  BY DEF QInv
<1>3. Leaves /\ buysOff' = buysOff /\ at' # "applied" /\ (at' = "list" => job' # "quote")
  BY <1>1, FailsLeaves
<1>4. buysOff' \in BOOLEAN /\ stopping' \in BOOLEAN /\ confirmedCanceled' \subseteq confirmedCanceled
  BY <1>1, <1>3
<1> QED
  BY <1>2, <1>3, <1>4, LeaveInv

\* What is owned covers what is exposed: an operation that closed all it covers leaves none.
LEMMA CleanedUp ==
  ASSUME QInv, job = "cleanup", \A g \in owned : Closed(g) PROVE \A g \in Groups : ~Exposed(g)
BY DEF QInv, ExposedOwned, Exposed

LEMMA BuysCanceled ==
  ASSUME QInv, \A g \in owned \cap Buys : Closed(g) PROVE \A g \in Buys : ~Exposed(g)
<1>1. Buys \subseteq Groups
  BY DEF Buys, Groups
<1> QED
  BY <1>1 DEF QInv, ExposedOwned, Exposed

LEMMA SucceedInv ==
  ASSUME QInv, Succeeds, StillOut, Quiet', sent' = FALSE, receipt' = "none", made' = made,
         UNCHANGED <<confirmedCanceled, stopping>>,
         owned' \subseteq owned, \A g \in owned \ owned' : ~Exposed(g),
         blocked' \in BOOLEAN, faults' \in 0 .. MaxFaults,
         job = "cleanup" => \A g \in owned : Closed(g),
         job = "cancelBuys" => \A g \in owned \cap Buys : Closed(g)
  PROVE  QInv'
<1>1. Typed /\ buysOff \in BOOLEAN /\ stopping \in BOOLEAN
  BY InvTyped DEF Typed
<1>2. /\ Leaves
      /\ at' = "applied" => job = "cleanup"
      /\ at' = "list" => job' # "quote"
  BY <1>1 DEF Typed, Succeeds, Leaves, Rest, Begin, End, Jobs, Resting, Ended
<1>3. buysOff' = (buysOff \/ job = "cancelBuys")
  BY DEF Succeeds
<1>4. buysOff' \in BOOLEAN /\ (buysOff' => \A g \in Buys : ~Exposed(g))
  BY <1>1, <1>3, BuysCanceled DEF QInv
<1>5. at' = "applied" => \A g \in Groups : ~Exposed(g)
  BY <1>2, CleanedUp
<1> QED
  BY <1>1, <1>2, <1>4, <1>5, LeaveInv

\* the executor has no transaction of its own out
Unsent == ~sent /\ UNCHANGED txVars
LEMMA UnsentQuiet ==
  ASSUME QInv, Unsent
  PROVE  /\ Quiet' /\ sent' = FALSE /\ receipt' = "none" /\ blocked' \in BOOLEAN /\ pool' = pool
<1>1. Typed /\ ExecOK
  BY InvTyped DEF QInv
<1> QED
  BY <1>1 DEF Unsent, txVars, ExecOK, Quiet, Typed

\* The steps between two sends find none out.
LEMMA NotAKind ==
  ASSUME QInv, at \notin Kinds PROVE sent = FALSE
BY InvTyped DEF QInv, ExecOK, Typed

LEMMA LendHaltedInv == ASSUME QInv, LendHalted PROVE QInv'
<1> USE DEF LendHalted, memoryVars, txVars
<1>1. Typed /\ faults' \in 0 .. MaxFaults /\ sent = FALSE
  BY InvTyped, FaultsTyped, NotAKind DEF Kinds
<1>2. Leaves /\ at' = "list" /\ job' # "quote"
  BY DEF Leaves, Begin, Jobs
<1>3. Unsent /\ StillOut /\ stopping' \in BOOLEAN /\ buysOff' \in BOOLEAN /\ buysOff' = buysOff
  BY <1>1 DEF Typed, Unsent, StillOut
<1>4. buysOff => \A g \in Buys : ~Exposed(g)
  BY DEF QInv
<1> QED
  BY <1>1, <1>2, <1>3, <1>4, UnsentQuiet, LeaveInv

LEMMA DecideInv == ASSUME QInv, Decide PROVE QInv'
<1> USE DEF Decide, txVars
<1>1. Typed /\ faults' \in 0 .. MaxFaults /\ sent = FALSE
  BY InvTyped, FaultsTyped, NotAKind DEF Kinds
<1>2. Leaves /\ at' # "applied" /\ (at' = "list" /\ job' = "quote" => made < MaxPublications)
  BY DEF Leaves, Rest, End, Begin, Jobs, Resting
<1>3. Unsent /\ StillOut /\ stopping' \in BOOLEAN /\ buysOff' = FALSE
  BY <1>1 DEF Typed, Unsent, StillOut
<1> QED
  BY <1>1, <1>2, <1>3, UnsentQuiet, LeaveInv

LEMMA StopCyclesInv == ASSUME QInv, StopCycles PROVE QInv'
<1> USE DEF StopCycles, memoryVars, txVars
<1>1. Typed /\ faults' \in 0 .. MaxFaults /\ sent = FALSE
  BY InvTyped, FaultsTyped, NotAKind DEF Kinds
<1>2. Leaves /\ at' = "list" /\ job' # "quote"
  BY DEF Leaves, Begin, Jobs
<1>3. Unsent /\ StillOut /\ stopping' \in BOOLEAN /\ buysOff' \in BOOLEAN /\ buysOff' = buysOff
  BY <1>1 DEF Typed, Unsent, StillOut
<1>4. buysOff => \A g \in Buys : ~Exposed(g)
  BY DEF QInv
<1> QED
  BY <1>1, <1>2, <1>3, <1>4, UnsentQuiet, LeaveInv

LEMMA ListFailsInv == ASSUME QInv, ListFails PROVE QInv'
<1> USE DEF ListFails, txVars
<1>1. Typed /\ faults' \in 0 .. MaxFaults /\ sent = FALSE
  BY InvTyped, FaultsTyped, NotAKind DEF Kinds
<1>2. Unsent /\ StillOut
  BY <1>1 DEF Unsent, StillOut
<1> QED
  BY <1>1, <1>2, UnsentQuiet, FailInv

\* The operation is through: all it set out to close is closed.
LEMMA DoneInv == ASSUME QInv, Done PROVE QInv'
<1> USE DEF Done, txVars
<1>1. Typed /\ faults' \in 0 .. MaxFaults /\ sent = FALSE
  BY InvTyped, FaultsTyped, NotAKind DEF Kinds
<1>2. Unsent /\ StillOut
  BY <1>1 DEF Unsent, StillOut
<1>3. /\ job = "cleanup" /\ ~amiss => \A g \in owned : Closed(g)
      /\ job = "cancelBuys" => \A g \in owned \cap Buys : Closed(g)
  BY DEF QInv, CoverOK, JobOK, Resting, Ended
<1> QED
  BY <1>1, <1>2, <1>3, UnsentQuiet, FailInv, SucceedInv DEF Concludes

-----------------------------------------------------------------------------
(* Deaths and starts.                                                      *)

LEMMA CrashInv == ASSUME QInv, Crash PROVE QInv'
<1> USE DEF Crash
<1>1. Typed /\ faults' \in 0 .. MaxFaults
  BY InvTyped, FaultsTyped
<1>2. Leaves /\ at' = "down"
  BY DEF Leaves, End, Resting
<1>3. StillOut /\ Quiet' /\ buysOff' \in BOOLEAN
  BY <1>1, DisownedAlike DEF StillOut, Quiet, Typed
<1>4. buysOff => \A g \in Buys : ~Exposed(g)
  BY DEF QInv
<1> QED
  BY <1>1, <1>2, <1>3, <1>4, LeaveInv

LEMMA RestartInv == ASSUME QInv, Restart PROVE QInv'
<1> USE DEF Restart
<1>1. Typed /\ faults' \in 0 .. MaxFaults /\ sent = FALSE
  BY InvTyped, FaultsTyped, NotAKind DEF Kinds
<1>2. Leaves /\ at' # "applied" /\ (at' = "list" => job' # "quote")
  BY DEF Leaves, Rest, End, Begin, Jobs, Resting
<1>3. StillOut /\ Quiet' /\ buysOff' \in BOOLEAN /\ receipt = "none"
  BY <1>1 DEF StillOut, Quiet, Typed, QInv, ExecOK
<1>4. buysOff => \A g \in Buys : ~Exposed(g)
  BY DEF QInv
<1> QED
  BY <1>1, <1>2, <1>3, <1>4, LeaveInv

-----------------------------------------------------------------------------
(* The operation under way, and how it fails.                              *)

\* what the process holds of its operation is as it was
LEMMA RestTyped ==
  ASSUME Typed, UNCHANGED <<confirmedCanceled, made, stopping>>, Stays
  PROVE  /\ confirmedCanceled' \subseteq Groups /\ made' \in 0 .. MaxPublications
         /\ stopping' \in BOOLEAN /\ buysOff' \in BOOLEAN /\ amiss' \in BOOLEAN
         /\ job' \in Jobs /\ fresh' \subseteq Groups /\ targets' \subseteq Groups
BY DEF Typed, Stays

\* A publication that was not sent, or whose transaction reverted, had no effect and never will.
LEMMA FreshNotOut ==
  ASSUME QInv, NEW g \in fresh,
         \/ at \in {"reserve", "cancel", "forget", "admit"}
         \/ at = First /\ (~sent \/ receipt = "revert")
  PROVE  ~Out(g)
<1>1. Typed /\ ExecOK /\ FreshOK
  BY InvTyped DEF QInv
<1>2. g \notin published \cup ratified
  BY <1>1 DEF FreshOK, ExecOK, First, Kinds
<1>3. ASSUME NEW tx \in pool, tx.kind \in {"ratify", "publish"}, g \in tx.groups PROVE FALSE
  <2>1. tx.ours
    BY <1>1, <1>3 DEF FreshOK
  <2> QED
    BY <1>1, <1>3, <2>1 DEF ExecOK, Kinds
<1> QED
  BY <1>2, <1>3 DEF Out

\* A batch that failed or could not be forgotten is looked at group by group.
LEMMA ToRecheckInv ==
  ASSUME QInv, at \in {"cancel", "forget"}, job \in {"hardHalt", "cleanup"},
         at' = "recheck", Stays, UNCHANGED owned, StillOut, Quiet', sent' = FALSE, receipt' = "none",
         UNCHANGED <<confirmedCanceled, stopping, made>>, blocked' \in BOOLEAN,
         faults' \in 0 .. MaxFaults
  PROVE  QInv'
<1> USE DEF Stays, StillOut, chainVars
<1>1. Typed /\ JobOK /\ ExecOK /\ FreshOK /\ CoverOK /\ ExposedOwned /\ OneExposed
  BY InvTyped DEF QInv
<1>2. \A g : (Out(g)' <=> Out(g)) /\ (Closed(g)' <=> Closed(g)) /\ (Exposed(g)' <=> Exposed(g))
  BY <1>1, SameExposed
<1>3. Typed'
  BY <1>1, DisownedAlike DEF Typed, Pooled
<1>4. JobOK' /\ fresh = {}
  BY <1>1 DEF JobOK, Resting, Ended
<1>5. ExecOK'
  BY <1>1 DEF ExecOK, Quiet
<1>6. FreshOK'
  BY <1>1, <1>2, <1>4 DEF FreshOK, First
<1>7. CoverOK'
  BY <1>1, <1>2 DEF CoverOK, Resting, Ended
<1>8. ExposedOwned' /\ OneExposed'
  BY <1>1, <1>2 DEF ExposedOwned, OneExposed
<1>9. buysOff => \A g \in Buys : ~Exposed(g)
  BY DEF QInv
<1> QED
  BY <1>2, <1>3, <1>4, <1>5, <1>6, <1>7, <1>8, <1>9, TypedNext DEF QInv

LEMMA OnFailureInv ==
  ASSUME QInv, NEW kind \in Kinds, at = kind, NEW how, OnFailure(kind, how), StillOut, Quiet',
         sent' = FALSE, receipt' = "none", UNCHANGED <<confirmedCanceled, stopping, made>>,
         blocked' \in BOOLEAN, faults' \in 0 .. MaxFaults,
         Releases(kind, how) => kind = "cancel" \/ ~sent \/ receipt = "revert"
  PROVE  QInv'
<1>1. CASE kind = "cancel" /\ job \in {"hardHalt", "cleanup"}
  BY <1>1, ToRecheckInv DEF OnFailure
<1>2. CASE ~(kind = "cancel" /\ job \in {"hardHalt", "cleanup"})
  <2>1. Fails /\ (owned' = owned \/ (owned' = owned \ fresh /\ (kind = "cancel" \/ Releases(kind, how))))
    BY <1>2 DEF OnFailure, ReleasePublication
  <2>2. Releases(kind, how) /\ kind # "cancel" => kind = First
    BY DEF Releases, Kinds, QInv, JobOK, First
  <2>3. \A g \in owned \ owned' : ~Exposed(g)
    BY <2>1, <2>2, FreshNotOut DEF Exposed
  <2> QED
    BY <2>1, <2>3, FailInv
<1> QED
  BY <1>1, <1>2

LEMMA RefuseInv == ASSUME QInv, Refuse PROVE QInv'
<1> USE DEF Refuse
<1>1. Typed /\ faults' \in 0 .. MaxFaults
  BY InvTyped, FaultsTyped
<1>2. Unsent /\ StillOut
  BY DEF Unsent, StillOut, txVars
<1> QED
  BY <1>1, <1>2, UnsentQuiet, OnFailureInv

\* A settlement, of whatever kind, leaves nothing of the executor's in the pool.
LEMMA SettlesQuiet ==
  ASSUME QInv, NEW kind, NEW what, Settles(kind, what), UNCHANGED chainVars
  PROVE  StillOut /\ Quiet' /\ sent' = FALSE /\ receipt' = "none" /\ blocked' \in BOOLEAN
BY InvTyped, DisownedAlike DEF Settles, StillOut, Quiet

LEMMA RevertedInv == ASSUME QInv, Reverted PROVE QInv'
<1> USE DEF Reverted
<1>1. Typed /\ faults' \in 0 .. MaxFaults
  BY InvTyped, FaultsTyped
<1>2. PICK kind \in Kinds : Settles(kind, "revert") /\ OnFailure(kind, "reverted")
  OBVIOUS
<1>3. at = kind /\ receipt = "revert"
  BY <1>2 DEF Settles, Waits
<1> QED
  BY <1>1, <1>2, <1>3, SettlesQuiet, OnFailureInv

LEMMA DroppedInv == ASSUME QInv, Dropped PROVE QInv'
<1> USE DEF Dropped
<1>1. Typed /\ faults' \in 0 .. MaxFaults
  BY InvTyped, FaultsTyped
<1>2. PICK kind \in Kinds : Settles(kind, "none") /\ OnFailure(kind, "dropped")
  OBVIOUS
<1>3. at = kind /\ ~Releases(kind, "dropped")
  BY <1>2 DEF Settles, Waits, Releases
<1> QED
  BY <1>1, <1>2, <1>3, SettlesQuiet, OnFailureInv

LEMMA TimesOutInv == ASSUME QInv, TimesOut PROVE QInv'
<1> USE DEF TimesOut
<1>1. Typed /\ faults' \in 0 .. MaxFaults
  BY InvTyped, FaultsTyped
<1>2. PICK kind \in Kinds : Waits(kind) /\ OnFailure(kind, "pending")
  OBVIOUS
<1>3. at = kind /\ ~Releases(kind, "pending")
  BY <1>2 DEF Waits, Releases
<1>4. StillOut /\ Quiet' /\ blocked' \in BOOLEAN
  BY <1>1, DisownedAlike DEF StillOut, Quiet, Typed
<1> QED
  BY <1>1, <1>2, <1>3, <1>4, OnFailureInv

LEMMA PublishConfirmedInv == ASSUME QInv, PublishConfirmed PROVE QInv'
<1> USE DEF PublishConfirmed
<1>1. Typed /\ faults' \in 0 .. MaxFaults
  BY InvTyped, FaultsTyped
<1>2. job = "quote"
  BY DEF Settles, Waits, QInv, JobOK
<1>3. StillOut /\ Quiet' /\ sent' = FALSE /\ receipt' = "none" /\ blocked' \in BOOLEAN
  BY SettlesQuiet
<1> QED
  BY <1>1, <1>2, <1>3, SucceedInv

\* What closed all the same is forgotten; the operation is through if all of it did.
LEMMA RecheckInv == ASSUME QInv, Recheck PROVE QInv'
<1> USE DEF Recheck
<1>1. Typed /\ faults' \in 0 .. MaxFaults
  BY InvTyped, FaultsTyped
<1>2. Unsent /\ StillOut /\ job \in {"hardHalt", "cleanup"} /\ fresh = {}
  BY NotAKind DEF Kinds, Unsent, StillOut, txVars, QInv, JobOK
<1>3. PICK gone \in SUBSET {g \in targets : Closed(g)} :
        owned' = owned \ gone /\ IF gone = targets THEN Concludes ELSE Fails
  OBVIOUS
<1>4. owned' \subseteq owned /\ \A g \in owned \ owned' : ~Exposed(g)
  BY <1>3 DEF Exposed
<1>5. gone = targets /\ job = "cleanup" /\ ~amiss => \A g \in owned : Closed(g)
  BY <1>2, <1>3 DEF QInv, CoverOK, Resting, Ended
<1>6. CASE Fails
  BY <1>1, <1>2, <1>4, <1>6, UnsentQuiet, FailInv
<1>7. CASE gone = targets /\ ~amiss /\ Succeeds
  BY <1>1, <1>2, <1>4, <1>5, <1>7, UnsentQuiet, SucceedInv
<1> QED
  BY <1>3, <1>6, <1>7 DEF Concludes

-----------------------------------------------------------------------------
(* The operation under way, and how it goes on.                            *)

\* Nothing becomes exposed, and what is stays owned.
LEMMA KeepInv ==
  ASSUME QInv, StillOut, Typed', JobOK', ExecOK', FreshOK', CoverOK', at' # "applied",
         \A g \in owned \ owned' : ~Exposed(g), buysOff' => buysOff
  PROVE  QInv'
<1>1. Typed /\ ExposedOwned /\ OneExposed /\ (buysOff => \A g \in Buys : ~Exposed(g))
  BY InvTyped DEF QInv
<1>2. \A g : Exposed(g)' <=> Exposed(g)
  BY <1>1, SameExposed
<1>3. ExposedOwned' /\ OneExposed' /\ (buysOff' => \A g \in Buys : ~Exposed(g)')
  BY <1>1, <1>2 DEF ExposedOwned, OneExposed
<1> QED
  BY <1>3, TypedNext DEF QInv

\* the approval landed: its publication may be taken as soon as it is sent
LEMMA RatifyConfirmedInv == ASSUME QInv, RatifyConfirmed PROVE QInv'
<1> USE DEF RatifyConfirmed
<1>1. Typed /\ JobOK /\ ExecOK /\ FreshOK /\ CoverOK /\ faults' \in 0 .. MaxFaults
  BY InvTyped, FaultsTyped DEF QInv
<1>2. StillOut /\ Quiet' /\ sent' = FALSE /\ receipt' = "none" /\ blocked' \in BOOLEAN
  BY SettlesQuiet
<1>3. CASE Fails
  BY <1>1, <1>2, <1>3, FailInv
<1>4. CASE at' = "publish" /\ Stays
  <2>1. at = "ratify" /\ Setter /\ First = "ratify"
    BY <1>1 DEF Settles, Waits, JobOK, First
  <2>2. \A g : (Out(g)' <=> Out(g)) /\ (Closed(g)' <=> Closed(g))
    BY <1>1, <1>2, SameExposed
  <2>3. Typed'
    BY <1>1, <1>2, <1>4, DisownedAlike, RestTyped DEF StillOut, chainVars, Typed, Pooled, Kinds
  <2>4. JobOK' /\ ExecOK'
    BY <1>1, <1>2, <1>4, <2>1 DEF JobOK, ExecOK, Quiet, Stays, Resting, Ended, chainVars
  <2>5. FreshOK'
    BY <1>1, <1>4, <2>1, <2>2 DEF FreshOK, Stays, First
  <2>6. CoverOK'
    BY <1>1, <1>4, <2>1, <2>2 DEF CoverOK, Stays, Resting, Ended
  <2> QED
    BY <1>2, <1>4, <2>3, <2>4, <2>5, <2>6, KeepInv DEF Stays
<1> QED
  BY <1>3, <1>4

LEMMA CancelConfirmedInv == ASSUME QInv, CancelConfirmed PROVE QInv'
<1> USE DEF CancelConfirmed, workVars
<1>1. Typed /\ JobOK /\ ExecOK /\ FreshOK /\ CoverOK /\ faults' \in 0 .. MaxFaults
  BY InvTyped, FaultsTyped DEF QInv
<1>2. StillOut /\ Quiet' /\ sent' = FALSE /\ receipt' = "none" /\ blocked' \in BOOLEAN
  BY SettlesQuiet
<1>3. at = "cancel" /\ receipt = "success" /\ targets \subseteq canceled
  BY <1>1 DEF Settles, Waits, ExecOK
<1>4. \A g : (Out(g)' <=> Out(g)) /\ (Closed(g)' <=> Closed(g))
  BY <1>1, <1>2, SameExposed
<1>5. Typed'
  BY <1>1, <1>2, DisownedAlike DEF StillOut, chainVars, Typed, Pooled
<1>6. JobOK' /\ ExecOK'
  BY <1>1, <1>2, <1>3 DEF JobOK, ExecOK, Quiet, Resting, Ended, chainVars
<1>7. FreshOK'
  <2>1. \A g \in fresh : g \notin published \cup ratified
    BY <1>1, <1>3 DEF FreshOK, First
  <2>2. \A g \in fresh, tx \in pool : tx.kind # "cancel" => g \notin tx.groups
    BY <1>1, <1>3 DEF FreshOK, ExecOK
  <2>3. \A g \in fresh, tx \in pool' : tx.kind # "cancel" => g \notin tx.groups
    BY <1>1, <1>2, <2>2, DisownedAlike DEF StillOut
  <2>4. \A g \in Groups : Out(g)' \/ g \in owned \/ g \in targets => g[1] <= made
    BY <1>1, <1>4 DEF FreshOK
  <2>5. fresh \subseteq owned /\ \A g \in fresh : g[1] = made /\ g \notin targets
    BY <1>1, <1>3 DEF FreshOK
  <2> QED
    BY <2>1, <2>3, <2>4, <2>5 DEF FreshOK, chainVars
<1>8. CoverOK'
  BY <1>1, <1>3, <1>4 DEF CoverOK, Resting, Ended, chainVars
<1> QED
  BY <1>2, <1>5, <1>6, <1>7, <1>8, KeepInv

\* What was cancelled is forgotten: none of it is exposed.
LEMMA ForgetCanceledInv == ASSUME QInv, ForgetCanceled PROVE QInv'
<1> USE DEF ForgetCanceled, txVars
<1>1. Typed /\ JobOK /\ ExecOK /\ FreshOK /\ CoverOK /\ faults' \in 0 .. MaxFaults /\ sent = FALSE
  BY InvTyped, FaultsTyped, NotAKind DEF QInv, Kinds
<1>2. Unsent /\ StillOut
  BY <1>1 DEF Unsent, StillOut
<1>3. targets \subseteq canceled /\ \A g \in targets : Closed(g) /\ ~Exposed(g)
  BY <1>1 DEF CoverOK, Exposed, Closed
<1>4. \A g : (Out(g)' <=> Out(g)) /\ (Closed(g)' <=> Closed(g))
  BY <1>1, <1>2, SameExposed
<1>5. CASE owned' = owned \ targets /\ at' = AfterCancel(fresh) /\ Stays
  <2>1. at' \in {"done", "admit"} /\ (at' = "admit" => fresh # {})
    BY <1>5 DEF AfterCancel
  <2>2. Typed'
    BY <1>1, <1>2, <1>5, <2>1, RestTyped DEF StillOut, chainVars, Typed
  <2>3. JobOK' /\ ExecOK'
    BY <1>1, <1>5, <2>1 DEF JobOK, ExecOK, Stays, Resting, Ended, chainVars, Kinds
  <2>4. FreshOK'
    <3>1. \A g \in Groups : Out(g)' \/ g \in owned' \/ g \in targets => g[1] <= made
      BY <1>1, <1>4, <1>5 DEF FreshOK
    <3>2. fresh \subseteq owned' /\ \A g \in fresh : g[1] = made /\ g \notin targets
      BY <1>1, <1>5 DEF FreshOK
    <3>3. \A g \in fresh : /\ g \notin published \cup ratified
                           /\ \A tx \in pool : tx.kind # "cancel" /\ g \in tx.groups => tx.ours
      BY <1>1 DEF FreshOK, First
    <3> QED
      BY <1>5, <3>1, <3>2, <3>3 DEF FreshOK, Stays, chainVars
  <2>5. CoverOK'
    BY <1>1, <1>3, <1>4, <1>5, <2>1 DEF CoverOK, Stays, Resting, Ended
  <2> QED
    BY <1>2, <1>3, <1>5, <2>1, <2>2, <2>3, <2>4, <2>5, KeepInv DEF Stays
<1>6. CASE UNCHANGED owned /\ job \in {"hardHalt", "cleanup"} /\ at' = "recheck" /\ Stays
  BY <1>1, <1>2, <1>6, UnsentQuiet, ToRecheckInv
<1>7. CASE /\ job \notin {"hardHalt", "cleanup"} /\ owned' \in {owned, owned \ fresh}
           /\ IF job = "cancelBuys" THEN Rest /\ UNCHANGED buysOff ELSE Fails
  <2>1. owned' \subseteq owned /\ \A g \in owned \ owned' : ~Exposed(g)
    BY <1>7, FreshNotOut DEF Exposed
  <2>2. CASE Fails
    BY <1>1, <1>2, <2>1, <2>2, UnsentQuiet, FailInv
  <2>3. CASE Rest /\ UNCHANGED buysOff
    <3>1. Leaves /\ at' = "idle" /\ stopping' \in BOOLEAN /\ buysOff' \in BOOLEAN
      BY <1>1, <2>3 DEF Leaves, Rest, End, Resting, Typed
    <3>2. buysOff => \A g \in Buys : ~Exposed(g)
      BY DEF QInv
    <3> QED
      BY <1>1, <1>2, <2>1, <2>3, <3>1, <3>2, UnsentQuiet, LeaveInv
  <2> QED
    BY <1>7, <2>2, <2>3
<1> QED
  BY <1>5, <1>6, <1>7

LEMMA AdmitInv == ASSUME QInv, Admit PROVE QInv'
<1> USE DEF Admit, txVars
<1>1. Typed /\ JobOK /\ ExecOK /\ FreshOK /\ CoverOK /\ faults' \in 0 .. MaxFaults /\ sent = FALSE
  BY InvTyped, FaultsTyped, NotAKind DEF QInv, Kinds
<1>2. Unsent /\ StillOut
  BY <1>1 DEF Unsent, StillOut
<1>3. \A g : (Out(g)' <=> Out(g)) /\ (Closed(g)' <=> Closed(g))
  BY <1>1, <1>2, SameExposed
<1>4. CASE at' = First /\ UNCHANGED owned /\ Stays
  <2>1. Typed'
    BY <1>1, <1>2, <1>4, RestTyped DEF StillOut, chainVars, Typed, First, Kinds
  <2>2. JobOK' /\ ExecOK'
    BY <1>1, <1>4 DEF JobOK, ExecOK, Stays, Resting, Ended, chainVars, Kinds, First
  <2>3. FreshOK'
    <3>1. \A g \in fresh : /\ g \notin published \cup ratified
                           /\ \A tx \in pool : tx.kind # "cancel" /\ g \in tx.groups => tx.ours
      BY <1>1 DEF FreshOK, First
    <3> QED
      BY <1>1, <1>3, <1>4, <3>1 DEF FreshOK, Stays, chainVars
  <2>4. CoverOK'
    BY <1>1, <1>3, <1>4 DEF CoverOK, Stays, Resting, Ended, First
  <2> QED
    BY <1>2, <1>4, <2>1, <2>2, <2>3, <2>4, KeepInv DEF Stays, First
<1>5. CASE ReleasePublication /\ Rest /\ UNCHANGED buysOff
  <2>1. Leaves /\ at' = "idle" /\ stopping' \in BOOLEAN /\ buysOff' \in BOOLEAN
    BY <1>1, <1>5 DEF Leaves, Rest, End, Resting, Typed
  <2>2. owned' \subseteq owned /\ \A g \in owned \ owned' : ~Exposed(g)
    BY <1>5, FreshNotOut DEF Exposed, ReleasePublication
  <2>3. buysOff => \A g \in Buys : ~Exposed(g)
    BY DEF QInv
  <2> QED
    BY <1>1, <1>2, <1>5, <2>1, <2>2, <2>3, UnsentQuiet, LeaveInv
<1> QED
  BY <1>4, <1>5 DEF First

LEMMA ReserveInv == ASSUME QInv, Reserve PROVE QInv'
<1> USE DEF Reserve, txVars
<1>1. Typed /\ JobOK /\ ExecOK /\ FreshOK /\ CoverOK /\ faults' \in 0 .. MaxFaults /\ sent = FALSE
  BY InvTyped, FaultsTyped, NotAKind DEF QInv, Kinds
<1>2. Unsent /\ StillOut
  BY <1>1 DEF Unsent, StillOut
<1>3. \A g : (Out(g)' <=> Out(g)) /\ (Closed(g)' <=> Closed(g))
  BY <1>1, <1>2, SameExposed
<1>4. CASE /\ owned' = owned \cup fresh /\ Stays
           /\ at' = IF targets = {} THEN AfterCancel(fresh) ELSE "cancel"
  <2>1. /\ at' \in {"done", "admit", "cancel"} /\ job = "quote"
        /\ at' = "admit" => fresh # {}
        /\ at' # "cancel" => targets = {}
    BY <1>1, <1>4 DEF AfterCancel, JobOK
  <2>2. Typed'
    BY <1>1, <1>2, <1>4, <2>1, RestTyped DEF StillOut, chainVars, Typed, Kinds
  <2>3. JobOK' /\ ExecOK'
    BY <1>1, <1>4, <2>1 DEF JobOK, ExecOK, Stays, Resting, Ended, chainVars, Kinds
  <2>4. FreshOK'
    <3>1. \A g \in fresh : /\ g \notin published \cup ratified /\ g[1] = made /\ g \notin targets
                           /\ \A tx \in pool : tx.kind # "cancel" /\ g \in tx.groups => tx.ours
      BY <1>1 DEF FreshOK, First
    <3>2. made <= made
      BY <1>1, QuoterAssumption, SMT DEF Typed
    <3>3. \A g \in Groups : Out(g)' \/ g \in owned' \/ g \in targets => g[1] <= made
      BY <1>1, <1>3, <1>4, <3>1, <3>2 DEF FreshOK
    <3> QED
      BY <1>4, <3>1, <3>3 DEF FreshOK, Stays, chainVars
  <2>5. CoverOK'
    BY <1>1, <1>3, <1>4, <2>1 DEF CoverOK, Stays, Resting, Ended
  <2> QED
    BY <1>2, <1>4, <2>1, <2>2, <2>3, <2>4, <2>5, KeepInv DEF Stays
<1>5. CASE UNCHANGED owned /\ Fails
  BY <1>1, <1>2, <1>5, UnsentQuiet, FailInv
<1> QED
  BY <1>4, <1>5 DEF Reserved

-----------------------------------------------------------------------------
(* What an operation sets out to cancel.                                   *)

\* The publication prepared is a new one: nothing owned, sent or cancelled has its number.
LEMMA ListActiveInv == ASSUME QInv, ListActive PROVE QInv'
<1> USE DEF ListActive, txVars
<1>1. Typed /\ JobOK /\ ExecOK /\ FreshOK /\ CoverOK /\ faults' \in 0 .. MaxFaults /\ sent = FALSE
  BY InvTyped, FaultsTyped, NotAKind DEF QInv, Kinds
<1>2. StillOut /\ at = "list" /\ job \in {"quote", "withdraw", "readFailed"} /\ fresh = {} /\ ~amiss
  BY <1>1 DEF StillOut, JobOK
<1>3. \A g : (Out(g)' <=> Out(g)) /\ (Closed(g)' <=> Closed(g))
  BY <1>1, <1>2, SameExposed
<1>4. PICK shown \in SUBSET ClosedOwned : targets' = ActiveGroupIds(shown) \ confirmedCanceled
  OBVIOUS
<1>5. targets' \subseteq owned /\ targets' \subseteq Groups
      /\ \A g \in owned : Closed(g) \/ g \in targets'
  BY <1>1, <1>4 DEF ActiveGroupIds, ClosedOwned, Typed, ExecOK, Closed
<1>6. CASE job = "quote"
  <2>1. PICK sides \in Quotes : fresh' = {made + 1} \X sides
    BY <1>6
  <2>2. made' = made + 1 /\ at' = "reserve"
    BY <1>6
  <2>3. made \in Nat /\ made + 1 \in 0 .. MaxPublications /\ made + 1 \in 1 .. MaxPublications
    BY <1>1, <1>2, <1>6, QuoterAssumption, SMT DEF JobOK, Typed
  <2>4. sides \subseteq {"buy", "sell"}
    BY QuoterAssumption
  <2>5. fresh' \subseteq Groups /\ \A g \in fresh' : g[1] = made + 1
    BY <2>1, <2>3, <2>4 DEF Groups
  <2>6. Typed'
    BY <1>1, <1>2, <1>5, <2>2, <2>3, <2>5 DEF StillOut, chainVars, Typed
  <2>7. JobOK' /\ ExecOK'
    BY <1>1, <1>2, <1>6, <2>2 DEF JobOK, ExecOK, Resting, Ended, chainVars, Kinds
  <2>8. \A g \in Groups : Out(g) \/ g \in owned => g[1] <= made
    BY <1>1 DEF FreshOK
  <2>9. \A g \in Groups : g[1] \in Nat
    BY QuoterAssumption, SMT DEF Groups
  <2>10. ASSUME NEW g \in fresh' PROVE ~Out(g) /\ g \notin owned
    <3>1. ~(made + 1 <= made)
      BY <2>3, SMT
    <3> QED
      BY <2>5, <2>8, <3>1
  <2>11. \A g \in Groups : Out(g)' \/ g \in owned \/ g \in targets' => g[1] <= made'
    <3>1. \A n \in Nat : n <= made => n <= made + 1
      BY <2>3, SMT
    <3> QED
      BY <1>3, <1>5, <2>2, <2>8, <2>9, <3>1
  <2>12. FreshOK'
    <3>1. \A tx \in pool : tx.kind # "cancel" => tx.kind \in {"ratify", "publish"}
      BY <1>1 DEF Typed, Kinds
    <3>2. \A g \in fresh' : /\ g \notin published \cup ratified
                            /\ \A tx \in pool : tx.kind # "cancel" => g \notin tx.groups
      BY <2>10, <3>1 DEF Out
    <3> QED
      BY <1>5, <2>2, <2>5, <2>10, <2>11, <3>2 DEF FreshOK, chainVars
  <2>13. CoverOK'
    BY <1>2, <1>3, <1>5, <1>6, <2>2 DEF CoverOK, Resting, Ended
  <2> QED
    BY <1>2, <2>2, <2>6, <2>7, <2>12, <2>13, KeepInv
<1>7. CASE job # "quote"
  <2>1. at' \in {"done", "cancel"} /\ (at' = "done" => targets' = {}) /\ UNCHANGED <<made, fresh>>
    BY <1>7
  <2>2. Typed'
    BY <1>1, <1>2, <1>5, <2>1 DEF StillOut, chainVars, Typed, Kinds
  <2>3. JobOK' /\ ExecOK'
    BY <1>1, <1>2, <1>7, <2>1 DEF JobOK, ExecOK, Resting, Ended, chainVars, Kinds
  <2>4. FreshOK' /\ CoverOK'
    BY <1>1, <1>2, <1>3, <1>5, <1>7, <2>1 DEF FreshOK, CoverOK, Resting, Ended
  <2> QED
    BY <1>2, <2>1, <2>2, <2>3, <2>4, KeepInv
<1> QED
  BY <1>6, <1>7

LEMMA ListBuysInv == ASSUME QInv, ListBuys PROVE QInv'
<1> USE DEF ListBuys, txVars, memoryVars
<1>1. Typed /\ JobOK /\ ExecOK /\ FreshOK /\ CoverOK /\ faults' \in 0 .. MaxFaults /\ sent = FALSE
  BY InvTyped, FaultsTyped, NotAKind DEF QInv, Kinds
<1>2. StillOut /\ fresh = {} /\ ~amiss
  BY <1>1 DEF StillOut, JobOK
<1>3. \A g : (Out(g)' <=> Out(g)) /\ (Closed(g)' <=> Closed(g))
  BY <1>1, <1>2, SameExposed
<1>4. targets' \subseteq owned /\ targets' \subseteq Groups
      /\ \A g \in owned \cap Buys : Closed(g) \/ g \in targets'
  BY <1>1 DEF PendingBuys, Typed, ExecOK, Closed
<1>5. at' \in {"done", "cancel"} /\ (at' = "done" => targets' = {})
  OBVIOUS
<1>6. Typed'
  BY <1>1, <1>2, <1>4, <1>5 DEF StillOut, chainVars, Typed, Kinds
<1>7. JobOK' /\ ExecOK'
  BY <1>1, <1>2, <1>5 DEF JobOK, ExecOK, Resting, Ended, chainVars, Kinds
<1>8. FreshOK' /\ CoverOK'
  BY <1>1, <1>2, <1>3, <1>4, <1>5 DEF FreshOK, CoverOK, Resting, Ended
<1> QED
  BY <1>2, <1>5, <1>6, <1>7, <1>8, KeepInv

\* Unless it was not all read, what is owned afterwards is closed or to be cancelled.
LEMMA ListOwnedInv == ASSUME QInv, ListOwned PROVE QInv'
<1> USE DEF ListOwned, txVars, memoryVars
<1>1. Typed /\ JobOK /\ ExecOK /\ FreshOK /\ CoverOK /\ sent = FALSE
  BY InvTyped, NotAKind DEF QInv, Kinds
<1>2. StillOut /\ fresh = {}
  BY <1>1 DEF StillOut, JobOK
<1>3. \A g : (Out(g)' <=> Out(g)) /\ (Closed(g)' <=> Closed(g))
  BY <1>1, <1>2, SameExposed
<1>4. PICK skipped \in SUBSET (owned \ confirmedCanceled) :
        /\ IF skipped = {} THEN Fine ELSE Fault("read")
        /\ owned' = owned \ (ClosedOwned \ (skipped \cup confirmedCanceled))
        /\ targets' = {g \in owned \ (skipped \cup confirmedCanceled) : ~Closed(g)}
        /\ amiss' = (skipped # {})
  OBVIOUS
<1>5. faults' \in 0 .. MaxFaults
  BY <1>1, <1>4, FaultsTyped
<1>6. /\ targets' \subseteq owned /\ targets' \subseteq Groups /\ owned' \subseteq owned
      /\ \A g \in owned \ owned' : ~Exposed(g)
      /\ ~amiss' => \A g \in owned : Closed(g) \/ g \in targets'
  BY <1>1, <1>4 DEF ClosedOwned, Typed, ExecOK, Closed, Exposed
<1>7. at' \in {"done", "cancel"} /\ (at' = "done" => targets' = {}) /\ amiss' \in BOOLEAN
  BY <1>4, Zenon
<1>8. Typed'
  BY <1>1, <1>2, <1>5, <1>6, <1>7 DEF StillOut, chainVars, Typed, Kinds
<1>9. JobOK' /\ ExecOK'
  BY <1>1, <1>2, <1>7 DEF JobOK, ExecOK, Resting, Ended, chainVars, Kinds
<1>10. FreshOK' /\ CoverOK'
  BY <1>1, <1>2, <1>3, <1>6, <1>7 DEF FreshOK, CoverOK, Resting, Ended
<1> QED
  BY <1>2, <1>6, <1>7, <1>8, <1>9, <1>10, KeepInv

-----------------------------------------------------------------------------
(* The executor's send, and the chain.                                     *)

\* Only a publication all others are closed for is ever sent.
LEMMA BroadcastInv == ASSUME QInv, Broadcast PROVE QInv'
<1> USE DEF Broadcast, workVars, memoryVars, chainVars
<1>1. /\ Typed /\ JobOK /\ ExecOK /\ FreshOK /\ CoverOK /\ ExposedOwned /\ OneExposed
      /\ faults' \in 0 .. MaxFaults
  BY InvTyped, FaultsTyped DEF QInv
<1>2. PICK n \in NextNonce :
        pool' = pool \cup {[kind |-> at, groups |-> TxGroups(at), ahead |-> n, ours |-> TRUE]}
  OBVIOUS
<1> DEFINE new == [kind |-> at, groups |-> TxGroups(at), ahead |-> n, ours |-> TRUE]
<1>3. /\ new \in [kind : Kinds, groups : SUBSET Groups, ahead : 0 .. MaxPool, ours : BOOLEAN]
      /\ new.kind = at /\ new.groups = TxGroups(at) /\ new.ours /\ pool' = pool \cup {new}
  BY <1>1, <1>2 DEF Typed, TxGroups, NextNonce
<1> HIDE DEF new
<1>4. Typed'
  BY <1>1, <1>3 DEF Typed
<1>5. JobOK' /\ sent = FALSE /\ at \in Kinds /\ at \notin Resting \cup {"list", "recheck", "forget"}
  BY <1>1 DEF JobOK, Typed, Kinds, Resting, Ended
<1>6. ExecOK'
  BY <1>1, <1>3, <1>5 DEF ExecOK, TxGroups
<1>7. \A g : /\ Out(g)' => Out(g) \/ (at \in {"ratify", "publish"} /\ g \in fresh)
             /\ Closed(g)' <=> Closed(g)
  BY <1>3 DEF Out, Closed, TxGroups
<1>8. made <= made
  BY <1>1, QuoterAssumption, SMT DEF Typed
<1>9. FreshOK'
  <2>1. \A g \in Groups : Out(g)' \/ g \in owned \/ g \in targets => g[1] <= made
    BY <1>1, <1>7, <1>8 DEF FreshOK
  <2>2. at = First => \A g \in fresh : g \notin published \cup ratified
    BY <1>1, <1>5 DEF FreshOK, ExecOK
  <2> QED
    BY <1>1, <1>3, <2>1, <2>2 DEF FreshOK, First
<1>10. CoverOK'
  BY <1>1, <1>7 DEF CoverOK
<1>11. CASE at = "cancel"
  <2>1. \A g : Exposed(g)' => Exposed(g)
    BY <1>7, <1>11 DEF Exposed
  <2>2. ExposedOwned' /\ OneExposed' /\ (buysOff => \A g \in Buys : ~Exposed(g)')
    BY <1>1, <2>1 DEF ExposedOwned, OneExposed, QInv
  <2> QED
    BY <1>4, <1>5, <1>6, <1>9, <1>10, <1>11, <2>2, TypedNext DEF QInv
<1>12. CASE at \in {"ratify", "publish"}
  <2>1. job = "quote" /\ fresh \subseteq owned /\ ~buysOff
    BY <1>1, <1>12 DEF JobOK, FreshOK, Resting, Ended
  <2>2. \A g \in owned : Closed(g) \/ g \in fresh
    BY <1>1, <1>5, <1>12, <2>1 DEF CoverOK
  <2>3. \A g \in Groups : Exposed(g)' => g \in fresh
    BY <1>1, <1>7, <2>2 DEF Exposed, ExposedOwned
  <2>4. ExposedOwned' /\ OneExposed'
    BY <1>1, <2>1, <2>3 DEF ExposedOwned, OneExposed, FreshOK
  <2> QED
    BY <1>4, <1>5, <1>6, <1>9, <1>10, <1>12, <2>1, <2>4, TypedNext DEF QInv
<1> QED
  BY <1>5, <1>11, <1>12 DEF Kinds

\* What the chain does on its own never makes a group exposed.
LEMMA ChainInv ==
  ASSUME QInv, UNCHANGED <<owned, at, workVars, confirmedCanceled, made, buysOff>>,
         Typed', ExecOK', FreshOK', canceled \subseteq canceled', filled \subseteq filled',
         \A g : Out(g)' => Out(g)
  PROVE  QInv'
<1> USE DEF workVars
<1>1. JobOK /\ CoverOK /\ ExposedOwned /\ OneExposed
  BY DEF QInv
<1>2. \A g : (Closed(g) => Closed(g)') /\ (Exposed(g)' => Exposed(g))
  BY DEF Closed, Exposed
<1>3. JobOK' /\ CoverOK'
  BY <1>1, <1>2 DEF JobOK, CoverOK
<1>4. ExposedOwned' /\ OneExposed'
  BY <1>1, <1>2 DEF ExposedOwned, OneExposed
<1>5. /\ at' = "applied" => \A g \in Groups : ~Exposed(g)'
      /\ buysOff' => \A g \in Buys : ~Exposed(g)'
  BY <1>2 DEF QInv
<1> QED
  BY <1>3, <1>4, <1>5, TypedNext DEF QInv

LEMMA LandInv == ASSUME QInv, Land PROVE QInv'
<1> USE DEF workVars, memoryVars
<1>1. Typed /\ JobOK /\ ExecOK /\ FreshOK
  BY InvTyped DEF QInv
<1>2. PICK tx \in pool, ok \in BOOLEAN :
        /\ tx.ahead = 0
        /\ IF ok THEN Fine ELSE Fault("revert")
        /\ pool' = {[u EXCEPT !.ahead = @ - 1] : u \in {v \in pool : v.ahead > 0}}
        /\ receipt' = IF tx.ours THEN (IF ok THEN "success" ELSE "revert") ELSE receipt
        /\ ratified' = IF ok /\ tx.kind = "ratify" THEN ratified \cup tx.groups ELSE ratified
        /\ published' = IF ok /\ tx.kind = "publish" THEN published \cup tx.groups ELSE published
        /\ canceled' = IF ok /\ tx.kind = "cancel" THEN canceled \cup tx.groups ELSE canceled
  BY DEF Land
<1>3. UNCHANGED <<filled, lossy, owned, at, workVars, blocked, sent, memoryVars>>
  BY DEF Land
<1>4. tx \in [kind : Kinds, groups : SUBSET Groups, ahead : 0 .. MaxPool, ours : BOOLEAN]
  BY <1>1 DEF Typed
<1>5. /\ Pooled(pool')
      /\ \A w \in pool' : \E u \in pool :
           u # tx /\ u.kind = w.kind /\ u.groups = w.groups /\ u.ours = w.ours
  <2>1. ASSUME NEW u \in pool, u.ahead > 0
        PROVE  LET w == [u EXCEPT !.ahead = @ - 1]
               IN /\ w \in [kind : Kinds, groups : SUBSET Groups, ahead : 0 .. MaxPool, ours : BOOLEAN]
                  /\ u # tx /\ u.kind = w.kind /\ u.groups = w.groups /\ u.ours = w.ours
    <3>1. u \in [kind : Kinds, groups : SUBSET Groups, ahead : 0 .. MaxPool, ours : BOOLEAN]
      BY <1>1 DEF Typed
    <3>2. u.ahead - 1 \in 0 .. MaxPool /\ u.ahead # 0
      BY <2>1, <3>1, QuoterAssumption, SMT
    <3> QED
      BY <1>2, <3>1, <3>2
  <2>2. ASSUME NEW w \in pool'
        PROVE  /\ w \in [kind : Kinds, groups : SUBSET Groups, ahead : 0 .. MaxPool, ours : BOOLEAN]
               /\ \E u \in pool :
                    u # tx /\ u.kind = w.kind /\ u.groups = w.groups /\ u.ours = w.ours
    <3>1. PICK u \in pool : u.ahead > 0 /\ w = [u EXCEPT !.ahead = @ - 1]
      BY <1>2
    <3> QED
      BY <2>1, <3>1
  <2> QED
    BY <2>2 DEF Pooled
<1>6. \A w, x \in pool' : w.ours /\ x.ours => w = x
  <2>1. \A u, v \in pool : u.ours /\ v.ours => u = v
    BY <1>1 DEF ExecOK
  <2>2. \A u \in pool : [u EXCEPT !.ahead = @ - 1].ours = u.ours
    BY <1>1 DEF Typed
  <2> QED
    BY <1>2, <2>1, <2>2, ZenonT(60)
<1>7. Typed'
  <2>1. faults' \in 0 .. MaxFaults
    BY <1>1, <1>2, FaultsTyped
  <2> QED
    BY <1>1, <1>2, <1>3, <1>4, <1>5, <2>1 DEF Typed, Pooled
<1>8. tx.ours => /\ sent /\ receipt = "none" /\ tx.kind = at /\ tx.groups = TxGroups(at)
                 /\ \A w \in pool' : ~w.ours
  BY <1>1, <1>5 DEF ExecOK
<1>9. ExecOK'
  <2>1. \A w \in pool' : w.ours => sent /\ receipt' = "none" /\ w.kind = at /\ w.groups = TxGroups(at)
    BY <1>1, <1>2, <1>5, <1>8 DEF ExecOK
  <2>2. receipt' # "none" => sent
    BY <1>1, <1>2, <1>8 DEF ExecOK
  <2>3. at = "cancel" /\ receipt' = "success" => targets \subseteq canceled'
    BY <1>1, <1>2, <1>8 DEF ExecOK, TxGroups
  <2> QED
    BY <1>1, <1>2, <1>3, <1>6, <2>1, <2>2, <2>3 DEF ExecOK, TxGroups
<1>10. \A g : Out(g)' => Out(g)
  BY <1>2, <1>5 DEF Out
<1>11. FreshOK'
  <2>1. \A g \in Groups : Out(g)' \/ g \in owned \/ g \in targets => g[1] <= made
    BY <1>1, <1>10 DEF FreshOK
  <2>2. ASSUME at \in {"reserve", "cancel", "forget", "admit", First}, NEW g \in fresh,
               g \in published' \cup ratified'
        PROVE  at = First /\ receipt' = "success"
    <3>1. CASE g \in published \cup ratified
      BY <1>1, <1>2, <1>8, <2>2, <3>1 DEF FreshOK
    <3>2. CASE g \notin published \cup ratified
      <4>1. ok /\ tx.kind \in {"publish", "ratify"} /\ g \in tx.groups
        BY <1>2, <2>2, <3>2
      <4>2. tx.ours
        BY <1>1, <2>2, <4>1 DEF FreshOK
      <4> QED
        BY <1>2, <1>8, <2>2, <4>1, <4>2
    <3> QED
      BY <3>1, <3>2
  <2>3. ASSUME at \in {"reserve", "cancel", "forget", "admit", First}, NEW g \in fresh,
               NEW w \in pool', w.kind # "cancel", g \in w.groups
        PROVE  w.ours
    BY <1>1, <1>5, <2>3 DEF FreshOK
  <2> QED
    BY <1>1, <1>3, <2>1, <2>2, <2>3 DEF FreshOK, First
<1> QED
  BY <1>2, <1>3, <1>7, <1>9, <1>10, <1>11, ChainInv

LEMMA ElsewhereInv ==
  ASSUME QInv, Fill \/ Loss \/ Stop PROVE QInv'
<1> USE DEF Fill, Loss, Stop, chainVars, txVars, memoryVars, workVars
<1>1. Typed /\ ExecOK /\ FreshOK /\ faults' \in 0 .. MaxFaults
  BY InvTyped, FaultsTyped DEF QInv
<1>2. /\ UNCHANGED <<ratified, published, canceled, pool, receipt, blocked, sent>>
      /\ UNCHANGED <<owned, at, workVars, confirmedCanceled, made, buysOff>>
  OBVIOUS
<1>3. filled \subseteq filled' /\ filled' \subseteq Groups
  BY <1>1 DEF Typed
<1>4. lossy' \in BOOLEAN /\ stopping' \in BOOLEAN
  BY <1>1 DEF Typed
<1>5. Typed'
  BY <1>1, <1>2, <1>3, <1>4 DEF Typed
<1>6. \A g : Out(g)' <=> Out(g)
  BY <1>2 DEF Out
<1>7. ExecOK' /\ FreshOK'
  BY <1>1, <1>2, <1>6 DEF ExecOK, FreshOK, TxGroups
<1> QED
  BY <1>2, <1>3, <1>5, <1>6, <1>7, ChainInv

-----------------------------------------------------------------------------
(* The theorems.                                                           *)

LEMMA InitInv == Init => QInv
<1> SUFFICES ASSUME Init PROVE QInv
  OBVIOUS
<1> USE DEF Init
<1>1. 0 \in 0 .. MaxPublications /\ 0 \in 0 .. MaxFaults
  BY QuoterAssumption, SMT
<1>2. Typed
  BY <1>1, Zenon DEF Typed, Jobs, Kinds, Ended
<1>3. \A g : ~Out(g) /\ ~Exposed(g)
  BY DEF Out, Exposed
<1>4. JobOK /\ ExecOK /\ FreshOK /\ CoverOK
  BY <1>3 DEF JobOK, ExecOK, FreshOK, CoverOK, Resting, Ended, Kinds
<1>5. ExposedOwned /\ OneExposed
  BY <1>3 DEF ExposedOwned, OneExposed
<1> QED
  BY <1>2, <1>3, <1>4, <1>5, TypedNow DEF QInv

LEMMA NextInv == QInv /\ [Next]_vars => QInv'
<1> SUFFICES ASSUME QInv, [Next]_vars PROVE QInv'
  OBVIOUS
<1>1. CASE Work
  BY <1>1, LendHaltedInv, DecideInv, StopCyclesInv, ListActiveInv, ListBuysInv, ListOwnedInv,
     ListFailsInv, DoneInv, ReserveInv, BroadcastInv, RefuseInv, RevertedInv, DroppedInv,
     TimesOutInv, CancelConfirmedInv, RatifyConfirmedInv, PublishConfirmedInv, ForgetCanceledInv,
     RecheckInv, AdmitInv DEF Work
<1>2. CASE UNCHANGED vars
  <2> USE DEF vars, chainVars, workVars, txVars, memoryVars
  <2>1. Typed /\ ExecOK /\ FreshOK
    BY InvTyped DEF QInv
  <2>2. Typed' /\ ExecOK' /\ FreshOK' /\ \A g : Out(g)' <=> Out(g)
    BY <1>2, <2>1 DEF Typed, ExecOK, FreshOK, Out, TxGroups
  <2> QED
    BY <1>2, <2>2, ChainInv
<1> QED
  BY <1>1, <1>2, LandInv, ElsewhereInv, CrashInv, RestartInv DEF Next

\* What is exposed is owned and of one publication, at every step of every operation.
THEOREM QuoterInvariant == QuoterLiveSpec => []QInv
BY InitInv, NextInv, PTL DEF QuoterLiveSpec

\* Every value the chain, the ownership file and the process keep has its type.
THEOREM QuoterTypeCorrect == QuoterLiveSpec => []QuoterTypeOK
<1>1. QInv => QuoterTypeOK
  BY DEF QInv
<1> QED
  BY <1>1, QuoterInvariant, PTL

LEMMA ExposedIs == \A g : Exposed(g) <=> Live(g) \/ MayGoLive(g)
BY DEF Exposed, Out, Live, MayGoLive

\* A group that can be taken, or will be if a transaction of the pool lands, is owned.
THEOREM LiveStaysOwned == QuoterLiveSpec => []LiveIsOwned
<1>1. QInv => LiveIsOwned
  BY ExposedIs DEF QInv, ExposedOwned, LiveIsOwned
<1> QED
  BY <1>1, QuoterInvariant, PTL

\* Two publications of the market are never takeable at once, nor about to be.
THEOREM OneQuoteLive == QuoterLiveSpec => []OneQuoteAtATime
<1>1. QInv => OneQuoteAtATime
  BY ExposedIs DEF QInv, OneExposed, OneQuoteAtATime
<1> QED
  BY <1>1, QuoterInvariant, PTL

\* A cleanup that reports success left nothing that can be taken, then or later.
THEOREM CleanupIsFlat == QuoterLiveSpec => []AppliedCleanupIsFlat
<1>1. QInv => AppliedCleanupIsFlat
  BY ExposedIs DEF QInv, AppliedCleanupIsFlat
<1> QED
  BY <1>1, QuoterInvariant, PTL

\* Buys the loss guard cancelled cannot come back before it passes.
THEOREM BuysStayCanceled == QuoterLiveSpec => []BuysStayOff
<1>1. Buys \subseteq Groups
  BY DEF Buys, Groups
<1>2. QInv => BuysStayOff
  BY ExposedIs DEF QInv, BuysStayOff
<1> QED
  BY <1>2, QuoterInvariant, PTL
=============================================================================
