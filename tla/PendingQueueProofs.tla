------------------------- MODULE PendingQueueProofs -------------------------
(***************************************************************************)
(* The safety of PendingQueue, for any labels, nonces and settings.        *)
(*                                                                         *)
(* Each property needs to know where the code stands.  PassOK says what a  *)
(* maintenance pass knows of the entries it still has to look at, LineOK   *)
(* that one caller at a time is between reading the cursor and tracking    *)
(* its send, and LabelsOK which labels the tick's callers can submit.      *)
(***************************************************************************)
EXTENDS PendingQueue, TLAPS, SequenceTheorems

\* no hash of the entry was mined before known was read
Unmined(n) ==
  n < known => \A b \in pending[n].bumps : mined[n + 1] # Hash(n, pending[n].label, b)

PassOK ==
  /\ known <= Consumed
  /\ phase \in {"sweep", "stuck", "replace", "reverted", "reconcile"} => todo \subseteq Tracked
  /\ phase = "reconcile" => \A n \in todo : n < Consumed
  /\ phase = "stuck" => \A n \in todo : Current(n) => Unmined(n)
  /\ phase \in {"replace", "reverted"} => \A n \in todo : Current(n) => MayBump(n)

LineOK ==
  /\ phase # "tick" => line = <<>> /\ \A l \in Labels : step[l] = "out"
  /\ \A l \in Labels :
       /\ step[l] \in {"syncing", "sending"} => line # <<>> /\ Head(line) = l
       /\ step[l] = "syncing" => Tracked = {}
       /\ claim[l] # None <=> step[l] = "sending"
       /\ step[l] = "sending" => hole = None /\ nextNonce = claim[l] + 1

LabelsOK ==
  phase = "tick" =>
    /\ \A l \in Labels : /\ settled[l] # None => l \in inflight
                         /\ step[l] # "out" => l \notin inflight
    /\ \A n \in Tracked : pending[n].label \in inflight \/ step[pending[n].label] = "done"

IInv ==
  /\ TypeOK /\ PassOK /\ LineOK /\ LabelsOK
  /\ CursorAhead /\ NoNonceUnaccounted /\ Backpressure

-----------------------------------------------------------------------------
(* What an entry and a settlement are.                                     *)

LEMMA TrackedTyped ==
  ASSUME TypeOK, NEW n \in Tracked
  PROVE  /\ n \in Nonces /\ n \in Nat /\ pending[n] \in Entry
         /\ pending[n].label \in Labels /\ pending[n].attempt \in Bumps
BY QueueAssumption, SMTT(30) DEF TypeOK, Tracked, Entry, Nonces

LEMMA ConsumedTyped == TypeOK => Consumed \in Nat
BY LenProperties DEF TypeOK, Consumed

LEMMA SettleTyped ==
  ASSUME TypeOK, NEW n \in Tracked, NEW kind \in {"confirmed", "dropped"}, NEW cools \in BOOLEAN,
         Settle(n, kind, cools)
  PROVE  /\ pending' \in [Nonces -> Entry \cup {None}]
         /\ settled' \in [Labels -> 0 .. SettledCooldownBlocks + 1 \cup {None}]
         /\ told' \in [nonce : Nonces, kind : {"confirmed", "dropped"}]
<1>1. n \in Nonces /\ pending[n].label \in Labels
  BY TrackedTyped
<1>2. pending' \in [Nonces -> Entry \cup {None}]
  BY <1>1 DEF TypeOK, Settle
<1>3. 0 \in 0 .. SettledCooldownBlocks + 1
  BY QueueAssumption, SMT
<1>4. settled' \in [Labels -> 0 .. SettledCooldownBlocks + 1 \cup {None}]
  BY <1>1, <1>3 DEF TypeOK, Settle
<1>5. told' \in [nonce : Nonces, kind : {"confirmed", "dropped"}]
  BY <1>1 DEF Settle
<1> QED
  BY <1>2, <1>4, <1>5

\* latchNonceHole covers what it covered and the nonce
LEMMA LatchedCovers ==
  ASSUME TypeOK, NEW n \in Nonces
  PROVE  /\ Latched(n) \in [low : Nonces, high : Nonces] /\ Latched(n) # None
         /\ Latched(n).low <= n /\ n <= Latched(n).high
         /\ hole # None => Latched(n).low <= hole.low /\ hole.high <= Latched(n).high
<1>1. n \in Nat /\ None \notin [low : Nonces, high : Nonces]
  BY QueueAssumption, NoneAssumption, SMT DEF Nonces
<1>2. CASE hole = None
  BY <1>1, <1>2, SMTT(30) DEF Latched
<1>3. CASE hole # None
  <2>1. hole \in [low : Nonces, high : Nonces]
    BY <1>3 DEF TypeOK
  <2>2. hole.low \in Nat /\ hole.high \in Nat /\ hole.low \in Nonces /\ hole.high \in Nonces
    BY <2>1, QueueAssumption, SMT DEF Nonces
  <2> QED
    BY <1>1, <1>3, <2>2, SMTT(30) DEF Latched
<1> QED
  BY <1>2, <1>3

LEMMA AppendKeepsHead ==
  ASSUME NEW s \in Seq(Labels), NEW l \in Labels
  PROVE  /\ Append(s, l) \in Seq(Labels) /\ Append(s, l) # <<>>
         /\ s # <<>> => Head(Append(s, l)) = Head(s)
<1>1. Append(s, l) \in Seq(Labels) /\ Append(s, l) # <<>>
  BY AppendProperties
<1>2. ASSUME s # <<>> PROVE Head(Append(s, l)) = Head(s)
  <2>1. 1 \in 1 .. Len(s) /\ Head(s) = s[1]
    BY <1>2, EmptySeq, HeadTailProperties
  <2>2. Append(s, l)[1] = s[1]
    BY <2>1, AppendProperties
  <2> QED
    BY <1>1, <2>1, <2>2
<1> QED
  BY <1>1, <1>2

-----------------------------------------------------------------------------
(* A maintenance pass.                                                     *)

\* Entries only leave, and those that do are consumed or in the latched hole, which only grows.
EntriesLeave ==
  /\ \A n \in Nonces : pending'[n] # None =>
       pending[n] # None /\ pending'[n].label = pending[n].label
  /\ \A n \in Tracked : pending'[n] = None =>
       n < Consumed \/ (hole' # None /\ hole'.low <= n /\ n <= hole'.high)
  /\ hole # None => hole' # None /\ hole'.low <= hole.low /\ hole.high <= hole'.high

LEMMA PassKeeps ==
  ASSUME IInv, TypeOK', EntriesLeave, phase # "tick", phase' # "tick",
         UNCHANGED <<mined, tickVars, signerVars>>
  PROVE  LineOK' /\ LabelsOK' /\ CursorAhead' /\ NoNonceUnaccounted' /\ Backpressure'
<1> USE DEF tickVars, signerVars
<1>1. Tracked' \subseteq Tracked
  BY DEF EntriesLeave, Tracked
<1>2. \A l \in Labels : step[l] \notin {"syncing", "sending"} /\ claim[l] = None
  BY DEF IInv, LineOK
<1>3. LineOK' /\ LabelsOK'
  BY <1>2 DEF IInv, LineOK, LabelsOK
<1>4. CursorAhead'
  BY <1>1, <1>2 DEF IInv, CursorAhead
<1>5. Backpressure'
  <2>1. \A n \in Tracked' : pending'[n].label = pending[n].label /\ n \in Tracked
    BY <1>1 DEF EntriesLeave, Tracked
  <2> QED
    BY <2>1 DEF IInv, Backpressure
<1>6. NoNonceUnaccounted'
  <2> SUFFICES ASSUME nextNonce # None, NEW m \in base .. nextNonce - 1
               PROVE  \/ m < Consumed \/ m \in Tracked'
                      \/ hole' # None /\ hole'.low <= m /\ m <= hole'.high
    BY DEF NoNonceUnaccounted, Consumed
  <2>1. CASE m \in Tracked
    BY <2>1 DEF EntriesLeave, Tracked
  <2>2. CASE hole # None /\ hole.low <= m /\ m <= hole.high
    <3>1. hole' # None /\ hole'.low <= hole.low /\ hole.high <= hole'.high
      BY <2>2 DEF EntriesLeave
    <3>2. hole \in [low : Nonces, high : Nonces] /\ hole' \in [low : Nonces, high : Nonces]
      BY <2>2, <3>1 DEF IInv, TypeOK
    <3>3. hole.low \in Int /\ hole.high \in Int /\ hole'.low \in Int /\ hole'.high \in Int
          /\ m \in Int
      BY <3>2, QueueAssumption, SMT DEF Nonces
    <3> QED
      BY <2>2, <3>1, <3>3, SMT
  <2>3. m \in Nat /\ m # None
    BY NoneAssumption, SMT DEF IInv, TypeOK
  <2> QED
    BY <1>2, <2>1, <2>2, <2>3 DEF IInv, NoNonceUnaccounted
<1> QED
  BY <1>3, <1>4, <1>5, <1>6

LEMMA HoleStays ==
  ASSUME TypeOK, hole' = hole
  PROVE  hole # None => hole' # None /\ hole'.low <= hole.low /\ hole.high <= hole'.high
<1> SUFFICES ASSUME hole # None PROVE hole.low <= hole.low /\ hole.high <= hole.high
  OBVIOUS
<1>1. hole.low \in Nat /\ hole.high \in Nat
  BY QueueAssumption, SMT DEF TypeOK, Nonces
<1> QED
  BY <1>1, SMT

\* An entry may be sighted, age and be bumped: it stays an entry of its label.
LEMMA EntryChanges ==
  ASSUME NEW e \in Entry
  PROVE  /\ e.age \in {None} \cup 0 .. StuckBlocks + 1
         /\ \A age \in {None} \cup 0 .. StuckBlocks + 1 :
              [e EXCEPT !.age = age] \in Entry /\ [e EXCEPT !.age = age].label = e.label
BY DEF Entry

LEMMA PollInv == ASSUME IInv, Poll PROVE IInv'
<1> USE DEF Poll, chainVars, tickVars, signerVars
<1>1. \A age, gap, most \in Nat : Grown(age, gap, most) \in 0 .. most
  BY NoneAssumption, SMTT(30) DEF Grown
<1>2. \A gap, most \in Nat : Grown(None, gap, most) = None
  BY DEF Grown
<1>3. PICK gap \in 1 .. MaxGap :
        /\ pending' = [n \in Nonces |->
             IF pending[n] = None THEN None
             ELSE [pending[n] EXCEPT !.age = Grown(@, gap, StuckBlocks + 1)]]
        /\ settled' = [l \in Labels |-> Grown(settled[l], gap, SettledCooldownBlocks + 1)]
  OBVIOUS
<1>4. /\ gap \in Nat /\ StuckBlocks + 1 \in Nat /\ SettledCooldownBlocks + 1 \in Nat
      /\ Consumed \in 0 .. MaxNonce + 1
  <2>1. Consumed \in Nat /\ Consumed <= MaxNonce + 1
    BY ConsumedTyped DEF IInv, TypeOK
  <2> QED
    BY <1>3, <2>1, QueueAssumption, SMT
<1>5. \A n \in Tracked : /\ pending[n] \in Entry /\ n \in Nonces
                          /\ pending'[n] = [pending[n] EXCEPT !.age = Grown(@, gap, StuckBlocks + 1)]
  BY <1>3, TrackedTyped DEF IInv, Tracked
<1>6. \A n \in Tracked : pending'[n] \in Entry /\ pending'[n].label = pending[n].label
  <2> SUFFICES ASSUME NEW n \in Tracked
               PROVE  pending'[n] \in Entry /\ pending'[n].label = pending[n].label
    OBVIOUS
  <2> DEFINE older == Grown(pending[n].age, gap, StuckBlocks + 1)
  <2>0. pending[n] \in Entry /\ pending'[n] = [pending[n] EXCEPT !.age = older]
    BY <1>5
  <2>1. pending[n].age \in {None} \cup 0 .. StuckBlocks + 1
    BY <2>0 DEF Entry
  <2>2. older \in {None} \cup 0 .. StuckBlocks + 1
    <3>1. 0 .. StuckBlocks + 1 \subseteq Nat
      BY SMT
    <3> QED
      BY <1>1, <1>2, <1>4, <2>1, <3>1
  <2> HIDE DEF older
  <2>3. [pending[n] EXCEPT !.age = older] \in Entry
        /\ [pending[n] EXCEPT !.age = older].label = pending[n].label
    BY <2>0, <2>2, EntryChanges
  <2> QED
    BY <2>0, <2>3
<1>7. \A n \in Nonces \ Tracked : pending'[n] = None
  BY <1>3 DEF Tracked
<1>8. pending' \in [Nonces -> Entry \cup {None}]
  <2>1. \A n \in Nonces : pending'[n] \in Entry \cup {None}
    BY <1>6, <1>7
  <2> QED
    BY <1>3, <2>1
<1>9. settled' \in [Labels -> 0 .. SettledCooldownBlocks + 1 \cup {None}]
  <2>1. \A l \in Labels : settled[l] \in Nat \cup {None}
    BY SMT DEF IInv, TypeOK
  <2> QED
    BY <1>1, <1>2, <1>3, <1>4, <2>1
<1>10. TypeOK'
  BY <1>4, <1>8, <1>9 DEF IInv, TypeOK, Consumed, Tracked
<1>11. Tracked' = Tracked
  BY <1>6, <1>7, NoneAssumption DEF Tracked
<1>12. EntriesLeave
  BY <1>6, <1>7, <1>11, HoleStays DEF EntriesLeave, Tracked, IInv
<1>13. PassOK'
  BY <1>4, <1>11 DEF PassOK, Consumed
<1> QED
  BY <1>10, <1>12, <1>13, PassKeeps DEF IInv

\* the types of what a pass may change of the queue
QueueTyped ==
  /\ pending \in [Nonces -> Entry \cup {None}]
  /\ settled \in [Labels -> 0 .. SettledCooldownBlocks + 1 \cup {None}]
  /\ told \in [nonce : Nonces, kind : {"confirmed", "dropped"}] \cup {None}
  /\ hole \in [low : Nonces, high : Nonces] \cup {None}

LEMMA SettleLeaves ==
  ASSUME IInv, NEW n \in Tracked, NEW kind \in {"confirmed", "dropped"}, NEW cools \in BOOLEAN,
         Settle(n, kind, cools), (n < Consumed /\ hole' = hole) \/ hole' = Latched(n)
  PROVE  QueueTyped' /\ EntriesLeave
<1>1. TypeOK /\ n \in Nonces
  BY TrackedTyped DEF IInv
<1>2. pending' = [pending EXCEPT ![n] = None] /\ pending \in [Nonces -> Entry \cup {None}]
  BY DEF Settle, IInv, TypeOK
<1>3. \A m \in Nonces : m # n => pending'[m] = pending[m]
  BY <1>2
<1>4. pending'[n] = None /\ pending[n] # None
  BY <1>1, <1>2 DEF Tracked
<1>5. CASE n < Consumed /\ hole' = hole
  BY <1>1, <1>3, <1>4, <1>5, SettleTyped, HoleStays
     DEF QueueTyped, EntriesLeave, TypeOK, Tracked
<1>6. CASE hole' = Latched(n)
  BY <1>1, <1>3, <1>4, <1>6, SettleTyped, LatchedCovers DEF QueueTyped, EntriesLeave, Tracked
<1> QED
  BY <1>5, <1>6

LEMMA ConfirmLeaves ==
  ASSUME IInv, NEW n \in Tracked, HasReceipt(n), Confirm(n) PROVE QueueTyped' /\ EntriesLeave
BY SettleLeaves DEF Confirm, HasReceipt

LEMMA RetireLeaves ==
  ASSUME IInv, NEW n \in Tracked, Retire(n) PROVE QueueTyped' /\ EntriesLeave
BY SettleLeaves DEF Retire

LEMMA ChangeLeaves ==
  ASSUME IInv, NEW n \in Tracked, NEW e \in Entry, e.label = pending[n].label,
         pending' = [pending EXCEPT ![n] = e], UNCHANGED <<settled, told, hole>>
  PROVE  QueueTyped' /\ EntriesLeave
<1>1. TypeOK /\ n \in Nonces /\ pending[n] # None
  BY TrackedTyped DEF IInv, Tracked
<1>2. pending' \in [Nonces -> Entry \cup {None}] /\ pending'[n] = e
      /\ \A m \in Nonces : m # n => pending'[m] = pending[m]
  BY <1>1 DEF TypeOK
<1>3. e # None
  BY NoneAssumption
<1> QED
  BY <1>1, <1>2, <1>3, HoleStays DEF QueueTyped, EntriesLeave, TypeOK, Tracked

LEMMA KeepLeaves ==
  ASSUME IInv, KeepQueue PROVE QueueTyped' /\ EntriesLeave
<1>1. TypeOK
  BY DEF IInv
<1> QED
  BY <1>1, HoleStays DEF KeepQueue, QueueTyped, EntriesLeave, TypeOK, Tracked

\* The pass goes on to the next entry: the ones it still has to look at are as they were.
LEMMA NextEntryPass ==
  ASSUME IInv, NEW n \in Tracked, todo \subseteq Tracked, NextEntry(n), known' \in Nat,
         known' <= Consumed, UNCHANGED mined, NEW e, pending' = [pending EXCEPT ![n] = e]
  PROVE  PassOK'
<1>1. todo' \subseteq Tracked'
  BY TrackedTyped DEF NextEntry, Tracked, IInv, TypeOK
<1> QED
  BY <1>1 DEF PassOK, NextEntry, Consumed

\* What a pass does between two awaits.
LEMMA PassInv ==
  ASSUME IInv, phase # "tick", phase' # "tick", UNCHANGED <<mined, tickVars, signerVars>>,
         QueueTyped', EntriesLeave, PassOK',
         pool' \subseteq Tx, todo' \subseteq Nonces, priced' \in BOOLEAN,
         sendAborted' \in BOOLEAN, blocksSeen' \in 0 .. ReconcileEveryBlocks - 1,
         known' \in 0 .. MaxNonce + 1, faults' \in 0 .. MaxFaults,
         phase' \in {"sweep", "stuck", "replace", "reverted", "count", "reconcile", "hole"}
  PROVE  IInv'
<1>1. TypeOK'
  BY DEF IInv, TypeOK, QueueTyped, tickVars, signerVars, Consumed
<1> QED
  BY <1>1, PassKeeps DEF IInv

LEMMA FaultTyped ==
  ASSUME TypeOK, Fault \/ Fine PROVE faults' \in 0 .. MaxFaults
BY QueueAssumption, SMT DEF TypeOK, Fault, Fine

LEMMA KnownTyped == ASSUME IInv PROVE known \in Nat /\ known <= Consumed
BY QueueAssumption, SMT DEF IInv, TypeOK, PassOK

\* What an entry a pass looks at is.
LEMMA CurrentTyped ==
  ASSUME IInv, NEW n \in todo, phase \in {"sweep", "stuck", "replace", "reverted", "reconcile"}
  PROVE  n \in Tracked /\ n \in Nonces /\ pending[n] \in Entry /\ todo \subseteq Tracked
         /\ todo \subseteq Nonces
BY TrackedTyped DEF IInv, PassOK, TypeOK

LEMMA ScanInv == ASSUME IInv, NEW n \in todo, Scan(n) PROVE IInv'
<1> USE DEF Scan, Passing, chainVars
<1>1. /\ n \in Tracked /\ pending[n] \in Entry /\ todo \subseteq Tracked /\ TypeOK
      /\ known' \in Nat /\ known' <= Consumed /\ todo \subseteq Nonces
  BY CurrentTyped, KnownTyped DEF IInv
<1>2. faults' \in 0 .. MaxFaults
  BY <1>1, FaultTyped
<1>3. CASE HasReceipt(n) /\ Confirm(n) /\ NextEntry(n)
  <2>1. QueueTyped' /\ EntriesLeave
    BY <1>1, <1>3, ConfirmLeaves
  <2>2. PassOK'
    BY <1>1, <1>3, NextEntryPass DEF Confirm, Settle
  <2> QED
    BY <1>1, <1>2, <1>3, <2>1, <2>2, PassInv DEF NextEntry, TypeOK
<1>4. CASE KeepQueue /\ NextEntry(n)
  <2>1. QueueTyped' /\ EntriesLeave
    BY <1>4, KeepLeaves
  <2>2. pending' = [pending EXCEPT ![n] = pending[n]]
    BY <1>1, <1>4 DEF KeepQueue, TypeOK
  <2>3. PassOK'
    BY <1>1, <1>4, <2>2, NextEntryPass
  <2> QED
    BY <1>1, <1>2, <1>4, <2>1, <2>3, PassInv DEF NextEntry, TypeOK
<1>5. CASE /\ UNCHANGED <<settled, told, hole>> /\ NextEntry(n)
           /\ pending' = [pending EXCEPT ![n].age = 0]
  <2> DEFINE e == [pending[n] EXCEPT !.age = 0]
  <2>1. 0 \in 0 .. StuckBlocks + 1
    BY QueueAssumption, SMT
  <2>2. e \in Entry /\ e.label = pending[n].label /\ pending' = [pending EXCEPT ![n] = e]
    BY <1>1, <1>5, <2>1, EntryChanges
  <2> HIDE DEF e
  <2>3. QueueTyped' /\ EntriesLeave
    BY <1>1, <1>5, <2>2, ChangeLeaves
  <2>4. PassOK'
    BY <1>1, <1>5, <2>2, NextEntryPass
  <2> QED
    BY <1>1, <1>2, <1>5, <2>3, <2>4, PassInv DEF NextEntry, TypeOK
<1>6. CASE /\ ~HasReceipt(n) /\ UNCHANGED <<settled, told, hole, pending, todo>>
           /\ phase' = "stuck"
  <2>1. QueueTyped' /\ EntriesLeave
    BY <1>6, KeepLeaves DEF KeepQueue
  <2>2. \A m \in todo : Current(m) => m = n
    BY <1>1, QueueAssumption, SMT DEF Current, Nonces
  <2>3. Unmined(n)
    BY <1>1, <1>6, ConsumedTyped, QueueAssumption, SMT DEF Unmined, HasReceipt, Nonces
  <2>4. PassOK'
    BY <1>1, <1>6, <2>2, <2>3 DEF PassOK, Unmined, Current, Tracked, Consumed
  <2> QED
    BY <1>1, <1>2, <1>6, <2>1, <2>4, PassInv DEF TypeOK
<1> QED
  BY <1>1, <1>3, <1>4, <1>5, <1>6 DEF KeepQueue

LEMMA DecideInv == ASSUME IInv, NEW n \in todo, Decide(n) PROVE IInv'
<1> USE DEF Decide, Passing, chainVars
<1>1. /\ n \in Tracked /\ pending[n] \in Entry /\ todo \subseteq Tracked /\ TypeOK
      /\ known' \in Nat /\ known' <= Consumed /\ todo \subseteq Nonces
  BY CurrentTyped, KnownTyped DEF IInv
<1>2. faults' \in 0 .. MaxFaults
  BY <1>1, FaultTyped
<1>3. CASE KeepQueue /\ NextEntry(n) /\ UNCHANGED priced
  <2>1. QueueTyped' /\ EntriesLeave
    BY <1>3, KeepLeaves
  <2>2. pending' = [pending EXCEPT ![n] = pending[n]]
    BY <1>1, <1>3 DEF KeepQueue, TypeOK
  <2>3. PassOK'
    BY <1>1, <1>3, <2>2, NextEntryPass
  <2> QED
    BY <1>1, <1>2, <1>3, <2>1, <2>3, PassInv DEF NextEntry, TypeOK
<1>4. CASE Retire(n) /\ NextEntry(n) /\ priced' = TRUE
  <2>1. QueueTyped' /\ EntriesLeave
    BY <1>1, <1>4, RetireLeaves
  <2>2. PassOK'
    BY <1>1, <1>4, NextEntryPass DEF Retire, Settle
  <2> QED
    BY <1>1, <1>2, <1>4, <2>1, <2>2, PassInv DEF NextEntry, TypeOK
<1>5. CASE MayBump(n) /\ KeepQueue /\ phase' = "replace" /\ UNCHANGED todo /\ priced' = TRUE
  <2>1. QueueTyped' /\ EntriesLeave
    BY <1>5, KeepLeaves
  <2>2. \A m \in todo : Current(m) => m = n
    BY <1>1, QueueAssumption, SMT DEF Current, Nonces
  <2>3. PassOK'
    BY <1>1, <1>5, <2>2 DEF PassOK, Current, Tracked, Consumed, MayBump, KeepQueue
  <2> QED
    BY <1>1, <1>2, <1>5, <2>1, <2>3, PassInv DEF TypeOK
<1> QED
  BY <1>3, <1>4, <1>5

\* An entry that may be bumped stays one with an attempt more.
LEMMA Bumpable ==
  ASSUME IInv, NEW n \in todo, Current(n), phase \in {"replace", "reverted"}
  PROVE  /\ pending[n].attempt + 1 \in Bumps /\ pending[n].bumps \cup {pending[n].attempt + 1} \subseteq Bumps
         /\ pending[n] \in Entry
<1>1. MayBump(n) /\ pending[n] \in Entry
  BY CurrentTyped DEF IInv, PassOK
<1>2. pending[n].attempt \in Bumps /\ pending[n].bumps \subseteq Bumps
  BY <1>1 DEF Entry
<1> QED
  BY <1>1, <1>2, QueueAssumption, SMT DEF MayBump, Bumps

LEMMA AttemptedLeaves ==
  ASSUME IInv, NEW n \in todo, Current(n), phase \in {"replace", "reverted"}, Attempted(n),
         UNCHANGED <<settled, told, hole>>
  PROVE  QueueTyped' /\ EntriesLeave
<1> DEFINE e == [pending[n] EXCEPT !.attempt = @ + 1]
<1>1. n \in Tracked /\ pending[n] \in Entry /\ pending[n].attempt + 1 \in Bumps
  BY CurrentTyped, Bumpable
<1>2. e \in Entry /\ e.label = pending[n].label
  BY <1>1 DEF Entry
<1>3. pending' = [pending EXCEPT ![n] = e]
  BY DEF Attempted
<1> HIDE DEF e
<1> QED
  BY <1>1, <1>2, <1>3, ChangeLeaves

LEMMA ReplaceInv == ASSUME IInv, NEW n \in todo, Replace(n) PROVE IInv'
<1> DEFINE bump == pending[n].attempt + 1
           bumped == [pending[n] EXCEPT !.bumps = @ \cup {bump}, !.age = None, !.attempt = bump]
<1>1. /\ n \in Tracked /\ n \in Nonces /\ pending[n] \in Entry /\ TypeOK /\ todo \subseteq Nonces
      /\ todo \subseteq Tracked /\ phase = "replace" /\ Current(n)
  BY CurrentTyped DEF Replace, IInv
<1>2. faults' \in 0 .. MaxFaults
  BY <1>1, FaultTyped DEF Replace
<1>3. bumped \in Entry /\ bumped.label = pending[n].label
  BY <1>1, Bumpable DEF Entry
<1>4. Hash(n, pending[n].label, bump) \in Tx
  BY <1>1, TrackedTyped, Bumpable DEF Hash, Tx
<1>5. /\ UNCHANGED <<mined, sendAborted, tickVars, signerVars, settled, told, hole, blocksSeen, priced>>
      /\ pool' = pool \/ pool' = pool \cup {Hash(n, pending[n].label, bump)}
  BY DEF Replace
<1>6. pool' \subseteq Tx
  BY <1>1, <1>4, <1>5 DEF TypeOK
<1>7. CASE pending' = [pending EXCEPT ![n] = bumped] /\ NextEntry(n) /\ UNCHANGED known
  <2> HIDE DEF bumped
  <2>1. QueueTyped' /\ EntriesLeave
    BY <1>1, <1>3, <1>5, <1>7, ChangeLeaves
  <2>2. PassOK'
    BY <1>1, <1>5, <1>7, KnownTyped, NextEntryPass
  <2> QED
    BY <1>1, <1>2, <1>5, <1>6, <1>7, <2>1, <2>2, PassInv DEF NextEntry, TypeOK
<1>8. CASE Attempted(n) /\ NextEntry(n) /\ UNCHANGED known
  <2>1. QueueTyped' /\ EntriesLeave
    BY <1>1, <1>5, <1>8, AttemptedLeaves
  <2>2. PassOK'
    BY <1>1, <1>5, <1>8, KnownTyped, NextEntryPass DEF Attempted
  <2> QED
    BY <1>1, <1>2, <1>5, <1>6, <1>8, <2>1, <2>2, PassInv DEF NextEntry, TypeOK
<1>9. CASE UNCHANGED <<pending, todo>> /\ phase' = "reverted" /\ known' = Consumed
  <2>1. QueueTyped' /\ EntriesLeave
    BY <1>5, <1>9, KeepLeaves DEF KeepQueue
  <2>2. Consumed \in 0 .. MaxNonce + 1 /\ Consumed <= Consumed
    BY <1>1, ConsumedTyped, QueueAssumption, SMT DEF TypeOK
  <2>3. PassOK'
    BY <1>1, <1>5, <1>9, <2>2 DEF IInv, PassOK, Current, Tracked, Consumed, MayBump
  <2> QED
    BY <1>1, <1>2, <1>5, <1>6, <1>9, <2>1, <2>2, <2>3, PassInv DEF TypeOK
<1> QED
  BY <1>7, <1>8, <1>9 DEF Replace

LEMMA RecheckInv == ASSUME IInv, NEW n \in todo, Recheck(n) PROVE IInv'
<1> USE DEF Recheck, Passing, chainVars
<1>1. /\ n \in Tracked /\ pending[n] \in Entry /\ todo \subseteq Tracked /\ TypeOK
      /\ known' \in Nat /\ known' <= Consumed /\ todo \subseteq Nonces
  BY CurrentTyped, KnownTyped DEF IInv
<1>2. faults' \in 0 .. MaxFaults
  BY <1>1, FaultTyped
<1>3. CASE HasReceipt(n) /\ Confirm(n)
  <2>1. QueueTyped' /\ EntriesLeave
    BY <1>1, <1>3, ConfirmLeaves
  <2>2. PassOK'
    BY <1>1, <1>3, NextEntryPass DEF Confirm, Settle
  <2> QED
    BY <1>1, <1>2, <1>3, <2>1, <2>2, PassInv DEF NextEntry, TypeOK
<1>4. CASE Retire(n)
  <2>1. QueueTyped' /\ EntriesLeave
    BY <1>1, <1>4, RetireLeaves
  <2>2. PassOK'
    BY <1>1, <1>4, NextEntryPass DEF Retire, Settle
  <2> QED
    BY <1>1, <1>2, <1>4, <2>1, <2>2, PassInv DEF NextEntry, TypeOK
<1>5. CASE Attempted(n) /\ UNCHANGED <<settled, told, hole>>
  <2>1. QueueTyped' /\ EntriesLeave
    BY <1>1, <1>5, AttemptedLeaves
  <2>2. PassOK'
    BY <1>1, <1>5, NextEntryPass DEF Attempted
  <2> QED
    BY <1>1, <1>2, <1>5, <2>1, <2>2, PassInv DEF NextEntry, TypeOK
<1> QED
  BY <1>3, <1>4, <1>5

LEMMA EndSweepInv == ASSUME IInv, EndSweep PROVE IInv'
<1> USE DEF EndSweep, Passing, chainVars
<1>1. TypeOK /\ faults' \in 0 .. MaxFaults
  BY FaultTyped DEF IInv
<1>2. QueueTyped' /\ EntriesLeave
  BY KeepLeaves
<1>3. PassOK'
  BY DEF IInv, PassOK, Consumed
<1>4. blocksSeen' \in 0 .. ReconcileEveryBlocks - 1
  BY <1>1, QueueAssumption, SMTT(30) DEF TypeOK
<1> QED
  BY <1>1, <1>2, <1>3, <1>4, PassInv DEF TypeOK

LEMMA CountInv == ASSUME IInv, Count PROVE IInv'
<1> USE DEF Count, Passing, chainVars
<1>1. TypeOK /\ faults' \in 0 .. MaxFaults
  BY FaultTyped DEF IInv
<1>2. QueueTyped' /\ EntriesLeave
  BY KeepLeaves
<1>3. PassOK'
  BY DEF IInv, PassOK, Consumed, KeepQueue, Tracked
<1> QED
  BY <1>1, <1>2, <1>3, PassInv DEF TypeOK, Tracked

LEMMA ReconcileInv == ASSUME IInv, NEW n \in todo, Reconcile(n) PROVE IInv'
<1> USE DEF Reconcile, Passing, chainVars
<1>1. /\ n \in Tracked /\ pending[n] \in Entry /\ todo \subseteq Tracked /\ TypeOK
      /\ todo \subseteq Nonces
  BY CurrentTyped DEF IInv
<1>2. faults' \in 0 .. MaxFaults
  BY <1>1, FaultTyped
<1>3. n < Consumed /\ known' \in Nat /\ known' <= Consumed
  BY KnownTyped DEF IInv, PassOK
<1>4. QueueTyped' /\ EntriesLeave
  <2>1. CASE HasReceipt(n) /\ Confirm(n)
    BY <1>1, <2>1, ConfirmLeaves
  <2>2. CASE Settle(n, "dropped", FALSE) /\ UNCHANGED hole
    BY <1>1, <1>3, <2>2, SettleLeaves
  <2>3. CASE KeepQueue
    BY <2>3, KeepLeaves
  <2> QED
    BY <2>1, <2>2, <2>3
<1>5. \A m \in Nonces \ {n} : pending'[m] = pending[m]
  BY <1>1 DEF Confirm, Settle, KeepQueue, TypeOK
<1>6. PassOK'
  BY <1>1, <1>5 DEF IInv, PassOK, Tracked, Consumed
<1> QED
  BY <1>1, <1>2, <1>4, <1>6, PassInv DEF TypeOK

LEMMA EndReconcileInv == ASSUME IInv, EndReconcile PROVE IInv'
<1> USE DEF EndReconcile, Passing, chainVars
<1>1. TypeOK /\ faults' \in 0 .. MaxFaults
  BY FaultTyped DEF IInv
<1>2. QueueTyped' /\ EntriesLeave
  BY KeepLeaves
<1>3. PassOK'
  BY DEF IInv, PassOK, Consumed
<1> QED
  BY <1>1, <1>2, <1>3, PassInv DEF TypeOK

\* A latch is cleared once the chain has consumed all of its span; the labels in flight are read.
LEMMA EndPassInv == ASSUME IInv, EndPass PROVE IInv'
<1> USE DEF EndPass, chainVars, signerVars
<1>1. TypeOK /\ faults' \in 0 .. MaxFaults
  BY FaultTyped DEF IInv
<1>2. settled' \in [Labels -> 0 .. SettledCooldownBlocks + 1 \cup {None}]
  BY <1>1 DEF TypeOK
<1>3. Tracked' = Tracked /\ inflight' \subseteq Labels
  BY <1>1, TrackedTyped DEF Inflight, Tracked
<1>4. TypeOK'
  BY <1>1, <1>2, <1>3 DEF TypeOK, ReleaseSendLatch, Consumed
<1>5. \A l \in Labels : step[l] \notin {"syncing", "sending"} /\ claim[l] = None /\ line = <<>>
  BY DEF IInv, LineOK
<1>6. PassOK' /\ LineOK' /\ CursorAhead'
  BY <1>3, <1>5 DEF IInv, PassOK, LineOK, CursorAhead, Consumed
<1>7. NoNonceUnaccounted'
  <2> SUFFICES ASSUME nextNonce # None, NEW m \in base .. nextNonce - 1
               PROVE  \/ m < Consumed \/ m \in Tracked'
                      \/ hole' # None /\ hole'.low <= m /\ m <= hole'.high
    BY DEF NoNonceUnaccounted, Consumed
  <2>1. \/ m < Consumed \/ m \in Tracked
        \/ hole # None /\ hole.low <= m /\ m <= hole.high
        \/ \E l \in Labels : claim[l] = m
    BY DEF IInv, NoNonceUnaccounted
  <2>2. m \in Nat /\ m # None /\ Consumed \in Nat
    BY <1>1, ConsumedTyped, NoneAssumption, SMT DEF TypeOK
  <2>3. CASE hole # None /\ hole.low <= m /\ m <= hole.high /\ Filled
    <3>1. hole.high \in Nat /\ hole.high < Consumed
      BY <1>1, <2>2, <2>3, QueueAssumption, SMT DEF TypeOK, Nonces, Filled
    <3> QED
      BY <2>2, <2>3, <3>1, SMT
  <2> QED
    BY <1>3, <1>5, <2>1, <2>2, <2>3
<1>8. Backpressure' /\ LabelsOK'
  <2>1. \A n \in Tracked : pending[n].label \in inflight'
    BY DEF Inflight, Tracked
  <2>2. \A l \in Labels : settled'[l] # None => l \in inflight'
    BY DEF Inflight
  <2>3. \A n \in Tracked : pending[n].label \in Labels
    BY <1>1, TrackedTyped
  <2>4. \A l \in Labels : step'[l] = "out"
    BY DEF IInv, LineOK
  <2> QED
    BY <1>3, <2>1, <2>2, <2>3, <2>4 DEF IInv, Backpressure, LabelsOK
<1> QED
  BY <1>4, <1>6, <1>7, <1>8 DEF IInv

-----------------------------------------------------------------------------
(* The tick.                                                               *)

LEMMA SubmitInv == ASSUME IInv, NEW l \in Labels, Submit(l) PROVE IInv'
<1> USE DEF Submit, Ticking, Fine, passVars, signerVars
<1>1. TypeOK /\ line \in Seq(Labels)
  BY DEF IInv, TypeOK
<1>2. /\ line' \in Seq(Labels) /\ line' # <<>>
      /\ line # <<>> => Head(line') = Head(line)
  BY <1>1, AppendKeepsHead
<1>3. \A k \in Labels : step'[k] = IF k = l THEN "waiting" ELSE step[k]
  BY <1>1 DEF TypeOK
<1>4. TypeOK'
  BY <1>1, <1>2 DEF TypeOK, Consumed
<1>5. Tracked' = Tracked /\ Consumed' = Consumed
  BY DEF Tracked, Consumed
<1>6. PassOK' /\ CursorAhead' /\ NoNonceUnaccounted' /\ Backpressure'
  BY <1>5 DEF IInv, PassOK, CursorAhead, NoNonceUnaccounted, Backpressure
<1>7. LineOK'
  BY <1>2, <1>3, <1>5 DEF IInv, LineOK
<1>8. LabelsOK'
  BY <1>1, <1>3, <1>5, TrackedTyped DEF IInv, LabelsOK
<1> QED
  BY <1>4, <1>6, <1>7, <1>8 DEF IInv

LEMMA EndTickInv == ASSUME IInv, EndTick PROVE IInv'
<1> USE DEF EndTick, chainVars, queueVars, signerVars
<1>1. TypeOK'
  BY DEF IInv, TypeOK, Consumed
<1>2. Tracked' = Tracked /\ Consumed' = Consumed
  BY DEF Tracked, Consumed
<1>3. \A l \in Labels : step[l] \notin {"syncing", "sending"} /\ claim[l] = None
  BY DEF IInv, LineOK
<1>4. PassOK' /\ LineOK' /\ LabelsOK'
  BY <1>2, <1>3 DEF IInv, PassOK, LineOK, LabelsOK
<1>5. CursorAhead' /\ NoNonceUnaccounted' /\ Backpressure'
  BY <1>2 DEF IInv, CursorAhead, NoNonceUnaccounted, Backpressure
<1> QED
  BY <1>1, <1>4, <1>5 DEF IInv

\* The one that holds the mutex is the only one past it.
LEMMA HolderAlone ==
  ASSUME IInv, NEW l \in Labels, Holds(l), NEW k \in Labels, k # l
  PROVE  step[k] \notin {"syncing", "sending"} /\ claim[k] = None
BY DEF IInv, LineOK, Holds

\* A nonce claimed at the cursor, above all that is tracked and with no hole latched.
LEMMA ClaimInv ==
  ASSUME IInv, NEW l \in Labels, phase = "tick", Holds(l), NEW n \in Nat, Claim(l, n),
         step[l] \in {"waiting", "syncing"}, hole' = None, base' \in 0 .. MaxNonce + 1,
         \A m \in Tracked : m < n,
         \A m \in base' .. n - 1 : m < Consumed \/ m \in Tracked,
         faults' \in 0 .. MaxFaults,
         UNCHANGED <<mined, pool, pending, sendAborted, blocksSeen, told, settled, passVars,
                     inflight, known>>
  PROVE  IInv'
<1> USE DEF Claim, passVars
<1>1. TypeOK /\ n \in Nonces /\ n + 1 \in 0 .. MaxNonce + 1 /\ n # None /\ n + 1 # None
  BY QueueAssumption, NoneAssumption, SMT DEF IInv, Nonces
<1>2. /\ \A k \in Labels : step'[k] = IF k = l THEN "sending" ELSE step[k]
      /\ \A k \in Labels : claim'[k] = IF k = l THEN n ELSE claim[k]
  BY <1>1 DEF TypeOK
<1>3. TypeOK'
  BY <1>1 DEF TypeOK, Consumed
<1>4. Tracked' = Tracked /\ Consumed' = Consumed
  BY DEF Tracked, Consumed
<1>5. \A k \in Labels : k # l => step[k] \notin {"syncing", "sending"} /\ claim[k] = None
  BY HolderAlone
<1>6. PassOK' /\ Backpressure'
  BY <1>4 DEF IInv, PassOK, Backpressure
<1>7. LineOK'
  BY <1>1, <1>2, <1>5 DEF IInv, LineOK, Holds
<1>8. LabelsOK'
  BY <1>1, <1>2, <1>4, TrackedTyped DEF IInv, LabelsOK
<1>9. CursorAhead'
  <2>1. \A m \in Tracked : m < n + 1
    BY <1>1, TrackedTyped, SMT
  <2> QED
    BY <1>1, <1>2, <1>4, <1>5, <2>1 DEF CursorAhead
<1>10. NoNonceUnaccounted'
  <2>1. ASSUME NEW m \in base' .. n PROVE m = n \/ m \in base' .. n - 1
    BY <1>1, SMT
  <2>2. base' .. nextNonce' - 1 = base' .. n
    BY SMT
  <2> QED
    BY <1>2, <1>4, <2>1, <2>2 DEF NoNonceUnaccounted
<1> QED
  BY <1>3, <1>6, <1>7, <1>8, <1>9, <1>10 DEF IInv

\* A caller leaves the mutex with nothing claimed.
LEMMA DoneInv ==
  ASSUME IInv, NEW l \in Labels, phase = "tick", Holds(l), Done(l),
         step[l] \in {"waiting", "syncing"}, faults' \in 0 .. MaxFaults,
         UNCHANGED <<chainVars, queueVars, passVars, inflight, claim, signerVars, known>>
  PROVE  IInv'
<1> USE DEF Done, chainVars, queueVars, passVars, signerVars
<1>1. TypeOK /\ line \in Seq(Labels) /\ line # <<>>
  BY DEF IInv, TypeOK, Holds
<1>2. Tail(line) \in Seq(Labels)
  BY <1>1, HeadTailProperties
<1>3. \A k \in Labels : step'[k] = IF k = l THEN "done" ELSE step[k]
  BY <1>1 DEF TypeOK
<1>4. TypeOK'
  BY <1>1, <1>2 DEF TypeOK, Consumed
<1>5. Tracked' = Tracked /\ Consumed' = Consumed
  BY DEF Tracked, Consumed
<1>6. PassOK' /\ CursorAhead' /\ NoNonceUnaccounted' /\ Backpressure'
  BY <1>5 DEF IInv, PassOK, CursorAhead, NoNonceUnaccounted, Backpressure
<1>7. LineOK'
  BY <1>3, <1>5, HolderAlone DEF IInv, LineOK
<1>8. LabelsOK'
  BY <1>1, <1>3, <1>5, TrackedTyped DEF IInv, LabelsOK
<1> QED
  BY <1>4, <1>6, <1>7, <1>8 DEF IInv

LEMMA EnterInv == ASSUME IInv, NEW l \in Labels, Enter(l) PROVE IInv'
<1> USE DEF Ticking, passVars
<1>1. TypeOK /\ faults' \in 0 .. MaxFaults /\ phase = "tick" /\ step[l] = "waiting" /\ Holds(l)
  BY FaultTyped DEF IInv, Enter
<1>2. UNCHANGED <<mined, pool, pending, sendAborted, hole, base, blocksSeen, told, settled,
                  passVars, inflight, known>>
  BY DEF Enter
<1>3. CASE Done(l) /\ UNCHANGED <<claim, nextNonce>>
  BY <1>1, <1>2, <1>3, DoneInv DEF chainVars, queueVars, signerVars
<1>4. CASE step' = [step EXCEPT ![l] = "syncing"] /\ Tracked = {} /\ UNCHANGED <<claim, nextNonce, line>>
  <2>1. \A k \in Labels : step'[k] = IF k = l THEN "syncing" ELSE step[k]
    BY <1>1, <1>4 DEF TypeOK
  <2>2. TypeOK'
    BY <1>1, <1>2, <1>4 DEF TypeOK, Consumed
  <2>3. Tracked' = Tracked /\ Consumed' = Consumed
    BY <1>2 DEF Tracked, Consumed
  <2>4. PassOK' /\ CursorAhead' /\ NoNonceUnaccounted' /\ Backpressure'
    BY <1>2, <1>4, <2>3 DEF IInv, PassOK, CursorAhead, NoNonceUnaccounted, Backpressure
  <2>5. claim[l] = None
    BY <1>1 DEF IInv, LineOK
  <2>6. LineOK'
    BY <1>1, <1>2, <1>4, <2>1, <2>3, <2>5 DEF IInv, LineOK, Holds
  <2>7. LabelsOK'
    BY <1>1, <1>2, <2>1, <2>3, TrackedTyped DEF IInv, LabelsOK
  <2> QED
    BY <2>2, <2>4, <2>6, <2>7 DEF IInv
<1>5. CASE Tracked # {} /\ hole = None /\ Claim(l, nextNonce)
  <2>1. nextNonce \in Nat /\ base \in 0 .. MaxNonce + 1 /\ \A m \in Tracked : m < nextNonce
    BY <1>1, <1>5, QueueAssumption, SMTT(30) DEF IInv, TypeOK, CursorAhead
  <2>2. nextNonce # None /\ \A k \in Labels : claim[k] = None
    BY <1>1, <1>5, HolderAlone DEF IInv, CursorAhead, LineOK
  <2>3. \A m \in base .. nextNonce - 1 : m # None
    BY <2>1, NoneAssumption, SMT
  <2>4. \A m \in base .. nextNonce - 1 : m < Consumed \/ m \in Tracked
    BY <1>5, <2>2, <2>3 DEF IInv, NoNonceUnaccounted
  <2> QED
    BY <1>1, <1>2, <1>5, <2>1, <2>4, ClaimInv
<1> QED
  BY <1>3, <1>4, <1>5 DEF Enter

LEMMA SyncInv == ASSUME IInv, NEW l \in Labels, Sync(l) PROVE IInv'
<1> USE DEF Ticking, passVars
<1>1. /\ TypeOK /\ faults' \in 0 .. MaxFaults /\ phase = "tick" /\ step[l] = "syncing"
      /\ Holds(l) /\ Tracked = {}
  BY FaultTyped DEF IInv, Sync, LineOK, Holds
<1>2. UNCHANGED <<mined, pool, pending, sendAborted, blocksSeen, told, settled, passVars, inflight,
                  known>>
  BY DEF Sync
<1>3. CASE Done(l) /\ UNCHANGED <<hole, claim, signerVars>>
  BY <1>1, <1>2, <1>3, DoneInv DEF chainVars, queueVars
<1>4. ASSUME NEW c \in Consumed .. MaxNonce + 1, hole' = None, base' = c, Claim(l, c)
      PROVE  IInv'
  <2>1. c \in Nat /\ c \in 0 .. MaxNonce + 1
    BY <1>1, ConsumedTyped, QueueAssumption, SMT
  <2>2. \A m \in base' .. c - 1 : FALSE
    BY <1>4, <2>1, SMT
  <2> QED
    BY <1>1, <1>2, <1>4, <2>1, <2>2, ClaimInv
<1>5. ASSUME NEW c \in Consumed .. MaxNonce + 1, hole' = None, base' = c, nextNonce' = c, Done(l),
             UNCHANGED claim
      PROVE  IInv'
  <2> USE DEF Done
  <2>1. c \in Nat /\ c \in 0 .. MaxNonce + 1
    BY <1>1, ConsumedTyped, QueueAssumption, SMT
  <2>2. Tail(line) \in Seq(Labels)
    BY <1>1, HeadTailProperties DEF TypeOK, Holds
  <2>3. \A k \in Labels : step'[k] = IF k = l THEN "done" ELSE step[k]
    BY <1>1, <1>5 DEF TypeOK
  <2>4. TypeOK'
    BY <1>1, <1>2, <1>5, <2>1, <2>2 DEF TypeOK, Consumed
  <2>5. Tracked' = {} /\ Consumed' = Consumed
    BY <1>1, <1>2 DEF Tracked, Consumed
  <2>6. PassOK' /\ CursorAhead' /\ Backpressure' /\ LabelsOK'
    BY <1>1, <1>2, <2>3, <2>5 DEF IInv, PassOK, CursorAhead, Backpressure, LabelsOK
  <2>7. NoNonceUnaccounted'
    BY <1>5, <2>1, SMT DEF NoNonceUnaccounted
  <2>8. LineOK'
    BY <1>1, <1>2, <1>5, <2>3, HolderAlone DEF IInv, LineOK
  <2> QED
    BY <2>4, <2>6, <2>7, <2>8 DEF IInv
<1> QED
  BY <1>3, <1>4, <1>5 DEF Sync

\* The caller's send is answered: the nonce is tracked, or given back and the cursor with it.
LEMMA SendInv == ASSUME IInv, NEW l \in Labels, Send(l) PROVE IInv'
<1> USE DEF Ticking, passVars, Done
<1> DEFINE n == claim[l]
<1>1. /\ TypeOK /\ faults' \in 0 .. MaxFaults /\ phase = "tick" /\ step[l] = "sending"
      /\ Holds(l) /\ hole = None /\ nextNonce = n + 1 /\ n # None
  BY FaultTyped DEF IInv, Send, LineOK, Holds
<1>2. n \in Nonces /\ n \in Nat /\ n \in 0 .. MaxNonce + 1 /\ nextNonce # None
  BY <1>1, NoneAssumption, QueueAssumption, SMT DEF TypeOK, Nonces
<1>3. /\ UNCHANGED <<mined, hole, base, blocksSeen, told, settled, passVars, inflight, known>>
      /\ step' = [step EXCEPT ![l] = "done"] /\ line' = Tail(line)
      /\ claim' = [claim EXCEPT ![l] = None]
  BY DEF Send
<1>4. \/ pending' = [pending EXCEPT ![n] = Fresh(l)] /\ UNCHANGED nextNonce
      \/ UNCHANGED pending /\ nextNonce' = n
  BY <1>1, <1>2, SMT DEF Send, GiveBack
<1>5. Hash(n, l, 0) \in Tx /\ Fresh(l) \in Entry /\ Fresh(l) # None /\ Fresh(l).label = l
  <2>1. 0 \in Bumps /\ {0} \subseteq Bumps
    BY QueueAssumption, SMT DEF Bumps
  <2> QED
    BY <1>2, <2>1, NoneAssumption DEF Hash, Tx, Fresh, Entry
<1>6. pool' \subseteq Tx /\ sendAborted' \in BOOLEAN
  BY <1>1, <1>5 DEF Send, TypeOK
<1>7. Tail(line) \in Seq(Labels)
  BY <1>1, HeadTailProperties DEF TypeOK, Holds
<1>8. /\ \A k \in Labels : step'[k] = IF k = l THEN "done" ELSE step[k]
      /\ \A k \in Labels : claim'[k] = IF k = l THEN None ELSE claim[k]
  BY <1>1, <1>3 DEF TypeOK
<1>9. \A k \in Labels : claim'[k] = None
  BY <1>1, <1>8, HolderAlone
<1>10. TypeOK'
  BY <1>1, <1>2, <1>3, <1>4, <1>5, <1>6, <1>7 DEF TypeOK, Consumed
<1>11. Consumed' = Consumed
  BY <1>3 DEF Consumed
<1>12. PassOK' /\ LineOK'
  BY <1>1, <1>3, <1>8, <1>9, <1>11, HolderAlone DEF IInv, PassOK, LineOK
<1>13. \A m \in Tracked : m < n /\ m \in Nat
  BY <1>1, TrackedTyped DEF IInv, CursorAhead
<1>14. \A m \in base .. n - 1 : m < Consumed \/ m \in Tracked
  <2>1. ASSUME NEW m \in base .. n - 1 PROVE m \in base .. nextNonce - 1 /\ m # n /\ m # None
    BY <1>1, <1>2, NoneAssumption, SMT DEF TypeOK
  <2> QED
    BY <1>1, <1>2, <2>1, HolderAlone DEF IInv, NoNonceUnaccounted
<1>15. CASE pending' = [pending EXCEPT ![n] = Fresh(l)] /\ UNCHANGED nextNonce
  <2>1. /\ \A m \in Nonces : pending'[m] = IF m = n THEN Fresh(l) ELSE pending[m]
        /\ Tracked' = Tracked \cup {n}
    BY <1>1, <1>2, <1>5, <1>15 DEF TypeOK, Tracked
  <2>2. \A m \in Tracked : m < n + 1 /\ m # n
    BY <1>2, <1>13, SMT
  <2>3. CursorAhead'
    BY <1>1, <1>2, <1>9, <1>15, <2>1, <2>2, SMT DEF CursorAhead
  <2>4. NoNonceUnaccounted'
    <3>1. \A m \in base .. n : m = n \/ m \in base .. n - 1
      BY <1>1, <1>2, SMT DEF TypeOK
    <3>2. nextNonce' - 1 = n
      BY <1>1, <1>2, <1>15, SMT
    <3> QED
      BY <1>3, <1>11, <1>14, <2>1, <3>1, <3>2 DEF NoNonceUnaccounted
  <2>5. \A m \in Tracked : pending[m].label # l /\ pending'[m] = pending[m]
    BY <1>1, <2>1, <2>2 DEF IInv, LabelsOK, Tracked
  <2>6. settled[l] = None
    BY <1>1 DEF IInv, LabelsOK
  <2>7. Backpressure'
    <3>1. pending'[n].label = l
      BY <1>2, <1>5, <2>1
    <3>2. \A a \in Tracked' : a = n \/ (a \in Tracked /\ pending'[a] = pending[a])
      BY <2>1, <2>5
    <3>3. ASSUME NEW a \in Tracked', NEW b \in Tracked', pending'[a].label = pending'[b].label
          PROVE  a = b
      BY <2>5, <3>1, <3>2, <3>3 DEF IInv, Backpressure
    <3>4. ASSUME NEW a \in Tracked'
          PROVE  settled[pending'[a].label] = None \/ pending'[a].label \in inflight
      BY <1>1, <2>6, <3>1, <3>2 DEF IInv, Backpressure
    <3> QED
      BY <1>3, <3>3, <3>4 DEF Backpressure
  <2>8. LabelsOK'
    BY <1>1, <1>2, <1>3, <1>5, <1>8, <2>1, <2>5, TrackedTyped DEF IInv, LabelsOK
  <2> QED
    BY <1>10, <1>12, <2>3, <2>4, <2>7, <2>8 DEF IInv
<1>16. CASE UNCHANGED pending /\ nextNonce' = n
  <2>1. Tracked' = Tracked
    BY <1>16 DEF Tracked
  <2>2. CursorAhead' /\ NoNonceUnaccounted'
    BY <1>1, <1>3, <1>9, <1>11, <1>13, <1>14, <1>16, <2>1 DEF CursorAhead, NoNonceUnaccounted
  <2>3. Backpressure' /\ LabelsOK'
    BY <1>1, <1>3, <1>8, <1>16, <2>1, TrackedTyped DEF IInv, Backpressure, LabelsOK
  <2> QED
    BY <1>10, <1>12, <2>2, <2>3 DEF IInv
<1> QED
  BY <1>4, <1>15, <1>16

-----------------------------------------------------------------------------
(* The chain, and a restart.                                               *)

\* The chain consumes one nonce more: what was mined stays mined.
LEMMA MinedInv ==
  ASSUME IInv, NEW t \in Tx \cup {None}, mined' = Append(mined, t), Consumed <= MaxNonce,
         pool' \subseteq Tx, faults' \in 0 .. MaxFaults,
         UNCHANGED <<queueVars, passVars, tickVars, signerVars, known>>
  PROVE  IInv'
<1> USE DEF queueVars, passVars, tickVars, signerVars
<1>1. TypeOK /\ mined \in Seq(Tx \cup {None}) /\ Consumed \in Nat /\ known \in Nat
  BY ConsumedTyped, KnownTyped DEF IInv, TypeOK
<1>2. /\ mined' \in Seq(Tx \cup {None}) /\ Consumed' = Consumed + 1
      /\ \A i \in 1 .. Consumed : mined'[i] = mined[i]
  BY <1>1, AppendProperties DEF Consumed
<1>3. TypeOK'
  BY <1>1, <1>2, QueueAssumption, SMT DEF TypeOK
<1>4. Tracked' = Tracked
  BY DEF Tracked
<1>5. ASSUME NEW m \in Nat, m < Consumed PROVE m < Consumed'
  BY <1>1, <1>2, <1>5, SMT
<1>6. PassOK'
  <2>1. known <= Consumed'
    BY <1>1, <1>2, KnownTyped, SMT
  <2>2. ASSUME NEW n \in Nonces, Unmined(n) PROVE Unmined(n)'
    <3>1. ASSUME n < known PROVE n + 1 \in 1 .. Consumed
      BY <1>1, <3>1, KnownTyped, QueueAssumption, SMT DEF Nonces
    <3> QED
      BY <1>2, <2>2, <3>1 DEF Unmined
  <2>3. \A n \in todo : n \in Nonces /\ n \in Nat
    BY <1>1, QueueAssumption, SMT DEF TypeOK, Nonces
  <2> QED
    BY <1>4, <1>5, <2>1, <2>2, <2>3 DEF IInv, PassOK, Current, MayBump
<1>7. LineOK' /\ LabelsOK' /\ CursorAhead' /\ Backpressure'
  BY <1>4 DEF IInv, LineOK, LabelsOK, CursorAhead, Backpressure
<1>8. NoNonceUnaccounted'
  <2>1. \A m \in base .. nextNonce - 1 : m \in Nat
    BY <1>1, SMT DEF TypeOK
  <2> QED
    BY <1>4, <1>5, <2>1 DEF IInv, NoNonceUnaccounted
<1> QED
  BY <1>3, <1>6, <1>7, <1>8 DEF IInv

LEMMA MineInv == ASSUME IInv, NEW t \in pool, Mine(t) PROVE IInv'
<1>1. TypeOK /\ t \in Tx /\ pool' \subseteq Tx /\ faults' \in 0 .. MaxFaults
  BY DEF IInv, TypeOK, Mine
<1>2. Consumed <= MaxNonce
  <2>1. t.nonce \in Nonces
    BY <1>1 DEF Tx
  <2> QED
    BY <2>1, QueueAssumption, SMT DEF Mine, Nonces
<1> QED
  BY <1>1, <1>2, MinedInv DEF Mine

LEMMA MineForeignInv == ASSUME IInv, MineForeign PROVE IInv'
<1>1. TypeOK /\ pool' \subseteq Tx /\ faults' \in 0 .. MaxFaults
  BY FaultTyped DEF IInv, TypeOK, MineForeign
<1> QED
  BY <1>1, MinedInv DEF MineForeign

\* Whatever only moves the pool, and what moves nothing.
LEMMA PoolInv ==
  ASSUME IInv, pool' \subseteq Tx, faults' \in 0 .. MaxFaults,
         UNCHANGED <<mined, queueVars, passVars, tickVars, signerVars, known>>
  PROVE  IInv'
<1> USE DEF queueVars, passVars, tickVars, signerVars
<1>1. TypeOK'
  BY DEF IInv, TypeOK, Consumed
<1>2. Tracked' = Tracked /\ Consumed' = Consumed
  BY DEF Tracked, Consumed
<1>3. PassOK' /\ LineOK' /\ LabelsOK'
  BY <1>2 DEF IInv, PassOK, LineOK, LabelsOK, Unmined, Current, MayBump
<1>4. CursorAhead' /\ NoNonceUnaccounted' /\ Backpressure'
  BY <1>2 DEF IInv, CursorAhead, NoNonceUnaccounted, Backpressure
<1> QED
  BY <1>1, <1>3, <1>4 DEF IInv

LEMMA EvictInv == ASSUME IInv, NEW t \in pool, Evict(t) PROVE IInv'
<1>1. TypeOK /\ pool' \subseteq Tx /\ faults' \in 0 .. MaxFaults
  BY FaultTyped DEF IInv, TypeOK, Evict
<1> QED
  BY <1>1, PoolInv DEF Evict

\* An empty queue promises nothing about the chain it finds.
ChainTyped ==
  /\ mined \in Seq(Tx \cup {None}) /\ Consumed <= MaxNonce + 1 /\ pool \subseteq Tx
  /\ faults \in 0 .. MaxFaults

LEMMA EmptyInv == StartsEmpty /\ ChainTyped => IInv
<1> SUFFICES ASSUME StartsEmpty, ChainTyped PROVE IInv
  OBVIOUS
<1> USE DEF StartsEmpty
<1>1. Tracked = {}
  BY DEF Tracked
<1>2. 0 \in 0 .. MaxNonce + 1 /\ 0 \in 0 .. ReconcileEveryBlocks - 1 /\ <<>> \in Seq(Labels)
  BY QueueAssumption, SMT
<1>3. TypeOK
  BY <1>2 DEF TypeOK, ChainTyped
<1>4. PassOK
  BY <1>1, <1>3, ConsumedTyped, SMT DEF PassOK
<1>5. LineOK /\ LabelsOK
  BY <1>1 DEF LineOK, LabelsOK
<1>6. CursorAhead /\ NoNonceUnaccounted /\ Backpressure
  BY <1>1 DEF CursorAhead, NoNonceUnaccounted, Backpressure
<1> QED
  BY <1>3, <1>4, <1>5, <1>6 DEF IInv

LEMMA InitInv == Init => IInv
<1> SUFFICES ASSUME Init PROVE IInv
  OBVIOUS
<1>1. mined \in Seq(Tx \cup {None}) /\ Consumed = 0 /\ pool \subseteq Tx
  BY EmptySeq DEF Init, Consumed
<1>2. Consumed <= MaxNonce + 1 /\ faults \in 0 .. MaxFaults
  BY <1>1, QueueAssumption, SMT DEF Init
<1> QED
  BY <1>1, <1>2, EmptyInv DEF Init, ChainTyped

LEMMA EmptyInvNext == StartsEmpty' /\ ChainTyped' => IInv'
BY EmptyInv, PTL

LEMMA RestartInv == ASSUME IInv, Restart PROVE IInv'
<1>1. TypeOK /\ faults' \in 0 .. MaxFaults
  BY FaultTyped DEF IInv, Restart
<1>2. ChainTyped'
  BY <1>1 DEF TypeOK, Restart, chainVars, Consumed, ChainTyped
<1>3. StartsEmpty'
  BY DEF Restart, StartsEmpty
<1> QED
  BY <1>1, <1>2, <1>3, EmptyInvNext

-----------------------------------------------------------------------------
(* The theorems.                                                           *)

LEMMA NextInv == IInv /\ [Next]_vars => IInv'
<1> SUFFICES ASSUME IInv, [Next]_vars PROVE IInv'
  OBVIOUS
<1>1. CASE Pass
  BY <1>1, ScanInv, DecideInv, ReplaceInv, RecheckInv, ReconcileInv, EndSweepInv, CountInv,
     EndReconcileInv, EndPassInv DEF Pass, Entries
<1>2. CASE \E l \in Labels : Submit(l) \/ Submitting(l)
  BY <1>2, SubmitInv, EnterInv, SyncInv, SendInv DEF Submitting
<1>3. CASE UNCHANGED vars
  <2>1. pool' \subseteq Tx /\ faults' \in 0 .. MaxFaults
    BY <1>3 DEF vars, chainVars, IInv, TypeOK
  <2> QED
    BY <1>3, <2>1, PoolInv DEF vars, chainVars
<1> QED
  BY <1>1, <1>2, <1>3, PollInv, EndTickInv, MineInv, EvictInv, MineForeignInv, RestartInv DEF Next

\* What is tracked, latched, claimed and under way agrees at every step of a pass and of a tick.
THEOREM QueueInvariant == Spec => []IInv
BY InitInv, NextInv, PTL DEF Spec

\* Every value the queue, its signer and its runner keep has its type.
THEOREM QueueTypeCorrect == Spec => []TypeOK
<1>1. IInv => TypeOK
  BY DEF IInv
<1> QED
  BY <1>1, QueueInvariant, PTL

\* No tracked nonce is claimed again, and the cursor stays past all of them.
THEOREM CursorStaysAhead == Spec => []CursorAhead
<1>1. IInv => CursorAhead
  BY DEF IInv
<1> QED
  BY <1>1, QueueInvariant, PTL

\* However an entry leaves, its nonce is consumed, latched or still claimed.
THEOREM NoncesAccounted == Spec => []NoNonceUnaccounted
<1>1. IInv => NoNonceUnaccounted
  BY DEF IInv
<1> QED
  BY <1>1, QueueInvariant, PTL

\* A first send is awaited with no latch set and nothing else claimed, so that NoNonceUnaccounted
\* leaves the nonces below it no way but to be consumed or tracked.
THEOREM NoSendOverAHole == Spec => []NoSendAboveHole
<1>1. IInv => NoSendAboveHole
  <2> SUFFICES ASSUME IInv, NEW l \in Labels, step[l] = "sending", NEW m \in base .. claim[l] - 1
               PROVE  m < Consumed \/ m \in Tracked
    BY DEF NoSendAboveHole
  <2>1. Holds(l) /\ hole = None /\ claim[l] # None /\ nextNonce = claim[l] + 1
    BY DEF IInv, LineOK, Holds
  <2>2. claim[l] \in Nat /\ base \in Nat /\ nextNonce # None
    BY <2>1, NoneAssumption, QueueAssumption, SMT DEF IInv, TypeOK, Nonces
  <2>3. m \in base .. nextNonce - 1 /\ m # claim[l] /\ m # None
    BY <2>1, <2>2, NoneAssumption, SMT
  <2>4. \A k \in Labels : claim[k] # m
    BY <2>1, <2>3, HolderAlone
  <2> QED
    BY <2>1, <2>2, <2>3, <2>4 DEF IInv, NoNonceUnaccounted
<1> QED
  BY <1>1, QueueInvariant, PTL

\* No label is tracked twice, nor tracked while it cools down unless this tick leaves it out.
THEOREM LabelsHeldBack == Spec => []Backpressure
<1>1. IInv => Backpressure
  BY DEF IInv
<1> QED
  BY <1>1, QueueInvariant, PTL

\* The caller of a dropped entry is told after a clean look at every hash of it: a hash that was
\* mined before that look is never reported lost.
THEOREM MinedWorkKept == Spec => NoMinedWorkDiscarded
<1> DEFINE Discards == told' # told /\ told' # None /\ told'.kind = "dropped"
<1>1. ASSUME IInv, Next, Discards PROVE Unmined(told'.nonce)
  <2>1. ASSUME NEW n \in todo, phase \in {"reverted", "reconcile"}, ~HasReceipt(n)
        PROVE  Unmined(n)
    <3>1. n \in Nat /\ known \in Nat /\ known <= Consumed /\ Consumed \in Nat
      <4>1. TypeOK /\ n \in Nonces
        BY <1>1 DEF IInv, TypeOK
      <4> QED
        BY <1>1, <4>1, KnownTyped, ConsumedTyped, QueueAssumption, SMT DEF Nonces
    <3>2. n < known => n < Consumed
      BY <3>1, SMT
    <3> QED
      BY <2>1, <3>2 DEF Unmined, HasReceipt
  <2>2. CASE Poll \/ EndSweep \/ Count \/ EndReconcile \/ EndPass \/ EndTick
    BY <1>1, <2>2 DEF Poll, EndSweep, Count, EndReconcile, EndPass, EndTick, KeepQueue, queueVars
  <2>3. ASSUME NEW n \in todo, Scan(n) \/ Replace(n) PROVE FALSE
    BY <1>1, <2>3 DEF Scan, Replace, Confirm, Settle, KeepQueue
  <2>4. ASSUME NEW n \in todo, Decide(n) PROVE Unmined(told'.nonce)
    <3>1. Retire(n) /\ told'.nonce = n
      BY <1>1, <2>4 DEF Decide, Retire, Settle, KeepQueue
    <3> QED
      BY <1>1, <2>4, <3>1 DEF Decide, Passing, IInv, PassOK
  <2>5. ASSUME NEW n \in todo, Recheck(n) PROVE Unmined(told'.nonce)
    <3>1. ~HasReceipt(n) /\ told'.nonce = n
      BY <1>1, <2>5 DEF Recheck, Confirm, Retire, Settle
    <3> QED
      BY <1>1, <2>1, <2>5, <3>1 DEF Recheck, Passing, IInv, PassOK
  <2>6. ASSUME NEW n \in todo, Reconcile(n) PROVE Unmined(told'.nonce)
    <3>1. ~HasReceipt(n) /\ told'.nonce = n
      BY <1>1, <2>6 DEF Reconcile, Confirm, KeepQueue, Settle
    <3> QED
      BY <1>1, <2>1, <2>6, <3>1 DEF Reconcile, Passing, IInv, PassOK
  <2>7. CASE \E l \in Labels : Submit(l) \/ Submitting(l)
    BY <1>1, <2>7 DEF Submit, Submitting, Enter, Sync, Send, Ticking
  <2>8. CASE (\E t \in pool : Mine(t) \/ Evict(t)) \/ MineForeign \/ Restart
    BY <1>1, <2>8 DEF Mine, Evict, MineForeign, Restart, queueVars
  <2> QED
    BY <1>1, <2>2, <2>3, <2>4, <2>5, <2>6, <2>7, <2>8 DEF Next, Pass, Entries
<1>2. IInv /\ [Next]_vars =>
        [Discards => LET n == told'.nonce
                     IN n < known => \A b \in pending[n].bumps : mined[n + 1] # Hash(n, pending[n].label, b)]_vars
  BY <1>1 DEF Unmined
<1> QED
  BY <1>2, QueueInvariant, PTL DEF Spec, NoMinedWorkDiscarded
=============================================================================
