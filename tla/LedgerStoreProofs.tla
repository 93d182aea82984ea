------------------------- MODULE LedgerStoreProofs -------------------------
(***************************************************************************)
(* LedgerStore implements DurableRegister, for any processes and any       *)
(* number of writes.                                                       *)
(*                                                                         *)
(* The mapping reads the file at the path as the register's value, so the  *)
(* proof must know that this file is whole and stays whole: a rename comes *)
(* after the sync of what it renames (Busy), and what a power loss may     *)
(* bring back was synced before (Kept).  Kept also says why a directory    *)
(* not yet durable loses nothing: no write got past the parent's sync.     *)
(***************************************************************************)
EXTENDS LedgerStore, TLAPS, SequenceTheorems

ReadStages == {"clean", "look"}
Persisted == {"open", "fill", "sync", "rename", "directory"}

\* what may be on the disk after a power loss is synced
Kept ==
  /\ maybe \subseteq stable \cup {Nothing}
  /\ dir # "durable" => maybe = {Nothing}

\* what a process works on is the first of its queue, and each stage found the ones before done
Busy(p) ==
  /\ at[p] # "idle" => tail[p] # <<>> /\ (at[p] \in ReadStages <=> Head(tail[p]) = Read)
  /\ at[p] = "sync" => Head(tail[p]) \in whole
  /\ at[p] = "rename" => Head(tail[p]) \in stable
  /\ synced[p] \/ at[p] \in Persisted => dir = "durable"

IInv == StoreTypeOK /\ Kept /\ \A p \in Processes : Busy(p)

Works == Ledgers \cup {Read}

-----------------------------------------------------------------------------
(* Queues.                                                                 *)

LEMMA FirstStays ==
  ASSUME NEW s \in Seq(Works), NEW e \in Works
  PROVE  /\ Append(s, e) \in Seq(Works) /\ Append(s, e) # <<>>
         /\ s # <<>> => Head(Append(s, e)) = Head(s)
<1>1. Append(s, e) \in Seq(Works) /\ Append(s, e) # <<>>
  BY AppendProperties
<1>2. ASSUME s # <<>> PROVE Head(Append(s, e)) = Head(s)
  <2>1. Len(s) \in Nat \ {0}
    BY <1>2, EmptySeq
  <2>2. 1 \in 1 .. Len(s) /\ Head(s) = s[1]
    BY <1>2, <2>1, HeadTailProperties
  <2>3. Append(s, e)[1] = s[1]
    BY <2>2, AppendProperties
  <2> QED
    BY <1>1, <2>2, <2>3
<1> QED
  BY <1>1, <1>2

LEMMA ReadIsNoWrite == Read \notin Ledgers
BY StoreAssumption DEF Read, Ledgers

LEMMA WorkTyped ==
  ASSUME StoreTypeOK, NEW p \in Processes, tail[p] # <<>>
  PROVE  /\ tail[p] \in Seq(Works) /\ Head(tail[p]) \in Works /\ Tail(tail[p]) \in Seq(Works)
         /\ Head(tail[p]) # Read => Head(tail[p]) \in Ledgers
BY HeadTailProperties DEF StoreTypeOK, Works

\* The stages of a write run on a ledger.
LEMMA WritingIsLedger ==
  ASSUME IInv, NEW p \in Processes, at[p] # "idle", at[p] \notin ReadStages
  PROVE  Writing(p) \in Ledgers
BY WorkTyped DEF IInv, Busy, Writing

\* The file at the path is whole.
LEMMA ContentIsPath == IInv => Content(path) = path
BY DEF IInv, StoreTypeOK, Kept, Content

-----------------------------------------------------------------------------
(* The invariant.                                                          *)

LEMMA InitInv == StoreInit => IInv
<1> SUFFICES ASSUME StoreInit PROVE IInv
  OBVIOUS
<1>1. <<>> \in Seq(Works)
  BY EmptySeq
<1>2. StoreTypeOK
  BY <1>1, StoreAssumption DEF StoreInit, StoreTypeOK, Stages, Works
<1> QED
  BY <1>2 DEF StoreInit, IInv, Kept, Busy, Persisted

LEMMA EnqueueInv ==
  ASSUME IInv, NEW p \in Processes, NEW work \in Works, Enqueue(p, work),
         writes' \in 0 .. MaxWrites
  PROVE  IInv'
<1> USE DEF Enqueue, diskVars
<1>1. tail \in [Processes -> Seq(Works)]
  BY DEF IInv, StoreTypeOK, Works
<1>2. \A q \in Processes :
        /\ tail'[q] \in Seq(Works)
        /\ tail[q] # <<>> => tail'[q] # <<>> /\ Head(tail'[q]) = Head(tail[q])
  BY <1>1, FirstStays
<1>3. StoreTypeOK'
  BY <1>1, <1>2 DEF IInv, StoreTypeOK, Works
<1>4. Kept'
  BY DEF IInv, Kept
<1>5. \A q \in Processes : Busy(q)'
  BY <1>2 DEF IInv, Busy
<1> QED
  BY <1>3, <1>4, <1>5 DEF IInv

LEMMA AskReadInv == ASSUME IInv, NEW p \in Processes, AskRead(p) PROVE IInv'
BY EnqueueInv DEF AskRead, Works, IInv, StoreTypeOK

LEMMA AskWriteInv == ASSUME IInv, NEW p \in Processes, AskWrite(p) PROVE IInv'
<1>1. writes' \in Ledgers /\ writes' \in 0 .. MaxWrites
  BY StoreAssumption, SMT DEF AskWrite, IInv, StoreTypeOK, Ledgers
<1> QED
  BY <1>1, EnqueueInv DEF AskWrite, Works

LEMMA BeginInv == ASSUME IInv, NEW p \in Processes, Begin(p) PROVE IInv'
<1> USE DEF Begin, Running, Writing, Goes
<1>1. StoreTypeOK'
  BY WorkTyped DEF IInv, StoreTypeOK, Stages, First, diskVars
<1>2. Kept'
  BY DEF IInv, Kept, diskVars
<1>3. \A q \in Processes : Busy(q)'
  BY WorkTyped DEF IInv, Kept, StoreTypeOK, Busy, Persisted, ReadStages, First, diskVars
<1> QED
  BY <1>1, <1>2, <1>3 DEF IInv

LEMMA MakeDirectoryInv == ASSUME IInv, NEW p \in Processes, MakeDirectory(p) PROVE IInv'
<1> USE DEF MakeDirectory, Running, Writing, Goes
<1>1. StoreTypeOK'
  BY WorkTyped DEF IInv, StoreTypeOK, Stages, NeedsSync
<1>2. Kept'
  BY DEF IInv, Kept
<1>3. \A q \in Processes : Busy(q)'
  BY WorkTyped DEF IInv, Kept, StoreTypeOK, Busy, Persisted, ReadStages, NeedsSync
<1> QED
  BY <1>1, <1>2, <1>3 DEF IInv

LEMMA SyncParentInv == ASSUME IInv, NEW p \in Processes, SyncParent(p) PROVE IInv'
<1> USE DEF SyncParent, Running, Writing, Goes
<1>1. StoreTypeOK'
  BY WorkTyped DEF IInv, StoreTypeOK, Stages
<1>2. Kept'
  BY DEF IInv, Kept
<1>3. \A q \in Processes : Busy(q)'
  BY WorkTyped DEF IInv, Kept, StoreTypeOK, Busy, Persisted, ReadStages
<1> QED
  BY <1>1, <1>2, <1>3 DEF IInv

LEMMA OpenInv == ASSUME IInv, NEW p \in Processes, Open(p) PROVE IInv'
<1> USE DEF Open, Running, Writing, Goes
<1>1. StoreTypeOK'
  BY WorkTyped, WritingIsLedger DEF IInv, StoreTypeOK, Stages, ReadStages
<1>2. Kept'
  BY DEF IInv, Kept
<1>3. \A q \in Processes : Busy(q)'
  BY WorkTyped DEF IInv, Kept, StoreTypeOK, Busy, Persisted, ReadStages
<1> QED
  BY <1>1, <1>2, <1>3 DEF IInv

LEMMA FillInv == ASSUME IInv, NEW p \in Processes, Fill(p) PROVE IInv'
<1> USE DEF Fill, Running, Writing, Goes
<1>1. StoreTypeOK'
  BY WorkTyped, WritingIsLedger DEF IInv, StoreTypeOK, Stages, ReadStages
<1>2. Kept'
  BY DEF IInv, Kept
<1>3. \A q \in Processes : Busy(q)'
  BY WorkTyped DEF IInv, Kept, StoreTypeOK, Busy, Persisted, ReadStages
<1> QED
  BY <1>1, <1>2, <1>3 DEF IInv

LEMMA SyncFileInv == ASSUME IInv, NEW p \in Processes, SyncFile(p) PROVE IInv'
<1> USE DEF SyncFile, Running, Writing, Goes
<1>1. StoreTypeOK'
  BY WorkTyped, WritingIsLedger DEF IInv, StoreTypeOK, Stages, ReadStages, Busy, Writing
<1>2. Kept'
  BY WorkTyped DEF IInv, Kept, StoreTypeOK, Busy, Persisted
<1>3. \A q \in Processes : Busy(q)'
  BY WorkTyped DEF IInv, Kept, StoreTypeOK, Busy, Persisted, ReadStages
<1> QED
  BY <1>1, <1>2, <1>3 DEF IInv

LEMMA RenameInv == ASSUME IInv, NEW p \in Processes, Rename(p) PROVE IInv'
<1> USE DEF Rename, Running, Writing, Goes
<1>1. StoreTypeOK'
  BY WorkTyped DEF IInv, StoreTypeOK, Stages
<1>2. Kept'
  BY WorkTyped DEF IInv, Kept, StoreTypeOK, Busy, Persisted
<1>3. \A q \in Processes : Busy(q)'
  BY WorkTyped DEF IInv, Kept, StoreTypeOK, Busy, Persisted, ReadStages
<1> QED
  BY <1>1, <1>2, <1>3 DEF IInv

LEMMA RemoveTemporariesInv == ASSUME IInv, NEW p \in Processes, RemoveTemporaries(p) PROVE IInv'
<1> USE DEF RemoveTemporaries, Running, Writing, Goes
<1>1. StoreTypeOK'
  BY WorkTyped DEF IInv, StoreTypeOK, Stages
<1>2. Kept'
  BY DEF IInv, Kept
<1>3. \A q \in Processes : Busy(q)'
  BY WorkTyped DEF IInv, Kept, StoreTypeOK, Busy, Persisted, ReadStages
<1> QED
  BY <1>1, <1>2, <1>3 DEF IInv

LEMMA SyncDirectoryInv == ASSUME IInv, NEW p \in Processes, SyncDirectory(p) PROVE IInv'
<1> USE DEF SyncDirectory, Running, Writing, Answered
<1>1. StoreTypeOK'
  BY WorkTyped DEF IInv, StoreTypeOK, Stages
<1>2. Kept'
  BY WorkTyped DEF IInv, Kept, StoreTypeOK, Busy, Persisted
<1>3. \A q \in Processes : Busy(q)'
  BY WorkTyped DEF IInv, Kept, StoreTypeOK, Busy, Persisted, ReadStages
<1> QED
  BY <1>1, <1>2, <1>3 DEF IInv

LEMMA FailWriteInv == ASSUME IInv, NEW p \in Processes, FailWrite(p) PROVE IInv'
<1> USE DEF FailWrite, Running, Writing, Answered
<1>1. StoreTypeOK'
  BY WorkTyped DEF IInv, StoreTypeOK, Stages
<1>2. Kept'
  BY WorkTyped DEF IInv, Kept, StoreTypeOK, Busy, Persisted
<1>3. \A q \in Processes : Busy(q)'
  BY WorkTyped DEF IInv, Kept, StoreTypeOK, Busy, Persisted, ReadStages
<1> QED
  BY <1>1, <1>2, <1>3 DEF IInv

LEMMA LookInv == ASSUME IInv, NEW p \in Processes, Look(p) PROVE IInv'
<1> USE DEF Look, Running, Writing, Answered
<1>1. StoreTypeOK'
  BY WorkTyped, ContentIsPath DEF IInv, StoreTypeOK, Stages, diskVars
<1>2. Kept'
  BY DEF IInv, Kept, diskVars
<1>3. \A q \in Processes : Busy(q)'
  BY WorkTyped DEF IInv, Kept, StoreTypeOK, Busy, Persisted, ReadStages, diskVars, Content
<1> QED
  BY <1>1, <1>2, <1>3 DEF IInv

LEMMA FailReadInv == ASSUME IInv, NEW p \in Processes, FailRead(p) PROVE IInv'
<1> USE DEF FailRead, Running, Writing, Answered
<1>1. StoreTypeOK'
  BY WorkTyped DEF IInv, StoreTypeOK, Stages, diskVars
<1>2. Kept'
  BY DEF IInv, Kept, diskVars
<1>3. \A q \in Processes : Busy(q)'
  BY WorkTyped DEF IInv, Kept, StoreTypeOK, Busy, Persisted, ReadStages, diskVars
<1> QED
  BY <1>1, <1>2, <1>3 DEF IInv

LEMMA CrashInv == ASSUME IInv, NEW p \in Processes, Crash(p) PROVE IInv'
<1> USE DEF Crash, diskVars
<1>1. StoreTypeOK'
  BY EmptySeq DEF IInv, StoreTypeOK, Stages, Works
<1>2. Kept'
  BY DEF IInv, Kept
<1>3. \A q \in Processes : Busy(q)'
  BY DEF IInv, StoreTypeOK, Busy, Persisted, ReadStages
<1> QED
  BY <1>1, <1>2, <1>3 DEF IInv

LEMMA PowerLossInv == ASSUME IInv, PowerLoss PROVE IInv'
<1> USE DEF PowerLoss
<1>1. <<>> \in Seq(Works)
  BY EmptySeq
<1>2. whole' = stable' /\ stable \subseteq stable' /\ stable' \subseteq Ledgers
  BY DEF IInv, StoreTypeOK
<1>3. path' \in maybe
  BY DEF IInv, Kept, StoreTypeOK
<1>4. StoreTypeOK'
  BY <1>1, <1>2, <1>3 DEF IInv, StoreTypeOK, Stages, Works
<1>5. Kept'
  BY <1>2, <1>3 DEF IInv, Kept, StoreTypeOK
<1>6. \A q \in Processes : Busy(q)'
  BY DEF Busy, Persisted
<1> QED
  BY <1>4, <1>5, <1>6 DEF IInv

LEMMA NextInv == IInv /\ [StoreNext]_storeVars => IInv'
<1> SUFFICES ASSUME IInv, [StoreNext]_storeVars PROVE IInv'
  OBVIOUS
<1>1. ASSUME NEW p \in Processes, Persisting(p) PROVE IInv'
  BY <1>1, MakeDirectoryInv, SyncParentInv, OpenInv, FillInv, SyncFileInv, RenameInv,
     SyncDirectoryInv, FailWriteInv DEF Persisting
<1>2. ASSUME NEW p \in Processes, Reading(p) PROVE IInv'
  BY <1>2, RemoveTemporariesInv, LookInv, FailReadInv DEF Reading
<1>3. CASE UNCHANGED storeVars
  BY <1>3 DEF storeVars, diskVars, IInv, StoreTypeOK, Kept, Busy
<1> QED
  BY <1>1, <1>2, <1>3, AskReadInv, AskWriteInv, BeginInv, CrashInv, PowerLossInv DEF StoreNext

\* What is on the disk and where each process stands fit together in every reachable state.
THEOREM StoreInvariant == StoreSpec => []IInv
BY InitInv, NextInv, PTL DEF StoreSpec

\* Every variable keeps its type, whatever fails.
THEOREM StoreTypeCorrect == StoreSpec => []StoreTypeOK
<1>1. IInv => StoreTypeOK
  BY DEF IInv
<1> QED
  BY <1>1, StoreInvariant, PTL

-----------------------------------------------------------------------------
(* The refinement.                                                         *)

\* The register of the mapping, in the variables of the file system.
LEMMA RegisterIs == IInv => Content(path) = path /\ MayReturn = maybe
<1> SUFFICES ASSUME IInv PROVE Content(path) = path /\ MayReturn = maybe
  OBVIOUS
<1>1. \A f \in maybe : (IF f = Nothing \/ f \in stable THEN f ELSE Torn) = f
  BY DEF IInv, Kept
<1>2. {IF f = Nothing \/ f \in stable THEN f ELSE Torn : f \in maybe} = maybe
  BY <1>1
<1>3. dir = "made" => maybe = {Nothing}
  BY DEF IInv, Kept
<1> QED
  BY <1>2, <1>3, ContentIsPath DEF MayReturn

LEMMA RegisterIsNext == IInv' => (Content(path) = path /\ MayReturn = maybe)'
BY RegisterIs, PTL

LEMMA InitRefines == StoreInit => Register!RegInit
<1> SUFFICES ASSUME StoreInit PROVE Register!RegInit
  OBVIOUS
<1>1. Content(path) = path /\ MayReturn = maybe
  BY InitInv, RegisterIs
<1> QED
  BY <1>1 DEF StoreInit, Register!RegInit, Landed

\* A step of a write before its rename, or of a read before its look, is invisible.
LEMMA Invisible ==
  ASSUME IInv, IInv', NEW p \in Processes, NEW stage, stage # "directory",
         Goes(p, stage), at[p] # "directory", UNCHANGED <<path, maybe, got>>
  PROVE  UNCHANGED Register!regVars
<1>1. Landed' = Landed
  BY DEF Goes, Landed, IInv, StoreTypeOK
<1>2. Content(path)' = Content(path) /\ MayReturn' = MayReturn
  BY RegisterIs, RegisterIsNext
<1> QED
  BY <1>1, <1>2 DEF Register!regVars, Goes

\* The answer to a read or a write is one of the register.
LEMMA Answers ==
  ASSUME IInv, NEW p \in Processes, tail[p] # <<>>, Answered(p)
  PROVE  Register!Answered(p)
<1>1. Landed' = [Landed EXCEPT ![p] = FALSE]
  BY DEF Answered, Landed, IInv, StoreTypeOK
<1> QED
  BY <1>1 DEF Answered, Register!Answered

LEMMA EnqueueRefines ==
  ASSUME IInv, IInv', NEW p \in Processes, NEW work, Enqueue(p, work)
  PROVE  Register!Ask(p, work)
<1>1. Content(path)' = Content(path) /\ MayReturn' = MayReturn
  BY RegisterIs, RegisterIsNext DEF Enqueue, diskVars
<1> QED
  BY <1>1 DEF Enqueue, Landed, Register!Ask

LEMMA RenameRefines ==
  ASSUME IInv, IInv', NEW p \in Processes, Rename(p)
  PROVE  Register!Land(p)
<1> USE DEF Rename, Running, Writing, Goes
<1>1. tail[p] # <<>> /\ Head(tail[p]) # Read /\ ~Landed[p]
  BY DEF IInv, Busy, ReadStages, Landed
<1>2. Landed' = [Landed EXCEPT ![p] = TRUE]
  BY DEF Landed, IInv, StoreTypeOK
<1>3. Content(path)' = Head(tail[p]) /\ MayReturn' = MayReturn \cup {Content(path)'}
  BY RegisterIs, RegisterIsNext
<1> QED
  BY <1>1, <1>2, <1>3 DEF Register!Land

LEMMA SyncDirectoryRefines ==
  ASSUME IInv, IInv', NEW p \in Processes, SyncDirectory(p)
  PROVE  Register!Acknowledge(p)
<1> USE DEF SyncDirectory, Running
<1>1. Content(path)' = Content(path) /\ MayReturn' = {Content(path)}
  BY RegisterIs, RegisterIsNext
<1>2. Landed[p] /\ Register!Answered(p)
  BY Answers DEF Landed
<1> QED
  BY <1>1, <1>2 DEF Register!Acknowledge

LEMMA FailWriteRefines ==
  ASSUME IInv, IInv', NEW p \in Processes, FailWrite(p)
  PROVE  Register!Reject(p)
<1> USE DEF FailWrite
<1>1. Content(path)' = Content(path)
  BY RegisterIs, RegisterIsNext
<1>2. MayReturn' = MayReturn \/ (Landed[p] /\ MayReturn' = {Content(path)})
  BY RegisterIs, RegisterIsNext DEF Landed
<1>3. Register!Answered(p)
  BY Answers
<1> QED
  BY <1>1, <1>2, <1>3 DEF Register!Reject

LEMMA LookRefines ==
  ASSUME IInv, IInv', NEW p \in Processes, Look(p)
  PROVE  Register!Reads(p)
<1> USE DEF Look, Running, diskVars
<1>1. Content(path)' = Content(path) /\ MayReturn' = MayReturn
  BY RegisterIs, RegisterIsNext
<1>2. tail[p] # <<>> /\ Head(tail[p]) = Read
  BY DEF IInv, Busy, ReadStages
<1>3. Register!Answered(p)
  BY Answers
<1> QED
  BY <1>1, <1>2, <1>3 DEF Register!Reads

LEMMA FailReadRefines ==
  ASSUME IInv, IInv', NEW p \in Processes, FailRead(p)
  PROVE  Register!Reject(p)
<1> USE DEF FailRead, diskVars
<1>1. Content(path)' = Content(path) /\ MayReturn' = MayReturn
  BY RegisterIs, RegisterIsNext
<1>2. Register!Answered(p)
  BY Answers
<1> QED
  BY <1>1, <1>2 DEF Register!Reject

LEMMA CrashRefines ==
  ASSUME IInv, IInv', NEW p \in Processes, Crash(p)
  PROVE  Register!Dies(p)
<1> USE DEF Crash, diskVars
<1>1. Content(path)' = Content(path) /\ MayReturn' = MayReturn
  BY RegisterIs, RegisterIsNext
<1>2. Landed' = [Landed EXCEPT ![p] = FALSE]
  BY DEF Landed, IInv, StoreTypeOK
<1> QED
  BY <1>1, <1>2 DEF Register!Dies

LEMMA PowerLossRefines == ASSUME IInv, IInv', PowerLoss PROVE Register!Fails
<1> USE DEF PowerLoss
<1>1. path' \in maybe /\ maybe' = {path'}
  BY DEF IInv, Kept, StoreTypeOK
<1>2. Content(path)' \in MayReturn /\ MayReturn' = {Content(path)'}
  BY <1>1, RegisterIs, RegisterIsNext
<1>3. Landed' = [p \in Processes |-> FALSE]
  BY DEF Landed
<1> QED
  BY <1>2, <1>3 DEF Register!Fails

LEMMA StepRefines ==
  IInv /\ IInv' /\ [StoreNext]_storeVars => [Register!RegNext]_(Register!regVars)
<1> SUFFICES ASSUME IInv, IInv', [StoreNext]_storeVars
             PROVE  Register!RegNext \/ UNCHANGED Register!regVars
  OBVIOUS
<1>1. ASSUME NEW p \in Processes, AskRead(p) PROVE Register!RegNext
  BY <1>1, EnqueueRefines DEF AskRead, Register!RegNext
<1>2. ASSUME NEW p \in Processes, AskWrite(p) PROVE Register!RegNext
  <2>1. writes' \in Ledgers
    BY <1>2, StoreAssumption, SMT DEF AskWrite, IInv, StoreTypeOK, Ledgers
  <2> QED
    BY <1>2, <2>1, EnqueueRefines DEF AskWrite, Register!RegNext
<1>3. ASSUME NEW p \in Processes, Begin(p) PROVE UNCHANGED Register!regVars
  BY <1>3, Invisible DEF Begin, Running, First, diskVars
<1>4. ASSUME NEW p \in Processes, Persisting(p)
      PROVE  Register!RegNext \/ UNCHANGED Register!regVars
  <2>1. CASE MakeDirectory(p)
    BY <2>1, Invisible DEF MakeDirectory, Running
  <2>2. CASE SyncParent(p)
    BY <2>2, Invisible DEF SyncParent, Running
  <2>3. CASE Open(p)
    BY <2>3, Invisible DEF Open, Running
  <2>4. CASE Fill(p)
    BY <2>4, Invisible DEF Fill, Running
  <2>5. CASE SyncFile(p)
    BY <2>5, Invisible DEF SyncFile, Running
  <2>6. CASE Rename(p)
    BY <2>6, RenameRefines DEF Register!RegNext
  <2>7. CASE SyncDirectory(p)
    BY <2>7, SyncDirectoryRefines DEF Register!RegNext
  <2>8. CASE FailWrite(p)
    BY <2>8, FailWriteRefines DEF Register!RegNext
  <2> QED
    BY <1>4, <2>1, <2>2, <2>3, <2>4, <2>5, <2>6, <2>7, <2>8 DEF Persisting
<1>5. ASSUME NEW p \in Processes, Reading(p)
      PROVE  Register!RegNext \/ UNCHANGED Register!regVars
  <2>1. CASE RemoveTemporaries(p)
    BY <2>1, Invisible DEF RemoveTemporaries, Running
  <2>2. CASE Look(p)
    BY <2>2, LookRefines DEF Register!RegNext
  <2>3. CASE FailRead(p)
    BY <2>3, FailReadRefines DEF Register!RegNext
  <2> QED
    BY <1>5, <2>1, <2>2, <2>3 DEF Reading
<1>6. ASSUME NEW p \in Processes, Crash(p) PROVE Register!RegNext
  BY <1>6, CrashRefines DEF Register!RegNext
<1>7. CASE PowerLoss
  BY <1>7, PowerLossRefines DEF Register!RegNext
<1>8. CASE UNCHANGED storeVars
  BY <1>8 DEF storeVars, diskVars, Register!regVars, Content, MayReturn, Landed
<1> QED
  BY <1>1, <1>2, <1>3, <1>4, <1>5, <1>6, <1>7, <1>8 DEF StoreNext

\* Every step of the file's reads and writes, each failing at any await, dying or losing power, is
\* one of the register or none: what the kernel is told is durable stays so.
THEOREM StoreIsRegister == StoreSpec => IsRegister
BY InitRefines, StepRefines, StoreInvariant, PTL DEF StoreSpec, IsRegister, Register!RegSpec
=============================================================================
