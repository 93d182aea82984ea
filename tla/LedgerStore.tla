---------------------------- MODULE LedgerStore ----------------------------
(***************************************************************************)
(* createLedgerStore: the ledger file of framework/kernel, on a file       *)
(* system that may lose what was not synced.  A write fills a fresh        *)
(* temporary, syncs it, renames it over the ledger and syncs the           *)
(* directory; each await is an action that can fail.  A process dies       *)
(* between any two, and a power loss may undo every directory change since *)
(* the last sync and tear every file whose content was not synced.         *)
(* Two processes may hold one path: nothing detects it.                    *)
(***************************************************************************)
EXTENDS Naturals, Sequences

CONSTANTS
  Processes,
  Nothing,    \* no ledger at the path
  Torn,       \* a file that is not a whole ledger
  MaxWrites   \* bound: writes asked for, over every process

ASSUME StoreAssumption == MaxWrites \in Nat /\ {Nothing, Torn} \cap 0 .. MaxWrites = {}

VARIABLES
  dir,      \* the ledger's directory: missing, made, or durable in its parent
  path,     \* the file at the ledger's path
  maybe,    \* the files that may be there after a power loss
  whole,    \* files whose content is complete
  stable,   \* files whose content survives a power loss
  temps,    \* files still at their temporary name
  tail,     \* each process's queue of reads and writes, the running one first
  at,       \* the await the running one is at
  synced,   \* the process has synced the parent directory
  writes,   \* writes asked for so far
  got       \* what each process read last
diskVars == <<dir, path, maybe, whole, stable, temps>>
storeVars == <<diskVars, tail, at, synced, writes, got>>

Ledgers == 1 .. MaxWrites     \* a write's file is named by the write
Read == 0
Stages == {"idle", "mkdir", "parent", "open", "fill", "sync", "rename", "directory", "clean",
           "look"}
First == [write |-> "mkdir", read |-> "clean"]

Content(f) == IF f = Nothing \/ f \in whole THEN f ELSE Torn

\* queued: work runs after what was asked before it, and encodes its ledger at the call
Enqueue(p, work) ==
  /\ tail' = [tail EXCEPT ![p] = Append(@, work)]
  /\ UNCHANGED <<diskVars, at, synced, got>>
AskRead(p) ==
  Enqueue(p, Read) /\ UNCHANGED writes /\ Read \notin {tail[p][i] : i \in DOMAIN tail[p]}
AskWrite(p) == writes < MaxWrites /\ writes' = writes + 1 /\ Enqueue(p, writes')

Running(p, stage) == tail[p] # <<>> /\ at[p] = stage
Writing(p) == Head(tail[p])
Goes(p, stage) == at' = [at EXCEPT ![p] = stage] /\ UNCHANGED <<tail, writes>>
Answered(p) ==
  /\ tail' = [tail EXCEPT ![p] = Tail(@)] /\ at' = [at EXCEPT ![p] = "idle"]
  /\ UNCHANGED writes

Begin(p) ==
  /\ Running(p, "idle") /\ Goes(p, IF Writing(p) = Read THEN First.read ELSE First.write)
  /\ UNCHANGED <<diskVars, synced, got>>

\* ensureDirectory: the parent is synced once per process, whoever made the directory.  The mutant
\* syncs it only when this process made it.
NeedsSyncIfMade(p) == dir = "missing" /\ ~synced[p]
NeedsSync(p) == ~synced[p]
MakeDirectory(p) ==
  /\ Running(p, "mkdir") /\ Goes(p, IF NeedsSync(p) THEN "parent" ELSE "open")
  /\ dir' = IF dir = "missing" THEN "made" ELSE dir
  /\ UNCHANGED <<path, maybe, whole, stable, temps, synced, got>>
SyncParent(p) ==
  /\ Running(p, "parent") /\ dir # "missing" /\ Goes(p, "open")
  /\ dir' = "durable" /\ synced' = [synced EXCEPT ![p] = TRUE]
  /\ UNCHANGED <<path, maybe, whole, stable, temps, got>>

\* persist
Open(p) ==
  /\ Running(p, "open") /\ dir # "missing" /\ Goes(p, "fill")
  /\ temps' = temps \cup {Writing(p)}
  /\ UNCHANGED <<dir, path, maybe, whole, stable, synced, got>>
Fill(p) ==
  /\ Running(p, "fill") /\ Goes(p, "sync") /\ whole' = whole \cup {Writing(p)}
  /\ UNCHANGED <<dir, path, maybe, stable, temps, synced, got>>

SyncFile(p) ==
  /\ Running(p, "sync") /\ Goes(p, "rename") /\ stable' = stable \cup {Writing(p)}
  /\ UNCHANGED <<dir, path, maybe, whole, temps, synced, got>>
Rename(p) ==
  /\ Running(p, "rename") /\ Writing(p) \in temps /\ Goes(p, "directory")
  /\ path' = Writing(p) /\ maybe' = maybe \cup {path'} /\ temps' = temps \ {path'}
  /\ UNCHANGED <<dir, whole, stable, synced, got>>
SyncDirectory(p) ==
  /\ Running(p, "directory") /\ Answered(p) /\ maybe' = {path}
  /\ UNCHANGED <<dir, path, whole, stable, temps, synced, got>>

\* a step of a write fails: its temporary goes and the write is rejected, though it may have landed
FailWrite(p) ==
  /\ tail[p] # <<>> /\ at[p] \notin {"idle", "clean", "look"} /\ Answered(p)
  /\ temps' = temps \ {Writing(p)}
  /\ maybe' \in {maybe, IF at[p] = "directory" THEN {path} ELSE maybe}
  /\ UNCHANGED <<dir, path, whole, stable, synced, got>>

\* readNow
RemoveTemporaries(p) ==
  /\ Running(p, "clean") /\ Goes(p, "look") /\ temps' = {}
  /\ UNCHANGED <<dir, path, maybe, whole, stable, synced, got>>
Look(p) ==
  /\ Running(p, "look") /\ Answered(p) /\ got' = [got EXCEPT ![p] = Content(path)]
  /\ UNCHANGED <<diskVars, synced>>
FailRead(p) ==
  /\ tail[p] # <<>> /\ at[p] \in {"clean", "look"} /\ Answered(p)
  /\ UNCHANGED <<diskVars, synced, got>>

\* the process dies and another starts: the file system is as it was
Crash(p) ==
  /\ tail' = [tail EXCEPT ![p] = <<>>] /\ at' = [at EXCEPT ![p] = "idle"]
  /\ synced' = [synced EXCEPT ![p] = FALSE] /\ UNCHANGED <<diskVars, writes, got>>

\* every process dies, and of the file system remains what was synced and any part of the rest
PowerLoss ==
  /\ tail' = [p \in Processes |-> <<>>] /\ at' = [p \in Processes |-> "idle"]
  /\ synced' = [p \in Processes |-> FALSE] /\ UNCHANGED <<writes, got>>
  /\ \/ /\ dir = "made" /\ dir' = "missing"
        /\ path' = Nothing /\ temps' = {}
     \/ /\ dir' = IF dir = "made" THEN "durable" ELSE dir
        /\ path' \in maybe /\ temps' = temps
  /\ maybe' = {path'} /\ whole' \in {stable, whole} /\ stable' = whole'

StoreInit ==
  /\ dir = "missing" /\ path = Nothing /\ maybe = {Nothing}
  /\ whole = {} /\ stable = {} /\ temps = {}
  /\ tail = [p \in Processes |-> <<>>] /\ at = [p \in Processes |-> "idle"]
  /\ synced = [p \in Processes |-> FALSE] /\ writes = 0 /\ got = [p \in Processes |-> Nothing]

Persisting(p) ==
  MakeDirectory(p) \/ SyncParent(p) \/ Open(p) \/ Fill(p) \/ SyncFile(p) \/ Rename(p)
  \/ SyncDirectory(p) \/ FailWrite(p)
Reading(p) == RemoveTemporaries(p) \/ Look(p) \/ FailRead(p)
StoreNext ==
  \/ \E p \in Processes :
       AskRead(p) \/ AskWrite(p) \/ Begin(p) \/ Persisting(p) \/ Reading(p) \/ Crash(p)
  \/ PowerLoss
StoreSpec == StoreInit /\ [][StoreNext]_storeVars

-----------------------------------------------------------------------------
(* Properties.                                                             *)

\* What every variable may hold; what is synced is whole, and the file at the path may stay there.
StoreTypeOK ==
  /\ dir \in {"missing", "made", "durable"} /\ path \in Ledgers \cup {Nothing}
  /\ maybe \subseteq Ledgers \cup {Nothing} /\ path \in maybe
  /\ stable \subseteq whole /\ whole \subseteq Ledgers /\ temps \subseteq Ledgers
  /\ tail \in [Processes -> Seq(Ledgers \cup {Read})] /\ at \in [Processes -> Stages]
  /\ synced \in [Processes -> BOOLEAN] /\ writes \in 0 .. MaxWrites
  /\ got \in [Processes -> Ledgers \cup {Nothing}]

MayReturn ==
  {IF f = Nothing \/ f \in stable THEN f ELSE Torn : f \in maybe}
  \cup (IF dir = "made" THEN {Nothing} ELSE {})
Landed == [p \in Processes |-> at[p] = "directory"]
Register == INSTANCE DurableRegister WITH
  value <- Content(path), back <- MayReturn, asked <- tail, landed <- Landed, seen <- got

\* The file is that register: a reader sees a whole ledger or none, an acknowledged write survives
\* every crash and power loss, and a rejected one leaves the old ledger or its own, whatever step
\* of whichever process fails.
IsRegister == Register!RegSpec
=============================================================================
