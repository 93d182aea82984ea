-------------------------- MODULE DurableRegister --------------------------
(***************************************************************************)
(* What a LedgerStore promises the kernel: a register that holds a whole   *)
(* ledger or nothing.  The reads and writes of one process apply in the    *)
(* order they were asked; once a write is acknowledged, no crash takes the *)
(* register back past it; a rejected one may or may not have landed.       *)
(* Several processes may hold the register: the last write to land wins.   *)
(***************************************************************************)
EXTENDS Sequences

CONSTANTS Processes, Ledgers, Nothing, Read

VARIABLES
  value,   \* what a read returns now
  back,    \* what it may return after a power loss
  asked,   \* the reads and writes of each process, not answered yet, in the order asked
  landed,  \* the first of them is a write and has reached the register
  seen     \* what each process read last
regVars == <<value, back, asked, landed, seen>>

RegInit ==
  /\ value = Nothing /\ back = {Nothing} /\ seen = [p \in Processes |-> Nothing]
  /\ asked = [p \in Processes |-> <<>>] /\ landed = [p \in Processes |-> FALSE]

Ask(p, v) ==
  /\ asked' = [asked EXCEPT ![p] = Append(@, v)] /\ UNCHANGED <<value, back, landed, seen>>

Land(p) ==
  /\ asked[p] # <<>> /\ Head(asked[p]) # Read /\ ~landed[p]
  /\ value' = Head(asked[p]) /\ back' = back \cup {value'}
  /\ landed' = [landed EXCEPT ![p] = TRUE] /\ UNCHANGED <<asked, seen>>

Answered(p) ==
  /\ asked[p] # <<>>
  /\ asked' = [asked EXCEPT ![p] = Tail(@)] /\ landed' = [landed EXCEPT ![p] = FALSE]

\* the write is durable: what was in the register before it is gone for good
Acknowledge(p) == landed[p] /\ back' = {value} /\ Answered(p) /\ UNCHANGED <<value, seen>>
Reject(p) ==
  /\ back' = back \/ (landed[p] /\ back' = {value})
  /\ Answered(p) /\ UNCHANGED <<value, seen>>

Reads(p) ==
  /\ asked[p] # <<>> /\ Head(asked[p]) = Read /\ seen' = [seen EXCEPT ![p] = value]
  /\ Answered(p) /\ UNCHANGED <<value, back>>

Dies(p) ==
  /\ asked' = [asked EXCEPT ![p] = <<>>] /\ landed' = [landed EXCEPT ![p] = FALSE]
  /\ UNCHANGED <<value, back, seen>>
Fails ==
  /\ value' \in back /\ back' = {value'} /\ UNCHANGED seen
  /\ asked' = [p \in Processes |-> <<>>] /\ landed' = [p \in Processes |-> FALSE]

RegNext ==
  \/ \E p \in Processes : Land(p) \/ Acknowledge(p) \/ Reject(p) \/ Reads(p) \/ Dies(p)
  \/ \E p \in Processes, v \in Ledgers \cup {Read} : Ask(p, v)
  \/ Fails
RegSpec == RegInit /\ [][RegNext]_regVars
=============================================================================
