------------------------ MODULE MCTransactionKernel ------------------------
(***************************************************************************)
(* Small instances of TransactionKernel: the plans the bots submit, one or *)
(* two at a time, and the settings of KernelConfig scaled to a few blocks. *)
(***************************************************************************)
EXTENDS TransactionKernel, TLC

\* steps, as the validators read them
Open1 == [kind |-> "tx", creates |-> {1}, exposes |-> {}, retires |-> {}, consumes |-> TRUE]
Sign1 == [kind |-> "sign", creates |-> {1}, exposes |-> {}, retires |-> {}, consumes |-> FALSE]
Release1 == [kind |-> "release", creates |-> {}, exposes |-> {1}, retires |-> {},
             consumes |-> FALSE]
Cancel1 == [kind |-> "tx", creates |-> {}, exposes |-> {}, retires |-> {1}, consumes |-> FALSE]
Spend == [kind |-> "tx", creates |-> {}, exposes |-> {}, retires |-> {}, consumes |-> TRUE]

\* one plan whose transaction creates an offer
CreatePlan == "create" :> <<Open1>>
\* the same, and a plan that cancels what it created
CreateAndCancel == CreatePlan @@ "cancel" :> <<Cancel1>>
\* an offer signed first, then released offchain twice: the second changes nothing in the ledger
ReleaseTwice == "release" :> <<Sign1, Release1, Release1>>
\* a plan of two transactions, each its own stage
TwoStage == "spend" :> <<Spend, Spend>>

Inclusion == 1 :> "inclusion"
Broadcast == 1 :> "broadcast"
NeverExpires == 1 :> 99
ExpiresAt2 == 1 :> 2
ExpiresAt3 == 1 :> 3
NoOffer == [o \in {} |-> "inclusion"]
NoExpiry == [o \in {} |-> 0]
=============================================================================
