--------------------------- MODULE MCPendingQueue ---------------------------
(* The instances of the pending queue that TLC checks. *)
EXTENDS PendingQueue, TLC
CONSTANTS a, b

LabelsAlike == Permutations(Labels)
=============================================================================
