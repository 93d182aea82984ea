------------------------- MODULE MCControllerTasks -------------------------
(***************************************************************************)
(* Small instances of ControllerTasks: what a policy can ask of the keys.  *)
(***************************************************************************)
EXTENDS ControllerTasks, TLC

Keys2 == 1 .. 2
\* two keys of one rank, each with a conflict id of its own; the first may ask for the other's too
Want(ids) == [task |-> "t", priority |-> 1, ids |-> ids]
Contend == <<{Want({"x"}), Want({"x", "y"})}, {Want({"y"})}>>
\* acts of the first key take up to two steps, and one of the second may leave an entry
Steps2 == <<2, 1>>
Records2 == Recovery :> 1 @@ 1 :> 2 @@ 2 :> 1
=============================================================================
