--------------------------- MODULE MCEngineRunner ---------------------------
(***************************************************************************)
(* An instance of EngineRunner: an effect outside the scope, one of the    *)
(* scope whose requests are recovery work, and a reporter.                 *)
(***************************************************************************)
EXTENDS EngineRunner

InOrder == <<"act", "guard", "report">>
=============================================================================
