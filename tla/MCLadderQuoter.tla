--------------------------- MODULE MCLadderQuoter ---------------------------
(***************************************************************************)
(* An instance of LadderQuoter whose quotes have both sides, or sells only.*)
(***************************************************************************)
EXTENDS LadderQuoter

BothOrSells == {{"buy", "sell"}, {"sell"}}
=============================================================================
