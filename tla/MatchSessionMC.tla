--------------------------- MODULE MatchSessionMC ---------------------------
(***************************************************************************)
(* Instances of MatchSession for TLC: two players and two matches.         *)
(***************************************************************************)
EXTENDS MatchSession

CONSTANTS a, b
=============================================================================
