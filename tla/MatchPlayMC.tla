---------------------------- MODULE MatchPlayMC ----------------------------
(***************************************************************************)
(* Instances of MatchPlay for TLC: two players, and where it is worth its  *)
(* states a third socket that names the match without playing in it.       *)
(***************************************************************************)
EXTENDS MatchPlay

CONSTANTS a, b, c

\* Player a overtakes itself with two submissions, b plays one at a time.
EagerWindow == [s \in Sockets |-> IF s = a THEN 2 ELSE 1]

\* Every client waits for an update before it answers the next question.
PatientWindow == [s \in Sockets |-> 1]
=============================================================================
