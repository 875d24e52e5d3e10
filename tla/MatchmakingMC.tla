--------------------------- MODULE MatchmakingMC ---------------------------
(***************************************************************************)
(* Instances of Matchmaking for TLC: three sockets, two of them of one     *)
(* user, on one instance or on two.                                        *)
(***************************************************************************)
EXTENDS Matchmaking

CONSTANTS x, y, z, u, v, one, two

\* y and z are two connections of the same user.
TwoUsers == [s \in Sockets |-> IF s = x THEN u ELSE v]

\* Clients put their own userId into the payload.
OwnUser == [s \in Sockets |-> {UserOf[s]}]

\* The second connection of v leaves it out.
ForgetfulZ == [s \in Sockets |-> IF s = z THEN {NoUser} ELSE {UserOf[s]}]

AllOnOne == [s \in Sockets |-> one]
Spread   == [s \in Sockets |-> IF s = x THEN one ELSE two]
=============================================================================
