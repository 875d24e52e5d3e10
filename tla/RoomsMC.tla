------------------------------ MODULE RoomsMC ------------------------------
(***************************************************************************)
(* Instances of Rooms for TLC: the connections of two users, who may name  *)
(* each other's private room, and one match.                               *)
(***************************************************************************)
EXTENDS Rooms

CONSTANTS x, y, u, w, roomU, roomW, match

UserOfSocket == [s \in Sockets |-> IF s = x THEN u ELSE w]
PrivateRoom  == [v \in Users |-> IF v = u THEN roomU ELSE roomW]
=============================================================================
