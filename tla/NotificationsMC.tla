-------------------------- MODULE NotificationsMC --------------------------
(***************************************************************************)
(* Instances of Notifications for TLC: a socket of the addressed user on   *)
(* the first of the instances.                                             *)
(***************************************************************************)
EXTENDS Notifications

CONSTANTS one, two, x, u, right, wrong

OnTheFirst == [s \in Sockets |-> one]
SameUser   == [s \in Sockets |-> u]
ToThatUser == [m \in Messages |-> {u}]

\* KafkaController is listed by AppModule and by KafkaModule.
AppModules == {"AppModule", "KafkaModule"}
=============================================================================
