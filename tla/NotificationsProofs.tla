------------------------ MODULE NotificationsProofs ------------------------
(***************************************************************************)
(* Safety of Notifications for every set of instances, sockets and users,  *)
(* every number of events, registered handlers, crashes and rebalances.    *)
(*                                                                         *)
(* TypeInv needs nothing else.  ReachInv, who is in which room, rests on   *)
(* it, and NewsInv, who has received what, rests on both.                  *)
(***************************************************************************)
EXTENDS Notifications, FiniteSetTheorems, TLAPS

USE DEF Offsets, Messages

\* What is committed has been handled, also right after a rebalance.
TypeInv == TypeOK /\ committed <= position

\* An instance with the Redis adapter has a server.
ServerUp == \A i \in Instances : adapter[i] = "redis" => stage[i] \in {"starting", "listening"}

\* A socket that is connecting or admitted joined some adapter.
JoinedSome == \A s \in Sockets : phase[s] \in {"joining", "open"} => s \in inRoom \cup early

\* Nobody is admitted before the adapter is replaced.
AdmittedLate == \A s \in Sockets : phase[s] = "open" => adapter[Home[s]] = "redis"

\* Sockets a message is due to can still be reached.
DueReachable == \A m \in Messages : due[m] \subseteq Reachable(m)

ReachInv == ServerUp /\ JoinedSome /\ AdmittedLate /\ DueReachable

\* Up to the position, of whichever owner, everything due was received.
HandledReceived ==
    \A e \in Offsets \ missed : e <= position => \A s \in due[e] : received[s][e] > 0

AnsweredReceived ==
    \A r \in Requests \ missed : answers[r] = "queued" => \A s \in due[r] : received[s][r] > 0

ReceivedProduced == \A s \in Sockets, e \in Offsets : received[s][e] > 0 => e <= produced

NewsInv == HandledReceived /\ AnsweredReceived /\ ReceivedProduced /\ NewsInOrder

Inv == TypeInv /\ ReachInv /\ NewsInv

-----------------------------------------------------------------------------
(* Emits                                                                   *)

\* An event is handled at least once.
LEMMA HandlersCount == Cardinality(Handlers) \in Nat \ {0}
  BY HandlerAssumption, FS_CardinalityType, FS_EmptySet

\* An emit adds to what was received of its message and changes nothing else.
LEMMA EmitAdds ==
    ASSUME TypeOK, NEW i \in Instances, NEW m \in Messages, NEW times \in Nat,
           sendNotificationToUsers(i, m, times)
    PROVE  /\ received' \in [Sockets -> [Messages -> Nat]]
           /\ \A s \in Sockets, k \in Messages : received'[s][k] >= received[s][k]
           /\ \A s \in Sockets, k \in Messages \ {m} : received'[s][k] = received[s][k]
<1>. DEFINE to == {s \in RoomMembers(i) : UserOf[s] \in Addressees[m]}
<1>1. \A s \in Sockets : received[s] \in [Messages -> Nat]
  BY DEF TypeOK
<1>2. \A s \in Sockets : received'[s] = IF s \in to
                                         THEN [received[s] EXCEPT ![m] = @ + times]
                                         ELSE received[s]
  BY DEF sendNotificationToUsers
<1>. HIDE DEF to, Messages
<1>3. ASSUME NEW s \in Sockets
      PROVE  /\ received'[s] \in [Messages -> Nat]
             /\ received'[s][m] >= received[s][m]
             /\ \A k \in Messages \ {m} : received'[s][k] = received[s][k]
  <2>1. received[s] \in [Messages -> Nat]
    BY <1>1
  <2>2. CASE s \in to
    <3>1. received'[s] = [received[s] EXCEPT ![m] = @ + times]
      BY <1>2, <2>2
    <3>2. received[s][m] \in Nat /\ received[s][m] + times \in Nat
      BY <2>1
    <3>. QED  BY <2>1, <3>1, <3>2
  <2>3. CASE s \notin to
    <3>1. received'[s] = received[s]
      BY <1>2, <2>3
    <3>2. received[s][m] \in Nat
      BY <2>1
    <3>. QED  BY <2>1, <3>1, <3>2
  <2>. QED  BY <2>2, <2>3
<1>4. received' = [s \in Sockets |-> received'[s]]
  BY DEF sendNotificationToUsers
<1>. QED  BY <1>1, <1>3, <1>4

\* An instance with the Redis adapter reaches every socket that can be reached.
LEMMA EmitReaches ==
    ASSUME TypeOK, AdmittedLate, NEW i \in Instances, adapter[i] = "redis",
           NEW m \in Messages, NEW times \in Nat \ {0}, sendNotificationToUsers(i, m, times),
           NEW s \in Reachable(m)
    PROVE  received'[s][m] > 0
<1>1. s \in RoomMembers(i) /\ UserOf[s] \in Addressees[m] /\ s \in Sockets
  BY SocketAssumption DEF Reachable, RoomMembers, AdmittedLate, TypeOK
<1>2. received'[s] = [received[s] EXCEPT ![m] = @ + times]
  BY <1>1 DEF sendNotificationToUsers
<1>. QED  BY <1>1, <1>2 DEF TypeOK

-----------------------------------------------------------------------------
(* Types                                                                   *)

LEMMA TypeInvInit == Init => TypeInv
  BY OwnerAssumption, BoundsAssumption DEF Init, TypeInv, TypeOK

LEMMA TypeInvNext == TypeInv /\ [Next]_vars => TypeInv'
<1>. SUFFICES ASSUME TypeInv, [Next]_vars PROVE TypeInv'
  OBVIOUS
<1>. USE BoundsAssumption, SocketAssumption DEF TypeInv, TypeOK
<1>1. ASSUME NEW i \in Instances, Start(i) PROVE TypeInv'
  BY <1>1 DEF Start, StartMicroservices, InitModules, ReplaceAdapter, Listen,
     socketVars, kafkaVars, newsVars
<1>2. ASSUME NEW i \in Instances, Crash(i) PROVE TypeInv'
  BY <1>2 DEF Crash, newsVars
<1>3. ASSUME NEW i \in Instances, Assign(i) PROVE TypeInv'
  BY <1>3 DEF Assign, bootVars, socketVars, newsVars
<1>4. ASSUME NEW s \in Sockets, Connect(s) \/ Admitted(s) \/ Disconnect(s) PROVE TypeInv'
  <2>1. CASE Connect(s)
    BY <2>1 DEF Connect, bootVars, kafkaVars, newsVars
  <2>2. CASE Admitted(s)
    BY <2>2 DEF Admitted, bootVars, kafkaVars, newsVars
  <2>3. CASE Disconnect(s)
    BY <2>3 DEF Disconnect, bootVars, kafkaVars, newsVars
  <2>. QED  BY <1>4, <2>1, <2>2, <2>3
<1>5. ASSUME NEW i \in Instances, NEW r \in Requests, Notify(i, r) PROVE TypeInv'
  <2>1. received' \in [Sockets -> [Messages -> Nat]]
    BY <1>5, EmitAdds DEF Notify, newsVars
  <2>2. due' \in [Messages -> SUBSET Sockets]
    BY <1>5 DEF Notify, Reachable
  <2>. QED  BY <1>5, <2>1, <2>2 DEF Notify, bootVars, socketVars, kafkaVars, newsVars
<1>6. CASE Produce
  <2>1. due' \in [Messages -> SUBSET Sockets]
    BY <1>6 DEF Produce, Reachable
  <2>. QED  BY <1>6, <2>1 DEF Produce, bootVars, socketVars, kafkaVars, newsVars
<1>7. ASSUME NEW i \in Instances, HandleEvent(i) PROVE TypeInv'
  <2>1. position + 1 \in Messages
    BY <1>7 DEF HandleEvent
  <2>2. received' \in [Sockets -> [Messages -> Nat]]
    BY <1>7, <2>1, EmitAdds, HandlersCount DEF HandleEvent
  <2>. QED  BY <1>7, <2>1, <2>2 DEF HandleEvent, bootVars, socketVars
<1>8. CASE AutoCommit
  BY <1>8 DEF AutoCommit, bootVars, socketVars, newsVars
<1>9. CASE UNCHANGED vars
  BY <1>9 DEF vars, bootVars, socketVars, kafkaVars, newsVars
<1>. QED  BY <1>1, <1>2, <1>3, <1>4, <1>5, <1>6, <1>7, <1>8, <1>9 DEF Next, Consume

-----------------------------------------------------------------------------
(* Rooms                                                                   *)

LEMMA ReachInvInit == Init => ReachInv
  BY SocketAssumption
  DEF Init, ReachInv, ServerUp, JoinedSome, AdmittedLate, DueReachable, Reachable

\* ReplaceAdapter takes nobody away that a message is due to: they are admitted,
\* so that their instance has its adapter already.
LEMMA ReachInvNext == TypeOK /\ ReachInv /\ [Next]_vars => ReachInv'
<1>. SUFFICES ASSUME TypeOK, ReachInv, [Next]_vars PROVE ReachInv'
  OBVIOUS
<1>. USE SocketAssumption
     DEF TypeOK, ReachInv, ServerUp, JoinedSome, AdmittedLate, DueReachable, Reachable
<1>1. ASSUME NEW i \in Instances, Start(i) PROVE ReachInv'
  <2>1. CASE ReplaceAdapter(i)
    BY <2>1 DEF ReplaceAdapter
  <2>2. CASE StartMicroservices(i) \/ InitModules(i) \/ Listen(i)
    BY <2>2 DEF StartMicroservices, InitModules, Listen, socketVars
  <2>. QED  BY <1>1, <2>1, <2>2 DEF Start
<1>2. ASSUME NEW i \in Instances, Crash(i) PROVE ReachInv'
  BY <1>2 DEF Crash
<1>3. ASSUME NEW i \in Instances, Assign(i) PROVE ReachInv'
  BY <1>3 DEF Assign, bootVars, socketVars
<1>4. ASSUME NEW s \in Sockets, Connect(s) \/ Admitted(s) \/ Disconnect(s) PROVE ReachInv'
  BY <1>4 DEF Connect, Admitted, Disconnect, bootVars
<1>5. ASSUME NEW i \in Instances, NEW r \in Requests, Notify(i, r) PROVE ReachInv'
  <2>1. due' = [due EXCEPT ![r] = Reachable(r)] \/ due' = due
    BY <1>5 DEF Notify
  <2>2. UNCHANGED <<stage, adapter, phase, inRoom, early>>
    BY <1>5 DEF Notify, bootVars, socketVars
  <2>3. ServerUp' /\ JoinedSome' /\ AdmittedLate'
    BY <2>2
  <2>4. \A m \in Messages : Reachable(m)' = Reachable(m)
    BY <2>2
  <2>5. \A m \in Messages : due'[m] = due[m] \/ due'[m] = Reachable(m)
    BY <2>1
  <2>6. DueReachable'
    BY <2>4, <2>5
  <2>. QED  BY <2>3, <2>6
<1>6. CASE Produce
  BY <1>6 DEF Produce, bootVars, socketVars
<1>7. ASSUME NEW i \in Instances, HandleEvent(i) PROVE ReachInv'
  BY <1>7 DEF HandleEvent, bootVars, socketVars
<1>8. CASE AutoCommit
  BY <1>8 DEF AutoCommit, bootVars, socketVars
<1>9. CASE UNCHANGED vars
  BY <1>9 DEF vars, bootVars, socketVars
<1>. QED  BY <1>1, <1>2, <1>3, <1>4, <1>5, <1>6, <1>7, <1>8, <1>9 DEF Next, Consume

-----------------------------------------------------------------------------
(* News                                                                    *)

LEMMA NewsInvInit == Init => NewsInv
  BY RequestAssumption, BoundsAssumption
  DEF Init, NewsInv, HandledReceived, AnsweredReceived, ReceivedProduced, NewsInOrder

\* Steps that deliver and produce nothing: sockets may go, and the position may
\* fall back.
LEMMA NewsInvQuiet ==
    ASSUME TypeOK, TypeOK', NewsInv, UNCHANGED <<received, missed, answers, produced>>,
           position' <= position, \A m \in Messages : due'[m] \subseteq due[m]
    PROVE  NewsInv'
<1>1. HandledReceived'
  BY DEF TypeOK, NewsInv, HandledReceived
<1>2. AnsweredReceived'
  BY DEF NewsInv, AnsweredReceived
<1>3. ReceivedProduced'
  BY DEF NewsInv, ReceivedProduced
<1>4. NewsInOrder'
  BY DEF NewsInv, NewsInOrder
<1>. QED  BY <1>1, <1>2, <1>3, <1>4 DEF NewsInv

\* A new event is due to the sockets that can be reached and was not received yet.
LEMMA NewsInvProduce == TypeOK /\ NewsInv /\ Produce => NewsInv'
<1>. SUFFICES ASSUME TypeOK, NewsInv, Produce PROVE NewsInv'
  OBVIOUS
<1>. DEFINE new == produced + 1
<1>1. /\ UNCHANGED <<received, missed, answers, position>>
      /\ new \in Offsets /\ produced' = new
      /\ \A m \in Messages \ {new} : due'[m] = due[m]
  BY BoundsAssumption DEF Produce, TypeOK, kafkaVars, newsVars
<1>2. position < new /\ \A s \in Sockets, e \in Offsets : received[s][e] > 0 => e < new
  BY DEF TypeOK, NewsInv, ReceivedProduced
<1>3. new \notin Requests
  BY <1>1, RequestAssumption
<1>4. HandledReceived'
  <2>1. \A e \in Offsets : e <= position => e # new
    BY <1>2 DEF TypeOK
  <2>. QED  BY <1>1, <2>1 DEF NewsInv, HandledReceived
<1>5. AnsweredReceived'
  BY <1>1, <1>3 DEF NewsInv, AnsweredReceived
<1>6. ReceivedProduced'
  BY <1>1, <1>2 DEF NewsInv, ReceivedProduced
<1>7. NewsInOrder'
  BY <1>1, <1>2 DEF NewsInv, NewsInOrder
<1>. QED  BY <1>4, <1>5, <1>6, <1>7 DEF NewsInv

\* A 202 is given after the emit.
LEMMA NewsInvNotify ==
    ASSUME TypeOK, AdmittedLate, NewsInv, NEW i \in Instances, NEW r \in Requests, Notify(i, r)
    PROVE  NewsInv'
<1>0. UNCHANGED <<produced, position>> /\ r \notin Offsets
  BY RequestAssumption DEF Notify, kafkaVars
<1>1. CASE r \in Authorised
  <2>1. /\ sendNotificationToUsers(i, r, 1)
        /\ due' = [due EXCEPT ![r] = Reachable(r)]
        /\ answers' = [answers EXCEPT ![r] = "queued"]
        /\ missed' = IF adapter[i] = "redis" THEN missed ELSE missed \cup {r}
    BY <1>1 DEF Notify
  <2>2. /\ \A m \in Messages \ {r} : due'[m] = due[m]
        /\ \A k \in Requests \ {r} : answers'[k] = answers[k]
        /\ due'[r] = Reachable(r)
        /\ missed \subseteq missed' /\ missed' \ {r} \subseteq missed
    BY <2>1 DEF TypeOK
  <2>3. \A s \in Sockets, k \in Messages \ {r} : received'[s][k] = received[s][k]
    BY <2>1, EmitAdds
  <2>4. r \notin missed' => \A s \in Reachable(r) : received'[s][r] > 0
    <3>. SUFFICES ASSUME r \notin missed', NEW s \in Reachable(r) PROVE received'[s][r] > 0
      OBVIOUS
    <3>1. adapter[i] = "redis"
      BY <2>1
    <3>2. r \in Messages /\ 1 \in Nat \ {0}
      OBVIOUS
    <3>3. sendNotificationToUsers(i, r, 1)
      BY <2>1
    <3>. HIDE DEF Messages
    <3>. QED  BY <3>1, <3>2, <3>3, EmitReaches
  <2>5. HandledReceived'
    BY <1>0, <2>2, <2>3 DEF NewsInv, HandledReceived, TypeOK
  <2>6. AnsweredReceived'
    <3>. SUFFICES ASSUME NEW k \in Requests \ missed', answers'[k] = "queued", NEW s \in due'[k]
                  PROVE  received'[s][k] > 0
      BY DEF AnsweredReceived
    <3>1. CASE k = r
      BY <3>1, <2>2, <2>4
    <3>2. CASE k # r
      <4>1. k \in Requests \ missed /\ answers[k] = "queued" /\ s \in due[k] /\ s \in Sockets
        BY <3>2, <2>2 DEF TypeOK
      <4>. QED  BY <3>2, <4>1, <2>3 DEF NewsInv, AnsweredReceived
    <3>. QED  BY <3>1, <3>2
  <2>7. ReceivedProduced'
    BY <1>0, <2>3 DEF NewsInv, ReceivedProduced
  <2>8. NewsInOrder'
    BY <1>0, <2>2, <2>3 DEF NewsInv, NewsInOrder
  <2>. QED  BY <2>5, <2>6, <2>7, <2>8 DEF NewsInv
<1>2. CASE r \notin Authorised
  <2>1. /\ UNCHANGED <<received, missed, due>>
        /\ \A k \in Requests : answers'[k] = "queued" => answers[k] = "queued"
    BY <1>2 DEF Notify, newsVars, TypeOK
  <2>. QED  BY <1>0, <2>1
            DEF NewsInv, HandledReceived, AnsweredReceived, ReceivedProduced, NewsInOrder
<1>. QED  BY <1>1, <1>2

\* The event at the position is received by all it is due to, or missed; all below
\* it were, so that it overtakes none of them.
LEMMA NewsInvHandle ==
    ASSUME TypeOK, TypeOK', ServerUp, AdmittedLate, DueReachable, NewsInv,
           NEW i \in Instances, HandleEvent(i)
    PROVE  NewsInv'
<1>. DEFINE next == position + 1
<1>1. /\ next \in Offsets /\ next <= produced
      /\ position' = next
      /\ UNCHANGED <<due, answers, produced>>
      /\ missed' = IF adapter[i] = "redis" THEN missed ELSE missed \cup {next}
  BY BoundsAssumption DEF HandleEvent, TypeOK
<1>2. /\ \A s \in Sockets, k \in Messages : received'[s][k] >= received[s][k]
      /\ \A s \in Sockets, k \in Messages \ {next} : received'[s][k] = received[s][k]
  <2>1. CASE stage[i] = "consuming"
    BY <2>1 DEF HandleEvent, TypeOK
  <2>2. CASE stage[i] # "consuming"
    <3>1. sendNotificationToUsers(i, next, Cardinality(Handlers))
      BY <2>2 DEF HandleEvent
    <3>. QED  BY <1>1, <3>1, EmitAdds, HandlersCount
  <2>. QED  BY <2>1, <2>2
<1>3. next \notin missed' => \A s \in due[next] : received'[s][next] > 0
  <2>. SUFFICES ASSUME next \notin missed', NEW s \in due[next] PROVE received'[s][next] > 0
    OBVIOUS
  <2>1. adapter[i] = "redis"
    BY <1>1
  <2>2. stage[i] # "consuming"
    BY <2>1 DEF ServerUp
  <2>3. sendNotificationToUsers(i, next, Cardinality(Handlers))
    BY <2>2 DEF HandleEvent
  <2>4. s \in Reachable(next)
    BY <1>1 DEF DueReachable
  <2>. QED  BY <1>1, <2>1, <2>3, <2>4, EmitReaches, HandlersCount
<1>4. missed \subseteq missed' /\ missed' \ {next} \subseteq missed
  BY <1>1
<1>5. \A m \in Messages : due[m] \subseteq Sockets
  BY DEF TypeOK
<1>6. HandledReceived'
  <2>. SUFFICES ASSUME NEW e \in Offsets \ missed', e <= next, NEW s \in due[e]
                PROVE  received'[s][e] > 0
    BY <1>1 DEF HandledReceived
  <2>1. CASE e = next
    BY <2>1, <1>3
  <2>2. CASE e # next
    BY <2>2, <1>2, <1>4, <1>5 DEF NewsInv, HandledReceived, TypeOK
  <2>. QED  BY <2>1, <2>2
<1>7. AnsweredReceived'
  <2>1. \A k \in Requests : k # next /\ \A s \in Sockets : received'[s][k] = received[s][k]
    BY <1>1, <1>2, RequestAssumption
  <2>2. UNCHANGED <<due, answers>> /\ \A k \in Requests : k \notin missed' => k \notin missed
    BY <1>1, <1>4
  <2>. QED  BY <2>1, <2>2, <1>5 DEF NewsInv, AnsweredReceived
<1>8. ReceivedProduced'
  BY <1>1, <1>2 DEF NewsInv, ReceivedProduced
<1>9. NewsInOrder'
  <2>. SUFFICES ASSUME NEW s \in Sockets, NEW e \in Offsets, NEW f \in Offsets,
                       e < f, s \in due[e], received'[s][f] > 0, e \notin missed'
                PROVE  received'[s][e] > 0
    BY <1>1 DEF NewsInOrder
  <2>1. CASE f = next
    BY <2>1, <1>6, <1>1 DEF HandledReceived, TypeOK
  <2>2. CASE f # next
    <3>1. received[s][f] > 0 /\ e \notin missed
      BY <2>2, <1>2, <1>4
    <3>2. received[s][e] > 0
      BY <3>1 DEF NewsInv, NewsInOrder
    <3>. QED  BY <3>2, <1>2 DEF TypeOK
  <2>. QED  BY <2>1, <2>2
<1>. QED  BY <1>6, <1>7, <1>8, <1>9 DEF NewsInv

LEMMA NewsInvNext == TypeInv /\ ReachInv /\ NewsInv /\ [Next]_vars => NewsInv'
<1>. SUFFICES ASSUME TypeInv, ReachInv, NewsInv, [Next]_vars PROVE NewsInv'
  OBVIOUS
<1>0. TypeOK /\ TypeOK' /\ committed <= position /\ position <= position
  <2>1. TypeOK /\ TypeOK' /\ committed <= position
    BY TypeInvNext DEF TypeInv
  <2>2. position <= position
    BY <2>1 DEF TypeOK
  <2>. QED  BY <2>1, <2>2
<1>1. ASSUME NEW i \in Instances, Start(i) PROVE NewsInv'
  <2>1. UNCHANGED <<received, missed, answers, produced, position, due>>
    BY <1>1 DEF Start, StartMicroservices, InitModules, ReplaceAdapter, Listen,
       kafkaVars, newsVars
  <2>. QED  BY <1>0, <2>1, NewsInvQuiet
<1>2. ASSUME NEW i \in Instances, Crash(i) PROVE NewsInv'
  <2>1. /\ UNCHANGED <<received, missed, answers, produced, position>>
        /\ \A m \in Messages : due'[m] \subseteq due[m]
    BY <1>2 DEF Crash, newsVars
  <2>. QED  BY <1>0, <2>1, NewsInvQuiet
<1>3. ASSUME NEW i \in Instances, Assign(i) PROVE NewsInv'
  <2>1. UNCHANGED <<received, missed, answers, produced, due>> /\ position' = committed
    BY <1>3 DEF Assign, newsVars
  <2>. QED  BY <1>0, <2>1, NewsInvQuiet
<1>4. ASSUME NEW s \in Sockets, Connect(s) \/ Admitted(s) \/ Disconnect(s) PROVE NewsInv'
  <2>1. /\ UNCHANGED <<received, missed, answers, produced, position>>
        /\ \A m \in Messages : due'[m] \subseteq due[m]
    BY <1>4 DEF Connect, Admitted, Disconnect, kafkaVars, newsVars
  <2>. QED  BY <1>0, <2>1, NewsInvQuiet
<1>5. ASSUME NEW i \in Instances, NEW r \in Requests, Notify(i, r) PROVE NewsInv'
  BY <1>0, <1>5, NewsInvNotify DEF ReachInv
<1>6. CASE Produce
  BY <1>0, <1>6, NewsInvProduce
<1>7. ASSUME NEW i \in Instances, HandleEvent(i) PROVE NewsInv'
  BY <1>0, <1>7, NewsInvHandle DEF ReachInv
<1>8. CASE AutoCommit
  <2>1. UNCHANGED <<received, missed, answers, produced, position, due>>
    BY <1>8 DEF AutoCommit, newsVars
  <2>. QED  BY <1>0, <2>1, NewsInvQuiet
<1>9. CASE UNCHANGED vars
  <2>1. UNCHANGED <<received, missed, answers, produced, position, due>>
    BY <1>9 DEF vars, kafkaVars, newsVars
  <2>. QED  BY <1>0, <2>1, NewsInvQuiet
<1>. QED  BY <1>1, <1>2, <1>3, <1>4, <1>5, <1>6, <1>7, <1>8, <1>9 DEF Next, Consume

-----------------------------------------------------------------------------
(* Theorems                                                                *)

LEMMA InvAlways == Spec => []Inv
<1>1. Init => Inv
  BY TypeInvInit, ReachInvInit, NewsInvInit DEF Inv
<1>2. Inv /\ [Next]_vars => Inv'
  BY TypeInvNext, ReachInvNext, NewsInvNext DEF Inv, TypeInv
<1>. QED  BY <1>1, <1>2, PTL DEF Spec

\* Whatever starts, crashes and is reassigned, the variables keep their types.
THEOREM TypeCorrect == Spec => []TypeOK
<1>1. Inv => TypeOK
  BY DEF Inv, TypeInv
<1>. QED  BY <1>1, InvAlways, PTL

\* At least once: what is committed, or answered with 202, was received by every
\* socket it was due to, unless an instance still starting handled it.
THEOREM SettledStaysReceived == Spec => []SettledIsReceived
<1>1. Inv => SettledIsReceived
  BY DEF Inv, TypeInv, TypeOK, NewsInv, HandledReceived, AnsweredReceived,
     SettledIsReceived, Settled
<1>. QED  BY <1>1, InvAlways, PTL

\* No event overtakes an older one, however often they are handled again.
THEOREM NewsStaysInOrder == Spec => []NewsInOrder
<1>1. Inv => NewsInOrder
  BY DEF Inv, NewsInv
<1>. QED  BY <1>1, InvAlways, PTL

\* Only sockets that connected before the adapter was replaced are out of reach.
THEOREM OnlyEarlyStayUnreachable == Spec => []OnlyEarlyUnreachable
<1>1. Inv => OnlyEarlyUnreachable
  BY DEF Inv, ReachInv, JoinedSome, OnlyEarlyUnreachable
<1>. QED  BY <1>1, InvAlways, PTL
=============================================================================
