--------------------------- MODULE Notifications ---------------------------
(***************************************************************************)
(* Who is notified: events of the Kafka topics and POSTs to the internal   *)
(* endpoint, emitted to the private room of each addressed user, while     *)
(* instances start, crash, and connect their clients.                      *)
(*                                                                         *)
(* An instance starts in an order that matters (main.ts, Nest): it joins   *)
(* the consumer group before it has a Socket.IO server; it has a server    *)
(* with an in-memory adapter before Redis is ready; and it listens for     *)
(* clients once its first PING to Redis was answered or rejected.  When    *)
(* Redis becomes ready the adapter is replaced.                            *)
(*                                                                         *)
(* One partition stands for the topics (Nest consumes one message at a     *)
(* time); the group has a committed offset from before.  Redis carries     *)
(* what instances publish to each other reliably, and each socket's        *)
(* private room is the only one looked at.                                 *)
(***************************************************************************)
EXTENDS Naturals, FiniteSets

CONSTANTS
    Instances,
    Sockets,
    Users,
    Home,          \* the instance a socket connects to
    UserOf,        \* the user of a socket's session code
    NumEvents,     \* bound: events produced, at offsets 1..NumEvents
    Requests,      \* POSTs to /api/realtime/internal/notify
    Authorised,    \* those with the right Internal-Api-Key
    Addressees,    \* per event and request: its userIds
    Handlers,      \* modules that register KafkaController
    Nobody,        \* no instance owns the partition
    MaxCrashes,    \* bound: crashes in a behaviour
    MaxRebalances  \* bound: rebalances that take the partition from a live owner

Offsets  == 1..NumEvents
Messages == Offsets \cup Requests

ASSUME SocketAssumption == Home \in [Sockets -> Instances] /\ UserOf \in [Sockets -> Users]
ASSUME RequestAssumption == Offsets \cap Requests = {} /\ Authorised \subseteq Requests
ASSUME AddresseeAssumption == Addressees \in [Messages -> SUBSET Users]
ASSUME OwnerAssumption == Nobody \notin Instances
ASSUME HandlerAssumption == IsFiniteSet(Handlers) /\ Handlers # {}
ASSUME BoundsAssumption == NumEvents \in Nat /\ MaxCrashes \in Nat /\ MaxRebalances \in Nat

VARIABLES
    stage,      \* per instance: "down", "consuming", "starting", "listening"
    adapter,    \* per instance: "memory", or "redis" once it was replaced
    phase,      \* per socket: "new", "joining" (handleConnection), "open", "closed"
    inRoom,     \* sockets in their private room in the adapter in use
    early,      \* history: sockets that joined an adapter replaced later
    produced,   \* events in the log
    owner,      \* the consumer of the partition
    position,   \* events its consumer has handled
    committed,  \* the group's committed offset
    answers,    \* per request: "none", "queued" (202) or "forbidden" (403)
    received,   \* per socket and message: notification:new events received
    due,        \* history: reachable sockets of the addressees, still connected
    missed,     \* history: messages handled before the adapter was replaced
    crashes, rebalances

bootVars   == <<stage, adapter>>
socketVars == <<phase, inRoom, early>>
kafkaVars  == <<owner, position, committed, rebalances>>
newsVars   == <<received, missed>>
vars == <<bootVars, socketVars, produced, kafkaVars, answers, newsVars, due, crashes>>

-----------------------------------------------------------------------------
Init ==
    /\ stage = [i \in Instances |-> "down"]
    /\ adapter = [i \in Instances |-> "memory"]
    /\ phase = [s \in Sockets |-> "new"]
    /\ inRoom = {} /\ early = {}
    /\ produced = 0 /\ owner = Nobody /\ position = 0 /\ committed = 0
    /\ answers = [r \in Requests |-> "none"]
    /\ received = [s \in Sockets |-> [m \in Messages |-> 0]]
    /\ due = [m \in Messages |-> {}]
    /\ missed = {}
    /\ crashes = 0 /\ rebalances = 0

-----------------------------------------------------------------------------
(* Start-up of an instance                                                 *)

\* startAllMicroservices: the consumer joins the group.
StartMicroservices(i) ==
    /\ stage[i] = "down"
    /\ stage' = [stage EXCEPT ![i] = "consuming"]
    /\ UNCHANGED <<adapter, socketVars, produced, kafkaVars, answers, newsVars, due, crashes>>

\* app.listen first initialises the modules: the gateway gets its server, afterInit
\* starts to wait for Redis, and RedisService connects.
InitModules(i) ==
    /\ stage[i] = "consuming"
    /\ stage' = [stage EXCEPT ![i] = "starting"]
    /\ UNCHANGED <<adapter, socketVars, produced, kafkaVars, answers, newsVars, due, crashes>>

\* Redis is ready and afterInit goes on: the new adapter knows no rooms, and the
\* sockets of the old one never enter it.
ReplaceAdapter(i) ==
    /\ stage[i] \in {"starting", "listening"} /\ adapter[i] = "memory"
    /\ adapter' = [adapter EXCEPT ![i] = "redis"]
    /\ inRoom' = {s \in inRoom : Home[s] # i}
    /\ early' = early \cup {s \in inRoom : Home[s] = i}
    /\ UNCHANGED <<stage, phase, produced, kafkaVars, answers, newsVars, due, crashes>>

\* The PING of onModuleInit was answered by a Redis that is ready, or rejected after
\* some retries, which is only logged.
Listen(i) ==
    /\ stage[i] = "starting"
    /\ stage' = [stage EXCEPT ![i] = "listening"]
    /\ UNCHANGED <<adapter, socketVars, produced, kafkaVars, answers, newsVars, due, crashes>>

\* The process dies: its sockets close, and the group notices.
Crash(i) ==
    /\ stage[i] # "down" /\ crashes < MaxCrashes
    /\ crashes' = crashes + 1
    /\ stage' = [stage EXCEPT ![i] = "down"]
    /\ adapter' = [adapter EXCEPT ![i] = "memory"]
    /\ phase' = [s \in Sockets |-> IF Home[s] = i /\ phase[s] # "new" THEN "closed"
                                                                      ELSE phase[s]]
    /\ inRoom' = {s \in inRoom : Home[s] # i}
    /\ due' = [m \in Messages |-> {s \in due[m] : Home[s] # i}]
    /\ owner' = IF owner = i THEN Nobody ELSE owner
    /\ UNCHANGED <<early, produced, position, committed, rebalances, answers, newsVars>>

-----------------------------------------------------------------------------
(* Sockets                                                                 *)

\* Mutant of Connect: the private room is not joined.
ConnectWithoutRoom(s) ==
    /\ phase[s] = "new" /\ stage[Home[s]] = "listening"
    /\ phase' = [phase EXCEPT ![s] = "joining"]
    /\ UNCHANGED <<inRoom, early, bootVars, produced, kafkaVars, answers, newsVars, due, crashes>>

\* handleConnection joins the private room at once and awaits the MULTI.
Connect(s) ==
    /\ phase[s] = "new" /\ stage[Home[s]] = "listening"
    /\ phase' = [phase EXCEPT ![s] = "joining"]
    /\ inRoom' = inRoom \cup {s}
    /\ UNCHANGED <<early, bootVars, produced, kafkaVars, answers, newsVars, due, crashes>>

\* Redis runs the MULTI, also one that waited in ioredis until Redis was ready.
Admitted(s) ==
    /\ phase[s] = "joining" /\ adapter[Home[s]] = "redis"
    /\ phase' = [phase EXCEPT ![s] = "open"]
    /\ UNCHANGED <<inRoom, early, bootVars, produced, kafkaVars, answers, newsVars, due, crashes>>

\* The client goes, or its MULTI is rejected and handleConnection disconnects it.
Disconnect(s) ==
    /\ phase[s] \in {"joining", "open"}
    /\ phase' = [phase EXCEPT ![s] = "closed"]
    /\ inRoom' = inRoom \ {s}
    /\ due' = [m \in Messages |-> due[m] \ {s}]
    /\ UNCHANGED <<early, bootVars, produced, kafkaVars, answers, newsVars, crashes>>

-----------------------------------------------------------------------------
(* Emitting to private rooms                                               *)

Reachable(m) == {s \in inRoom : phase[s] = "open" /\ UserOf[s] \in Addressees[m]}

\* Mutant of RoomMembers: emitted with server.local, to this instance only.
RoomMembersLocal(i) == {s \in inRoom : Home[s] = i}

\* The sockets an emit of instance i to their private rooms gets to: its own, and
\* through Redis those of the instances that also have the Redis adapter.
RoomMembers(i) ==
    {s \in inRoom : \/ Home[s] = i
                    \/ adapter[i] = "redis" /\ adapter[Home[s]] = "redis"}

sendNotificationToUsers(i, m, times) ==
    received' = [s \in Sockets |->
        IF s \in RoomMembers(i) /\ UserOf[s] \in Addressees[m]
        THEN [received[s] EXCEPT ![m] = @ + times] ELSE received[s]]

\* POST notify: the guard compares the key, sendToUsers emits, the answer is 202.
Notify(i, r) ==
    /\ stage[i] = "listening" /\ answers[r] = "none"
    /\ \/ /\ r \in Authorised
          /\ answers' = [answers EXCEPT ![r] = "queued"]
          /\ sendNotificationToUsers(i, r, 1)
          /\ due' = [due EXCEPT ![r] = Reachable(r)]
          /\ missed' = IF adapter[i] = "redis" THEN missed ELSE missed \cup {r}
       \/ /\ r \notin Authorised
          /\ answers' = [answers EXCEPT ![r] = "forbidden"]
          /\ UNCHANGED <<newsVars, due>>
    /\ UNCHANGED <<bootVars, socketVars, produced, kafkaVars, crashes>>

-----------------------------------------------------------------------------
(* Kafka                                                                   *)

\* Another service produces an event.
Produce ==
    /\ produced < NumEvents
    /\ produced' = produced + 1
    /\ due' = [due EXCEPT ![produced + 1] = Reachable(produced + 1)]
    /\ UNCHANGED <<bootVars, socketVars, kafkaVars, answers, newsVars, crashes>>

\* Mutant of Assign: the new owner starts at the end of the log.
AssignLatest(i) ==
    /\ stage[i] # "down" /\ owner # i
    /\ \/ owner = Nobody /\ UNCHANGED rebalances
       \/ /\ owner # Nobody /\ rebalances < MaxRebalances
          /\ rebalances' = rebalances + 1
    /\ owner' = i /\ position' = produced
    /\ UNCHANGED <<bootVars, socketVars, produced, committed, answers, newsVars, due, crashes>>

\* A rebalance gives the partition to a member of the group, which starts at the
\* committed offset: what was handled since is handled again.
Assign(i) ==
    /\ stage[i] # "down" /\ owner # i
    /\ \/ owner = Nobody /\ UNCHANGED rebalances
       \/ /\ owner # Nobody /\ rebalances < MaxRebalances
          /\ rebalances' = rebalances + 1
    /\ owner' = i /\ position' = committed
    /\ UNCHANGED <<bootVars, socketVars, produced, committed, answers, newsVars, due, crashes>>

\* Nest calls the handlers of all registered controllers for an event.  Before the
\* gateway has a server they throw, and KafkaService only logs the error.
HandleEvent(i) ==
    /\ owner = i /\ position < produced
    /\ position' = position + 1
    /\ IF stage[i] = "consuming" THEN UNCHANGED received
       ELSE sendNotificationToUsers(i, position + 1, Cardinality(Handlers))
    /\ missed' = IF adapter[i] = "redis" THEN missed ELSE missed \cup {position + 1}
    /\ UNCHANGED <<bootVars, socketVars, produced, owner, committed, rebalances, answers,
                   due, crashes>>

\* Mutant of AutoCommit: the offset after the next event is committed.
AutoCommitNext ==
    /\ owner # Nobody /\ committed < position
    /\ committed' = position + 1
    /\ UNCHANGED <<bootVars, socketVars, produced, owner, position, rebalances, answers,
                   newsVars, due, crashes>>

\* Mutant of AutoCommit: only full batches are committed (autoCommitThreshold).
AutoCommitThreshold ==
    /\ owner # Nobody /\ committed + 100 < position
    /\ committed' = position
    /\ UNCHANGED <<bootVars, socketVars, produced, owner, position, rebalances, answers,
                   newsVars, due, crashes>>

\* kafkajs commits the offset after the last event handled, from time to time.
AutoCommit ==
    /\ owner # Nobody /\ committed < position
    /\ committed' = position
    /\ UNCHANGED <<bootVars, socketVars, produced, owner, position, rebalances, answers,
                   newsVars, due, crashes>>

-----------------------------------------------------------------------------
Start(i) == StartMicroservices(i) \/ InitModules(i) \/ ReplaceAdapter(i) \/ Listen(i)

Consume == (\E i \in Instances : HandleEvent(i)) \/ AutoCommit

Next == \/ \E i \in Instances : Start(i) \/ Crash(i) \/ Assign(i)
        \/ \E s \in Sockets : Connect(s) \/ Admitted(s) \/ Disconnect(s)
        \/ \E i \in Instances, r \in Requests : Notify(i, r)
        \/ Produce \/ Consume

Spec == Init /\ [][Next]_vars

\* Processes are restarted, the group coordinator assigns a partition nobody owns,
\* and a consumer goes on with the log and commits.
Fairness ==
    /\ \A i \in Instances : WF_vars(StartMicroservices(i))
    /\ WF_vars(owner = Nobody /\ \E i \in Instances : Assign(i))
    /\ WF_vars(\E i \in Instances : HandleEvent(i))
    /\ WF_vars(AutoCommit)
FairSpec == Spec /\ Fairness

-----------------------------------------------------------------------------
(* Properties                                                              *)

\* Instances, sockets, offsets and counts are what the code and Kafka allow.
TypeOK ==
    /\ stage \in [Instances -> {"down", "consuming", "starting", "listening"}]
    /\ adapter \in [Instances -> {"memory", "redis"}]
    /\ phase \in [Sockets -> {"new", "joining", "open", "closed"}]
    /\ inRoom \subseteq Sockets /\ early \subseteq Sockets
    /\ produced \in 0..NumEvents
    /\ owner \in Instances \cup {Nobody}
    /\ position \in 0..produced /\ committed \in 0..produced
    /\ answers \in [Requests -> {"none", "queued", "forbidden"}]
    /\ received \in [Sockets -> [Messages -> Nat]]
    /\ due \in [Messages -> SUBSET Sockets]
    /\ missed \subseteq Messages
    /\ crashes \in 0..MaxCrashes /\ rebalances \in 0..MaxRebalances

Settled(m) == (m \in Offsets /\ m <= committed) \/ (m \in Requests /\ answers[m] = "queued")

\* Once an event is committed or a request answered with 202, every socket that was
\* reachable when it arrived and is still connected, to whatever instance, has the
\* notification: through crashes and rebalances between handling and commit, unless
\* an instance that had not finished starting handled it.
SettledIsReceived ==
    \A m \in Messages \ missed : Settled(m) => \A s \in due[m] : received[s][m] > 0

\* A socket gets its events in the order of the log: none overtakes an older one that
\* it was connected for, whatever is handled again.
NewsInOrder ==
    \A s \in Sockets, e, f \in Offsets :
        e < f /\ s \in due[e] /\ received[s][f] > 0 => received[s][e] > 0 \/ e \in missed

\* An admitted socket is in its private room, unless it connected before its instance
\* had the Redis adapter.
OnlyEarlyUnreachable ==
    \A s \in Sockets : phase[s] = "open" => s \in inRoom \/ s \in early

\* Every event is eventually handled and committed, across crashes and rebalances.
EventsAreCommitted == \A e \in Offsets : produced >= e ~> committed >= e

\* kafka.controller.spec.ts 52-54: one message of the topic is one call of the
\* notification service.  Without redelivery, no socket gets an event twice.
NotifiedOnce ==
    crashes = 0 /\ rebalances = 0 =>
        \A s \in Sockets, e \in Offsets : received[s][e] <= 1
=============================================================================
