------------------------------- MODULE Rooms -------------------------------
(***************************************************************************)
(* Where a socket is said to be: the rooms of the Socket.IO adapter, the   *)
(* membership kept in Redis (room:<r> and socket:<s>, written together by  *)
(* MULTI) and the in-memory mirror (InMemoryRoomStore, two maps), with the *)
(* handlers that change them: connect, joinRoom, leaveRoom, disconnect and *)
(* the matchmaking worker joining a matched pair.  ConnectionService keeps *)
(* the sockets of a user beside them.                                      *)
(*                                                                         *)
(* One instance and its ioredis connection: `pipe' holds the commands the  *)
(* handlers await, in the order issued; serving the head is "Redis runs    *)
(* it, the handler runs to its next await".                                *)
(***************************************************************************)
EXTENDS Naturals, Sequences, FiniteSets

CONSTANTS
    Sockets,
    Users,
    UserOf,       \* the user of a socket's session code
    UserRoom,     \* per user: the private room user:<userId>
    MatchRooms,   \* rooms the matchmaking worker makes
    OpenRooms,    \* other rooms
    Named,        \* rooms clients name in joinRoom and leaveRoom: any of them
    MaxPending,   \* bound: room events of a socket under way at once
    MaxOutages    \* bound: how often the connection falls silent

PrivateRooms == {UserRoom[u] : u \in Users}
AllRooms == PrivateRooms \cup MatchRooms \cup OpenRooms

ASSUME UserAssumption == UserOf \in [Sockets -> Users]
ASSUME RoomAssumption == /\ PrivateRooms \cap (MatchRooms \cup OpenRooms) = {}
                         /\ MatchRooms \cap OpenRooms = {}
                         /\ \A u, w \in Users : UserRoom[u] = UserRoom[w] => u = w
ASSUME NamedAssumption == Named \subseteq AllRooms
ASSUME BoundsAssumption == MaxPending \in Nat /\ MaxOutages \in Nat

VARIABLES
    phase,          \* "new", "open", "doomed" (to be disconnected) or "closed"
    tracked,        \* sockets in ConnectionService, each under its own user
    adapterRooms,   \* per socket: its rooms in the Socket.IO adapter
    roomKey,        \* per room: the Redis set of its sockets
    socketKey,      \* per socket: the Redis set of its rooms
    socketToRooms,  \* the mirror's maps
    roomToSockets,
    matched,        \* match rooms the worker has made
    pipe,           \* commands awaited, in the order issued
    silent,         \* replies have stopped arriving
    ran,            \* commands executed without an answer
    outages,        \* times the connection fell silent
    lost,           \* history: commands were rejected or the process died
    asked           \* history: per socket, the private rooms it last asked to be in

redisVars  == <<roomKey, socketKey>>
mirrorVars == <<socketToRooms, roomToSockets>>
linkVars   == <<silent, ran, outages, lost>>
historyVars == <<matched, asked>>
vars == <<phase, tracked, adapterRooms, redisVars, mirrorVars, historyVars, pipe, linkVars>>

-----------------------------------------------------------------------------
(* Data                                                                    *)

OwnRoom(s) == UserRoom[UserOf[s]]

\* "connect" and "join" are joinRoom for handleConnection and for a client,
\* "first" and "second" for the worker (partner is socket2 while it awaits the
\* first); "lrem", "smembers" and "cleanup" are the steps of handleDisconnect.
Operations == {"connect", "join", "leave", "first", "second",
               "lrem", "smembers", "cleanup"}
Joins == {"connect", "join", "first", "second"}

Command == [op : Operations, socket : Sockets, rooms : SUBSET AllRooms,
            partner : Sockets]

NewCommand(operation, s, rooms) ==
    [op |-> operation, socket |-> s, rooms |-> rooms, partner |-> s]

Pending(s) == {k \in DOMAIN pipe : s \in {pipe[k].socket, pipe[k].partner}}

\* socket.join and socket.leave; a closed socket joins nothing any more.
AdapterJoin(s, r) ==
    [adapterRooms EXCEPT ![s] = IF phase[s] = "closed" THEN @ ELSE @ \cup {r}]

-----------------------------------------------------------------------------
Init ==
    /\ phase = [s \in Sockets |-> "new"]
    /\ tracked = {}
    /\ adapterRooms = [s \in Sockets |-> {}]
    /\ roomKey = [r \in AllRooms |-> {}]
    /\ socketKey = [s \in Sockets |-> {}]
    /\ socketToRooms = [s \in Sockets |-> {}]
    /\ roomToSockets = [r \in AllRooms |-> {}]
    /\ matched = {}
    /\ pipe = <<>>
    /\ silent = FALSE /\ ran = 0 /\ outages = 0 /\ lost = FALSE
    /\ asked = [s \in Sockets |-> {}]

-----------------------------------------------------------------------------
(* Gateway                                                                 *)

\* handleConnection with a valid session code: tracked, and on the way into the
\* private room.
Connect(s) ==
    /\ phase[s] = "new"
    /\ phase' = [phase EXCEPT ![s] = "open"]
    /\ tracked' = tracked \cup {s}
    /\ adapterRooms' = AdapterJoin(s, OwnRoom(s))
    /\ asked' = [asked EXCEPT ![s] = @ \cup {OwnRoom(s)}]
    /\ pipe' = Append(pipe, NewCommand("connect", s, {OwnRoom(s)}))
    /\ UNCHANGED <<redisVars, mirrorVars, matched, linkVars>>

\* handleConnection without one: setImmediate(() => client.disconnect(true)).
Refuse(s) ==
    /\ phase[s] = "new"
    /\ phase' = [phase EXCEPT ![s] = "doomed"]
    /\ UNCHANGED <<tracked, adapterRooms, redisVars, mirrorVars, historyVars, pipe, linkVars>>

\* joinRoom and leaveRoom take any name: a match room the documentation has
\* clients join themselves, the client's private room, that of another user.
JoinRoom(s, r) ==
    /\ phase[s] = "open" /\ Cardinality(Pending(s)) < MaxPending
    /\ adapterRooms' = AdapterJoin(s, r)
    /\ asked' = [asked EXCEPT ![s] = @ \cup ({r} \cap PrivateRooms)]
    /\ pipe' = Append(pipe, NewCommand("join", s, {r}))
    /\ UNCHANGED <<phase, tracked, redisVars, mirrorVars, matched, linkVars>>

LeaveRoom(s, r) ==
    /\ phase[s] = "open" /\ Cardinality(Pending(s)) < MaxPending
    /\ adapterRooms' = [adapterRooms EXCEPT ![s] = @ \ {r}]
    /\ asked' = [asked EXCEPT ![s] = @ \ {r}]
    /\ pipe' = Append(pipe, NewCommand("leave", s, {r}))
    /\ UNCHANGED <<phase, tracked, redisVars, mirrorVars, matched, linkVars>>

\* Mutant of Disconnect: ConnectionService is not told.
DisconnectTracked(s) ==
    /\ phase[s] \in {"open", "doomed"}
    /\ phase' = [phase EXCEPT ![s] = "closed"]
    /\ adapterRooms' = [adapterRooms EXCEPT ![s] = {}]
    /\ pipe' = Append(pipe, NewCommand("lrem", s, {}))
    /\ UNCHANGED <<tracked, redisVars, mirrorVars, historyVars, linkVars>>

\* The socket closes: Socket.IO takes it out of its rooms, handleDisconnect
\* untracks it and starts with the matchmaking queues.
Disconnect(s) ==
    /\ phase[s] \in {"open", "doomed"}
    /\ phase' = [phase EXCEPT ![s] = "closed"]
    /\ adapterRooms' = [adapterRooms EXCEPT ![s] = {}]
    /\ tracked' = tracked \ {s}
    /\ pipe' = Append(pipe, NewCommand("lrem", s, {}))
    /\ UNCHANGED <<redisVars, mirrorVars, historyVars, linkVars>>

\* The worker found both sockets and joins the first to a new match room.
MatchPair(s, t, r) ==
    /\ s # t /\ r \notin matched
    /\ phase[s] \in {"open", "doomed"} /\ phase[t] \in {"open", "doomed"}
    /\ s \in tracked /\ t \in tracked
    /\ matched' = matched \cup {r}
    /\ adapterRooms' = AdapterJoin(s, r)
    /\ pipe' = Append(pipe, [NewCommand("first", s, {r}) EXCEPT !.partner = t])
    /\ UNCHANGED <<phase, tracked, redisVars, mirrorVars, asked, linkVars>>

-----------------------------------------------------------------------------
(* Redis and the mirror                                                    *)

\* The rooms a command adds its socket to, and those it takes it out of.
Added(c) == IF c.op \in Joins THEN c.rooms ELSE {}
Taken(c) == IF c.op \in {"leave", "cleanup"} THEN c.rooms ELSE {}

RunRooms(c) ==
    roomKey' = [r \in AllRooms |-> IF r \in Added(c) THEN roomKey[r] \cup {c.socket}
                                   ELSE IF r \in Taken(c) THEN roomKey[r] \ {c.socket}
                                   ELSE roomKey[r]]

\* Mutant of Run: the SREM of leaveRoom's MULTI on the socket's key is missing.
RunLeavesKey(c) ==
    /\ RunRooms(c)
    /\ socketKey' = [socketKey EXCEPT ![c.socket] =
                        IF c.op = "cleanup" THEN {} ELSE @ \cup Added(c)]

\* A MULTI adds to or removes from both keys at once; cleanup takes the socket
\* out of the rooms it was told and deletes the socket's key.
Run(c) ==
    /\ RunRooms(c)
    /\ socketKey' = [socketKey EXCEPT ![c.socket] =
                        IF c.op = "cleanup" THEN {} ELSE (@ \cup Added(c)) \ Taken(c)]

\* Mutant of addSocketToRoom: the room's set gets the room.
addSocketToRoomSwapped(s, r) ==
    /\ socketToRooms' = [socketToRooms EXCEPT ![s] = @ \cup {r}]
    /\ roomToSockets' = [roomToSockets EXCEPT ![r] = @ \cup {r}]

addSocketToRoom(s, r) ==
    /\ socketToRooms' = [socketToRooms EXCEPT ![s] = @ \cup {r}]
    /\ roomToSockets' = [roomToSockets EXCEPT ![r] = @ \cup {s}]

removeSocketFromRoom(s, r) ==
    /\ socketToRooms' = [socketToRooms EXCEPT ![s] = @ \ {r}]
    /\ roomToSockets' = [roomToSockets EXCEPT ![r] = @ \ {s}]

\* Mutant of removeSocket: the room's set is not updated.
removeSocketOneWay(s) ==
    /\ socketToRooms' = [socketToRooms EXCEPT ![s] = {}]
    /\ UNCHANGED roomToSockets

removeSocket(s) ==
    /\ socketToRooms' = [socketToRooms EXCEPT ![s] = {}]
    /\ roomToSockets' = [r \in AllRooms |-> IF r \in socketToRooms[s]
                                            THEN roomToSockets[r] \ {s}
                                            ELSE roomToSockets[r]]

-----------------------------------------------------------------------------
(* Replies: Redis runs the command and the handler goes on                 *)

Reply(operations) ==
    /\ ~silent /\ pipe # <<>> /\ Head(pipe).op \in operations
    /\ Run(Head(pipe))
    /\ UNCHANGED <<phase, tracked, historyVars, linkVars>>

GoOn(c) == pipe' = Append(Tail(pipe), c)
Finish  == pipe' = Tail(pipe)

TheRoom(c) == CHOOSE r \in c.rooms : TRUE

\* Mutant of Joined: the mirror is not told.
JoinedUnmirrored ==
    /\ Reply({"connect", "join", "second"})
    /\ Finish
    /\ UNCHANGED <<adapterRooms, mirrorVars>>

Joined ==
    /\ Reply({"connect", "join", "second"})
    /\ addSocketToRoom(Head(pipe).socket, TheRoom(Head(pipe)))
    /\ Finish
    /\ UNCHANGED adapterRooms

\* Mutant of FirstJoined: socket2's join waits until the cleanup of its disconnect
\* has read the socket's rooms.
FirstJoinedLate ==
    /\ Reply({"first"})
    /\ LET c == Head(pipe) IN
          IF \E k \in DOMAIN pipe : pipe[k].op = "lrem" /\ pipe[k].socket = c.partner
          THEN GoOn(c) /\ UNCHANGED <<adapterRooms, mirrorVars>>
          ELSE /\ addSocketToRoom(c.socket, TheRoom(c))
               /\ adapterRooms' = AdapterJoin(c.partner, TheRoom(c))
               /\ GoOn(NewCommand("second", c.partner, c.rooms))

\* The worker turns to socket2, which may have closed since it was looked up.
FirstJoined ==
    /\ Reply({"first"})
    /\ LET c == Head(pipe) IN
          /\ addSocketToRoom(c.socket, TheRoom(c))
          /\ adapterRooms' = AdapterJoin(c.partner, TheRoom(c))
          /\ GoOn(NewCommand("second", c.partner, c.rooms))

Left ==
    /\ Reply({"leave"})
    /\ removeSocketFromRoom(Head(pipe).socket, TheRoom(Head(pipe)))
    /\ Finish
    /\ UNCHANGED adapterRooms

\* Mutant of QueuesCleaned: removeSocketFromAllRooms is not called.
QueuesCleanedOnly ==
    /\ Reply({"lrem"})
    /\ Finish
    /\ UNCHANGED <<adapterRooms, mirrorVars>>

\* removeFromAllMatchmakingQueues is through: removeSocketFromAllRooms reads the
\* socket's rooms.
QueuesCleaned ==
    /\ Reply({"lrem"})
    /\ GoOn(NewCommand("smembers", Head(pipe).socket, {}))
    /\ UNCHANGED <<adapterRooms, mirrorVars>>

RoomsRead ==
    /\ Reply({"smembers"})
    /\ LET s == Head(pipe).socket IN
          IF socketKey[s] # {}
          THEN GoOn(NewCommand("cleanup", s, socketKey[s])) /\ UNCHANGED mirrorVars
          ELSE Finish /\ removeSocket(s)
    /\ UNCHANGED adapterRooms

CleanedUp ==
    /\ Reply({"cleanup"})
    /\ removeSocket(Head(pipe).socket)
    /\ Finish
    /\ UNCHANGED adapterRooms

-----------------------------------------------------------------------------
(* The connection                                                          *)

FallSilent ==
    /\ ~silent /\ outages < MaxOutages
    /\ silent' = TRUE /\ outages' = outages + 1
    /\ UNCHANGED <<phase, tracked, adapterRooms, redisVars, mirrorVars, historyVars,
                   pipe, ran, lost>>

RunUnanswered ==
    /\ silent /\ ran < Len(pipe)
    /\ Run(pipe[ran + 1])
    /\ ran' = ran + 1
    /\ UNCHANGED <<phase, tracked, adapterRooms, mirrorVars, historyVars, pipe,
                   silent, outages, lost>>

\* Every unanswered command is sent again.
Reconnect ==
    /\ silent
    /\ silent' = FALSE /\ ran' = 0
    /\ UNCHANGED <<phase, tracked, adapterRooms, redisVars, mirrorVars, historyVars,
                   pipe, outages, lost>>

\* Every unanswered command is rejected.  removeFromAllMatchmakingQueues catches
\* that itself, so a disconnect still goes on to the rooms; handleConnection
\* disconnects the client; all other handlers end.
GiveUp ==
    /\ silent
    /\ silent' = FALSE /\ ran' = 0 /\ lost' = TRUE
    /\ LET cleaning == {k \in DOMAIN pipe : pipe[k].op = "lrem"}
       IN  \E order \in [1..Cardinality(cleaning) -> cleaning] :
              /\ \A j, k \in DOMAIN order : j < k => order[j] < order[k]
              /\ pipe' = [k \in DOMAIN order |->
                             [pipe[order[k]] EXCEPT !.op = "smembers"]]
    /\ phase' = [s \in Sockets |->
           IF /\ phase[s] = "open"
              /\ \E k \in DOMAIN pipe : pipe[k].op = "connect" /\ pipe[k].socket = s
           THEN "doomed" ELSE phase[s]]
    /\ UNCHANGED <<tracked, adapterRooms, redisVars, mirrorVars, historyVars, outages>>

\* The process dies and starts again with empty memory; Redis keeps its keys.
Crash ==
    /\ silent
    /\ silent' = FALSE /\ ran' = 0 /\ lost' = TRUE
    /\ pipe' = <<>> /\ tracked' = {}
    /\ phase' = [s \in Sockets |-> IF phase[s] = "new" THEN "new" ELSE "closed"]
    /\ adapterRooms' = [s \in Sockets |-> {}]
    /\ socketToRooms' = [s \in Sockets |-> {}]
    /\ roomToSockets' = [r \in AllRooms |-> {}]
    /\ UNCHANGED <<redisVars, historyVars, outages>>

-----------------------------------------------------------------------------
Serve == Joined \/ FirstJoined \/ Left \/ QueuesCleaned \/ RoomsRead \/ CleanedUp

Settle == Reconnect \/ GiveUp \/ Crash

Next == \/ \E s \in Sockets : Connect(s) \/ Refuse(s) \/ Disconnect(s)
        \/ \E s \in Sockets, r \in Named : JoinRoom(s, r) \/ LeaveRoom(s, r)
        \/ \E s, t \in Sockets, r \in MatchRooms : MatchPair(s, t, r)
        \/ Serve \/ Settle
        \/ FallSilent \/ RunUnanswered

Spec == Init /\ [][Next]_vars

\* Redis answers a connection that is up; ioredis reconnects or gives up.
FairSpec == Spec /\ WF_vars(Serve) /\ WF_vars(Settle)

-----------------------------------------------------------------------------
(* Properties                                                              *)

\* Every key, map and command has the shape the code gives it.
TypeOK ==
    /\ phase \in [Sockets -> {"new", "open", "doomed", "closed"}]
    /\ tracked \subseteq Sockets
    /\ adapterRooms \in [Sockets -> SUBSET AllRooms]
    /\ roomKey \in [AllRooms -> SUBSET Sockets]
    /\ socketKey \in [Sockets -> SUBSET AllRooms]
    /\ socketToRooms \in [Sockets -> SUBSET AllRooms]
    /\ roomToSockets \in [AllRooms -> SUBSET Sockets]
    /\ matched \subseteq MatchRooms
    /\ asked \in [Sockets -> SUBSET PrivateRooms]
    /\ pipe \in Seq(Command)
    /\ silent \in BOOLEAN /\ lost \in BOOLEAN
    /\ ran \in 0..Len(pipe)
    /\ outages \in 0..MaxOutages

\* The mirror's two maps are inverse to each other although removeSocket only
\* visits the rooms one of them names.
MirrorPaired ==
    \A s \in Sockets, r \in AllRooms : r \in socketToRooms[s] <=> s \in roomToSockets[r]

\* The two Redis keys mirror each other at every step, although the cleanup of
\* a disconnect removes the rooms it was told two awaits earlier and then deletes
\* the socket's key whole.
RedisPaired ==
    \A s \in Sockets, r \in AllRooms : r \in socketKey[s] <=> s \in roomKey[r]

\* A connected socket with nothing under way is in the same rooms for the
\* adapter, for Redis and for the mirror, unless commands were lost.
LiveViewsAgree ==
    ~lost => \A s \in Sockets : phase[s] = "open" /\ Pending(s) = {} =>
        adapterRooms[s] = socketKey[s] /\ socketKey[s] = socketToRooms[s]

\* A closed socket leaves nothing behind once its handlers are through, unless
\* commands were lost: not even the worker's joinRoom of socket2, issued after
\* the socket closed, escapes the cleanup.
CleanedUpAfterClose ==
    ~lost => \A s \in Sockets : phase[s] = "closed" /\ Pending(s) = {} =>
        /\ \A r \in AllRooms : s \notin roomKey[r] /\ s \notin roomToSockets[r]
        /\ adapterRooms[s] = {}

\* With nothing under way and no command lost, the members of a user's private
\* room, by which RoomsService.isUserOnline answers, are the tracked connections
\* that last asked to be in it: those of the user that did not leave it, and those
\* of other users that joined it by name.  The worker puts nobody there, and no
\* clean-up forgets one or takes one too many.
PresenceAgrees ==
    ~lost /\ pipe = <<>> => \A u \in Users :
        roomKey[UserRoom[u]] = {s \in tracked : UserRoom[u] \in asked[s]}

\* A disconnected socket eventually leaves its private room in Redis, unless
\* commands were lost.
PresenceEnds ==
    \A s \in Sockets : phase[s] = "closed" ~> s \notin roomKey[OwnRoom(s)] \/ lost
=============================================================================
