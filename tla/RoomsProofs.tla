---------------------------- MODULE RoomsProofs ----------------------------
(***************************************************************************)
(* Safety of Rooms for every set of sockets, users and rooms, every number *)
(* of room events under way and of outages.                                *)
(*                                                                         *)
(* TypeInv stands alone, MirrorPaired needs nothing else.  RedisInv is why *)
(* the two keys of Redis stay paired: nothing joins a socket to a room     *)
(* behind the read of its rooms.                                           *)
(***************************************************************************)
EXTENDS Rooms, FiniteSetTheorems, SequenceTheorems, TLAPS

\* A join or leave is of one room, and the worker's of a match room.
Sound(c) ==
    /\ c.op \in Joins \cup {"leave"} => \E r \in AllRooms : c.rooms = {r}
    /\ c.op = "first" => c.rooms \subseteq MatchRooms

TypeInv == TypeOK /\ (~silent => ran = 0) /\ \A k \in DOMAIN pipe : Sound(pipe[k])

-----------------------------------------------------------------------------
(* Commands that change, or lead to a change of, the rooms of a socket     *)

Moves(c, s) ==
    \/ c.op \in Joins \cup {"leave"} /\ c.socket = s
    \/ c.op = "first" /\ c.partner = s

Cleaning == {"lrem", "smembers", "cleanup"}

\* Only a closed socket is cleaned up.
CleanedIsClosed ==
    \A k \in DOMAIN pipe : pipe[k].op \in Cleaning => phase[pipe[k].socket] = "closed"

\* What may still be under way for a socket at each stage of its cleanup: any
\* command issued before it closed, and the worker's join of it as socket2,
\* which is always ahead of the read of its rooms.
Quiet ==
    \A j, k \in DOMAIN pipe : Moves(pipe[j], pipe[k].socket) =>
        /\ pipe[k].op = "lrem" => j < k \/ pipe[j].op = "second"
        /\ pipe[k].op = "smembers" => j < k /\ pipe[j].op = "second"
        /\ pipe[k].op # "cleanup"

\* The rooms a cleanup was told are all that its socket is still in.
ToldAll ==
    \A k \in DOMAIN pipe :
        pipe[k].op = "cleanup" => socketKey[pipe[k].socket] \subseteq pipe[k].rooms

RedisInv == CleanedIsClosed /\ Quiet /\ ToldAll /\ RedisPaired

-----------------------------------------------------------------------------
(* The pipeline, index by index                                            *)

Grew(c) ==
    /\ Len(pipe') = Len(pipe) + 1 /\ pipe'[Len(pipe) + 1] = c
    /\ \A k \in 1..Len(pipe) : pipe'[k] = pipe[k]

Shrank ==
    /\ Len(pipe') = Len(pipe) - 1
    /\ \A k \in 1..Len(pipe) - 1 : pipe'[k] = pipe[k + 1]

WentOn(c) ==
    /\ Len(pipe') = Len(pipe) /\ pipe'[Len(pipe)] = c
    /\ \A k \in 1..Len(pipe) - 1 : pipe'[k] = pipe[k + 1]

\* A new handler joins the pipeline at its end.
LEMMA PipeGrows ==
    ASSUME TypeOK, NEW c \in Command, pipe' = Append(pipe, c)
    PROVE  pipe' \in Seq(Command) /\ Len(pipe) \in Nat /\ Grew(c)
  BY AppendProperties, LenProperties DEF TypeOK, Grew

LEMMA PipeFront ==
    ASSUME TypeOK, pipe # <<>>
    PROVE  /\ Len(pipe) \in Nat \ {0} /\ Head(pipe) = pipe[1] /\ Head(pipe) \in Command
           /\ Tail(pipe) \in Seq(Command) /\ Len(Tail(pipe)) = Len(pipe) - 1
           /\ \A k \in 1..Len(pipe) - 1 : Tail(pipe)[k] = pipe[k + 1]
  BY HeadTailProperties, EmptySeq, LenProperties DEF TypeOK

\* A handler that ends leaves the front of the pipeline.
LEMMA PipeFinishes ==
    ASSUME TypeOK, pipe # <<>>, Finish
    PROVE  pipe' \in Seq(Command) /\ Shrank
  BY PipeFront DEF Finish, Shrank

\* A handler that goes on moves from the front of the pipeline to its end.
LEMMA PipeGoesOn ==
    ASSUME TypeOK, pipe # <<>>, NEW c \in Command, GoOn(c)
    PROVE  pipe' \in Seq(Command) /\ WentOn(c)
<1>1. /\ Append(Tail(pipe), c) \in Seq(Command)
      /\ Len(Append(Tail(pipe), c)) = Len(Tail(pipe)) + 1
      /\ \A k \in 1..Len(Tail(pipe)) : Append(Tail(pipe), c)[k] = Tail(pipe)[k]
      /\ Append(Tail(pipe), c)[Len(Tail(pipe)) + 1] = c
  BY PipeFront, AppendProperties
<1>. QED  BY <1>1, PipeFront DEF GoOn, WentOn

\* A rejection leaves only the cleanups that go on to the rooms.
LEMMA PipeGivesUp ==
    ASSUME TypeOK, GiveUp
    PROVE  /\ pipe' \in Seq(Command)
           /\ \A k \in DOMAIN pipe' : \E j \in DOMAIN pipe :
                 pipe[j].op = "lrem" /\ pipe'[k] = [pipe[j] EXCEPT !.op = "smembers"]
<1>. DEFINE cleaning == {k \in DOMAIN pipe : pipe[k].op = "lrem"}
<1>1. Cardinality(cleaning) \in Nat
  <2>1. DOMAIN pipe = 1..Len(pipe) /\ Len(pipe) \in Nat
    BY LenProperties DEF TypeOK
  <2>2. IsFiniteSet(1..Len(pipe))
    BY <2>1, FS_Interval
  <2>. QED  BY <2>1, <2>2, FS_Subset, FS_CardinalityType
<1>2. PICK order \in [1..Cardinality(cleaning) -> cleaning] :
         pipe' = [k \in DOMAIN order |-> [pipe[order[k]] EXCEPT !.op = "smembers"]]
  BY DEF GiveUp
<1>3. \A k \in 1..Cardinality(cleaning) :
         order[k] \in DOMAIN pipe /\ pipe[order[k]].op = "lrem"
  BY <1>2
<1>4. \A k \in DOMAIN pipe : pipe[k] \in Command
  BY ElementOfSeq, LenProperties DEF TypeOK
<1>5. \A k \in DOMAIN pipe : [pipe[k] EXCEPT !.op = "smembers"] \in Command
  BY <1>4 DEF Command, Operations
<1>. HIDE DEF cleaning
<1>6. DOMAIN pipe' = 1..Cardinality(cleaning)
  BY <1>2
<1>7. pipe' \in Seq(Command)
  BY <1>1, <1>2, <1>3, <1>5
<1>. QED  BY <1>2, <1>3, <1>6, <1>7

-----------------------------------------------------------------------------
(* Redis and the mirror                                                    *)

LEMMA CommandRooms ==
    ASSUME NEW c \in Command
    PROVE  /\ c.socket \in Sockets /\ c.partner \in Sockets /\ c.op \in Operations
           /\ c.rooms \subseteq AllRooms
           /\ Added(c) \subseteq AllRooms /\ Taken(c) \subseteq AllRooms
           /\ Added(c) = {} \/ Taken(c) = {}
  BY DEF Command, Added, Taken, Joins

\* What a command does to the two keys, seen from a socket and a room.
LEMMA RunEffect ==
    ASSUME TypeOK, NEW c \in Command, Run(c)
    PROVE  /\ roomKey' \in [AllRooms -> SUBSET Sockets]
           /\ socketKey' \in [Sockets -> SUBSET AllRooms]
           /\ \A s \in Sockets \ {c.socket} :
                 /\ socketKey'[s] = socketKey[s]
                 /\ \A r \in AllRooms : s \in roomKey'[r] <=> s \in roomKey[r]
           /\ \A r \in AllRooms : c.socket \in roomKey'[r] <=>
                 r \in Added(c) \/ (c.socket \in roomKey[r] /\ r \notin Taken(c))
           /\ socketKey'[c.socket] = IF c.op = "cleanup" THEN {}
                                     ELSE (socketKey[c.socket] \cup Added(c)) \ Taken(c)
<1>1. roomKey' \in [AllRooms -> SUBSET Sockets]
  BY CommandRooms DEF Run, RunRooms, TypeOK
<1>2. socketKey' \in [Sockets -> SUBSET AllRooms]
  BY CommandRooms DEF Run, TypeOK
<1>. QED  BY <1>1, <1>2, CommandRooms DEF Run, RunRooms, TypeOK

\* The reply of a command that does not touch the rooms changes no key.
LEMMA RunNothing ==
    ASSUME TypeOK, NEW c \in Command, Run(c), c.op \in {"lrem", "smembers"}
    PROVE  roomKey' = roomKey /\ socketKey' = socketKey
<1>1. Added(c) = {} /\ Taken(c) = {} /\ c.socket \in Sockets
  BY DEF Added, Taken, Joins, Command
<1>. QED  BY <1>1 DEF Run, RunRooms, TypeOK

LEMMA MirrorAdds ==
    ASSUME TypeOK, NEW t \in Sockets, NEW q \in AllRooms, addSocketToRoom(t, q)
    PROVE  /\ socketToRooms' \in [Sockets -> SUBSET AllRooms]
           /\ roomToSockets' \in [AllRooms -> SUBSET Sockets]
           /\ \A s \in Sockets, r \in AllRooms :
                /\ r \in socketToRooms'[s] <=> r \in socketToRooms[s] \/ (s = t /\ r = q)
                /\ s \in roomToSockets'[r] <=> s \in roomToSockets[r] \/ (s = t /\ r = q)
<1>1. \A s \in Sockets : socketToRooms'[s] = IF s = t THEN socketToRooms[s] \cup {q}
                                                      ELSE socketToRooms[s]
  BY DEF addSocketToRoom, TypeOK
<1>2. \A r \in AllRooms : roomToSockets'[r] = IF r = q THEN roomToSockets[r] \cup {t}
                                                       ELSE roomToSockets[r]
  BY DEF addSocketToRoom, TypeOK
<1>3. socketToRooms' \in [Sockets -> SUBSET AllRooms]
  BY DEF addSocketToRoom, TypeOK
<1>4. roomToSockets' \in [AllRooms -> SUBSET Sockets]
  <2>1. \A r \in AllRooms : roomToSockets'[r] \subseteq Sockets
    BY <1>2 DEF TypeOK
  <2>2. roomToSockets' = [r \in AllRooms |-> roomToSockets'[r]]
    BY DEF addSocketToRoom, TypeOK
  <2>. QED  BY <2>1, <2>2
<1>5. \A s \in Sockets, r \in AllRooms :
         r \in socketToRooms'[s] <=> r \in socketToRooms[s] \/ (s = t /\ r = q)
  BY <1>1
<1>6. \A s \in Sockets, r \in AllRooms :
         s \in roomToSockets'[r] <=> s \in roomToSockets[r] \/ (s = t /\ r = q)
  BY <1>2
<1>. QED  BY <1>3, <1>4, <1>5, <1>6

LEMMA MirrorRemoves ==
    ASSUME TypeOK, NEW t \in Sockets, NEW q \in AllRooms, removeSocketFromRoom(t, q)
    PROVE  /\ socketToRooms' \in [Sockets -> SUBSET AllRooms]
           /\ roomToSockets' \in [AllRooms -> SUBSET Sockets]
           /\ \A s \in Sockets, r \in AllRooms :
                /\ r \in socketToRooms'[s] <=> r \in socketToRooms[s] /\ ~(s = t /\ r = q)
                /\ s \in roomToSockets'[r] <=> s \in roomToSockets[r] /\ ~(s = t /\ r = q)
<1>1. \A s \in Sockets : socketToRooms'[s] = IF s = t THEN socketToRooms[s] \ {q}
                                                      ELSE socketToRooms[s]
  BY DEF removeSocketFromRoom, TypeOK
<1>2. \A r \in AllRooms : roomToSockets'[r] = IF r = q THEN roomToSockets[r] \ {t}
                                                       ELSE roomToSockets[r]
  BY DEF removeSocketFromRoom, TypeOK
<1>3. socketToRooms' \in [Sockets -> SUBSET AllRooms]
  BY DEF removeSocketFromRoom, TypeOK
<1>4. roomToSockets' \in [AllRooms -> SUBSET Sockets]
  BY DEF removeSocketFromRoom, TypeOK
<1>. QED  BY <1>1, <1>2, <1>3, <1>4

LEMMA ForgetEffect ==
    ASSUME TypeOK, MirrorPaired, NEW t \in Sockets, removeSocket(t)
    PROVE  /\ socketToRooms' \in [Sockets -> SUBSET AllRooms]
           /\ roomToSockets' \in [AllRooms -> SUBSET Sockets]
           /\ socketToRooms'[t] = {}
           /\ \A s \in Sockets \ {t} : socketToRooms'[s] = socketToRooms[s]
           /\ \A s \in Sockets, r \in AllRooms :
                 s \in roomToSockets'[r] <=> s \in roomToSockets[r] /\ s # t
  BY DEF removeSocket, TypeOK, MirrorPaired

-----------------------------------------------------------------------------
(* Types                                                                   *)

LEMMA PipeDomain ==
    ASSUME NEW S, NEW q \in Seq(S)
    PROVE  Len(q) \in Nat /\ DOMAIN q = 1..Len(q) /\ \A k \in DOMAIN q : q[k] \in S
  BY LenProperties, ElementOfSeq

\* The command at the front of the pipeline, when it is answered.
LEMMA Served ==
    ASSUME TypeInv, NEW operations, Reply(operations)
    PROVE  /\ pipe # <<>> /\ Head(pipe) = pipe[1] /\ Head(pipe) \in Command
           /\ 1 \in DOMAIN pipe /\ Head(pipe).op \in operations /\ Sound(Head(pipe))
           /\ Run(Head(pipe)) /\ ran = 0 /\ ran' = 0 /\ ~silent' /\ Len(pipe) \in Nat \ {0}
           /\ UNCHANGED <<phase, tracked, historyVars, linkVars>>
  BY PipeFront, PipeDomain DEF TypeInv, TypeOK, Reply, linkVars

LEMMA TheRoomOfOne ==
    ASSUME NEW c, Sound(c), c.op \in Joins \cup {"leave"}
    PROVE  TheRoom(c) \in AllRooms /\ c.rooms = {TheRoom(c)}
  BY DEF Sound, TheRoom

\* Any change of the pipeline but a rejection keeps its commands sound.
LEMMA StaysSound ==
    ASSUME TypeInv, pipe' \in Seq(Command),
           \/ Shrank
           \/ \E c : Sound(c) /\ (Grew(c) \/ WentOn(c))
    PROVE  /\ \A k \in DOMAIN pipe' : Sound(pipe'[k])
           /\ pipe # <<>> \/ Len(pipe') >= Len(pipe)
<1>1. /\ Len(pipe) \in Nat /\ DOMAIN pipe = 1..Len(pipe)
      /\ Len(pipe') \in Nat /\ DOMAIN pipe' = 1..Len(pipe')
  BY PipeDomain DEF TypeInv, TypeOK
<1>2. \A k \in 1..Len(pipe) : Sound(pipe[k])
  BY <1>1 DEF TypeInv
<1>3. pipe # <<>> \/ Len(pipe) = 0
  OBVIOUS
<1>. HIDE DEF Sound
<1>4. CASE Shrank
  BY <1>1, <1>2, <1>3, <1>4 DEF Shrank
<1>5. ASSUME NEW c, Sound(c), Grew(c) \/ WentOn(c)
      PROVE  /\ \A k \in DOMAIN pipe' : Sound(pipe'[k])
             /\ pipe # <<>> \/ Len(pipe') >= Len(pipe)
  <2>1. CASE Grew(c)
    BY <1>1, <1>2, <1>5, <2>1 DEF Grew
  <2>2. CASE WentOn(c)
    BY <1>1, <1>2, <1>5, <2>2 DEF WentOn
  <2>. QED  BY <1>5, <2>1, <2>2
<1>. QED  BY <1>4, <1>5

LEMMA AdapterTyped ==
    ASSUME TypeOK, NEW s \in Sockets, NEW r \in AllRooms
    PROVE  AdapterJoin(s, r) \in [Sockets -> SUBSET AllRooms]
  BY DEF TypeOK, AdapterJoin

LEMMA NewCommandTyped ==
    ASSUME NEW operation \in Operations, NEW s \in Sockets, NEW rooms \in SUBSET AllRooms
    PROVE  NewCommand(operation, s, rooms) \in Command
  BY DEF NewCommand, Command

LEMMA RoomSets == /\ \A s \in Sockets : OwnRoom(s) \in AllRooms /\ OwnRoom(s) \in PrivateRooms
                  /\ MatchRooms \subseteq AllRooms /\ OpenRooms \subseteq AllRooms
  BY UserAssumption DEF OwnRoom, AllRooms, PrivateRooms

\* A new handler is of one room, or is the cleanup of a disconnect.
LEMMA Issued ==
    ASSUME TypeInv, NEW c \in Command, Sound(c), pipe' = Append(pipe, c),
           UNCHANGED linkVars
    PROVE  /\ pipe' \in Seq(Command) /\ ran' \in 0..Len(pipe') /\ (~silent' => ran' = 0)
           /\ \A k \in DOMAIN pipe' : Sound(pipe'[k])
<1>1. pipe' \in Seq(Command) /\ Len(pipe) \in Nat /\ Grew(c)
  BY PipeGrows DEF TypeInv
<1>2. \A k \in DOMAIN pipe' : Sound(pipe'[k])
  BY <1>1, StaysSound
<1>. QED  BY <1>1, <1>2 DEF TypeInv, TypeOK, Grew, linkVars

LEMMA EmptyPipe ==
    /\ <<>> \in Seq(Command) /\ DOMAIN (<<>>) = {} /\ 0 \in 0..Len(<<>>)
    /\ \A k \in DOMAIN (<<>>) : Sound(<<>>[k])
<1>1. <<>> \in Seq(Command) /\ DOMAIN (<<>>) = {} /\ Len(<<>>) = 0
  BY EmptySeq
<1>. QED  BY <1>1

LEMMA TypeInvInit == Init => TypeInv
<1>. SUFFICES ASSUME Init PROVE TypeInv
  OBVIOUS
<1>1. pipe \in Seq(Command) /\ ran \in 0..Len(pipe) /\ \A k \in DOMAIN pipe : Sound(pipe[k])
  BY EmptyPipe DEF Init
<1>2. /\ phase \in [Sockets -> {"new", "open", "doomed", "closed"}]
      /\ tracked \subseteq Sockets /\ matched \subseteq MatchRooms /\ asked \in [Sockets -> SUBSET PrivateRooms]
      /\ silent \in BOOLEAN /\ lost \in BOOLEAN /\ ran = 0
  BY DEF Init
<1>. outages \in 0..MaxOutages
  BY BoundsAssumption DEF Init
<1>3. /\ adapterRooms \in [Sockets -> SUBSET AllRooms]
      /\ roomKey \in [AllRooms -> SUBSET Sockets]
      /\ socketKey \in [Sockets -> SUBSET AllRooms]
      /\ socketToRooms \in [Sockets -> SUBSET AllRooms]
      /\ roomToSockets \in [AllRooms -> SUBSET Sockets]
  BY DEF Init
<1>. QED  BY <1>1, <1>2, <1>3 DEF TypeInv, TypeOK

\* Answers leave the link, the sockets and the history alone.
LEMMA ServedTyped ==
    ASSUME TypeInv, NEW operations, Reply(operations),
           adapterRooms' \in [Sockets -> SUBSET AllRooms],
           socketToRooms' \in [Sockets -> SUBSET AllRooms],
           roomToSockets' \in [AllRooms -> SUBSET Sockets],
           Finish \/ \E c \in Command : Sound(c) /\ GoOn(c)
    PROVE  TypeInv'
<1>1. roomKey' \in [AllRooms -> SUBSET Sockets] /\ socketKey' \in [Sockets -> SUBSET AllRooms]
  BY Served, RunEffect DEF TypeInv
<1>2. pipe' \in Seq(Command) /\ \A k \in DOMAIN pipe' : Sound(pipe'[k])
  BY Served, PipeFinishes, PipeGoesOn, StaysSound DEF TypeInv
<1>3. ran' = 0 /\ 0 \in 0..Len(pipe')
  BY <1>2, Served, PipeDomain
<1>. QED
  BY <1>1, <1>2, <1>3, Served DEF TypeInv, TypeOK, historyVars, linkVars

LEMMA TypeInvNext == TypeInv /\ [Next]_vars => TypeInv'
<1>. SUFFICES ASSUME TypeInv, [Next]_vars PROVE TypeInv'
  OBVIOUS
<1>. USE BoundsAssumption DEF TypeInv, TypeOK
<1>. DEFINE front == Head(pipe)
<1>1. ASSUME NEW s \in Sockets, Connect(s) PROVE TypeInv'
  <2>1. NewCommand("connect", s, {OwnRoom(s)}) \in Command
    BY NewCommandTyped, RoomSets DEF Operations
  <2>2. Sound(NewCommand("connect", s, {OwnRoom(s)}))
    BY RoomSets DEF Sound, NewCommand
  <2>3. /\ adapterRooms' \in [Sockets -> SUBSET AllRooms]
        /\ asked' \in [Sockets -> SUBSET PrivateRooms]
    BY <1>1, AdapterTyped, RoomSets DEF Connect
  <2>. QED
    BY <1>1, <2>1, <2>2, <2>3, Issued DEF Connect, redisVars, mirrorVars, historyVars, linkVars
<1>2. ASSUME NEW s \in Sockets, Refuse(s) PROVE TypeInv'
  BY <1>2 DEF Refuse, redisVars, mirrorVars, historyVars, linkVars
<1>3. ASSUME NEW s \in Sockets, Disconnect(s) PROVE TypeInv'
  <2>1. NewCommand("lrem", s, {}) \in Command
    BY NewCommandTyped DEF Operations
  <2>2. Sound(NewCommand("lrem", s, {}))
    BY DEF Sound, NewCommand, Joins
  <2>. QED
    BY <1>3, <2>1, <2>2, Issued DEF Disconnect, redisVars, mirrorVars, historyVars, linkVars
<1>4. ASSUME NEW s \in Sockets, NEW r \in Named, JoinRoom(s, r) PROVE TypeInv'
  <2>1. r \in AllRooms
    BY NamedAssumption
  <2>2. NewCommand("join", s, {r}) \in Command
    BY <2>1, NewCommandTyped DEF Operations
  <2>3. Sound(NewCommand("join", s, {r}))
    BY <2>1 DEF Sound, NewCommand
  <2>4. /\ adapterRooms' \in [Sockets -> SUBSET AllRooms]
        /\ asked' \in [Sockets -> SUBSET PrivateRooms]
    BY <1>4, <2>1, AdapterTyped DEF JoinRoom
  <2>. QED
    BY <1>4, <2>2, <2>3, <2>4, Issued DEF JoinRoom, redisVars, mirrorVars, historyVars, linkVars
<1>5. ASSUME NEW s \in Sockets, NEW r \in Named, LeaveRoom(s, r) PROVE TypeInv'
  <2>1. r \in AllRooms
    BY NamedAssumption
  <2>2. NewCommand("leave", s, {r}) \in Command
    BY <2>1, NewCommandTyped DEF Operations
  <2>3. Sound(NewCommand("leave", s, {r}))
    BY <2>1 DEF Sound, NewCommand
  <2>4. adapterRooms' \in [Sockets -> SUBSET AllRooms] /\ asked' \in [Sockets -> SUBSET PrivateRooms]
    BY <1>5 DEF LeaveRoom
  <2>. QED
    BY <1>5, <2>2, <2>3, <2>4, Issued DEF LeaveRoom, redisVars, mirrorVars, historyVars, linkVars
<1>6. ASSUME NEW s \in Sockets, NEW t \in Sockets, NEW r \in MatchRooms, MatchPair(s, t, r)
      PROVE TypeInv'
  <2>. DEFINE c == [NewCommand("first", s, {r}) EXCEPT !.partner = t]
  <2>1. r \in AllRooms
    BY RoomSets
  <2>2. c \in Command /\ Sound(c)
    BY <2>1 DEF NewCommand, Sound, Command, Operations
  <2>3. adapterRooms' \in [Sockets -> SUBSET AllRooms] /\ pipe' = Append(pipe, c)
    BY <1>6, <2>1, AdapterTyped DEF MatchPair
  <2>. HIDE DEF c
  <2>. QED
    BY <1>6, <2>2, <2>3, Issued DEF MatchPair, redisVars, mirrorVars, historyVars, linkVars
<1>7. CASE Joined
  <2>1. front \in Command /\ front.socket \in Sockets /\ TheRoom(front) \in AllRooms
    BY <1>7, Served, TheRoomOfOne, CommandRooms DEF Joined, Joins
  <2>. QED
    BY <1>7, <2>1, MirrorAdds, ServedTyped DEF Joined
<1>8. CASE FirstJoined
  <2>1. /\ front \in Command /\ front.socket \in Sockets /\ front.partner \in Sockets
        /\ TheRoom(front) \in AllRooms /\ front.rooms = {TheRoom(front)}
    BY <1>8, Served, TheRoomOfOne, CommandRooms DEF FirstJoined, Joins
  <2>2. /\ NewCommand("second", front.partner, front.rooms) \in Command
        /\ Sound(NewCommand("second", front.partner, front.rooms))
    BY <2>1, NewCommandTyped DEF Operations, Sound, NewCommand
  <2>. QED
    BY <1>8, <2>1, <2>2, AdapterTyped, MirrorAdds, ServedTyped DEF FirstJoined
<1>9. CASE Left
  <2>1. front \in Command /\ front.socket \in Sockets /\ TheRoom(front) \in AllRooms
    BY <1>9, Served, TheRoomOfOne, CommandRooms DEF Left
  <2>. QED
    BY <1>9, <2>1, MirrorRemoves, ServedTyped DEF Left
<1>10. CASE QueuesCleaned
  <2>1. front.socket \in Sockets
    BY <1>10, Served, CommandRooms DEF QueuesCleaned
  <2>2. /\ NewCommand("smembers", front.socket, {}) \in Command
        /\ Sound(NewCommand("smembers", front.socket, {}))
    BY <2>1, NewCommandTyped DEF Operations, Sound, NewCommand, Joins
  <2>. QED
    BY <1>10, <2>2, ServedTyped DEF QueuesCleaned, mirrorVars
<1>11. CASE RoomsRead
  <2>1. front.socket \in Sockets
    BY <1>11, Served, CommandRooms DEF RoomsRead
  <2>2. /\ NewCommand("cleanup", front.socket, socketKey[front.socket]) \in Command
        /\ Sound(NewCommand("cleanup", front.socket, socketKey[front.socket]))
    BY <2>1, NewCommandTyped DEF Operations, Sound, NewCommand, Joins
  <2>3. /\ socketToRooms' \in [Sockets -> SUBSET AllRooms]
        /\ roomToSockets' \in [AllRooms -> SUBSET Sockets]
    <3>1. UNCHANGED mirrorVars \/ removeSocket(front.socket)
      BY <1>11 DEF RoomsRead
    <3>2. ASSUME removeSocket(front.socket)
          PROVE  /\ socketToRooms' \in [Sockets -> SUBSET AllRooms]
                 /\ roomToSockets' \in [AllRooms -> SUBSET Sockets]
      BY <2>1, <3>2 DEF removeSocket
    <3>. QED  BY <3>1, <3>2 DEF mirrorVars
  <2>. QED
    BY <1>11, <2>2, <2>3, ServedTyped DEF RoomsRead
<1>12. CASE CleanedUp
  <2>1. front.socket \in Sockets
    BY <1>12, Served, CommandRooms DEF CleanedUp
  <2>2. /\ socketToRooms' \in [Sockets -> SUBSET AllRooms]
        /\ roomToSockets' \in [AllRooms -> SUBSET Sockets]
    BY <1>12, <2>1 DEF CleanedUp, removeSocket
  <2>. QED
    BY <1>12, <2>2, ServedTyped DEF CleanedUp
<1>13. CASE Reconnect
  <2>1. 0 \in 0..Len(pipe)
    BY PipeDomain
  <2>. QED
    BY <1>13, <2>1 DEF Reconnect, redisVars, mirrorVars, historyVars
<1>14. CASE GiveUp
  <2>1. pipe' \in Seq(Command) /\ \A k \in DOMAIN pipe' : pipe'[k].op = "smembers"
    <3>1. \A j \in DOMAIN pipe : pipe[j] \in Command
      BY PipeDomain
    <3>. QED  BY <1>14, <3>1, PipeGivesUp DEF Command
  <2>2. \A k \in DOMAIN pipe' : Sound(pipe'[k])
    BY <2>1 DEF Sound, Joins
  <2>3. 0 \in 0..Len(pipe')
    BY <2>1, PipeDomain
  <2>4. phase' \in [Sockets -> {"new", "open", "doomed", "closed"}]
    BY <1>14 DEF GiveUp
  <2>. QED
    BY <1>14, <2>1, <2>2, <2>3, <2>4 DEF GiveUp, redisVars, mirrorVars, historyVars
<1>15. CASE Crash
  <2>1. /\ pipe' \in Seq(Command) /\ ran' \in 0..Len(pipe')
        /\ \A k \in DOMAIN pipe' : Sound(pipe'[k])
    BY <1>15, EmptyPipe DEF Crash
  <2>. QED
    BY <1>15, <2>1 DEF Crash, redisVars, historyVars
<1>16. CASE FallSilent
  BY <1>16 DEF FallSilent, redisVars, mirrorVars, historyVars
<1>17. CASE RunUnanswered
  <2>1. Len(pipe) \in Nat /\ ran + 1 \in 1..Len(pipe) /\ pipe[ran + 1] \in Command
    BY <1>17, PipeDomain DEF RunUnanswered
  <2>2. roomKey' \in [AllRooms -> SUBSET Sockets] /\ socketKey' \in [Sockets -> SUBSET AllRooms]
    BY <1>17, <2>1, RunEffect DEF RunUnanswered
  <2>. QED
    BY <1>17, <2>1, <2>2 DEF RunUnanswered, mirrorVars, historyVars
<1>18. CASE UNCHANGED vars
  BY <1>18 DEF vars, redisVars, mirrorVars, historyVars, linkVars
<1>. QED
  BY <1>1, <1>2, <1>3, <1>4, <1>5, <1>6, <1>7, <1>8, <1>9, <1>10, <1>11, <1>12, <1>13,
     <1>14, <1>15, <1>16, <1>17, <1>18 DEF Next, Serve, Settle

\* Every key, map and command keeps the shape the code gives it.
THEOREM TypeCorrect == Spec => []TypeOK
<1>1. TypeInv => TypeOK
  BY DEF TypeInv
<1>. QED  BY <1>1, TypeInvInit, TypeInvNext, PTL DEF Spec

-----------------------------------------------------------------------------
(* The mirror                                                              *)

LEMMA MirrorNext == TypeInv /\ MirrorPaired /\ [Next]_vars => MirrorPaired'
<1>. SUFFICES ASSUME TypeInv, MirrorPaired, [Next]_vars PROVE MirrorPaired'
  OBVIOUS
<1>. USE DEF TypeInv
<1>1. CASE UNCHANGED mirrorVars
  BY <1>1 DEF MirrorPaired, mirrorVars
<1>2. ASSUME NEW t \in Sockets, NEW r \in AllRooms, addSocketToRoom(t, r) PROVE MirrorPaired'
  BY <1>2, MirrorAdds DEF MirrorPaired
<1>3. ASSUME NEW t \in Sockets, NEW r \in AllRooms, removeSocketFromRoom(t, r)
      PROVE MirrorPaired'
  BY <1>3, MirrorRemoves DEF MirrorPaired
<1>4. ASSUME NEW t \in Sockets, removeSocket(t) PROVE MirrorPaired'
  BY <1>4, ForgetEffect DEF MirrorPaired
<1>5. CASE Joined
  BY <1>2, <1>5, Served, TheRoomOfOne, CommandRooms DEF Joined, Joins
<1>6. CASE FirstJoined
  BY <1>2, <1>6, Served, TheRoomOfOne, CommandRooms DEF FirstJoined, Joins
<1>7. CASE Left
  BY <1>3, <1>7, Served, TheRoomOfOne, CommandRooms DEF Left
<1>8. CASE QueuesCleaned
  BY <1>1, <1>8 DEF QueuesCleaned, mirrorVars
<1>9. CASE RoomsRead
  BY <1>1, <1>4, <1>9, Served, CommandRooms DEF RoomsRead
<1>10. CASE CleanedUp
  BY <1>4, <1>10, Served, CommandRooms DEF CleanedUp
<1>11. CASE Crash
  BY <1>11 DEF Crash, MirrorPaired
<1>12. CASE Reconnect \/ GiveUp \/ FallSilent \/ RunUnanswered \/ UNCHANGED vars
  BY <1>1, <1>12 DEF Reconnect, GiveUp, FallSilent, RunUnanswered, vars
<1>13. ASSUME NEW s \in Sockets,
              \/ Connect(s) \/ Refuse(s) \/ Disconnect(s)
              \/ \E r \in AllRooms : JoinRoom(s, r) \/ LeaveRoom(s, r)
              \/ \E t \in Sockets, r \in MatchRooms : MatchPair(s, t, r)
       PROVE MirrorPaired'
  BY <1>1, <1>13 DEF Connect, Refuse, Disconnect, JoinRoom, LeaveRoom, MatchPair
<1>14. Named \subseteq AllRooms
  BY NamedAssumption
<1>. QED
  BY <1>5, <1>6, <1>7, <1>8, <1>9, <1>10, <1>11, <1>12, <1>13, <1>14 DEF Next, Serve, Settle

\* The two maps of the mirror stay inverse to each other, for every number of
\* sockets and rooms.
THEOREM MirrorStaysPaired == Spec => []MirrorPaired
<1>1. Init => MirrorPaired
  BY DEF Init, MirrorPaired
<1>. QED  BY <1>1, TypeInvInit, TypeInvNext, MirrorNext, PTL DEF Spec

-----------------------------------------------------------------------------
(* Redis                                                                   *)

LEMMA BelowTheLast ==
    ASSUME NEW n \in Nat, NEW k \in 1..n, k # n
    PROVE  k \in 1..n - 1 /\ k < n /\ k + 1 \in 1..n
  OBVIOUS

\* Commands that are put at the end of the pipeline by a socket that is open,
\* by one that closes, and by the handler whose command was answered.
ByOpenSocket(c) ==
    /\ c.op \in {"connect", "join", "leave", "first"}
    /\ phase[c.socket] # "closed" /\ (c.op = "first" => phase[c.partner] # "closed")

ByHandler(c) ==
    \/ pipe[1].op = "first" /\ c.op = "second" /\ c.socket = pipe[1].partner
    \/ /\ c.socket = pipe[1].socket
       /\ \/ pipe[1].op = "lrem" /\ c.op = "smembers"
          \/ pipe[1].op = "smembers" /\ c.op = "cleanup"

StayClosed == \A s \in Sockets : phase[s] = "closed" => phase'[s] = "closed"

LEMMA QuietStep ==
    ASSUME TypeInv, CleanedIsClosed, Quiet, pipe' \in Seq(Command), StayClosed,
           \/ Shrank
           \/ \E c \in Command : Grew(c) /\ (ByOpenSocket(c) \/ (c.op = "lrem" /\ phase'[c.socket] = "closed"))
           \/ \E c \in Command : pipe # <<>> /\ WentOn(c) /\ ByHandler(c)
    PROVE  CleanedIsClosed' /\ Quiet'
<1>1. /\ Len(pipe) \in Nat /\ DOMAIN pipe = 1..Len(pipe)
      /\ Len(pipe') \in Nat /\ DOMAIN pipe' = 1..Len(pipe')
  BY PipeDomain DEF TypeInv, TypeOK
<1>2. \A k \in 1..Len(pipe) : pipe[k].socket \in Sockets
  BY PipeDomain, CommandRooms DEF TypeInv, TypeOK
<1>3. CASE Shrank
  <2>1. \A k \in DOMAIN pipe' : k + 1 \in DOMAIN pipe /\ pipe'[k] = pipe[k + 1]
    BY <1>1, <1>3 DEF Shrank
  <2>2. CleanedIsClosed'
    BY <1>1, <1>2, <2>1 DEF CleanedIsClosed, StayClosed
  <2>3. Quiet'
    BY <1>1, <2>1 DEF Quiet
  <2>. QED  BY <2>2, <2>3
<1>4. ASSUME NEW c \in Command, Grew(c), ByOpenSocket(c) PROVE CleanedIsClosed' /\ Quiet'
  <2>1. /\ DOMAIN pipe' = DOMAIN pipe \cup {Len(pipe) + 1}
        /\ pipe'[Len(pipe) + 1] = c /\ \A k \in DOMAIN pipe : pipe'[k] = pipe[k]
    BY <1>1, <1>4 DEF Grew
  <2>2. c.op \notin Cleaning
    BY <1>4 DEF ByOpenSocket, Cleaning
  <2>3. \A k \in DOMAIN pipe : pipe[k].op \in Cleaning => ~Moves(c, pipe[k].socket)
    BY <1>4 DEF ByOpenSocket, Moves, CleanedIsClosed
  <2>4. CleanedIsClosed'
    BY <1>1, <1>2, <2>1, <2>2 DEF CleanedIsClosed, StayClosed
  <2>5. Quiet'
    BY <2>1, <2>2, <2>3 DEF Quiet, Cleaning
  <2>. QED  BY <2>4, <2>5
<1>5. ASSUME NEW c \in Command, Grew(c), c.op = "lrem", phase'[c.socket] = "closed"
      PROVE CleanedIsClosed' /\ Quiet'
  <2>1. /\ DOMAIN pipe' = DOMAIN pipe \cup {Len(pipe) + 1}
        /\ pipe'[Len(pipe) + 1] = c /\ \A k \in DOMAIN pipe : pipe'[k] = pipe[k]
        /\ \A k \in DOMAIN pipe : k < Len(pipe) + 1
    BY <1>1, <1>5 DEF Grew
  <2>2. \A s : ~Moves(c, s)
    BY <1>5 DEF Moves, Joins
  <2>3. CleanedIsClosed'
    BY <1>1, <1>2, <1>5, <2>1 DEF CleanedIsClosed, StayClosed
  <2>4. Quiet'
    BY <1>5, <2>1, <2>2 DEF Quiet
  <2>. QED  BY <2>3, <2>4
<1>6. ASSUME NEW c \in Command, pipe # <<>>, WentOn(c), ByHandler(c)
      PROVE CleanedIsClosed' /\ Quiet'
  <2>1. /\ DOMAIN pipe' = 1..Len(pipe) /\ 1 \in DOMAIN pipe /\ Len(pipe) >= 1
        /\ pipe'[Len(pipe)] = c
        /\ \A k \in 1..Len(pipe) - 1 : k + 1 \in DOMAIN pipe /\ pipe'[k] = pipe[k + 1]
    BY <1>1, <1>6, PipeFront DEF WentOn, TypeInv
  <2>2. \A k \in 1..Len(pipe) : k # Len(pipe) =>
           k < Len(pipe) /\ k + 1 \in DOMAIN pipe /\ pipe'[k] = pipe[k + 1]
    BY <1>1, <2>1, BelowTheLast
  <2>3. CleanedIsClosed'
    <3>1. c.op \in Cleaning => phase'[c.socket] = "closed"
      BY <1>2, <1>6, <2>1 DEF ByHandler, CleanedIsClosed, StayClosed, Cleaning
    <3>2. ASSUME NEW k \in 1..Len(pipe), k # Len(pipe), pipe'[k].op \in Cleaning
          PROVE  phase'[pipe'[k].socket] = "closed"
      <4>1. k + 1 \in DOMAIN pipe /\ pipe'[k] = pipe[k + 1] /\ pipe[k + 1].socket \in Sockets
        BY <1>1, <1>2, <2>2, <3>2
      <4>. QED  BY <3>2, <4>1 DEF CleanedIsClosed, StayClosed
    <3>. QED  BY <2>1, <3>1, <3>2 DEF CleanedIsClosed
  <2>4. ASSUME NEW j \in 1..Len(pipe), NEW k \in 1..Len(pipe), Moves(pipe'[j], pipe'[k].socket)
        PROVE  /\ pipe'[k].op = "lrem" => j < k \/ pipe'[j].op = "second"
               /\ pipe'[k].op = "smembers" => j < k /\ pipe'[j].op = "second"
               /\ pipe'[k].op # "cleanup"
    <3>1. CASE j # Len(pipe) /\ k # Len(pipe)
      <4>1. Moves(pipe[j + 1], pipe[k + 1].socket)
        BY <2>1, <2>2, <2>4, <3>1
      <4>2. j + 1 < k + 1 <=> j < k
        OBVIOUS
      <4>3. /\ j + 1 \in DOMAIN pipe /\ pipe'[j] = pipe[j + 1]
            /\ k + 1 \in DOMAIN pipe /\ pipe'[k] = pipe[k + 1]
        BY <2>2, <3>1
      <4>. QED  BY <4>1, <4>2, <4>3 DEF Quiet
    <3>2. CASE j = Len(pipe) /\ k # Len(pipe)
      <4>1. c.op = "second" /\ pipe[1].op = "first" /\ pipe'[k].socket = pipe[1].partner
        BY <1>6, <2>1, <2>4, <3>2 DEF ByHandler, Moves, Joins
      <4>2. Moves(pipe[1], pipe[k + 1].socket)
        BY <2>1, <2>2, <3>2, <4>1 DEF Moves
      <4>3. k + 1 \in DOMAIN pipe /\ pipe'[k] = pipe[k + 1] /\ pipe'[j] = c
        BY <2>1, <2>2, <3>2
      <4>. QED  BY <2>1, <4>1, <4>2, <4>3 DEF Quiet
    <3>3. CASE j # Len(pipe) /\ k = Len(pipe)
      <4>1. CASE c.socket = pipe[1].socket /\ pipe[1].op = "lrem" /\ c.op = "smembers"
        <5>1. Moves(pipe[j + 1], pipe[1].socket)
          BY <2>1, <2>2, <2>4, <3>3, <4>1
        <5>2. ~(j + 1 < 1)
          OBVIOUS
        <5>3. /\ j + 1 \in DOMAIN pipe /\ pipe'[j] = pipe[j + 1]
              /\ pipe'[k] = c /\ j < Len(pipe)
          BY <2>1, <2>2, <3>3
        <5>. QED  BY <2>1, <3>3, <4>1, <5>1, <5>2, <5>3 DEF Quiet
      <4>2. CASE c.socket = pipe[1].socket /\ pipe[1].op = "smembers" /\ c.op = "cleanup"
        <5>1. Moves(pipe[j + 1], pipe[1].socket)
          BY <2>1, <2>2, <2>4, <3>3, <4>2
        <5>2. ~(j + 1 < 1)
          OBVIOUS
        <5>3. /\ j + 1 \in DOMAIN pipe /\ pipe'[j] = pipe[j + 1]
              /\ pipe'[k] = c /\ j < Len(pipe)
          BY <2>1, <2>2, <3>3
        <5>. QED  BY <2>1, <3>3, <4>2, <5>1, <5>2, <5>3 DEF Quiet
      <4>3. CASE c.op = "second"
        BY <2>1, <3>3, <4>3
      <4>. QED  BY <1>6, <4>1, <4>2, <4>3 DEF ByHandler
    <3>4. CASE j = Len(pipe) /\ k = Len(pipe)
      BY <2>1, <2>4, <3>4 DEF Moves, Joins
    <3>. QED  BY <3>1, <3>2, <3>3, <3>4
  <2>5. Quiet'
    BY <2>1, <2>4 DEF Quiet
  <2>. QED  BY <2>3, <2>5
<1>. QED  BY <1>3, <1>4, <1>5, <1>6

\* A command Redis runs does not put a socket into rooms its cleanup was not told.
LEMMA RunKeepsPairs ==
    ASSUME TypeInv, RedisInv, NEW i \in DOMAIN pipe, Run(pipe[i])
    PROVE  /\ RedisPaired'
           /\ \A k \in DOMAIN pipe : pipe[k].op = "cleanup" =>
                 socketKey'[pipe[k].socket] \subseteq pipe[k].rooms
<1>. DEFINE c == pipe[i]
<1>1. TypeOK /\ \A k \in DOMAIN pipe : pipe[k] \in Command
  BY PipeDomain DEF TypeInv, TypeOK
<1>2. /\ c \in Command /\ c.socket \in Sockets /\ socketKey[c.socket] \subseteq AllRooms
      /\ \A k \in DOMAIN pipe : pipe[k].op = "cleanup" =>
            /\ pipe[k].socket \in Sockets /\ socketKey[pipe[k].socket] \subseteq pipe[k].rooms
            /\ ~Moves(c, pipe[k].socket)
      /\ c.op = "cleanup" => socketKey[c.socket] \subseteq c.rooms
  BY <1>1, CommandRooms DEF TypeOK, RedisInv, Quiet, ToldAll
<1>. HIDE DEF c
<1>3. /\ \A s \in Sockets \ {c.socket} :
            /\ socketKey'[s] = socketKey[s]
            /\ \A r \in AllRooms : s \in roomKey'[r] <=> s \in roomKey[r]
      /\ \A r \in AllRooms : c.socket \in roomKey'[r] <=>
            r \in Added(c) \/ (c.socket \in roomKey[r] /\ r \notin Taken(c))
      /\ socketKey'[c.socket] = IF c.op = "cleanup" THEN {}
                                ELSE (socketKey[c.socket] \cup Added(c)) \ Taken(c)
      /\ Added(c) = {} \/ Taken(c) = {}
  BY <1>1, <1>2, RunEffect, CommandRooms DEF c
<1>4. RedisPaired'
  <2>1. ASSUME NEW r \in AllRooms
        PROVE  r \in socketKey'[c.socket] <=> c.socket \in roomKey'[r]
    <3>1. r \in socketKey[c.socket] <=> c.socket \in roomKey[r]
      BY <1>2 DEF RedisInv, RedisPaired
    <3>2. CASE c.op = "cleanup"
      <4>1. Taken(c) = c.rooms /\ Added(c) = {}
        BY <3>2 DEF Taken, Added, Joins
      <4>. QED  BY <1>2, <1>3, <3>1, <3>2, <4>1
    <3>3. CASE c.op # "cleanup"
      BY <1>3, <3>1, <3>3
    <3>. QED  BY <3>2, <3>3
  <2>2. \A s \in Sockets \ {c.socket}, r \in AllRooms :
           r \in socketKey'[s] <=> s \in roomKey'[r]
    BY <1>3 DEF RedisInv, RedisPaired
  <2>. QED  BY <2>1, <2>2 DEF RedisPaired
<1>5. ASSUME NEW k \in DOMAIN pipe, pipe[k].op = "cleanup"
      PROVE  socketKey'[pipe[k].socket] \subseteq pipe[k].rooms
  <2>1. CASE pipe[k].socket = c.socket
    <3>1. Added(c) = {}
      BY <1>2, <1>5, <2>1 DEF Moves, Added
    <3>. QED  BY <1>2, <1>3, <1>5, <2>1, <3>1
  <2>2. CASE pipe[k].socket # c.socket
    BY <1>2, <1>3, <1>5, <2>2
  <2>. QED  BY <2>1, <2>2
<1>. QED  BY <1>4, <1>5

\* The same for the command at the front, whose handler ends or goes on.
LEMMA RedisServed ==
    ASSUME TypeInv, RedisInv, NEW operations, Reply(operations),
           \/ Finish
           \/ \E c \in Command :
                 /\ GoOn(c) /\ ByHandler(c)
                 /\ c.op = "cleanup" => c.rooms = socketKey[c.socket]
    PROVE  RedisInv'
<1>1. /\ pipe # <<>> /\ 1 \in DOMAIN pipe /\ Run(pipe[1]) /\ phase' = phase
      /\ Len(pipe) \in Nat /\ DOMAIN pipe = 1..Len(pipe) /\ pipe[1] \in Command
  BY Served, PipeDomain DEF TypeInv, TypeOK
<1>2. /\ RedisPaired'
      /\ \A k \in DOMAIN pipe : pipe[k].op = "cleanup" =>
            socketKey'[pipe[k].socket] \subseteq pipe[k].rooms
  BY <1>1, RunKeepsPairs
<1>3. StayClosed
  BY <1>1 DEF StayClosed
<1>4. CASE Finish
  <2>1. pipe' \in Seq(Command) /\ Shrank
    BY <1>1, <1>4, PipeFinishes DEF TypeInv
  <2>2. \A k \in DOMAIN pipe' : k + 1 \in DOMAIN pipe /\ pipe'[k] = pipe[k + 1]
    BY <1>1, <2>1, PipeDomain DEF Shrank
  <2>3. CleanedIsClosed' /\ Quiet'
    BY <1>3, <2>1, QuietStep DEF RedisInv
  <2>4. ToldAll'
    BY <1>2, <2>2 DEF ToldAll
  <2>. QED  BY <1>2, <2>3, <2>4 DEF RedisInv
<1>5. ASSUME NEW c \in Command, GoOn(c), ByHandler(c),
             c.op = "cleanup" => c.rooms = socketKey[c.socket]
      PROVE  RedisInv'
  <2>1. pipe' \in Seq(Command) /\ WentOn(c)
    BY <1>1, <1>5, PipeGoesOn DEF TypeInv
  <2>2. /\ DOMAIN pipe' = 1..Len(pipe) /\ pipe'[Len(pipe)] = c
        /\ \A k \in DOMAIN pipe' : k # Len(pipe) =>
              k + 1 \in DOMAIN pipe /\ pipe'[k] = pipe[k + 1]
    BY <1>1, <2>1, PipeDomain, BelowTheLast DEF WentOn
  <2>3. CleanedIsClosed' /\ Quiet'
    BY <1>1, <1>3, <1>5, <2>1, QuietStep DEF RedisInv
  <2>4. c.op = "cleanup" => socketKey'[c.socket] \subseteq c.rooms
    <3>1. SUFFICES ASSUME c.op = "cleanup"
                   PROVE  socketKey'[c.socket] \subseteq c.rooms
      OBVIOUS
    <3>2. pipe[1].op = "smembers"
      BY <1>5, <3>1 DEF ByHandler
    <3>3. socketKey' = socketKey
      BY <1>1, <3>2, RunNothing DEF TypeInv
    <3>. QED  BY <1>5, <3>1, <3>3
  <2>5. ToldAll'
    BY <1>2, <2>2, <2>4 DEF ToldAll
  <2>. QED  BY <1>2, <2>3, <2>5 DEF RedisInv
<1>. QED  BY <1>4, <1>5

\* The same for a new handler: no key changes.
LEMMA RedisIssued ==
    ASSUME TypeInv, RedisInv, StayClosed, UNCHANGED redisVars,
           NEW c \in Command, pipe' = Append(pipe, c),
           ByOpenSocket(c) \/ (c.op = "lrem" /\ phase'[c.socket] = "closed")
    PROVE  RedisInv'
<1>1. pipe' \in Seq(Command) /\ Len(pipe) \in Nat /\ Grew(c)
  BY PipeGrows DEF TypeInv
<1>2. CleanedIsClosed' /\ Quiet'
  BY <1>1, QuietStep DEF RedisInv
<1>3. /\ DOMAIN pipe' = DOMAIN pipe \cup {Len(pipe) + 1}
      /\ pipe'[Len(pipe) + 1] = c /\ \A k \in DOMAIN pipe : pipe'[k] = pipe[k]
  BY <1>1, PipeDomain DEF Grew, TypeInv, TypeOK
<1>4. c.op # "cleanup"
  BY DEF ByOpenSocket
<1>5. ToldAll'
  BY <1>3, <1>4 DEF RedisInv, ToldAll, redisVars
<1>6. RedisPaired'
  BY DEF RedisInv, RedisPaired, redisVars
<1>. QED  BY <1>2, <1>5, <1>6 DEF RedisInv

LEMMA RedisInvInit == Init => RedisInv
<1>1. Init => DOMAIN pipe = {}
  BY EmptyPipe DEF Init
<1>2. Init => RedisPaired
  BY DEF Init, RedisPaired
<1>. QED  BY <1>1, <1>2 DEF RedisInv, CleanedIsClosed, Quiet, ToldAll

LEMMA RedisInvNext == TypeInv /\ RedisInv /\ [Next]_vars => RedisInv'
<1>. SUFFICES ASSUME TypeInv, RedisInv, [Next]_vars PROVE RedisInv'
  OBVIOUS
<1>. DEFINE front == Head(pipe)
<1>1. ASSUME NEW s \in Sockets, Connect(s) PROVE RedisInv'
  <2>. DEFINE c == NewCommand("connect", s, {OwnRoom(s)})
  <2>1. c \in Command /\ ByOpenSocket(c)
    BY <1>1, NewCommandTyped, RoomSets DEF Operations, Connect, ByOpenSocket, NewCommand
  <2>2. StayClosed
    BY <1>1 DEF Connect, StayClosed, TypeInv, TypeOK
  <2>. HIDE DEF c
  <2>. QED  BY <1>1, <2>1, <2>2, RedisIssued DEF Connect, c
<1>2. ASSUME NEW s \in Sockets, Refuse(s) PROVE RedisInv'
  <2>1. pipe' = pipe /\ UNCHANGED redisVars
    BY <1>2 DEF Refuse
  <2>2. \A k \in DOMAIN pipe : pipe[k].op \in Cleaning => phase'[pipe[k].socket] = "closed"
    <3>1. \A k \in DOMAIN pipe : pipe[k].socket \in Sockets
      BY PipeDomain, CommandRooms DEF TypeInv, TypeOK
    <3>. QED  BY <1>2, <3>1 DEF Refuse, RedisInv, CleanedIsClosed, TypeInv, TypeOK
  <2>. QED
    BY <2>1, <2>2 DEF RedisInv, CleanedIsClosed, Quiet, ToldAll, RedisPaired, redisVars
<1>3. ASSUME NEW s \in Sockets, Disconnect(s) PROVE RedisInv'
  <2>. DEFINE c == NewCommand("lrem", s, {})
  <2>1. c \in Command /\ c.op = "lrem" /\ phase'[c.socket] = "closed"
    BY <1>3, NewCommandTyped DEF Operations, Disconnect, NewCommand, TypeInv, TypeOK
  <2>2. StayClosed
    BY <1>3 DEF Disconnect, StayClosed, TypeInv, TypeOK
  <2>. HIDE DEF c
  <2>. QED  BY <1>3, <2>1, <2>2, RedisIssued DEF Disconnect, c
<1>4. ASSUME NEW s \in Sockets, NEW r \in AllRooms, JoinRoom(s, r) PROVE RedisInv'
  <2>. DEFINE c == NewCommand("join", s, {r})
  <2>1. c \in Command /\ ByOpenSocket(c) /\ StayClosed
    BY <1>4, NewCommandTyped DEF Operations, JoinRoom, ByOpenSocket, NewCommand, StayClosed
  <2>. HIDE DEF c
  <2>. QED  BY <1>4, <2>1, RedisIssued DEF JoinRoom, c
<1>5. ASSUME NEW s \in Sockets, NEW r \in AllRooms, LeaveRoom(s, r) PROVE RedisInv'
  <2>. DEFINE c == NewCommand("leave", s, {r})
  <2>1. c \in Command /\ ByOpenSocket(c) /\ StayClosed
    BY <1>5, NewCommandTyped DEF Operations, LeaveRoom, ByOpenSocket, NewCommand, StayClosed
  <2>. HIDE DEF c
  <2>. QED  BY <1>5, <2>1, RedisIssued DEF LeaveRoom, c
<1>6. ASSUME NEW s \in Sockets, NEW t \in Sockets, NEW r \in MatchRooms, MatchPair(s, t, r)
      PROVE RedisInv'
  <2>. DEFINE c == [NewCommand("first", s, {r}) EXCEPT !.partner = t]
  <2>1. c \in Command
    BY RoomSets DEF NewCommand, Command, Operations
  <2>2. ByOpenSocket(c) /\ StayClosed
    BY <1>6 DEF MatchPair, ByOpenSocket, NewCommand, StayClosed
  <2>. HIDE DEF c
  <2>. QED  BY <1>6, <2>1, <2>2, RedisIssued DEF MatchPair, c
<1>7. CASE Joined
  BY <1>7, RedisServed DEF Joined
<1>8. CASE FirstJoined
  <2>1. /\ front = pipe[1] /\ front.op = "first" /\ front.partner \in Sockets
        /\ front.rooms \subseteq AllRooms
    BY <1>8, Served, CommandRooms DEF FirstJoined
  <2>. DEFINE c == NewCommand("second", front.partner, front.rooms)
  <2>2. c \in Command /\ ByHandler(c) /\ c.op # "cleanup"
    BY <2>1, NewCommandTyped DEF Operations, NewCommand, ByHandler
  <2>3. GoOn(c)
    BY <1>8 DEF FirstJoined
  <2>. HIDE DEF c
  <2>. QED  BY <1>8, <2>2, <2>3, RedisServed DEF FirstJoined
<1>9. CASE Left
  BY <1>9, RedisServed DEF Left
<1>10. CASE QueuesCleaned
  <2>1. front = pipe[1] /\ front.op = "lrem" /\ front.socket \in Sockets
    BY <1>10, Served, CommandRooms DEF QueuesCleaned
  <2>. DEFINE c == NewCommand("smembers", front.socket, {})
  <2>2. c \in Command /\ ByHandler(c) /\ c.op # "cleanup"
    BY <2>1, NewCommandTyped DEF Operations, NewCommand, ByHandler
  <2>3. GoOn(c)
    BY <1>10 DEF QueuesCleaned
  <2>. HIDE DEF c
  <2>. QED  BY <1>10, <2>2, <2>3, RedisServed DEF QueuesCleaned
<1>11. CASE RoomsRead
  <2>1. front = pipe[1] /\ front.op = "smembers" /\ front.socket \in Sockets
    BY <1>11, Served, CommandRooms DEF RoomsRead
  <2>. DEFINE c == NewCommand("cleanup", front.socket, socketKey[front.socket])
  <2>2. c \in Command /\ ByHandler(c) /\ c.rooms = socketKey[c.socket]
    <3>1. socketKey[front.socket] \in SUBSET AllRooms
      BY <2>1 DEF TypeInv, TypeOK
    <3>. QED  BY <2>1, <3>1, NewCommandTyped DEF Operations, NewCommand, ByHandler
  <2>3. Finish \/ GoOn(c)
    BY <1>11 DEF RoomsRead
  <2>. HIDE DEF c
  <2>. QED  BY <1>11, <2>2, <2>3, RedisServed DEF RoomsRead
<1>12. CASE CleanedUp
  BY <1>12, RedisServed DEF CleanedUp
<1>13. CASE GiveUp
  <2>1. \A k \in DOMAIN pipe' : \E j \in DOMAIN pipe :
           /\ pipe[j].op = "lrem" /\ pipe[j].socket \in Sockets
           /\ pipe'[k].op = "smembers" /\ pipe'[k].socket = pipe[j].socket
    <3>1. \A j \in DOMAIN pipe : pipe[j] \in Command
      BY PipeDomain DEF TypeInv, TypeOK
    <3>. QED  BY <1>13, <3>1, PipeGivesUp DEF Command, TypeInv
  <2>2. CleanedIsClosed'
    BY <1>13, <2>1 DEF RedisInv, CleanedIsClosed, GiveUp, Cleaning
  <2>3. Quiet'
    BY <2>1 DEF Quiet, Moves, Joins
  <2>4. ToldAll'
    BY <2>1 DEF ToldAll
  <2>. QED  BY <1>13, <2>2, <2>3, <2>4 DEF RedisInv, RedisPaired, GiveUp, redisVars
<1>14. CASE Crash
  <2>1. DOMAIN pipe' = {}
    BY <1>14, EmptyPipe DEF Crash
  <2>. QED
    BY <1>14, <2>1 DEF Crash, redisVars, RedisInv, CleanedIsClosed, Quiet, ToldAll, RedisPaired
<1>15. CASE RunUnanswered
  <2>1. ran + 1 \in DOMAIN pipe
    BY <1>15, PipeDomain DEF RunUnanswered, TypeInv, TypeOK
  <2>. QED
    BY <1>15, <2>1, RunKeepsPairs DEF RunUnanswered, RedisInv, CleanedIsClosed, Quiet, ToldAll
<1>16. CASE Reconnect \/ FallSilent \/ UNCHANGED vars
  BY <1>16 DEF Reconnect, FallSilent, vars, redisVars, RedisInv, CleanedIsClosed, Quiet,
     ToldAll, RedisPaired
<1>17. Named \subseteq AllRooms
  BY NamedAssumption
<1>. QED
  BY <1>1, <1>2, <1>3, <1>4, <1>5, <1>6, <1>7, <1>8, <1>9, <1>10, <1>11, <1>12, <1>13,
     <1>14, <1>15, <1>16, <1>17 DEF Next, Serve, Settle

\* room:<r> and socket:<s> name each other after every step, also after commands
\* that ran unanswered and were sent again: whatever joins a closing socket to a
\* room is ahead of the read of its rooms.
THEOREM RedisStaysPaired == Spec => []RedisPaired
<1>1. RedisInv => RedisPaired
  BY DEF RedisInv
<1>. QED  BY <1>1, TypeInvInit, TypeInvNext, RedisInvInit, RedisInvNext, PTL DEF Spec
=============================================================================
