----------------------------- MODULE RoomsViews -----------------------------
(***************************************************************************)
(* What the adapter, Redis, the mirror and ConnectionService say of a      *)
(* socket, for every set of sockets, users and rooms.  While no command    *)
(* was lost,                                                               *)
(*   LeftInv: a closed socket is being cleaned up or has left no trace;    *)
(*   ViewInv: for an open one, the last command under way for a room       *)
(*     agrees with the adapter, so that the views meet when it is served;  *)
(*   PresenceInv: an open socket is tracked, and its private rooms in the  *)
(*     adapter, its own or not, are those it last asked to be in.          *)
(* The three rest on TypeInv, MirrorPaired and RedisInv.                   *)
(***************************************************************************)
EXTENDS RoomsProofs

-----------------------------------------------------------------------------
\* A closed socket is being cleaned up, or clean for good.
Clean(s) == /\ socketKey[s] = {} /\ socketToRooms[s] = {}
            /\ \A k \in DOMAIN pipe : ~Moves(pipe[k], s)

BeingCleaned(s) == \E k \in DOMAIN pipe : pipe[k].op \in Cleaning /\ pipe[k].socket = s

LeftInv == ~lost => \A s \in Sockets : phase[s] = "closed" =>
    adapterRooms[s] = {} /\ (BeingCleaned(s) \/ Clean(s))

-----------------------------------------------------------------------------
\* The last command under way for a socket and a room agrees with the adapter;
\* with none under way the three views agree.
Touches(c, s, r) == c.op \in Joins \cup {"leave"} /\ c.socket = s /\ r \in c.rooms

SettledView(s, r) ==
    (\A k \in DOMAIN pipe : ~Touches(pipe[k], s, r)) =>
        /\ r \in adapterRooms[s] <=> r \in socketKey[s]
        /\ r \in socketKey[s] <=> r \in socketToRooms[s]

LastDecides(s, r) ==
    \A k \in DOMAIN pipe :
        Touches(pipe[k], s, r) /\ (\A j \in DOMAIN pipe : k < j => ~Touches(pipe[j], s, r))
        => (pipe[k].op \in Joins <=> r \in adapterRooms[s])

ViewInv == ~lost => \A s \in Sockets : phase[s] # "closed" =>
    \A r \in AllRooms : SettledView(s, r) /\ LastDecides(s, r)

-----------------------------------------------------------------------------
\* The private rooms of a socket in the adapter are those it asked for.
PresenceInv == ~lost => \A s \in Sockets :
    /\ phase[s] = "open" => s \in tracked
    /\ phase[s] = "closed" => s \notin tracked
    /\ phase[s] # "closed" =>
          \A r \in PrivateRooms : /\ r \in adapterRooms[s] <=> r \in asked[s]
                                  /\ s \notin tracked => r \notin asked[s]

-----------------------------------------------------------------------------
(* The pipeline as a set of commands                                       *)

\* When the command at the front is answered all others stay, in their order, and
\* at most one is added, at the end.
LEMMA Shifted ==
    ASSUME TypeInv, pipe # <<>>, pipe' \in Seq(Command),
           NEW c, Shrank \/ WentOn(c)
    PROVE  /\ \A k \in DOMAIN pipe : k # 1 => k - 1 \in DOMAIN pipe' /\ pipe'[k - 1] = pipe[k]
           /\ \A k \in DOMAIN pipe' :
                 \/ k + 1 \in DOMAIN pipe /\ pipe'[k] = pipe[k + 1]
                 \/ WentOn(c) /\ k = Len(pipe) /\ pipe'[k] = c
           /\ WentOn(c) => Len(pipe) \in DOMAIN pipe' /\ pipe'[Len(pipe)] = c
<1>1. /\ Len(pipe) \in Nat /\ DOMAIN pipe = 1..Len(pipe)
      /\ Len(pipe') \in Nat /\ DOMAIN pipe' = 1..Len(pipe')
      /\ Len(pipe) # 0
  BY PipeDomain, PipeFront DEF TypeInv, TypeOK
<1>2. CASE Shrank
  <2>1. /\ \A k \in DOMAIN pipe : k # 1 => k - 1 \in DOMAIN pipe' /\ pipe'[k - 1] = pipe[k]
        /\ \A k \in DOMAIN pipe' : k + 1 \in DOMAIN pipe /\ pipe'[k] = pipe[k + 1]
    BY <1>1, <1>2 DEF Shrank
  <2>2. ~WentOn(c)
    <3>1. Len(pipe') = Len(pipe) - 1
      BY <1>2 DEF Shrank
    <3>2. Len(pipe) - 1 # Len(pipe)
      BY PipeDomain DEF TypeInv, TypeOK
    <3>. QED  BY <3>1, <3>2 DEF WentOn
  <2>. QED  BY <2>1, <2>2
<1>3. CASE WentOn(c)
  <2>1. /\ DOMAIN pipe' = DOMAIN pipe /\ Len(pipe) \in DOMAIN pipe' /\ pipe'[Len(pipe)] = c
        /\ \A k \in 1..Len(pipe) - 1 : pipe'[k] = pipe[k + 1]
    BY <1>1, <1>3 DEF WentOn
  <2>2. \A k \in DOMAIN pipe' : k # Len(pipe) => k + 1 \in DOMAIN pipe /\ pipe'[k] = pipe[k + 1]
    BY <1>1, <2>1, BelowTheLast
  <2>3. \A k \in DOMAIN pipe : k # 1 => k - 1 \in DOMAIN pipe' /\ pipe'[k - 1] = pipe[k]
    BY <1>1, <2>1
  <2>. QED  BY <1>3, <2>1, <2>2, <2>3
<1>. QED  BY <1>2, <1>3

\* A new handler is added at the end.
LEMMA AddedAtEnd ==
    ASSUME TypeInv, NEW c \in Command, pipe' = Append(pipe, c)
    PROVE  /\ DOMAIN pipe' = DOMAIN pipe \cup {Len(pipe) + 1}
           /\ pipe'[Len(pipe) + 1] = c
           /\ \A k \in DOMAIN pipe : k < Len(pipe) + 1 /\ pipe'[k] = pipe[k]
  BY PipeGrows, PipeDomain DEF Grew, TypeInv, TypeOK

-----------------------------------------------------------------------------
(* Closed sockets                                                          *)

\* What a command does to the sockets it does not move.
LEMMA RunLeavesAlone ==
    ASSUME TypeOK, NEW c \in Command, Run(c), NEW s \in Sockets, ~Moves(c, s)
    PROVE  socketKey'[s] \subseteq socketKey[s]
<1>1. CASE s = c.socket
  <2>1. Added(c) = {}
    BY <1>1 DEF Moves, Added
  <2>2. socketKey'[s] = IF c.op = "cleanup" THEN {} ELSE (socketKey[s] \cup {}) \ Taken(c)
    BY <1>1, <2>1, RunEffect
  <2>. QED  BY <2>2
<1>2. CASE s # c.socket
  BY <1>2, RunEffect
<1>. QED  BY <1>1, <1>2

LEMMA LeftIssued ==
    ASSUME TypeInv, LeftInv, UNCHANGED <<socketKey, socketToRooms, lost>>,
           NEW c \in Command, pipe' = Append(pipe, c),
           \A s \in Sockets : phase'[s] = "closed" => adapterRooms'[s] \subseteq adapterRooms[s],
           \/ ByOpenSocket(c) /\ \A s \in Sockets : phase'[s] = "closed" => phase[s] = "closed"
           \/ /\ c.op = "lrem" /\ adapterRooms'[c.socket] = {}
              /\ \A s \in Sockets \ {c.socket} : phase'[s] = "closed" => phase[s] = "closed"
    PROVE  LeftInv'
<1>. SUFFICES ASSUME ~lost', NEW s \in Sockets, phase'[s] = "closed"
              PROVE  adapterRooms'[s] = {} /\ (BeingCleaned(s) \/ Clean(s))'
  BY DEF LeftInv
<1>1. CASE c.op = "lrem" /\ s = c.socket
  BY <1>1, AddedAtEnd DEF BeingCleaned, Cleaning, ByOpenSocket
<1>2. CASE ~(c.op = "lrem" /\ s = c.socket)
  <2>1. phase[s] = "closed" /\ ~lost
    BY <1>2 DEF ByOpenSocket
  <2>2. adapterRooms[s] = {} /\ (BeingCleaned(s) \/ Clean(s))
    BY <2>1 DEF LeftInv
  <2>3. BeingCleaned(s) => BeingCleaned(s)'
    BY AddedAtEnd DEF BeingCleaned
  <2>4. ~Moves(c, s)
    BY <2>1 DEF ByOpenSocket, Moves, Joins
  <2>5. Clean(s) => Clean(s)'
    BY <2>4, AddedAtEnd DEF Clean
  <2>. QED  BY <2>2, <2>3, <2>5
<1>. QED  BY <1>1, <1>2

\* An answered command leaves a clean socket clean, and a cleanup ends only when
\* its socket is clean.
LEMMA LeftServed ==
    ASSUME TypeInv, RedisInv, LeftInv, NEW operations, Reply(operations),
           NEW c \in Command, Finish \/ (GoOn(c) /\ ByHandler(c)),
           \A s \in Sockets : phase[s] = "closed" => adapterRooms'[s] \subseteq adapterRooms[s],
           \A s \in Sockets : ~Moves(pipe[1], s) => socketToRooms'[s] \subseteq socketToRooms[s],
           Finish /\ pipe[1].op \in Cleaning =>
               pipe[1].op # "lrem" /\ socketToRooms'[pipe[1].socket] = {}
               /\ (pipe[1].op = "smembers" => socketKey[pipe[1].socket] = {})
    PROVE  LeftInv'
<1>1. /\ pipe # <<>> /\ 1 \in DOMAIN pipe /\ Run(pipe[1]) /\ phase' = phase /\ lost' = lost
      /\ pipe[1] \in Command /\ pipe[1].socket \in Sockets
  BY Served, CommandRooms DEF linkVars
<1>2. pipe' \in Seq(Command) /\ ((Finish /\ Shrank) \/ (GoOn(c) /\ WentOn(c)))
  BY <1>1, PipeFinishes, PipeGoesOn DEF TypeInv
<1>3. /\ \A k \in DOMAIN pipe : k # 1 => k - 1 \in DOMAIN pipe' /\ pipe'[k - 1] = pipe[k]
      /\ \A k \in DOMAIN pipe' :
            \/ k + 1 \in DOMAIN pipe /\ pipe'[k] = pipe[k + 1] /\ k + 1 > 1
            \/ WentOn(c) /\ k = Len(pipe) /\ pipe'[k] = c
      /\ WentOn(c) => Len(pipe) \in DOMAIN pipe' /\ pipe'[Len(pipe)] = c
  <2>1. \A k \in DOMAIN pipe' : k + 1 > 1
    BY <1>2, PipeDomain
  <2>. QED  BY <1>1, <1>2, <2>1, Shifted
<1>. SUFFICES ASSUME ~lost', NEW s \in Sockets, phase'[s] = "closed"
              PROVE  adapterRooms'[s] = {} /\ (BeingCleaned(s) \/ Clean(s))'
  BY DEF LeftInv
<1>4. adapterRooms[s] = {} /\ (BeingCleaned(s) \/ Clean(s))
  BY <1>1 DEF LeftInv
<1>5. ASSUME Clean(s) PROVE Clean(s)'
  <2>1. ~Moves(pipe[1], s)
    BY <1>1, <1>5 DEF Clean
  <2>2. socketKey'[s] = {} /\ socketToRooms'[s] = {}
    BY <1>1, <1>5, <2>1, RunLeavesAlone DEF Clean, TypeInv
  <2>3. GoOn(c) /\ ByHandler(c) => ~Moves(c, s)
    BY <2>1 DEF ByHandler, Moves, Joins
  <2>4. \A k \in DOMAIN pipe' : ~Moves(pipe'[k], s)
    <3>1. WentOn(c) => ~Moves(c, s)
      <4>1. Shrank => ~WentOn(c)
        <5>1. Len(pipe) \in Nat /\ Len(pipe) - 1 # Len(pipe)
          BY PipeDomain DEF TypeInv, TypeOK
        <5>. QED  BY <5>1 DEF Shrank, WentOn
      <4>2. (GoOn(c) /\ ByHandler(c)) \/ Shrank
        BY <1>1, PipeFinishes DEF TypeInv
      <4>. QED  BY <2>3, <4>1, <4>2
    <3>. QED  BY <1>3, <1>5, <3>1 DEF Clean
  <2>. QED  BY <2>2, <2>4 DEF Clean
<1>6. ASSUME NEW k \in DOMAIN pipe, k # 1, pipe[k].op \in Cleaning, pipe[k].socket = s
      PROVE  BeingCleaned(s)'
  BY <1>3, <1>6 DEF BeingCleaned
<1>7. ASSUME pipe[1].op \in Cleaning, pipe[1].socket = s
      PROVE  (BeingCleaned(s) \/ Clean(s))'
  <2>1. CASE Finish /\ Shrank
    <3>1. pipe[1].op \in {"smembers", "cleanup"} /\ socketToRooms'[s] = {}
      BY <1>7, <2>1 DEF Cleaning
    <3>2. socketKey'[s] = {}
      <4>1. CASE pipe[1].op = "smembers"
        BY <1>1, <1>7, <2>1, <4>1, RunNothing DEF TypeInv
      <4>2. CASE pipe[1].op = "cleanup"
        BY <1>1, <1>7, <4>2, RunEffect DEF TypeInv
      <4>. QED  BY <3>1, <4>1, <4>2
    <3>3. \A j \in DOMAIN pipe : Moves(pipe[j], s) => j < 1
      BY <1>1, <1>7, <3>1 DEF RedisInv, Quiet
    <3>4. \A k \in DOMAIN pipe' : k + 1 \in DOMAIN pipe /\ pipe'[k] = pipe[k + 1] /\ ~(k + 1 < 1)
      <4>1. ~WentOn(c)
        <5>1. Len(pipe) - 1 # Len(pipe)
          BY PipeDomain DEF TypeInv, TypeOK
        <5>. QED  BY <2>1, <5>1 DEF Shrank, WentOn
      <4>2. \A k \in Nat : k + 1 > 1 => ~(k + 1 < 1)
        OBVIOUS
      <4>3. DOMAIN pipe' \subseteq Nat
        BY <1>2, PipeDomain
      <4>. QED  BY <1>3, <4>1, <4>2, <4>3
    <3>5. \A k \in DOMAIN pipe' : ~Moves(pipe'[k], s)
      BY <3>3, <3>4
    <3>. QED  BY <3>1, <3>2, <3>5 DEF Clean
  <2>2. CASE GoOn(c) /\ WentOn(c)
    <3>1. Finish \/ (c.op \in Cleaning /\ c.socket = s)
      BY <1>7 DEF ByHandler, Cleaning
    <3>2. CASE Finish
      <4>. Shrank
        BY <1>1, <3>2, PipeFinishes DEF TypeInv
      <4>. QED  BY <2>1, <3>2
    <3>3. CASE c.op \in Cleaning /\ c.socket = s
      BY <1>3, <2>2, <3>3 DEF BeingCleaned
    <3>. QED  BY <3>1, <3>2, <3>3
  <2>. QED  BY <1>2, <2>1, <2>2
<1>8. BeingCleaned(s) => (BeingCleaned(s) \/ Clean(s))'
  BY <1>6, <1>7 DEF BeingCleaned
<1>. QED  BY <1>1, <1>4, <1>5, <1>8

LEMMA LeftInvInit == Init => LeftInv
  BY DEF Init, LeftInv

LEMMA LeftInvNext == TypeInv /\ RedisInv /\ MirrorPaired /\ LeftInv /\ [Next]_vars => LeftInv'
<1>. SUFFICES ASSUME TypeInv, RedisInv, MirrorPaired, LeftInv, [Next]_vars PROVE LeftInv'
  OBVIOUS
<1>. DEFINE front == Head(pipe)
<1>1. ASSUME NEW s \in Sockets, Connect(s) PROVE LeftInv'
  <2>. DEFINE c == NewCommand("connect", s, {OwnRoom(s)})
  <2>1. c \in Command /\ ByOpenSocket(c)
    BY <1>1, NewCommandTyped, RoomSets DEF Operations, Connect, ByOpenSocket, NewCommand
  <2>2. \A q \in Sockets : phase'[q] = "closed" =>
           phase[q] = "closed" /\ adapterRooms'[q] \subseteq adapterRooms[q]
    BY <1>1 DEF Connect, AdapterJoin, TypeInv, TypeOK
  <2>. HIDE DEF c
  <2>. QED  BY <1>1, <2>1, <2>2, LeftIssued DEF Connect, c, redisVars, mirrorVars, linkVars
<1>2. ASSUME NEW s \in Sockets, Refuse(s) PROVE LeftInv'
  <2>1. \A q \in Sockets : phase'[q] = "closed" => phase[q] = "closed"
    BY <1>2 DEF Refuse, TypeInv, TypeOK
  <2>. QED
    BY <1>2, <2>1 DEF Refuse, redisVars, mirrorVars, linkVars, LeftInv, BeingCleaned, Clean
<1>3. ASSUME NEW s \in Sockets, Disconnect(s) PROVE LeftInv'
  <2>. DEFINE c == NewCommand("lrem", s, {})
  <2>1. c \in Command /\ c.op = "lrem" /\ c.socket = s
    BY NewCommandTyped DEF Operations, NewCommand
  <2>2. /\ adapterRooms'[s] = {}
        /\ \A q \in Sockets : phase'[q] = "closed" =>
              adapterRooms'[q] \subseteq adapterRooms[q] /\ (q # s => phase[q] = "closed")
    BY <1>3 DEF Disconnect, TypeInv, TypeOK
  <2>. HIDE DEF c
  <2>. QED  BY <1>3, <2>1, <2>2, LeftIssued DEF Disconnect, c, redisVars, mirrorVars, linkVars
<1>4. ASSUME NEW s \in Sockets, NEW r \in AllRooms, JoinRoom(s, r) PROVE LeftInv'
  <2>. DEFINE c == NewCommand("join", s, {r})
  <2>1. c \in Command /\ ByOpenSocket(c)
    BY <1>4, NewCommandTyped DEF Operations, JoinRoom, ByOpenSocket, NewCommand
  <2>2. \A q \in Sockets : phase'[q] = "closed" =>
           phase[q] = "closed" /\ adapterRooms'[q] \subseteq adapterRooms[q]
    BY <1>4 DEF JoinRoom, AdapterJoin, TypeInv, TypeOK
  <2>. HIDE DEF c
  <2>. QED  BY <1>4, <2>1, <2>2, LeftIssued DEF JoinRoom, c, redisVars, mirrorVars, linkVars
<1>5. ASSUME NEW s \in Sockets, NEW r \in AllRooms, LeaveRoom(s, r) PROVE LeftInv'
  <2>. DEFINE c == NewCommand("leave", s, {r})
  <2>1. c \in Command /\ ByOpenSocket(c)
    BY <1>5, NewCommandTyped DEF Operations, LeaveRoom, ByOpenSocket, NewCommand
  <2>2. \A q \in Sockets : phase'[q] = "closed" =>
           phase[q] = "closed" /\ adapterRooms'[q] \subseteq adapterRooms[q]
    BY <1>5 DEF LeaveRoom, TypeInv, TypeOK
  <2>. HIDE DEF c
  <2>. QED  BY <1>5, <2>1, <2>2, LeftIssued DEF LeaveRoom, c, redisVars, mirrorVars, linkVars
<1>6. ASSUME NEW s \in Sockets, NEW t \in Sockets, NEW r \in MatchRooms, MatchPair(s, t, r)
      PROVE LeftInv'
  <2>. DEFINE c == [NewCommand("first", s, {r}) EXCEPT !.partner = t]
  <2>1. c \in Command
    BY RoomSets DEF NewCommand, Command, Operations
  <2>2. ByOpenSocket(c)
    BY <1>6 DEF MatchPair, ByOpenSocket, NewCommand
  <2>3. \A q \in Sockets : phase'[q] = "closed" =>
           phase[q] = "closed" /\ adapterRooms'[q] \subseteq adapterRooms[q]
    BY <1>6 DEF MatchPair, AdapterJoin, TypeInv, TypeOK
  <2>. HIDE DEF c
  <2>. QED  BY <1>6, <2>1, <2>2, <2>3, LeftIssued DEF MatchPair, c, redisVars, mirrorVars, linkVars
<1>7. CASE Joined \/ Left
  <2>1. /\ front = pipe[1] /\ front.op \in Joins \cup {"leave"} /\ front.op \notin Cleaning
        /\ front \in Command /\ front.socket \in Sockets /\ TheRoom(front) \in AllRooms
    BY <1>7, Served, TheRoomOfOne, CommandRooms DEF Joined, Left, Joins, Cleaning
  <2>2. \A q \in Sockets : q # front.socket => socketToRooms'[q] = socketToRooms[q]
    BY <1>7, <2>1 DEF Joined, Left, addSocketToRoom, removeSocketFromRoom, TypeInv, TypeOK
  <2>3. \A q \in Sockets : ~Moves(pipe[1], q) => socketToRooms'[q] \subseteq socketToRooms[q]
    BY <2>1, <2>2 DEF Moves
  <2>. QED
    BY <1>7, <2>1, <2>3, LeftServed DEF Joined, Left
<1>8. CASE FirstJoined
  <2>1. /\ front = pipe[1] /\ front.op = "first" /\ front.partner \in Sockets
        /\ front.rooms \subseteq AllRooms /\ front.socket \in Sockets
    BY <1>8, Served, CommandRooms DEF FirstJoined
  <2>. DEFINE c == NewCommand("second", front.partner, front.rooms)
  <2>2. c \in Command /\ ByHandler(c)
    BY <2>1, NewCommandTyped DEF Operations, NewCommand, ByHandler
  <2>3. GoOn(c) /\ pipe[1].op \notin Cleaning
    BY <1>8, <2>1 DEF FirstJoined, Cleaning
  <2>4. \A q \in Sockets : phase[q] = "closed" => adapterRooms'[q] \subseteq adapterRooms[q]
    BY <1>8 DEF FirstJoined, AdapterJoin, TypeInv, TypeOK
  <2>5. \A q \in Sockets : q # front.socket => socketToRooms'[q] = socketToRooms[q]
    BY <1>8, <2>1 DEF FirstJoined, addSocketToRoom, TypeInv, TypeOK
  <2>6. \A q \in Sockets : ~Moves(pipe[1], q) => socketToRooms'[q] \subseteq socketToRooms[q]
    BY <2>1, <2>5 DEF Moves, Joins
  <2>. HIDE DEF c
  <2>. QED  BY <1>8, <2>2, <2>3, <2>4, <2>6, LeftServed DEF FirstJoined
<1>10. CASE QueuesCleaned
  <2>1. front = pipe[1] /\ front.op = "lrem" /\ front.socket \in Sockets
    BY <1>10, Served, CommandRooms DEF QueuesCleaned
  <2>. DEFINE c == NewCommand("smembers", front.socket, {})
  <2>2. c \in Command /\ ByHandler(c)
    BY <2>1, NewCommandTyped DEF Operations, NewCommand, ByHandler
  <2>3. GoOn(c)
    BY <1>10 DEF QueuesCleaned
  <2>4. ~Finish
    <3>1. pipe # <<>> /\ Len(pipe) \in Nat /\ Len(pipe) - 1 # Len(pipe)
      BY <1>10, Served, PipeDomain DEF QueuesCleaned, TypeInv, TypeOK
    <3>2. WentOn(c)
      BY <2>2, <2>3, <3>1, PipeGoesOn DEF TypeInv
    <3>3. Finish => Shrank
      BY <3>1, PipeFinishes DEF TypeInv
    <3>. QED  BY <3>1, <3>2, <3>3 DEF WentOn, Shrank
  <2>. HIDE DEF c
  <2>. QED  BY <1>10, <2>2, <2>3, <2>4, LeftServed DEF QueuesCleaned, mirrorVars
<1>11. CASE RoomsRead
  <2>1. /\ front = pipe[1] /\ front.op = "smembers" /\ front.socket \in Sockets
        /\ pipe # <<>> /\ Len(pipe) \in Nat /\ Len(pipe) - 1 # Len(pipe)
    BY <1>11, Served, CommandRooms, PipeDomain DEF RoomsRead, TypeInv, TypeOK
  <2>. DEFINE c == NewCommand("cleanup", front.socket, socketKey[front.socket])
  <2>2. c \in Command /\ ByHandler(c)
    <3>1. socketKey[front.socket] \in SUBSET AllRooms
      BY <2>1 DEF TypeInv, TypeOK
    <3>. QED  BY <2>1, <3>1, NewCommandTyped DEF Operations, NewCommand, ByHandler
  <2>3. CASE socketKey[front.socket] # {}
    <3>1. GoOn(c) /\ UNCHANGED mirrorVars
      BY <1>11, <2>3 DEF RoomsRead
    <3>2. ~Finish
      <4>1. WentOn(c)
        BY <2>1, <2>2, <3>1, PipeGoesOn DEF TypeInv
      <4>2. Finish => Shrank
        BY <2>1, PipeFinishes DEF TypeInv
      <4>. QED  BY <2>1, <4>1, <4>2 DEF WentOn, Shrank
    <3>. HIDE DEF c
    <3>. QED  BY <1>11, <2>2, <3>1, <3>2, LeftServed DEF RoomsRead, mirrorVars
  <2>4. CASE socketKey[front.socket] = {}
    <3>1. Finish /\ removeSocket(front.socket)
      BY <1>11, <2>4 DEF RoomsRead
    <3>2. /\ socketToRooms'[front.socket] = {}
          /\ \A q \in Sockets : socketToRooms'[q] \subseteq socketToRooms[q]
      BY <2>1, <3>1, ForgetEffect DEF TypeInv
    <3>. HIDE DEF c
    <3>. QED  BY <1>11, <2>1, <2>2, <2>4, <3>1, <3>2, LeftServed DEF RoomsRead
  <2>. QED  BY <2>3, <2>4
<1>12. CASE CleanedUp
  <2>1. front = pipe[1] /\ front.op = "cleanup" /\ front.socket \in Sockets /\ front \in Command
    BY <1>12, Served, CommandRooms DEF CleanedUp
  <2>2. /\ socketToRooms'[front.socket] = {}
        /\ \A q \in Sockets : socketToRooms'[q] \subseteq socketToRooms[q]
    BY <1>12, <2>1, ForgetEffect DEF CleanedUp, TypeInv
  <2>. QED  BY <1>12, <2>1, <2>2, LeftServed DEF CleanedUp
<1>13. CASE GiveUp \/ Crash
  BY <1>13 DEF GiveUp, Crash, LeftInv
<1>14. CASE RunUnanswered
  <2>1. ran + 1 \in DOMAIN pipe /\ pipe[ran + 1] \in Command /\ Run(pipe[ran + 1])
    BY <1>14, PipeDomain DEF RunUnanswered, TypeInv, TypeOK
  <2>2. \A s \in Sockets : Clean(s) => Clean(s)'
    BY <1>14, <2>1, RunLeavesAlone DEF RunUnanswered, Clean, mirrorVars, TypeInv
  <2>3. \A s \in Sockets : BeingCleaned(s) => BeingCleaned(s)'
    BY <1>14 DEF RunUnanswered, BeingCleaned
  <2>. QED  BY <1>14, <2>2, <2>3 DEF RunUnanswered, LeftInv
<1>15. CASE Reconnect \/ FallSilent \/ UNCHANGED vars
  BY <1>15 DEF Reconnect, FallSilent, vars, redisVars, mirrorVars, linkVars, LeftInv,
     BeingCleaned, Clean
<1>16. Named \subseteq AllRooms
  BY NamedAssumption
<1>. QED
  BY <1>1, <1>2, <1>3, <1>4, <1>5, <1>6, <1>7, <1>8, <1>10, <1>11, <1>12, <1>13,
     <1>14, <1>15, <1>16 DEF Next, Serve, Settle

\* Until a command is lost, nothing is left of a closed socket once its handlers
\* are through: in the adapter, in Redis or in the mirror.
THEOREM ClosedLeavesNothing == Spec => []CleanedUpAfterClose
<1>1. ASSUME TypeInv, MirrorPaired, RedisInv, LeftInv PROVE CleanedUpAfterClose
  <2>. SUFFICES ASSUME ~lost, NEW s \in Sockets, phase[s] = "closed", Pending(s) = {}
                PROVE  /\ \A r \in AllRooms : s \notin roomKey[r] /\ s \notin roomToSockets[r]
                       /\ adapterRooms[s] = {}
    BY DEF CleanedUpAfterClose
  <2>1. ~BeingCleaned(s)
    BY DEF BeingCleaned, Pending
  <2>2. adapterRooms[s] = {} /\ Clean(s)
    BY <1>1, <2>1 DEF LeftInv
  <2>. QED  BY <1>1, <2>2 DEF Clean, RedisInv, RedisPaired, MirrorPaired
<1>2. Init => MirrorPaired
  BY DEF Init, MirrorPaired
<1>. QED
  BY <1>1, <1>2, TypeInvInit, TypeInvNext, MirrorNext, RedisInvInit, RedisInvNext,
     LeftInvInit, LeftInvNext, PTL DEF Spec

-----------------------------------------------------------------------------
(* Open sockets                                                            *)

\* A handler starts with the adapter: its command is the last for its room.
LEMMA ViewIssued ==
    ASSUME TypeInv, ViewInv, UNCHANGED <<socketKey, socketToRooms, lost>>,
           NEW c \in Command, pipe' = Append(pipe, c),
           \A s \in Sockets : phase'[s] # "closed" =>
               /\ phase[s] # "closed"
               /\ \A r \in AllRooms : IF Touches(c, s, r)
                     THEN c.op \in Joins <=> r \in adapterRooms'[s]
                     ELSE r \in adapterRooms'[s] <=> r \in adapterRooms[s]
    PROVE  ViewInv'
<1>. SUFFICES ASSUME ~lost', NEW s \in Sockets, phase'[s] # "closed", NEW r \in AllRooms
              PROVE  SettledView(s, r)' /\ LastDecides(s, r)'
  BY DEF ViewInv
<1>1. SettledView(s, r) /\ LastDecides(s, r)
  BY DEF ViewInv
<1>2. /\ DOMAIN pipe' = DOMAIN pipe \cup {Len(pipe) + 1} /\ pipe'[Len(pipe) + 1] = c
      /\ \A k \in DOMAIN pipe : k < Len(pipe) + 1 /\ pipe'[k] = pipe[k]
  BY AddedAtEnd
<1>3. CASE Touches(c, s, r)
  <2>1. SettledView(s, r)'
    BY <1>2, <1>3 DEF SettledView
  <2>2. ASSUME NEW k \in DOMAIN pipe', \A j \in DOMAIN pipe' : k < j => ~Touches(pipe'[j], s, r)
        PROVE  pipe'[k] = c
    BY <1>2, <1>3, <2>2
  <2>3. LastDecides(s, r)'
    BY <1>3, <2>2 DEF LastDecides
  <2>. QED  BY <2>1, <2>3
<1>4. CASE ~Touches(c, s, r)
  <2>1. r \in adapterRooms'[s] <=> r \in adapterRooms[s]
    BY <1>4
  <2>2. SettledView(s, r)'
    BY <1>1, <1>2, <2>1 DEF SettledView
  <2>3. LastDecides(s, r)'
    BY <1>1, <1>2, <1>4, <2>1 DEF LastDecides
  <2>. QED  BY <2>2, <2>3
<1>. QED  BY <1>3, <1>4

\* What the mirror and Redis do with the command at the front.
Follows(c) == \A s \in Sockets : phase[s] # "closed" => \A r \in AllRooms :
    IF Touches(c, s, r) THEN r \in socketToRooms'[s] <=> c.op \in Joins
                        ELSE r \in socketToRooms'[s] <=> r \in socketToRooms[s]

LEMMA RunFollows ==
    ASSUME TypeOK, CleanedIsClosed, NEW i \in DOMAIN pipe, Run(pipe[i]),
           NEW s \in Sockets, phase[s] # "closed", NEW r \in AllRooms
    PROVE  IF Touches(pipe[i], s, r) THEN r \in socketKey'[s] <=> pipe[i].op \in Joins
                                     ELSE r \in socketKey'[s] <=> r \in socketKey[s]
<1>. DEFINE c == pipe[i]
<1>1. c \in Command /\ c.op \in Operations /\ (Added(c) = {} \/ Taken(c) = {})
  BY PipeDomain, CommandRooms DEF TypeOK
<1>2. c.socket = s => c.op \notin Cleaning
  BY DEF CleanedIsClosed
<1>. HIDE DEF c
<1>3. CASE c.socket # s
  <2>1. socketKey'[s] = socketKey[s]
    BY <1>1, <1>3, RunEffect DEF c
  <2>. QED  BY <1>3, <2>1 DEF Touches, c
<1>4. CASE c.socket = s
  <2>1. socketKey'[s] = (socketKey[s] \cup Added(c)) \ Taken(c)
    BY <1>1, <1>2, <1>4, RunEffect DEF c, Cleaning
  <2>2. CASE c.op \in Joins
    <3>1. Added(c) = c.rooms /\ Taken(c) = {}
      BY <2>2 DEF Added, Taken, Joins
    <3>. QED  BY <1>4, <2>1, <2>2, <3>1 DEF Touches, c
  <2>3. CASE c.op = "leave"
    <3>1. Added(c) = {} /\ Taken(c) = c.rooms /\ c.op \notin Joins
      BY <2>3 DEF Added, Taken, Joins
    <3>. QED  BY <1>4, <2>1, <2>3, <3>1 DEF Touches, c
  <2>. QED  BY <1>1, <1>2, <1>4, <2>2, <2>3 DEF Operations, Joins, Cleaning
<1>. QED  BY <1>3, <1>4

\* The last command for a room makes the views meet when it is served; any other
\* leaves the last one in place.
LEMMA ViewServed ==
    ASSUME TypeInv, CleanedIsClosed, ViewInv, NEW operations, Reply(operations),
           Follows(pipe[1]), NEW c \in Command,
           \/ Finish /\ UNCHANGED adapterRooms
           \/ /\ GoOn(c)
              /\ \A s \in Sockets : phase[s] # "closed" => \A r \in AllRooms :
                    IF Touches(c, s, r) THEN c.op \in Joins /\ r \in adapterRooms'[s]
                                        ELSE r \in adapterRooms'[s] <=> r \in adapterRooms[s]
    PROVE  ViewInv'
<1>1. /\ pipe # <<>> /\ 1 \in DOMAIN pipe /\ Run(pipe[1]) /\ phase' = phase /\ lost' = lost
      /\ Len(pipe) \in Nat /\ Len(pipe) - 1 # Len(pipe) /\ DOMAIN pipe = 1..Len(pipe)
  BY Served, PipeDomain DEF linkVars, TypeInv, TypeOK
<1>. DEFINE n == Len(pipe)
<1>0. n \in Nat
  BY <1>1
<1>. HIDE DEF n
<1>. SUFFICES ASSUME ~lost', NEW s \in Sockets, phase'[s] # "closed", NEW r \in AllRooms
              PROVE  SettledView(s, r)' /\ LastDecides(s, r)'
  BY DEF ViewInv
<1>2. SettledView(s, r) /\ LastDecides(s, r)
  BY <1>1 DEF ViewInv
<1>3. pipe' \in Seq(Command) /\ (Finish => Shrank) /\ (GoOn(c) => WentOn(c))
  BY <1>1, PipeFinishes, PipeGoesOn DEF TypeInv
<1>4. /\ \A k \in DOMAIN pipe : k # 1 => k - 1 \in DOMAIN pipe' /\ pipe'[k - 1] = pipe[k]
      /\ \A k \in DOMAIN pipe' :
            \/ k + 1 \in DOMAIN pipe /\ pipe'[k] = pipe[k + 1]
            \/ WentOn(c) /\ k = Len(pipe) /\ pipe'[k] = c
      /\ WentOn(c) => Len(pipe) \in DOMAIN pipe' /\ pipe'[Len(pipe)] = c
      /\ \A k \in DOMAIN pipe' : k \in Nat \ {0} /\ k <= n
  <2>1. DOMAIN pipe' = 1..Len(pipe') /\ Len(pipe') \in {n - 1, n}
    BY <1>1, <1>3, PipeDomain DEF Shrank, WentOn, n
  <2>2. \A k \in DOMAIN pipe' : k \in Nat \ {0} /\ k <= n
    BY <1>0, <2>1
  <2>. QED  BY <1>1, <1>3, <2>2, Shifted
<1>5. CASE WentOn(c) /\ Touches(c, s, r)
  <2>1. c.op \in Joins /\ r \in adapterRooms'[s]
    BY <1>1, <1>3, <1>5 DEF Shrank, WentOn
  <2>2. SettledView(s, r)'
    BY <1>4, <1>5 DEF SettledView
  <2>3. ASSUME NEW k \in DOMAIN pipe', \A j \in DOMAIN pipe' : k < j => ~Touches(pipe'[j], s, r)
        PROVE  pipe'[k] = c
    <3>1. ~(k < n) /\ k \in Nat /\ k <= n
      BY <1>4, <1>5, <2>3 DEF n
    <3>2. k = n
      BY <1>0, <3>1
    <3>. QED  BY <1>4, <1>5, <3>2 DEF n
  <2>4. LastDecides(s, r)'
    BY <2>1, <2>3 DEF LastDecides
  <2>. QED  BY <2>2, <2>4
<1>6. CASE ~(WentOn(c) /\ Touches(c, s, r))
  <2>1. r \in adapterRooms'[s] <=> r \in adapterRooms[s]
    BY <1>1, <1>3, <1>6
  <2>2. \A k \in DOMAIN pipe' : Touches(pipe'[k], s, r) =>
           k + 1 \in DOMAIN pipe /\ pipe'[k] = pipe[k + 1]
    BY <1>4, <1>6
  <2>3. SettledView(s, r)'
    <3>. SUFFICES ASSUME \A k \in DOMAIN pipe' : ~Touches(pipe'[k], s, r)
                  PROVE  /\ r \in adapterRooms'[s] <=> r \in socketKey'[s]
                         /\ r \in socketKey'[s] <=> r \in socketToRooms'[s]
      BY DEF SettledView
    <3>1. \A k \in DOMAIN pipe : k # 1 => ~Touches(pipe[k], s, r)
      BY <1>4
    <3>2. CASE Touches(pipe[1], s, r)
      <4>1. \A j \in DOMAIN pipe : 1 < j => ~Touches(pipe[j], s, r)
        BY <3>1
      <4>2. pipe[1].op \in Joins <=> r \in adapterRooms[s]
        BY <1>1, <1>2, <3>2, <4>1 DEF LastDecides
      <4>3. r \in socketKey'[s] <=> pipe[1].op \in Joins
        BY <1>1, <3>2, RunFollows DEF TypeInv
      <4>4. r \in socketToRooms'[s] <=> pipe[1].op \in Joins
        BY <1>1, <3>2 DEF Follows
      <4>. QED  BY <2>1, <4>2, <4>3, <4>4
    <3>3. CASE ~Touches(pipe[1], s, r)
      <4>1. /\ r \in adapterRooms[s] <=> r \in socketKey[s]
            /\ r \in socketKey[s] <=> r \in socketToRooms[s]
        BY <1>2, <3>1, <3>3 DEF SettledView
      <4>2. r \in socketKey'[s] <=> r \in socketKey[s]
        BY <1>1, <3>3, RunFollows DEF TypeInv
      <4>3. r \in socketToRooms'[s] <=> r \in socketToRooms[s]
        BY <1>1, <3>3 DEF Follows
      <4>. QED  BY <2>1, <4>1, <4>2, <4>3
    <3>. QED  BY <3>2, <3>3
  <2>4. ASSUME NEW k \in DOMAIN pipe', Touches(pipe'[k], s, r),
               \A j \in DOMAIN pipe' : k < j => ~Touches(pipe'[j], s, r)
        PROVE  pipe'[k].op \in Joins <=> r \in adapterRooms'[s]
    <3>1. k + 1 \in DOMAIN pipe /\ pipe'[k] = pipe[k + 1] /\ k \in Nat
      BY <1>4, <2>2, <2>4
    <3>2. ASSUME NEW j \in DOMAIN pipe, k + 1 < j PROVE ~Touches(pipe[j], s, r)
      <4>1. j \in Nat /\ j # 1 /\ k < j - 1
        <5>1. j \in 1..n
          BY <1>1 DEF n
        <5>. QED  BY <1>0, <3>1, <3>2, <5>1
      <4>. QED  BY <1>4, <2>4, <4>1
    <3>. QED  BY <1>2, <2>1, <2>4, <3>1, <3>2 DEF LastDecides
  <2>5. LastDecides(s, r)'
    BY <2>4 DEF LastDecides
  <2>. QED  BY <2>3, <2>5
<1>. QED  BY <1>5, <1>6

LEMMA ViewInvInit == Init => ViewInv
<1>1. Init => DOMAIN pipe = {}
  BY EmptyPipe DEF Init
<1>. QED  BY <1>1 DEF Init, ViewInv, SettledView, LastDecides

LEMMA ViewInvNext == TypeInv /\ RedisInv /\ MirrorPaired /\ ViewInv /\ [Next]_vars => ViewInv'
<1>. SUFFICES ASSUME TypeInv, RedisInv, MirrorPaired, ViewInv, [Next]_vars PROVE ViewInv'
  OBVIOUS
<1>. DEFINE front == Head(pipe)
<1>0. CleanedIsClosed
  BY DEF RedisInv
<1>1. ASSUME NEW s \in Sockets, Connect(s) PROVE ViewInv'
  <2>. DEFINE c == NewCommand("connect", s, {OwnRoom(s)})
  <2>1. c \in Command /\ OwnRoom(s) \in AllRooms
    BY NewCommandTyped, RoomSets DEF Operations
  <2>2. ASSUME NEW q \in Sockets, phase'[q] # "closed"
        PROVE  /\ phase[q] # "closed"
               /\ adapterRooms'[q] = IF q = s THEN adapterRooms[q] \cup {OwnRoom(s)}
                                              ELSE adapterRooms[q]
    BY <1>1, <2>2 DEF Connect, AdapterJoin, TypeInv, TypeOK
  <2>3. /\ c.op = "connect" /\ c.op \in Joins
        /\ \A q \in Sockets, r \in AllRooms : Touches(c, q, r) <=> q = s /\ r = OwnRoom(s)
    BY DEF NewCommand, Touches, Joins
  <2>. HIDE DEF c
  <2>. QED
    BY <1>1, <2>1, <2>2, <2>3, ViewIssued DEF Connect, c, redisVars, mirrorVars, linkVars
<1>2. ASSUME NEW s \in Sockets, Refuse(s) PROVE ViewInv'
  <2>1. \A q \in Sockets : phase'[q] # "closed" => phase[q] # "closed"
    BY <1>2 DEF Refuse, TypeInv, TypeOK
  <2>. QED
    BY <1>2, <2>1 DEF Refuse, redisVars, mirrorVars, linkVars, ViewInv, SettledView, LastDecides
<1>3. ASSUME NEW s \in Sockets, Disconnect(s) PROVE ViewInv'
  <2>. DEFINE c == NewCommand("lrem", s, {})
  <2>1. c \in Command /\ \A q \in Sockets, r \in AllRooms : ~Touches(c, q, r)
    BY NewCommandTyped DEF Operations, NewCommand, Touches, Joins
  <2>2. \A q \in Sockets : phase'[q] # "closed" =>
           phase[q] # "closed" /\ adapterRooms'[q] = adapterRooms[q]
    BY <1>3 DEF Disconnect, TypeInv, TypeOK
  <2>. HIDE DEF c
  <2>. QED  BY <1>3, <2>1, <2>2, ViewIssued DEF Disconnect, c, redisVars, mirrorVars, linkVars
<1>4. ASSUME NEW s \in Sockets, NEW r \in AllRooms, JoinRoom(s, r) PROVE ViewInv'
  <2>. DEFINE c == NewCommand("join", s, {r})
  <2>1. c \in Command
    BY NewCommandTyped DEF Operations
  <2>2. \A q \in Sockets : phase'[q] # "closed" =>
           /\ phase[q] # "closed"
           /\ adapterRooms'[q] = IF q = s THEN adapterRooms[q] \cup {r} ELSE adapterRooms[q]
    BY <1>4 DEF JoinRoom, AdapterJoin, TypeInv, TypeOK
  <2>3. /\ c.op = "join" /\ c.op \in Joins
        /\ \A q \in Sockets, w \in AllRooms : Touches(c, q, w) <=> q = s /\ w = r
    BY DEF NewCommand, Touches, Joins
  <2>. HIDE DEF c
  <2>. QED
    BY <1>4, <2>1, <2>2, <2>3, ViewIssued DEF JoinRoom, c, redisVars, mirrorVars, linkVars
<1>5. ASSUME NEW s \in Sockets, NEW r \in AllRooms, LeaveRoom(s, r) PROVE ViewInv'
  <2>. DEFINE c == NewCommand("leave", s, {r})
  <2>1. c \in Command
    BY NewCommandTyped DEF Operations
  <2>2. \A q \in Sockets : phase'[q] # "closed" =>
           /\ phase[q] # "closed"
           /\ adapterRooms'[q] = IF q = s THEN adapterRooms[q] \ {r} ELSE adapterRooms[q]
    BY <1>5 DEF LeaveRoom, TypeInv, TypeOK
  <2>3. /\ c.op = "leave" /\ c.op \notin Joins
        /\ \A q \in Sockets, w \in AllRooms : Touches(c, q, w) <=> q = s /\ w = r
    BY DEF NewCommand, Touches, Joins
  <2>. HIDE DEF c
  <2>4. \A q \in Sockets : phase'[q] # "closed" => \A w \in AllRooms :
           IF Touches(c, q, w) THEN c.op \in Joins <=> w \in adapterRooms'[q]
                               ELSE w \in adapterRooms'[q] <=> w \in adapterRooms[q]
    BY <2>2, <2>3
  <2>5. UNCHANGED <<socketKey, socketToRooms, lost>> /\ pipe' = Append(pipe, c)
    BY <1>5 DEF LeaveRoom, c, redisVars, mirrorVars, linkVars
  <2>. QED  BY <2>1, <2>2, <2>4, <2>5, ViewIssued
<1>6. ASSUME NEW s \in Sockets, NEW t \in Sockets, NEW r \in MatchRooms, MatchPair(s, t, r)
      PROVE ViewInv'
  <2>. DEFINE c == [NewCommand("first", s, {r}) EXCEPT !.partner = t]
  <2>1. c \in Command /\ r \in AllRooms
    BY RoomSets DEF NewCommand, Command, Operations
  <2>2. \A q \in Sockets : phase'[q] # "closed" =>
           /\ phase[q] # "closed"
           /\ adapterRooms'[q] = IF q = s THEN adapterRooms[q] \cup {r} ELSE adapterRooms[q]
    BY <1>6 DEF MatchPair, AdapterJoin, TypeInv, TypeOK
  <2>3. /\ c.op = "first" /\ c.op \in Joins
        /\ \A q \in Sockets, w \in AllRooms : Touches(c, q, w) <=> q = s /\ w = r
    BY DEF NewCommand, Touches, Joins
  <2>. HIDE DEF c
  <2>. QED
    BY <1>6, <2>1, <2>2, <2>3, ViewIssued DEF MatchPair, c, redisVars, mirrorVars, linkVars
<1>7. ASSUME Joined \/ Left \/ FirstJoined
      PROVE  /\ Follows(pipe[1]) /\ front = pipe[1] /\ front \in Command
             /\ front.socket \in Sockets /\ front.partner \in Sockets
             /\ TheRoom(front) \in AllRooms /\ front.rooms = {TheRoom(front)}
  <2>1. /\ front = pipe[1] /\ front \in Command /\ front.op \in Joins \cup {"leave"}
        /\ Left => front.op \notin Joins
        /\ Joined \/ FirstJoined => front.op \in Joins
        /\ front.socket \in Sockets /\ front.partner \in Sockets
        /\ TheRoom(front) \in AllRooms /\ front.rooms = {TheRoom(front)}
    BY <1>7, Served, TheRoomOfOne, CommandRooms DEF Joined, Left, FirstJoined, Joins
  <2>2. \A s \in Sockets, r \in AllRooms :
           Touches(pipe[1], s, r) <=> s = front.socket /\ r = TheRoom(front)
    BY <2>1 DEF Touches
  <2>3. CASE Joined \/ FirstJoined
    <3>1. addSocketToRoom(front.socket, TheRoom(front)) /\ pipe[1].op \in Joins
      BY <2>1, <2>3 DEF Joined, FirstJoined
    <3>2. \A s \in Sockets, r \in AllRooms : r \in socketToRooms'[s] <=>
             r \in socketToRooms[s] \/ (s = front.socket /\ r = TheRoom(front))
      BY <2>1, <3>1, MirrorAdds DEF TypeInv
    <3>3. Follows(pipe[1])
      BY <2>2, <3>1, <3>2 DEF Follows
    <3>. QED  BY <2>1, <3>3
  <2>4. CASE Left
    <3>1. removeSocketFromRoom(front.socket, TheRoom(front)) /\ pipe[1].op \notin Joins
      BY <2>1, <2>4 DEF Left
    <3>2. \A s \in Sockets, r \in AllRooms : r \in socketToRooms'[s] <=>
             r \in socketToRooms[s] /\ ~(s = front.socket /\ r = TheRoom(front))
      BY <2>1, <3>1, MirrorRemoves DEF TypeInv
    <3>3. Follows(pipe[1])
      BY <2>2, <3>1, <3>2 DEF Follows
    <3>. QED  BY <2>1, <3>3
  <2>. QED  BY <1>7, <2>3, <2>4
<1>8. CASE Joined \/ Left
  BY <1>0, <1>7, <1>8, ViewServed DEF Joined, Left
<1>9. CASE FirstJoined
  <2>. DEFINE c == NewCommand("second", front.partner, front.rooms)
  <2>1. c \in Command /\ GoOn(c) /\ Follows(pipe[1])
    BY <1>7, <1>9, NewCommandTyped DEF Operations, FirstJoined
  <2>2. \A s \in Sockets : phase[s] # "closed" => adapterRooms'[s] =
           IF s = front.partner THEN adapterRooms[s] \cup {TheRoom(front)} ELSE adapterRooms[s]
    BY <1>7, <1>9 DEF FirstJoined, AdapterJoin, TypeInv, TypeOK
  <2>3. /\ c.op \in Joins
        /\ \A s \in Sockets, r \in AllRooms :
              Touches(c, s, r) <=> s = front.partner /\ r = TheRoom(front)
    BY <1>7, <1>9 DEF NewCommand, Touches, Joins
  <2>. HIDE DEF c
  <2>. QED  BY <1>0, <1>9, <2>1, <2>2, <2>3, ViewServed DEF FirstJoined
<1>10. ASSUME QueuesCleaned \/ RoomsRead \/ CleanedUp
       PROVE  /\ front = pipe[1] /\ front.socket \in Sockets /\ front \in Command
              /\ Follows(pipe[1]) /\ \A s \in Sockets, r \in AllRooms : ~Touches(front, s, r)
  <2>1. /\ front = pipe[1] /\ front.socket \in Sockets /\ front.op \in Cleaning
        /\ phase[front.socket] = "closed" /\ front \in Command
    BY <1>0, <1>10, Served, CommandRooms DEF QueuesCleaned, RoomsRead, CleanedUp, Cleaning,
       CleanedIsClosed
  <2>2. \A s \in Sockets, r \in AllRooms : ~Touches(front, s, r)
    BY <2>1 DEF Touches, Cleaning, Joins
  <2>3. UNCHANGED socketToRooms \/ removeSocket(front.socket)
    BY <1>10 DEF QueuesCleaned, RoomsRead, CleanedUp, mirrorVars
  <2>4. \A s \in Sockets : phase[s] # "closed" => socketToRooms'[s] = socketToRooms[s]
    BY <2>1, <2>3, ForgetEffect DEF TypeInv
  <2>5. Follows(pipe[1])
    BY <2>1, <2>2, <2>4 DEF Follows
  <2>. QED  BY <2>1, <2>2, <2>5
<1>11. CASE QueuesCleaned
  <2>. DEFINE c == NewCommand("smembers", front.socket, {})
  <2>1. c \in Command /\ GoOn(c) /\ \A s \in Sockets, r \in AllRooms : ~Touches(c, s, r)
    BY <1>10, <1>11, NewCommandTyped DEF Operations, QueuesCleaned, NewCommand, Touches, Joins
  <2>. HIDE DEF c
  <2>. QED  BY <1>0, <1>10, <1>11, <2>1, ViewServed DEF QueuesCleaned
<1>12. CASE RoomsRead
  <2>. DEFINE c == NewCommand("cleanup", front.socket, socketKey[front.socket])
  <2>1. c \in Command /\ \A s \in Sockets, r \in AllRooms : ~Touches(c, s, r)
    <3>1. socketKey[front.socket] \in SUBSET AllRooms
      BY <1>10, <1>12 DEF TypeInv, TypeOK
    <3>. QED
      BY <1>10, <1>12, <3>1, NewCommandTyped DEF Operations, NewCommand, Touches, Joins
  <2>2. Finish \/ GoOn(c)
    BY <1>12 DEF RoomsRead
  <2>. HIDE DEF c
  <2>. QED  BY <1>0, <1>10, <1>12, <2>1, <2>2, ViewServed DEF RoomsRead
<1>13. CASE CleanedUp
  BY <1>0, <1>10, <1>13, ViewServed DEF CleanedUp
<1>14. CASE GiveUp \/ Crash
  BY <1>14 DEF GiveUp, Crash, ViewInv
<1>15. CASE RunUnanswered
  <2>1. ran + 1 \in DOMAIN pipe /\ Run(pipe[ran + 1])
    BY <1>15, PipeDomain DEF RunUnanswered, TypeInv, TypeOK
  <2>2. ASSUME NEW s \in Sockets, phase[s] # "closed", NEW r \in AllRooms, SettledView(s, r)
        PROVE  SettledView(s, r)'
    <3>1. ~Touches(pipe[ran + 1], s, r) => (r \in socketKey'[s] <=> r \in socketKey[s])
      BY <1>0, <2>1, <2>2, RunFollows DEF TypeInv
    <3>. QED  BY <1>15, <2>1, <2>2, <3>1 DEF RunUnanswered, SettledView, mirrorVars
  <2>. QED  BY <1>15, <2>2 DEF RunUnanswered, ViewInv, LastDecides
<1>16. CASE Reconnect \/ FallSilent \/ UNCHANGED vars
  BY <1>16 DEF Reconnect, FallSilent, vars, redisVars, mirrorVars, linkVars, ViewInv,
     SettledView, LastDecides
<1>17. Named \subseteq AllRooms
  BY NamedAssumption
<1>. QED
  BY <1>1, <1>2, <1>3, <1>4, <1>5, <1>6, <1>8, <1>9, <1>11, <1>12, <1>13,
     <1>14, <1>15, <1>16, <1>17 DEF Next, Serve, Settle

\* Until a command is lost, an open socket with nothing under way is in the same
\* rooms for the adapter, for Redis and for the mirror.
THEOREM LiveViewsMeet == Spec => []LiveViewsAgree
<1>1. ASSUME TypeInv, ViewInv PROVE LiveViewsAgree
  <2>. SUFFICES ASSUME ~lost, NEW s \in Sockets, phase[s] = "open", Pending(s) = {}
                PROVE  adapterRooms[s] = socketKey[s] /\ socketKey[s] = socketToRooms[s]
    BY DEF LiveViewsAgree
  <2>1. \A r \in AllRooms, k \in DOMAIN pipe : ~Touches(pipe[k], s, r)
    BY DEF Pending, Touches
  <2>2. \A r \in AllRooms : /\ r \in adapterRooms[s] <=> r \in socketKey[s]
                            /\ r \in socketKey[s] <=> r \in socketToRooms[s]
    BY <1>1, <2>1 DEF ViewInv, SettledView
  <2>3. /\ adapterRooms[s] \subseteq AllRooms /\ socketKey[s] \subseteq AllRooms
        /\ socketToRooms[s] \subseteq AllRooms
    BY <1>1 DEF TypeInv, TypeOK
  <2>. QED  BY <2>2, <2>3
<1>2. Init => MirrorPaired
  BY DEF Init, MirrorPaired
<1>. QED
  BY <1>1, <1>2, TypeInvInit, TypeInvNext, MirrorNext, RedisInvInit, RedisInvNext,
     ViewInvInit, ViewInvNext, PTL DEF Spec

-----------------------------------------------------------------------------
(* Presence                                                                *)

LEMMA PresenceInvInit == Init => PresenceInv
  BY DEF Init, PresenceInv

LEMMA PresenceInvNext == TypeInv /\ PresenceInv /\ [Next]_vars => PresenceInv'
<1>. SUFFICES ASSUME TypeInv, PresenceInv, [Next]_vars PROVE PresenceInv'
  OBVIOUS
<1>. USE DEF TypeInv, TypeOK
<1>. DEFINE Kept(s) == /\ phase'[s] = phase[s] /\ (s \in tracked' <=> s \in tracked)
                       /\ \A r \in PrivateRooms : /\ r \in asked'[s] <=> r \in asked[s]
                                                  /\ r \in adapterRooms'[s] <=> r \in adapterRooms[s]
            Present(s) ==
                /\ phase[s] = "open" => s \in tracked
                /\ phase[s] = "closed" => s \notin tracked
                /\ phase[s] # "closed" =>
                      \A r \in PrivateRooms : /\ r \in adapterRooms[s] <=> r \in asked[s]
                                              /\ s \notin tracked => r \notin asked[s]
<1>1. ~lost => \A s \in Sockets : Present(s)
  BY DEF PresenceInv
<1>2. \A s \in Sockets : Present(s) /\ Kept(s) => Present(s)'
  OBVIOUS
<1>3. (\A s \in Sockets : Present(s)') => PresenceInv'
  BY DEF PresenceInv
<1>4. \A r \in MatchRooms : r \notin PrivateRooms
  BY RoomAssumption
<1>. HIDE DEF Present, Kept
<1>5. ASSUME \A s \in Sockets : Kept(s), lost' = lost PROVE PresenceInv'
  <2>1. CASE lost
    BY <1>5, <2>1 DEF PresenceInv
  <2>2. CASE ~lost
    BY <1>1, <1>2, <1>3, <1>5, <2>2
  <2>. QED  BY <2>1, <2>2
<1>6. ASSUME NEW s \in Sockets, lost' = lost, Present(s) => Present(s)',
             \A q \in Sockets \ {s} : Kept(q)
      PROVE  PresenceInv'
  <2>1. CASE lost
    BY <1>6, <2>1 DEF PresenceInv
  <2>2. CASE ~lost
    BY <1>1, <1>2, <1>3, <1>6, <2>2
  <2>. QED  BY <2>1, <2>2
<1>7. ASSUME NEW s \in Sockets, NEW r \in MatchRooms,
             adapterRooms' = AdapterJoin(s, r), UNCHANGED <<phase, tracked, asked, lost>>
      PROVE  PresenceInv'
  <2>1. \A q \in Sockets, v \in PrivateRooms : v \in adapterRooms'[q] <=> v \in adapterRooms[q]
    BY <1>4, <1>7 DEF AdapterJoin
  <2>. QED  BY <1>5, <1>7, <2>1 DEF Kept
<1>8. ASSUME NEW s \in Sockets, Connect(s) PROVE PresenceInv'
  <2>1. /\ phase[s] = "new" /\ phase'[s] = "open" /\ s \in tracked' /\ lost' = lost
        /\ asked'[s] = asked[s] \cup {OwnRoom(s)}
        /\ adapterRooms'[s] = adapterRooms[s] \cup {OwnRoom(s)}
    BY <1>8 DEF Connect, AdapterJoin, linkVars
  <2>2. \A q \in Sockets \ {s} : Kept(q)
    BY <1>8 DEF Connect, AdapterJoin, Kept
  <2>3. Present(s) => Present(s)'
    BY <2>1 DEF Present
  <2>. QED  BY <1>6, <2>1, <2>2, <2>3
<1>9. ASSUME NEW s \in Sockets, Refuse(s) PROVE PresenceInv'
  <2>1. /\ phase[s] = "new" /\ phase'[s] = "doomed" /\ lost' = lost
        /\ UNCHANGED <<tracked, asked, adapterRooms>>
    BY <1>9 DEF Refuse, historyVars, linkVars
  <2>2. \A q \in Sockets \ {s} : Kept(q)
    BY <1>9, <2>1 DEF Refuse, Kept
  <2>3. Present(s) => Present(s)'
    BY <2>1 DEF Present
  <2>. QED  BY <1>6, <2>1, <2>2, <2>3
<1>10. ASSUME NEW s \in Sockets, Disconnect(s) PROVE PresenceInv'
  <2>1. phase'[s] = "closed" /\ lost' = lost /\ s \notin tracked'
    BY <1>10 DEF Disconnect, linkVars
  <2>2. \A q \in Sockets \ {s} : Kept(q)
    BY <1>10 DEF Disconnect, historyVars, Kept
  <2>3. Present(s)'
    BY <2>1 DEF Present
  <2>. QED  BY <1>6, <2>1, <2>2, <2>3
<1>11. ASSUME NEW s \in Sockets, NEW r \in Named, JoinRoom(s, r) PROVE PresenceInv'
  <2>1. /\ phase[s] = "open" /\ UNCHANGED <<phase, tracked, lost>>
        /\ adapterRooms'[s] = adapterRooms[s] \cup {r}
        /\ asked'[s] = asked[s] \cup ({r} \cap PrivateRooms)
    BY <1>11 DEF JoinRoom, AdapterJoin, linkVars
  <2>2. \A q \in Sockets \ {s} : Kept(q)
    BY <1>11, <2>1 DEF JoinRoom, AdapterJoin, Kept
  <2>3. Present(s) => Present(s)'
    BY <2>1 DEF Present
  <2>. QED  BY <1>6, <2>1, <2>2, <2>3
<1>12. ASSUME NEW s \in Sockets, NEW r \in Named, LeaveRoom(s, r) PROVE PresenceInv'
  <2>1. /\ phase[s] = "open" /\ UNCHANGED <<phase, tracked, lost>>
        /\ adapterRooms'[s] = adapterRooms[s] \ {r} /\ asked'[s] = asked[s] \ {r}
    BY <1>12 DEF LeaveRoom, linkVars
  <2>2. \A q \in Sockets \ {s} : Kept(q)
    BY <1>12, <2>1 DEF LeaveRoom, Kept
  <2>3. Present(s) => Present(s)'
    BY <2>1 DEF Present
  <2>. QED  BY <1>6, <2>1, <2>2, <2>3
<1>13. ASSUME NEW s \in Sockets, NEW t \in Sockets, NEW r \in MatchRooms, MatchPair(s, t, r)
       PROVE PresenceInv'
  BY <1>7, <1>13 DEF MatchPair, linkVars
<1>14. CASE FirstJoined
  <2>1. /\ Head(pipe).partner \in Sockets /\ TheRoom(Head(pipe)) \in MatchRooms
        /\ UNCHANGED <<phase, tracked, asked, lost>>
    BY <1>14, Served, TheRoomOfOne, CommandRooms DEF FirstJoined, Joins, Sound, historyVars,
       linkVars
  <2>2. adapterRooms' = AdapterJoin(Head(pipe).partner, TheRoom(Head(pipe)))
    BY <1>14 DEF FirstJoined
  <2>. QED  BY <1>7, <2>1, <2>2
<1>15. CASE Joined \/ Left \/ QueuesCleaned \/ RoomsRead \/ CleanedUp
  <2>1. UNCHANGED <<phase, tracked, asked, adapterRooms, lost>>
    BY <1>15, Served DEF Joined, Left, QueuesCleaned, RoomsRead, CleanedUp, historyVars, linkVars
  <2>. QED  BY <1>5, <2>1 DEF Kept
<1>16. CASE GiveUp \/ Crash
  BY <1>16 DEF GiveUp, Crash, PresenceInv
<1>17. CASE Reconnect \/ FallSilent \/ RunUnanswered \/ UNCHANGED vars
  <2>1. UNCHANGED <<phase, tracked, asked, adapterRooms, lost>>
    BY <1>17 DEF Reconnect, FallSilent, RunUnanswered, vars, historyVars, linkVars
  <2>. QED  BY <1>5, <2>1 DEF Kept
<1>. QED
  BY <1>8, <1>9, <1>10, <1>11, <1>12, <1>13, <1>14, <1>15, <1>16, <1>17 DEF Next, Serve, Settle

\* Until a command is lost and with nothing under way, the members of a private
\* room in Redis, whoever's, are the tracked connections that last asked to be in it.
THEOREM PresenceIsTracked == Spec => []PresenceAgrees
<1>1. ASSUME TypeInv, RedisInv, LeftInv, ViewInv, PresenceInv PROVE PresenceAgrees
  <2>. SUFFICES ASSUME ~lost, pipe = <<>>, NEW u \in Users
                PROVE  roomKey[UserRoom[u]] = {s \in tracked : UserRoom[u] \in asked[s]}
    BY DEF PresenceAgrees
  <2>1. DOMAIN pipe = {} /\ UserRoom[u] \in AllRooms /\ UserRoom[u] \in PrivateRooms
    BY EmptyPipe DEF AllRooms, PrivateRooms
  <2>2. tracked \subseteq Sockets /\ roomKey[UserRoom[u]] \subseteq Sockets
    BY <1>1, <2>1 DEF TypeInv, TypeOK
  <2>3. ASSUME NEW s \in Sockets
        PROVE  s \in roomKey[UserRoom[u]] <=> s \in tracked /\ UserRoom[u] \in asked[s]
    <3>1. s \in roomKey[UserRoom[u]] <=> UserRoom[u] \in socketKey[s]
      BY <1>1, <2>1 DEF RedisInv, RedisPaired
    <3>2. CASE phase[s] = "closed"
      <4>1. socketKey[s] = {}
        BY <1>1, <2>1, <3>2 DEF LeftInv, BeingCleaned, Clean
      <4>2. s \notin tracked
        BY <1>1, <3>2 DEF PresenceInv
      <4>. QED  BY <3>1, <4>1, <4>2
    <3>3. CASE phase[s] # "closed"
      <4>1. UserRoom[u] \in adapterRooms[s] <=> UserRoom[u] \in socketKey[s]
        BY <1>1, <2>1, <3>3 DEF ViewInv, SettledView
      <4>2. /\ UserRoom[u] \in adapterRooms[s] <=> UserRoom[u] \in asked[s]
            /\ s \notin tracked => UserRoom[u] \notin asked[s]
        <5>1. \A r \in PrivateRooms : /\ r \in adapterRooms[s] <=> r \in asked[s]
                                      /\ s \notin tracked => r \notin asked[s]
          BY <1>1, <3>3 DEF PresenceInv
        <5>. QED  BY <2>1, <5>1
      <4>. QED  BY <3>1, <4>1, <4>2
    <3>. QED  BY <3>2, <3>3
  <2>. QED  BY <2>2, <2>3
<1>2. Init => MirrorPaired
  BY DEF Init, MirrorPaired
<1>. QED
  BY <1>1, <1>2, TypeInvInit, TypeInvNext, MirrorNext, RedisInvInit, RedisInvNext,
     LeftInvInit, LeftInvNext, ViewInvInit, ViewInvNext, PresenceInvInit, PresenceInvNext,
     PTL DEF Spec
=============================================================================
