---------------------------- MODULE MatchSession ----------------------------
(***************************************************************************)
(* Queue, worker, rooms and play of one instance in one module: players    *)
(* queue, are matched, answer, and queue again for their next match with   *)
(* the same sockets.  Nothing ends a match: its keys never expire and its  *)
(* sockets stay in its room until they leave it or disconnect.  A          *)
(* submission without a matchId is for "the" match room of its socket.     *)
(* A client may queue without its userId: its entry is not the one that    *)
(* handleDisconnect removes, and its match is set up but not announced.    *)
(*                                                                         *)
(* `pipe' is the instance's ioredis connection: the commands that handlers *)
(* and ticks await, in the order issued; serving the head is "Redis runs   *)
(* it, the handler runs to its next await".  Ticks may overlap.  The       *)
(* connection is not lost here (MatchPlay, Matchmaking and Rooms lose it), *)
(* so the memory mirror is never read and is left out.                     *)
(***************************************************************************)
EXTENDS Naturals, Sequences, FiniteSets

CONSTANTS
    Sockets,        \* connected sockets, each of its own user
    Restless,       \* bound: those of them that leave rooms and disconnect
    Nameless,       \* those of them that may queue without their userId
    Points,         \* bound: what an answer may be worth
    NumQuestions,
    NumKeys,        \* keys stored per match (8 in storeMatchDataInRedis)
    MaxTicks,       \* ticks of the worker that may be under way at once
    MaxMatches,     \* bound: matches made, or on the way, in a behaviour
    MaxPending,     \* bound: events of a socket under way at once
    MaxEvents       \* bound: client events in a behaviour, disconnects included

ASSUME ClientsAssumption == Restless \subseteq Sockets /\ Nameless \subseteq Sockets
ASSUME PointsAssumption == Points \subseteq {0, 1}
ASSUME NumQuestionsAssumption == NumQuestions \in Nat \ {0}
ASSUME NumKeysAssumption == NumKeys \in Nat \ {0}
ASSUME BoundsAssumption == /\ MaxTicks \in Nat /\ MaxMatches \in Nat
                           /\ MaxPending \in Nat /\ MaxEvents \in Nat

VARIABLES
    open,          \* sockets that are connected
    queue,         \* the list matchmaking:queue:1v1_rapid_quiz, head first
    matches,       \* history: the matches made, with their stored players
    status,        \* per match: <match>:playerAStatus and :playerBStatus
    adapterRooms,  \* per socket: its match rooms in the Socket.IO adapter
    socketKey,     \* per socket: its match rooms in Redis, socket:<s>:rooms
    pipe,          \* commands awaited, in the order issued
    told,          \* per client: the matches of its match:found events
    screen,        \* per client and match: the last match:stateUpdate
    away,          \* history: rooms a client asked to leave
    events         \* client events so far

clientVars == <<told, screen, away>>
roomVars   == <<adapterRooms, socketKey>>
vars == <<open, queue, matches, status, roomVars, pipe, clientVars, events>>

-----------------------------------------------------------------------------
(* Data                                                                    *)

\* A queue entry with its client's userId, or without one.
Entry == [client : Sockets, named : BOOLEAN]

MatchIds == 1..MaxMatches
Players  == {"playerA", "playerB"}
Standing == [score : Nat, activeQuestionIndex : Nat]
initialPlayerStatus == [score |-> 0, activeQuestionIndex |-> 0]
Unplayed == [p \in Players |-> initialPlayerStatus]

TickOps   == {"lrange", "dropDuplicate", "takeFirst", "takeSecond", "storeKeys",
              "joinFirst", "joinSecond"}
AnswerOps == {"rooms", "playerA", "playerB", "status", "answers", "questions",
              "store", "statusA", "statusB"}
\* "lrem", "smembers" and "cleanup" are the steps of handleDisconnect.
EventOps  == AnswerOps \cup {"lpush", "join", "leave"}
Ops       == TickOps \cup EventOps \cup {"lrem", "smembers", "cleanup"}

\* socket and other are the two players for a tick, named and otherNamed say
\* whether their entries had a userId; match is 0 while unknown, asked the newest
\* match the client was told of (history).
Command == [op : Ops, socket : Sockets, other : Sockets, named : BOOLEAN,
            otherNamed : BOOLEAN, match : Nat, left : 0..NumKeys,
            mine : Standing, seen : Standing, asked : Nat]

NewCommand(operation, s, m) ==
    [op |-> operation, socket |-> s, other |-> s, named |-> TRUE, otherNamed |-> TRUE,
     match |-> m, left |-> 0,
     mine |-> initialPlayerStatus, seen |-> initialPlayerStatus, asked |-> 0]

FirstEntry(c)  == [client |-> c.socket, named |-> c.named]
SecondEntry(c) == [client |-> c.other, named |-> c.otherNamed]

Outcomes == {"pending", "abandoned", "told", "untold"}
Match == [playerA : Sockets, playerB : Sockets, outcome : Outcomes]

PlayersOf(m) == {matches[m].playerA, matches[m].playerB}
RoleOf(s, m) == CHOOSE p \in Players : matches[m][p] = s

Ticks     == {k \in DOMAIN pipe : pipe[k].op \in TickOps}
Events(s) == {k \in DOMAIN pipe : pipe[k].op \in EventOps /\ pipe[k].socket = s}

\* Both match:found and match:stateUpdate carry the id of their match.
Knows(s, m) == m \in told[s] \/ screen[s][m] # Unplayed
Newest(s) == IF told[s] = {} THEN 0 ELSE CHOOSE m \in told[s] : \A n \in told[s] : n <= m

AdapterJoin(s, m) ==
    [adapterRooms EXCEPT ![s] = IF s \in open THEN @ \cup {m} ELSE @]

-----------------------------------------------------------------------------
\* All sockets are connected and in their private rooms; nobody has queued.
Init ==
    /\ open = Sockets
    /\ queue = <<>> /\ matches = <<>> /\ pipe = <<>>
    /\ status = [m \in MatchIds |-> Unplayed]
    /\ adapterRooms = [s \in Sockets |-> {}]
    /\ socketKey = [s \in Sockets |-> {}]
    /\ told = [s \in Sockets |-> {}]
    /\ screen = [s \in Sockets |-> [m \in MatchIds |-> Unplayed]]
    /\ away = [s \in Sockets |-> {}]
    /\ events = 0

-----------------------------------------------------------------------------
(* Clients: events while earlier ones are under way, and disconnects       *)

Issue(c) == pipe' = Append(pipe, c)

Event(s) ==
    /\ s \in open /\ events < MaxEvents /\ Cardinality(Events(s)) < MaxPending
    /\ events' = events + 1

QueueUp(s) ==
    /\ Event(s)
    /\ \E withUserId \in BOOLEAN :
          /\ withUserId \/ s \in Nameless
          /\ Issue([NewCommand("lpush", s, 0) EXCEPT !.named = withUserId])
    /\ UNCHANGED <<open, queue, matches, status, roomVars, clientVars>>

\* The documented payload has no matchId: the handler asks for the socket's rooms.
Submit(s) ==
    /\ Event(s)
    /\ Issue([NewCommand("rooms", s, 0) EXCEPT !.asked = Newest(s)])
    /\ UNCHANGED <<open, queue, matches, status, roomVars, clientVars>>

\* With one it goes straight to the players of that match.
SubmitTo(s, m) ==
    /\ Event(s) /\ Knows(s, m)
    /\ Issue([NewCommand("playerA", s, m) EXCEPT !.asked = m])
    /\ UNCHANGED <<open, queue, matches, status, roomVars, clientVars>>

\* The documentation has clients join the room of their match.
JoinRoom(s, m) ==
    /\ Event(s) /\ s \in Restless /\ Knows(s, m)
    /\ adapterRooms' = AdapterJoin(s, m)
    /\ Issue(NewCommand("join", s, m))
    /\ UNCHANGED <<open, queue, matches, status, socketKey, clientVars>>

LeaveRoom(s, m) ==
    /\ Event(s) /\ s \in Restless /\ Knows(s, m)
    /\ adapterRooms' = [adapterRooms EXCEPT ![s] = @ \ {m}]
    /\ away' = [away EXCEPT ![s] = @ \cup {m}]
    /\ Issue(NewCommand("leave", s, m))
    /\ UNCHANGED <<open, queue, matches, status, socketKey, told, screen>>

Disconnect(s) ==
    /\ s \in open \cap Restless /\ events < MaxEvents
    /\ events' = events + 1
    /\ open' = open \ {s}
    /\ adapterRooms' = [adapterRooms EXCEPT ![s] = {}]
    /\ Issue(NewCommand("lrem", s, 0))
    /\ UNCHANGED <<queue, matches, status, socketKey, clientVars>>

-----------------------------------------------------------------------------
(* Replies                                                                 *)

Reply(operation) ==
    /\ pipe # <<>> /\ Head(pipe).op = operation
    /\ UNCHANGED <<open, events, away>>

GoOn(c)         == pipe' = Append(Tail(pipe), c)
GoTo(operation) == GoOn([Head(pipe) EXCEPT !.op = operation])
Finish          == pipe' = Tail(pipe)

Places(e) == {k \in DOMAIN queue : queue[k] = e}

\* What LREM with count 1 removes: the entry nearest to the head.
FirstPlace(e) == {k \in Places(e) : \A j \in Places(e) : k <= j}

\* The k-th smallest of a set of places.
Nth(places, k) == CHOOSE j \in places : Cardinality({i \in places : i <= j}) = k

\* The entries at the other places close up, in order.
Lrem(places) ==
    LET kept == DOMAIN queue \ places IN
    queue' = [k \in 1..Cardinality(kept) |-> queue[Nth(kept, k)]]

Queued ==
    /\ Reply("lpush")
    /\ queue' = <<FirstEntry(Head(pipe))>> \o queue
    /\ Finish
    /\ UNCHANGED <<matches, status, roomVars, told, screen>>

Joined ==
    /\ Reply("join")
    /\ socketKey' = [socketKey EXCEPT ![Head(pipe).socket] = @ \cup {Head(pipe).match}]
    /\ Finish
    /\ UNCHANGED <<queue, matches, status, adapterRooms, told, screen>>

Left ==
    /\ Reply("leave")
    /\ socketKey' = [socketKey EXCEPT ![Head(pipe).socket] = @ \ {Head(pipe).match}]
    /\ Finish
    /\ UNCHANGED <<queue, matches, status, adapterRooms, told, screen>>

\* handleDisconnect: the entry with the session's userId out of the queue, then the
\* socket out of all rooms, which the last command does for its key whatever the
\* rooms read before.
QueueCleaned ==
    /\ Reply("lrem")
    /\ Lrem(Places(FirstEntry(Head(pipe))))
    /\ GoTo("smembers")
    /\ UNCHANGED <<matches, status, roomVars, told, screen>>

RoomsToClean ==
    /\ Reply("smembers")
    /\ IF socketKey[Head(pipe).socket] = {} THEN Finish ELSE GoTo("cleanup")
    /\ UNCHANGED <<queue, matches, status, roomVars, told, screen>>

RoomsCleaned ==
    /\ Reply("cleanup")
    /\ socketKey' = [socketKey EXCEPT ![Head(pipe).socket] = {}]
    /\ Finish
    /\ UNCHANGED <<queue, matches, status, adapterRooms, told, screen>>

-----------------------------------------------------------------------------
(* A tick of the worker                                                    *)

\* Ticks that will find fewer than two entries are left out: they only read.
Tick ==
    /\ Cardinality(Ticks) < MaxTicks
    /\ Len(queue) + Cardinality({k \in DOMAIN pipe : pipe[k].op = "lpush"}) >= 2
    /\ Len(matches) + Cardinality(Ticks) < MaxMatches
    /\ Issue(NewCommand("lrange", CHOOSE s \in Sockets : TRUE, 0))
    /\ UNCHANGED <<open, queue, matches, status, roomVars, clientVars, events>>

\* Two absent userIds are equal.
SamePlayer(e1, e2) == e1.client = e2.client \/ ~(e1.named \/ e2.named)

ReadQueue ==
    /\ Reply("lrange")
    /\ IF Len(queue) < 2 THEN Finish
       ELSE GoOn([Head(pipe) EXCEPT
                     !.socket = queue[1].client, !.named = queue[1].named,
                     !.other = queue[2].client, !.otherNamed = queue[2].named,
                     !.op = IF SamePlayer(queue[1], queue[2]) THEN "dropDuplicate"
                                                              ELSE "takeFirst"])
    /\ UNCHANGED <<queue, matches, status, roomVars, told, screen>>

DropDuplicate ==
    /\ Reply("dropDuplicate")
    /\ Lrem(FirstPlace(SecondEntry(Head(pipe))))
    /\ Finish
    /\ UNCHANGED <<matches, status, roomVars, told, screen>>

TakeFirst ==
    /\ Reply("takeFirst")
    /\ Lrem(FirstPlace(FirstEntry(Head(pipe))))
    /\ GoTo("takeSecond")
    /\ UNCHANGED <<matches, status, roomVars, told, screen>>

\* Mutant of TakeSecond: the tick keeps the index of the next match.
TakeSecondOffByOne ==
    /\ Reply("takeSecond")
    /\ Lrem(FirstPlace(SecondEntry(Head(pipe))))
    /\ matches' = Append(matches, [playerA |-> Head(pipe).socket,
                                   playerB |-> Head(pipe).other,
                                   outcome |-> "pending"])
    /\ GoOn([Head(pipe) EXCEPT !.op = "storeKeys", !.left = NumKeys,
                               !.match = Len(matches) + 2])
    /\ UNCHANGED <<status, roomVars, told, screen>>

\* Whether or not the two removals removed anything, the pair gets a match.
TakeSecond ==
    /\ Reply("takeSecond")
    /\ Lrem(FirstPlace(SecondEntry(Head(pipe))))
    /\ matches' = Append(matches, [playerA |-> Head(pipe).socket,
                                   playerB |-> Head(pipe).other,
                                   outcome |-> "pending"])
    /\ GoOn([Head(pipe) EXCEPT !.op = "storeKeys", !.left = NumKeys,
                               !.match = Len(matches) + 1])
    /\ UNCHANGED <<status, roomVars, told, screen>>

Conclude(m, result) == matches' = [matches EXCEPT ![m].outcome = result]

\* The keys are stored whether or not the players are still there.  Only then
\* are their sockets looked up, and the first joins the room.
StoreKey ==
    /\ Reply("storeKeys")
    /\ LET tick == Head(pipe) IN
          \/ /\ tick.left > 1
             /\ GoOn([tick EXCEPT !.left = @ - 1])
             /\ UNCHANGED <<status, adapterRooms, matches>>
          \/ /\ tick.left = 1
             /\ status' = [status EXCEPT ![tick.match] = Unplayed]
             /\ IF {tick.socket, tick.other} \subseteq open
                THEN /\ adapterRooms' = AdapterJoin(tick.socket, tick.match)
                     /\ GoOn([tick EXCEPT !.op = "joinFirst", !.left = 0])
                     /\ UNCHANGED matches
                ELSE /\ Conclude(tick.match, "abandoned")
                     /\ Finish
                     /\ UNCHANGED adapterRooms
    /\ UNCHANGED <<queue, socketKey, told, screen>>

\* Mutant of FirstJoined: the second socket's presence is checked only now.
FirstJoinedChecking ==
    /\ Reply("joinFirst")
    /\ LET tick == Head(pipe) IN
          /\ socketKey' = [socketKey EXCEPT ![tick.socket] = @ \cup {tick.match}]
          /\ adapterRooms' = AdapterJoin(tick.other, tick.match)
          /\ IF tick.other \in open THEN GoTo("joinSecond") /\ UNCHANGED matches
                                    ELSE Conclude(tick.match, "abandoned") /\ Finish
    /\ UNCHANGED <<queue, status, told, screen>>

\* Mutant of FirstJoined: only one of the two sockets is joined.
FirstJoinedOnly ==
    /\ Reply("joinFirst")
    /\ LET tick == Head(pipe) IN
          /\ socketKey' = [socketKey EXCEPT ![tick.socket] = @ \cup {tick.match}]
          /\ Finish
    /\ UNCHANGED <<queue, matches, status, adapterRooms, told, screen>>

FirstJoined ==
    /\ Reply("joinFirst")
    /\ LET tick == Head(pipe) IN
          /\ socketKey' = [socketKey EXCEPT ![tick.socket] = @ \cup {tick.match}]
          /\ adapterRooms' = AdapterJoin(tick.other, tick.match)
          /\ GoTo("joinSecond")
    /\ UNCHANGED <<queue, matches, status, told, screen>>

\* Nobody is told of a match if one of the userIds is absent.
Announceable(tick) == tick.named /\ tick.otherNamed

\* Mutant of notifyMatchFound: client A is told twice and client B never.
notifyOnlyA(tick) ==
    told' = [s \in Sockets |-> IF Announceable(tick) /\ s \in {tick.socket} \cap open
                               THEN told[s] \cup {tick.match} ELSE told[s]]

\* match:found to both socket ids; a closed socket receives nothing.
notifyMatchFound(tick) ==
    told' = [s \in Sockets |-> IF /\ Announceable(tick)
                                  /\ s \in {tick.socket, tick.other} \cap open
                               THEN told[s] \cup {tick.match} ELSE told[s]]

SecondJoined ==
    /\ Reply("joinSecond")
    /\ LET tick == Head(pipe) IN
          /\ socketKey' = [socketKey EXCEPT ![tick.other] = @ \cup {tick.match}]
          /\ notifyMatchFound(tick)
          /\ Conclude(tick.match, IF Announceable(tick) THEN "told" ELSE "untold")
    /\ Finish
    /\ UNCHANGED <<queue, status, adapterRooms, screen>>

-----------------------------------------------------------------------------
(* An answer                                                               *)

Unchanged == UNCHANGED <<queue, matches, status, roomVars, told, screen>>

\* socketRooms.find(startsWith('match:')) on a set in no particular order.
FindMatchRoom ==
    /\ Reply("rooms")
    /\ \/ socketKey[Head(pipe).socket] = {} /\ Finish
       \/ \E m \in socketKey[Head(pipe).socket] :
             GoOn([Head(pipe) EXCEPT !.op = "playerA", !.match = m])
    /\ Unchanged

\* Keys that never change once the match is stored.
ReadPlayerA == Reply("playerA") /\ GoTo("playerB") /\ Unchanged
ReadPlayerB ==
    /\ Reply("playerB")
    /\ IF Head(pipe).socket \in PlayersOf(Head(pipe).match) THEN GoTo("status") ELSE Finish
    /\ Unchanged
ReadAnswers == Reply("answers") /\ GoTo("questions") /\ Unchanged

ReadStatus ==
    /\ Reply("status")
    /\ LET call == Head(pipe) IN
          GoOn([call EXCEPT !.op = "answers",
                            !.mine = status[call.match][RoleOf(call.socket, call.match)]])
    /\ Unchanged

Scored(playerStatus, point) ==
    [score |-> playerStatus.score + point,
     activeQuestionIndex |-> playerStatus.activeQuestionIndex + 1]

\* Mutant of ReadQuestions: the bounds check is missing.
ReadQuestionsUnchecked ==
    /\ Reply("questions")
    /\ \E point \in Points :
          GoOn([Head(pipe) EXCEPT !.op = "store", !.mine = Scored(Head(pipe).mine, point)])
    /\ Unchanged

ReadQuestions ==
    /\ Reply("questions")
    /\ IF Head(pipe).mine.activeQuestionIndex >= NumQuestions THEN Finish
       ELSE \E point \in Points :
               GoOn([Head(pipe) EXCEPT !.op = "store",
                                       !.mine = Scored(Head(pipe).mine, point)])
    /\ Unchanged

StoreStatus ==
    /\ Reply("store")
    /\ LET call == Head(pipe) IN
          status' = [status EXCEPT ![call.match][RoleOf(call.socket, call.match)] = call.mine]
    /\ GoTo("statusA")
    /\ UNCHANGED <<queue, matches, roomVars, told, screen>>

ReadStatusA ==
    /\ Reply("statusA")
    /\ GoOn([Head(pipe) EXCEPT !.op = "statusB",
                               !.seen = status[Head(pipe).match]["playerA"]])
    /\ Unchanged

\* Mutant of Broadcast: emitted to the submitting client, not to the room.
BroadcastToCaller ==
    /\ Reply("statusB")
    /\ LET call == Head(pipe)
           shown == [status[call.match] EXCEPT !["playerA"] = call.seen]
       IN  screen' = [screen EXCEPT ![call.socket][call.match] = shown]
    /\ Finish
    /\ UNCHANGED <<queue, matches, status, roomVars, told>>

\* match:stateUpdate to whoever is in the match room now.
Broadcast ==
    /\ Reply("statusB")
    /\ LET call == Head(pipe)
           shown == [status[call.match] EXCEPT !["playerA"] = call.seen]
       IN  screen' = [s \in Sockets |-> IF call.match \in adapterRooms[s]
                                        THEN [screen[s] EXCEPT ![call.match] = shown]
                                        ELSE screen[s]]
    /\ Finish
    /\ UNCHANGED <<queue, matches, status, roomVars, told>>

-----------------------------------------------------------------------------
ServeEvent  == Queued \/ Joined \/ Left \/ QueueCleaned \/ RoomsToClean \/ RoomsCleaned
ServeTick   == \/ ReadQueue \/ DropDuplicate \/ TakeFirst \/ TakeSecond \/ StoreKey
               \/ FirstJoined \/ SecondJoined
ServeAnswer == \/ FindMatchRoom \/ ReadPlayerA \/ ReadPlayerB \/ ReadStatus \/ ReadAnswers
               \/ ReadQuestions \/ StoreStatus \/ ReadStatusA \/ Broadcast
Serve == ServeEvent \/ ServeTick \/ ServeAnswer

Next == \/ \E s \in Sockets : QueueUp(s) \/ Submit(s) \/ Disconnect(s)
        \/ \E s \in Sockets, m \in MatchIds :
              SubmitTo(s, m) \/ JoinRoom(s, m) \/ LeaveRoom(s, m)
        \/ Tick \/ Serve

Spec == Init /\ [][Next]_vars

\* Redis answers.
FairSpec == Spec /\ WF_vars(Serve)

-----------------------------------------------------------------------------
(* Properties                                                              *)

\* Every key, list, command and client view has the shape the code gives it.
TypeOK ==
    /\ open \subseteq Sockets
    /\ queue \in Seq(Entry)
    /\ matches \in Seq(Match) /\ Len(matches) <= MaxMatches
    /\ status \in [MatchIds -> [Players -> Standing]]
    /\ adapterRooms \in [Sockets -> SUBSET (DOMAIN matches)]
    /\ socketKey \in [Sockets -> SUBSET (DOMAIN matches)]
    /\ pipe \in Seq(Command)
    /\ \A k \in DOMAIN pipe : pipe[k].match \in 0..Len(matches)
    /\ told \in [Sockets -> SUBSET (DOMAIN matches)]
    /\ screen \in [Sockets -> [MatchIds -> [Players -> Standing]]]
    /\ away \in [Sockets -> SUBSET (DOMAIN matches)]
    /\ events \in 0..MaxEvents

\* No connected client is shown an update of a match before it is told of it with
\* match:found, although socket1 is in the room, and may find it with a submission
\* that names no match, two commands before that event is sent.  Excepted are the
\* matches notifyMatchFound refuses: their two players are in the room, and may
\* play in it, without ever being told.
Refused(m) == m \in DOMAIN matches /\ matches[m].outcome = "untold"
FoundBeforeUpdates ==
    \A s \in open, m \in MatchIds :
        screen[s][m] # Unplayed => m \in told[s] \/ Refused(m)

\* With no answer to a match under way, its connected players who never left its
\* room see what Redis holds: also the player who was joined second, also for the
\* older of two matches, also for one they were not told of.
ScreensAgree ==
    \A m \in DOMAIN matches :
        (\A k \in DOMAIN pipe : pipe[k].op \in AnswerOps => pipe[k].match # m) =>
            \A s \in PlayersOf(m) \cap open :
                m \notin away[s] => screen[s][m] = status[m]

\* The keys of a match that was given up stay in Redis for ever, and no submission
\* ever reaches them.
LeftoverKeysUntouched ==
    \A m \in DOMAIN matches : matches[m].outcome = "abandoned" =>
        /\ status[m] = Unplayed
        /\ \A k \in DOMAIN pipe : pipe[k].op \in AnswerOps => pipe[k].match # m

\* Each match by itself is a quiz of its two players: answers that land in the
\* wrong one of two matches, come after its end, or were sent by a client that
\* closed meanwhile, are still answers of that quiz or change nothing.  This
\* supposes that a client waits for the end of one event before it sends the next
\* (MaxPending = 1): two answers of one player that overlap store scores that no
\* quiz gives (ScoreNeverDrops of MatchPlay).
Quiz(m) == INSTANCE QuizMatch WITH standing <- status[m]
EveryMatchIsAQuiz ==
    /\ \A m \in MatchIds : Quiz(m)!QuizInit
    /\ [][\A m \in MatchIds : Quiz(m)!QuizNext \/ UNCHANGED status[m]]_status

\* "When a match is found, both players receive match:found" (USER_GUIDE.md 424):
\* pairs taken from the queue are all told of their matches, unless a player closes
\* or queued without a userId: none is left untold for ever.
SomePairUntold ==
    \E m \in DOMAIN matches : /\ PlayersOf(m) \subseteq open /\ ~Refused(m)
                            /\ \E s \in PlayersOf(m) : m \notin told[s]
PairsAreTold == []<>~SomePairUntold

\* USER_GUIDE.md 491, 496-503: an answer, sent without a match id, is "for the
\* current question": it does not count in a match older than the newest one its
\* client was told of.
NoAnswerToOldMatch ==
    \A k \in DOMAIN pipe : pipe[k].op = "store" => pipe[k].match >= pipe[k].asked
=============================================================================
