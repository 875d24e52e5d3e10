---------------------------- MODULE Matchmaking ----------------------------
(***************************************************************************)
(* The matchmaking queue of one game type: clients push and remove entries *)
(* through the gateway, and every instance's MatchmakingWorker takes the   *)
(* first two entries of the list on each cron tick, stores the match and   *)
(* joins both sockets to its room.                                         *)
(*                                                                         *)
(* The queue lives in Redis and is shared.  Every instance has one ioredis *)
(* connection: pipe[i] holds the commands its handlers and ticks await, in *)
(* the order they were issued.  Serving the head is "Redis executes the    *)
(* command, the handler runs to its next await".  A connection that falls  *)
(* silent ends in a reconnect that sends the unanswered commands again, in *)
(* a rejection of all of them, or with the death of the instance.          *)
(***************************************************************************)
EXTENDS Naturals, Sequences, FiniteSets

CONSTANTS
    Sockets,       \* client sockets; a reconnecting client is a new socket
    Users,         \* user ids
    NoUser,        \* an absent userId in a payload
    UserOf,        \* the user of a socket's session code (client.data.user)
    PayloadUser,   \* the userIds a socket may put into its payloads
    Instances,     \* processes of the service
    Home,          \* the instance a socket is connected to
    NumKeys,       \* keys stored per match (8 in storeMatchDataInRedis)
    MaxTicks,      \* cron ticks of one instance that may be under way at once
    MaxPending,    \* bound: queue events of a socket under way at once
    MaxEvents,     \* bound: matchmaking:join and :leave events in a behaviour
    MaxOutages     \* bound: how often a connection falls silent

ASSUME SocketAssumption == Sockets # {}
ASSUME UserAssumption == UserOf \in [Sockets -> Users] /\ NoUser \notin Users
ASSUME PayloadAssumption == PayloadUser \in [Sockets -> SUBSET (Users \cup {NoUser})]
ASSUME HomeAssumption == Home \in [Sockets -> Instances] /\ IsFiniteSet(Instances)
ASSUME BoundsAssumption == /\ NumKeys \in Nat \ {0} /\ MaxTicks \in Nat
                           /\ MaxPending \in Nat /\ MaxEvents \in Nat
                           /\ MaxOutages \in Nat

VARIABLES
    phase,     \* a socket's life: "new", "open", "closed"
    wants,     \* history: the socket's last request was to be in the queue
    joined,    \* history: matchmaking:join events, per entry they push
    queue,     \* the list matchmaking:queue:1v1_rapid_quiz, head first
    pushed,    \* history: LPUSHes executed for an entry
    matches,   \* history: pairs taken from the queue and what became of them
    pipe,      \* per instance: commands awaited, in the order issued
    events,    \* matchmaking:join and :leave events so far
    silent,    \* per instance: replies have stopped arriving
    ran,       \* per instance: commands executed without an answer
    outages,   \* times a connection fell silent
    lost       \* history: commands were rejected or an instance died

clientVars == <<phase, wants, joined, events>>
storeVars  == <<queue, pushed>>
linkVars   == <<silent, ran, outages, lost>>
vars == <<clientVars, storeVars, matches, pipe, linkVars>>

-----------------------------------------------------------------------------
(* Data                                                                    *)

Entry == [clientId : Sockets, userId : Users \cup {NoUser}]
AnyEntry == CHOOSE e \in Entry : TRUE
EntryOf(s, u) == [clientId |-> s, userId |-> u]

WorkerOps == {"lrange", "dropDuplicate", "takeFirst", "takeSecond",
              "storeKeys", "joinFirst", "joinSecond"}
ClientOps == {"lpush", "lremAll"}

\* entry and other are entry1 and entry2 of a tick, entry the queue entry of a
\* client's command; match is the index of the tick's pair in matches.
Command == [op : WorkerOps \cup ClientOps, entry : Entry, other : Entry,
            match : Nat, left : 0..NumKeys]

Outcomes == {"pending", "abandoned", "told", "untold", "failed"}
Match == [first : Entry, second : Entry, outcome : Outcomes]

ClientCommand(operation, e) ==
    [op |-> operation, entry |-> e, other |-> e, match |-> 0, left |-> 0]

Issue(i, command) == pipe' = [pipe EXCEPT ![i] = Append(@, command)]

OwnCommands(s) == {k \in DOMAIN pipe[Home[s]] :
                      /\ pipe[Home[s]][k].op \in ClientOps
                      /\ pipe[Home[s]][k].entry.clientId = s}

Ticks(i) == {k \in DOMAIN pipe[i] : pipe[i][k].op \in WorkerOps}

-----------------------------------------------------------------------------
Init ==
    /\ phase = [s \in Sockets |-> "new"]
    /\ wants = [s \in Sockets |-> FALSE]
    /\ joined = [e \in Entry |-> 0]
    /\ queue = <<>>
    /\ pushed = [e \in Entry |-> 0]
    /\ matches = <<>>
    /\ pipe = [i \in Instances |-> <<>>]
    /\ events = 0
    /\ silent = [i \in Instances |-> FALSE]
    /\ ran = [i \in Instances |-> 0]
    /\ outages = 0
    /\ lost = FALSE

-----------------------------------------------------------------------------
(* Clients                                                                 *)

\* handleConnection accepted the session code.
Connect(s) ==
    /\ phase[s] = "new"
    /\ phase' = [phase EXCEPT ![s] = "open"]
    /\ UNCHANGED <<wants, joined, events, storeVars, matches, pipe, linkVars>>

\* matchmaking:join pushes an entry with the userId of the payload, absent or
\* not.
Join(s) ==
    /\ phase[s] = "open" /\ events < MaxEvents /\ Cardinality(OwnCommands(s)) < MaxPending
    /\ events' = events + 1
    /\ wants' = [wants EXCEPT ![s] = TRUE]
    /\ \E u \in PayloadUser[s] :
          /\ joined' = [joined EXCEPT ![EntryOf(s, u)] = @ + 1]
          /\ Issue(Home[s], ClientCommand("lpush", EntryOf(s, u)))
    /\ UNCHANGED <<phase, storeVars, matches, linkVars>>

\* matchmaking:leave removes the entry with the payload's userId, or with the
\* session's if the payload has none.
Leave(s) ==
    /\ phase[s] = "open" /\ events < MaxEvents /\ Cardinality(OwnCommands(s)) < MaxPending
    /\ events' = events + 1
    /\ wants' = [wants EXCEPT ![s] = FALSE]
    /\ \E u \in PayloadUser[s] :
          Issue(Home[s], ClientCommand("lremAll",
              EntryOf(s, IF u = NoUser THEN UserOf[s] ELSE u)))
    /\ UNCHANGED <<phase, joined, storeVars, matches, linkVars>>

\* Mutant of Close: the queues are not cleaned on disconnect.
CloseUncleaned(s) ==
    /\ phase[s] = "open"
    /\ phase' = [phase EXCEPT ![s] = "closed"]
    /\ wants' = [wants EXCEPT ![s] = FALSE]
    /\ UNCHANGED <<joined, events, storeVars, matches, pipe, linkVars>>

\* handleDisconnect removes the entry with the session's userId.
Close(s) ==
    /\ phase[s] = "open"
    /\ phase' = [phase EXCEPT ![s] = "closed"]
    /\ wants' = [wants EXCEPT ![s] = FALSE]
    /\ Issue(Home[s], ClientCommand("lremAll", EntryOf(s, UserOf[s])))
    /\ UNCHANGED <<joined, events, storeVars, matches, linkVars>>

-----------------------------------------------------------------------------
(* Redis                                                                   *)

Queued(e) == {k \in DOMAIN queue : queue[k] = e}

\* What LREM with count 1 removes: the match nearest to the head.
FirstQueued(e) == {k \in Queued(e) : \A j \in Queued(e) : k <= j}

\* Mutant of Removed: the worker removes entry2 twice and entry1 never.
RemovedCopyPaste(command) ==
    {k \in DOMAIN queue :
        \/ command.op = "lremAll" /\ k \in Queued(command.entry)
        \/ /\ command.op \in {"takeFirst", "takeSecond", "dropDuplicate"}
           /\ k \in FirstQueued(command.other)}

\* Mutant of Removed: LREM with count 1 when a client leaves.
RemovedOnlyOne(command) ==
    {k \in DOMAIN queue :
        \/ command.op \in {"lremAll", "takeFirst"} /\ k \in FirstQueued(command.entry)
        \/ command.op \in {"takeSecond", "dropDuplicate"} /\ k \in FirstQueued(command.other)}

\* Mutant of Removed: a pair of one player is skipped, not shortened.
RemovedKeepsDuplicate(command) ==
    {k \in DOMAIN queue :
        \/ command.op = "lremAll" /\ k \in Queued(command.entry)
        \/ command.op = "takeFirst" /\ k \in FirstQueued(command.entry)
        \/ command.op = "takeSecond" /\ k \in FirstQueued(command.other)}

\* The places in the list whose entries a command removes.
Removed(command) ==
    {k \in DOMAIN queue :
        \/ command.op = "lremAll" /\ k \in Queued(command.entry)
        \/ command.op = "takeFirst" /\ k \in FirstQueued(command.entry)
        \/ command.op \in {"takeSecond", "dropDuplicate"} /\ k \in FirstQueued(command.other)}

\* The k-th smallest of a set of places.
Nth(places, k) == CHOOSE j \in places : Cardinality({i \in places : i <= j}) = k

\* The entries at the other places close up, in order.
Lrem(places) ==
    LET kept == DOMAIN queue \ places IN
    queue' = [k \in 1..Cardinality(kept) |-> queue[Nth(kept, k)]]

\* What a command does to Redis.  LPUSH puts an entry in front of all others.
Run(command) ==
    IF command.op = "lpush"
    THEN /\ queue' = <<command.entry>> \o queue
         /\ pushed' = [pushed EXCEPT ![command.entry] = @ + 1]
    ELSE /\ Lrem(Removed(command))
         /\ UNCHANGED pushed

Reply(i, operation) ==
    /\ ~silent[i] /\ pipe[i] # <<>> /\ Head(pipe[i]).op = operation
    /\ Run(Head(pipe[i]))
    /\ UNCHANGED <<clientVars, linkVars>>

GoOn(i, command) == pipe' = [pipe EXCEPT ![i] = Append(Tail(@), command)]
Finish(i)        == pipe' = [pipe EXCEPT ![i] = Tail(@)]

ServeClient(i) ==
    /\ \E operation \in ClientOps : Reply(i, operation)
    /\ Finish(i)
    /\ UNCHANGED matches

-----------------------------------------------------------------------------
(* A tick of the worker, one action per awaited command                    *)

Tick(i) ==
    /\ Cardinality(Ticks(i)) < MaxTicks
    /\ Issue(i, [op |-> "lrange", entry |-> AnyEntry, other |-> AnyEntry,
                 match |-> 0, left |-> 0])
    /\ UNCHANGED <<clientVars, storeVars, matches, linkVars>>

SamePlayer(e1, e2) == e1.userId = e2.userId \/ e1.clientId = e2.clientId

\* The first two entries are read; a pair of one player loses its second entry,
\* which ends the tick (there is one game type).
ReadQueue(i) ==
    /\ Reply(i, "lrange")
    /\ \/ Len(queue) < 2 /\ Finish(i)
       \/ /\ Len(queue) >= 2
          /\ GoOn(i, [Head(pipe[i]) EXCEPT
                 !.entry = queue[1], !.other = queue[2],
                 !.op = IF SamePlayer(queue[1], queue[2]) THEN "dropDuplicate"
                                                          ELSE "takeFirst"])
    /\ UNCHANGED matches

DropDuplicate(i) ==
    /\ Reply(i, "dropDuplicate")
    /\ Finish(i)
    /\ UNCHANGED matches

\* Neither removal looks at how many entries it removed.
TakeFirst(i) ==
    /\ Reply(i, "takeFirst")
    /\ GoOn(i, [Head(pipe[i]) EXCEPT !.op = "takeSecond"])
    /\ UNCHANGED matches

\* Mutant of TakeSecond: the tick keeps the index of the next match.
TakeSecondOffByOne(i) ==
    /\ Reply(i, "takeSecond")
    /\ matches' = Append(matches, [first |-> Head(pipe[i]).entry,
                                   second |-> Head(pipe[i]).other,
                                   outcome |-> "pending"])
    /\ GoOn(i, [Head(pipe[i]) EXCEPT
           !.op = "storeKeys", !.left = NumKeys, !.match = Len(matches) + 2])

TakeSecond(i) ==
    /\ Reply(i, "takeSecond")
    /\ matches' = Append(matches, [first |-> Head(pipe[i]).entry,
                                   second |-> Head(pipe[i]).other,
                                   outcome |-> "pending"])
    /\ GoOn(i, [Head(pipe[i]) EXCEPT
           !.op = "storeKeys", !.left = NumKeys, !.match = Len(matches) + 1])

Conclude(i, result) ==
    /\ matches' = [matches EXCEPT ![Head(pipe[i]).match].outcome = result]
    /\ Finish(i)

\* server.sockets.sockets holds the open sockets of this instance only.
LocalSocket(i, s) == phase[s] = "open" /\ Home[s] = i

StoreKey(i) ==
    /\ Reply(i, "storeKeys")
    /\ LET tick == Head(pipe[i]) IN
          \/ /\ tick.left > 1
             /\ GoOn(i, [tick EXCEPT !.left = @ - 1])
             /\ UNCHANGED matches
          \/ /\ tick.left = 1
             /\ IF /\ LocalSocket(i, tick.entry.clientId)
                   /\ LocalSocket(i, tick.other.clientId)
                THEN /\ GoOn(i, [tick EXCEPT !.op = "joinFirst", !.left = 0])
                     /\ UNCHANGED matches
                ELSE Conclude(i, "abandoned")

JoinFirst(i) ==
    /\ Reply(i, "joinFirst")
    /\ GoOn(i, [Head(pipe[i]) EXCEPT !.op = "joinSecond"])
    /\ UNCHANGED matches

\* notifyMatchFound refuses a pair with an absent userId.
JoinSecond(i) ==
    /\ Reply(i, "joinSecond")
    /\ Conclude(i, IF NoUser \in {Head(pipe[i]).entry.userId, Head(pipe[i]).other.userId}
                   THEN "untold" ELSE "told")

-----------------------------------------------------------------------------
(* The connections                                                         *)

FallSilent(i) ==
    /\ ~silent[i] /\ outages < MaxOutages
    /\ silent' = [silent EXCEPT ![i] = TRUE]
    /\ outages' = outages + 1
    /\ UNCHANGED <<clientVars, storeVars, matches, pipe, ran, lost>>

RunUnanswered(i) ==
    /\ silent[i] /\ ran[i] < Len(pipe[i])
    /\ Run(pipe[i][ran[i] + 1])
    /\ ran' = [ran EXCEPT ![i] = @ + 1]
    /\ UNCHANGED <<clientVars, matches, pipe, silent, outages, lost>>

EndSilence(i) ==
    /\ silent[i]
    /\ silent' = [silent EXCEPT ![i] = FALSE]
    /\ ran' = [ran EXCEPT ![i] = 0]
    /\ UNCHANGED outages

\* Every unanswered command is sent, and may be executed, a second time.
Reconnect(i) ==
    /\ EndSilence(i)
    /\ UNCHANGED <<clientVars, storeVars, matches, pipe, lost>>

\* Handlers and ticks under way end; the matches they were setting up fail.
DropPipe(i) ==
    /\ pipe' = [pipe EXCEPT ![i] = <<>>]
    /\ matches' = [m \in DOMAIN matches |->
           IF \E k \in Ticks(i) : pipe[i][k].match = m
           THEN [matches[m] EXCEPT !.outcome = "failed"] ELSE matches[m]]
    /\ lost' = TRUE

\* maxRetriesPerRequest: all unanswered commands are rejected, every handler
\* catches the error and ends.
GiveUp(i) ==
    /\ EndSilence(i)
    /\ DropPipe(i)
    /\ UNCHANGED <<clientVars, storeVars>>

\* The process dies and is restarted; no handleDisconnect runs for its sockets.
Crash(i) ==
    /\ EndSilence(i)
    /\ DropPipe(i)
    /\ phase' = [s \in Sockets |->
           IF Home[s] = i /\ phase[s] = "open" THEN "closed" ELSE phase[s]]
    /\ wants' = [s \in Sockets |-> wants[s] /\ Home[s] # i]
    /\ UNCHANGED <<joined, events, storeVars>>

-----------------------------------------------------------------------------
Serve(i) == \/ ServeClient(i)
            \/ ReadQueue(i) \/ DropDuplicate(i) \/ TakeFirst(i) \/ TakeSecond(i)
            \/ StoreKey(i) \/ JoinFirst(i) \/ JoinSecond(i)

Settle(i) == Reconnect(i) \/ GiveUp(i) \/ Crash(i)

Next == \/ \E s \in Sockets : Connect(s) \/ Join(s) \/ Leave(s) \/ Close(s)
        \/ \E i \in Instances : \/ Tick(i) \/ Serve(i) \/ Settle(i)
                                \/ FallSilent(i) \/ RunUnanswered(i)

Spec == Init /\ [][Next]_vars

\* The cron job keeps ticking, Redis answers a connection that is up, and
\* ioredis reconnects or gives up.
Fairness == \A i \in Instances : WF_vars(Tick(i)) /\ WF_vars(Serve(i)) /\ WF_vars(Settle(i))
FairSpec == Spec /\ Fairness

-----------------------------------------------------------------------------
(* Properties                                                              *)

\* Every list, command and record has the shape the code gives it.
TypeOK ==
    /\ phase \in [Sockets -> {"new", "open", "closed"}]
    /\ wants \in [Sockets -> BOOLEAN]
    /\ joined \in [Entry -> Nat]
    /\ queue \in Seq(Entry)
    /\ pushed \in [Entry -> Nat]
    /\ matches \in Seq(Match)
    /\ pipe \in [Instances -> Seq(Command)]
    /\ \A i \in Instances : \A k \in DOMAIN pipe[i] : pipe[i][k].match \in 0..Len(matches)
    /\ events \in 0..MaxEvents
    /\ silent \in [Instances -> BOOLEAN]
    /\ ran \in [Instances -> Nat] /\ \A i \in Instances : ran[i] <= Len(pipe[i])
    /\ outages \in 0..MaxOutages
    /\ lost \in BOOLEAN

Taken(e) == {m \in DOMAIN matches : e \in {matches[m].first, matches[m].second}}

\* A matchmaking:join is good for one match, whatever leaves, disconnects, replays
\* and aborted ticks come between the worker's read of the list and its two
\* removals: an entry that is still queued is not matched yet.  Ticks that overlap,
\* in one instance or in several, may each take the same entry; and each loss of
\* the connection may have its LPUSH executed once more.
Holders == MaxTicks * Cardinality(Instances)
MatchesPerJoin ==
    \A e \in Entry : Cardinality(Taken(e)) + Holders * Cardinality(Queued(e))
                        <= Holders * (joined[e] * (outages + 1))

\* The worker gives up on a pair it took only if one of the two sockets closed.
\* (The warning it logs says so: "One or both players disconnected before match
\* could be created", matchmaking.worker.ts 91.)
AbandonedOnlyIfGone ==
    \A m \in DOMAIN matches : matches[m].outcome = "abandoned" =>
        \E e \in {matches[m].first, matches[m].second} : phase[e.clientId] = "closed"

\* A client that left the queue or disconnected has no entry in it once its
\* commands are through, unless they were lost ("Remove from matchmaking queues
\* if present", realtime.gateway.ts 164).  An entry pushed without a userId is
\* excepted: it is never removed, since it is not the string removed.
LeaversAreOut ==
    ~lost => \A s \in Sockets : ~wants[s] /\ OwnCommands(s) = {} =>
        \A k \in DOMAIN queue : queue[k].userId # NoUser => queue[k].clientId # s

\* A player who stays connected and was taken from the queue is told of a match:
\* matchmaking.worker.spec.ts 368, "should call notifyMatchFound even when sockets
\* are missing".
TakenIsTold ==
    \A m \in DOMAIN matches : matches[m].outcome \in {"abandoned", "untold"} =>
        \A e \in {matches[m].first, matches[m].second} : phase[e.clientId] = "closed"

\* Two waiting players do not wait forever: the list always gets below two
\* entries again, through outages, crashes and entries of closed sockets.
QueueDrains == Len(queue) >= 2 ~> Len(queue) < 2
=============================================================================
