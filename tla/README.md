# realtime-service: specifications

TLA+ modules, model-checking runs and machine-checked proofs for the real-time
service of Lerniqo (NestJS, Socket.IO, ioredis). Paths below are relative to the
repository; `realtime/` stands for `src/realtime/`.

## The system

| Component | State | Operations | Talks to |
|---|---|---|---|
| Gateway (`realtime/gateway/realtime.gateway.ts`) | `client.data.user` of every socket | `handleConnection`, `handleDisconnect`, `joinRoom`, `leaveRoom`, `broadcastToRoom`, `matchmaking:join`, `matchmaking:leave`, `match:submitAnswer`, `notifyMatchFound`, `sendNotification`, `afterInit` | everything below |
| ConnectionService (`realtime/gateway/connection.service.ts`) | map user -> sockets, in memory | `addConnections`, `removeConnection` | gateway |
| Matchmaking (`realtime/matchmaking/`) | Redis list `matchmaking:queue:<gameType>`; eight keys `match:<id>:...` per match | `addToMatchingQueue`, the cron job `handleMatchmaking` | Redis, rooms, gateway |
| Rooms (`realtime/rooms/`) | Redis sets `room:<r>` and `socket:<s>`, the adapter's rooms, two in-memory maps | `joinRoom`, `leaveRoom`, `removeSocketFromAllRooms`, getters | Redis, Socket.IO |
| RedisService (`src/redis/`) | one ioredis client per instance, shared by all of the above | `getClient`, `waitUntilReady` | Redis |
| Session codes (`src/auth/`) | none | encode, decode, validate | gateway |
| Notifications, Kafka (`realtime/notifications/`, `src/kafka/`) | the group's committed offset, in Kafka | `notify`, `handleSessionStartingSoon`, `handleConceptMastered`, forwarded to `sendNotificationToUsers` | gateway, Kafka |
| Bootstrap (`main.ts`, `app.module.ts`) | none | starts the consumer, the modules and the server, in this order | all |
| Content, health, logging | none | constants and formatting | |

How they interact. Everything is asynchronous code in one Node process per
instance. A handler runs without interruption to its next `await` of a Redis
command. Nest starts the handler of the next message of a socket without waiting
for the previous one, and the cron job starts every two seconds whether or not
the previous tick ended (`@Cron('*/2 * * * * *')`; USER_GUIDE.md:423 says five), so any number of handlers are under way at once. They
share one ioredis connection: Redis executes their commands in the order they
were issued and answers them in that order. Redis itself is shared by all
instances; sockets, the memory mirror and `server.sockets.sockets` are not.

What is hard:

* read-modify-write over several commands (`match:submitAnswer`);
* a queue read in one command and shortened in two later ones (the worker);
* clean-up on disconnect racing joins issued before and after it (rooms);
* three copies of one fact, written one after the other (adapter, Redis, mirror);
* a lost Redis connection: commands run twice (ioredis resends what is
  unanswered), not at all (`maxRetriesPerRequest: 3` rejects them), or half;
* a second match over the same connection, while nothing ends the first;
* events handled again after a crash, or before the server exists;
* more than one instance.

What makes each component correct:

* Quiz play: scores and indexes within the match; no step back in Redis or on the
  clients' screens; what clients saw last is what is stored; one answer at a time
  per player behaves like an atomic quiz.
* Matchmaking: a join is good for one match per tick that may be under way; a pair is
  dropped only when a socket closed; who leaves is out; the queue drains.
* A match session: who is matched is told, and told before being shown an update,
  unless `notifyMatchFound` refuses the pair; the clients of a match see what Redis
  holds; each match is a quiz of its own.
* Notifications: what is committed or answered with 202 was received, in order.
* Rooms: the Redis sets and the two maps are inverse to each other; the three
  views agree when nothing is under way; a closed socket leaves nothing; presence
  agrees with the tracked connections.

`PROJECT.json` lists every hazard with its line and the properties aimed at it.

## The common picture: a pipeline of commands

The models of the Redis connection represent it by a sequence `pipe`: one record
per handler under way, holding the awaited command and the local variables that
survive the await. Serving the head is one atomic step: Redis executes the
command and the handler runs to its next `await`, which appends the next command
at the end, or it ends. This is exactly FIFO pipelining, and it excludes
interleavings that cannot happen (a reply overtaking another one on one
connection). It includes every order in which events can arrive, since a new
handler may be appended between any two steps.

Replies and executions are merged while the connection is up. They come apart
when it falls silent (`FallSilent`): then Redis may still execute any prefix of
the commands sent (`RunUnanswered`, counted by `ran`) before ioredis reconnects and
sends all unanswered commands again (`Reconnect`), or rejects them all (`GiveUp`),
or the process dies (`Crash`). `resent`, `gaveUp` and `lost` remember that this has
happened.

## Modules

### QuizMatch, MatchPlay: one match while it is played

`QuizMatch` is the promise: one answer moves one player one question on and is
worth a point or none. `MatchPlay` is `onSubmitAnswer` (gateway 319-623), one
action per awaited command: `ReadRooms` (352), `ReadPlayerA`/`ReadPlayerB` (376-377)
with the check that the socket is a player, `ReadStatus` (422), `ReadAnswers` (445),
`ReadQuestions` (463) with the bounds check, the grading and the new status,
`StoreStatus` (554), `ReadStatusA`/`Broadcast` (557-583). `status` is the pair of
keys `playerAStatus`, `playerBStatus`; `mine` is `playerStatus`, `seen` is
`playerAStatus`; `update` is the last `match:stateUpdate`. Grading is a free choice
of 0 or 1 point; questions are counted by `NumQuestions`. A match's two sockets are
on one instance (the worker makes a match only of sockets it finds locally), so one
pipeline is enough here. A rejected command ends a handler (catch, 610-622), except
in `getSocketRooms`, which answers from memory instead.

Instances: `MatchPlayMC`.

### Matchmaking: the queue and the worker

`queue` is the Redis list; an entry is the pair of socket id and userId that the code
serialises. `Join` pushes the userId of the payload, `Leave` and `Close` remove the
entry built from the payload or the session (gateway 183-221, 259-317). A tick of the
worker is `Tick`, `ReadQueue`, `TakeFirst`, `TakeSecond`, `StoreKey` (once per key),
`JoinFirst`, `JoinSecond`, with `DropDuplicate` for a pair of one player. `matches`
records each pair taken and its outcome: told, untold (`notifyMatchFound` refused),
abandoned (a socket was not found), failed (commands rejected or process dead).
`joined` counts the joins per entry, `pushed` the pushes executed for them. Any number of instances share the queue,
each with its own pipeline and its own sockets (`Home`).

Instances: `MatchmakingMC`.

### Rooms: membership and presence

`adapterRooms`, `roomKey`/`socketKey` (Redis), `socketToRooms`/`roomToSockets` (the
mirror) and `tracked` (ConnectionService). A MULTI is one command. `Connect`, `JoinRoom`,
`LeaveRoom` and `MatchPair` change the adapter at once and issue the MULTI; its
reply (`Joined`, `FirstJoined`, `Left`) updates the mirror. `Disconnect` starts the
chain of `handleDisconnect`: queue removal (`QueuesCleaned`), `SMEMBERS` (`RoomsRead`),
MULTI with the rooms read (`CleanedUp`). `MatchPair` and `FirstJoined` are the worker's
two `joinRoom` calls for a pair it has looked up. The store operations keep the
names of `rooms.store.ts`. Clients join and leave whatever room they name: `Named` are the
names they use, which may be the private rooms of any user; `asked` remembers who asked to
be in a private room.

Instances: `RoomsMC`.

### MatchSession: queue, worker, rooms and play together

The composition for one instance whose connection stays up. Matches are numbered;
`matches` remembers each with its stored players and its outcome. The actions are
those of the three modules above with the state they share made one: `TakeSecond`
makes a match, `StoreKey` stores its keys and, with the last, looks the sockets up and
joins the first; `FirstJoined` joins the second, `SecondJoined` tells both
(`notifyMatchFound`, gateway 650-793), or neither when one of their entries has no userId
(`Announceable`, 660-682): such a pair is in the room of its match, may play there, and is
never told (outcome untold). `Nameless` are the sockets that may queue without a userId.
Room names and match ids are sent by clients that know them (`Knows`: from `match:found` or
`match:stateUpdate`). A socket may have `MaxPending` events under way at once. `Submit` sends an answer without a match id, for
which `FindMatchRoom` takes any match room of the socket (350-373); `SubmitTo` sends one
with it. `Broadcast` reaches the sockets that are in the match room of the adapter at that
moment, and `screen` is the last update each client got. `told` is what clients know
from `match:found`. The memory mirror is left out: it is only read when Redis rejects a
command. Each match refines `QuizMatch` by itself (`Quiz(m)`).

Instances: `MatchSessionMC`.

### Notifications: start-up, Kafka and the internal endpoint

`stage` is how far `bootstrap` has come: `StartMicroservices` (main.ts:52) has the consumer
join its group, `InitModules` and `Listen` are the two ends of what `app.listen` does first
(Nest creates the gateway's server and calls `afterInit`, then `onModuleInit` waits for
the first PING). `ReplaceAdapter` is the continuation of `afterInit` (gateway 57-95) when Redis
becomes ready, before or after the server listens. `inRoom` is the set of sockets in
their private room in the adapter *in use*; a Socket.IO socket keeps the adapter it was
made with, so those that connected before the replacement (`early`) are not in it.
`HandleEvent` is the handler of both topics; it emits once per registration of
`KafkaController` (`Handlers`: `AppModule` and `KafkaModule` both list it), and an instance
without a server throws and logs. `AutoCommit` commits what was handled, at any later
moment; `Assign` starts a new owner of the partition at the committed offset. `Notify` is
the POST with its guard. An emit (`RoomMembers`) reaches the sockets of the instance itself
and, if it has the Redis adapter, those of the others that have it.

Kafka, the group coordinator and the Redis pub/sub channel are external: offsets are
consumed in order, the channel is reliable.

Instances: `NotificationsMC`.

### MatchPlayProofs, MatchPlayUpdates, MatchPlayRefinement

Theorems about `MatchPlay`, one module per inductive invariant (below). The second
and the third extend the first.

`MatchPlayUpdates` is about what the clients of a match see.

### RoomsProofs, RoomsViews

Theorems about `Rooms`: each copy of the memberships paired in itself, and the copies
compared. The second extends the first.

### MatchmakingProofs, MatchSessionProofs, NotificationsProofs

The safety properties of `Matchmaking`, `MatchSession` and `Notifications`, from the
inductive invariants named below.

## Runs

Every property of a passing run is shown to depend on the code by a mutant: a
definition with a plausible bug, under which the same run finds the property
violated.

| Run | Instance | Shows |
|---|---|---|
| `matchplay_eager` | 2 players, 2 questions, player a with 2 submissions under way at once, 1 outage | `TypeOK`, `ScoreWithinIndex`, `QuietAgreement`, `FinishAnnounced`, `ProgressByOne`, `UpdatesInOrder` |
| `matchplay_patient` | 2 players, 2 questions, one submission each at a time, 1 outage | refinement of `QuizMatch` and the liveness property `AdvanceAnnounced` |
| `matchmaking_one` | 1 instance, 3 sockets of 2 users, one of which sends no userId, 4 joins or leaves, 1 tick at a time | `TypeOK`, `MatchesPerJoin`, `LeaversAreOut` |
| `matchmaking_outage` | 1 instance, 2 sockets, one of which sends no userId, 3 joins or leaves, 2 ticks at once, 1 outage | `MatchesPerJoin`, `LeaversAreOut` with commands repeated or lost, and the liveness property `QueueDrains` |
| `rooms_all` | 2 sockets of 2 users, their private rooms, one of which both name, and a match room, 1 outage or crash | `TypeOK`, `MirrorPaired`, `RedisPaired`, `LiveViewsAgree`, `CleanedUpAfterClose`, `PresenceAgrees`, `PresenceEnds` |
| `match_session` | 2 sockets, both of which may queue without their userId, 2 matches, 5 client events, 2 ticks at once, one player who leaves rooms and disconnects | `TypeOK`, `FoundBeforeUpdates`, `ScreensAgree`, `LeftoverKeysUntouched`, the refinement `EveryMatchIsAQuiz`, the liveness property `PairsAreTold` |
| `notifications` | 2 instances, 1 socket, 2 events, 2 POSTs, 1 crash, 1 rebalance | `TypeOK`, `SettledIsReceived`, `NewsInOrder`, `OnlyEarlyUnreachable`, `EventsAreCommitted` |

Runs expected to find a violation, each a disagreement between the code and what
a document, comment or test says (quoted in `PROJECT.json`):

| Run | Property | What happens |
|---|---|---|
| `score_drops` | `ScoreNeverDrops` | two overlapping submissions read the same status; the one that is wrong stores last and takes the point of the other back |
| `two_workers` | `AbandonedOnlyIfGone` | the worker looks for sockets of the other instance among its own and drops the pair |
| `missing_sockets` | `TakenIsTold` | one socket closed: the other player is out of the queue and never told |
| `rematch` | `NoAnswerToOldMatch` | in a second match of two sockets an answer without a match id is stored in the first, whose room they are still in |
| `notified_twice` | `NotifiedOnce` | `KafkaController` is registered twice and both registrations emit |

Other disagreements, which the models contain and no run is spent on: a client can leave its
private room by name (USER_GUIDE.md:352 says it cannot) and join another user's, and
`isUserOnline` answers by who is in that room: the first makes a connected user offline, the
second an absent one online (`PresenceAgrees` says who is in it); a pair with an absent userId
is taken from the queue, joined to its match and never told (USER_GUIDE.md:424 has both
receive `match:found`; `FoundBeforeUpdates` and `PairsAreTold` except it);
`isMatchComplete` is sent when one player is done (USER_GUIDE.md:550-553 ends the game on
it; `FinishAnnounced` says what holds); an entry pushed without a userId is not the string
that leaving or disconnecting removes (`LeaversAreOut` excepts it); events handled before
the gateway has a server are lost, and sockets that connect before the adapter is
replaced are out of every room (`SettledIsReceived` and `OnlyEarlyUnreachable` except
exactly these).

What the code does not repair, the properties except, and say so with a history variable:
handlers with a rejected command (`gaveUp`, of `QuietAgreement`, `FinishAnnounced`,
`AdvanceAnnounced`), commands and processes lost (`lost`, of the properties about rooms and of
`LeaversAreOut`), matches refused (`Refused`), events handled too early (`missed`). These
hazards have no property in `PROJECT.json`: their going wrong is in the models, not ruled out.

### Bounds, and why they are enough

* Two questions are the fewest with a question that is neither first nor last to
  come; overtaking needs two submissions of one player and a second player to
  confuse them with. The proofs remove these bounds for the properties they cover.
* Three sockets, two of one user: enough for a pair, a bystander and a self-match.
  Four queue events let two players queue, one leave and one queue again.
  `NumKeys` is 2 or 1 instead of 8: the stores of a tick only differ in how long
  they leave room for other commands, and two already separate the first from the last.
* `MaxTicks`: how many ticks of an instance may be under way. The cron job fires every two
  seconds whatever came of the last tick, most of all while the connection is silent, and two
  ticks that overlap read the same pair and make two matches of it. `matchmaking_outage` and
  `match_session` have two; `matchmaking_one`, which has a third socket, has one.
* `MaxPending = 1`: a client waits for the effect of a room or queue event before the
  next, except in `matchplay_eager`. Two connections of one user still overlap, and a
  disconnect may come at any time. This is a real restriction: a client may send faster than
  that, and Nest does not wait. The theorems do not have it, but for the two that state it
  (`OneAtATime`).
* One outage gives one repetition, one rejection or one crash, at every point of every
  handler. A second one during the recovery from the first is left to the proofs, which
  do not bound outages.
* `match_session`: a second match needs two joins each, which leaves one event to answer
  with in the second, or more in the first: `MaxEvents = 5`, a disconnect
  included. One question is enough to
  answer too often. Answers are worth a point (`Points`); `MatchPlay` has wrong ones.
  `rematch` has the same bounds without restless or nameless clients.
* `notifications`: two events are needed for an order, one socket on the first instance for
  emits from its own and from another instance. One crash and one rebalance hit every
  pair of steps between handling, commit and take-over. `notified_twice` needs neither.
* `rooms_all`, `match_session`, `rematch`, `notifications` and `notified_twice` allow the system
  to stop (`CHECK_DEADLOCK FALSE`): when all sockets have closed, or the bounds on events
  are used up, and the handlers are through, nothing is left to do.

### Fairness

`WF(Serve)`: Redis answers a connection that is up. `WF(Settle)`: ioredis's
`retryStrategy` never stops retrying and `maxRetriesPerRequest` bounds the wait, so
silence ends. `WF(Tick)`: the cron job keeps firing. Nothing is assumed of clients.
`match_session` needs only `WF(Serve)`. `notifications` assumes that a dead process is restarted
as far as its consumer, that the coordinator gives a partition without owner to a running
member, and that the consumer handles and commits what there is (`autoCommit`); nothing
makes `Listen` or `ReplaceAdapter` happen, and crashes and rebalances are bounded: with
unboundedly many, each before the next commit, no event is ever committed.
The liveness properties are `AdvanceAnnounced`, `QueueDrains`, `PresenceEnds`, `PairsAreTold` and
`EventsAreCommitted`.

## Proofs

Every safety invariant and every action property of the passing runs, the two refinements
included, is also a theorem, three of them under a hypothesis stated with them; TLC checks it on the
instances above, the proof holds for every value of the constants. The constants satisfy what the modules assume of them: users and
homes are functions of the sockets, the players of `MatchPlay` are two sockets, there is at
least one question and one key, private, match and open rooms are different rooms, counts
and bounds are numbers. No proof bounds the outages, events, ticks or matches.

| Theorem | Module | Statement |
|---|---|---|
| `TypeCorrect` | `MatchPlayProofs` | `Spec => []TypeOK` |
| `ScoresStayWithin` | `MatchPlayProofs` | `Spec => []ScoreWithinIndex` |
| `IndexProgresses` | `MatchPlayProofs` | `Spec => ProgressByOne` |
| `UpdatesStayInOrder` | `MatchPlayUpdates` | `Spec => UpdatesInOrder` |
| `QuietAgrees` | `MatchPlayUpdates` | `Spec => []QuietAgreement` |
| `FinishIsAnnounced` | `MatchPlayUpdates` | `Spec => []FinishAnnounced` |
| `ImplementsQuiz` | `MatchPlayRefinement` | `OneAtATime => (Spec => ImplementsQuizMatch)` |
| `TypeCorrect` | `MatchmakingProofs` | `Spec => []TypeOK` |
| `LeaversStayOut` | `MatchmakingProofs` | `Spec => []LeaversAreOut`, if `OwnPayload` |
| `JoinIsForFewMatches` | `MatchmakingProofs` | `Spec => []MatchesPerJoin` |
| `TypeCorrect` | `RoomsProofs` | `Spec => []TypeOK` |
| `MirrorStaysPaired` | `RoomsProofs` | `Spec => []MirrorPaired` |
| `RedisStaysPaired` | `RoomsProofs` | `Spec => []RedisPaired` |
| `ClosedLeavesNothing` | `RoomsViews` | `Spec => []CleanedUpAfterClose` |
| `LiveViewsMeet` | `RoomsViews` | `Spec => []LiveViewsAgree` |
| `PresenceIsTracked` | `RoomsViews` | `Spec => []PresenceAgrees` |
| `TypeCorrect` | `MatchSessionProofs` | `Spec => []TypeOK` |
| `FoundFirst` | `MatchSessionProofs` | `Spec => []FoundBeforeUpdates` |
| `LeftoversUntouched` | `MatchSessionProofs` | `Spec => []LeftoverKeysUntouched` |
| `ScreensMeet` | `MatchSessionProofs` | `Spec => []ScreensAgree` |
| `MatchesAreQuizzes` | `MatchSessionProofs` | `OneAtATime => (Spec => EveryMatchIsAQuiz)` |
| `TypeCorrect` | `NotificationsProofs` | `Spec => []TypeOK` |
| `SettledStaysReceived` | `NotificationsProofs` | `Spec => []SettledIsReceived` |
| `NewsStaysInOrder` | `NotificationsProofs` | `Spec => []NewsInOrder` |
| `OnlyEarlyStayUnreachable` | `NotificationsProofs` | `Spec => []OnlyEarlyUnreachable` |

Their hypotheses, each satisfied by the passing run that checks the property:

* `OneAtATime` (`MatchPlay`): no socket has two submissions under way. With two, `score_drops`
  takes a point back, which no atomic quiz does. `OneAtATime` (`MatchSession`) is the same of
  the events of a socket: `MaxPending` is at most one.
* `OwnPayload`: a client puts its own userId or none into `matchmaking:join`. The handler does
  not compare it with the session, and an entry with another user's id is not the one
  that leaving or disconnecting removes.

### The inductive invariants

MatchPlay:

* `BoundsInv` (types, bounds). `ScoreWithinIndex` speaks of the stored and shown standings,
  but a store writes what its handler computed from an earlier read; so the bounds must
  hold of every standing a handler carries, and a handler past the check of the socket
  ids must belong to a player.
* `OrderInv` (overlapping submissions, until a reconnect repeats stores). A handler
  between its read and its store will write the current index or the next (`InStep`).
  That alone is not inductive: two handlers of one player could store in the wrong order.
  They cannot, because every command takes exactly one round of the FIFO pipeline: of
  two handlers, the one ahead stores first unless it is a stage behind, and who stores
  first has read no later index (`StoresInOrder`). From this, an executed store moves the
  index by zero or one.
* `ShownInv` (broadcasts). What the handlers waiting for player B's status remember of
  player A lies between what was last shown and what is stored, in the order they will
  broadcast.
* `AnnounceInv` (the last broadcast). While no store is waiting, the last handler about to
  read player A's status holds the value its player's key has; with none of those either,
  the last one about to read player B's remembers both statuses right; with none at all,
  the last update is what Redis holds and judged completion by one of the two players.
  `QuietAgreement` is its last case. A handler rejected after its store announces nothing,
  hence `gaveUp` in both properties.
* `PatientInv` (one submission at a time). No two handlers belong to one socket, so what a
  handler holds is the stored status or one answer ahead of it; a store is an
  `Answer` of `QuizMatch`, or rewrites the same value when it is run a second time.

Rooms:

* `TypeInv` adds to the types that a join or leave is of one room. `MirrorPaired` is inductive
  by itself.
* `RedisInv`. The MULTI that ends a clean-up removes the socket from the rooms read before,
  but deletes its key whatever that holds: `RedisPaired` needs that the rooms read are all
  there are (`ToldAll`). They are, because a socket closes before its clean-up begins and
  whatever joins it is ahead of the read of its rooms (`Quiet`); only the worker's join of it
  as second player can be issued after it closed, and that one too is ahead.
* `LeftInv`: while no command was lost, a closed socket is being cleaned up, or its keys and its
  mirror are empty and no command under way would fill them again.
* `ViewInv`: for an open socket and a room, the last command under way agrees with the adapter,
  which every handler changes before it issues; with none, the views agree.
* `PresenceInv`: an open socket is tracked and a closed one is not, and the private rooms of a
  socket in the adapter, its own or another user's, are those it last asked to be in.
  `PresenceAgrees` follows with `ViewInv` and, for closed sockets, `LeftInv`.

Matchmaking:

* `OwnInv`, `LeaverInv`: a client's commands are all on the connection of its instance, and of
  those under way for a client that left the last is the removal of its entry; with none
  under way the entry is gone. Commands that run unanswered and again keep that order.
* `TickBound`, `PushInv`: at most `Holders` ticks are under way, `MaxTicks` per instance. Every
  execution of an `LPUSH` is good for a match by each of them while the entry is in the list
  (a tick that has removed it as its first entry already counts as a match), and once no
  copy is left only for the ticks that read it before. Without the second part the
  invariant is not inductive: a tick makes its match whether or not its removals removed
  anything. The removal by a leaving client takes copies away and leaves the sum below.
* `HomeInv`, `JoinInv`: a join has its `LPUSH` executed once, and once more for each lost
  connection over which it was still unanswered: of the pushes that wait, those that ran
  since the silence began are counted already.

MatchSession:

* `SessionInv`: types, and what each waiting command says of the matches. A tick past its removals
  owns a match that is pending and of its pair (no two ticks own one); an answer that knows
  its match is behind the last join of that match, or the match is ready: its players are in
  the room, and told or refused (`Ready`). A socket's key holds only matches entered in this
  sense (`Entered`), and clients are shown only ready ones, of theirs. Ticks on their way leave
  room for the matches they may make (`BoundInv`), which is what bounds the number of matches.
* `PlayInv`: statuses change only for ready matches, and the players of those that were not
  refused are told. With `SessionInv` it gives `FoundBeforeUpdates` and `LeftoverKeysUntouched`.
* `RoomInv`, `ViewsInv`: both players are in the adapter's room from the moment the match is
  ready, unless they closed or left. Of the broadcasts on their way, the last shows player A's
  latest status, or one that will read it again is still to come; a screen that is behind
  has a broadcast coming. A broadcast emits player B's status as it is read.
* `QuizInv`: with one event of a socket at a time, an answer between its read and its store holds
  what is stored for its player in its match, or one answer more. The store is then an
  `Answer` of that match's quiz, also if the match was the wrong one of two, and the key
  initialised by the worker was not played before.

Notifications:

* `Inv`. `SettledIsReceived` speaks of committed events, but the position
  falls back to the committed offset at any time, so receipt must hold up to the position
  of whichever owner (`HandledReceived`), and the commit stay behind it. A new event must
  not have been received before (`ReceivedProduced`), or it would be out of order. That an
  emit gets to every socket a message is due to needs that none of them is on an instance
  without the Redis adapter (`AdmittedLate`, `DueReachable`): nobody is admitted before Redis
  is ready, and replacing the adapter only loses sockets that are not admitted yet.

Each invariant is shown to hold initially and to be preserved by every action, with
lemmas stating what joining, rotating and leaving the pipeline does to it, and for the list
what removing one or all copies of an entry leaves.

Only model-checked: the liveness properties `AdvanceAnnounced`, `QueueDrains`, `PresenceEnds`,
`PairsAreTold` and `EventsAreCommitted`, since TLAPS does not prove liveness under fairness.
The violations are counterexamples of TLC.

## Not modelled

* Session codes: a library cipher and one comparison of clocks, of which a model would only
  restate the comparison; `Rooms` has the outcome (`Connect`, `Refuse`).
* Shutdown: `onModuleDestroy` quits the Redis client; nothing enables Nest's shutdown hooks,
  so a stopped process is a `Crash`.
* Rooms over several instances: the room operations of an instance concern its own
  sockets; instances meet in the queue (`Matchmaking`) and in emits (`Notifications`).
* A lost Redis connection in `MatchSession` (the modules it composes have it), and in
  `Notifications` after start-up: the adapter's pub/sub is taken as reliable.
* Malformed payloads and matches whose keys are missing: the handler returns before it
  changes anything. The timer of an answer is stored and shown with the status and
  read by nothing.
* `broadcastToRoom` emits and keeps no state.
* Content, health and logging have no state.
* The contents of the match keys in `Matchmaking`, and matchmaking itself in `Rooms`
  (`MatchPair` is its effect); `MatchSession` has both.

## Plan

Done, in this order: `QuizMatch`, `MatchPlay`, `Matchmaking`, `Rooms`, the proofs about
`MatchPlay`, `MatchSession`, `Notifications` and the proofs about it, then the proofs about
`Rooms`, `Matchmaking` and `MatchSession`.

Next:

1. `MatchPlay`: what holds after a reconnect repeated stores. `UpdatesInOrder` and
   `ProgressByOne` except it altogether, which is more than they have to.
2. `MatchSession` with a connection that is lost.
