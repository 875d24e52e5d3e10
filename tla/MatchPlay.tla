----------------------------- MODULE MatchPlay -----------------------------
(***************************************************************************)
(* One quiz match while it is played: the match:submitAnswer handler of    *)
(* the gateway (src/src/realtime/gateway/realtime.gateway.ts, 319-623).    *)
(*                                                                         *)
(* The handler is a chain of awaited Redis commands, and the gateway runs  *)
(* any number of them concurrently, also for one socket.  They share one   *)
(* ioredis connection, so Redis executes their commands in the order the   *)
(* handlers issued them and the replies come back in that order.  `pipe'   *)
(* is that connection: one record per handler under way, holding the       *)
(* command it awaits and the locals the code keeps across the await.       *)
(* Serving the head is "Redis executes the command, the handler runs to    *)
(* its next await", which issues the next command behind all others.       *)
(*                                                                         *)
(* The connection may fall silent: Redis then still executes some of the   *)
(* commands already sent (`ran' of them) while their replies are lost.     *)
(* Afterwards ioredis either reconnects and sends every unanswered command *)
(* again, or runs out of maxRetriesPerRequest and rejects them all.        *)
(***************************************************************************)
EXTENDS Naturals, Sequences, FiniteSets

CONSTANTS
    Sockets,        \* sockets that submit answers to this match
    SocketA,        \* the socket stored as <match>:playerASocketId
    SocketB,        \* the socket stored as <match>:playerBSocketId
    NumQuestions,   \* questions of the match (content.service.ts has 5)
    Window,         \* submissions a socket may have under way at once
    MaxOutages      \* bound: how often the Redis connection falls silent

Players == {SocketA, SocketB}

ASSUME PlayersAssumption == Players \subseteq Sockets /\ SocketA # SocketB
ASSUME NumQuestionsAssumption == NumQuestions \in Nat \ {0}
ASSUME WindowAssumption == Window \in [Sockets -> Nat]
ASSUME MaxOutagesAssumption == MaxOutages \in Nat

VARIABLES
    status,   \* the keys <match>:playerAStatus and <match>:playerBStatus
    pipe,     \* handlers under way, in the order of their outstanding commands
    update,   \* the last match:stateUpdate broadcast to the match room
    link,     \* "up", "silent" or "rejecting"
    ran,      \* silent: commands run without an answer; rejecting: left to reject
    outages,  \* times the connection fell silent so far
    resent,   \* history: unanswered commands have been sent again
    gaveUp    \* history: unanswered commands have been rejected

vars == <<status, pipe, update, link, ran, outages, resent, gaveUp>>
linkVars == <<link, ran, outages, resent, gaveUp>>

-----------------------------------------------------------------------------
(* Data                                                                    *)

Standing == [score : Nat, activeQuestionIndex : Nat]
initialPlayerStatus == [score |-> 0, activeQuestionIndex |-> 0]

\* The awaited command of a submission, in the order the handler issues them.
Stages == {"rooms", "playerA", "playerB", "status", "answers", "questions",
           "store", "statusA", "statusB"}

\* mine is playerStatus (read at "status", rewritten before "store"); seen is
\* playerAStatus once it is read.
Submission == [socket : Sockets, stage : Stages, mine : Standing, seen : Standing]

Update == [shown : [Players -> Standing], isMatchComplete : BOOLEAN]

UnderWay(s) == {i \in 1..Len(pipe) : pipe[i].socket = s}

-----------------------------------------------------------------------------
Init ==
    /\ status = [p \in Players |-> initialPlayerStatus]
    /\ pipe = <<>>
    /\ update = [shown |-> [p \in Players |-> initialPlayerStatus],
                 isMatchComplete |-> FALSE]
    /\ link = "up" /\ ran = 0 /\ outages = 0
    /\ resent = FALSE /\ gaveUp = FALSE

\* A client submits an answer: without matchId the handler first looks up the
\* socket's rooms, with one it goes straight to the player ids.
Submit(s) ==
    /\ link # "rejecting"
    /\ Cardinality(UnderWay(s)) < Window[s]
    /\ \E first \in {"rooms", "playerA"} :
          pipe' = Append(pipe, [socket |-> s, stage |-> first,
                                mine |-> initialPlayerStatus,
                                seen |-> initialPlayerStatus])
    /\ UNCHANGED <<status, update, linkVars>>

-----------------------------------------------------------------------------
(* The handler, one action per awaited command                             *)

Reply(stage) ==
    /\ link = "up"
    /\ pipe # <<>>
    /\ Head(pipe).stage = stage
    /\ UNCHANGED linkVars

Goto(stage)   == pipe' = Append(Tail(pipe), [Head(pipe) EXCEPT !.stage = stage])
Finish        == pipe' = Tail(pipe)

\* getSocketRooms: go on if the socket is in a match room, else return.
ReadRooms ==
    /\ Reply("rooms")
    /\ Goto("playerA") \/ Finish
    /\ UNCHANGED <<status, update>>

ReadPlayerA ==
    /\ Reply("playerA")
    /\ Goto("playerB")
    /\ UNCHANGED <<status, update>>

\* Only the two players of the match get past this point.
ReadPlayerB ==
    /\ Reply("playerB")
    /\ IF Head(pipe).socket \in Players THEN Goto("status") ELSE Finish
    /\ UNCHANGED <<status, update>>

\* Mutant of ReadStatus: the key of player A is read for both players.
ReadStatusOfA ==
    /\ Reply("status")
    /\ pipe' = Append(Tail(pipe), [Head(pipe) EXCEPT
                   !.stage = "answers", !.mine = status[SocketA]])
    /\ UNCHANGED <<status, update>>

ReadStatus ==
    /\ Reply("status")
    /\ pipe' = Append(Tail(pipe), [Head(pipe) EXCEPT
                   !.stage = "answers", !.mine = status[Head(pipe).socket]])
    /\ UNCHANGED <<status, update>>

ReadAnswers ==
    /\ Reply("answers")
    /\ Goto("questions")
    /\ UNCHANGED <<status, update>>

\* Mutant of Scored: a wrong answer costs a point.
ScoredPenalty(playerStatus, point) ==
    [score |-> playerStatus.score + point - (1 - point),
     activeQuestionIndex |-> playerStatus.activeQuestionIndex + 1]

\* playerStatus after an answer worth point (0 or 1).
Scored(playerStatus, point) ==
    [score |-> playerStatus.score + point,
     activeQuestionIndex |-> playerStatus.activeQuestionIndex + 1]

\* Mutant of ReadQuestions: the bounds check of lines 478-491 is missing.
ReadQuestionsUnchecked ==
    /\ Reply("questions")
    /\ \E point \in {0, 1} :
          pipe' = Append(Tail(pipe), [Head(pipe) EXCEPT
              !.stage = "store", !.mine = Scored(Head(pipe).mine, point)])
    /\ UNCHANGED <<status, update>>

\* The active question is looked up in the snapshot read earlier, not in Redis.
ReadQuestions ==
    /\ Reply("questions")
    /\ LET call == Head(pipe) IN
          \/ /\ call.mine.activeQuestionIndex >= NumQuestions
             /\ Finish
          \/ /\ call.mine.activeQuestionIndex < NumQuestions
             /\ \E point \in {0, 1} :
                   pipe' = Append(Tail(pipe), [call EXCEPT
                       !.stage = "store", !.mine = Scored(call.mine, point)])
    /\ UNCHANGED <<status, update>>

StoreStatus ==
    /\ Reply("store")
    /\ status' = [status EXCEPT ![Head(pipe).socket] = Head(pipe).mine]
    /\ Goto("statusA")
    /\ UNCHANGED update

ReadStatusA ==
    /\ Reply("statusA")
    /\ pipe' = Append(Tail(pipe), [Head(pipe) EXCEPT
                   !.stage = "statusB", !.seen = status[SocketA]])
    /\ UNCHANGED <<status, update>>

\* Mutant of Broadcast: only the submitter's status is at hand, and the `|| 0'
\* defaults of lines 569-578 fill in the other player's.
BroadcastOwnOnly ==
    /\ Reply("statusB")
    /\ update' = [shown |-> [p \in Players |-> IF p = Head(pipe).socket
                                 THEN Head(pipe).mine ELSE initialPlayerStatus],
                  isMatchComplete |->
                      Head(pipe).mine.activeQuestionIndex >= NumQuestions]
    /\ Finish
    /\ UNCHANGED status

\* Mutant of Broadcast: > for >= in line 579.
BroadcastStrict ==
    /\ Reply("statusB")
    /\ update' = [shown |-> [p \in Players |-> IF p = SocketA THEN Head(pipe).seen
                                                              ELSE status[SocketB]],
                  isMatchComplete |->
                      Head(pipe).mine.activeQuestionIndex > NumQuestions]
    /\ Finish
    /\ UNCHANGED status

\* Both statuses are at hand: broadcast them to the match room.
Broadcast ==
    /\ Reply("statusB")
    /\ update' = [shown |-> [p \in Players |-> IF p = SocketA THEN Head(pipe).seen
                                                              ELSE status[SocketB]],
                  isMatchComplete |->
                      Head(pipe).mine.activeQuestionIndex >= NumQuestions]
    /\ Finish
    /\ UNCHANGED status

-----------------------------------------------------------------------------
(* The ioredis connection                                                  *)

FallSilent ==
    /\ link = "up" /\ outages < MaxOutages
    /\ link' = "silent" /\ outages' = outages + 1
    /\ UNCHANGED <<status, pipe, update, ran, resent, gaveUp>>

\* Redis runs one more command whose reply will not arrive.
RunUnanswered ==
    /\ link = "silent" /\ ran < Len(pipe)
    /\ LET call == pipe[ran + 1] IN
          status' = IF call.stage = "store"
                    THEN [status EXCEPT ![call.socket] = call.mine]
                    ELSE status
    /\ ran' = ran + 1
    /\ UNCHANGED <<pipe, update, link, outages, resent, gaveUp>>

\* Mutant of Reconnect: unanswered commands are neither sent again nor rejected.
ReconnectDropping ==
    /\ link = "silent"
    /\ link' = "up" /\ ran' = 0 /\ resent' = TRUE /\ pipe' = <<>>
    /\ UNCHANGED <<status, update, outages, gaveUp>>

\* autoResendUnfulfilledCommands: every unanswered command is sent again.
Reconnect ==
    /\ link = "silent"
    /\ link' = "up" /\ ran' = 0 /\ resent' = TRUE
    /\ UNCHANGED <<status, pipe, update, outages, gaveUp>>

\* maxRetriesPerRequest is exceeded: every unanswered command is rejected.
GiveUp ==
    /\ link = "silent"
    /\ link' = "rejecting" /\ ran' = Len(pipe) /\ gaveUp' = TRUE
    /\ UNCHANGED <<status, pipe, update, outages, resent>>

\* A rejected command ends its handler in the catch block; only getSocketRooms
\* catches the error itself and answers from the memory mirror.
Reject ==
    /\ link = "rejecting" /\ ran > 0
    /\ \/ Finish
       \/ Head(pipe).stage = "rooms" /\ Goto("playerA")
    /\ ran' = ran - 1
    /\ UNCHANGED <<status, update, link, outages, resent, gaveUp>>

Recover ==
    /\ link = "rejecting" /\ ran = 0
    /\ link' = "up"
    /\ UNCHANGED <<status, pipe, update, ran, outages, resent, gaveUp>>

-----------------------------------------------------------------------------
Serve == \/ ReadRooms \/ ReadPlayerA \/ ReadPlayerB \/ ReadStatus \/ ReadAnswers
         \/ ReadQuestions \/ StoreStatus \/ ReadStatusA \/ Broadcast

Settle == Reconnect \/ GiveUp \/ Reject \/ Recover

Next == \/ \E s \in Sockets : Submit(s)
        \/ Serve
        \/ FallSilent \/ RunUnanswered
        \/ Settle

Spec == Init /\ [][Next]_vars

\* Redis answers a connection that is up; ioredis retries or gives up.
Fairness == WF_vars(Serve) /\ WF_vars(Settle)
FairSpec == Spec /\ Fairness
-----------------------------------------------------------------------------
(* Properties                                                              *)

\* Every key, handler record and broadcast has the shape the code gives it.
TypeOK ==
    /\ status \in [Players -> Standing]
    /\ pipe \in Seq(Submission)
    /\ update \in Update
    /\ link \in {"up", "silent", "rejecting"}
    /\ ran \in 0..Len(pipe)
    /\ outages \in 0..MaxOutages
    /\ resent \in BOOLEAN /\ gaveUp \in BOOLEAN

\* However submissions, replays and rejections interleave, nobody collects more
\* points than questions answered nor answers more questions than there are:
\* neither in Redis nor in any broadcast (the bound is only checked against a
\* snapshot read two awaits before the store).
WithinMatch(standing) ==
    /\ standing.score <= standing.activeQuestionIndex
    /\ standing.activeQuestionIndex <= NumQuestions
ScoreWithinIndex ==
    \A p \in Players : WithinMatch(status[p]) /\ WithinMatch(update.shown[p])

\* Concurrent submissions of one player may overwrite each other, but on one
\* connection the stored question index never goes back and never skips a
\* question (until a reconnect sends unanswered stores a second time).
ProgressByOne ==
    [][~resent => \A p \in Players :
          status'[p].activeQuestionIndex - status[p].activeQuestionIndex \in {0, 1}]_vars

\* The clients of a match never see a player's question index go back, whichever
\* handler's broadcast comes last.
UpdatesInOrder ==
    [][~resent => \A p \in Players :
          update.shown[p].activeQuestionIndex <= update'.shown[p].activeQuestionIndex]_vars

\* Once no submission is under way, what the clients were last shown is what
\* Redis holds, unless a rejected command lost a broadcast.
QuietAgreement ==
    pipe = <<>> /\ ~gaveUp => update.shown = status

\* When both players have answered everything and nothing is under way, the last
\* broadcast says that the match is complete.
FinishAnnounced ==
    /\ pipe = <<>> /\ ~gaveUp
    /\ \A p \in Players : status[p].activeQuestionIndex = NumQuestions
    => update.isMatchComplete

\* Every stored advance is eventually shown to the clients, unless a rejected
\* command ended the handler between its store and its broadcast.
AdvanceAnnounced ==
    \A p \in Players : \A k \in 1..NumQuestions :
        status[p].activeQuestionIndex >= k
            ~> update.shown[p].activeQuestionIndex >= k \/ gaveUp

\* With one submission at a time per player the handler is atomic: the stored
\* statuses change exactly as answers of the abstract match would change them,
\* across lost connections too.
Quiz == INSTANCE QuizMatch WITH standing <- status
ImplementsQuizMatch == Quiz!QuizSpec

\* USER_GUIDE.md 508-512: a correct answer raises the player's score (and
\* nothing lowers it).
ScoreNeverDrops ==
    [][\A p \in Players : status'[p].score >= status[p].score]_vars
=============================================================================
