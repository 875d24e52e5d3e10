-------------------------- MODULE MatchPlayProofs --------------------------
(***************************************************************************)
(* Theorems about MatchPlay, for every set of sockets, every number of     *)
(* questions and every number of submissions and outages.                  *)
(***************************************************************************)
EXTENDS MatchPlay, TLAPS, SequenceTheorems

-----------------------------------------------------------------------------
(* The pipeline                                                            *)

\* A handler that goes on moves from the front of the pipeline to its end.
LEMMA PipeGoesOn ==
    ASSUME NEW S, NEW q \in Seq(S), q # <<>>, NEW c \in S
    PROVE  /\ Head(q) \in S /\ Head(q) = q[1] /\ Len(q) \in Nat \ {0}
           /\ Append(Tail(q), c) \in Seq(S)
           /\ Len(Append(Tail(q), c)) = Len(q)
           /\ \A i \in 1..(Len(q) - 1) : Append(Tail(q), c)[i] = q[i + 1]
           /\ Append(Tail(q), c)[Len(q)] = c
<1>1. /\ Head(q) \in S /\ Tail(q) \in Seq(S) /\ Len(q) \in Nat \ {0}
      /\ Len(Tail(q)) = Len(q) - 1
      /\ \A i \in 1..Len(Tail(q)) : Tail(q)[i] = q[i + 1]
  BY HeadTailProperties, EmptySeq, LenProperties
<1>2. Head(q) = q[1]
  OBVIOUS
<1>3. /\ Append(Tail(q), c) \in Seq(S)
      /\ Len(Append(Tail(q), c)) = Len(Tail(q)) + 1
      /\ \A i \in 1..Len(Tail(q)) : Append(Tail(q), c)[i] = Tail(q)[i]
      /\ Append(Tail(q), c)[Len(Tail(q)) + 1] = c
  BY <1>1, AppendProperties
<1> QED
  BY <1>1, <1>2, <1>3

\* A handler that ends leaves the front of the pipeline.
LEMMA PipeFinishes ==
    ASSUME NEW S, NEW q \in Seq(S), q # <<>>
    PROVE  /\ Head(q) \in S /\ Head(q) = q[1] /\ Len(q) \in Nat \ {0}
           /\ Tail(q) \in Seq(S)
           /\ Len(Tail(q)) = Len(q) - 1
           /\ \A i \in 1..(Len(q) - 1) : Tail(q)[i] = q[i + 1]
<1>1. /\ Head(q) \in S /\ Tail(q) \in Seq(S) /\ Len(q) \in Nat \ {0}
      /\ Len(Tail(q)) = Len(q) - 1
      /\ \A i \in 1..Len(Tail(q)) : Tail(q)[i] = q[i + 1]
  BY HeadTailProperties, EmptySeq, LenProperties
<1> QED
  BY <1>1

\* A new handler joins the pipeline at its end.
LEMMA PipeGrows ==
    ASSUME NEW S, NEW q \in Seq(S), NEW c \in S
    PROVE  /\ Append(q, c) \in Seq(S)
           /\ Len(q) \in Nat
           /\ Len(Append(q, c)) = Len(q) + 1
           /\ \A i \in 1..Len(q) : Append(q, c)[i] = q[i]
           /\ Append(q, c)[Len(q) + 1] = c
  BY AppendProperties, LenProperties

-----------------------------------------------------------------------------
(* The inductive invariant: types and bounds                               *)

\* Standings that stay within the match.
Bounded == {standing \in Standing : WithinMatch(standing)}

\* Stages only a player of the match reaches.
PlayerStages == {"status", "answers", "questions", "store", "statusA", "statusB"}

\* Handlers that hold bounded standings, and belong to a player once they are
\* past the check of the socket ids.
Sound == {c \in Submission : /\ c.stage \in PlayerStages => c.socket \in Players
                             /\ c.mine \in Bounded
                             /\ c.seen \in Bounded}

\* TypeOK and ScoreWithinIndex are not inductive: a store writes what its handler
\* computed from an earlier read, so the bounds must hold of every standing a
\* handler carries; and while the connection is up no command has run
\* unanswered, or a handler that ends could leave `ran' beyond the pipeline.
BoundsInv ==
    /\ status \in [Players -> Bounded]
    /\ pipe \in Seq(Sound)
    /\ update \in [shown : [Players -> Bounded], isMatchComplete : BOOLEAN]
    /\ link \in {"up", "silent", "rejecting"}
    /\ ran \in 0..Len(pipe)
    /\ link = "up" => ran = 0
    /\ outages \in 0..MaxOutages
    /\ resent \in BOOLEAN /\ gaveUp \in BOOLEAN

LEMMA InitialStatusBounded == initialPlayerStatus \in Bounded
  BY NumQuestionsAssumption DEF initialPlayerStatus, Bounded, Standing, WithinMatch

LEMMA BoundsInit == Init => BoundsInv
<1> SUFFICES ASSUME Init PROVE BoundsInv
  OBVIOUS
<1>1. status \in [Players -> Bounded]
  BY InitialStatusBounded DEF Init
<1>2. pipe \in Seq(Sound) /\ Len(pipe) = 0
  BY EmptySeq DEF Init
<1>3. update \in [shown : [Players -> Bounded], isMatchComplete : BOOLEAN]
  BY InitialStatusBounded DEF Init
<1>4. ran \in 0..Len(pipe) /\ outages \in 0..MaxOutages
  BY <1>2, MaxOutagesAssumption DEF Init
<1> QED
  BY <1>1, <1>2, <1>3, <1>4 DEF Init, BoundsInv

\* The records a handler leaves behind when it goes on.
LEMMA SoundUpdates ==
    ASSUME NEW call \in Sound, NEW stage \in Stages, NEW standing \in Bounded,
           stage \in PlayerStages => call.socket \in Players
    PROVE  /\ [call EXCEPT !.stage = stage] \in Sound
           /\ [call EXCEPT !.stage = stage, !.mine = standing] \in Sound
           /\ [call EXCEPT !.stage = stage, !.seen = standing] \in Sound
  BY DEF Sound, Submission, Bounded

LEMMA ScoredBounded ==
    ASSUME NEW standing \in Bounded, NEW point \in {0, 1},
           standing.activeQuestionIndex < NumQuestions
    PROVE  Scored(standing, point) \in Bounded
  BY NumQuestionsAssumption DEF Scored, Bounded, Standing, WithinMatch

\* What a reply does to the pipeline: the handler at the front goes on or ends.
LEMMA PipeSteps ==
    ASSUME BoundsInv, pipe # <<>>
    PROVE  /\ Head(pipe) \in Sound /\ Len(pipe) \in Nat \ {0}
           /\ \A c \in Sound : /\ Append(Tail(pipe), c) \in Seq(Sound)
                                /\ Len(Append(Tail(pipe), c)) = Len(pipe)
           /\ Tail(pipe) \in Seq(Sound) /\ Len(Tail(pipe)) = Len(pipe) - 1
  BY PipeGoesOn, PipeFinishes DEF BoundsInv

LEMMA GotoSound ==
    ASSUME BoundsInv, pipe # <<>>, NEW stage \in Stages,
           stage \in PlayerStages => Head(pipe).socket \in Players, Goto(stage)
    PROVE  pipe' \in Seq(Sound) /\ Len(pipe') = Len(pipe)
<1>1. [Head(pipe) EXCEPT !.stage = stage] \in Sound
  BY PipeSteps, SoundUpdates, InitialStatusBounded
<1> QED
  BY <1>1, PipeSteps DEF Goto

LEMMA FinishSound ==
    ASSUME BoundsInv, pipe # <<>>, Finish
    PROVE  pipe' \in Seq(Sound) /\ Len(pipe') = Len(pipe) - 1
  BY PipeSteps DEF Finish

LEMMA PlayerAtFront ==
    ASSUME BoundsInv, pipe # <<>>, Head(pipe).stage \in PlayerStages
    PROVE  Head(pipe).socket \in Players
  BY PipeSteps DEF Sound

\* A reply whose handler stores and broadcasts bounded standings.
LEMMA ReplyBounds ==
    ASSUME BoundsInv, NEW stage, Reply(stage),
           pipe' \in Seq(Sound), Len(pipe') \in Nat,
           status' \in [Players -> Bounded],
           update' \in [shown : [Players -> Bounded], isMatchComplete : BOOLEAN]
    PROVE  BoundsInv'
  BY DEF Reply, linkVars, BoundsInv

LEMMA BoundsStep == BoundsInv /\ [Next]_vars => BoundsInv'
<1> SUFFICES ASSUME BoundsInv, [Next]_vars PROVE BoundsInv'
  OBVIOUS
<1>1. ASSUME NEW s \in Sockets, Submit(s) PROVE BoundsInv'
  <2>1. PICK first \in {"rooms", "playerA"} :
            pipe' = Append(pipe, [socket |-> s, stage |-> first,
                                  mine |-> initialPlayerStatus,
                                  seen |-> initialPlayerStatus])
    BY <1>1 DEF Submit
  <2>2. [socket |-> s, stage |-> first, mine |-> initialPlayerStatus,
         seen |-> initialPlayerStatus] \in Sound
    BY InitialStatusBounded DEF Sound, Submission, Stages, PlayerStages, Bounded
  <2>3. pipe' \in Seq(Sound) /\ Len(pipe') = Len(pipe) + 1 /\ Len(pipe) \in Nat
    BY <2>1, <2>2, PipeGrows DEF BoundsInv
  <2>4. ran' \in 0..Len(pipe')
    BY <1>1, <2>3 DEF Submit, linkVars, BoundsInv
  <2> QED
    BY <1>1, <2>3, <2>4 DEF Submit, linkVars, BoundsInv
<1>2. CASE ReadRooms
  <2>1. Reply("rooms") /\ pipe # <<>> /\ Head(pipe).stage = "rooms"
    BY <1>2 DEF ReadRooms, Reply
  <2>2. pipe' \in Seq(Sound) /\ Len(pipe') \in Nat
    <3>1. CASE Goto("playerA")
      BY <2>1, <3>1, PipeSteps, GotoSound DEF Stages, PlayerStages
    <3>2. CASE Finish
      BY <2>1, <3>2, PipeSteps, FinishSound
    <3> QED
      BY <1>2, <3>1, <3>2 DEF ReadRooms
  <2> QED
    BY <1>2, <2>1, <2>2, ReplyBounds DEF ReadRooms, BoundsInv
<1>3. CASE ReadPlayerA
  <2>1. Reply("playerA") /\ pipe # <<>> /\ Head(pipe).stage = "playerA"
    BY <1>3 DEF ReadPlayerA, Reply
  <2>2. pipe' \in Seq(Sound) /\ Len(pipe') \in Nat
    BY <1>3, <2>1, PipeSteps, GotoSound DEF ReadPlayerA, Stages, PlayerStages
  <2> QED
    BY <1>3, <2>1, <2>2, ReplyBounds DEF ReadPlayerA, BoundsInv
<1>4. CASE ReadPlayerB
  <2>1. Reply("playerB") /\ pipe # <<>> /\ Head(pipe).stage = "playerB"
    BY <1>4 DEF ReadPlayerB, Reply
  <2>2. pipe' \in Seq(Sound) /\ Len(pipe') \in Nat
    <3>1. CASE Head(pipe).socket \in Players /\ Goto("status")
      BY <2>1, <3>1, PipeSteps, GotoSound DEF Stages
    <3>2. CASE Finish
      BY <2>1, <3>2, PipeSteps, FinishSound
    <3> QED
      BY <1>4, <3>1, <3>2 DEF ReadPlayerB
  <2> QED
    BY <1>4, <2>1, <2>2, ReplyBounds DEF ReadPlayerB, BoundsInv
<1>5. CASE ReadStatus
  <2>1. Reply("status") /\ pipe # <<>> /\ Head(pipe).stage = "status"
    BY <1>5 DEF ReadStatus, Reply
  <2>2. Head(pipe).socket \in Players
    BY <2>1, PlayerAtFront DEF PlayerStages
  <2>3. [Head(pipe) EXCEPT !.stage = "answers", !.mine = status[Head(pipe).socket]]
            \in Sound
    BY <2>1, <2>2, PipeSteps, SoundUpdates DEF BoundsInv, Stages
  <2>4. pipe' \in Seq(Sound) /\ Len(pipe') \in Nat
    BY <1>5, <2>1, <2>3, PipeSteps DEF ReadStatus
  <2> QED
    BY <1>5, <2>1, <2>4, ReplyBounds DEF ReadStatus, BoundsInv
<1>6. CASE ReadAnswers
  <2>1. Reply("answers") /\ pipe # <<>> /\ Head(pipe).stage = "answers"
    BY <1>6 DEF ReadAnswers, Reply
  <2>2. pipe' \in Seq(Sound) /\ Len(pipe') \in Nat
    BY <1>6, <2>1, PipeSteps, GotoSound, PlayerAtFront DEF ReadAnswers, Stages, PlayerStages
  <2> QED
    BY <1>6, <2>1, <2>2, ReplyBounds DEF ReadAnswers, BoundsInv
<1>7. CASE ReadQuestions
  <2>1. Reply("questions") /\ pipe # <<>> /\ Head(pipe).stage = "questions"
    BY <1>7 DEF ReadQuestions, Reply
  <2>2. Head(pipe).socket \in Players /\ Head(pipe).mine \in Bounded
    BY <2>1, PlayerAtFront, PipeSteps DEF PlayerStages, Sound
  <2>3. CASE Finish
    BY <1>7, <2>1, <2>3, PipeSteps, FinishSound, ReplyBounds DEF ReadQuestions, BoundsInv
  <2>4. ASSUME Head(pipe).mine.activeQuestionIndex < NumQuestions,
               NEW point \in {0, 1},
               pipe' = Append(Tail(pipe), [Head(pipe) EXCEPT
                   !.stage = "store", !.mine = Scored(Head(pipe).mine, point)])
        PROVE  BoundsInv'
    <3>1. Scored(Head(pipe).mine, point) \in Bounded
      BY <2>2, <2>4, ScoredBounded
    <3>2. [Head(pipe) EXCEPT !.stage = "store", !.mine = Scored(Head(pipe).mine, point)]
              \in Sound
      BY <2>1, <2>2, <3>1, PipeSteps, SoundUpdates DEF Stages
    <3>3. pipe' \in Seq(Sound) /\ Len(pipe') \in Nat
      BY <2>1, <2>4, <3>2, PipeSteps
    <3> QED
      BY <1>7, <2>1, <3>3, ReplyBounds DEF ReadQuestions, BoundsInv
  <2> QED
    BY <1>7, <2>3, <2>4 DEF ReadQuestions
<1>8. CASE StoreStatus
  <2>1. Reply("store") /\ pipe # <<>> /\ Head(pipe).stage = "store"
    BY <1>8 DEF StoreStatus, Reply
  <2>2. Head(pipe).socket \in Players /\ Head(pipe).mine \in Bounded
    BY <2>1, PlayerAtFront, PipeSteps DEF PlayerStages, Sound
  <2>3. pipe' \in Seq(Sound) /\ Len(pipe') \in Nat
    BY <1>8, <2>1, <2>2, PipeSteps, GotoSound DEF StoreStatus, Stages
  <2>4. status' \in [Players -> Bounded]
    BY <1>8, <2>2 DEF StoreStatus, BoundsInv
  <2> QED
    BY <1>8, <2>1, <2>3, <2>4, ReplyBounds DEF StoreStatus, BoundsInv
<1>9. CASE ReadStatusA
  <2>1. Reply("statusA") /\ pipe # <<>> /\ Head(pipe).stage = "statusA"
    BY <1>9 DEF ReadStatusA, Reply
  <2>2. Head(pipe).socket \in Players /\ status[SocketA] \in Bounded
    BY <2>1, PlayerAtFront DEF PlayerStages, BoundsInv, Players
  <2>3. [Head(pipe) EXCEPT !.stage = "statusB", !.seen = status[SocketA]] \in Sound
    BY <2>1, <2>2, PipeSteps, SoundUpdates DEF Stages
  <2>4. pipe' \in Seq(Sound) /\ Len(pipe') \in Nat
    BY <1>9, <2>1, <2>3, PipeSteps DEF ReadStatusA
  <2> QED
    BY <1>9, <2>1, <2>4, ReplyBounds DEF ReadStatusA, BoundsInv
<1>10. CASE Broadcast
  <2>1. Reply("statusB") /\ pipe # <<>>
    BY <1>10 DEF Broadcast, Reply
  <2>2. Head(pipe).seen \in Bounded /\ status[SocketB] \in Bounded
    BY <2>1, PipeSteps DEF Sound, BoundsInv, Players
  <2>3. update' \in [shown : [Players -> Bounded], isMatchComplete : BOOLEAN]
    BY <1>10, <2>2 DEF Broadcast
  <2>4. pipe' \in Seq(Sound) /\ Len(pipe') \in Nat
    BY <1>10, <2>1, PipeSteps, FinishSound DEF Broadcast
  <2> QED
    BY <1>10, <2>1, <2>3, <2>4, ReplyBounds DEF Broadcast, BoundsInv
<1>11. CASE FallSilent
  BY <1>11, MaxOutagesAssumption DEF FallSilent, BoundsInv
<1>12. CASE RunUnanswered
  <2>1. Len(pipe) \in Nat /\ ran + 1 \in 1..Len(pipe)
    BY <1>12, LenProperties DEF RunUnanswered, BoundsInv
  <2>2. pipe[ran + 1] \in Sound
    BY <2>1, ElementOfSeq DEF BoundsInv
  <2>3. status' \in [Players -> Bounded]
    BY <1>12, <2>2 DEF RunUnanswered, BoundsInv, Sound, PlayerStages
  <2> QED
    BY <1>12, <2>1, <2>3 DEF RunUnanswered, BoundsInv
<1>13. CASE Reconnect
  BY <1>13, LenProperties DEF Reconnect, BoundsInv
<1>14. CASE GiveUp
  BY <1>14, LenProperties DEF GiveUp, BoundsInv
<1>15. CASE Reject
  <2>1. Len(pipe) \in Nat /\ pipe # <<>> /\ ran \in 1..Len(pipe)
    BY <1>15, LenProperties, EmptySeq DEF Reject, BoundsInv
  <2>2. pipe' \in Seq(Sound) /\ Len(pipe') \in {Len(pipe), Len(pipe) - 1}
    BY <1>15, <2>1, GotoSound, FinishSound DEF Reject, Stages, PlayerStages
  <2>3. ran' \in 0..Len(pipe')
    BY <1>15, <2>1, <2>2 DEF Reject
  <2> QED
    BY <1>15, <2>2, <2>3 DEF Reject, BoundsInv
<1>16. CASE Recover
  BY <1>16 DEF Recover, BoundsInv
<1>17. CASE UNCHANGED vars
  BY <1>17 DEF vars, BoundsInv
<1> QED
  BY <1>1, <1>2, <1>3, <1>4, <1>5, <1>6, <1>7, <1>8, <1>9, <1>10, <1>11, <1>12,
     <1>13, <1>14, <1>15, <1>16, <1>17 DEF Next, Serve, Settle

LEMMA BoundsImply == BoundsInv => TypeOK /\ ScoreWithinIndex
<1> SUFFICES ASSUME BoundsInv PROVE TypeOK /\ ScoreWithinIndex
  OBVIOUS
<1>1. pipe \in Seq(Submission)
  BY SeqMonotonic DEF BoundsInv, Sound
<1>2. status \in [Players -> Standing] /\ update \in Update
  BY DEF BoundsInv, Bounded, Update
<1>3. TypeOK
  BY <1>1, <1>2 DEF TypeOK, BoundsInv
<1>4. ScoreWithinIndex
  BY DEF ScoreWithinIndex, BoundsInv, Bounded
<1> QED
  BY <1>3, <1>4

THEOREM BoundsInvariant == Spec => []BoundsInv
  BY BoundsInit, BoundsStep, PTL DEF Spec

\* Every reachable state is well typed, for every number of sockets, questions,
\* concurrent submissions and outages.
THEOREM TypeCorrect == Spec => []TypeOK
  BY BoundsInvariant, BoundsImply, PTL

\* Nobody ever has more points than answered questions, nor more answered
\* questions than there are, in Redis or in a broadcast, however many
\* submissions overtake each other and however often the connection is lost.
THEOREM ScoresStayWithin == Spec => []ScoreWithinIndex
  BY BoundsInvariant, BoundsImply, PTL

-----------------------------------------------------------------------------
(* The order of overlapping submissions                                    *)

\* A handler that has read its player's status and not yet stored it.
Holding(c) == c.stage \in {"answers", "questions", "store"}

\* The question index the handler is going to store.
Written(c) == IF c.stage = "store" THEN c.mine.activeQuestionIndex
                                   ELSE c.mine.activeQuestionIndex + 1

Rank(c) == IF c.stage = "answers" THEN 1 ELSE IF c.stage = "questions" THEN 2 ELSE 3

\* A handler has read either the current index or the one before it.
InStep(c, statuses) ==
    Holding(c) =>
        \/ Written(c) = statuses[c.socket].activeQuestionIndex
        \/ Written(c) = statuses[c.socket].activeQuestionIndex + 1

\* c's command is ahead of d's in the pipeline.  Each command takes one round of
\* the pipeline, so c stores first unless it is a stage behind, and who stores
\* first has read no later index.
StoresInOrder(c, d) ==
    Holding(c) /\ Holding(d) /\ c.socket = d.socket =>
        IF Rank(c) >= Rank(d) THEN Written(c) <= Written(d) ELSE Written(d) <= Written(c)

\* Both hold for the commands of q behind the first k.
Ordered(k, q, statuses) ==
    /\ \A i \in 1..Len(q) : i > k => InStep(q[i], statuses)
    /\ \A i, j \in 1..Len(q) : i > k /\ i < j => StoresInOrder(q[i], q[j])

\* That is, for the commands that Redis is still to run.  (A reconnect sends
\* stores again that have been run, and then nothing is said.)
OrderInv == ~resent => Ordered(ran, pipe, status)

\* The front handler goes on as c: the order survives if c fits in behind all
\* others and the statuses still suit them.
LEMMA OrderRotates ==
    ASSUME NEW q \in Seq(Sound), q # <<>>, NEW c \in Sound,
           NEW before, NEW after, Ordered(0, q, before), InStep(c, after),
           \A i \in 2..Len(q) : InStep(q[i], after) /\ StoresInOrder(q[i], c)
    PROVE  Ordered(0, Append(Tail(q), c), after)
<1> DEFINE r == Append(Tail(q), c)
           n == Len(q)
<1>1. /\ n \in Nat \ {0} /\ Len(r) = n
      /\ \A i \in 1..(n - 1) : r[i] = q[i + 1]
      /\ r[n] = c
  BY PipeGoesOn
<1>2. /\ \A i \in 2..n : InStep(q[i], after) /\ StoresInOrder(q[i], c)
      /\ \A i, j \in 1..n : i > 0 /\ i < j => StoresInOrder(q[i], q[j])
  BY DEF Ordered
<1> HIDE DEF r, n
<1>3. ASSUME NEW i \in 1..n PROVE i = n \/ (i \in 1..(n - 1) /\ i + 1 \in 2..n)
  BY <1>1
<1>4. ASSUME NEW i \in 1..n PROVE InStep(r[i], after)
  BY <1>1, <1>2, <1>3
<1>5. ASSUME NEW i \in 1..n, NEW j \in 1..n, i < j PROVE StoresInOrder(r[i], r[j])
  <2>1. i \in 1..(n - 1) /\ i + 1 \in 2..n /\ i + 1 \in 1..n /\ i + 1 > 0
    BY <1>1, <1>5
  <2>2. CASE j = n
    BY <1>1, <1>2, <2>1, <2>2
  <2>3. CASE j \in 1..(n - 1) /\ j + 1 \in 2..n
    <3>1. j + 1 \in 1..n /\ i + 1 < j + 1
      BY <1>1, <1>5, <2>3
    <3>2. StoresInOrder(q[i + 1], q[j + 1])
      BY <1>2, <2>1, <3>1
    <3> QED
      BY <1>1, <2>1, <2>3, <3>2
  <2> QED
    BY <1>3, <2>2, <2>3
<1>6. Ordered(0, r, after)
  BY <1>1, <1>4, <1>5 DEF Ordered
<1> QED
  BY <1>6 DEF r

\* The front handler ends, or (k > 0) is rejected after its command has run.
LEMMA OrderDrops ==
    ASSUME NEW q \in Seq(Sound), q # <<>>, NEW k \in Nat, NEW statuses,
           NEW m \in Nat, m >= k - 1, Ordered(k, q, statuses)
    PROVE  Ordered(m, Tail(q), statuses)
<1> DEFINE r == Tail(q)
           n == Len(q)
<1>1. n \in Nat \ {0} /\ Len(r) = n - 1 /\ \A i \in 1..(n - 1) : r[i] = q[i + 1]
  BY PipeFinishes
<1>2. /\ \A i \in 1..n : i > k => InStep(q[i], statuses)
      /\ \A i, j \in 1..n : i > k /\ i < j => StoresInOrder(q[i], q[j])
  BY DEF Ordered
<1> HIDE DEF r, n
<1>3. ASSUME NEW i \in 1..(n - 1), i > m PROVE InStep(r[i], statuses)
  <2>1. i + 1 \in 1..n /\ i + 1 > k
    BY <1>1, <1>3
  <2> QED
    BY <1>1, <1>2, <2>1
<1>4. ASSUME NEW i \in 1..(n - 1), NEW j \in 1..(n - 1), i > m, i < j
      PROVE  StoresInOrder(r[i], r[j])
  <2>1. i + 1 \in 1..n /\ j + 1 \in 1..n /\ i + 1 > k /\ i + 1 < j + 1
    BY <1>1, <1>4
  <2>2. StoresInOrder(q[i + 1], q[j + 1])
    BY <1>2, <2>1
  <2> QED
    BY <1>1, <2>2
<1>5. Ordered(m, r, statuses)
  BY <1>1, <1>3, <1>4 DEF Ordered
<1> QED
  BY <1>5 DEF r

\* A handler that holds nothing joins at the end.
LEMMA OrderGrows ==
    ASSUME NEW q \in Seq(Sound), NEW c \in Sound, ~Holding(c), NEW k \in Nat,
           NEW statuses, Ordered(k, q, statuses)
    PROVE  Ordered(k, Append(q, c), statuses)
<1> DEFINE r == Append(q, c)
           n == Len(q)
<1>1. n \in Nat /\ Len(r) = n + 1 /\ (\A i \in 1..n : r[i] = q[i]) /\ r[n + 1] = c
  BY PipeGrows
<1>2. /\ \A i \in 1..n : i > k => InStep(q[i], statuses)
      /\ \A i, j \in 1..n : i > k /\ i < j => StoresInOrder(q[i], q[j])
  BY DEF Ordered
<1>3. InStep(c, statuses) /\ \A d : StoresInOrder(d, c)
  BY DEF InStep, StoresInOrder
<1> HIDE DEF r, n
<1>4. ASSUME NEW i \in 1..(n + 1) PROVE i = n + 1 \/ i \in 1..n
  BY <1>1
<1>5. ASSUME NEW i \in 1..(n + 1), i > k PROVE InStep(r[i], statuses)
  BY <1>1, <1>2, <1>3, <1>4, <1>5
<1>6. ASSUME NEW i \in 1..(n + 1), NEW j \in 1..(n + 1), i > k, i < j
      PROVE  StoresInOrder(r[i], r[j])
  <2>1. i \in 1..n
    BY <1>1, <1>6
  <2> QED
    BY <1>1, <1>2, <1>3, <1>4, <1>6, <2>1
<1>7. Ordered(k, r, statuses)
  BY <1>1, <1>5, <1>6 DEF Ordered
<1> QED
  BY <1>7 DEF r

\* What one handler does to the order with another handler d.
LEMMA ReadFits ==
    ASSUME NEW statuses \in [Players -> Bounded], NEW h \in Sound, NEW d \in Sound,
           h.stage = "status", InStep(d, statuses), NEW c \in Sound,
           c = [h EXCEPT !.stage = "answers", !.mine = statuses[h.socket]]
    PROVE  InStep(c, statuses) /\ StoresInOrder(d, c)
<1>1. /\ c.socket = h.socket /\ c.stage = "answers" /\ c.mine = statuses[c.socket]
      /\ c.socket \in Players
  BY DEF Sound, Submission, PlayerStages
<1>2. statuses[c.socket].activeQuestionIndex \in Nat
  BY <1>1 DEF Bounded, Standing
<1>3. Written(c) = statuses[c.socket].activeQuestionIndex + 1 /\ Rank(c) = 1
  BY <1>1 DEF Written, Rank
<1>4. Rank(d) >= Rank(c)
  BY <1>3 DEF Rank
<1> QED
  BY <1>1, <1>2, <1>3, <1>4 DEF InStep, StoresInOrder

LEMMA GoingOnFits ==
    ASSUME NEW h \in Sound, NEW d \in Sound,
           StoresInOrder(h, d), NEW c \in Sound,
           Holding(h), Holding(c), c.socket = h.socket,
           Rank(c) = Rank(h) + 1, Written(c) = Written(h)
    PROVE  StoresInOrder(d, c)
<1>1. Rank(h) \in 1..3 /\ Rank(d) \in 1..3
  BY DEF Rank
<1> QED
  BY <1>1 DEF StoresInOrder

LEMMA StoreFits ==
    ASSUME NEW statuses \in [Players -> Bounded], NEW h \in Sound, NEW d \in Sound,
           h.stage = "store", InStep(h, statuses), InStep(d, statuses),
           StoresInOrder(h, d)
    PROVE  InStep(d, [statuses EXCEPT ![h.socket] = h.mine])
<1> SUFFICES ASSUME Holding(d) PROVE InStep(d, [statuses EXCEPT ![h.socket] = h.mine])
  BY DEF InStep
<1>1. /\ h.socket \in Players /\ d.socket \in Players /\ Holding(h)
      /\ Written(h) = h.mine.activeQuestionIndex
      /\ Rank(h) = 3 /\ Rank(d) \in 1..3
  BY DEF Sound, PlayerStages, Holding, Written, Rank
<1>2. CASE d.socket # h.socket
  BY <1>1, <1>2 DEF InStep
<1>3. CASE d.socket = h.socket
  <2>1. Written(h) <= Written(d)
    BY <1>1, <1>3 DEF StoresInOrder
  <2>2. statuses[h.socket].activeQuestionIndex \in Nat
    BY <1>1 DEF Bounded, Standing
  <2>3. Written(d) = Written(h) \/ Written(d) = Written(h) + 1
    BY <1>1, <1>3, <2>1, <2>2 DEF InStep
  <2> QED
    BY <1>1, <1>3, <2>3 DEF InStep
<1> QED
  BY <1>2, <1>3

\* Redis runs a command that is not answered.
LEMMA OrderRuns ==
    ASSUME NEW q \in Seq(Sound), NEW statuses \in [Players -> Bounded],
           NEW k \in Nat, k < Len(q), Ordered(k, q, statuses)
    PROVE  Ordered(k + 1, q, IF q[k + 1].stage = "store"
                             THEN [statuses EXCEPT ![q[k + 1].socket] = q[k + 1].mine]
                             ELSE statuses)
<1>1. Len(q) \in Nat /\ k + 1 \in 1..Len(q) /\ k + 1 > k
  BY LenProperties
<1>2. \A i \in 1..Len(q) : q[i] \in Sound
  BY ElementOfSeq
<1>3. ASSUME NEW i \in 1..Len(q), i > k + 1
      PROVE  i > k /\ k + 1 < i
  BY <1>1, <1>3
<1>4. ASSUME q[k + 1].stage = "store", NEW i \in 1..Len(q), i > k + 1
      PROVE  InStep(q[i], [statuses EXCEPT ![q[k + 1].socket] = q[k + 1].mine])
  <2>1. InStep(q[i], statuses) /\ InStep(q[k + 1], statuses) /\ StoresInOrder(q[k + 1], q[i])
    BY <1>1, <1>3, <1>4 DEF Ordered
  <2> QED
    BY <1>1, <1>2, <1>4, <2>1, StoreFits
<1>5. ASSUME NEW i \in 1..Len(q), NEW j \in 1..Len(q), i > k + 1, i < j
      PROVE  StoresInOrder(q[i], q[j])
  BY <1>3, <1>5 DEF Ordered
<1>6. ASSUME NEW i \in 1..Len(q), i > k + 1 PROVE InStep(q[i], statuses)
  BY <1>3, <1>6 DEF Ordered
<1>7. CASE q[k + 1].stage = "store"
  BY <1>4, <1>5, <1>7 DEF Ordered
<1>8. CASE q[k + 1].stage # "store"
  BY <1>5, <1>6, <1>8 DEF Ordered
<1> QED
  BY <1>7, <1>8

\* A reply: the front handler goes on holding nothing, or ends.
LEMMA FrontLetsGo ==
    ASSUME BoundsInv, pipe # <<>>, NEW k \in Nat, NEW m \in Nat, m >= k - 1,
           Ordered(k, pipe, status), status' = status,
           \/ Finish
           \/ \E c \in Sound : ~Holding(c) /\ pipe' = Append(Tail(pipe), c)
    PROVE  Ordered(m, pipe', status')
<1>1. Ordered(m, Tail(pipe), status) /\ Tail(pipe) \in Seq(Sound)
  BY OrderDrops, PipeSteps DEF BoundsInv
<1>2. CASE Finish
  BY <1>1, <1>2 DEF Finish
<1>3. ASSUME NEW c \in Sound, ~Holding(c), pipe' = Append(Tail(pipe), c)
      PROVE  Ordered(m, pipe', status')
  BY <1>1, <1>3, OrderGrows
<1> QED
  BY <1>2, <1>3

\* The front handler and the others, while the connection is up.
LEMMA FrontInOrder ==
    ASSUME BoundsInv, Ordered(0, pipe, status), pipe # <<>>
    PROVE  /\ InStep(Head(pipe), status)
           /\ \A i \in 2..Len(pipe) : /\ pipe[i] \in Sound
                                      /\ InStep(pipe[i], status)
                                      /\ StoresInOrder(Head(pipe), pipe[i])
<1>1. Head(pipe) = pipe[1] /\ Len(pipe) \in Nat \ {0} /\ 1 \in 1..Len(pipe)
  BY PipeGoesOn DEF BoundsInv
<1>2. ASSUME NEW i \in 2..Len(pipe)
      PROVE  i \in 1..Len(pipe) /\ i > 0 /\ 1 < i /\ 1 > 0
  BY <1>1, <1>2
<1>3. \A i \in 2..Len(pipe) : pipe[i] \in Sound
  BY <1>2, ElementOfSeq DEF BoundsInv
<1> QED
  BY <1>1, <1>2, <1>3 DEF Ordered

LEMMA OrderInit == Init => OrderInv
<1> SUFFICES ASSUME Init PROVE OrderInv
  OBVIOUS
<1>1. Len(pipe) = 0
  BY EmptySeq DEF Init
<1> QED
  BY <1>1 DEF OrderInv, Ordered

LEMMA ResentStays == [Next]_vars => resent' = resent \/ resent'
<1> SUFFICES ASSUME [Next]_vars PROVE resent' = resent \/ resent'
  OBVIOUS
<1>1. CASE Serve
  BY <1>1 DEF Serve, Reply, linkVars, ReadRooms, ReadPlayerA, ReadPlayerB, ReadStatus,
              ReadAnswers, ReadQuestions, StoreStatus, ReadStatusA, Broadcast
<1>2. CASE Settle
  BY <1>2 DEF Settle, Reconnect, GiveUp, Reject, Recover
<1>3. CASE FallSilent \/ RunUnanswered \/ UNCHANGED vars
  BY <1>3 DEF FallSilent, RunUnanswered, vars
<1>4. ASSUME NEW s \in Sockets, Submit(s) PROVE resent' = resent
  BY <1>4 DEF Submit, linkVars
<1> QED
  BY <1>1, <1>2, <1>3, <1>4 DEF Next

LEMMA OrderStep == BoundsInv /\ OrderInv /\ [Next]_vars => OrderInv'
<1> SUFFICES ASSUME BoundsInv, OrderInv, [Next]_vars, ~resent, ~resent' PROVE OrderInv'
  BY ResentStays DEF OrderInv
<1>0. /\ Ordered(ran, pipe, status)
      /\ Len(pipe) \in Nat /\ ran \in Nat /\ ran \in 0..Len(pipe)
      /\ pipe \in Seq(Sound)
  BY LenProperties DEF OrderInv, BoundsInv
<1> SUFFICES Ordered(ran', pipe', status')
  BY DEF OrderInv
<1> DEFINE h == Head(pipe)
<1>a. ASSUME NEW stage, Reply(stage)
      PROVE  /\ ran = 0 /\ ran' = 0 /\ Ordered(0, pipe, status)
             /\ pipe # <<>> /\ h \in Sound /\ h.stage = stage
             /\ InStep(h, status)
             /\ \A i \in 2..Len(pipe) : /\ pipe[i] \in Sound
                                        /\ InStep(pipe[i], status)
                                        /\ StoresInOrder(h, pipe[i])
  <2>1. ran = 0 /\ ran' = 0 /\ pipe # <<>> /\ h.stage = stage
    BY <1>a DEF Reply, linkVars, BoundsInv
  <2> QED
    BY <2>1, <1>0, PipeSteps, FrontInOrder
<1>b. ASSUME NEW stage \in Stages, NEW next \in Stages, Reply(stage),
             \/ Finish
             \/ Goto(next) /\ (next \in PlayerStages => h.socket \in Players),
             next \notin {"answers", "questions", "store"}, status' = status
      PROVE  Ordered(ran', pipe', status')
  <2>1. ASSUME Goto(next), next \in PlayerStages => h.socket \in Players
        PROVE  \E c \in Sound : ~Holding(c) /\ pipe' = Append(Tail(pipe), c)
    <3>1. [h EXCEPT !.stage = next] \in Sound
      BY <1>a, <1>b, <2>1, SoundUpdates, InitialStatusBounded
    <3>2. ~Holding([h EXCEPT !.stage = next])
      BY <1>a, <1>b DEF Holding, Sound, Submission
    <3> QED
      BY <2>1, <3>1, <3>2 DEF Goto
  <2> QED
    BY <1>a, <1>b, <2>1, FrontLetsGo
<1>1. ASSUME NEW s \in Sockets, Submit(s) PROVE Ordered(ran', pipe', status')
  <2>1. PICK first \in {"rooms", "playerA"} :
            pipe' = Append(pipe, [socket |-> s, stage |-> first,
                                  mine |-> initialPlayerStatus,
                                  seen |-> initialPlayerStatus])
    BY <1>1 DEF Submit
  <2> DEFINE c == [socket |-> s, stage |-> first, mine |-> initialPlayerStatus,
                   seen |-> initialPlayerStatus]
  <2>2. c \in Sound /\ ~Holding(c)
    BY InitialStatusBounded
       DEF Sound, Submission, Stages, PlayerStages, Bounded, Holding
  <2>3. Ordered(ran, Append(pipe, c), status)
    BY <1>0, <2>2, OrderGrows
  <2> QED
    BY <1>1, <2>1, <2>3 DEF Submit, linkVars
<1>2. CASE ReadRooms
  BY <1>2, <1>b DEF ReadRooms, Stages, PlayerStages
<1>3. CASE ReadPlayerA
  BY <1>3, <1>b DEF ReadPlayerA, Stages, PlayerStages
<1>4. CASE ReadPlayerB
  BY <1>4, <1>b DEF ReadPlayerB, Stages
<1>5. CASE ReadStatus
  <2> DEFINE c == [h EXCEPT !.stage = "answers", !.mine = status[h.socket]]
  <2>1. Reply("status") /\ pipe' = Append(Tail(pipe), c) /\ status' = status
    BY <1>5 DEF ReadStatus
  <2>2. h.socket \in Players
    BY <1>a, <2>1, PlayerAtFront DEF PlayerStages
  <2>3. c \in Sound
    BY <1>a, <2>1, <2>2, SoundUpdates DEF BoundsInv, Stages
  <2>4. InStep(c, status) /\ \A i \in 2..Len(pipe) : StoresInOrder(pipe[i], c)
    BY <1>a, <2>1, <2>3, ReadFits DEF BoundsInv
  <2> QED
    BY <1>0, <1>a, <2>1, <2>3, <2>4, OrderRotates
<1>6. CASE ReadAnswers
  <2> DEFINE c == [h EXCEPT !.stage = "questions"]
  <2>1. Reply("answers") /\ pipe' = Append(Tail(pipe), c) /\ status' = status
    BY <1>6 DEF ReadAnswers, Goto
  <2>2. h.socket \in Players
    BY <1>a, <2>1, PlayerAtFront DEF PlayerStages
  <2>3. c \in Sound
    BY <1>a, <2>1, <2>2, SoundUpdates, InitialStatusBounded DEF Stages
  <2>4. /\ Holding(h) /\ Holding(c) /\ c.socket = h.socket
        /\ Rank(c) = Rank(h) + 1 /\ Written(c) = Written(h)
    BY <1>a, <2>1 DEF Holding, Rank, Written, Sound, Submission
  <2>5. InStep(c, status)
    BY <1>a, <2>1, <2>4 DEF InStep
  <2>6. \A i \in 2..Len(pipe) : StoresInOrder(pipe[i], c)
    BY <1>a, <2>1, <2>3, <2>4, GoingOnFits
  <2> QED
    BY <1>0, <1>a, <2>1, <2>3, <2>5, <2>6, OrderRotates
<1>7. CASE ReadQuestions
  <2>1. Reply("questions") /\ status' = status
    BY <1>7 DEF ReadQuestions
  <2>2. CASE Finish
    BY <1>b, <2>1, <2>2 DEF Stages
  <2>3. ASSUME h.mine.activeQuestionIndex < NumQuestions, NEW point \in {0, 1},
               pipe' = Append(Tail(pipe), [h EXCEPT
                   !.stage = "store", !.mine = Scored(h.mine, point)])
        PROVE  Ordered(ran', pipe', status')
    <3> DEFINE c == [h EXCEPT !.stage = "store", !.mine = Scored(h.mine, point)]
    <3>1. h.socket \in Players /\ h.mine \in Bounded
      BY <1>a, <2>1, PlayerAtFront DEF PlayerStages, Sound
    <3>2. c \in Sound
      BY <1>a, <2>1, <2>3, <3>1, ScoredBounded, SoundUpdates DEF Stages
    <3>3. /\ Holding(h) /\ Holding(c) /\ c.socket = h.socket
          /\ Rank(c) = Rank(h) + 1 /\ Written(c) = Written(h)
      BY <1>a, <2>1 DEF Holding, Rank, Written, Sound, Submission, Scored
    <3>4. InStep(c, status)
      BY <1>a, <2>1, <3>3 DEF InStep
    <3>5. \A i \in 2..Len(pipe) : StoresInOrder(pipe[i], c)
      BY <1>a, <2>1, <3>2, <3>3, GoingOnFits
    <3> QED
      BY <1>0, <1>a, <2>1, <2>3, <3>2, <3>4, <3>5, OrderRotates
  <2> QED
    BY <1>7, <2>2, <2>3 DEF ReadQuestions
<1>8. CASE StoreStatus
  <2> DEFINE c == [h EXCEPT !.stage = "statusA"]
  <2>1. /\ Reply("store") /\ pipe' = Append(Tail(pipe), c)
        /\ status' = [status EXCEPT ![h.socket] = h.mine]
    BY <1>8 DEF StoreStatus, Goto
  <2>2. h.socket \in Players
    BY <1>a, <2>1, PlayerAtFront DEF PlayerStages
  <2>3. c \in Sound
    BY <1>a, <2>1, <2>2, SoundUpdates, InitialStatusBounded DEF Stages
  <2>6. ~Holding(c)
    BY <1>a, <2>1 DEF Holding, Sound, Submission
  <2>4. \A i \in 2..Len(pipe) : InStep(pipe[i], status')
    BY <1>a, <2>1, StoreFits DEF BoundsInv
  <2>5. InStep(c, status') /\ \A d : StoresInOrder(d, c)
    BY <2>6 DEF InStep, StoresInOrder
  <2> QED
    BY <1>0, <1>a, <2>1, <2>3, <2>4, <2>5, OrderRotates
<1>9. CASE ReadStatusA
  <2> DEFINE c == [h EXCEPT !.stage = "statusB", !.seen = status[SocketA]]
  <2>1. Reply("statusA") /\ pipe' = Append(Tail(pipe), c) /\ status' = status
    BY <1>9 DEF ReadStatusA
  <2>2. h.socket \in Players /\ status[SocketA] \in Bounded
    BY <1>a, <2>1, PlayerAtFront DEF PlayerStages, BoundsInv, Players
  <2>3. c \in Sound
    BY <1>a, <2>1, <2>2, SoundUpdates DEF Stages
  <2>4. ~Holding(c)
    BY <1>a, <2>1 DEF Holding, Sound, Submission
  <2> QED
    BY <1>a, <2>1, <2>3, <2>4, FrontLetsGo
<1>10. CASE Broadcast
  BY <1>10, <1>b DEF Broadcast, Stages
<1>11. CASE RunUnanswered
  BY <1>0, <1>11, OrderRuns DEF RunUnanswered, BoundsInv
<1>12. CASE GiveUp
  BY <1>0, <1>12 DEF GiveUp, Ordered
<1>13. CASE Reject
  <2>1. pipe # <<>> /\ ran \in Nat \ {0} /\ ran' = ran - 1 /\ status' = status
    BY <1>0, <1>13, EmptySeq DEF Reject
  <2>2. CASE Finish
    BY <1>0, <2>1, <2>2, FrontLetsGo
  <2>3. ASSUME h.stage = "rooms", Goto("playerA")
        PROVE  \E c \in Sound : ~Holding(c) /\ pipe' = Append(Tail(pipe), c)
    <3>1. [h EXCEPT !.stage = "playerA"] \in Sound
      BY <2>1, PipeSteps, SoundUpdates, InitialStatusBounded DEF Stages, PlayerStages
    <3>2. ~Holding([h EXCEPT !.stage = "playerA"])
      BY <2>1, PipeSteps DEF Holding, Sound, Submission
    <3> QED
      BY <2>3, <3>1, <3>2 DEF Goto
  <2> QED
    BY <1>0, <1>13, <2>1, <2>2, <2>3, FrontLetsGo DEF Reject
<1>14. CASE FallSilent \/ Recover \/ UNCHANGED vars
  BY <1>0, <1>14 DEF FallSilent, Recover, vars
<1>15. CASE Reconnect
  BY <1>15 DEF Reconnect
<1> QED
  BY <1>1, <1>2, <1>3, <1>4, <1>5, <1>6, <1>7, <1>8, <1>9, <1>10, <1>11, <1>12,
     <1>13, <1>14, <1>15 DEF Next, Serve, Settle

THEOREM OrderInvariant == Spec => [](BoundsInv /\ OrderInv)
  BY BoundsInit, BoundsStep, OrderInit, OrderStep, PTL DEF Spec

\* A store moves its player's index by at most one, forward.
LEMMA StoreProgress ==
    ASSUME NEW statuses \in [Players -> Bounded], NEW h \in Sound,
           h.stage = "store", InStep(h, statuses), NEW p \in Players
    PROVE  [statuses EXCEPT ![h.socket] = h.mine][p].activeQuestionIndex
               - statuses[p].activeQuestionIndex \in {0, 1}
<1>1. statuses[p].activeQuestionIndex \in Nat
  BY DEF Bounded, Standing
<1> QED
  BY <1>1 DEF InStep, Holding, Written

LEMMA OrderedProgress ==
    ASSUME BoundsInv, OrderInv, [Next]_vars, ~resent, NEW p \in Players
    PROVE  status'[p].activeQuestionIndex - status[p].activeQuestionIndex \in {0, 1}
<1>0. status[p].activeQuestionIndex \in Nat /\ Ordered(ran, pipe, status)
  BY DEF BoundsInv, OrderInv, Bounded, Standing
<1>1. CASE status' = status
  BY <1>0, <1>1
<1>2. CASE StoreStatus
  <2>1. /\ ran = 0 /\ pipe # <<>> /\ Head(pipe).stage = "store"
        /\ status' = [status EXCEPT ![Head(pipe).socket] = Head(pipe).mine]
    BY <1>2 DEF StoreStatus, Reply, BoundsInv
  <2>2. InStep(Head(pipe), status) /\ Head(pipe) \in Sound
    BY <1>0, <2>1, FrontInOrder, PipeSteps
  <2> QED
    BY <2>1, <2>2, StoreProgress DEF BoundsInv
<1>3. CASE RunUnanswered
  <2>1. Len(pipe) \in Nat /\ ran + 1 \in 1..Len(pipe) /\ ran + 1 > ran
    BY <1>3, LenProperties DEF RunUnanswered, BoundsInv
  <2>2. InStep(pipe[ran + 1], status) /\ pipe[ran + 1] \in Sound
    BY <1>0, <2>1, ElementOfSeq DEF Ordered, BoundsInv
  <2>3. CASE pipe[ran + 1].stage = "store"
    BY <1>3, <2>2, <2>3, StoreProgress DEF RunUnanswered, BoundsInv
  <2> QED
    BY <1>1, <1>3, <2>3 DEF RunUnanswered
<1> QED
  BY <1>1, <1>2, <1>3
     DEF Next, Serve, Settle, Submit, ReadRooms, ReadPlayerA, ReadPlayerB, ReadStatus,
         ReadAnswers, ReadQuestions, ReadStatusA, Broadcast, FallSilent, Reconnect,
         GiveUp, Reject, Recover, vars

\* Until a reconnect repeats unanswered stores, the stored question index of a
\* player moves forward by at most one at a time, for every number of
\* submissions that overtake each other.
THEOREM IndexProgresses == Spec => ProgressByOne
<1>1. BoundsInv /\ OrderInv /\ [Next]_vars =>
          [~resent => \A p \in Players :
              status'[p].activeQuestionIndex - status[p].activeQuestionIndex \in {0, 1}]_vars
  BY OrderedProgress
<1> QED
  BY <1>1, OrderInvariant, PTL DEF Spec, ProgressByOne
=============================================================================
