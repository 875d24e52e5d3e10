------------------------ MODULE MatchPlayRefinement ------------------------
(***************************************************************************)
(* With one submission at a time per socket, MatchPlay implements the      *)
(* atomic match QuizMatch: for every set of sockets, every number of       *)
(* questions and every number of outages.                                  *)
(***************************************************************************)
EXTENDS MatchPlayProofs, FiniteSetTheorems

\* Every client waits for its handler before it submits again.
OneAtATime == \A s \in Sockets : Window[s] <= 1

-----------------------------------------------------------------------------
(* The invariant                                                           *)

\* What a handler holds is current: the status it read, or the one an answer
\* makes of it.  A store that has been run, and will be sent again after a
\* reconnect, holds the status it wrote.
Fresh(c, statuses) ==
    /\ c.stage \in {"answers", "questions"} => c.mine = statuses[c.socket]
    /\ c.stage = "store" =>
          \/ c.mine = statuses[c.socket]
          \/ /\ statuses[c.socket].activeQuestionIndex < NumQuestions
             /\ \E point \in {0, 1} : c.mine = Scored(statuses[c.socket], point)

\* Handlers belong to different sockets, so that no other one can make what
\* a handler holds stale.
Patient(q, statuses) ==
    /\ \A i \in 1..Len(q) : Fresh(q[i], statuses)
    /\ \A i, j \in 1..Len(q) : i # j => q[i].socket # q[j].socket

PatientInv == Patient(pipe, status)

-----------------------------------------------------------------------------
(* The pipeline                                                            *)

LEMMA PatientRotates ==
    ASSUME NEW q \in Seq(Sound), q # <<>>, NEW c \in Sound, c.socket = Head(q).socket,
           NEW before, NEW after, Patient(q, before), Fresh(c, after),
           \A i \in 2..Len(q) : Fresh(q[i], after)
    PROVE  Patient(Append(Tail(q), c), after)
<1> DEFINE r == Append(Tail(q), c)
           n == Len(q)
<1>1. /\ n \in Nat \ {0} /\ Len(r) = n
      /\ \A i \in 1..(n - 1) : r[i] = q[i + 1]
      /\ r[n] = c /\ c.socket = q[1].socket
  BY PipeGoesOn
<1>2. /\ \A i \in 2..n : Fresh(q[i], after)
      /\ \A i, j \in 1..n : i # j => q[i].socket # q[j].socket
  BY DEF Patient
<1> HIDE DEF r, n
\* Position i of r shows the socket of position k of q.
<1> DEFINE At(i) == IF i = n THEN 1 ELSE i + 1
<1>3. ASSUME NEW i \in 1..n
      PROVE  /\ At(i) \in 1..n /\ r[i].socket = q[At(i)].socket
             /\ Fresh(r[i], after)
  <2>1. CASE i = n
    BY <1>1, <2>1
  <2>2. CASE i # n
    <3>1. i \in 1..(n - 1) /\ i + 1 \in 2..n /\ i + 1 \in 1..n
      BY <1>1, <2>2
    <3> QED
      BY <1>1, <1>2, <2>2, <3>1
  <2> QED
    BY <2>1, <2>2
<1>4. ASSUME NEW i \in 1..n, NEW j \in 1..n, i # j PROVE At(i) # At(j)
  BY <1>1, <1>4
<1> HIDE DEF At
<1>5. ASSUME NEW i \in 1..n, NEW j \in 1..n, i # j PROVE r[i].socket # r[j].socket
  BY <1>2, <1>3, <1>4, <1>5
<1>6. Patient(r, after)
  BY <1>1, <1>3, <1>5 DEF Patient
<1> QED
  BY <1>6 DEF r

LEMMA PatientDrops ==
    ASSUME NEW q \in Seq(Sound), q # <<>>, NEW statuses, Patient(q, statuses)
    PROVE  Patient(Tail(q), statuses)
<1> DEFINE r == Tail(q)
           n == Len(q)
<1>1. n \in Nat \ {0} /\ Len(r) = n - 1 /\ \A i \in 1..(n - 1) : r[i] = q[i + 1]
  BY PipeFinishes
<1>2. /\ \A i \in 1..n : Fresh(q[i], statuses)
      /\ \A i, j \in 1..n : i # j => q[i].socket # q[j].socket
  BY DEF Patient
<1> HIDE DEF r, n
<1>3. \A i \in 1..(n - 1) : i + 1 \in 1..n
  BY <1>1
<1>4. ASSUME NEW i \in 1..(n - 1), NEW j \in 1..(n - 1), i # j
      PROVE  r[i].socket # r[j].socket
  <2>1. i + 1 # j + 1
    BY <1>1, <1>4
  <2> QED
    BY <1>1, <1>2, <1>3, <2>1
<1>5. \A i \in 1..(n - 1) : Fresh(r[i], statuses)
  BY <1>1, <1>2, <1>3
<1>6. Patient(r, statuses)
  BY <1>1, <1>4, <1>5 DEF Patient
<1> QED
  BY <1>6 DEF r

LEMMA PatientGrows ==
    ASSUME NEW q \in Seq(Sound), NEW c \in Sound, NEW statuses,
           Patient(q, statuses), Fresh(c, statuses),
           \A i \in 1..Len(q) : q[i].socket # c.socket
    PROVE  Patient(Append(q, c), statuses)
<1> DEFINE r == Append(q, c)
           n == Len(q)
<1>1. n \in Nat /\ Len(r) = n + 1 /\ (\A i \in 1..n : r[i] = q[i]) /\ r[n + 1] = c
  BY PipeGrows
<1>2. /\ \A i \in 1..n : Fresh(q[i], statuses) /\ q[i].socket # c.socket
      /\ \A i, j \in 1..n : i # j => q[i].socket # q[j].socket
  BY DEF Patient
<1> HIDE DEF r, n
<1>3. \A i \in 1..(n + 1) : i = n + 1 \/ i \in 1..n
  BY <1>1
<1>4. ASSUME NEW i \in 1..(n + 1), NEW j \in 1..(n + 1), i # j
      PROVE  r[i].socket # r[j].socket
  BY <1>1, <1>2, <1>3, <1>4
<1>5. \A i \in 1..(n + 1) : Fresh(r[i], statuses)
  BY <1>1, <1>2, <1>3
<1>6. Patient(r, statuses)
  BY <1>1, <1>4, <1>5 DEF Patient
<1> QED
  BY <1>6 DEF r

\* A store does not concern the handlers of other sockets, and its own handler
\* holds what it wrote.
LEMMA StoreKeepsFresh ==
    ASSUME NEW statuses \in [Players -> Bounded], NEW h \in Sound, NEW d \in Sound,
           h.stage = "store", Fresh(d, statuses),
           d = h \/ d.socket # h.socket
    PROVE  Fresh(d, [statuses EXCEPT ![h.socket] = h.mine])
<1>1. h.socket \in Players
  BY DEF Sound, PlayerStages
<1>2. CASE d = h
  BY <1>1, <1>2 DEF Fresh
<1>3. CASE d.socket # h.socket
  <2>1. d.stage \in {"answers", "questions", "store"} =>
            [statuses EXCEPT ![h.socket] = h.mine][d.socket] = statuses[d.socket]
    BY <1>1, <1>3 DEF Sound, PlayerStages
  <2> QED
    BY <2>1 DEF Fresh
<1> QED
  BY <1>2, <1>3

\* A socket below a window of one has no handler under way.
LEMMA NobodyUnderWay ==
    ASSUME BoundsInv, OneAtATime, NEW s \in Sockets, Cardinality(UnderWay(s)) < Window[s]
    PROVE  \A i \in 1..Len(pipe) : pipe[i].socket # s
<1>1. Len(pipe) \in Nat
  BY LenProperties DEF BoundsInv
<1>2. IsFiniteSet(1..Len(pipe))
  BY <1>1, FS_Interval
<1>3. IsFiniteSet(UnderWay(s))
  BY <1>2, FS_Subset DEF UnderWay
<1>4. Cardinality(UnderWay(s)) = 0
  BY <1>3, FS_CardinalityType, WindowAssumption DEF OneAtATime
<1>5. UnderWay(s) = {}
  BY <1>3, <1>4, FS_EmptySet
<1> QED
  BY <1>5 DEF UnderWay

-----------------------------------------------------------------------------
(* The invariant is inductive                                              *)

LEMMA PatientInit == Init => PatientInv
<1> SUFFICES ASSUME Init PROVE PatientInv
  OBVIOUS
<1>1. Len(pipe) = 0
  BY EmptySeq DEF Init
<1> QED
  BY <1>1 DEF PatientInv, Patient

\* The front handler and the others.
LEMMA PatientFront ==
    ASSUME BoundsInv, PatientInv, pipe # <<>>
    PROVE  /\ Head(pipe) \in Sound /\ Fresh(Head(pipe), status)
           /\ \A i \in 2..Len(pipe) : /\ pipe[i] \in Sound
                                      /\ Fresh(pipe[i], status)
                                      /\ pipe[i].socket # Head(pipe).socket
<1>1. /\ Head(pipe) \in Sound /\ Head(pipe) = pipe[1]
      /\ Len(pipe) \in Nat \ {0} /\ 1 \in 1..Len(pipe)
  BY PipeGoesOn DEF BoundsInv
<1>2. \A i \in 2..Len(pipe) : i \in 1..Len(pipe) /\ i # 1
  BY <1>1
<1>3. \A i \in 2..Len(pipe) : pipe[i] \in Sound
  BY <1>2, ElementOfSeq DEF BoundsInv
<1> QED
  BY <1>1, <1>2, <1>3 DEF PatientInv, Patient

\* The front handler goes on or ends, and stores nothing.
LEMMA PatientFrontMoves ==
    ASSUME BoundsInv, PatientInv, pipe # <<>>, status' = status,
           \/ Finish
           \/ \E c \in Sound : /\ c.socket = Head(pipe).socket
                               /\ Fresh(c, status)
                               /\ pipe' = Append(Tail(pipe), c)
    PROVE  PatientInv'
<1>1. CASE Finish
  BY <1>1, PatientDrops DEF Finish, PatientInv, BoundsInv
<1>2. ASSUME NEW c \in Sound, c.socket = Head(pipe).socket, Fresh(c, status),
             pipe' = Append(Tail(pipe), c)
      PROVE  PatientInv'
  <2>1. \A i \in 2..Len(pipe) : Fresh(pipe[i], status)
    BY PatientFront
  <2>2. Patient(Append(Tail(pipe), c), status)
    BY <1>2, <2>1, PatientRotates DEF PatientInv, BoundsInv
  <2> QED
    BY <1>2, <2>2 DEF PatientInv
<1> QED
  BY <1>1, <1>2

\* It goes on to a command before which it holds nothing.
LEMMA PatientGoto ==
    ASSUME BoundsInv, PatientInv, pipe # <<>>, status' = status,
           NEW next \in Stages, next \notin {"answers", "questions", "store"},
           next \in PlayerStages => Head(pipe).socket \in Players, Goto(next)
    PROVE  PatientInv'
<1> DEFINE c == [Head(pipe) EXCEPT !.stage = next]
<1>1. Head(pipe) \in Sound
  BY PatientFront
<1>2. c \in Sound
  BY <1>1, SoundUpdates, InitialStatusBounded
<1>3. c.socket = Head(pipe).socket /\ c.stage = next
  BY <1>1 DEF Sound, Submission
<1>4. Fresh(c, status)
  BY <1>3 DEF Fresh
<1> QED
  BY <1>2, <1>3, <1>4, PatientFrontMoves DEF Goto

LEMMA PatientStep == OneAtATime /\ BoundsInv /\ PatientInv /\ [Next]_vars => PatientInv'
<1> SUFFICES ASSUME OneAtATime, BoundsInv, PatientInv, [Next]_vars PROVE PatientInv'
  OBVIOUS
<1> DEFINE h == Head(pipe)
<1>a. ASSUME NEW stage, Reply(stage)
      PROVE  /\ pipe # <<>> /\ h \in Sound /\ h.stage = stage /\ Fresh(h, status)
             /\ stage \in PlayerStages => h.socket \in Players
  <2>1. pipe # <<>> /\ h.stage = stage
    BY <1>a DEF Reply
  <2> QED
    BY <2>1, PatientFront, PlayerAtFront
<1>1. ASSUME NEW s \in Sockets, Submit(s) PROVE PatientInv'
  <2>1. PICK first \in {"rooms", "playerA"} :
            pipe' = Append(pipe, [socket |-> s, stage |-> first,
                                  mine |-> initialPlayerStatus,
                                  seen |-> initialPlayerStatus])
    BY <1>1 DEF Submit
  <2> DEFINE c == [socket |-> s, stage |-> first, mine |-> initialPlayerStatus,
                   seen |-> initialPlayerStatus]
  <2>2. c \in Sound /\ Fresh(c, status) /\ c.socket = s
    BY InitialStatusBounded
       DEF Sound, Submission, Stages, PlayerStages, Bounded, Fresh
  <2>3. \A i \in 1..Len(pipe) : pipe[i].socket # s
    BY <1>1, NobodyUnderWay DEF Submit
  <2>4. Patient(Append(pipe, c), status)
    BY <2>2, <2>3, PatientGrows DEF PatientInv, BoundsInv
  <2> QED
    BY <1>1, <2>1, <2>4 DEF Submit, PatientInv
<1>2. CASE ReadRooms
  BY <1>2, <1>a, PatientGoto, PatientFrontMoves DEF ReadRooms, Stages, PlayerStages
<1>3. CASE ReadPlayerA
  BY <1>3, <1>a, PatientGoto DEF ReadPlayerA, Stages, PlayerStages
<1>4. CASE ReadPlayerB
  BY <1>4, <1>a, PatientGoto, PatientFrontMoves DEF ReadPlayerB, Stages
<1>5. CASE ReadStatus
  <2> DEFINE c == [h EXCEPT !.stage = "answers", !.mine = status[h.socket]]
  <2>1. Reply("status") /\ pipe' = Append(Tail(pipe), c) /\ status' = status
    BY <1>5 DEF ReadStatus
  <2>2. h \in Sound /\ h.socket \in Players /\ pipe # <<>>
    BY <1>a, <2>1 DEF PlayerStages
  <2>3. c \in Sound
    BY <2>2, SoundUpdates DEF BoundsInv, Stages
  <2>4. c.socket = h.socket /\ Fresh(c, status)
    BY <2>2 DEF Sound, Submission, Fresh
  <2> QED
    BY <2>1, <2>2, <2>3, <2>4, PatientFrontMoves
<1>6. CASE ReadAnswers
  <2> DEFINE c == [h EXCEPT !.stage = "questions"]
  <2>1. Reply("answers") /\ pipe' = Append(Tail(pipe), c) /\ status' = status
    BY <1>6 DEF ReadAnswers, Goto
  <2>2. /\ h \in Sound /\ h.socket \in Players /\ pipe # <<>>
        /\ h.mine = status[h.socket]
    BY <1>a, <2>1 DEF PlayerStages, Fresh
  <2>3. c \in Sound
    BY <2>2, SoundUpdates, InitialStatusBounded DEF Stages
  <2>4. c.socket = h.socket /\ Fresh(c, status)
    BY <2>2 DEF Sound, Submission, Fresh
  <2> QED
    BY <2>1, <2>2, <2>3, <2>4, PatientFrontMoves
<1>7. CASE ReadQuestions
  <2>1. Reply("questions") /\ status' = status
    BY <1>7 DEF ReadQuestions
  <2>2. /\ h \in Sound /\ h.socket \in Players /\ pipe # <<>>
        /\ h.mine = status[h.socket] /\ h.mine \in Bounded
    BY <1>a, <2>1 DEF PlayerStages, Fresh, Sound
  <2>3. CASE Finish
    BY <2>1, <2>2, <2>3, PatientFrontMoves
  <2>4. ASSUME h.mine.activeQuestionIndex < NumQuestions, NEW point \in {0, 1},
               pipe' = Append(Tail(pipe), [h EXCEPT
                   !.stage = "store", !.mine = Scored(h.mine, point)])
        PROVE  PatientInv'
    <3> DEFINE c == [h EXCEPT !.stage = "store", !.mine = Scored(h.mine, point)]
    <3>1. c \in Sound
      BY <2>2, <2>4, ScoredBounded, SoundUpdates DEF Stages
    <3>2. c.socket = h.socket /\ c.mine = Scored(status[h.socket], point)
      BY <2>2 DEF Sound, Submission
    <3>3. Fresh(c, status)
      BY <2>2, <2>4, <3>2 DEF Sound, Submission, Fresh
    <3> QED
      BY <2>1, <2>2, <2>4, <3>1, <3>2, <3>3, PatientFrontMoves
  <2> QED
    BY <1>7, <2>3, <2>4 DEF ReadQuestions
<1>8. CASE StoreStatus
  <2> DEFINE c == [h EXCEPT !.stage = "statusA"]
             after == [status EXCEPT ![h.socket] = h.mine]
  <2>1. Reply("store") /\ pipe' = Append(Tail(pipe), c) /\ status' = after
    BY <1>8 DEF StoreStatus, Goto
  <2>2. h \in Sound /\ h.stage = "store" /\ h.socket \in Players /\ pipe # <<>>
    BY <1>a, <2>1 DEF PlayerStages
  <2>3. c \in Sound
    BY <2>2, SoundUpdates, InitialStatusBounded DEF Stages
  <2>4. c.socket = h.socket /\ Fresh(c, after)
    BY <2>2 DEF Sound, Submission, Fresh
  <2>5. \A i \in 2..Len(pipe) : Fresh(pipe[i], after)
    BY <2>2, PatientFront, StoreKeepsFresh DEF BoundsInv
  <2>6. Patient(Append(Tail(pipe), c), after)
    BY <2>2, <2>3, <2>4, <2>5, PatientRotates DEF PatientInv, BoundsInv
  <2> QED
    BY <2>1, <2>6 DEF PatientInv
<1>9. CASE ReadStatusA
  <2> DEFINE c == [h EXCEPT !.stage = "statusB", !.seen = status[SocketA]]
  <2>1. Reply("statusA") /\ pipe' = Append(Tail(pipe), c) /\ status' = status
    BY <1>9 DEF ReadStatusA
  <2>2. /\ h \in Sound /\ h.socket \in Players /\ pipe # <<>>
        /\ status[SocketA] \in Bounded
    BY <1>a, <2>1 DEF PlayerStages, BoundsInv, Players
  <2>3. c \in Sound
    BY <2>2, SoundUpdates DEF Stages
  <2>4. c.socket = h.socket /\ Fresh(c, status)
    BY <2>2 DEF Sound, Submission, Fresh
  <2> QED
    BY <2>1, <2>2, <2>3, <2>4, PatientFrontMoves
<1>10. CASE Broadcast
  BY <1>10, <1>a, PatientFrontMoves DEF Broadcast
<1>11. CASE RunUnanswered
  <2> DEFINE call == pipe[ran + 1]
             after == [status EXCEPT ![call.socket] = call.mine]
  <2>1. ran + 1 \in 1..Len(pipe) /\ pipe' = pipe
    BY <1>11, LenProperties DEF RunUnanswered, BoundsInv
  <2>2. \A i \in 1..Len(pipe) : /\ pipe[i] \in Sound /\ Fresh(pipe[i], status)
                                /\ i # ran + 1 => pipe[i].socket # call.socket
    BY <2>1, ElementOfSeq DEF PatientInv, Patient, BoundsInv
  <2>3. CASE call.stage # "store"
    BY <1>11, <2>1, <2>3 DEF RunUnanswered, PatientInv
  <2>4. CASE call.stage = "store"
    <3>1. \A i \in 1..Len(pipe) : Fresh(pipe[i], after)
      BY <2>1, <2>2, <2>4, StoreKeepsFresh DEF BoundsInv
    <3>2. Patient(pipe, after)
      BY <3>1 DEF PatientInv, Patient
    <3> QED
      BY <1>11, <2>1, <2>4, <3>2 DEF RunUnanswered, PatientInv
  <2> QED
    BY <2>3, <2>4
<1>12. CASE Reject
  <2>1. pipe # <<>> /\ status' = status
    BY <1>12, EmptySeq DEF Reject, BoundsInv
  <2>2. CASE Finish
    BY <2>1, <2>2, PatientFrontMoves
  <2>3. CASE Goto("playerA")
    BY <2>1, <2>3, PatientGoto DEF Stages, PlayerStages
  <2> QED
    BY <1>12, <2>2, <2>3 DEF Reject
<1>13. CASE FallSilent \/ Reconnect \/ GiveUp \/ Recover \/ UNCHANGED vars
  BY <1>13 DEF FallSilent, Reconnect, GiveUp, Recover, vars, PatientInv
<1> QED
  BY <1>1, <1>2, <1>3, <1>4, <1>5, <1>6, <1>7, <1>8, <1>9, <1>10, <1>11, <1>12,
     <1>13 DEF Next, Serve, Settle

-----------------------------------------------------------------------------
(* The refinement                                                          *)

LEMMA QuizInitial == Init => Quiz!QuizInit
  BY DEF Init, Quiz!QuizInit, Quiz!QuizStart, initialPlayerStatus

\* A store that is fresh is an answer of the abstract match, or nothing.
LEMMA StoreAnswers ==
    ASSUME BoundsInv, NEW call \in Sound, call.stage = "store", Fresh(call, status),
           status' = [status EXCEPT ![call.socket] = call.mine]
    PROVE  Quiz!QuizNext \/ status' = status
<1>1. call.socket \in Players /\ status \in [Players -> Bounded]
  BY DEF Sound, PlayerStages, BoundsInv
<1>2. CASE call.mine = status[call.socket]
  BY <1>1, <1>2
<1>3. ASSUME status[call.socket].activeQuestionIndex < NumQuestions,
             NEW point \in {0, 1}, call.mine = Scored(status[call.socket], point)
      PROVE  Quiz!QuizNext
  <2>1. Quiz!Answer(call.socket)
    BY <1>3 DEF Quiz!Answer, Scored
  <2> QED
    BY <1>1, <2>1 DEF Quiz!QuizNext
<1> QED
  BY <1>2, <1>3 DEF Fresh

LEMMA QuizSteps ==
    BoundsInv /\ PatientInv /\ [Next]_vars => [Quiz!QuizNext]_status
<1> SUFFICES ASSUME BoundsInv, PatientInv, [Next]_vars
             PROVE  Quiz!QuizNext \/ status' = status
  OBVIOUS
<1>1. CASE StoreStatus
  <2>1. /\ pipe # <<>> /\ Head(pipe).stage = "store"
        /\ status' = [status EXCEPT ![Head(pipe).socket] = Head(pipe).mine]
    BY <1>1 DEF StoreStatus, Reply
  <2> QED
    BY <2>1, PatientFront, StoreAnswers
<1>2. CASE RunUnanswered
  <2>1. ran + 1 \in 1..Len(pipe)
    BY <1>2, LenProperties DEF RunUnanswered, BoundsInv
  <2>2. pipe[ran + 1] \in Sound /\ Fresh(pipe[ran + 1], status)
    BY <2>1, ElementOfSeq DEF PatientInv, Patient, BoundsInv
  <2> QED
    BY <1>2, <2>2, StoreAnswers DEF RunUnanswered
<1> QED
  BY <1>1, <1>2
     DEF Next, Serve, Settle, Submit, ReadRooms, ReadPlayerA, ReadPlayerB, ReadStatus,
         ReadAnswers, ReadQuestions, ReadStatusA, Broadcast, FallSilent, Reconnect,
         GiveUp, Reject, Recover, vars

THEOREM PatientInvariant == OneAtATime => (Spec => [](BoundsInv /\ PatientInv))
<1>1. OneAtATime /\ BoundsInv /\ PatientInv /\ [Next]_vars => BoundsInv' /\ PatientInv'
  BY BoundsStep, PatientStep
<1>2. Init => BoundsInv /\ PatientInv
  BY BoundsInit, PatientInit
<1> SUFFICES ASSUME OneAtATime PROVE Spec => [](BoundsInv /\ PatientInv)
  OBVIOUS
<1>3. BoundsInv /\ PatientInv /\ [Next]_vars => BoundsInv' /\ PatientInv'
  BY <1>1
<1> QED
  BY <1>2, <1>3, PTL DEF Spec

\* If every player waits for an update before answering again, the handler's
\* chain of commands behaves like one atomic answer: also when a store is run
\* unanswered, sent again after a reconnect, or rejected.
THEOREM ImplementsQuiz == OneAtATime => (Spec => ImplementsQuizMatch)
<1> SUFFICES ASSUME OneAtATime PROVE Spec => ImplementsQuizMatch
  OBVIOUS
<1>1. Spec => [](BoundsInv /\ PatientInv)
  BY PatientInvariant
<1> QED
  BY <1>1, QuizInitial, QuizSteps, PTL DEF Spec, ImplementsQuizMatch, Quiz!QuizSpec
=============================================================================
