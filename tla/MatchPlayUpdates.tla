-------------------------- MODULE MatchPlayUpdates --------------------------
(***************************************************************************)
(* What the clients of a match see: it never goes back, and once every     *)
(* submission has been handled it agrees with Redis and says whether the   *)
(* match is over.  For every set of sockets, every number of questions and *)
(* every number of overlapping submissions of MatchPlay.                   *)
(***************************************************************************)
EXTENDS MatchPlayProofs

Index(standing) == standing.activeQuestionIndex

\* A handler about to broadcast holds player A's status since its last await.
\* Those in q hold indexes from low to high, in the order they will broadcast.
SeenInOrder(q, low, high) ==
    /\ \A i \in 1..Len(q) : q[i].stage = "statusB" =>
           low <= Index(q[i].seen) /\ Index(q[i].seen) <= high
    /\ \A i, j \in 1..Len(q) :
           i < j /\ q[i].stage = "statusB" /\ q[j].stage = "statusB" =>
               Index(q[i].seen) <= Index(q[j].seen)

\* Nothing shown is ahead of Redis, and what will be shown of player A lies in
\* between.  (A store that a reconnect repeats may take Redis back.)
ShownInv ==
    ~resent =>
        /\ \A p \in Players : Index(update.shown[p]) <= Index(status[p])
        /\ SeenInOrder(pipe, Index(update.shown[SocketA]), Index(status[SocketA]))

-----------------------------------------------------------------------------
(* The pipeline                                                            *)

LEMMA IndexNat == \A standing \in Bounded : Index(standing) \in Nat
  BY DEF Index, Bounded, Standing

\* The front handler leaves; if it broadcasts, what it holds is the new bound.
LEMMA SeenDrops ==
    ASSUME NEW q \in Seq(Sound), q # <<>>, NEW low \in Nat, NEW high \in Nat,
           SeenInOrder(q, low, high), NEW next \in Nat,
           next = low \/ (Head(q).stage = "statusB" /\ next = Index(Head(q).seen))
    PROVE  SeenInOrder(Tail(q), next, high)
<1> DEFINE r == Tail(q)
           n == Len(q)
<1>1. /\ n \in Nat \ {0} /\ Len(r) = n - 1 /\ \A i \in 1..(n - 1) : r[i] = q[i + 1]
      /\ Head(q) = q[1]
  BY PipeFinishes
<1>2. /\ \A i \in 1..n : q[i].stage = "statusB" =>
             low <= Index(q[i].seen) /\ Index(q[i].seen) <= high
      /\ \A i, j \in 1..n :
             i < j /\ q[i].stage = "statusB" /\ q[j].stage = "statusB" =>
                 Index(q[i].seen) <= Index(q[j].seen)
  BY DEF SeenInOrder
<1> HIDE DEF r, n
<1>3. \A i \in 1..(n - 1) : i + 1 \in 1..n /\ 1 < i + 1 /\ 1 \in 1..n
  BY <1>1
<1>4. ASSUME NEW i \in 1..(n - 1), r[i].stage = "statusB"
      PROVE  next <= Index(r[i].seen) /\ Index(r[i].seen) <= high
  BY <1>1, <1>2, <1>3, <1>4
<1>5. ASSUME NEW i \in 1..(n - 1), NEW j \in 1..(n - 1), i < j,
             r[i].stage = "statusB", r[j].stage = "statusB"
      PROVE  Index(r[i].seen) <= Index(r[j].seen)
  <2>1. i + 1 < j + 1 /\ i + 1 \in 1..n /\ j + 1 \in 1..n
    BY <1>1, <1>5
  <2> QED
    BY <1>1, <1>2, <1>5, <2>1
<1>6. SeenInOrder(r, next, high)
  BY <1>1, <1>4, <1>5 DEF SeenInOrder
<1> QED
  BY <1>6 DEF r

\* A handler joins at the end; if it has just read player A's status, that is
\* the highest.
LEMMA SeenGrows ==
    ASSUME NEW q \in Seq(Sound), NEW c \in Sound, NEW low \in Nat, NEW high \in Nat,
           SeenInOrder(q, low, high), low <= high,
           c.stage = "statusB" => Index(c.seen) = high
    PROVE  SeenInOrder(Append(q, c), low, high)
<1> DEFINE r == Append(q, c)
           n == Len(q)
<1>1. n \in Nat /\ Len(r) = n + 1 /\ (\A i \in 1..n : r[i] = q[i]) /\ r[n + 1] = c
  BY PipeGrows
<1>2. /\ \A i \in 1..n : q[i].stage = "statusB" =>
             low <= Index(q[i].seen) /\ Index(q[i].seen) <= high
      /\ \A i, j \in 1..n :
             i < j /\ q[i].stage = "statusB" /\ q[j].stage = "statusB" =>
                 Index(q[i].seen) <= Index(q[j].seen)
  BY DEF SeenInOrder
<1> HIDE DEF r, n
<1>3. \A i \in 1..(n + 1) : i = n + 1 \/ i \in 1..n
  BY <1>1
<1>4. ASSUME NEW i \in 1..(n + 1), r[i].stage = "statusB"
      PROVE  low <= Index(r[i].seen) /\ Index(r[i].seen) <= high
  BY <1>1, <1>2, <1>3, <1>4
<1>5. ASSUME NEW i \in 1..(n + 1), NEW j \in 1..(n + 1), i < j,
             r[i].stage = "statusB", r[j].stage = "statusB"
      PROVE  Index(r[i].seen) <= Index(r[j].seen)
  <2>1. i \in 1..n
    BY <1>1, <1>5
  <2> QED
    BY <1>1, <1>2, <1>3, <1>5, <2>1
<1>6. SeenInOrder(r, low, high)
  BY <1>1, <1>4, <1>5 DEF SeenInOrder
<1> QED
  BY <1>6 DEF r

\* Redis moves on.
LEMMA SeenRises ==
    ASSUME NEW q \in Seq(Sound), NEW low \in Nat, NEW high \in Nat, NEW higher \in Nat,
           SeenInOrder(q, low, high), high <= higher
    PROVE  SeenInOrder(q, low, higher)
<1>1. \A i \in 1..Len(q) : Index(q[i].seen) \in Nat
  BY ElementOfSeq, IndexNat DEF Sound
<1>2. \A k \in Nat : k <= high => k <= higher
  OBVIOUS
<1> QED
  BY <1>1, <1>2 DEF SeenInOrder

-----------------------------------------------------------------------------
(* The invariant is inductive                                              *)

LEMMA ShownInit == Init => ShownInv
<1> SUFFICES ASSUME Init PROVE ShownInv
  OBVIOUS
<1>1. Len(pipe) = 0
  BY EmptySeq DEF Init
<1>2. \A p \in Players : update.shown[p] = status[p] /\ Index(status[p]) \in Nat
  BY DEF Init, initialPlayerStatus, Index
<1> QED
  BY <1>1, <1>2 DEF ShownInv, SeenInOrder

LEMMA IndexesNat ==
    ASSUME BoundsInv
    PROVE  /\ \A p \in Players : Index(status[p]) \in Nat /\ Index(update.shown[p]) \in Nat
           /\ SocketA \in Players /\ SocketB \in Players
  BY IndexNat DEF BoundsInv, Players

\* The front handler goes on to another command than the last one, or ends.
LEMMA ShownMoves ==
    ASSUME BoundsInv, ShownInv, ~resent, pipe # <<>>,
           status' = status, update' = update,
           \/ Finish
           \/ \E c \in Sound : /\ c.stage = "statusB" => Index(c.seen) = Index(status[SocketA])
                               /\ pipe' = Append(Tail(pipe), c)
    PROVE  ShownInv'
<1> DEFINE low == Index(update.shown[SocketA])
           high == Index(status[SocketA])
<1>1. low \in Nat /\ high \in Nat /\ low <= high /\ pipe \in Seq(Sound)
      /\ SeenInOrder(pipe, low, high)
  BY IndexesNat DEF ShownInv, BoundsInv
<1>2. SeenInOrder(Tail(pipe), low, high) /\ Tail(pipe) \in Seq(Sound)
  BY <1>1, SeenDrops, PipeFinishes
<1>3. SeenInOrder(pipe', low, high)
  BY <1>1, <1>2, SeenGrows DEF Finish
<1> QED
  BY <1>3 DEF ShownInv

LEMMA ShownGoto ==
    ASSUME BoundsInv, ShownInv, ~resent, pipe # <<>>,
           status' = status, update' = update,
           NEW next \in Stages \ {"statusB"},
           next \in PlayerStages => Head(pipe).socket \in Players, Goto(next)
    PROVE  ShownInv'
<1>1. Head(pipe) \in Sound
  BY PipeSteps
<1>2. [Head(pipe) EXCEPT !.stage = next] \in Sound
  BY <1>1, SoundUpdates, InitialStatusBounded
<1>3. [Head(pipe) EXCEPT !.stage = next].stage = next
  BY <1>1 DEF Sound, Submission
<1> QED
  BY <1>2, <1>3, ShownMoves DEF Goto

\* Redis moves forward, and the pipeline does not change.
LEMMA ShownRises ==
    ASSUME BoundsInv, ShownInv, ~resent, BoundsInv', pipe' = pipe, update' = update,
           \A p \in Players : Index(status[p]) <= Index(status'[p])
    PROVE  ShownInv'
<1>1. /\ \A p \in Players : /\ Index(status[p]) \in Nat /\ Index(status'[p]) \in Nat
                            /\ Index(update.shown[p]) \in Nat
      /\ SocketA \in Players /\ pipe \in Seq(Sound)
  BY IndexNat DEF BoundsInv, Players
<1>2. SeenInOrder(pipe, Index(update.shown[SocketA]), Index(status'[SocketA]))
  BY <1>1, SeenRises DEF ShownInv
<1>3. \A p \in Players : Index(update.shown[p]) <= Index(status'[p])
  BY <1>1 DEF ShownInv
<1> QED
  BY <1>2, <1>3 DEF ShownInv

\* A broadcast shows what is between what was shown and what is stored.
LEMMA ShownBroadcast ==
    ASSUME BoundsInv, ShownInv, ~resent, Broadcast
    PROVE  /\ ShownInv'
           /\ \A p \in Players : Index(update.shown[p]) <= Index(update'.shown[p])
<1> DEFINE h == Head(pipe)
           low == Index(update.shown[SocketA])
           high == Index(status[SocketA])
           next == Index(h.seen)
<1>1. /\ pipe # <<>> /\ h.stage = "statusB" /\ pipe' = Tail(pipe) /\ status' = status
      /\ \A p \in Players : update'.shown[p] = IF p = SocketA THEN h.seen ELSE status[SocketB]
  BY DEF Broadcast, Reply, Finish
<1>2. /\ low \in Nat /\ high \in Nat /\ pipe \in Seq(Sound)
      /\ SeenInOrder(pipe, low, high)
  BY IndexesNat DEF ShownInv, BoundsInv
<1>3. h \in Sound /\ h = pipe[1] /\ 1 \in 1..Len(pipe)
  BY <1>1, <1>2, PipeFinishes
<1>4. next \in Nat /\ low <= next /\ next <= high
  BY <1>1, <1>2, <1>3, IndexNat DEF SeenInOrder, Sound
<1>5. SeenInOrder(pipe', next, high)
  BY <1>1, <1>2, <1>4, SeenDrops
<1>6. /\ update'.shown[SocketA] = h.seen /\ update'.shown[SocketB] = status[SocketB]
      /\ \A p \in Players : p = SocketA \/ p = SocketB
  BY <1>1, PlayersAssumption DEF Players
<1>7. ASSUME NEW p \in Players
      PROVE  /\ Index(update'.shown[p]) <= Index(status'[p])
             /\ Index(update.shown[p]) <= Index(update'.shown[p])
  <2>1. CASE p = SocketA
    BY <1>1, <1>4, <1>6, <2>1
  <2>2. CASE p = SocketB
    BY <1>1, <1>6, <2>2, IndexesNat DEF ShownInv
  <2> QED
    BY <1>6, <2>1, <2>2
<1> QED
  BY <1>1, <1>5, <1>6, <1>7 DEF ShownInv

LEMMA ShownStep == BoundsInv /\ OrderInv /\ ShownInv /\ [Next]_vars => ShownInv'
<1> SUFFICES ASSUME BoundsInv, OrderInv, ShownInv, [Next]_vars, ~resent PROVE ShownInv'
  BY ResentStays DEF ShownInv
<1>0. BoundsInv' /\ \A p \in Players : Index(status[p]) <= Index(status'[p])
  <2>1. BoundsInv'
    BY BoundsStep
  <2>2. ASSUME NEW p \in Players PROVE Index(status[p]) <= Index(status'[p])
    <3>1. Index(status[p]) \in Nat /\ Index(status'[p]) \in Nat
      BY <2>1, IndexNat DEF BoundsInv
    <3>2. Index(status'[p]) - Index(status[p]) \in {0, 1}
      BY OrderedProgress DEF Index
    <3> QED
      BY <3>1, <3>2
  <2> QED
    BY <2>1, <2>2
<1> DEFINE h == Head(pipe)
<1>a. ASSUME NEW stage, Reply(stage)
      PROVE  /\ pipe # <<>> /\ h \in Sound /\ h.stage = stage
             /\ stage \in PlayerStages => h.socket \in Players
  <2>1. pipe # <<>> /\ h.stage = stage
    BY <1>a DEF Reply
  <2> QED
    BY <2>1, PipeSteps, PlayerAtFront
<1>1. ASSUME NEW s \in Sockets, Submit(s) PROVE ShownInv'
  <2>1. PICK first \in {"rooms", "playerA"} :
            pipe' = Append(pipe, [socket |-> s, stage |-> first,
                                  mine |-> initialPlayerStatus,
                                  seen |-> initialPlayerStatus])
    BY <1>1 DEF Submit
  <2> DEFINE c == [socket |-> s, stage |-> first, mine |-> initialPlayerStatus,
                   seen |-> initialPlayerStatus]
  <2>2. c \in Sound /\ c.stage # "statusB"
    BY InitialStatusBounded DEF Sound, Submission, Stages, PlayerStages, Bounded
  <2>3. SeenInOrder(Append(pipe, c), Index(update.shown[SocketA]), Index(status[SocketA]))
    BY <2>2, SeenGrows, IndexesNat DEF ShownInv, BoundsInv
  <2> QED
    BY <1>1, <2>1, <2>3 DEF Submit, ShownInv
<1>2. CASE ReadRooms
  BY <1>2, <1>a, ShownGoto, ShownMoves DEF ReadRooms, Stages, PlayerStages
<1>3. CASE ReadPlayerA
  BY <1>3, <1>a, ShownGoto DEF ReadPlayerA, Stages, PlayerStages
<1>4. CASE ReadPlayerB
  BY <1>4, <1>a, ShownGoto, ShownMoves DEF ReadPlayerB, Stages
<1>5. CASE ReadStatus
  <2> DEFINE c == [h EXCEPT !.stage = "answers", !.mine = status[h.socket]]
  <2>1. /\ Reply("status") /\ pipe' = Append(Tail(pipe), c)
        /\ status' = status /\ update' = update
    BY <1>5 DEF ReadStatus
  <2>2. h \in Sound /\ h.socket \in Players /\ pipe # <<>>
    BY <1>a, <2>1 DEF PlayerStages
  <2>3. c \in Sound
    BY <2>2, SoundUpdates DEF BoundsInv, Stages
  <2>4. c.stage # "statusB"
    BY <2>2 DEF Sound, Submission
  <2> QED
    BY <2>1, <2>2, <2>3, <2>4, ShownMoves
<1>6. CASE ReadAnswers
  BY <1>6, <1>a, ShownGoto DEF ReadAnswers, Stages, PlayerStages
<1>7. CASE ReadQuestions
  <2>1. Reply("questions") /\ status' = status /\ update' = update
    BY <1>7 DEF ReadQuestions
  <2>2. h \in Sound /\ h.socket \in Players /\ pipe # <<>> /\ h.mine \in Bounded
    BY <1>a, <2>1 DEF PlayerStages, Sound
  <2>3. CASE Finish
    BY <2>1, <2>2, <2>3, ShownMoves
  <2>4. ASSUME h.mine.activeQuestionIndex < NumQuestions, NEW point \in {0, 1},
               pipe' = Append(Tail(pipe), [h EXCEPT
                   !.stage = "store", !.mine = Scored(h.mine, point)])
        PROVE  ShownInv'
    <3> DEFINE c == [h EXCEPT !.stage = "store", !.mine = Scored(h.mine, point)]
    <3>1. c \in Sound
      BY <2>2, <2>4, ScoredBounded, SoundUpdates DEF Stages
    <3>2. c.stage # "statusB"
      BY <2>2 DEF Sound, Submission
    <3> QED
      BY <2>1, <2>2, <2>4, <3>1, <3>2, ShownMoves
  <2> QED
    BY <1>7, <2>3, <2>4 DEF ReadQuestions
<1>8. CASE StoreStatus
  <2> DEFINE c == [h EXCEPT !.stage = "statusA"]
             low == Index(update.shown[SocketA])
             high == Index(status[SocketA])
             higher == Index(status'[SocketA])
  <2>1. Reply("store") /\ pipe' = Append(Tail(pipe), c) /\ update' = update
    BY <1>8 DEF StoreStatus, Goto
  <2>2. h \in Sound /\ h.socket \in Players /\ pipe # <<>> /\ pipe \in Seq(Sound)
    BY <1>a, <2>1 DEF PlayerStages, BoundsInv
  <2>3. c \in Sound
    BY <2>2, SoundUpdates, InitialStatusBounded DEF Stages
  <2>4. c.stage # "statusB"
    BY <2>2 DEF Sound, Submission
  <2>5. /\ \A p \in Players : /\ Index(status[p]) \in Nat /\ Index(status'[p]) \in Nat
                              /\ Index(update.shown[p]) \in Nat
        /\ SocketA \in Players
    BY <1>0, IndexNat DEF BoundsInv, Players
  <2>6. low \in Nat /\ high \in Nat /\ higher \in Nat /\ low <= high /\ high <= higher
    BY <1>0, <2>5 DEF ShownInv
  <2>7. SeenInOrder(Tail(pipe), low, high) /\ Tail(pipe) \in Seq(Sound)
    BY <2>2, <2>6, SeenDrops, PipeFinishes DEF ShownInv
  <2>8. SeenInOrder(pipe', low, high)
    BY <2>1, <2>3, <2>4, <2>6, <2>7, SeenGrows
  <2>9. SeenInOrder(pipe', low, higher)
    BY <1>0, <2>6, <2>8, SeenRises DEF BoundsInv
  <2>10. \A p \in Players : Index(update.shown[p]) <= Index(status'[p])
    BY <1>0, <2>5 DEF ShownInv
  <2> QED
    BY <2>1, <2>9, <2>10 DEF ShownInv
<1>9. CASE ReadStatusA
  <2> DEFINE c == [h EXCEPT !.stage = "statusB", !.seen = status[SocketA]]
  <2>1. /\ Reply("statusA") /\ pipe' = Append(Tail(pipe), c)
        /\ status' = status /\ update' = update
    BY <1>9 DEF ReadStatusA
  <2>2. /\ h \in Sound /\ h.socket \in Players /\ pipe # <<>>
        /\ status[SocketA] \in Bounded
    BY <1>a, <2>1 DEF PlayerStages, BoundsInv, Players
  <2>3. c \in Sound
    BY <2>2, SoundUpdates DEF Stages
  <2>4. c.seen = status[SocketA]
    BY <2>2 DEF Sound, Submission
  <2> QED
    BY <2>1, <2>2, <2>3, <2>4, ShownMoves
<1>10. CASE Broadcast
  BY <1>10, ShownBroadcast
<1>11. CASE RunUnanswered
  BY <1>0, <1>11, ShownRises DEF RunUnanswered
<1>12. CASE Reject
  <2>1. pipe # <<>> /\ status' = status /\ update' = update
    BY <1>12, EmptySeq DEF Reject, BoundsInv
  <2>2. CASE Finish
    BY <2>1, <2>2, ShownMoves
  <2>3. CASE Goto("playerA")
    BY <2>1, <2>3, ShownGoto DEF Stages, PlayerStages
  <2> QED
    BY <1>12, <2>2, <2>3 DEF Reject
<1>13. CASE FallSilent \/ GiveUp \/ Recover \/ UNCHANGED vars
  BY <1>13 DEF FallSilent, GiveUp, Recover, vars, ShownInv
<1>14. CASE Reconnect
  BY <1>14 DEF Reconnect, ShownInv
<1> QED
  BY <1>1, <1>2, <1>3, <1>4, <1>5, <1>6, <1>7, <1>8, <1>9, <1>10, <1>11, <1>12,
     <1>13, <1>14 DEF Next, Serve, Settle

THEOREM ShownInvariant == Spec => [](BoundsInv /\ OrderInv /\ ShownInv)
  BY BoundsInit, BoundsStep, OrderInit, OrderStep, ShownInit, ShownStep, PTL DEF Spec

LEMMA ShownForward ==
    ASSUME BoundsInv, ShownInv, [Next]_vars, ~resent, NEW p \in Players
    PROVE  update.shown[p].activeQuestionIndex <= update'.shown[p].activeQuestionIndex
<1>1. CASE Broadcast
  BY <1>1, ShownBroadcast DEF Index
<1>2. CASE update' = update
  BY <1>2, IndexesNat DEF Index
<1> QED
  BY <1>1, <1>2
     DEF Next, Serve, Settle, Submit, ReadRooms, ReadPlayerA, ReadPlayerB, ReadStatus,
         ReadAnswers, ReadQuestions, StoreStatus, ReadStatusA, FallSilent,
         RunUnanswered, Reconnect, GiveUp, Reject, Recover, vars

\* Whichever of the overlapping handlers broadcasts last, the clients of a match
\* never see a player's question index go back, until a reconnect repeats stores.
THEOREM UpdatesStayInOrder == Spec => UpdatesInOrder
<1>1. BoundsInv /\ ShownInv /\ [Next]_vars =>
          [~resent => \A p \in Players :
              update.shown[p].activeQuestionIndex
                  <= update'.shown[p].activeQuestionIndex]_vars
  BY ShownForward
<1> QED
  BY <1>1, ShownInvariant, PTL DEF Spec, UpdatesInOrder

-----------------------------------------------------------------------------
(* What the last broadcast says                                            *)

Last(k, stage) ==
    /\ k \in DOMAIN pipe /\ pipe[k].stage = stage
    /\ \A j \in DOMAIN pipe : k < j => pipe[j].stage # stage

Nobody(stage) == \A k \in DOMAIN pipe : pipe[k].stage # stage

\* A handler whose store is the last one of its player.
Current(c) == c.mine = status[c.socket]

UpToDate ==
    /\ update.shown = status
    /\ \E p \in Players :
          update.isMatchComplete <=> status[p].activeQuestionIndex >= NumQuestions

\* Who stored last will read player A's status last and broadcast last.  (While a
\* store is to come nothing is claimed; a rejection may end that handler.)
AnnounceInv ==
    /\ link = "rejecting" => gaveUp
    /\ ~gaveUp /\ Nobody("store") =>
          /\ \A k \in DOMAIN pipe : Last(k, "statusA") => Current(pipe[k])
          /\ Nobody("statusA") =>
                /\ \A k \in DOMAIN pipe : Last(k, "statusB") =>
                      Current(pipe[k]) /\ pipe[k].seen = status[SocketA]
                /\ Nobody("statusB") => UpToDate

Announcing == {"store", "statusA", "statusB"}

\* The handlers behind the front, and the front handler itself if it goes on as c.
LEMMA Rotation ==
    ASSUME BoundsInv, pipe # <<>>, NEW c \in Sound,
           Finish \/ pipe' = Append(Tail(pipe), c)
    PROVE  /\ 1 \in DOMAIN pipe /\ Head(pipe) = pipe[1]
           /\ \A k \in DOMAIN pipe : k \in Nat \ {0}
           /\ \A k \in DOMAIN pipe' : k \in Nat \ {0}
           /\ \A k \in DOMAIN pipe : k # 1 => k - 1 \in DOMAIN pipe' /\ pipe'[k - 1] = pipe[k]
           /\ Finish => \A k \in DOMAIN pipe' : k + 1 \in DOMAIN pipe /\ pipe'[k] = pipe[k + 1]
           /\ ~Finish =>
                /\ Len(pipe) \in DOMAIN pipe' /\ pipe'[Len(pipe)] = c
                /\ \A k \in DOMAIN pipe' : k # Len(pipe) =>
                      k + 1 \in DOMAIN pipe /\ pipe'[k] = pipe[k + 1] /\ k < Len(pipe)
<1>1. /\ Len(pipe) \in Nat \ {0} /\ DOMAIN pipe = 1..Len(pipe) /\ Head(pipe) = pipe[1]
      /\ pipe \in Seq(Sound)
  BY PipeFinishes DEF BoundsInv
<1>2. CASE Finish
  <2>1. /\ DOMAIN pipe' = 1..Len(pipe) - 1
        /\ \A k \in 1..Len(pipe) - 1 : pipe'[k] = pipe[k + 1]
    BY <1>1, <1>2, PipeFinishes DEF Finish
  <2>. QED  BY <1>1, <1>2, <2>1
<1>3. CASE ~Finish
  <2>1. /\ DOMAIN pipe' = 1..Len(pipe) /\ pipe'[Len(pipe)] = c
        /\ \A k \in 1..Len(pipe) - 1 : pipe'[k] = pipe[k + 1]
    BY <1>1, <1>3, PipeGoesOn
  <2>. QED  BY <1>1, <1>3, <2>1
<1>. QED  BY <1>2, <1>3

LEMMA LastBefore ==
    ASSUME BoundsInv, pipe # <<>>, NEW c \in Sound,
           Finish \/ pipe' = Append(Tail(pipe), c),
           NEW stage, Finish \/ c.stage # stage, NEW k \in DOMAIN pipe', Last(k, stage)'
    PROVE  k + 1 \in DOMAIN pipe /\ pipe'[k] = pipe[k + 1] /\ Last(k + 1, stage)
<1>1. pipe'[k].stage = stage /\ \A j \in DOMAIN pipe' : k < j => pipe'[j].stage # stage
  BY DEF Last
<1>2. k + 1 \in DOMAIN pipe /\ pipe'[k] = pipe[k + 1] /\ k \in Nat
  BY <1>1, Rotation
<1>3. ASSUME NEW j \in DOMAIN pipe, k + 1 < j PROVE pipe[j].stage # stage
  <2>1. j \in Nat
    BY Rotation
  <2>2. j # 1 /\ k < j - 1
    BY <1>2, <1>3, <2>1
  <2>. QED  BY <1>1, <2>2, Rotation
<1>. QED  BY <1>1, <1>2, <1>3 DEF Last

LEMMA NobodyBefore ==
    ASSUME BoundsInv, pipe # <<>>, NEW c \in Sound,
           Finish \/ pipe' = Append(Tail(pipe), c),
           NEW stage, Nobody(stage)'
    PROVE  IF Head(pipe).stage = stage THEN Last(1, stage) ELSE Nobody(stage)
<1>1. \A k \in DOMAIN pipe : k # 1 => pipe[k].stage # stage
  BY Rotation DEF Nobody
<1>. QED  BY <1>1, Rotation DEF Nobody, Last

LEMMA LastAtEnd ==
    ASSUME BoundsInv, pipe # <<>>, NEW c \in Sound, ~Finish,
           pipe' = Append(Tail(pipe), c), NEW k \in DOMAIN pipe', Last(k, c.stage)'
    PROVE  pipe'[k] = c
  BY Rotation DEF Last

LEMMA SomebodyAtEnd ==
    ASSUME BoundsInv, pipe # <<>>, NEW c \in Sound, ~Finish,
           pipe' = Append(Tail(pipe), c)
    PROVE  ~Nobody(c.stage)'
  BY Rotation DEF Nobody

LEMMA GoingOnIsNotFinish ==
    ASSUME BoundsInv, pipe # <<>>, NEW c \in Sound, pipe' = Append(Tail(pipe), c)
    PROVE  ~Finish
<1>1. Len(pipe) \in Nat /\ Len(pipe) - 1 # Len(pipe)
  BY PipeFinishes DEF BoundsInv
<1>2. Len(Tail(pipe)) = Len(pipe) - 1 /\ Len(Append(Tail(pipe), c)) = Len(pipe)
  BY PipeSteps
<1>. QED  BY <1>1, <1>2 DEF Finish

\* Handlers before their store, and those that end without one.
LEMMA AnnounceMoves ==
    ASSUME BoundsInv, AnnounceInv, pipe # <<>>, NEW c \in Sound,
           Finish \/ pipe' = Append(Tail(pipe), c),
           gaveUp' \/ (Head(pipe).stage \notin Announcing /\ c.stage \notin {"statusA", "statusB"}),
           status' = status, update' = update, gaveUp' = gaveUp, link' = link
    PROVE  AnnounceInv'
<1>. SUFFICES ASSUME ~gaveUp', Nobody("store")'
              PROVE  /\ \A k \in DOMAIN pipe' : Last(k, "statusA")' => Current(pipe[k])'
                     /\ Nobody("statusA")' =>
                           /\ \A k \in DOMAIN pipe' : Last(k, "statusB")' =>
                                 Current(pipe[k])' /\ pipe'[k].seen = status'[SocketA]
                           /\ Nobody("statusB")' => UpToDate'
  BY DEF AnnounceInv
<1>1. Nobody("store") /\ (Nobody("statusA")' => Nobody("statusA"))
      /\ (Nobody("statusB")' => Nobody("statusB"))
  BY NobodyBefore DEF Announcing
<1>2. \A k \in DOMAIN pipe' : Last(k, "statusA")' => Current(pipe[k])'
  BY <1>1, LastBefore DEF AnnounceInv, Current
<1>3. Nobody("statusA")' => \A k \in DOMAIN pipe' : Last(k, "statusB")' =>
         Current(pipe[k])' /\ pipe'[k].seen = status'[SocketA]
  BY <1>1, LastBefore DEF AnnounceInv, Current
<1>4. Nobody("statusA")' /\ Nobody("statusB")' => UpToDate'
  BY <1>1 DEF AnnounceInv, UpToDate
<1>. QED  BY <1>2, <1>3, <1>4

LEMMA AnnounceStored ==
    ASSUME BoundsInv, AnnounceInv, StoreStatus
    PROVE  AnnounceInv'
<1>. DEFINE c == [Head(pipe) EXCEPT !.stage = "statusA"]
<1>1. /\ pipe # <<>> /\ Head(pipe) \in Sound /\ Head(pipe).socket \in Players
      /\ pipe' = Append(Tail(pipe), c) /\ UNCHANGED <<link, gaveUp>>
      /\ status' = [status EXCEPT ![Head(pipe).socket] = Head(pipe).mine]
  BY PipeSteps, PlayerAtFront DEF StoreStatus, Reply, Goto, PlayerStages, linkVars
<1>2. c \in Sound /\ c.stage = "statusA" /\ c.socket = Head(pipe).socket /\ c.mine = Head(pipe).mine
  BY <1>1 DEF Sound, Submission, Stages, PlayerStages
<1>. HIDE DEF c
<1>3. status'[c.socket] = c.mine
  BY <1>1, <1>2 DEF BoundsInv
<1>4. ~Finish
  BY <1>1, <1>2, GoingOnIsNotFinish
<1>5. ~Nobody("statusA")'
  BY <1>1, <1>2, <1>4, SomebodyAtEnd
<1>6. \A k \in DOMAIN pipe' : Last(k, "statusA")' => pipe'[k] = c
  BY <1>1, <1>2, <1>4, LastAtEnd
<1>. QED  BY <1>1, <1>3, <1>5, <1>6 DEF AnnounceInv, Current

LEMMA AnnounceRead ==
    ASSUME BoundsInv, AnnounceInv, ReadStatusA
    PROVE  AnnounceInv'
<1>. DEFINE c == [Head(pipe) EXCEPT !.stage = "statusB", !.seen = status[SocketA]]
<1>1. /\ pipe # <<>> /\ Head(pipe) \in Sound /\ Head(pipe).socket \in Players
      /\ Head(pipe).stage = "statusA" /\ Head(pipe) = pipe[1] /\ 1 \in DOMAIN pipe
      /\ pipe' = Append(Tail(pipe), c) /\ UNCHANGED <<link, gaveUp, status, update>>
  BY PipeSteps, PipeFinishes, PlayerAtFront DEF ReadStatusA, Reply, PlayerStages, linkVars, BoundsInv
<1>2. /\ c \in Sound /\ c.stage = "statusB" /\ c.socket = Head(pipe).socket
      /\ c.mine = Head(pipe).mine /\ c.seen = status[SocketA]
  <2>1. status[SocketA] \in Bounded
    BY DEF BoundsInv, Players
  <2>. QED  BY <1>1, <2>1 DEF Sound, Submission, Stages, PlayerStages, Bounded
<1>. HIDE DEF c
<1>3. ~Finish
  BY <1>1, <1>2, GoingOnIsNotFinish
<1>. SUFFICES ASSUME ~gaveUp', Nobody("store")'
              PROVE  /\ \A k \in DOMAIN pipe' : Last(k, "statusA")' => Current(pipe[k])'
                     /\ Nobody("statusA")' =>
                           /\ \A k \in DOMAIN pipe' : Last(k, "statusB")' =>
                                 Current(pipe[k])' /\ pipe'[k].seen = status'[SocketA]
                           /\ Nobody("statusB")' => UpToDate'
  BY <1>1 DEF AnnounceInv
<1>4. Nobody("store") /\ (Nobody("statusA")' => Last(1, "statusA"))
  BY <1>1, <1>2, NobodyBefore
<1>5. \A k \in DOMAIN pipe' : Last(k, "statusA")' => Current(pipe[k])'
  BY <1>1, <1>2, <1>4, LastBefore DEF AnnounceInv, Current
<1>6. Nobody("statusA")' => c.mine = status'[c.socket]
  BY <1>1, <1>2, <1>4 DEF AnnounceInv, Current
<1>7. \A k \in DOMAIN pipe' : Last(k, "statusB")' => pipe'[k] = c
  BY <1>1, <1>2, <1>3, LastAtEnd
<1>8. ~Nobody("statusB")'
  BY <1>1, <1>2, <1>3, SomebodyAtEnd
<1>. QED  BY <1>1, <1>2, <1>5, <1>6, <1>7, <1>8 DEF Current

LEMMA AnnounceBroadcast ==
    ASSUME BoundsInv, AnnounceInv, Broadcast
    PROVE  AnnounceInv'
<1>. DEFINE h == Head(pipe)
<1>1. /\ pipe # <<>> /\ h \in Sound /\ h.socket \in Players /\ h.stage = "statusB"
      /\ Finish /\ UNCHANGED <<link, gaveUp, status>> /\ h = pipe[1] /\ 1 \in DOMAIN pipe
  BY PipeSteps, PipeFinishes, PlayerAtFront DEF Broadcast, Reply, PlayerStages, linkVars, BoundsInv
<1>2. /\ update'.shown = [p \in Players |-> IF p = SocketA THEN h.seen ELSE status[SocketB]]
      /\ update'.isMatchComplete <=> h.mine.activeQuestionIndex >= NumQuestions
  BY DEF Broadcast
<1>. HIDE DEF h
<1>. SUFFICES ASSUME ~gaveUp', Nobody("store")'
              PROVE  /\ \A k \in DOMAIN pipe' : Last(k, "statusA")' => Current(pipe[k])'
                     /\ Nobody("statusA")' =>
                           /\ \A k \in DOMAIN pipe' : Last(k, "statusB")' =>
                                 Current(pipe[k])' /\ pipe'[k].seen = status'[SocketA]
                           /\ Nobody("statusB")' => UpToDate'
  BY <1>1 DEF AnnounceInv
<1>3. /\ Nobody("store") /\ (Nobody("statusA")' => Nobody("statusA"))
      /\ Nobody("statusB")' => Last(1, "statusB")
  BY <1>1, NobodyBefore DEF h
<1>4. \A k \in DOMAIN pipe' : Last(k, "statusA")' => Current(pipe[k])'
  BY <1>1, <1>3, LastBefore DEF AnnounceInv, Current
<1>5. Nobody("statusA")' => \A k \in DOMAIN pipe' : Last(k, "statusB")' =>
         Current(pipe[k])' /\ pipe'[k].seen = status'[SocketA]
  BY <1>1, <1>3, LastBefore DEF AnnounceInv, Current
<1>6. ASSUME Nobody("statusA")', Nobody("statusB")' PROVE UpToDate'
  <2>1. h.mine = status[h.socket] /\ h.seen = status[SocketA]
    BY <1>1, <1>3, <1>6 DEF AnnounceInv, Current
  <2>2. update'.shown = status
    <3>1. \A p \in Players : update'.shown[p] = status[p]
      BY <1>2, <2>1 DEF Players
    <3>2. update'.shown = [p \in Players |-> update'.shown[p]]
      BY <1>2
    <3>3. status = [p \in Players |-> status[p]]
      BY DEF BoundsInv
    <3>. QED  BY <3>1, <3>2, <3>3
  <2>3. update'.isMatchComplete <=> status[h.socket].activeQuestionIndex >= NumQuestions
    BY <1>2, <2>1
  <2>. QED  BY <1>1, <2>2, <2>3 DEF UpToDate
<1>. QED  BY <1>4, <1>5, <1>6

LEMMA AnnounceInit == Init => AnnounceInv
<1>. SUFFICES ASSUME Init PROVE AnnounceInv
  OBVIOUS
<1>1. DOMAIN pipe = {}
  BY EmptySeq DEF Init
<1>2. update.shown = status /\ update.isMatchComplete = FALSE
  BY DEF Init
<1>3. \A p \in Players : ~(status[p].activeQuestionIndex >= NumQuestions)
  BY NumQuestionsAssumption DEF Init, initialPlayerStatus
<1>4. UpToDate
  BY <1>2, <1>3 DEF UpToDate, Players
<1>. QED  BY <1>1, <1>4 DEF Init, AnnounceInv

LEMMA AnnounceStep == BoundsInv /\ AnnounceInv /\ [Next]_vars => AnnounceInv'
<1>. SUFFICES ASSUME BoundsInv, AnnounceInv, [Next]_vars PROVE AnnounceInv'
  OBVIOUS
<1>. DEFINE h == Head(pipe)
<1>1. ASSUME NEW s \in Sockets, Submit(s) PROVE AnnounceInv'
  <2>1. PICK first \in {"rooms", "playerA"} :
            pipe' = Append(pipe, [socket |-> s, stage |-> first,
                                  mine |-> initialPlayerStatus, seen |-> initialPlayerStatus])
    BY <1>1 DEF Submit
  <2>. DEFINE c == [socket |-> s, stage |-> first,
                    mine |-> initialPlayerStatus, seen |-> initialPlayerStatus]
  <2>2. c \in Sound /\ c.stage \notin Announcing
    BY InitialStatusBounded DEF Sound, Submission, Stages, PlayerStages, Announcing, Bounded
  <2>. HIDE DEF c
  <2>3. /\ DOMAIN pipe' = DOMAIN pipe \cup {Len(pipe) + 1}
        /\ pipe'[Len(pipe) + 1] = c /\ \A k \in DOMAIN pipe : pipe'[k] = pipe[k]
    <3>1. pipe' = Append(pipe, c)
      BY <2>1 DEF c
    <3>2. DOMAIN pipe = 1..Len(pipe) /\ Len(pipe) \in Nat
      BY LenProperties DEF BoundsInv
    <3>3. /\ DOMAIN pipe' = 1..Len(pipe) + 1 /\ pipe'[Len(pipe) + 1] = c
          /\ \A k \in 1..Len(pipe) : pipe'[k] = pipe[k]
      BY <2>2, <3>1, PipeGrows DEF BoundsInv
    <3>. QED  BY <3>2, <3>3
  <2>4. ASSUME NEW stage \in Announcing
        PROVE  /\ Nobody(stage)' => Nobody(stage)
               /\ \A k \in DOMAIN pipe' : Last(k, stage)' =>
                     k \in DOMAIN pipe /\ pipe'[k] = pipe[k] /\ Last(k, stage)
    BY <2>2, <2>3 DEF Nobody, Last
  <2>5. UNCHANGED <<status, update, link, gaveUp>>
    BY <1>1 DEF Submit, linkVars
  <2>6. UpToDate' <=> UpToDate
    BY <2>5 DEF UpToDate
  <2>. QED  BY <2>4, <2>5, <2>6 DEF AnnounceInv, Current, Announcing
<1>2. CASE ReadRooms \/ ReadPlayerA \/ ReadPlayerB \/ ReadAnswers
  <2>1. /\ pipe # <<>> /\ h.stage \notin Announcing
        /\ UNCHANGED <<status, update, link, gaveUp>>
        /\ Finish \/ \E stage \in Stages \ Announcing :
                        Goto(stage) /\ (stage \in PlayerStages => h.socket \in Players)
    BY <1>2, PlayerAtFront DEF ReadRooms, ReadPlayerA, ReadPlayerB, ReadAnswers, Reply,
       Announcing, linkVars, Stages, PlayerStages
  <2>2. CASE Finish
    <3>1. [h EXCEPT !.stage = "rooms"] \in Sound
      BY <2>1, PipeSteps, SoundUpdates, InitialStatusBounded DEF Stages, PlayerStages
    <3>2. [h EXCEPT !.stage = "rooms"].stage \notin {"statusA", "statusB"}
      BY <2>1, PipeSteps DEF Sound, Submission
    <3>. QED  BY <2>1, <2>2, <3>1, <3>2, AnnounceMoves
  <2>3. ASSUME NEW stage \in Stages \ Announcing, Goto(stage),
               stage \in PlayerStages => h.socket \in Players
        PROVE  AnnounceInv'
    <3>. DEFINE c == [h EXCEPT !.stage = stage]
    <3>1. c \in Sound
      BY <2>1, <2>3, PipeSteps, SoundUpdates, InitialStatusBounded
    <3>2. c.stage \notin {"statusA", "statusB"}
      BY <2>1, PipeSteps DEF Sound, Submission, Announcing
    <3>3. pipe' = Append(Tail(pipe), c)
      BY <2>3 DEF Goto
    <3>. HIDE DEF c
    <3>. QED  BY <2>1, <3>1, <3>2, <3>3, AnnounceMoves
  <2>. QED  BY <2>1, <2>2, <2>3
<1>3. CASE ReadStatus
  <2>. DEFINE c == [h EXCEPT !.stage = "answers", !.mine = status[h.socket]]
  <2>1. /\ pipe # <<>> /\ h.stage \notin Announcing /\ pipe' = Append(Tail(pipe), c)
        /\ UNCHANGED <<status, update, link, gaveUp>> /\ h.socket \in Players /\ h \in Sound
    BY <1>3, PlayerAtFront, PipeSteps DEF ReadStatus, Reply, Announcing, linkVars, PlayerStages
  <2>2. c \in Sound /\ c.stage \notin {"statusA", "statusB"}
    <3>1. status[h.socket] \in Bounded
      BY <2>1 DEF BoundsInv
    <3>2. c \in Sound
      BY <2>1, <3>1, SoundUpdates DEF Stages
    <3>3. c.stage = "answers"
      BY <2>1 DEF Sound, Submission
    <3>. QED  BY <3>2, <3>3
  <2>. HIDE DEF c
  <2>. QED  BY <2>1, <2>2, AnnounceMoves
<1>4. CASE ReadQuestions
  <2>1. /\ pipe # <<>> /\ h.stage \notin Announcing
        /\ UNCHANGED <<status, update, link, gaveUp>> /\ h.socket \in Players /\ h \in Sound
    BY <1>4, PlayerAtFront, PipeSteps DEF ReadQuestions, Reply, Announcing, linkVars, PlayerStages
  <2>2. CASE Finish
    BY <2>1, <2>2, AnnounceMoves DEF Announcing
  <2>3. ASSUME NEW point \in {0, 1}, h.mine.activeQuestionIndex < NumQuestions,
               pipe' = Append(Tail(pipe), [h EXCEPT !.stage = "store",
                                                    !.mine = Scored(h.mine, point)])
        PROVE  AnnounceInv'
    <3>. DEFINE c == [h EXCEPT !.stage = "store", !.mine = Scored(h.mine, point)]
    <3>1. c \in Sound /\ c.stage = "store"
      <4>1. Scored(h.mine, point) \in Bounded
        BY <2>1, <2>3, ScoredBounded DEF Sound
      <4>2. c \in Sound
        BY <2>1, <4>1, SoundUpdates DEF Stages
      <4>3. c.stage = "store"
        BY <2>1 DEF Sound, Submission
      <4>. QED  BY <4>2, <4>3
    <3>. HIDE DEF c
    <3>. QED  BY <2>1, <2>3, <3>1, AnnounceMoves DEF c
  <2>. QED  BY <1>4, <2>2, <2>3 DEF ReadQuestions
<1>5. CASE StoreStatus
  BY <1>5, AnnounceStored
<1>6. CASE ReadStatusA
  BY <1>6, AnnounceRead
<1>7. CASE Broadcast
  BY <1>7, AnnounceBroadcast
<1>8. CASE RunUnanswered
  <2>1. ran + 1 \in DOMAIN pipe /\ UNCHANGED <<pipe, update, link, gaveUp>>
    BY <1>8, LenProperties DEF RunUnanswered, BoundsInv
  <2>2. Nobody("store") => status' = status
    BY <1>8, <2>1 DEF RunUnanswered, Nobody
  <2>. QED  BY <2>1, <2>2 DEF AnnounceInv, Nobody, Last, Current, UpToDate
<1>9. CASE Reject
  BY <1>9 DEF Reject, AnnounceInv
<1>10. CASE FallSilent \/ Reconnect \/ GiveUp \/ Recover \/ UNCHANGED vars
  BY <1>10 DEF FallSilent, Reconnect, GiveUp, Recover, vars, AnnounceInv, Nobody, Last,
     Current, UpToDate
<1>. QED
  BY <1>1, <1>2, <1>3, <1>4, <1>5, <1>6, <1>7, <1>8, <1>9, <1>10 DEF Next, Serve, Settle

THEOREM AnnounceInvariant == Spec => [](BoundsInv /\ AnnounceInv)
  BY BoundsInit, BoundsStep, AnnounceInit, AnnounceStep, PTL DEF Spec

LEMMA NothingUnderWay ==
    ASSUME AnnounceInv, pipe = <<>>, ~gaveUp
    PROVE  UpToDate
<1>1. DOMAIN pipe = {}
  BY EmptySeq
<1>. QED  BY <1>1 DEF AnnounceInv, Nobody

\* With no submission under way the clients were last shown what Redis holds,
\* however the handlers overlapped and also when commands were sent again.
THEOREM QuietAgrees == Spec => []QuietAgreement
<1>1. AnnounceInv => QuietAgreement
  BY NothingUnderWay DEF QuietAgreement, UpToDate
<1>. QED  BY <1>1, AnnounceInvariant, PTL

\* With both players through and nothing under way, the last broadcast said that
\* the match is complete, although each broadcast judges it by its own player.
THEOREM FinishIsAnnounced == Spec => []FinishAnnounced
<1>1. ASSUME BoundsInv, AnnounceInv PROVE FinishAnnounced
  <2>. SUFFICES ASSUME pipe = <<>>, ~gaveUp,
                       \A p \in Players : status[p].activeQuestionIndex = NumQuestions
                PROVE  update.isMatchComplete
    BY DEF FinishAnnounced
  <2>1. PICK p \in Players :
           update.isMatchComplete <=> status[p].activeQuestionIndex >= NumQuestions
    BY <1>1, NothingUnderWay DEF UpToDate
  <2>. QED  BY <2>1, NumQuestionsAssumption
<1>. QED  BY <1>1, AnnounceInvariant, PTL
=============================================================================
