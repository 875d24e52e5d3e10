------------------------- MODULE MatchSessionProofs -------------------------
(***************************************************************************)
(* Safety of MatchSession for every set of sockets, every number of        *)
(* matches, questions, keys and overlapping ticks.                         *)
(*                                                                         *)
(*   SessionInv: every command that waits agrees with the matches made,    *)
(*     and only matches whose players are in the room are shown;           *)
(*   PlayInv: only those are played, and all but the refused are told of;  *)
(*   RoomInv, ViewsInv: players are in their room, and the last broadcast  *)
(*     under way carries the latest statuses;                              *)
(*   QuizInv: an answer holds its player's stored status or one more.      *)
(***************************************************************************)
EXTENDS MatchSession, FiniteSetTheorems, SequenceTheorems, WellFoundedInduction, TLAPS

Unmade  == {"lrange", "takeFirst", "takeSecond"}       \* ticks yet to make a match
Made    == {"storeKeys", "joinFirst", "joinSecond"}    \* ticks that made one
Named   == AnswerOps \ {"rooms"}                       \* answers that know their match
Playing == Named \ {"playerA", "playerB"}              \* and know it is their player's
Views   == {"statusA", "statusB"}                      \* and will be shown

\* Outcomes of a match whose two players are in its room.
Ready == {"told", "untold"}
USE DEF Ready

-----------------------------------------------------------------------------
(* The invariants                                                          *)

\* What a command that waits says of the matches made so far: a tick past its
\* removals owns a pending match of its pair, an answer that got past the players'
\* keys is a player's, and match rooms are joined and left by their players.
Sound(c, ms) ==
    /\ c.op \in Unmade \ {"lrange"} => c.socket # c.other
    /\ c.op \in Made => /\ c.match \in DOMAIN ms
                        /\ ms[c.match] = [playerA |-> c.socket, playerB |-> c.other,
                                          outcome |-> "pending"]
    /\ c.op \in {"join", "leave"} =>
          /\ c.match \in DOMAIN ms /\ ms[c.match].outcome \in Ready
          /\ c.socket \in {ms[c.match].playerA, ms[c.match].playerB}
    /\ c.op = "rooms" => c.match = 0
    /\ c.op \in Named => c.match \in DOMAIN ms
    /\ c.op \in Playing => c.socket \in {ms[c.match].playerA, ms[c.match].playerB}

\* A match whose players are in its room, or will be after a command in q.
Entered(q, ms, m) ==
    \/ ms[m].outcome \in Ready
    \/ \E k \in DOMAIN q : q[k].op = "joinSecond" /\ q[k].match = m

\* No two ticks own one match, and an answer is behind the last join of its match.
PipeOrder(q, ms) ==
    /\ \A j, k \in DOMAIN q :
          q[j].op \in Made /\ q[k].op \in Made /\ q[j].match = q[k].match => j = k
    /\ \A k \in DOMAIN q : q[k].op \in Named =>
          \/ ms[q[k].match].outcome \in Ready
          \/ \E j \in 1..(k - 1) : q[j].op = "joinSecond" /\ q[j].match = q[k].match

PipeInv(q, ms) ==
    /\ \A k \in DOMAIN q : Sound(q[k], ms)
    /\ PipeOrder(q, ms)

\* Ticks on their way to a match leave room for it.
Coming(q) == {k \in DOMAIN q : q[k].op \in Unmade}
BoundInv  == Len(matches) + Cardinality(Coming(pipe)) <= MaxMatches

\* Who is told, who is in a room, and what is shown, match by match.
MatchInv ==
    /\ \A m \in DOMAIN matches : matches[m].playerA # matches[m].playerB
    /\ \A s \in Sockets, m \in MatchIds :
          m \in told[s] => s \in PlayersOf(m) /\ matches[m].outcome = "told"
    /\ \A s \in Sockets, m \in MatchIds : m \in adapterRooms[s] => s \in PlayersOf(m)
    /\ \A s \in Sockets, m \in MatchIds :
          m \in socketKey[s] => Entered(pipe, matches, m)
    /\ \A s \in Sockets, m \in MatchIds :
          \/ screen[s][m] = Unplayed
          \/ m \in DOMAIN matches /\ matches[m].outcome \in Ready /\ s \in PlayersOf(m)

PlayInv ==
    /\ \A m \in DOMAIN matches : matches[m].outcome = "told" =>
          \A s \in PlayersOf(m) \cap open : m \in told[s]
    /\ \A m \in MatchIds :
          status[m] = Unplayed \/ (m \in DOMAIN matches /\ matches[m].outcome \in Ready)

SessionInv == TypeOK /\ PipeInv(pipe, matches) /\ BoundInv /\ MatchInv

\* A player is in the room, unless it closed or asked to leave.
InRoom(s, m) == s \in open => m \in away[s] \/ m \in adapterRooms[s]

RoomInv ==
    /\ \A m \in DOMAIN matches : matches[m].outcome \in Ready =>
          \A s \in PlayersOf(m) : InRoom(s, m)
    /\ \A k \in DOMAIN pipe :
          /\ pipe[k].op \in {"joinFirst", "joinSecond"} => InRoom(pipe[k].socket, pipe[k].match)
          /\ pipe[k].op = "joinSecond" => InRoom(pipe[k].other, pipe[k].match)

View(c, m)     == c.op \in Views /\ c.match = m
Reading(q, m)  == \E k \in DOMAIN q : q[k].op = "statusA" /\ q[k].match = m
Showing(q, m)  == {k \in DOMAIN q : q[k].op = "statusB" /\ q[k].match = m}

\* The last broadcast on its way shows player A's latest status, unless another
\* one will read it again.
LastIsLatest(q, m, latest) ==
    Reading(q, m) \/ \A k \in Showing(q, m) :
                        (\A j \in Showing(q, m) : j <= k) => q[k].seen = latest

ViewsInv ==
    \A m \in MatchIds :
        /\ LastIsLatest(pipe, m, status[m]["playerA"])
        /\ m \in DOMAIN matches =>
              \A s \in PlayersOf(m) \cap open :
                  \/ m \in away[s] \/ screen[s][m] = status[m]
                  \/ \E k \in DOMAIN pipe : View(pipe[k], m)
-----------------------------------------------------------------------------
(* The pipeline and the queue                                              *)

LEMMA Sequence ==
    ASSUME NEW S, NEW q \in Seq(S)
    PROVE  Len(q) \in Nat /\ DOMAIN q = 1..Len(q) /\ \A k \in DOMAIN q : q[k] \in S
  BY LenProperties, ElementOfSeq

LEMMA Front ==
    ASSUME NEW S, NEW q \in Seq(S), q # <<>>
    PROVE  /\ Head(q) = q[1] /\ Head(q) \in S /\ 1 \in DOMAIN q /\ Len(q) \in Nat \ {0}
           /\ Tail(q) \in Seq(S) /\ Len(Tail(q)) = Len(q) - 1
           /\ \A k \in DOMAIN Tail(q) :
                 k \in Nat \ {0} /\ k + 1 \in DOMAIN q /\ Tail(q)[k] = q[k + 1]
           /\ \A k \in DOMAIN q : k \in Nat /\ (k = 1 \/ (k - 1 \in DOMAIN Tail(q)
                                                          /\ Tail(q)[k - 1] = q[k]))
<1>1. /\ Len(q) \in Nat \ {0} /\ DOMAIN q = 1..Len(q) /\ Head(q) \in S /\ Head(q) = q[1]
  BY EmptySeq, LenProperties, HeadTailProperties
<1>2. /\ Tail(q) \in Seq(S) /\ Len(Tail(q)) = Len(q) - 1
      /\ \A k \in 1..Len(Tail(q)) : Tail(q)[k] = q[k + 1]
  BY HeadTailProperties
<1>3. DOMAIN Tail(q) = 1..(Len(q) - 1)
  BY <1>2, LenProperties
<1>4. \A k \in DOMAIN Tail(q) : k \in Nat \ {0} /\ k + 1 \in DOMAIN q /\ Tail(q)[k] = q[k + 1]
  BY <1>1, <1>2, <1>3
<1>5. ASSUME NEW k \in DOMAIN q, k # 1
      PROVE  k - 1 \in DOMAIN Tail(q) /\ Tail(q)[k - 1] = q[k]
  <2>1. k - 1 \in DOMAIN Tail(q) /\ (k - 1) + 1 = k
    BY <1>1, <1>3, <1>5
  <2>. QED  BY <1>4, <2>1
<1>. QED  BY <1>1, <1>2, <1>4, <1>5

LEMMA Back ==
    ASSUME NEW S, NEW q \in Seq(S), NEW c \in S
    PROVE  /\ Append(q, c) \in Seq(S) /\ Len(q) \in Nat /\ Len(Append(q, c)) = Len(q) + 1
           /\ DOMAIN Append(q, c) = DOMAIN q \cup {Len(q) + 1} /\ Len(q) + 1 \notin DOMAIN q
           /\ \A k \in DOMAIN q : k < Len(q) + 1 /\ k \in Nat /\ Append(q, c)[k] = q[k]
           /\ Append(q, c)[Len(q) + 1] = c
<1>1. Len(q) \in Nat /\ DOMAIN q = 1..Len(q)
  BY LenProperties
<1>2. /\ Append(q, c) \in Seq(S) /\ Len(Append(q, c)) = Len(q) + 1
      /\ \A k \in 1..Len(q) : Append(q, c)[k] = q[k]
      /\ Append(q, c)[Len(q) + 1] = c
  BY AppendProperties
<1>3. DOMAIN Append(q, c) = 1..(Len(q) + 1)
  BY <1>2, LenProperties
<1>4. 1..(Len(q) + 1) = (1..Len(q)) \cup {Len(q) + 1}
  BY <1>1
<1>. QED  BY <1>1, <1>2, <1>3, <1>4

\* Counting the places up to each of finitely many numbers them from 1.
LEMMA Numbering ==
    ASSUME NEW places \in SUBSET Nat, IsFiniteSet(places)
    PROVE  [j \in places |-> Cardinality({i \in places : i <= j})]
              \in Injection(places, 1..Cardinality(places))
<1>. DEFINE n == Cardinality(places)
            upTo(j) == {i \in places : i <= j}
            rank == [j \in places |-> Cardinality(upTo(j))]
<1>1. n \in Nat
  BY FS_CardinalityType
<1>2. \A j \in places : IsFiniteSet(upTo(j)) /\ Cardinality(upTo(j)) \in Nat
                        /\ Cardinality(upTo(j)) <= n
  <2>. SUFFICES ASSUME NEW j \in places
                PROVE  /\ IsFiniteSet(upTo(j)) /\ Cardinality(upTo(j)) \in Nat
                       /\ Cardinality(upTo(j)) <= n
    OBVIOUS
  <2>1. upTo(j) \in SUBSET places
    OBVIOUS
  <2>. QED  BY <2>1, FS_Subset, FS_CardinalityType
<1>3. \A j \in places : Cardinality(upTo(j)) # 0
  BY <1>2, FS_EmptySet
<1>4. \A i, j \in places : Cardinality(upTo(i)) = Cardinality(upTo(j)) => i = j
  <2>. SUFFICES ASSUME NEW i \in places, NEW j \in places, i < j
                PROVE  Cardinality(upTo(i)) # Cardinality(upTo(j))
    OBVIOUS
  <2>1. i \in Nat /\ j \in Nat /\ places \subseteq Nat
    OBVIOUS
  <2>2. \A h \in Nat : h <= i => h <= j
    BY <2>1
  <2>3. upTo(i) \subseteq upTo(j)
    BY <2>1, <2>2
  <2>4. j \in upTo(j) /\ j \notin upTo(i)
    BY <2>1
  <2>. HIDE DEF upTo
  <2>. QED  BY <1>2, <2>3, <2>4, FS_Subset
<1>5. rank \in Injection(places, 1..n)
  <2>. HIDE DEF upTo, n
  <2>1. \A j \in places : Cardinality(upTo(j)) \in 1..n
    BY <1>1, <1>2, <1>3
  <2>2. rank \in [places -> 1..n]
    BY <2>1
  <2>3. \A i, j \in places : rank[i] = rank[j] => i = j
    BY <1>4
  <2>. HIDE DEF rank
  <2>. QED  BY <2>2, <2>3 DEF Injection, IsInjective
<1>. QED  BY <1>5

\* The k-th smallest of finitely many places is one of them, and has k-1 below.
LEMMA Ranks ==
    ASSUME NEW places \in SUBSET Nat, IsFiniteSet(places),
           NEW k \in 1..Cardinality(places)
    PROVE  /\ Nth(places, k) \in places
           /\ Cardinality({i \in places : i <= Nth(places, k)}) = k
<1>. DEFINE n == Cardinality(places)
            rank == [j \in places |-> Cardinality({i \in places : i <= j})]
<1>1. n \in Nat
  BY FS_CardinalityType
<1>2. rank \in Injection(places, 1..n)
  BY Numbering
<1>3. IsFiniteSet(1..n) /\ Cardinality(1..n) = n
  BY <1>1, FS_Interval
<1>4. rank \in Surjection(places, 1..n)
  BY <1>2, <1>3, FS_Injection
<1>5. \E j \in places : Cardinality({i \in places : i <= j}) = k
  BY <1>4 DEF Surjection
<1>. QED  BY <1>5 DEF Nth

\* LREM leaves a list of entries.
LEMMA LremTyped ==
    ASSUME queue \in Seq(Entry), NEW places, Lrem(places)
    PROVE  queue' \in Seq(Entry)
<1>. DEFINE kept == DOMAIN queue \ places
            n == Cardinality(kept)
<1>1. DOMAIN queue = 1..Len(queue) /\ Len(queue) \in Nat
      /\ \A k \in DOMAIN queue : queue[k] \in Entry
  BY Sequence
<1>2. IsFiniteSet(1..Len(queue)) /\ kept \in SUBSET (1..Len(queue))
  BY <1>1, FS_Interval
<1>3. IsFiniteSet(kept) /\ n \in Nat
  BY <1>2, FS_Subset, FS_CardinalityType
<1>4. \A k \in 1..n : Nth(kept, k) \in kept
  <2>1. kept \in SUBSET Nat
    BY <1>2
  <2>. QED  BY <1>3, <2>1, Ranks
<1>5. queue' = [k \in 1..n |-> queue[Nth(kept, k)]]
  BY DEF Lrem
<1>. HIDE DEF n
<1>6. queue' \in [1..n -> Entry]
  BY <1>1, <1>4, <1>5
<1>. QED  BY <1>3, <1>6, SeqDef

LEMMA PushTyped ==
    ASSUME queue \in Seq(Entry), NEW e \in Entry
    PROVE  <<e>> \o queue \in Seq(Entry)
<1>1. <<e>> \in Seq(Entry)
  OBVIOUS
<1>. QED  BY <1>1, ConcatProperties

\* A tick that has its match does not count any more.
LEMMA ComingDrops ==
    ASSUME NEW q \in Seq(Command), q # <<>>
    PROVE  /\ IsFiniteSet(Coming(q)) /\ Cardinality(Coming(q)) \in Nat
           /\ IsFiniteSet(Coming(Tail(q))) /\ Cardinality(Coming(Tail(q))) \in Nat
           /\ Cardinality(Coming(q)) = IF Head(q).op \in Unmade
                                       THEN Cardinality(Coming(Tail(q))) + 1
                                       ELSE Cardinality(Coming(Tail(q)))
<1>. DEFINE r == Tail(q)
            later == Coming(q) \ {1}
            next == [k \in Coming(r) |-> k + 1]
<1>1. IsFiniteSet(Coming(q)) /\ Cardinality(Coming(q)) \in Nat
  <2>1. Len(q) \in Nat /\ DOMAIN q = 1..Len(q)
    BY Sequence
  <2>2. IsFiniteSet(1..Len(q)) /\ Coming(q) \in SUBSET (1..Len(q))
    BY <2>1, FS_Interval DEF Coming
  <2>. QED  BY <2>2, FS_Subset, FS_CardinalityType
<1>2. IsFiniteSet(Coming(r)) /\ Cardinality(Coming(r)) \in Nat
  <2>1. Len(r) \in Nat /\ DOMAIN r = 1..Len(r)
    BY Front, Sequence
  <2>2. IsFiniteSet(1..Len(r)) /\ Coming(r) \in SUBSET (1..Len(r))
    BY <2>1, FS_Interval DEF Coming
  <2>. QED  BY <2>2, FS_Subset, FS_CardinalityType
<1>3. \A k \in Coming(r) : k \in Nat /\ k + 1 \in later
  BY Front DEF Coming
<1>4. \A k \in later : k \in Nat /\ k - 1 \in Coming(r) /\ (k - 1) + 1 = k
  BY Front DEF Coming
<1>5. next \in Bijection(Coming(r), later)
  <2>1. next \in [Coming(r) -> later]
    BY <1>3
  <2>2. \A j, k \in Coming(r) : next[j] = next[k] => j = k
    BY <1>3
  <2>3. \A k \in later : \E j \in Coming(r) : next[j] = k
    BY <1>4
  <2>. HIDE DEF next, later
  <2>. QED  BY <2>1, <2>2, <2>3 DEF Bijection, Injection, Surjection, IsInjective
<1>6. Cardinality(later) = Cardinality(Coming(r))
  BY <1>2, <1>5, FS_Bijection DEF ExistsBijection
<1>7. Cardinality(later) = IF 1 \in Coming(q) THEN Cardinality(Coming(q)) - 1
                                             ELSE Cardinality(Coming(q))
  BY <1>1, FS_RemoveElement
<1>8. 1 \in Coming(q) <=> Head(q).op \in Unmade
  BY Front DEF Coming
<1>. HIDE DEF later, r
<1>9. Cardinality(Coming(q)) = IF Head(q).op \in Unmade THEN Cardinality(Coming(r)) + 1
                                                      ELSE Cardinality(Coming(r))
  BY <1>1, <1>2, <1>6, <1>7, <1>8
<1>. QED  BY <1>1, <1>2, <1>9 DEF r

LEMMA ComingAdds ==
    ASSUME NEW q \in Seq(Command), NEW c \in Command
    PROVE  /\ IsFiniteSet(Coming(q)) /\ Cardinality(Coming(q)) \in Nat
           /\ Cardinality(Coming(Append(q, c))) = IF c.op \in Unmade
                                                  THEN Cardinality(Coming(q)) + 1
                                                  ELSE Cardinality(Coming(q))
<1>1. IsFiniteSet(Coming(q)) /\ Cardinality(Coming(q)) \in Nat
  <2>1. Len(q) \in Nat /\ DOMAIN q = 1..Len(q)
    BY Sequence
  <2>2. IsFiniteSet(1..Len(q)) /\ Coming(q) \in SUBSET (1..Len(q))
    BY <2>1, FS_Interval DEF Coming
  <2>. QED  BY <2>2, FS_Subset, FS_CardinalityType
<1>2. Coming(Append(q, c)) = IF c.op \in Unmade THEN Coming(q) \cup {Len(q) + 1} ELSE Coming(q)
  BY Back DEF Coming
<1>3. Len(q) + 1 \notin Coming(q)
  BY Back DEF Coming
<1>4. Cardinality(Coming(q) \cup {Len(q) + 1}) = Cardinality(Coming(q)) + 1
  BY <1>1, <1>3, FS_AddElement
<1>. QED  BY <1>1, <1>2, <1>4

-----------------------------------------------------------------------------
(* Commands join and leave the pipeline                                    *)

\* The matches and the clients told move on, and no tick but the front one
\* decides about its match.
Onward(q, ms, ms2) ==
    /\ \A m \in DOMAIN ms :
          /\ m \in DOMAIN ms2
          /\ ms2[m].playerA = ms[m].playerA /\ ms2[m].playerB = ms[m].playerB
          /\ ms[m].outcome \in Ready => ms2[m].outcome = ms[m].outcome
          /\ ms2[m] = ms[m] \/ (Head(q).op \in Made /\ Head(q).match = m)
    /\ Head(q).op = "joinSecond" => ms2[Head(q).match].outcome \in Ready

\* The front command leaves; a match it was about to announce is announced.
LEMMA Drops ==
    ASSUME NEW q \in Seq(Command), q # <<>>, NEW ms, NEW ms2,
           PipeInv(q, ms), Onward(q, ms, ms2)
    PROVE  /\ PipeInv(Tail(q), ms2)
           /\ Head(q).op \in Made =>
                 \A k \in DOMAIN Tail(q) :
                    Tail(q)[k].op \in Made => Tail(q)[k].match # Head(q).match
           /\ \A m \in DOMAIN ms : Entered(q, ms, m) => Entered(Tail(q), ms2, m)
<1>. DEFINE r == Tail(q)
<1>1. /\ Head(q) = q[1] /\ 1 \in DOMAIN q /\ \A k \in DOMAIN q : q[k] \in Command
      /\ \A k \in DOMAIN r : k \in Nat \ {0} /\ k + 1 \in DOMAIN q /\ r[k] = q[k + 1]
      /\ \A k \in DOMAIN q : k \in Nat /\ (k = 1 \/ (k - 1 \in DOMAIN r /\ r[k - 1] = q[k]))
  BY Front, Sequence
<1>. HIDE DEF r
<1>2. \A k \in DOMAIN q : Sound(q[k], ms)
  BY DEF PipeInv
<1>3. \A j, k \in DOMAIN q :
         q[j].op \in Made /\ q[k].op \in Made /\ q[j].match = q[k].match => j = k
  BY DEF PipeInv, PipeOrder
<1>4. \A j, k \in DOMAIN r :
         r[j].op \in Made /\ r[k].op \in Made /\ r[j].match = r[k].match => j = k
  <2>. SUFFICES ASSUME NEW j \in DOMAIN r, NEW k \in DOMAIN r, r[j].op \in Made,
                       r[k].op \in Made, r[j].match = r[k].match
                PROVE  j = k
    OBVIOUS
  <2>1. j + 1 = k + 1
    BY <1>1, <1>3
  <2>. QED  BY <1>1, <2>1
<1>5. ASSUME Head(q).op \in Made, NEW k \in DOMAIN r, r[k].op \in Made
      PROVE  r[k].match # Head(q).match
  <2>1. k + 1 \in DOMAIN q /\ k + 1 # 1 /\ r[k] = q[k + 1]
    BY <1>1
  <2>. QED  BY <1>1, <1>3, <1>5, <2>1
<1>6. ASSUME NEW k \in DOMAIN r PROVE Sound(r[k], ms2)
  <2>1. Sound(r[k], ms) /\ r[k].socket \in Sockets
    BY <1>1, <1>2 DEF Command
  <2>2. r[k].op \in Made => ms2[r[k].match] = ms[r[k].match]
    BY <1>5, <2>1 DEF Sound, Onward
  <2>. QED  BY <2>1, <2>2 DEF Sound, Onward, Named, Playing
<1>7. ASSUME NEW m \in DOMAIN ms, Entered(q, ms, m) PROVE Entered(r, ms2, m)
  <2>1. CASE ms[m].outcome \in Ready
    BY <2>1 DEF Onward, Entered
  <2>2. ASSUME NEW k \in DOMAIN q, q[k].op = "joinSecond", q[k].match = m
        PROVE  Entered(r, ms2, m)
    BY <1>1, <2>2 DEF Onward, Entered
  <2>. QED  BY <1>7, <2>1, <2>2 DEF Entered
<1>8. ASSUME NEW k \in DOMAIN r, r[k].op \in Named
      PROVE  \/ ms2[r[k].match].outcome \in Ready
             \/ \E j \in 1..(k - 1) : r[j].op = "joinSecond" /\ r[j].match = r[k].match
  <2>1. k + 1 \in DOMAIN q /\ r[k] = q[k + 1] /\ k \in Nat
    BY <1>1
  <2>2. r[k].match \in DOMAIN ms
    BY <1>2, <1>8, <2>1 DEF Sound
  <2>3. \/ ms[r[k].match].outcome \in Ready
        \/ \E j \in 1..((k + 1) - 1) : q[j].op = "joinSecond" /\ q[j].match = r[k].match
    BY <1>8, <2>1 DEF PipeInv, PipeOrder
  <2>4. CASE ms[r[k].match].outcome \in Ready
    BY <2>2, <2>4 DEF Onward
  <2>5. ASSUME NEW j \in 1..((k + 1) - 1), q[j].op = "joinSecond", q[j].match = r[k].match
        PROVE  \/ ms2[r[k].match].outcome \in Ready
               \/ \E i \in 1..(k - 1) : r[i].op = "joinSecond" /\ r[i].match = r[k].match
    <3>1. CASE j = 1
      BY <1>1, <2>5, <3>1 DEF Onward
    <3>2. CASE j # 1
      <4>1. j - 1 \in 1..(k - 1) /\ j \in DOMAIN q
        BY <2>1, <3>2, Sequence
      <4>. QED  BY <1>1, <2>5, <3>2, <4>1
    <3>. QED  BY <3>1, <3>2
  <2>. QED  BY <2>3, <2>4, <2>5
<1>. QED  BY <1>4, <1>5, <1>6, <1>7, <1>8 DEF PipeInv, PipeOrder, r

LEMMA Adds ==
    ASSUME NEW q \in Seq(Command), NEW c \in Command, NEW ms,
           PipeInv(q, ms), Sound(c, ms),
           c.op \in Made =>
              \A k \in DOMAIN q : q[k].op \in Made => q[k].match # c.match,
           c.op \in Named => Entered(q, ms, c.match)
    PROVE  /\ PipeInv(Append(q, c), ms)
           /\ \A m : Entered(q, ms, m) => Entered(Append(q, c), ms, m)
           /\ c.op = "joinSecond" => Entered(Append(q, c), ms, c.match)
<1>. DEFINE r == Append(q, c)
            n == Len(q)
<1>1. /\ n \in Nat /\ DOMAIN q = 1..n /\ DOMAIN r = DOMAIN q \cup {n + 1}
      /\ n + 1 \notin DOMAIN q /\ r[n + 1] = c
      /\ \A k \in DOMAIN q : k \in Nat /\ k < n + 1 /\ r[k] = q[k]
  BY Back, Sequence
<1>. HIDE DEF r, n
<1>2. \A k \in DOMAIN r : Sound(r[k], ms)
  BY <1>1 DEF PipeInv
<1>3. \A j, k \in DOMAIN r :
         r[j].op \in Made /\ r[k].op \in Made /\ r[j].match = r[k].match => j = k
  BY <1>1 DEF PipeInv, PipeOrder
<1>4. ASSUME NEW m, Entered(q, ms, m) PROVE Entered(r, ms, m)
  BY <1>1, <1>4 DEF Entered
<1>5. ASSUME NEW k \in DOMAIN r, r[k].op \in Named
      PROVE  \/ ms[r[k].match].outcome \in Ready
             \/ \E j \in 1..(k - 1) : r[j].op = "joinSecond" /\ r[j].match = r[k].match
  <2>1. CASE k \in DOMAIN q
    <3>1. \/ ms[q[k].match].outcome \in Ready
          \/ \E j \in 1..(k - 1) : q[j].op = "joinSecond" /\ q[j].match = q[k].match
      BY <1>1, <1>5, <2>1 DEF PipeInv, PipeOrder
    <3>2. \A j \in 1..(k - 1) : j \in DOMAIN q /\ r[j] = q[j]
      BY <1>1, <2>1
    <3>. QED  BY <1>1, <2>1, <3>1, <3>2
  <2>2. CASE k = n + 1
    <3>1. \A j \in DOMAIN q : j \in 1..(k - 1)
      BY <1>1, <2>2
    <3>. QED  BY <1>1, <1>5, <2>2, <3>1 DEF Entered
  <2>. QED  BY <1>1, <2>1, <2>2
<1>6. c.op = "joinSecond" => Entered(r, ms, c.match)
  BY <1>1 DEF Entered
<1>. QED  BY <1>2, <1>3, <1>4, <1>5, <1>6 DEF PipeInv, PipeOrder, r
-----------------------------------------------------------------------------
(* One step of the pipeline                                                *)

\* What every step does to the pipeline and the matches.
Stepped ==
    /\ pipe' \in Seq(Command) /\ \A k \in DOMAIN pipe' : pipe'[k].match \in 0..Len(matches')
    /\ PipeInv(pipe', matches') /\ BoundInv'
    /\ \A m \in DOMAIN matches : Entered(pipe, matches, m) => Entered(pipe', matches', m)

LEMMA Shape ==
    ASSUME SessionInv
    PROVE  /\ pipe \in Seq(Command) /\ \A k \in DOMAIN pipe : pipe[k] \in Command
           /\ Len(matches) \in Nat /\ DOMAIN matches = 1..Len(matches)
           /\ DOMAIN matches \subseteq MatchIds /\ \A m \in DOMAIN matches : matches[m] \in Match
           /\ MaxMatches \in Nat
  BY Sequence, BoundsAssumption DEF SessionInv, TypeOK, MatchIds

\* The front command, when it is answered.
LEMMA Served ==
    ASSUME SessionInv, pipe # <<>>
    PROVE  /\ Head(pipe) \in Command /\ Head(pipe).match \in 0..Len(matches)
           /\ Sound(Head(pipe), matches)
           /\ Head(pipe).op \in Named => /\ Head(pipe).match \in DOMAIN matches
                                         /\ matches[Head(pipe).match].outcome \in Ready
<1>1. Head(pipe) = pipe[1] /\ Head(pipe) \in Command /\ 1 \in DOMAIN pipe
  BY Shape, Front
<1>2. Sound(Head(pipe), matches) /\ Head(pipe).match \in 0..Len(matches)
  BY <1>1 DEF SessionInv, PipeInv, TypeOK
<1>3. ASSUME Head(pipe).op \in Named PROVE matches[Head(pipe).match].outcome \in Ready
  <2>1. \A j \in 1..(1 - 1) : FALSE
    OBVIOUS
  <2>. QED  BY <1>1, <1>3, <2>1 DEF SessionInv, PipeInv, PipeOrder
<1>. QED  BY <1>1, <1>2, <1>3 DEF Sound

LEMMA StepIssued ==
    ASSUME SessionInv, NEW c \in Command, c.match \in 0..Len(matches), Issue(c),
           matches' = matches, Sound(c, matches), c.op \notin Made,
           c.op \in Named => matches[c.match].outcome \in Ready,
           c.op \in Unmade => Len(matches) + Cardinality(Ticks) < MaxMatches
    PROVE  Stepped
<1>1. PipeInv(pipe', matches')
      /\ \A m \in DOMAIN matches : Entered(pipe, matches, m) => Entered(pipe', matches', m)
  <2>1. c.op \in Named => Entered(pipe, matches, c.match)
    BY DEF Entered
  <2>2. PipeInv(Append(pipe, c), matches)
        /\ \A m : Entered(pipe, matches, m) => Entered(Append(pipe, c), matches, m)
    BY <2>1, Shape, Adds DEF SessionInv
  <2>. QED  BY <2>2 DEF Issue
<1>2. pipe' \in Seq(Command) /\ \A k \in DOMAIN pipe' : pipe'[k].match \in 0..Len(matches')
  BY Shape, Back DEF SessionInv, TypeOK, Issue
<1>3. BoundInv'
  <2>1. /\ Cardinality(Coming(pipe)) \in Nat
        /\ Cardinality(Coming(pipe')) = IF c.op \in Unmade
                                        THEN Cardinality(Coming(pipe)) + 1
                                        ELSE Cardinality(Coming(pipe))
    BY Shape, ComingAdds DEF Issue
  <2>2. Cardinality(Coming(pipe)) <= Cardinality(Ticks) /\ Cardinality(Ticks) \in Nat
    <3>1. Len(pipe) \in Nat /\ DOMAIN pipe = 1..Len(pipe)
      BY Shape, Sequence
    <3>2. IsFiniteSet(1..Len(pipe)) /\ Ticks \in SUBSET (1..Len(pipe))
      BY <3>1, FS_Interval DEF Ticks
    <3>3. IsFiniteSet(Ticks) /\ Cardinality(Ticks) \in Nat
      BY <3>2, FS_Subset, FS_CardinalityType
    <3>4. Coming(pipe) \in SUBSET Ticks
      BY DEF Coming, Ticks, Unmade, TickOps
    <3>. QED  BY <3>3, <3>4, FS_Subset
  <2>3. Len(matches) + Cardinality(Coming(pipe)) <= MaxMatches
    BY DEF SessionInv, BoundInv
  <2>. QED  BY <2>1, <2>2, <2>3, Shape DEF BoundInv
<1>. QED  BY <1>1, <1>2, <1>3 DEF Stepped

LEMMA StepEnded ==
    ASSUME SessionInv, pipe # <<>>, Finish, Len(matches') = Len(matches),
           Onward(pipe, matches, matches')
    PROVE  Stepped
<1>1. PipeInv(pipe', matches')
      /\ \A m \in DOMAIN matches : Entered(pipe, matches, m) => Entered(pipe', matches', m)
  BY Shape, Drops DEF SessionInv, Finish
<1>2. pipe' \in Seq(Command) /\ \A k \in DOMAIN pipe' : pipe'[k].match \in 0..Len(matches')
  BY Shape, Front DEF SessionInv, TypeOK, Finish
<1>3. BoundInv'
  <2>1. /\ Cardinality(Coming(pipe)) \in Nat /\ Cardinality(Coming(pipe')) \in Nat
        /\ Cardinality(Coming(pipe)) = IF Head(pipe).op \in Unmade
                                       THEN Cardinality(Coming(pipe')) + 1
                                       ELSE Cardinality(Coming(pipe'))
    BY Shape, ComingDrops DEF Finish
  <2>. QED  BY <2>1, Shape DEF BoundInv, SessionInv
<1>. QED  BY <1>1, <1>2, <1>3 DEF Stepped

LEMMA StepWentOn ==
    ASSUME SessionInv, pipe # <<>>, NEW c \in Command, GoOn(c),
           Onward(pipe, matches, matches'),
           c.match \in 0..Len(matches'), Sound(c, matches'),
           c.op \in Made => \/ Head(pipe).op \in Made /\ c.match = Head(pipe).match
                            \/ c.match \notin DOMAIN matches,
           c.op \in Named => c.match \in DOMAIN matches /\ Entered(pipe, matches, c.match),
           \/ Len(matches') = Len(matches) /\ (c.op \in Unmade => Head(pipe).op \in Unmade)
           \/ Len(matches') = Len(matches) + 1 /\ Head(pipe).op \in Unmade /\ c.op \notin Unmade
    PROVE  Stepped
<1>. DEFINE r == Tail(pipe)
<1>1. /\ PipeInv(r, matches')
      /\ Head(pipe).op \in Made =>
            \A k \in DOMAIN r : r[k].op \in Made => r[k].match # Head(pipe).match
      /\ \A m \in DOMAIN matches : Entered(pipe, matches, m) => Entered(r, matches', m)
  BY Shape, Drops DEF SessionInv
<1>2. r \in Seq(Command) /\ \A k \in DOMAIN r : k + 1 \in DOMAIN pipe /\ r[k] = pipe[k + 1]
  BY Shape, Front
<1>. HIDE DEF r
<1>3. c.op \in Made => \A k \in DOMAIN r : r[k].op \in Made => r[k].match # c.match
  <2>1. \A k \in DOMAIN r : r[k].op \in Made => r[k].match \in DOMAIN matches
    BY <1>2 DEF SessionInv, PipeInv, Sound
  <2>. QED  BY <1>1, <2>1
<1>4. c.op \in Named => Entered(r, matches', c.match)
  BY <1>1
<1>5. /\ PipeInv(Append(r, c), matches')
      /\ \A m : Entered(r, matches', m) => Entered(Append(r, c), matches', m)
  BY <1>1, <1>2, <1>3, <1>4, Adds
<1>6. pipe' = Append(r, c)
  BY DEF GoOn, r
<1>7. pipe' \in Seq(Command) /\ \A k \in DOMAIN pipe' : pipe'[k].match \in 0..Len(matches')
  <2>1. Len(matches') >= Len(matches) /\ Len(matches) \in Nat /\ Len(matches') \in Nat
    BY Shape
  <2>2. \A k \in DOMAIN r : r[k].match \in 0..Len(matches')
    BY <1>2, <2>1 DEF SessionInv, TypeOK
  <2>. QED  BY <1>2, <1>6, <2>2, Back
<1>8. BoundInv'
  <2>1. /\ Cardinality(Coming(pipe)) \in Nat /\ Cardinality(Coming(r)) \in Nat
        /\ Cardinality(Coming(pipe)) = IF Head(pipe).op \in Unmade
                                       THEN Cardinality(Coming(r)) + 1
                                       ELSE Cardinality(Coming(r))
    BY Shape, ComingDrops DEF r
  <2>2. Cardinality(Coming(pipe')) = IF c.op \in Unmade THEN Cardinality(Coming(r)) + 1
                                                        ELSE Cardinality(Coming(r))
    BY <1>2, <1>6, ComingAdds
  <2>3. Len(matches) + Cardinality(Coming(pipe)) <= MaxMatches
    BY DEF SessionInv, BoundInv
  <2>. QED  BY <2>1, <2>2, <2>3, Shape DEF BoundInv
<1>. QED  BY <1>1, <1>5, <1>6, <1>7, <1>8 DEF Stepped

\* Everything a step has to show besides the pipeline.
LEMMA SessionKept ==
    ASSUME SessionInv, Stepped, matches' \in Seq(Match),
           \A m \in DOMAIN matches :
              /\ m \in DOMAIN matches'
              /\ matches'[m].playerA = matches[m].playerA
              /\ matches'[m].playerB = matches[m].playerB
              /\ matches[m].outcome \in Ready => matches'[m].outcome = matches[m].outcome,
           \A m \in DOMAIN matches' :
              m \in DOMAIN matches \/ matches'[m].playerA # matches'[m].playerB,
           open' \subseteq Sockets, queue' \in Seq(Entry), events' \in 0..MaxEvents,
           status' \in [MatchIds -> [Players -> Standing]],
           screen' \in [Sockets -> [MatchIds -> [Players -> Standing]]],
           away' \in [Sockets -> SUBSET (DOMAIN matches')],
           told' \in [Sockets -> SUBSET (DOMAIN matches')],
           adapterRooms' \in [Sockets -> SUBSET (DOMAIN matches')],
           socketKey' \in [Sockets -> SUBSET (DOMAIN matches')],
           \A s \in Sockets : \A m \in told'[s] \ told[s] :
              s \in {matches'[m].playerA, matches'[m].playerB} /\ matches'[m].outcome = "told",
           \A s \in Sockets : \A m \in adapterRooms'[s] \ adapterRooms[s] :
              s \in {matches'[m].playerA, matches'[m].playerB},
           \A s \in Sockets : \A m \in socketKey'[s] \ socketKey[s] :
              Entered(pipe', matches', m),
           \A s \in Sockets, m \in MatchIds :
              \/ screen'[s][m] = screen[s][m]
              \/ m \in DOMAIN matches /\ matches[m].outcome \in Ready /\ s \in PlayersOf(m)
    PROVE  SessionInv'
<1>1. Len(matches') <= MaxMatches
  <2>1. Len(matches') \in Nat
    BY Sequence
  <2>2. pipe' \in Seq(Command) /\ Len(matches') + Cardinality(Coming(pipe')) <= MaxMatches
    BY DEF Stepped, BoundInv
  <2>3. Len(pipe') \in Nat /\ DOMAIN pipe' = 1..Len(pipe')
    BY <2>2, Sequence
  <2>4. IsFiniteSet(1..Len(pipe')) /\ Coming(pipe') \in SUBSET (1..Len(pipe'))
    BY <2>3, FS_Interval DEF Coming
  <2>5. Cardinality(Coming(pipe')) \in Nat
    BY <2>4, FS_Subset, FS_CardinalityType
  <2>. QED  BY <2>1, <2>2, <2>5, BoundsAssumption
<1>2. TypeOK'
  BY <1>1 DEF TypeOK, Stepped
<1>3. \A s \in Sockets :
         told[s] \subseteq DOMAIN matches /\ adapterRooms[s] \subseteq DOMAIN matches
                         /\ socketKey[s] \subseteq DOMAIN matches
  BY DEF SessionInv, TypeOK
<1>4. MatchInv'
  <2>1. \A m \in DOMAIN matches' : matches'[m].playerA # matches'[m].playerB
    BY DEF SessionInv, MatchInv
  <2>2. \A s \in Sockets, m \in MatchIds :
           m \in told'[s] => /\ s \in {matches'[m].playerA, matches'[m].playerB}
                             /\ matches'[m].outcome = "told"
    <3>. SUFFICES ASSUME NEW s \in Sockets, NEW m \in MatchIds, m \in told'[s]
                  PROVE  /\ s \in {matches'[m].playerA, matches'[m].playerB}
                         /\ matches'[m].outcome = "told"
      OBVIOUS
    <3>1. CASE m \notin told[s]
      BY <3>1
    <3>2. CASE m \in told[s]
      <4>1. m \in DOMAIN matches /\ matches[m].outcome = "told"
            /\ s \in {matches[m].playerA, matches[m].playerB}
        BY <1>3, <3>2 DEF SessionInv, MatchInv, PlayersOf
      <4>. QED  BY <4>1
    <3>. QED  BY <3>1, <3>2
  <2>3. \A s \in Sockets, m \in MatchIds :
           m \in adapterRooms'[s] => s \in {matches'[m].playerA, matches'[m].playerB}
    BY <1>3 DEF SessionInv, MatchInv, PlayersOf
  <2>4. \A s \in Sockets, m \in MatchIds :
           m \in socketKey'[s] => Entered(pipe', matches', m)
    BY <1>3 DEF SessionInv, MatchInv, Stepped
  <2>5. \A s \in Sockets, m \in MatchIds :
           \/ screen'[s][m] = Unplayed
           \/ /\ m \in DOMAIN matches' /\ matches'[m].outcome \in Ready
              /\ s \in {matches'[m].playerA, matches'[m].playerB}
    <3>. SUFFICES ASSUME NEW s \in Sockets, NEW m \in MatchIds, screen'[s][m] # Unplayed
                  PROVE  /\ m \in DOMAIN matches' /\ matches'[m].outcome \in Ready
                         /\ s \in {matches'[m].playerA, matches'[m].playerB}
      OBVIOUS
    <3>1. m \in DOMAIN matches /\ matches[m].outcome \in Ready /\ s \in PlayersOf(m)
      BY DEF SessionInv, MatchInv
    <3>. QED  BY <3>1 DEF PlayersOf
  <2>. QED  BY <2>1, <2>2, <2>3, <2>4, <2>5 DEF MatchInv, PlayersOf
<1>. QED  BY <1>2, <1>4 DEF SessionInv, Stepped
-----------------------------------------------------------------------------
(* SessionInv is inductive                                                 *)

LEMMA Fields ==
    ASSUME NEW c \in Command
    PROVE  /\ c.op \in Ops /\ c.socket \in Sockets /\ c.other \in Sockets /\ c.match \in Nat
           /\ c.left \in 0..NumKeys /\ c.mine \in Standing /\ c.seen \in Standing
           /\ \A o \in Ops : /\ [c EXCEPT !.op = o] \in Command
                             /\ [c EXCEPT !.op = o].op = o
                             /\ [c EXCEPT !.op = o].socket = c.socket
                             /\ [c EXCEPT !.op = o].other = c.other
                             /\ [c EXCEPT !.op = o].named = c.named
                             /\ [c EXCEPT !.op = o].otherNamed = c.otherNamed
                             /\ [c EXCEPT !.op = o].match = c.match
                             /\ [c EXCEPT !.op = o].left = c.left
                             /\ [c EXCEPT !.op = o].mine = c.mine
                             /\ [c EXCEPT !.op = o].seen = c.seen
           /\ FirstEntry(c) \in Entry /\ SecondEntry(c) \in Entry
  BY DEF Command, FirstEntry, SecondEntry, Entry

LEMMA Asking ==
    ASSUME NEW c \in Command, NEW n \in Nat
    PROVE  /\ [c EXCEPT !.asked = n] \in Command /\ [c EXCEPT !.asked = n].op = c.op
           /\ [c EXCEPT !.asked = n].match = c.match
  BY DEF Command

LEMMA Naming ==
    ASSUME NEW c \in Command, NEW withUserId \in BOOLEAN
    PROVE  /\ [c EXCEPT !.named = withUserId] \in Command
           /\ [c EXCEPT !.named = withUserId].op = c.op
           /\ [c EXCEPT !.named = withUserId].match = c.match
  BY DEF Command

LEMMA Standings ==
    /\ initialPlayerStatus \in Standing /\ Unplayed \in [Players -> Standing]
    /\ "playerA" \in Players /\ "playerB" \in Players
  BY DEF initialPlayerStatus, Standing, Unplayed, Players

LEMMA NewCommands ==
    ASSUME NEW o \in Ops, NEW s \in Sockets, NEW m \in Nat
    PROVE  /\ NewCommand(o, s, m) \in Command /\ NewCommand(o, s, m).op = o
           /\ NewCommand(o, s, m).match = m /\ NewCommand(o, s, m).socket = s
  BY Standings, NumKeysAssumption DEF NewCommand, Command

LEMMA Unchanging ==
    ASSUME matches' = matches, NEW q, Head(q).op # "joinSecond"
    PROVE  Onward(q, matches, matches')
  BY DEF Onward

LEMMA QuietlyEnded ==
    ASSUME SessionInv, pipe # <<>>, Head(pipe).op # "joinSecond", Finish,
           matches' = matches
    PROVE  Stepped
  BY Unchanging, StepEnded

LEMMA QuietlyWentOn ==
    ASSUME SessionInv, pipe # <<>>, Head(pipe).op # "joinSecond", NEW c \in Command, GoOn(c),
           matches' = matches, c.match \in 0..Len(matches), Sound(c, matches),
           c.op \in Made => Head(pipe).op \in Made /\ c.match = Head(pipe).match,
           c.op \in Named => c.match \in DOMAIN matches /\ Entered(pipe, matches, c.match),
           c.op \in Unmade => Head(pipe).op \in Unmade
    PROVE  Stepped
  BY Unchanging, StepWentOn

LEMMA SessionInit == Init => SessionInv
<1>. SUFFICES ASSUME Init PROVE SessionInv
  OBVIOUS
<1>1. /\ pipe \in Seq(Command) /\ queue \in Seq(Entry) /\ matches \in Seq(Match)
      /\ Len(matches) = 0 /\ DOMAIN pipe = {} /\ DOMAIN matches = {}
  <2>1. \A S : <<>> \in Seq(S) /\ Len(<<>>) = 0 /\ DOMAIN <<>> = {}
    BY EmptySeq
  <2>. QED  BY <2>1 DEF Init
<1>2. TypeOK
  BY <1>1, Standings, BoundsAssumption DEF Init, TypeOK
<1>3. PipeInv(pipe, matches)
  BY <1>1 DEF PipeInv, PipeOrder
<1>4. BoundInv
  <2>1. Coming(pipe) = {}
    BY <1>1 DEF Coming
  <2>2. Cardinality(Coming(pipe)) = 0
    BY <2>1, FS_EmptySet
  <2>. QED  BY <1>1, <2>2, BoundsAssumption DEF BoundInv
<1>5. MatchInv
  BY <1>1 DEF Init, MatchInv
<1>. QED  BY <1>2, <1>3, <1>4, <1>5 DEF SessionInv

\* Among finitely many matches there is a newest.
LEMMA Greatest ==
    ASSUME NEW n \in Nat, NEW T, T \subseteq 0..n, T # {}
    PROVE  \E x \in T : \A y \in T : y <= x
<1>. DEFINE above == {k \in Nat : \A y \in T : y <= k}
            less == OpToRel(<, Nat)
<1>1. n \in above /\ above \subseteq Nat /\ above # {}
  OBVIOUS
<1>2. IsWellFoundedOn(less, Nat)
  BY NatLessThanWellFounded
<1>3. \A j, k \in Nat : j < k => <<j, k>> \in less
  BY DEF OpToRel
<1>. HIDE DEF less
<1>4. PICK x \in above : \A k \in above : ~(<<k, x>> \in less)
  <2>. HIDE DEF above
  <2>. QED  BY <1>1, <1>2, WFMin
<1>5. x \in Nat /\ \A y \in T : y <= x /\ y \in Nat
  BY <1>4
<1>6. CASE x \in T
  BY <1>5, <1>6
<1>7. CASE x \notin T
  <2>1. \A y \in T : y < x
    BY <1>5, <1>7
  <2>2. PICK y \in T : TRUE
    OBVIOUS
  <2>3. x # 0
    BY <2>1, <2>2, <1>5
  <2>4. x - 1 \in Nat /\ x - 1 < x /\ \A z \in T : z <= x - 1
    BY <1>5, <2>1, <2>3
  <2>. QED  BY <1>3, <1>4, <1>5, <2>4
<1>. QED  BY <1>6, <1>7

LEMMA NewestKnown ==
    ASSUME SessionInv, NEW s \in Sockets
    PROVE  Newest(s) \in Nat
<1>1. told[s] \subseteq 0..Len(matches) /\ Len(matches) \in Nat
  BY Shape DEF SessionInv, TypeOK
<1>2. told[s] # {} => \E x \in told[s] : \A y \in told[s] : y <= x
  BY <1>1, Greatest
<1>. QED  BY <1>1, <1>2 DEF Newest

\* Only players know a match, and they are in its room.
LEMMA Known ==
    ASSUME SessionInv, NEW s \in Sockets, NEW m \in MatchIds, Knows(s, m)
    PROVE  /\ m \in Nat /\ m \in DOMAIN matches /\ m \in 0..Len(matches)
           /\ matches[m].outcome \in Ready /\ s \in {matches[m].playerA, matches[m].playerB}
<1>1. m \in told[s] => m \in DOMAIN matches
  BY DEF SessionInv, TypeOK
<1>2. /\ m \in DOMAIN matches /\ matches[m].outcome \in Ready
      /\ s \in {matches[m].playerA, matches[m].playerB}
  BY <1>1 DEF Knows, SessionInv, MatchInv, PlayersOf
<1>. QED  BY <1>2, Shape

\* Events: a command is issued, and rooms are joined and left by their players.
LEMMA EventSession ==
    ASSUME SessionInv, NEW s \in Sockets, NEW m \in Nat,
           \/ QueueUp(s) \/ Submit(s) \/ Disconnect(s)
           \/ /\ m \in MatchIds
              /\ SubmitTo(s, m) \/ JoinRoom(s, m) \/ LeaveRoom(s, m)
    PROVE  SessionInv'
<1>. USE Shape, Standings
<1>0. {"lpush", "lrem", "rooms", "playerA", "join", "leave"} \subseteq Ops /\ 0 \in Nat
  BY DEF Ops, EventOps, AnswerOps
<1>1. /\ m \in Nat /\ Newest(s) \in Nat
      /\ m \in MatchIds /\ Knows(s, m) =>
            /\ m \in DOMAIN matches /\ m \in 0..Len(matches)
            /\ matches[m].outcome \in Ready /\ s \in {matches[m].playerA, matches[m].playerB}
  BY Known, NewestKnown
<1>2. /\ UNCHANGED <<matches, told, queue, status, screen, socketKey>>
      /\ open' \subseteq Sockets /\ events' \in 0..MaxEvents
  <2>1. /\ UNCHANGED <<matches, told, queue, status, screen, socketKey>>
        /\ open' = open \/ open' = open \ {s}
        /\ events' = events \/ (events < MaxEvents /\ events' = events + 1)
    BY DEF QueueUp, Submit, SubmitTo, JoinRoom, LeaveRoom, Disconnect, Event, roomVars,
           clientVars
  <2>2. open \subseteq Sockets /\ events \in 0..MaxEvents /\ MaxEvents \in Nat
    BY BoundsAssumption DEF SessionInv, TypeOK
  <2>. QED  BY <2>1, <2>2
<1>3. /\ adapterRooms' \in [Sockets -> SUBSET (DOMAIN matches)]
      /\ away' \in [Sockets -> SUBSET (DOMAIN matches)]
      /\ \A t \in Sockets : \A x \in adapterRooms'[t] \ adapterRooms[t] :
            s = t /\ x \in MatchIds /\ Knows(s, x)
  <2>1. /\ adapterRooms \in [Sockets -> SUBSET (DOMAIN matches)]
        /\ away \in [Sockets -> SUBSET (DOMAIN matches)]
    BY DEF SessionInv, TypeOK
  <2>2. CASE QueueUp(s) \/ Submit(s) \/ (m \in MatchIds /\ SubmitTo(s, m))
    BY <2>1, <2>2 DEF QueueUp, Submit, SubmitTo, roomVars, clientVars
  <2>3. CASE Disconnect(s)
    BY <2>1, <2>3 DEF Disconnect, clientVars
  <2>4. CASE m \in MatchIds /\ JoinRoom(s, m)
    BY <1>1, <2>1, <2>4 DEF JoinRoom, AdapterJoin, clientVars
  <2>5. CASE m \in MatchIds /\ LeaveRoom(s, m)
    BY <1>1, <2>1, <2>5 DEF LeaveRoom
  <2>. QED  BY <2>2, <2>3, <2>4, <2>5
<1>4. Stepped
  <2>1. CASE QueueUp(s)
    <3>. PICK withUserId \in BOOLEAN :
                Issue([NewCommand("lpush", s, 0) EXCEPT !.named = withUserId])
      BY <2>1 DEF QueueUp
    <3>. DEFINE c == [NewCommand("lpush", s, 0) EXCEPT !.named = withUserId]
    <3>1. c \in Command /\ c.op = "lpush" /\ c.match = 0
      BY <1>0, NewCommands, Naming
    <3>2. Issue(c)
      OBVIOUS
    <3>. HIDE DEF c
    <3>3. Sound(c, matches)
      BY <3>1 DEF Sound, Unmade, Made, Named, Playing, AnswerOps
    <3>. QED  BY <1>2, <3>1, <3>2, <3>3, StepIssued DEF Unmade, Made, Named, AnswerOps
  <2>2. CASE Disconnect(s)
    <3>. DEFINE c == NewCommand("lrem", s, 0)
    <3>1. c \in Command /\ c.op = "lrem" /\ c.match = 0
      BY <1>0, NewCommands
    <3>2. Issue(c)
      BY <2>2 DEF Disconnect
    <3>. HIDE DEF c
    <3>3. Sound(c, matches)
      BY <3>1 DEF Sound, Unmade, Made, Named, Playing, AnswerOps
    <3>. QED  BY <1>2, <3>1, <3>2, <3>3, StepIssued DEF Unmade, Made, Named, AnswerOps
  <2>3. CASE Submit(s)
    <3>. DEFINE c == [NewCommand("rooms", s, 0) EXCEPT !.asked = Newest(s)]
    <3>1. c \in Command /\ c.op = "rooms" /\ c.match = 0
      BY <1>0, <1>1, NewCommands, Asking
    <3>2. Issue(c)
      BY <2>3 DEF Submit
    <3>. HIDE DEF c
    <3>3. Sound(c, matches)
      BY <3>1 DEF Sound, Unmade, Made, Named, Playing, AnswerOps
    <3>. QED  BY <1>2, <3>1, <3>2, <3>3, StepIssued DEF Unmade, Made, Named, AnswerOps
  <2>4. CASE m \in MatchIds /\ SubmitTo(s, m)
    <3>. DEFINE c == [NewCommand("playerA", s, m) EXCEPT !.asked = m]
    <3>1. c \in Command /\ c.op = "playerA" /\ c.match = m
      BY <1>0, <1>1, NewCommands, Asking
    <3>2. Issue(c) /\ Knows(s, m)
      BY <2>4 DEF SubmitTo
    <3>. HIDE DEF c
    <3>3. Sound(c, matches)
      BY <1>1, <2>4, <3>1, <3>2 DEF Sound, Unmade, Made, Named, Playing, AnswerOps
    <3>. QED  BY <1>1, <1>2, <2>4, <3>1, <3>2, <3>3, StepIssued DEF Unmade, Made, Named, AnswerOps
  <2>5. CASE m \in MatchIds /\ JoinRoom(s, m)
    <3>. DEFINE c == NewCommand("join", s, m)
    <3>1. c \in Command /\ c.op = "join" /\ c.match = m /\ c.socket = s
      BY <1>0, <1>1, NewCommands
    <3>2. Issue(c) /\ Knows(s, m)
      BY <2>5 DEF JoinRoom
    <3>. HIDE DEF c
    <3>3. Sound(c, matches)
      BY <1>1, <2>5, <3>1, <3>2 DEF Sound, Unmade, Made, Named, Playing, AnswerOps
    <3>. QED  BY <1>1, <1>2, <2>5, <3>1, <3>2, <3>3, StepIssued DEF Unmade, Made, Named, AnswerOps
  <2>6. CASE m \in MatchIds /\ LeaveRoom(s, m)
    <3>. DEFINE c == NewCommand("leave", s, m)
    <3>1. c \in Command /\ c.op = "leave" /\ c.match = m /\ c.socket = s
      BY <1>0, <1>1, NewCommands
    <3>2. Issue(c) /\ Knows(s, m)
      BY <2>6 DEF LeaveRoom
    <3>. HIDE DEF c
    <3>3. Sound(c, matches)
      BY <1>1, <2>6, <3>1, <3>2 DEF Sound, Unmade, Made, Named, Playing, AnswerOps
    <3>. QED  BY <1>1, <1>2, <2>6, <3>1, <3>2, <3>3, StepIssued DEF Unmade, Made, Named, AnswerOps
  <2>. QED  BY <2>1, <2>2, <2>3, <2>4, <2>5, <2>6
<1>5. /\ \A t \in Sockets : \A x \in adapterRooms'[t] \ adapterRooms[t] :
            t \in {matches[x].playerA, matches[x].playerB}
  BY <1>3, Known
<1>6. /\ TypeOK /\ matches' \in Seq(Match) /\ DOMAIN matches' = DOMAIN matches
  BY <1>2 DEF SessionInv, TypeOK
<1>. QED  BY <1>2, <1>3, <1>4, <1>5, <1>6, SessionKept DEF TypeOK

\* A step that makes, decides and announces no match, and moves no socket.
LEMMA QuietSession ==
    ASSUME SessionInv, Stepped, UNCHANGED <<matches, told, open, away, events, adapterRooms>>,
           queue' \in Seq(Entry), status' \in [MatchIds -> [Players -> Standing]],
           screen' \in [Sockets -> [MatchIds -> [Players -> Standing]]],
           socketKey' \in [Sockets -> SUBSET (DOMAIN matches)],
           \A s \in Sockets : \A m \in socketKey'[s] \ socketKey[s] :
              Entered(pipe', matches', m),
           \A s \in Sockets, m \in MatchIds :
              \/ screen'[s][m] = screen[s][m]
              \/ m \in DOMAIN matches /\ matches[m].outcome \in Ready /\ s \in PlayersOf(m)
    PROVE  SessionInv'
  BY SessionKept DEF SessionInv, TypeOK

LEMMA TickSession == ASSUME SessionInv, Tick PROVE SessionInv'
<1>. DEFINE c == NewCommand("lrange", CHOOSE s \in Sockets : TRUE, 0)
<1>1. Sockets # {}
  <2>1. queue \in Seq(Entry) /\ pipe \in Seq(Command)
    BY DEF SessionInv, TypeOK
  <2>2. \A k \in DOMAIN queue : queue[k].client \in Sockets
    <3>1. \A k \in DOMAIN queue : queue[k] \in Entry
      BY <2>1, Sequence
    <3>. QED  BY <3>1 DEF Entry
  <2>3. \A k \in DOMAIN pipe : pipe[k].socket \in Sockets
    BY Shape, Fields
  <2>4. CASE DOMAIN pipe = {}
    <3>1. {k \in DOMAIN pipe : pipe[k].op = "lpush"} = {}
      BY <2>4
    <3>2. Cardinality({k \in DOMAIN pipe : pipe[k].op = "lpush"}) = 0
      BY <3>1, FS_EmptySet
    <3>3. Len(queue) \in Nat /\ DOMAIN queue = 1..Len(queue) /\ Len(queue) >= 2
      BY <2>1, <3>2, Sequence DEF Tick
    <3>4. 1 \in DOMAIN queue
      BY <3>3
    <3>. QED  BY <2>2, <3>4
  <2>. QED  BY <2>3, <2>4
<1>2. "lrange" \in Ops /\ 0 \in Nat
  BY DEF Ops, TickOps
<1>3. c \in Command /\ c.op = "lrange" /\ c.match = 0
  BY <1>1, <1>2, NewCommands
<1>4. Issue(c) /\ Len(matches) + Cardinality(Ticks) < MaxMatches
      /\ UNCHANGED <<open, queue, matches, status, roomVars, clientVars, events>>
  BY DEF Tick
<1>. HIDE DEF c
<1>5. Sound(c, matches)
  BY <1>3 DEF Sound, Unmade, Made, Named, Playing, AnswerOps
<1>6. Stepped
  BY <1>3, <1>4, <1>5, Shape, StepIssued DEF Unmade, Made, Named, AnswerOps, clientVars
<1>. QED  BY <1>4, <1>6, QuietSession DEF SessionInv, TypeOK, roomVars, clientVars

\* The front command ends or goes on as another one that is no answer and no tick.
LEMMA EventReplySession ==
    ASSUME SessionInv, Queued \/ Joined \/ Left \/ QueueCleaned \/ RoomsToClean \/ RoomsCleaned
    PROVE  SessionInv'
<1>. DEFINE c == Head(pipe)
<1>1. /\ pipe # <<>> /\ c.op \in {"lpush", "join", "leave", "lrem", "smembers", "cleanup"}
      /\ UNCHANGED <<matches, told, open, away, events, adapterRooms, status, screen>>
  BY DEF Queued, Joined, Left, QueueCleaned, RoomsToClean, RoomsCleaned, Reply, roomVars
<1>2. c \in Command /\ c.match \in 0..Len(matches) /\ Sound(c, matches)
      /\ c.socket \in Sockets
  BY <1>1, Served, Fields
<1>3. Stepped
  <2>1. CASE Finish
    BY <1>1, <2>1, QuietlyEnded
  <2>2. ASSUME NEW o \in {"smembers", "cleanup"}, GoTo(o)
        PROVE  Stepped
    <3>. DEFINE d == [c EXCEPT !.op = o]
    <3>1. o \in Ops
      BY DEF Ops
    <3>2. d \in Command /\ d.op = o /\ d.match = c.match
      BY <1>2, <3>1, Fields
    <3>3. GoOn(d)
      BY <2>2 DEF GoTo
    <3>. HIDE DEF d
    <3>4. Sound(d, matches)
      BY <3>2 DEF Sound, Unmade, Made, Named, Playing, AnswerOps
    <3>5. o \notin Made /\ o \notin Named /\ o \notin Unmade
      BY DEF Made, Unmade, Named, AnswerOps
    <3>. QED  BY <1>1, <1>2, <3>2, <3>3, <3>4, <3>5, QuietlyWentOn
  <2>. QED  BY <2>1, <2>2 DEF Queued, Joined, Left, QueueCleaned, RoomsToClean, RoomsCleaned
<1>. HIDE DEF c
<1>4. queue' \in Seq(Entry)
  <2>1. queue \in Seq(Entry)
    BY DEF SessionInv, TypeOK
  <2>2. CASE Queued
    BY <1>1, <1>2, <2>1, <2>2, Fields, PushTyped DEF Queued, c
  <2>3. CASE QueueCleaned
    BY <2>1, <2>3, LremTyped DEF QueueCleaned
  <2>. QED  BY <2>1, <2>2, <2>3 DEF Joined, Left, RoomsToClean, RoomsCleaned
<1>5. /\ socketKey' \in [Sockets -> SUBSET (DOMAIN matches)]
      /\ \A s \in Sockets : \A m \in socketKey'[s] \ socketKey[s] :
            m \in DOMAIN matches /\ matches[m].outcome \in Ready
  <2>1. socketKey \in [Sockets -> SUBSET (DOMAIN matches)]
    BY DEF SessionInv, TypeOK
  <2>2. CASE Joined
    <3>1. c.op = "join" /\ socketKey' = [socketKey EXCEPT ![c.socket] = @ \cup {c.match}]
      BY <2>2 DEF Joined, Reply, c
    <3>2. matches[c.match].outcome \in Ready /\ c.match \in DOMAIN matches
      BY <1>2, <3>1 DEF Sound
    <3>. QED  BY <1>2, <2>1, <3>1, <3>2
  <2>3. CASE Left
    BY <2>1, <2>3 DEF Left
  <2>4. CASE RoomsCleaned
    BY <2>1, <2>4 DEF RoomsCleaned
  <2>5. CASE Queued \/ QueueCleaned \/ RoomsToClean
    BY <2>1, <2>5 DEF Queued, QueueCleaned, RoomsToClean, roomVars
  <2>. QED  BY <2>2, <2>3, <2>4, <2>5
<1>6. \A s \in Sockets : \A m \in socketKey'[s] \ socketKey[s] : Entered(pipe', matches', m)
  BY <1>1, <1>5 DEF Entered
<1>. QED  BY <1>1, <1>3, <1>4, <1>5, <1>6, QuietSession DEF SessionInv, TypeOK

\* A tick reads the list and takes its pair.
LEMMA ReadSession ==
    ASSUME SessionInv, ReadQueue \/ DropDuplicate \/ TakeFirst
    PROVE  SessionInv'
<1>. DEFINE c == Head(pipe)
<1>1. /\ pipe # <<>> /\ c.op \in {"lrange", "dropDuplicate", "takeFirst"}
      /\ UNCHANGED <<matches, told, open, away, events, adapterRooms, socketKey, status, screen>>
  BY DEF ReadQueue, DropDuplicate, TakeFirst, Reply, roomVars
<1>2. c \in Command /\ c.match \in 0..Len(matches) /\ Sound(c, matches)
      /\ c.socket \in Sockets /\ c.other \in Sockets
  BY <1>1, Served, Fields
<1>3. queue \in Seq(Entry)
  BY DEF SessionInv, TypeOK
<1>4. queue' \in Seq(Entry)
  BY <1>3, LremTyped DEF ReadQueue, DropDuplicate, TakeFirst
<1>5. CASE Finish
  <2>1. Stepped
    BY <1>1, <1>5, QuietlyEnded
  <2>. QED  BY <1>1, <1>4, <2>1, QuietSession DEF SessionInv, TypeOK
<1>6. ASSUME NEW d \in Command, GoOn(d), d.match = c.match,
             \/ d.op = "dropDuplicate"
             \/ /\ d.op \in {"takeFirst", "takeSecond"} /\ d.socket # d.other
                /\ c.op \in {"lrange", "takeFirst"}
      PROVE  SessionInv'
  <2>1. Sound(d, matches)
    BY <1>6 DEF Sound, Unmade, Made, Named, Playing, AnswerOps
  <2>2. d.op \notin Made /\ d.op \notin Named /\ (d.op \in Unmade => c.op \in Unmade)
    BY <1>6 DEF Made, Unmade, Named, AnswerOps
  <2>. HIDE DEF c
  <2>3. Stepped
    BY <1>1, <1>2, <1>6, <2>1, <2>2, QuietlyWentOn DEF c
  <2>. QED  BY <1>1, <1>4, <2>3, QuietSession DEF SessionInv, TypeOK
<1>7. CASE ReadQueue /\ Len(queue) >= 2
  <2>. DEFINE o == IF SamePlayer(queue[1], queue[2]) THEN "dropDuplicate" ELSE "takeFirst"
              d == [c EXCEPT !.socket = queue[1].client, !.named = queue[1].named,
                             !.other = queue[2].client, !.otherNamed = queue[2].named,
                             !.op = o]
  <2>1. queue[1] \in Entry /\ queue[2] \in Entry
    <3>1. Len(queue) \in Nat /\ DOMAIN queue = 1..Len(queue)
      BY <1>3, Sequence
    <3>2. 1 \in DOMAIN queue /\ 2 \in DOMAIN queue
      BY <1>7, <3>1
    <3>. QED  BY <1>3, <3>2, Sequence
  <2>2. o \in Ops
    BY DEF Ops, TickOps
  <2>3. d \in Command /\ d.op = o /\ d.match = c.match /\ d.socket = queue[1].client
        /\ d.other = queue[2].client
    <3>. HIDE DEF o
    <3>. QED  BY <1>2, <2>1, <2>2 DEF Command, Entry
  <2>4. GoOn(d) /\ c.op = "lrange"
    <3>1. Len(queue) \in Nat
      BY <1>3, Sequence
    <3>. QED  BY <1>7, <3>1 DEF ReadQueue, Reply
  <2>. HIDE DEF d
  <2>. QED  BY <1>6, <2>3, <2>4 DEF SamePlayer
<1>8. CASE TakeFirst
  <2>. DEFINE d == [c EXCEPT !.op = "takeSecond"]
  <2>1. c.op = "takeFirst" /\ GoOn(d)
    BY <1>8 DEF TakeFirst, Reply, GoTo
  <2>2. "takeSecond" \in Ops
    BY DEF Ops, TickOps
  <2>3. d \in Command /\ d.op = "takeSecond" /\ d.match = c.match /\ d.socket = c.socket
        /\ d.other = c.other
    BY <1>2, <2>2, Fields
  <2>4. c.socket # c.other
    BY <1>2, <2>1 DEF Sound, Unmade
  <2>. HIDE DEF d
  <2>. QED  BY <1>6, <2>1, <2>3, <2>4
<1>9. ReadQueue /\ ~(Len(queue) >= 2) => Finish
  <2>1. Len(queue) \in Nat
    BY <1>3, Sequence
  <2>. QED  BY <2>1 DEF ReadQueue
<1>. QED  BY <1>5, <1>7, <1>8, <1>9 DEF DropDuplicate

\* A match is made: it is the tick's own, and nobody knows of it.
LEMMA MatchMade ==
    ASSUME SessionInv, TakeSecond
    PROVE  \E m \in Nat :
              /\ matches' \in Seq(Match) /\ Len(matches') = Len(matches) + 1
              /\ m = Len(matches) + 1 /\ m \notin DOMAIN matches
              /\ DOMAIN matches' = DOMAIN matches \cup {m}
              /\ \A x \in DOMAIN matches : matches'[x] = matches[x]
              /\ matches'[m] = [playerA |-> Head(pipe).socket, playerB |-> Head(pipe).other,
                                outcome |-> "pending"]
<1>. DEFINE made == [playerA |-> Head(pipe).socket, playerB |-> Head(pipe).other,
                     outcome |-> "pending"]
<1>1. pipe # <<>> /\ matches' = Append(matches, made)
  BY DEF TakeSecond, Reply
<1>2. Head(pipe).socket \in Sockets /\ Head(pipe).other \in Sockets
  BY <1>1, Served, Fields
<1>3. made \in Match
  BY <1>2 DEF Match, Outcomes
<1>4. /\ matches \in Seq(Match) /\ Len(matches) \in Nat /\ DOMAIN matches = 1..Len(matches)
  BY Shape DEF SessionInv, TypeOK
<1>. HIDE DEF made
<1>5. /\ matches' \in Seq(Match) /\ Len(matches') = Len(matches) + 1
      /\ Len(matches) + 1 \notin DOMAIN matches /\ Len(matches) + 1 \in Nat
      /\ DOMAIN matches' = DOMAIN matches \cup {Len(matches) + 1}
      /\ matches'[Len(matches) + 1] = made /\ \A x \in DOMAIN matches : matches'[x] = matches[x]
  BY <1>1, <1>3, <1>4, Back
<1>. QED  BY <1>5 DEF made

LEMMA TakeSession ==
    ASSUME SessionInv, TakeSecond
    PROVE  SessionInv'
<1>. DEFINE c == Head(pipe)
<1>1. PICK m \in Nat :
         /\ matches' \in Seq(Match) /\ Len(matches') = Len(matches) + 1
         /\ m = Len(matches) + 1 /\ m \notin DOMAIN matches
         /\ DOMAIN matches' = DOMAIN matches \cup {m}
         /\ \A x \in DOMAIN matches : matches'[x] = matches[x]
         /\ matches'[m] = [playerA |-> c.socket, playerB |-> c.other, outcome |-> "pending"]
  BY MatchMade
<1>. DEFINE d == [c EXCEPT !.op = "storeKeys", !.left = NumKeys, !.match = m]
<1>2. /\ pipe # <<>> /\ c.op = "takeSecond" /\ GoOn(d)
      /\ UNCHANGED <<told, open, away, events, adapterRooms, socketKey, status, screen>>
  BY <1>1 DEF TakeSecond, Reply, roomVars
<1>3. c \in Command /\ c.socket # c.other
  BY <1>2, Served DEF Sound, Unmade
<1>4. d \in Command /\ d.op = "storeKeys" /\ d.match = m /\ d.socket = c.socket
      /\ d.other = c.other
  <2>1. "storeKeys" \in Ops /\ NumKeys \in 0..NumKeys
    BY NumKeysAssumption DEF Ops, TickOps
  <2>. QED  BY <1>3, <2>1 DEF Command
<1>. HIDE DEF d, c
<1>5. Sound(d, matches')
  BY <1>1, <1>4 DEF Sound, Unmade, Made, Named, Playing, AnswerOps
<1>6. Onward(pipe, matches, matches')
  BY <1>1, <1>2 DEF Onward, c
<1>7. d.match \in 0..Len(matches')
  BY <1>1, <1>4
<1>8. d.op \in Made /\ d.op \notin Named /\ d.op \notin Unmade /\ Head(pipe).op \in Unmade
  BY <1>2, <1>4 DEF Made, Named, Unmade, AnswerOps, c
<1>9. Stepped
  BY <1>1, <1>2, <1>4, <1>5, <1>6, <1>7, <1>8, StepWentOn
<1>10. queue' \in Seq(Entry)
  BY LremTyped DEF TakeSecond, SessionInv, TypeOK
<1>11. matches'[m].playerA # matches'[m].playerB
  BY <1>1, <1>3
<1>. QED  BY <1>1, <1>2, <1>9, <1>10, <1>11, SessionKept DEF SessionInv, TypeOK

LEMMA Concluded ==
    ASSUME SessionInv, NEW m \in DOMAIN matches, NEW result \in Outcomes, Conclude(m, result),
           matches[m].outcome \notin Ready
    PROVE  /\ matches' \in Seq(Match) /\ Len(matches') = Len(matches)
           /\ DOMAIN matches' = DOMAIN matches
           /\ matches'[m].playerA = matches[m].playerA /\ matches'[m].playerB = matches[m].playerB
           /\ matches'[m].outcome = result
           /\ \A x \in DOMAIN matches : x # m => matches'[x] = matches[x]
           /\ \A x \in DOMAIN matches :
                 /\ matches'[x].playerA = matches[x].playerA
                 /\ matches'[x].playerB = matches[x].playerB
                 /\ matches[x].outcome \in Ready => matches'[x].outcome = matches[x].outcome
<1>. DEFINE new == [matches[m] EXCEPT !.outcome = result]
<1>1. matches' = [matches EXCEPT ![m] = new] /\ matches[m] \in Match
  BY Shape DEF Conclude
<1>2. new \in Match /\ new.playerA = matches[m].playerA /\ new.playerB = matches[m].playerB
      /\ new.outcome = result
  BY <1>1 DEF Match
<1>. HIDE DEF new
<1>3. m \in 1..Len(matches) /\ matches \in Seq(Match)
  BY Shape DEF SessionInv, TypeOK
<1>4. matches' \in Seq(Match) /\ Len(matches') = Len(matches)
      /\ \A x \in 1..Len(matches) : matches'[x] = IF x = m THEN new ELSE matches[x]
  BY <1>1, <1>2, <1>3, ExceptSeq
<1>. QED  BY <1>2, <1>3, <1>4, Shape, Sequence

\* The tick's own match, while it stores keys and joins sockets.
LEMMA Own ==
    ASSUME SessionInv, pipe # <<>>, Head(pipe).op \in Made
    PROVE  /\ Head(pipe).match \in DOMAIN matches
           /\ matches[Head(pipe).match].outcome = "pending"
           /\ matches[Head(pipe).match].playerA = Head(pipe).socket
           /\ matches[Head(pipe).match].playerB = Head(pipe).other
           /\ Head(pipe).socket \in Sockets /\ Head(pipe).other \in Sockets
           /\ Head(pipe) \in Command
<1>1. Sound(Head(pipe), matches) /\ Head(pipe) \in Command
  BY Served
<1>. QED  BY <1>1, Fields DEF Sound

LEMMA StoreSession ==
    ASSUME SessionInv, StoreKey
    PROVE  SessionInv'
<1>. DEFINE c == Head(pipe)
            m == c.match
<1>1. /\ pipe # <<>> /\ c.op = "storeKeys"
      /\ UNCHANGED <<told, open, away, events, queue, socketKey, screen>>
  BY DEF StoreKey, Reply
<1>2. /\ c \in Command /\ m \in DOMAIN matches /\ matches[m].outcome = "pending"
      /\ matches[m].playerA = c.socket /\ matches[m].playerB = c.other
      /\ m \in MatchIds /\ m \in 0..Len(matches)
  BY <1>1, Own, Served, Shape DEF Made
<1>3. Sound(c, matches)
  BY <1>1, Served
<1>. HIDE DEF m
<1>4. CASE matches' = matches /\ status' = status /\ adapterRooms' = adapterRooms
           /\ GoOn([c EXCEPT !.left = @ - 1]) /\ c.left > 1
  <2>. DEFINE d == [c EXCEPT !.left = @ - 1]
  <2>1. c.left - 1 \in 0..NumKeys
    BY <1>2, <1>4, Fields, NumKeysAssumption
  <2>2. d \in Command /\ d.op = "storeKeys" /\ d.match = m /\ d.socket = c.socket
        /\ d.other = c.other
    BY <1>1, <1>2, <2>1 DEF Command, m
  <2>3. GoOn(d)
    BY <1>4
  <2>. HIDE DEF d, c
  <2>4. Sound(d, matches)
    BY <1>1, <1>3, <2>2 DEF Sound, Unmade, Made, Named, Playing, AnswerOps, m
  <2>5. Head(pipe).op = "storeKeys" /\ Head(pipe).match = m
    BY <1>1 DEF c, m
  <2>6. d.op \in Made /\ Head(pipe).op \in Made /\ d.op \notin Named /\ d.op \notin Unmade
    BY <2>2, <2>5 DEF Made, Named, Unmade, AnswerOps
  <2>7. Stepped
    BY <1>1, <1>2, <1>4, <2>2, <2>3, <2>4, <2>5, <2>6, QuietlyWentOn
  <2>. QED  BY <1>1, <1>4, <2>7, QuietSession DEF SessionInv, TypeOK
<1>5. status' = [status EXCEPT ![m] = Unplayed] =>
         status' \in [MatchIds -> [Players -> Standing]]
  BY <1>2, Standings DEF SessionInv, TypeOK
<1>6. CASE /\ status' = [status EXCEPT ![m] = Unplayed]
           /\ adapterRooms' = AdapterJoin(c.socket, m) /\ matches' = matches
           /\ GoOn([c EXCEPT !.op = "joinFirst", !.left = 0])
  <2>. DEFINE d == [c EXCEPT !.op = "joinFirst", !.left = 0]
  <2>1. 0 \in 0..NumKeys /\ "joinFirst" \in Ops
    BY NumKeysAssumption DEF Ops, TickOps
  <2>2. d \in Command /\ d.op = "joinFirst" /\ d.match = m /\ d.socket = c.socket
        /\ d.other = c.other
    BY <1>1, <1>2, <2>1 DEF Command, m
  <2>3. GoOn(d)
    BY <1>6
  <2>. HIDE DEF d, c
  <2>4. Sound(d, matches)
    BY <1>1, <1>3, <2>2 DEF Sound, Unmade, Made, Named, Playing, AnswerOps, m
  <2>5. Head(pipe).op = "storeKeys" /\ Head(pipe).match = m
    BY <1>1 DEF c, m
  <2>6. d.op \in Made /\ Head(pipe).op \in Made /\ d.op \notin Named /\ d.op \notin Unmade
    BY <2>2, <2>5 DEF Made, Named, Unmade, AnswerOps
  <2>7. Stepped
    BY <1>1, <1>2, <1>6, <2>2, <2>3, <2>4, <2>5, <2>6, QuietlyWentOn
  <2>8. /\ adapterRooms' \in [Sockets -> SUBSET (DOMAIN matches)]
        /\ \A s \in Sockets : \A x \in adapterRooms'[s] \ adapterRooms[s] :
              x = m /\ s = c.socket
    <3>1. adapterRooms \in [Sockets -> SUBSET (DOMAIN matches)]
      BY DEF SessionInv, TypeOK
    <3>. QED  BY <1>2, <1>6, <3>1 DEF AdapterJoin
  <2>. QED  BY <1>1, <1>2, <1>5, <1>6, <2>7, <2>8, SessionKept DEF SessionInv, TypeOK
<1>7. CASE /\ status' = [status EXCEPT ![m] = Unplayed]
           /\ adapterRooms' = adapterRooms /\ Conclude(m, "abandoned") /\ Finish
  <2>1. "abandoned" \in Outcomes
    BY DEF Outcomes
  <2>2. /\ matches' \in Seq(Match) /\ Len(matches') = Len(matches)
        /\ DOMAIN matches' = DOMAIN matches
        /\ \A x \in DOMAIN matches : x # m => matches'[x] = matches[x]
        /\ \A x \in DOMAIN matches :
              /\ matches'[x].playerA = matches[x].playerA
              /\ matches'[x].playerB = matches[x].playerB
              /\ matches[x].outcome \in Ready => matches'[x].outcome = matches[x].outcome
    BY <1>2, <1>7, <2>1, Concluded
  <2>3. Onward(pipe, matches, matches')
    BY <1>1, <2>2 DEF Onward, Made, m
  <2>4. Stepped
    BY <1>1, <1>7, <2>2, <2>3, StepEnded
  <2>. QED  BY <1>1, <1>5, <1>7, <2>2, <2>4, SessionKept DEF SessionInv, TypeOK
<1>. QED  BY <1>4, <1>6, <1>7 DEF StoreKey, m

LEMMA JoinSession ==
    ASSUME SessionInv, FirstJoined
    PROVE  SessionInv'
<1>. DEFINE c == Head(pipe)
            m == c.match
            d == [c EXCEPT !.op = "joinSecond"]
<1>1. /\ pipe # <<>> /\ c.op = "joinFirst" /\ GoOn(d)
      /\ socketKey' = [socketKey EXCEPT ![c.socket] = @ \cup {m}]
      /\ adapterRooms' = AdapterJoin(c.other, m)
      /\ UNCHANGED <<told, open, away, events, queue, matches, status, screen>>
  BY DEF FirstJoined, Reply, GoTo
<1>2. /\ c \in Command /\ m \in DOMAIN matches /\ matches[m].outcome = "pending"
      /\ matches[m].playerA = c.socket /\ matches[m].playerB = c.other
      /\ c.socket \in Sockets /\ c.other \in Sockets
      /\ m \in MatchIds /\ m \in 0..Len(matches)
  BY <1>1, Own, Served, Shape DEF Made
<1>3. d \in Command /\ d.op = "joinSecond" /\ d.match = m /\ d.socket = c.socket
      /\ d.other = c.other
  <2>1. "joinSecond" \in Ops
    BY DEF Ops, TickOps
  <2>. QED  BY <1>2, <2>1, Fields
<1>4. Sound(c, matches)
  BY <1>1, Served
<1>. HIDE DEF d
<1>5. Sound(d, matches)
  <2>. HIDE DEF c
  <2>. QED  BY <1>1, <1>3, <1>4 DEF Sound, Unmade, Made, Named, Playing, AnswerOps
<1>6. d.op \in Made /\ Head(pipe).op \in Made /\ d.op \notin Named /\ d.op \notin Unmade
  BY <1>1, <1>3 DEF Made, Named, Unmade, AnswerOps
<1>7. Stepped
  BY <1>1, <1>2, <1>3, <1>5, <1>6, QuietlyWentOn
<1>8. Entered(pipe', matches', m)
  <2>1. Tail(pipe) \in Seq(Command)
    BY <1>1, Shape, Front
  <2>2. Len(Tail(pipe)) + 1 \in DOMAIN pipe' /\ pipe'[Len(Tail(pipe)) + 1] = d
    BY <1>1, <1>3, <2>1, Back DEF GoOn
  <2>. QED  BY <1>3, <2>2 DEF Entered
<1>. HIDE DEF c, m
<1>9. /\ adapterRooms' \in [Sockets -> SUBSET (DOMAIN matches)]
      /\ socketKey' \in [Sockets -> SUBSET (DOMAIN matches)]
      /\ \A s \in Sockets : \A x \in adapterRooms'[s] \ adapterRooms[s] :
            x = m /\ s = c.other
      /\ \A s \in Sockets : \A x \in socketKey'[s] \ socketKey[s] : x = m
  <2>1. /\ adapterRooms \in [Sockets -> SUBSET (DOMAIN matches)]
        /\ socketKey \in [Sockets -> SUBSET (DOMAIN matches)]
    BY DEF SessionInv, TypeOK
  <2>2. /\ adapterRooms' \in [Sockets -> SUBSET (DOMAIN matches)]
        /\ \A s \in Sockets : \A x \in adapterRooms'[s] \ adapterRooms[s] :
              x = m /\ s = c.other
    BY <1>1, <1>2, <2>1 DEF AdapterJoin
  <2>3. /\ socketKey' \in [Sockets -> SUBSET (DOMAIN matches)]
        /\ \A s \in Sockets : \A x \in socketKey'[s] \ socketKey[s] : x = m
    BY <1>1, <1>2, <2>1
  <2>. QED  BY <2>2, <2>3
<1>. QED  BY <1>1, <1>2, <1>7, <1>8, <1>9, SessionKept DEF SessionInv, TypeOK

LEMMA TellSession ==
    ASSUME SessionInv, SecondJoined
    PROVE  SessionInv'
<1>. DEFINE c == Head(pipe)
            m == c.match
            result == IF Announceable(c) THEN "told" ELSE "untold"
<1>1. /\ pipe # <<>> /\ c.op = "joinSecond" /\ Finish /\ Conclude(m, result)
      /\ socketKey' = [socketKey EXCEPT ![c.other] = @ \cup {m}]
      /\ told' = [s \in Sockets |-> IF Announceable(c) /\ s \in {c.socket, c.other} \cap open
                                    THEN told[s] \cup {m} ELSE told[s]]
      /\ UNCHANGED <<open, away, events, queue, adapterRooms, status, screen>>
  BY DEF SecondJoined, Reply, notifyMatchFound
<1>2. /\ c \in Command /\ m \in DOMAIN matches /\ matches[m].outcome = "pending"
      /\ matches[m].playerA = c.socket /\ matches[m].playerB = c.other
      /\ c.socket \in Sockets /\ c.other \in Sockets /\ m \in MatchIds
  BY <1>1, Own, Shape DEF Made
<1>3. /\ matches' \in Seq(Match) /\ Len(matches') = Len(matches)
      /\ DOMAIN matches' = DOMAIN matches /\ matches'[m].outcome = result
      /\ matches'[m].playerA = matches[m].playerA /\ matches'[m].playerB = matches[m].playerB
      /\ \A x \in DOMAIN matches : x # m => matches'[x] = matches[x]
      /\ \A x \in DOMAIN matches :
            /\ matches'[x].playerA = matches[x].playerA
            /\ matches'[x].playerB = matches[x].playerB
            /\ matches[x].outcome \in Ready => matches'[x].outcome = matches[x].outcome
  <2>1. result \in Outcomes
    BY DEF Outcomes
  <2>. HIDE DEF result
  <2>. QED  BY <1>1, <1>2, <2>1, Concluded
<1>4. Onward(pipe, matches, matches')
  <2>1. Head(pipe).op \in Made /\ Head(pipe).match = m
    BY <1>1 DEF Made
  <2>. HIDE DEF c, m
  <2>. QED  BY <1>3, <2>1 DEF Onward
<1>5. Stepped
  BY <1>1, <1>3, <1>4, StepEnded
<1>. HIDE DEF c, m
<1>6. /\ told' \in [Sockets -> SUBSET (DOMAIN matches)]
      /\ socketKey' \in [Sockets -> SUBSET (DOMAIN matches)]
      /\ \A s \in Sockets : \A x \in told'[s] \ told[s] :
            x = m /\ s \in {c.socket, c.other} /\ result = "told"
      /\ \A s \in Sockets : \A x \in socketKey'[s] \ socketKey[s] : x = m
  <2>1. /\ told \in [Sockets -> SUBSET (DOMAIN matches)]
        /\ socketKey \in [Sockets -> SUBSET (DOMAIN matches)]
    BY DEF SessionInv, TypeOK
  <2>2. /\ told' \in [Sockets -> SUBSET (DOMAIN matches)]
        /\ \A s \in Sockets : \A x \in told'[s] \ told[s] :
              x = m /\ s \in {c.socket, c.other} /\ result = "told"
    BY <1>1, <1>2, <2>1
  <2>3. /\ socketKey' \in [Sockets -> SUBSET (DOMAIN matches)]
        /\ \A s \in Sockets : \A x \in socketKey'[s] \ socketKey[s] : x = m
    BY <1>1, <1>2, <2>1
  <2>. QED  BY <2>2, <2>3
<1>7. Entered(pipe', matches', m)
  BY <1>3 DEF Entered
<1>. QED  BY <1>1, <1>2, <1>3, <1>5, <1>6, <1>7, SessionKept DEF SessionInv, TypeOK

LEMMA Answers ==
    /\ AnswerOps \subseteq Ops /\ "rooms" \notin Named /\ Named \subseteq AnswerOps
    /\ Playing \subseteq Named /\ "playerA" \in Named /\ "playerB" \in Named
    /\ "status" \in Playing /\ "answers" \in Playing /\ "questions" \in Playing
    /\ "store" \in Playing /\ "statusA" \in Playing /\ "statusB" \in Playing
    /\ \A o \in AnswerOps : o \notin Made /\ o \notin Unmade /\ o # "joinSecond"
    /\ \A o \in AnswerOps : o \notin {"join", "leave"}
  BY DEF AnswerOps, Named, Playing, Made, Unmade, Ops, EventOps

\* An answer whose match has been announced waits again.
LEMMA AnswerWentOn ==
    ASSUME SessionInv, pipe # <<>>, Head(pipe).op \in AnswerOps, UNCHANGED <<matches, told>>,
           NEW d \in Command, GoOn(d), d.op \in Named, d.match \in DOMAIN matches,
           Entered(pipe, matches, d.match),
           d.op \in Playing => d.socket \in PlayersOf(d.match)
    PROVE  Stepped
<1>1. Sound(d, matches)
  BY Answers DEF Sound, PlayersOf
<1>2. d.match \in 0..Len(matches)
  BY Shape
<1>3. d.op \notin Made /\ d.op \notin Unmade /\ Head(pipe).op # "joinSecond"
  BY Answers
<1>. QED  BY <1>1, <1>2, <1>3, QuietlyWentOn

LEMMA Role ==
    ASSUME NEW s, NEW m \in DOMAIN matches, matches[m] \in Match, s \in PlayersOf(m)
    PROVE  RoleOf(s, m) \in Players /\ matches[m][RoleOf(s, m)] = s
  BY DEF RoleOf, PlayersOf, Players, Match

\* The answer's command, and whose it is.
LEMMA Answering ==
    ASSUME SessionInv, pipe # <<>>, Head(pipe).op \in Named
    PROVE  /\ Head(pipe) \in Command /\ Head(pipe).op \in AnswerOps
           /\ Head(pipe).match \in DOMAIN matches /\ Head(pipe).match \in MatchIds
           /\ matches[Head(pipe).match].outcome \in Ready
           /\ Head(pipe).socket \in Sockets
           /\ Head(pipe).op \in Playing =>
                 /\ Head(pipe).socket \in PlayersOf(Head(pipe).match)
                 /\ RoleOf(Head(pipe).socket, Head(pipe).match) \in Players
           /\ status[Head(pipe).match] \in [Players -> Standing]
<1>1. /\ Head(pipe) \in Command /\ Sound(Head(pipe), matches)
      /\ Head(pipe).match \in DOMAIN matches /\ matches[Head(pipe).match].outcome \in Ready
  BY Served
<1>2. Head(pipe).match \in MatchIds /\ matches[Head(pipe).match] \in Match
  BY <1>1, Shape
<1>3. Head(pipe).op \in Playing => Head(pipe).socket \in PlayersOf(Head(pipe).match)
  BY <1>1 DEF Sound, PlayersOf
<1>4. status[Head(pipe).match] \in [Players -> Standing]
  BY <1>2 DEF SessionInv, TypeOK
<1>. QED  BY <1>1, <1>2, <1>3, <1>4, Answers, Fields, Role

LEMMA ReadSteps ==
    ASSUME SessionInv,
           FindMatchRoom \/ ReadPlayerA \/ ReadPlayerB \/ ReadStatus \/ ReadAnswers \/ ReadQuestions
    PROVE  /\ Stepped
           /\ UNCHANGED <<queue, matches, status, roomVars, told, screen, open, events, away>>
<1>. DEFINE c == Head(pipe)
            m == c.match
<1>1. /\ pipe # <<>> /\ c.op \in AnswerOps
      /\ UNCHANGED <<queue, matches, status, roomVars, told, screen, open, events, away>>
  BY DEF FindMatchRoom, ReadPlayerA, ReadPlayerB, ReadStatus, ReadAnswers, ReadQuestions,
         Reply, Unchanged, AnswerOps
<1>2. c.op # "joinSecond"
  BY <1>1, Answers
<1>3. CASE Finish
  BY <1>1, <1>2, <1>3, QuietlyEnded
<1>4. CASE FindMatchRoom
  <2>. SUFFICES ASSUME NEW x \in socketKey[c.socket],
                       GoOn([c EXCEPT !.op = "playerA", !.match = x])
                PROVE  Stepped
    BY <1>1, <1>3, <1>4 DEF FindMatchRoom
  <2>. DEFINE d == [c EXCEPT !.op = "playerA", !.match = x]
  <2>1. c \in Command /\ c.op = "rooms" /\ c.socket \in Sockets /\ Sound(c, matches)
    BY <1>1, <1>4, Served, Fields DEF FindMatchRoom, Reply
  <2>2. x \in DOMAIN matches /\ x \in MatchIds /\ x \in Nat
    BY <2>1, Shape DEF SessionInv, TypeOK, MatchIds
  <2>3. Entered(pipe, matches, x)
    BY <2>1, <2>2 DEF SessionInv, MatchInv
  <2>4. d \in Command /\ d.op = "playerA" /\ d.match = x /\ GoOn(d)
    BY <2>1, <2>2, Answers DEF Command
  <2>. HIDE DEF d, c, m
  <2>5. d.op \in Named /\ d.op \notin Playing
    BY <2>4 DEF Named, Playing, AnswerOps
  <2>. QED  BY <1>1, <2>2, <2>3, <2>4, <2>5, AnswerWentOn DEF c
<1>5. ASSUME c.op \in Named, NEW d \in Command, GoOn(d), d.op \in Named, d.match = m,
             d.op \in Playing => c.socket \in PlayersOf(m) /\ d.socket = c.socket
      PROVE  Stepped
  <2>1. m \in DOMAIN matches /\ Entered(pipe, matches, m)
    BY <1>1, <1>5, Answering DEF Entered
  <2>. QED  BY <1>1, <1>5, <2>1, AnswerWentOn
<1>6. ASSUME NEW o \in Named, c.op \in Named, GoTo(o),
             o \in Playing => c.socket \in PlayersOf(m)
      PROVE  Stepped
  <2>. DEFINE d == [c EXCEPT !.op = o]
  <2>1. c \in Command /\ o \in Ops
    BY <1>1, <1>6, Answering, Answers
  <2>2. d \in Command /\ d.op = o /\ d.match = m /\ d.socket = c.socket
    BY <2>1, Fields
  <2>3. GoOn(d)
    BY <1>6 DEF GoTo
  <2>. HIDE DEF d, c, m
  <2>. QED  BY <1>5, <1>6, <2>2, <2>3
<1>7. CASE ReadPlayerA
  <2>1. c.op \in Named /\ GoTo("playerB") /\ "playerB" \notin Playing /\ "playerB" \in Named
    BY <1>7, Answers DEF ReadPlayerA, Reply, Playing
  <2>. QED  BY <1>1, <1>6, <2>1
<1>8. CASE ReadPlayerB
  <2>1. c.op \in Named
    BY <1>8, Answers DEF ReadPlayerB, Reply
  <2>2. CASE c.socket \in PlayersOf(m)
    <3>1. GoTo("status") /\ "status" \in Named
      BY <1>8, <2>2, Answers DEF ReadPlayerB
    <3>. QED  BY <1>1, <1>6, <2>1, <2>2, <3>1
  <2>3. CASE c.socket \notin PlayersOf(m)
    BY <1>3, <1>8, <2>3 DEF ReadPlayerB
  <2>. QED  BY <2>2, <2>3
<1>9. CASE ReadAnswers
  <2>1. c.op \in Playing /\ c.op \in Named /\ GoTo("questions") /\ "questions" \in Named
    BY <1>9, Answers DEF ReadAnswers, Reply
  <2>2. c.socket \in PlayersOf(m)
    BY <1>1, <2>1, Answering
  <2>. QED  BY <1>1, <1>6, <2>1, <2>2
<1>10. CASE ReadStatus
  <2>. DEFINE mine == status[m][RoleOf(c.socket, m)]
              d == [c EXCEPT !.op = "answers", !.mine = mine]
  <2>1. c.op \in Playing /\ c.op \in Named /\ GoOn(d) /\ "answers" \in Named
        /\ "answers" \in Ops
    BY <1>10, Answers DEF ReadStatus, Reply
  <2>2. c \in Command /\ c.socket \in PlayersOf(m) /\ mine \in Standing
    BY <1>1, <2>1, Answering
  <2>. HIDE DEF mine
  <2>3. d \in Command /\ d.op = "answers" /\ d.match = m /\ d.socket = c.socket
    BY <2>1, <2>2 DEF Command
  <2>. HIDE DEF d, c, m
  <2>. QED  BY <1>1, <1>5, <2>1, <2>2, <2>3
<1>11. CASE ReadQuestions
  <2>1. c.op \in Playing /\ c.op \in Named /\ "store" \in Named /\ "store" \in Ops
    BY <1>11, Answers DEF ReadQuestions, Reply
  <2>2. c \in Command /\ c.socket \in PlayersOf(m) /\ c.mine \in Standing
    BY <1>1, <2>1, Answering, Fields
  <2>3. CASE ~Finish
    <3>1. PICK point \in Points :
             GoOn([c EXCEPT !.op = "store", !.mine = Scored(c.mine, point)])
      BY <1>11, <2>3 DEF ReadQuestions
    <3>. DEFINE mine == Scored(c.mine, point)
                d == [c EXCEPT !.op = "store", !.mine = mine]
    <3>2. mine \in Standing
      BY <2>2, PointsAssumption DEF Scored, Standing
    <3>. HIDE DEF mine
    <3>3. d \in Command /\ d.op = "store" /\ d.match = m /\ d.socket = c.socket
      BY <2>1, <2>2, <3>2 DEF Command
    <3>4. GoOn(d)
      BY <3>1 DEF mine
    <3>. HIDE DEF d, c, m
    <3>. QED  BY <1>1, <1>5, <2>1, <2>2, <3>3, <3>4
  <2>. QED  BY <1>3, <2>3
<1>. QED  BY <1>1, <1>4, <1>7, <1>8, <1>9, <1>10, <1>11

LEMMA StoreStatusStep ==
    ASSUME SessionInv, StoreStatus
    PROVE  /\ Stepped /\ status' \in [MatchIds -> [Players -> Standing]]
           /\ UNCHANGED <<queue, matches, roomVars, told, screen, open, events, away>>
           /\ pipe # <<>> /\ Head(pipe).op \in Named
           /\ \E k \in DOMAIN pipe' : pipe'[k].op = "statusA" /\ pipe'[k].match = Head(pipe).match
           /\ \A m \in MatchIds : m # Head(pipe).match => status'[m] = status[m]
<1>. DEFINE c == Head(pipe)
            d == [c EXCEPT !.op = "statusA"]
            r == RoleOf(c.socket, c.match)
<1>1. /\ pipe # <<>> /\ c.op = "store" /\ GoOn(d)
      /\ status' = [status EXCEPT ![c.match][r] = c.mine]
      /\ UNCHANGED <<queue, matches, roomVars, told, screen, open, events, away>>
  BY DEF StoreStatus, Reply, GoTo
<1>2. c.op \in Named /\ c.op \in Playing /\ c.op \in AnswerOps
  BY <1>1, Answers
<1>3. /\ c \in Command /\ c.match \in DOMAIN matches /\ c.match \in MatchIds
      /\ matches[c.match].outcome \in Ready /\ c.socket \in PlayersOf(c.match) /\ r \in Players
  BY <1>1, <1>2, Answering
<1>4. c.mine \in Standing /\ d \in Command /\ d.op = "statusA" /\ d.match = c.match
      /\ d.socket = c.socket
  <2>1. "statusA" \in Ops
    BY Answers
  <2>. QED  BY <1>3, <2>1, Fields
<1>. HIDE DEF d, r
<1>5. /\ status' \in [MatchIds -> [Players -> Standing]]
      /\ \A m \in MatchIds : m # c.match => status'[m] = status[m]
  <2>1. status \in [MatchIds -> [Players -> Standing]]
    BY DEF SessionInv, TypeOK
  <2>. HIDE DEF c
  <2>. QED  BY <1>1, <1>3, <1>4, <2>1
<1>6. Stepped
  <2>1. Entered(pipe, matches, d.match)
    BY <1>3, <1>4 DEF Entered
  <2>2. d.op \in Named
    BY <1>4, Answers
  <2>. QED  BY <1>1, <1>2, <1>3, <1>4, <2>1, <2>2, AnswerWentOn
<1>7. \E k \in DOMAIN pipe' : pipe'[k].op = "statusA" /\ pipe'[k].match = c.match
  <2>1. Tail(pipe) \in Seq(Command)
    BY <1>1, Shape, Front
  <2>2. Len(Tail(pipe)) + 1 \in DOMAIN pipe' /\ pipe'[Len(Tail(pipe)) + 1] = d
    BY <1>1, <1>4, <2>1, Back DEF GoOn
  <2>. QED  BY <1>4, <2>2
<1>. QED  BY <1>1, <1>2, <1>5, <1>6, <1>7

LEMMA ReadStatusAStep ==
    ASSUME SessionInv, ReadStatusA
    PROVE  /\ Stepped /\ pipe # <<>> /\ Head(pipe).op \in Named /\ Head(pipe).op = "statusA"
           /\ UNCHANGED <<queue, matches, status, roomVars, told, screen, open, events, away>>
           /\ \E d \in Command :
                 /\ d.op = "statusB" /\ d.match = Head(pipe).match /\ GoOn(d)
                 /\ d.seen = status[d.match]["playerA"]
<1>. DEFINE c == Head(pipe)
            seen == status[c.match]["playerA"]
            d == [c EXCEPT !.op = "statusB", !.seen = seen]
<1>1. /\ pipe # <<>> /\ c.op = "statusA" /\ GoOn(d)
      /\ UNCHANGED <<queue, matches, status, roomVars, told, screen, open, events, away>>
  BY DEF ReadStatusA, Reply, Unchanged
<1>2. c.op \in Named /\ c.op \in Playing /\ c.op \in AnswerOps /\ "statusB" \in Named
      /\ "statusB" \in Ops
  BY <1>1, Answers
<1>3. /\ c \in Command /\ c.match \in DOMAIN matches /\ matches[c.match].outcome \in Ready
      /\ c.socket \in PlayersOf(c.match) /\ seen \in Standing
  BY <1>1, <1>2, Answering, Standings
<1>4. d \in Command /\ d.op = "statusB" /\ d.match = c.match /\ d.socket = c.socket
      /\ d.seen = seen
  <2>. HIDE DEF seen
  <2>. QED  BY <1>2, <1>3 DEF Command
<1>. HIDE DEF d
<1>5. Stepped
  <2>1. Entered(pipe, matches, d.match)
    BY <1>3, <1>4 DEF Entered
  <2>. QED  BY <1>1, <1>2, <1>3, <1>4, <2>1, AnswerWentOn
<1>. QED  BY <1>1, <1>2, <1>4, <1>5

LEMMA BroadcastStep ==
    ASSUME SessionInv, Broadcast
    PROVE  /\ Stepped /\ pipe # <<>> /\ Head(pipe).op \in Named /\ Head(pipe).op = "statusB"
           /\ Finish /\ Head(pipe).match \in DOMAIN matches
           /\ matches[Head(pipe).match].outcome \in Ready
           /\ UNCHANGED <<queue, matches, status, roomVars, told, open, events, away>>
           /\ screen' \in [Sockets -> [MatchIds -> [Players -> Standing]]]
           /\ \A s \in Sockets, m \in MatchIds :
                 screen'[s][m] = IF m = Head(pipe).match /\ m \in adapterRooms[s]
                                 THEN [status[m] EXCEPT !["playerA"] = Head(pipe).seen]
                                 ELSE screen[s][m]
<1>. DEFINE c == Head(pipe)
            shown == [status[c.match] EXCEPT !["playerA"] = c.seen]
<1>1. /\ pipe # <<>> /\ c.op = "statusB" /\ Finish
      /\ screen' = [s \in Sockets |-> IF c.match \in adapterRooms[s]
                                      THEN [screen[s] EXCEPT ![c.match] = shown]
                                      ELSE screen[s]]
      /\ UNCHANGED <<queue, matches, status, roomVars, told, open, events, away>>
  BY DEF Broadcast, Reply
<1>2. c.op \in Named /\ c.op # "joinSecond"
  BY <1>1, Answers
<1>3. /\ c \in Command /\ c.match \in DOMAIN matches /\ c.match \in MatchIds
      /\ matches[c.match].outcome \in Ready /\ status[c.match] \in [Players -> Standing]
      /\ c.seen \in Standing
  BY <1>1, <1>2, Answering, Fields
<1>4. shown \in [Players -> Standing]
  BY <1>3
<1>5. Stepped
  BY <1>1, <1>2, QuietlyEnded
<1>6. screen \in [Sockets -> [MatchIds -> [Players -> Standing]]]
  BY DEF SessionInv, TypeOK
<1>7. \A s \in Sockets, m \in MatchIds :
         screen'[s][m] = IF m = c.match /\ m \in adapterRooms[s] THEN shown ELSE screen[s][m]
  <2>. HIDE DEF shown, c
  <2>. QED  BY <1>1, <1>3, <1>6
<1>8. screen' \in [Sockets -> [MatchIds -> [Players -> Standing]]]
  <2>. HIDE DEF shown, c
  <2>. QED  BY <1>1, <1>3, <1>4, <1>6
<1>. QED  BY <1>1, <1>2, <1>3, <1>5, <1>7, <1>8

LEMMA AnswerSession == ASSUME SessionInv, ServeAnswer PROVE SessionInv'
<1>1. CASE FindMatchRoom \/ ReadPlayerA \/ ReadPlayerB \/ ReadStatus \/ ReadAnswers
           \/ ReadQuestions
  BY <1>1, ReadSteps, QuietSession DEF SessionInv, TypeOK, roomVars
<1>2. CASE StoreStatus
  BY <1>2, StoreStatusStep, QuietSession DEF SessionInv, TypeOK, roomVars
<1>3. CASE ReadStatusA
  BY <1>3, ReadStatusAStep, QuietSession DEF SessionInv, TypeOK, roomVars
<1>4. CASE Broadcast
  <2>1. \A s \in Sockets, m \in MatchIds :
           \/ screen'[s][m] = screen[s][m]
           \/ m \in DOMAIN matches /\ matches[m].outcome \in Ready /\ s \in PlayersOf(m)
    <3>1. /\ Head(pipe).match \in DOMAIN matches /\ matches[Head(pipe).match].outcome \in Ready
          /\ \A s \in Sockets, m \in MatchIds :
                screen'[s][m] = screen[s][m] \/ (m = Head(pipe).match /\ m \in adapterRooms[s])
      BY <1>4, BroadcastStep
    <3>2. \A s \in Sockets, m \in MatchIds : m \in adapterRooms[s] => s \in PlayersOf(m)
      BY DEF SessionInv, MatchInv
    <3>. QED  BY <3>1, <3>2
  <2>. QED  BY <1>4, <2>1, BroadcastStep, QuietSession DEF SessionInv, TypeOK, roomVars
<1>. QED  BY <1>1, <1>2, <1>3, <1>4 DEF ServeAnswer

LEMMA SessionNext == SessionInv /\ [Next]_vars => SessionInv'
<1>. SUFFICES ASSUME SessionInv, [Next]_vars PROVE SessionInv'
  OBVIOUS
<1>1. CASE UNCHANGED vars
  BY <1>1 DEF vars, roomVars, clientVars, SessionInv, TypeOK, PipeInv, PipeOrder, BoundInv,
              MatchInv, PlayersOf
<1>2. CASE Tick
  BY <1>2, TickSession
<1>3. CASE Serve
  BY <1>3, EventReplySession, ReadSession, TakeSession, StoreSession, JoinSession, TellSession,
     AnswerSession DEF Serve, ServeEvent, ServeTick
<1>4. ASSUME NEW s \in Sockets, QueueUp(s) \/ Submit(s) \/ Disconnect(s)
      PROVE  SessionInv'
  <2>1. 0 \in Nat
    OBVIOUS
  <2>. QED  BY <1>4, <2>1, EventSession
<1>5. ASSUME NEW s \in Sockets, NEW m \in MatchIds,
             SubmitTo(s, m) \/ JoinRoom(s, m) \/ LeaveRoom(s, m)
      PROVE  SessionInv'
  <2>1. m \in Nat
    BY DEF MatchIds
  <2>. QED  BY <1>5, <2>1, EventSession
<1>. QED  BY <1>1, <1>2, <1>3, <1>4, <1>5 DEF Next

LEMMA SessionInvariant == Spec => []SessionInv
  BY SessionInit, SessionNext, PTL DEF Spec

\* Every key, list, command and client view has the shape the code gives it, and
\* no more matches are made than the bound allows: no tick that overlaps another
\* makes a match that was not accounted for when it began.
THEOREM TypeCorrect == Spec => []TypeOK
<1>1. SessionInv => TypeOK
  BY DEF SessionInv
<1>. QED  BY <1>1, SessionInvariant, PTL

-----------------------------------------------------------------------------
(* What is told, played and shown                                          *)

\* The steps that decide about a match, or play or show it, are few.
LEMMA PlayKept ==
    ASSUME SessionInv, PlayInv, open' \subseteq open,
           \A s \in Sockets : told[s] \subseteq told'[s],
           \A m \in DOMAIN matches :
              /\ m \in DOMAIN matches'
              /\ matches'[m].playerA = matches[m].playerA
              /\ matches'[m].playerB = matches[m].playerB
              /\ matches[m].outcome \in Ready => matches'[m].outcome = matches[m].outcome,
           \A m \in DOMAIN matches' : matches'[m].outcome = "told" =>
              \/ m \in DOMAIN matches /\ matches[m].outcome = "told"
              \/ \A s \in {matches'[m].playerA, matches'[m].playerB} \cap open' : m \in told'[s],
           \A m \in MatchIds :
              \/ status'[m] = status[m] \/ status'[m] = Unplayed
              \/ m \in DOMAIN matches /\ matches[m].outcome \in Ready
    PROVE  PlayInv'
<1>1. ASSUME NEW m \in DOMAIN matches', matches'[m].outcome = "told",
             NEW s \in {matches'[m].playerA, matches'[m].playerB} \cap open'
      PROVE  m \in told'[s]
  <2>1. open \subseteq Sockets
    BY DEF SessionInv, TypeOK
  <2>. QED  BY <1>1, <2>1 DEF PlayInv, PlayersOf
<1>2. \A m \in MatchIds :
         status'[m] = Unplayed \/ (m \in DOMAIN matches' /\ matches'[m].outcome \in Ready)
  BY DEF PlayInv
<1>. QED  BY <1>1, <1>2 DEF PlayInv, PlayersOf

LEMMA PlayInit == Init => PlayInv
<1>. SUFFICES ASSUME Init PROVE PlayInv
  OBVIOUS
<1>1. DOMAIN matches = {}
  <2>1. \A S : <<>> \in Seq(S) /\ Len(<<>>) = 0 /\ DOMAIN <<>> = {}
    BY EmptySeq
  <2>. QED  BY <2>1 DEF Init
<1>. QED  BY <1>1 DEF Init, PlayInv

LEMMA StoreEffect ==
    ASSUME SessionInv, StoreKey
    PROVE  /\ UNCHANGED <<told, open, away, events, queue, socketKey, screen>>
           /\ pipe # <<>> /\ Head(pipe).op = "storeKeys"
           /\ Head(pipe).match \in DOMAIN matches
           /\ matches[Head(pipe).match].outcome = "pending"
           /\ status' = status \/ status' = [status EXCEPT ![Head(pipe).match] = Unplayed]
           /\ matches' = matches \/ Conclude(Head(pipe).match, "abandoned")
           /\ adapterRooms' = adapterRooms
              \/ adapterRooms' = AdapterJoin(Head(pipe).socket, Head(pipe).match)
<1>1. /\ UNCHANGED <<told, open, away, events, queue, socketKey, screen>>
      /\ pipe # <<>> /\ Head(pipe).op = "storeKeys"
      /\ status' = status \/ status' = [status EXCEPT ![Head(pipe).match] = Unplayed]
      /\ matches' = matches \/ Conclude(Head(pipe).match, "abandoned")
      /\ adapterRooms' = adapterRooms
         \/ adapterRooms' = AdapterJoin(Head(pipe).socket, Head(pipe).match)
  BY DEF StoreKey, Reply
<1>. QED  BY <1>1, Own DEF Made

\* What any step does to the matches: they keep their players, a match that was
\* told of stays so, and only the worker's last step tells of one.
LEMMA MatchesGoOn ==
    ASSUME SessionInv, Next
    PROVE  /\ \A m \in DOMAIN matches :
                 /\ m \in DOMAIN matches'
                 /\ matches'[m].playerA = matches[m].playerA
                 /\ matches'[m].playerB = matches[m].playerB
                 /\ matches[m].outcome \in Ready => matches'[m].outcome = matches[m].outcome
           /\ \A m \in DOMAIN matches' : matches'[m].outcome \in Ready =>
                 \/ m \in DOMAIN matches /\ matches[m].outcome \in Ready
                 \/ SecondJoined /\ m = Head(pipe).match /\ m \in DOMAIN matches
<1>1. CASE matches' = matches
  BY <1>1
<1>2. CASE TakeSecond
  <2>1. PICK m \in Nat :
           /\ m = Len(matches) + 1 /\ m \notin DOMAIN matches
           /\ DOMAIN matches' = DOMAIN matches \cup {m}
           /\ \A x \in DOMAIN matches : matches'[x] = matches[x]
           /\ matches'[m] = [playerA |-> Head(pipe).socket, playerB |-> Head(pipe).other,
                             outcome |-> "pending"]
    BY <1>2, MatchMade
  <2>. QED  BY <2>1
<1>3. CASE StoreKey
  <2>1. CASE Conclude(Head(pipe).match, "abandoned")
    <3>1. "abandoned" \in Outcomes /\ Head(pipe).match \in DOMAIN matches
          /\ matches[Head(pipe).match].outcome \notin Ready
      BY <1>3, StoreEffect DEF Outcomes
    <3>. HIDE DEF Conclude
    <3>2. PICK m \in DOMAIN matches : m = Head(pipe).match
      BY <3>1
    <3>3. /\ DOMAIN matches' = DOMAIN matches /\ matches'[m].outcome = "abandoned"
          /\ \A x \in DOMAIN matches : x # m => matches'[x] = matches[x]
          /\ \A x \in DOMAIN matches :
                /\ matches'[x].playerA = matches[x].playerA
                /\ matches'[x].playerB = matches[x].playerB
                /\ matches[x].outcome \in Ready => matches'[x].outcome = matches[x].outcome
      BY <2>1, <3>1, <3>2, Concluded
    <3>. QED  BY <3>3
  <2>. QED  BY <1>1, <1>3, <2>1, StoreEffect
<1>4. CASE SecondJoined
  <2>1. PICK result \in Outcomes :
           Conclude(Head(pipe).match, result) /\ pipe # <<>> /\ Head(pipe).op \in Made
    BY <1>4 DEF SecondJoined, Reply, Made, Outcomes
  <2>2. /\ Head(pipe).match \in DOMAIN matches
        /\ matches[Head(pipe).match].outcome \notin Ready
    BY <2>1, Own DEF Outcomes
  <2>3. PICK m \in DOMAIN matches : m = Head(pipe).match
    BY <2>2
  <2>4. /\ DOMAIN matches' = DOMAIN matches
        /\ \A x \in DOMAIN matches : x # m => matches'[x] = matches[x]
        /\ \A x \in DOMAIN matches :
              /\ matches'[x].playerA = matches[x].playerA
              /\ matches'[x].playerB = matches[x].playerB
              /\ matches[x].outcome \in Ready => matches'[x].outcome = matches[x].outcome
    BY <2>1, <2>2, <2>3, Concluded
  <2>. QED  BY <1>4, <2>3, <2>4
<1>5. \/ matches' = matches \/ TakeSecond \/ StoreKey \/ SecondJoined
  BY DEF Next, Serve, ServeEvent, ServeTick, ServeAnswer, QueueUp, Submit, Disconnect, SubmitTo,
         JoinRoom, LeaveRoom, Tick, Queued, Joined, Left, QueueCleaned, RoomsToClean,
         RoomsCleaned, ReadQueue, DropDuplicate, TakeFirst, FirstJoined, FindMatchRoom,
         ReadPlayerA, ReadPlayerB, ReadStatus, ReadAnswers, ReadQuestions, StoreStatus,
         ReadStatusA, Broadcast, Unchanged
<1>. QED  BY <1>1, <1>2, <1>3, <1>4, <1>5

\* Clients, rooms, statuses and screens, in the same way.
LEMMA OthersGoOn ==
    ASSUME SessionInv, Next
    PROVE  /\ open' = open \/ (\E s \in Sockets : open' = open \ {s})
           /\ told' = told \/ SecondJoined
           /\ status' = status \/ StoreKey \/ StoreStatus
           /\ screen' = screen \/ Broadcast
  BY DEF Next, Serve, ServeEvent, ServeTick, ServeAnswer, QueueUp, Submit, Disconnect, SubmitTo,
         JoinRoom, LeaveRoom, Tick, Queued, Joined, Left, QueueCleaned, RoomsToClean,
         RoomsCleaned, ReadQueue, DropDuplicate, TakeFirst, TakeSecond, StoreKey, FirstJoined,
         SecondJoined, FindMatchRoom, ReadPlayerA, ReadPlayerB, ReadStatus, ReadAnswers,
         ReadQuestions, StoreStatus, ReadStatusA, Broadcast, Unchanged, Reply, clientVars

\* Both players of a match are told of it, unless they closed or it is refused.
LEMMA Told ==
    ASSUME SessionInv, SecondJoined
    PROVE  /\ \A s \in Sockets : told[s] \subseteq told'[s]
           /\ open' = open /\ Head(pipe).match \in DOMAIN matches
           /\ matches'[Head(pipe).match].outcome = "told" =>
              \A s \in {matches[Head(pipe).match].playerA, matches[Head(pipe).match].playerB}
                       \cap open : Head(pipe).match \in told'[s]
<1>. DEFINE c == Head(pipe)
            result == IF Announceable(c) THEN "told" ELSE "untold"
<1>1. /\ pipe # <<>> /\ c.op \in Made /\ open' = open /\ Conclude(c.match, result)
      /\ told' = [s \in Sockets |-> IF Announceable(c) /\ s \in {c.socket, c.other} \cap open
                                    THEN told[s] \cup {c.match} ELSE told[s]]
  BY DEF SecondJoined, Reply, notifyMatchFound, Made
<1>2. /\ c.match \in DOMAIN matches /\ matches[c.match].outcome \notin Ready
      /\ matches[c.match].playerA = c.socket /\ matches[c.match].playerB = c.other
      /\ c.socket \in Sockets /\ c.other \in Sockets
  BY <1>1, Own
<1>3. matches'[c.match].outcome = result
  <2>1. result \in Outcomes
    BY DEF Outcomes
  <2>. HIDE DEF result, c
  <2>. QED  BY <1>1, <1>2, <2>1, Concluded
<1>. QED  BY <1>1, <1>2, <1>3

LEMMA PlayNext == SessionInv /\ PlayInv /\ [Next]_vars => PlayInv'
<1>. SUFFICES ASSUME SessionInv, PlayInv, Next PROVE PlayInv'
  BY DEF vars, roomVars, clientVars, PlayInv, PlayersOf
<1>1. open' \subseteq open /\ \A s \in Sockets : told[s] \subseteq told'[s]
  BY OthersGoOn, Told
<1>2. \A m \in DOMAIN matches :
         /\ m \in DOMAIN matches'
         /\ matches'[m].playerA = matches[m].playerA
         /\ matches'[m].playerB = matches[m].playerB
         /\ matches[m].outcome \in Ready => matches'[m].outcome = matches[m].outcome
  BY MatchesGoOn
<1>3. ASSUME NEW m \in DOMAIN matches', matches'[m].outcome = "told"
      PROVE  \/ m \in DOMAIN matches /\ matches[m].outcome = "told"
             \/ \A s \in {matches'[m].playerA, matches'[m].playerB} \cap open' : m \in told'[s]
  <2>1. CASE SecondJoined /\ m = Head(pipe).match
    BY <1>2, <1>3, <2>1, Told
  <2>2. CASE m \in DOMAIN matches /\ matches[m].outcome \in Ready
    BY <1>2, <1>3, <2>2
  <2>. QED  BY <1>3, <2>1, <2>2, MatchesGoOn
<1>4. ASSUME NEW m \in MatchIds
      PROVE  \/ status'[m] = status[m] \/ status'[m] = Unplayed
             \/ m \in DOMAIN matches /\ matches[m].outcome \in Ready
  <2>1. CASE StoreKey
    <3>1. status \in [MatchIds -> [Players -> Standing]]
      BY DEF SessionInv, TypeOK
    <3>. QED  BY <2>1, <3>1, StoreEffect
  <2>2. CASE StoreStatus
    <3>1. /\ matches[Head(pipe).match].outcome \in Ready /\ Head(pipe).match \in DOMAIN matches
      BY <2>2, StoreStatusStep, Answering
    <3>. QED  BY <2>2, <3>1, StoreStatusStep
  <2>. QED  BY <2>1, <2>2, OthersGoOn
<1>. QED  BY <1>1, <1>2, <1>3, <1>4, PlayKept

LEMMA PlayInvariant == Spec => [](SessionInv /\ PlayInv)
<1>1. SessionInv /\ PlayInv /\ [Next]_vars => SessionInv' /\ PlayInv'
  BY SessionNext, PlayNext
<1>2. Init => SessionInv /\ PlayInv
  BY SessionInit, PlayInit
<1>. QED  BY <1>1, <1>2, PTL DEF Spec

\* No connected client is shown an update of a match before it is told of it with
\* match:found, or refused that: whoever finds the match in its rooms before that
\* has its answer behind the worker's last command in the pipeline.
THEOREM FoundFirst == Spec => []FoundBeforeUpdates
<1>1. SessionInv /\ PlayInv => FoundBeforeUpdates
  <2>. SUFFICES ASSUME SessionInv, PlayInv, NEW s \in open, NEW m \in MatchIds,
                       screen[s][m] # Unplayed
                PROVE  m \in told[s] \/ Refused(m)
    BY DEF FoundBeforeUpdates
  <2>1. s \in Sockets
    BY DEF SessionInv, TypeOK
  <2>2. m \in DOMAIN matches /\ matches[m].outcome \in Ready /\ s \in PlayersOf(m)
    BY <2>1 DEF SessionInv, MatchInv
  <2>. QED  BY <2>1, <2>2 DEF PlayInv, Refused
<1>. QED  BY <1>1, PlayInvariant, PTL

\* The keys of a match that was given up keep the statuses they were stored with,
\* and no answer ever names that match.
THEOREM LeftoversUntouched == Spec => []LeftoverKeysUntouched
<1>1. SessionInv /\ PlayInv => LeftoverKeysUntouched
  <2>. SUFFICES ASSUME SessionInv, PlayInv, NEW m \in DOMAIN matches,
                       matches[m].outcome = "abandoned"
                PROVE  /\ status[m] = Unplayed
                       /\ \A k \in DOMAIN pipe : pipe[k].op \in AnswerOps => pipe[k].match # m
    BY DEF LeftoverKeysUntouched
  <2>1. m \in MatchIds /\ m \in Nat \ {0} /\ pipe \in Seq(Command)
    BY Shape DEF MatchIds
  <2>2. status[m] = Unplayed
    BY <2>1 DEF PlayInv
  <2>3. ASSUME NEW k \in DOMAIN pipe, pipe[k].op \in AnswerOps, pipe[k].match = m
        PROVE  FALSE
    <3>1. \A j \in DOMAIN pipe : Sound(pipe[j], matches)
      BY DEF SessionInv, PipeInv
    <3>2. pipe[k].op \in Named
      BY <2>1, <2>3, <3>1 DEF Sound, Named
    <3>3. PICK j \in 1..(k - 1) : pipe[j].op = "joinSecond" /\ pipe[j].match = m
      BY <2>3, <3>2 DEF SessionInv, PipeInv, PipeOrder
    <3>4. j \in DOMAIN pipe
      BY <2>1, Sequence
    <3>5. matches[m] = [playerA |-> pipe[j].socket, playerB |-> pipe[j].other,
                        outcome |-> "pending"]
      BY <3>1, <3>3, <3>4 DEF Sound, Made
    <3>. QED  BY <3>5
  <2>. QED  BY <2>2, <2>3
<1>. QED  BY <1>1, PlayInvariant, PTL

-----------------------------------------------------------------------------
(* Rooms and broadcasts                                                    *)

Joins == {"joinFirst", "joinSecond"}

\* Appending says what it says of any command.
LEMMA Added ==
    ASSUME NEW q \in Seq(Command), NEW c
    PROVE  /\ Len(q) \in Nat /\ DOMAIN q = 1..Len(q)
           /\ DOMAIN Append(q, c) = DOMAIN q \cup {Len(q) + 1} /\ Len(q) + 1 \notin DOMAIN q
           /\ \A k \in DOMAIN q : k < Len(q) + 1 /\ k \in Nat /\ Append(q, c)[k] = q[k]
           /\ Append(q, c)[Len(q) + 1] = c
<1>1. q \in Seq(Command \cup {c}) /\ c \in Command \cup {c}
  <2>1. Len(q) \in Nat /\ q \in [1..Len(q) -> Command]
    BY LenProperties
  <2>2. q \in [1..Len(q) -> Command \cup {c}]
    BY <2>1
  <2>. QED  BY <2>1, <2>2, SeqDef
<1>. HIDE DEF Command
<1>. QED  BY <1>1, Back, Sequence

LEMMA LastDrops ==
    ASSUME NEW q \in Seq(Command), q # <<>>, NEW m, NEW latest, LastIsLatest(q, m, latest),
           ~(Head(q).op = "statusA" /\ Head(q).match = m)
    PROVE  LastIsLatest(Tail(q), m, latest)
<1>. DEFINE r == Tail(q)
<1>1. /\ Head(q) = q[1] /\ 1 \in DOMAIN q
      /\ \A k \in DOMAIN r : k \in Nat \ {0} /\ k + 1 \in DOMAIN q /\ r[k] = q[k + 1]
      /\ \A k \in DOMAIN q : k \in Nat /\ (k = 1 \/ (k - 1 \in DOMAIN r /\ r[k - 1] = q[k]))
  BY Front
<1>. HIDE DEF r
<1>2. CASE Reading(q, m)
  <2>1. PICK k \in DOMAIN q : q[k].op = "statusA" /\ q[k].match = m
    BY <1>2 DEF Reading
  <2>2. k - 1 \in DOMAIN r /\ r[k - 1] = q[k]
    BY <1>1, <2>1
  <2>3. Reading(r, m)
    BY <2>1, <2>2 DEF Reading
  <2>. QED  BY <2>3 DEF LastIsLatest, r
<1>3. CASE ~Reading(q, m)
  <2>1. ASSUME NEW k \in Showing(r, m), \A j \in Showing(r, m) : j <= k
        PROVE  r[k].seen = latest
    <3>1. k \in DOMAIN r /\ k + 1 \in Showing(q, m) /\ r[k] = q[k + 1] /\ k \in Nat \ {0}
      BY <1>1 DEF Showing
    <3>2. ASSUME NEW j \in Showing(q, m) PROVE j <= k + 1
      <4>1. CASE j = 1
        BY <3>1, <4>1
      <4>2. CASE j # 1
        <5>1. j \in Nat /\ j - 1 \in Showing(r, m)
          BY <1>1, <4>2 DEF Showing
        <5>2. j - 1 <= k
          BY <2>1, <5>1
        <5>. QED  BY <3>1, <5>1, <5>2
      <4>. QED  BY <4>1, <4>2
    <3>. QED  BY <1>3, <3>1, <3>2 DEF LastIsLatest
  <2>. QED  BY <2>1 DEF LastIsLatest, r
<1>. QED  BY <1>2, <1>3

LEMMA LastAdds ==
    ASSUME NEW q \in Seq(Command), NEW c, NEW m, NEW latest, LastIsLatest(q, m, latest),
           c.op = "statusB" /\ c.match = m => c.seen = latest
    PROVE  LastIsLatest(Append(q, c), m, latest)
<1>. DEFINE r == Append(q, c)
<1>1. /\ Len(q) \in Nat /\ DOMAIN q = 1..Len(q)
      /\ DOMAIN r = DOMAIN q \cup {Len(q) + 1} /\ Len(q) + 1 \notin DOMAIN q
      /\ \A k \in DOMAIN q : k < Len(q) + 1 /\ k \in Nat /\ r[k] = q[k]
      /\ r[Len(q) + 1] = c
  BY Added
<1>. HIDE DEF r
<1>2. Reading(q, m) => Reading(r, m)
  BY <1>1 DEF Reading
<1>3. ASSUME ~Reading(q, m), NEW k \in Showing(r, m), \A j \in Showing(r, m) : j <= k
      PROVE  r[k].seen = latest
  <2>1. CASE k = Len(q) + 1
    BY <1>1, <1>3, <2>1 DEF Showing
  <2>2. CASE k \in DOMAIN q
    <3>1. k \in Showing(q, m) /\ \A j \in Showing(q, m) : j \in Showing(r, m)
      BY <1>1, <1>3, <2>2 DEF Showing
    <3>. QED  BY <1>1, <1>3, <2>2, <3>1 DEF LastIsLatest
  <2>. QED  BY <1>1, <2>1, <2>2 DEF Showing
<1>. QED  BY <1>2, <1>3 DEF LastIsLatest, r

\* A status just read is the last one to be shown.
LEMMA LastNew ==
    ASSUME NEW q \in Seq(Command), NEW c, NEW m, NEW latest,
           c.op = "statusB", c.match = m, c.seen = latest
    PROVE  LastIsLatest(Append(q, c), m, latest)
<1>. DEFINE r == Append(q, c)
            n == Len(q) + 1
<1>1. /\ n \in Nat /\ DOMAIN r = DOMAIN q \cup {n}
      /\ \A k \in DOMAIN q : k < n /\ k \in Nat
      /\ r[n] = c
  BY Added
<1>. HIDE DEF r, n
<1>2. n \in Showing(r, m)
  BY <1>1 DEF Showing
<1>3. ASSUME NEW k \in Showing(r, m), \A j \in Showing(r, m) : j <= k
      PROVE  r[k].seen = latest
  <2>1. k = n
    BY <1>1, <1>2, <1>3 DEF Showing
  <2>. QED  BY <1>1, <2>1
<1>. QED  BY <1>3 DEF LastIsLatest, r

LEMMA ViewDrops ==
    ASSUME NEW q \in Seq(Command), q # <<>>, NEW m, NEW k \in DOMAIN q, View(q[k], m),
           ~View(Head(q), m)
    PROVE  \E j \in DOMAIN Tail(q) : View(Tail(q)[j], m)
<1>1. k - 1 \in DOMAIN Tail(q) /\ Tail(q)[k - 1] = q[k]
  BY Front
<1>. QED  BY <1>1

LEMMA ViewAdds ==
    ASSUME NEW q \in Seq(Command), NEW c, NEW m, NEW k \in DOMAIN q, View(q[k], m)
    PROVE  \E j \in DOMAIN Append(q, c) : View(Append(q, c)[j], m)
  BY Added

\* How the pipeline moves when no broadcast is prepared or made.
ViewsCarried ==
    \A m : /\ \A latest : LastIsLatest(pipe, m, latest) => LastIsLatest(pipe', m, latest)
           /\ (\E k \in DOMAIN pipe : View(pipe[k], m)) => \E k \in DOMAIN pipe' : View(pipe'[k], m)

JoinsCarried(c) ==
    \A k \in DOMAIN pipe' : pipe'[k] = c \/ \E j \in DOMAIN pipe : pipe'[k] = pipe[j]

LEMMA Ending ==
    ASSUME SessionInv, pipe # <<>>, Finish
    PROVE  /\ \A k \in DOMAIN pipe' : \E j \in DOMAIN pipe : pipe'[k] = pipe[j]
           /\ Head(pipe).op \notin Views => ViewsCarried
<1>1. pipe \in Seq(Command) /\ pipe' = Tail(pipe)
  BY Shape DEF Finish
<1>2. \A k \in DOMAIN pipe' : \E j \in DOMAIN pipe : pipe'[k] = pipe[j]
  BY <1>1, Front
<1>3. ASSUME Head(pipe).op \notin Views PROVE ViewsCarried
  <2>1. ASSUME NEW m, NEW latest, LastIsLatest(pipe, m, latest)
        PROVE  LastIsLatest(pipe', m, latest)
    BY <1>1, <1>3, <2>1, LastDrops DEF Views
  <2>2. ASSUME NEW m, NEW k \in DOMAIN pipe, View(pipe[k], m)
        PROVE  \E j \in DOMAIN pipe' : View(pipe'[j], m)
    BY <1>1, <1>3, <2>2, ViewDrops DEF View
  <2>. QED  BY <2>1, <2>2 DEF ViewsCarried
<1>. QED  BY <1>2, <1>3

LEMMA Issuing ==
    ASSUME SessionInv, NEW c, Issue(c)
    PROVE  /\ JoinsCarried(c)
           /\ c.op \notin Views => ViewsCarried
<1>1. pipe \in Seq(Command) /\ pipe' = Append(pipe, c)
  BY Shape DEF Issue
<1>2. JoinsCarried(c)
  BY <1>1, Added DEF JoinsCarried
<1>3. ASSUME c.op \notin Views PROVE ViewsCarried
  <2>1. ASSUME NEW m, NEW latest, LastIsLatest(pipe, m, latest)
        PROVE  LastIsLatest(pipe', m, latest)
    BY <1>1, <1>3, <2>1, LastAdds DEF Views
  <2>2. ASSUME NEW m, NEW k \in DOMAIN pipe, View(pipe[k], m)
        PROVE  \E j \in DOMAIN pipe' : View(pipe'[j], m)
    BY <1>1, <2>2, ViewAdds
  <2>. QED  BY <2>1, <2>2 DEF ViewsCarried
<1>. QED  BY <1>2, <1>3

LEMMA GoingOn ==
    ASSUME SessionInv, pipe # <<>>, NEW c, GoOn(c)
    PROVE  /\ JoinsCarried(c)
           /\ c.op \notin Views /\ Head(pipe).op \notin Views => ViewsCarried
<1>. DEFINE r == Tail(pipe)
<1>1. /\ pipe \in Seq(Command) /\ r \in Seq(Command) /\ pipe' = Append(r, c)
      /\ \A k \in DOMAIN r : \E j \in DOMAIN pipe : r[k] = pipe[j]
  BY Shape, Front DEF GoOn
<1>2. JoinsCarried(c)
  <2>. HIDE DEF r
  <2>. QED  BY <1>1, Added DEF JoinsCarried
<1>3. ASSUME c.op \notin Views, Head(pipe).op \notin Views PROVE ViewsCarried
  <2>1. ASSUME NEW m, NEW latest, LastIsLatest(pipe, m, latest)
        PROVE  LastIsLatest(pipe', m, latest)
    <3>1. LastIsLatest(r, m, latest)
      BY <1>1, <1>3, <2>1, LastDrops DEF Views
    <3>. HIDE DEF r
    <3>. QED  BY <1>1, <1>3, <3>1, LastAdds DEF Views
  <2>2. ASSUME NEW m, NEW k \in DOMAIN pipe, View(pipe[k], m)
        PROVE  \E j \in DOMAIN pipe' : View(pipe'[j], m)
    <3>1. \E j \in DOMAIN r : View(r[j], m)
      BY <1>1, <1>3, <2>2, ViewDrops DEF View
    <3>. HIDE DEF r
    <3>. QED  BY <1>1, <3>1, ViewAdds
  <2>. QED  BY <2>1, <2>2 DEF ViewsCarried
<1>. QED  BY <1>2, <1>3

NoNewJoin ==
    \A k \in DOMAIN pipe' : pipe'[k].op \in Joins => \E j \in DOMAIN pipe : pipe'[k] = pipe[j]

Quiet(operation) == operation \notin Views \cup Joins

LEMMA QuietIssue ==
    ASSUME SessionInv, NEW c, Issue(c), Quiet(c.op)
    PROVE  ViewsCarried /\ NoNewJoin
<1>1. JoinsCarried(c) /\ ViewsCarried
  BY Issuing DEF Quiet
<1>. QED  BY <1>1 DEF JoinsCarried, NoNewJoin, Quiet

LEMMA QuietGoOn ==
    ASSUME SessionInv, pipe # <<>>, NEW c, GoOn(c), Quiet(c.op), Head(pipe).op \notin Views
    PROVE  ViewsCarried /\ NoNewJoin
<1>1. JoinsCarried(c) /\ ViewsCarried
  BY GoingOn DEF Quiet
<1>. QED  BY <1>1 DEF JoinsCarried, NoNewJoin, Quiet

LEMMA QuietFinish ==
    ASSUME SessionInv, pipe # <<>>, Finish
    PROVE  NoNewJoin /\ (Head(pipe).op \notin Views => ViewsCarried)
  BY Ending DEF NoNewJoin

LEMMA QuietGoTo ==
    ASSUME SessionInv, pipe # <<>>, NEW o, GoTo(o), Quiet(o), Head(pipe).op \notin Views
    PROVE  ViewsCarried /\ NoNewJoin
<1>. DEFINE d == [Head(pipe) EXCEPT !.op = o]
<1>1. d.op = o
  BY Served DEF Command
<1>2. GoOn(d)
  BY DEF GoTo
<1>. HIDE DEF d
<1>. QED  BY <1>1, <1>2, QuietGoOn

LEMMA EventMoves ==
    ASSUME SessionInv, NEW s, NEW m,
           QueueUp(s) \/ Submit(s) \/ Disconnect(s) \/ SubmitTo(s, m) \/ JoinRoom(s, m)
           \/ LeaveRoom(s, m) \/ Tick
    PROVE  ViewsCarried /\ NoNewJoin
<1>1. \A o, t, x : NewCommand(o, t, x).op = o
  BY DEF NewCommand
<1>2. \A o, t, x, y : [NewCommand(o, t, x) EXCEPT !.asked = y].op = o
  BY DEF NewCommand
<1>3. /\ Quiet("lpush") /\ Quiet("rooms") /\ Quiet("lrem") /\ Quiet("playerA")
      /\ Quiet("join") /\ Quiet("leave") /\ Quiet("lrange")
  BY DEF Quiet, Views, Joins
<1>4. ASSUME NEW o, NEW t, NEW x, Quiet(o), Issue(NewCommand(o, t, x))
      PROVE  ViewsCarried /\ NoNewJoin
  BY <1>1, <1>4, QuietIssue
<1>5. ASSUME NEW o, NEW t, NEW x, NEW y, Quiet(o),
             Issue([NewCommand(o, t, x) EXCEPT !.asked = y])
      PROVE  ViewsCarried /\ NoNewJoin
  <2>. DEFINE d == [NewCommand(o, t, x) EXCEPT !.asked = y]
  <2>1. d.op = o /\ Issue(d)
    BY <1>2, <1>5
  <2>. HIDE DEF d
  <2>. QED  BY <1>5, <2>1, QuietIssue
<1>6. CASE QueueUp(s)
  <2>1. PICK withUserId \in BOOLEAN :
           Issue([NewCommand("lpush", s, 0) EXCEPT !.named = withUserId])
    BY <1>6 DEF QueueUp
  <2>. DEFINE d == [NewCommand("lpush", s, 0) EXCEPT !.named = withUserId]
  <2>2. d.op = "lpush" /\ Issue(d)
    BY <2>1 DEF NewCommand
  <2>. HIDE DEF d
  <2>. QED  BY <1>3, <2>2, QuietIssue
<1>7. CASE Submit(s)
  BY <1>3, <1>5, <1>7 DEF Submit
<1>8. CASE Disconnect(s)
  BY <1>3, <1>4, <1>8 DEF Disconnect
<1>9. CASE SubmitTo(s, m)
  BY <1>3, <1>5, <1>9 DEF SubmitTo
<1>10. CASE JoinRoom(s, m)
  BY <1>3, <1>4, <1>10 DEF JoinRoom
<1>11. CASE LeaveRoom(s, m)
  BY <1>3, <1>4, <1>11 DEF LeaveRoom
<1>12. CASE Tick
  BY <1>3, <1>4, <1>12 DEF Tick
<1>. QED  BY <1>6, <1>7, <1>8, <1>9, <1>10, <1>11, <1>12

LEMMA ServeMoves ==
    ASSUME SessionInv,
           \/ ServeEvent \/ ReadQueue \/ DropDuplicate \/ TakeFirst \/ TakeSecond \/ SecondJoined
           \/ FindMatchRoom \/ ReadPlayerA \/ ReadPlayerB \/ ReadStatus \/ ReadAnswers
           \/ ReadQuestions
    PROVE  ViewsCarried /\ NoNewJoin
<1>. DEFINE c == Head(pipe)
<1>1. pipe # <<>> /\ c.op \notin Views
  BY DEF ServeEvent, Queued, Joined, Left, QueueCleaned, RoomsToClean, RoomsCleaned, ReadQueue,
         DropDuplicate, TakeFirst, TakeSecond, SecondJoined, FindMatchRoom, ReadPlayerA,
         ReadPlayerB, ReadStatus, ReadAnswers, ReadQuestions, Reply, Views
<1>2. c \in Command
  BY <1>1, Served
<1>3. CASE Finish
  BY <1>1, <1>3, QuietFinish
<1>4. ASSUME NEW o \in {"smembers", "cleanup", "takeSecond", "playerB", "status", "questions"},
             GoTo(o)
      PROVE  ViewsCarried /\ NoNewJoin
  <2>1. Quiet(o)
    BY DEF Quiet, Views, Joins
  <2>. QED  BY <1>1, <1>4, <2>1, QuietGoTo
<1>5. CASE ServeEvent \/ DropDuplicate \/ TakeFirst \/ SecondJoined \/ ReadPlayerA \/ ReadPlayerB
           \/ ReadAnswers
  BY <1>3, <1>4, <1>5 DEF ServeEvent, Queued, Joined, Left, QueueCleaned, RoomsToClean,
     RoomsCleaned, DropDuplicate, TakeFirst, SecondJoined, ReadPlayerA, ReadPlayerB, ReadAnswers
<1>6. /\ Quiet("dropDuplicate") /\ Quiet("takeFirst") /\ Quiet("storeKeys") /\ Quiet("playerA")
      /\ Quiet("answers") /\ Quiet("store")
  BY DEF Quiet, Views, Joins
<1>7. CASE ReadQueue
  <2>1. CASE ~Finish
    <3>. DEFINE o == IF SamePlayer(queue[1], queue[2]) THEN "dropDuplicate" ELSE "takeFirst"
                d == [c EXCEPT !.socket = queue[1].client, !.named = queue[1].named,
                               !.other = queue[2].client, !.otherNamed = queue[2].named,
                               !.op = o]
    <3>1. d.op = o /\ Quiet(o)
      BY <1>2, <1>6 DEF Command
    <3>2. GoOn(d)
      BY <1>7, <2>1 DEF ReadQueue
    <3>. HIDE DEF d, o
    <3>. QED  BY <1>1, <3>1, <3>2, QuietGoOn
  <2>. QED  BY <1>3, <2>1
<1>8. CASE TakeSecond
  <2>. DEFINE d == [c EXCEPT !.op = "storeKeys", !.left = NumKeys, !.match = Len(matches) + 1]
  <2>1. d.op = "storeKeys"
    BY <1>2 DEF Command
  <2>2. GoOn(d)
    BY <1>8 DEF TakeSecond
  <2>. HIDE DEF d
  <2>. QED  BY <1>1, <1>6, <2>1, <2>2, QuietGoOn
<1>9. CASE FindMatchRoom
  <2>1. ASSUME NEW x, GoOn([c EXCEPT !.op = "playerA", !.match = x])
        PROVE  ViewsCarried /\ NoNewJoin
    <3>. DEFINE d == [c EXCEPT !.op = "playerA", !.match = x]
    <3>1. d.op = "playerA" /\ GoOn(d)
      BY <1>2, <2>1 DEF Command
    <3>. HIDE DEF d
    <3>. QED  BY <1>1, <1>6, <3>1, QuietGoOn
  <2>. QED  BY <1>3, <1>9, <2>1 DEF FindMatchRoom
<1>10. CASE ReadStatus
  <2>. DEFINE mine == status[c.match][RoleOf(c.socket, c.match)]
              d == [c EXCEPT !.op = "answers", !.mine = mine]
  <2>. HIDE DEF mine
  <2>1. d.op = "answers"
    BY <1>2 DEF Command
  <2>2. GoOn(d)
    BY <1>10 DEF ReadStatus, mine
  <2>. HIDE DEF d
  <2>. QED  BY <1>1, <1>6, <2>1, <2>2, QuietGoOn
<1>11. CASE ReadQuestions
  <2>1. ASSUME NEW mine, GoOn([c EXCEPT !.op = "store", !.mine = mine])
        PROVE  ViewsCarried /\ NoNewJoin
    <3>. DEFINE d == [c EXCEPT !.op = "store", !.mine = mine]
    <3>1. d.op = "store" /\ GoOn(d)
      BY <1>2, <2>1 DEF Command
    <3>. HIDE DEF d
    <3>. QED  BY <1>1, <1>6, <3>1, QuietGoOn
  <2>. QED  BY <1>3, <1>11, <2>1 DEF ReadQuestions
<1>. QED  BY <1>5, <1>7, <1>8, <1>9, <1>10, <1>11

\* The steps of a tick that join sockets.
LEMMA JoinMoves ==
    ASSUME SessionInv, StoreKey \/ FirstJoined
    PROVE  /\ ViewsCarried
           /\ \A k \in DOMAIN pipe' : pipe'[k].op \in Joins =>
                 \/ \E j \in DOMAIN pipe : pipe'[k] = pipe[j]
                 \/ /\ pipe'[k].match = Head(pipe).match
                    /\ \/ /\ StoreKey /\ pipe'[k].op = "joinFirst"
                          /\ pipe'[k].socket = Head(pipe).socket
                          /\ adapterRooms' = AdapterJoin(Head(pipe).socket, Head(pipe).match)
                       \/ /\ FirstJoined /\ pipe'[k].op = "joinSecond"
                          /\ pipe'[k].socket = Head(pipe).socket
                          /\ pipe'[k].other = Head(pipe).other
<1>. DEFINE c == Head(pipe)
<1>1. pipe # <<>> /\ c.op \in {"storeKeys", "joinFirst"} /\ c.op \notin Views
  BY DEF StoreKey, FirstJoined, Reply, Views
<1>2. c \in Command
  BY <1>1, Served
<1>3. CASE Finish
  BY <1>1, <1>3, QuietFinish DEF NoNewJoin
<1>4. CASE StoreKey /\ GoOn([c EXCEPT !.left = @ - 1])
  <2>. DEFINE left == c.left - 1
              d == [c EXCEPT !.left = left]
  <2>1. d.op = c.op /\ c.op = "storeKeys" /\ Quiet("storeKeys")
    BY <1>2, <1>4 DEF Command, StoreKey, Reply, Quiet, Views, Joins
  <2>2. GoOn(d)
    BY <1>4
  <2>. HIDE DEF d
  <2>3. ViewsCarried /\ NoNewJoin
    BY <1>1, <2>1, <2>2, QuietGoOn
  <2>. QED  BY <2>3 DEF NoNewJoin
<1>5. CASE /\ StoreKey /\ GoOn([c EXCEPT !.op = "joinFirst", !.left = 0])
           /\ adapterRooms' = AdapterJoin(c.socket, c.match)
  <2>. DEFINE d == [c EXCEPT !.op = "joinFirst", !.left = 0]
  <2>1. d.op = "joinFirst" /\ d.match = c.match /\ d.socket = c.socket /\ GoOn(d)
    BY <1>2, <1>5 DEF Command
  <2>. HIDE DEF d
  <2>2. JoinsCarried(d) /\ ViewsCarried
    BY <1>1, <2>1, GoingOn DEF Views
  <2>. QED  BY <1>5, <2>1, <2>2 DEF JoinsCarried
<1>6. CASE FirstJoined
  <2>. DEFINE d == [c EXCEPT !.op = "joinSecond"]
  <2>1. d.op = "joinSecond" /\ d.match = c.match /\ d.socket = c.socket /\ d.other = c.other
        /\ GoOn(d)
    BY <1>2, <1>6 DEF Command, FirstJoined, GoTo
  <2>. HIDE DEF d
  <2>2. JoinsCarried(d) /\ ViewsCarried
    BY <1>1, <2>1, GoingOn DEF Views
  <2>. QED  BY <1>6, <2>1, <2>2 DEF JoinsCarried
<1>. QED  BY <1>3, <1>4, <1>5, <1>6 DEF StoreKey

LEMMA ShowMoves ==
    ASSUME SessionInv, StoreStatus \/ ReadStatusA \/ Broadcast
    PROVE  NoNewJoin
<1>1. pipe # <<>>
  BY DEF StoreStatus, ReadStatusA, Broadcast, Reply
<1>2. CASE Broadcast
  BY <1>1, <1>2, QuietFinish DEF Broadcast
<1>3. CASE StoreStatus
  <2>. DEFINE d == [Head(pipe) EXCEPT !.op = "statusA"]
  <2>1. d.op = "statusA" /\ GoOn(d)
    BY <1>1, <1>3, Served DEF Command, StoreStatus, GoTo
  <2>. HIDE DEF d
  <2>2. JoinsCarried(d)
    BY <1>1, <2>1, GoingOn
  <2>. QED  BY <2>1, <2>2 DEF JoinsCarried, NoNewJoin, Joins
<1>4. CASE ReadStatusA
  <2>1. PICK d \in Command : d.op = "statusB" /\ GoOn(d)
    BY <1>4, ReadStatusAStep
  <2>2. JoinsCarried(d)
    BY <1>1, <2>1, GoingOn
  <2>. QED  BY <2>1, <2>2 DEF JoinsCarried, NoNewJoin, Joins
<1>. QED  BY <1>2, <1>3, <1>4

LEMMA AllMoves ==
    ASSUME SessionInv, Next
    PROVE  /\ NoNewJoin \/ StoreKey \/ FirstJoined
           /\ ViewsCarried \/ StoreStatus \/ ReadStatusA \/ Broadcast
<1>1. CASE Serve
  BY <1>1, ServeMoves, JoinMoves, ShowMoves DEF Serve, ServeTick, ServeAnswer
<1>2. CASE ~Serve
  BY <1>2, EventMoves DEF Next
<1>. QED  BY <1>1, <1>2

\* Only a client leaves a room, by asking to or by closing.
LEMMA StaysIn ==
    ASSUME SessionInv, Next, NEW s \in Sockets, NEW m, InRoom(s, m)
    PROVE  InRoom(s, m)'
<1>1. adapterRooms \in [Sockets -> SUBSET (DOMAIN matches)]
      /\ away \in [Sockets -> SUBSET (DOMAIN matches)]
  BY DEF SessionInv, TypeOK
<1>2. CASE UNCHANGED <<open, away, adapterRooms>>
  BY <1>2 DEF InRoom
<1>3. ASSUME NEW t \in Sockets, NEW x, UNCHANGED <<open, away>>, adapterRooms' = AdapterJoin(t, x)
      PROVE  InRoom(s, m)'
  BY <1>1, <1>3 DEF InRoom, AdapterJoin
<1>4. ASSUME NEW t \in Sockets, Disconnect(t) PROVE InRoom(s, m)'
  BY <1>1, <1>4 DEF InRoom, Disconnect, clientVars
<1>5. ASSUME NEW t \in Sockets, NEW x \in MatchIds, LeaveRoom(t, x) PROVE InRoom(s, m)'
  BY <1>1, <1>5 DEF InRoom, LeaveRoom
<1>6. ASSUME NEW t \in Sockets, NEW x \in MatchIds, JoinRoom(t, x) PROVE InRoom(s, m)'
  BY <1>3, <1>6 DEF JoinRoom, clientVars
<1>7. CASE StoreKey
  <2>1. Head(pipe).socket \in Sockets
    BY <1>7, StoreEffect, Own DEF Made
  <2>. QED  BY <1>2, <1>3, <1>7, <2>1, StoreEffect
<1>8. CASE FirstJoined
  <2>1. /\ pipe # <<>> /\ Head(pipe).op \in Made /\ UNCHANGED <<open, away>>
        /\ adapterRooms' = AdapterJoin(Head(pipe).other, Head(pipe).match)
    BY <1>8 DEF FirstJoined, Reply, Made
  <2>2. Head(pipe).other \in Sockets
    BY <2>1, Own
  <2>. QED  BY <1>3, <2>1, <2>2
<1>9. \/ UNCHANGED <<open, away, adapterRooms>> \/ StoreKey \/ FirstJoined
      \/ \E t \in Sockets : Disconnect(t)
      \/ \E t \in Sockets, x \in MatchIds : JoinRoom(t, x) \/ LeaveRoom(t, x)
  BY DEF Next, Serve, ServeEvent, ServeTick, ServeAnswer, QueueUp, Submit, SubmitTo, Tick,
         Queued, Joined, Left, QueueCleaned, RoomsToClean, RoomsCleaned, ReadQueue,
         DropDuplicate, TakeFirst, TakeSecond, SecondJoined, FindMatchRoom, ReadPlayerA,
         ReadPlayerB, ReadStatus, ReadAnswers, ReadQuestions, StoreStatus, ReadStatusA,
         Broadcast, Unchanged, Reply, clientVars, roomVars
<1>. QED  BY <1>2, <1>4, <1>5, <1>6, <1>7, <1>8, <1>9

LEMMA RoomNext == SessionInv /\ RoomInv /\ [Next]_vars => RoomInv'
<1>. SUFFICES ASSUME SessionInv, RoomInv, Next PROVE RoomInv'
  BY DEF vars, roomVars, clientVars, RoomInv, PlayersOf, InRoom
<1>1. \A k \in DOMAIN pipe : pipe[k].socket \in Sockets /\ pipe[k].other \in Sockets
  BY Shape, Fields
<1>2. ASSUME NEW m \in DOMAIN matches', matches'[m].outcome \in Ready,
             NEW s \in {matches'[m].playerA, matches'[m].playerB}
      PROVE  InRoom(s, m)'
  <2>1. /\ m \in DOMAIN matches /\ s \in PlayersOf(m) /\ s \in Sockets
        /\ matches[m].outcome \in Ready \/ (SecondJoined /\ m = Head(pipe).match)
    <3>1. m \in DOMAIN matches
          /\ (matches[m].outcome \in Ready \/ (SecondJoined /\ m = Head(pipe).match))
      BY <1>2, MatchesGoOn
    <3>2. s \in PlayersOf(m)
      BY <1>2, <3>1, MatchesGoOn DEF PlayersOf
    <3>3. matches[m] \in Match
      BY <3>1, Shape
    <3>. QED  BY <3>1, <3>2, <3>3 DEF Match, PlayersOf
  <2>2. CASE matches[m].outcome \in Ready
    <3>1. InRoom(s, m)
      BY <2>1, <2>2 DEF RoomInv
    <3>. QED  BY <2>1, <3>1, StaysIn
  <2>3. CASE SecondJoined /\ m = Head(pipe).match
    <3>1. pipe # <<>> /\ Head(pipe).op = "joinSecond" /\ Head(pipe).op \in Made
      BY <2>3 DEF SecondJoined, Reply, Made
    <3>2. PlayersOf(m) = {Head(pipe).socket, Head(pipe).other}
      BY <2>3, <3>1, Own DEF PlayersOf
    <3>3. Head(pipe) = pipe[1] /\ 1 \in DOMAIN pipe
      BY <3>1, Shape, Front
    <3>4. InRoom(s, m)
      BY <2>1, <2>3, <3>1, <3>2, <3>3 DEF RoomInv
    <3>. QED  BY <2>1, <3>4, StaysIn
  <2>. QED  BY <2>1, <2>2, <2>3
<1>3. ASSUME NEW s \in Sockets, NEW m, InRoom(s, m)
      PROVE  s \in open' => m \in away'[s] \/ m \in adapterRooms'[s]
  BY <1>3, StaysIn DEF InRoom
<1>4. ASSUME NEW k \in DOMAIN pipe', pipe'[k].op \in Joins, NEW s \in Sockets,
             s = pipe'[k].socket \/ (s = pipe'[k].other /\ pipe'[k].op = "joinSecond")
      PROVE  s \in open' => pipe'[k].match \in away'[s] \/ pipe'[k].match \in adapterRooms'[s]
  <2>1. ASSUME NEW j \in DOMAIN pipe, pipe'[k] = pipe[j]
        PROVE  s \in open' => pipe'[k].match \in away'[s] \/ pipe'[k].match \in adapterRooms'[s]
    <3>1. InRoom(s, pipe[j].match)
      BY <1>4, <2>1 DEF RoomInv, Joins
    <3>. QED  BY <1>3, <2>1, <3>1
  <2>2. CASE /\ pipe'[k].match = Head(pipe).match /\ StoreKey /\ pipe'[k].op = "joinFirst"
             /\ pipe'[k].socket = Head(pipe).socket
             /\ adapterRooms' = AdapterJoin(Head(pipe).socket, Head(pipe).match)
    <3>1. open' = open /\ s = Head(pipe).socket
      BY <1>4, <2>2, StoreEffect
    <3>2. adapterRooms \in [Sockets -> SUBSET (DOMAIN matches)]
      BY DEF SessionInv, TypeOK
    <3>. QED  BY <2>2, <3>1, <3>2 DEF AdapterJoin
  <2>3. CASE /\ pipe'[k].match = Head(pipe).match /\ FirstJoined
             /\ pipe'[k].socket = Head(pipe).socket /\ pipe'[k].other = Head(pipe).other
    <3>1. /\ pipe # <<>> /\ Head(pipe).op = "joinFirst" /\ open' = open
          /\ adapterRooms' = AdapterJoin(Head(pipe).other, Head(pipe).match)
      BY <2>3 DEF FirstJoined, Reply
    <3>2. CASE s = Head(pipe).socket
      <4>1. Head(pipe) = pipe[1] /\ 1 \in DOMAIN pipe
        BY <3>1, Shape, Front
      <4>2. InRoom(s, Head(pipe).match)
        BY <3>1, <3>2, <4>1 DEF RoomInv
      <4>. QED  BY <1>3, <2>3, <4>2
    <3>3. CASE s = Head(pipe).other
      <4>1. adapterRooms \in [Sockets -> SUBSET (DOMAIN matches)]
        BY DEF SessionInv, TypeOK
      <4>. QED  BY <2>3, <3>1, <3>3, <4>1 DEF AdapterJoin
    <3>. QED  BY <1>4, <2>3, <3>2, <3>3
  <2>4. CASE NoNewJoin
    BY <1>4, <2>1, <2>4 DEF NoNewJoin
  <2>5. CASE StoreKey \/ FirstJoined
    BY <1>4, <2>1, <2>2, <2>3, <2>5, JoinMoves
  <2>. QED  BY <2>4, <2>5, AllMoves
<1>5. SessionInv'
  BY SessionNext
<1>6. \A k \in DOMAIN pipe' : pipe'[k].socket \in Sockets /\ pipe'[k].other \in Sockets
  <2>1. \A k \in DOMAIN pipe' : pipe'[k] \in Command
    BY <1>5, Sequence DEF SessionInv, TypeOK
  <2>. QED  BY <2>1, Fields
<1>7. \A m \in DOMAIN matches' : matches'[m].outcome \in Ready =>
         \A s \in {matches'[m].playerA, matches'[m].playerB} : InRoom(s, m)'
  BY <1>2
<1>8. \A k \in DOMAIN pipe' :
         /\ pipe'[k].op \in Joins =>
               LET s == pipe'[k].socket
                   m == pipe'[k].match
               IN  s \in open' => m \in away'[s] \/ m \in adapterRooms'[s]
         /\ pipe'[k].op = "joinSecond" =>
               LET s == pipe'[k].other
                   m == pipe'[k].match
               IN  s \in open' => m \in away'[s] \/ m \in adapterRooms'[s]
  BY <1>4, <1>6 DEF Joins
<1>. QED  BY <1>7, <1>8 DEF RoomInv, InRoom, PlayersOf, Joins

\* The broadcasts of one match do not depend on those of another.
LEMMA ElsewhereGoesOn ==
    ASSUME SessionInv, pipe # <<>>, NEW c, GoOn(c), NEW m,
           ~View(c, m), ~View(Head(pipe), m)
    PROVE  /\ \A latest : LastIsLatest(pipe, m, latest) => LastIsLatest(pipe', m, latest)
           /\ (\E k \in DOMAIN pipe : View(pipe[k], m)) => \E k \in DOMAIN pipe' : View(pipe'[k], m)
<1>. DEFINE r == Tail(pipe)
<1>1. pipe \in Seq(Command) /\ r \in Seq(Command) /\ pipe' = Append(r, c)
  BY Shape, Front DEF GoOn
<1>2. ASSUME NEW latest, LastIsLatest(pipe, m, latest) PROVE LastIsLatest(pipe', m, latest)
  <2>1. LastIsLatest(r, m, latest)
    BY <1>1, <1>2, LastDrops DEF View, Views
  <2>. HIDE DEF r
  <2>. QED  BY <1>1, <2>1, LastAdds DEF View, Views
<1>3. ASSUME NEW k \in DOMAIN pipe, View(pipe[k], m)
      PROVE  \E j \in DOMAIN pipe' : View(pipe'[j], m)
  <2>1. \E j \in DOMAIN r : View(r[j], m)
    BY <1>1, <1>3, ViewDrops
  <2>. HIDE DEF r
  <2>. QED  BY <1>1, <2>1, ViewAdds
<1>. QED  BY <1>2, <1>3

LEMMA AwayGrows ==
    ASSUME SessionInv, Next, NEW s \in Sockets
    PROVE  away[s] \subseteq away'[s]
<1>1. away \in [Sockets -> SUBSET (DOMAIN matches)]
  BY DEF SessionInv, TypeOK
<1>2. CASE away' = away
  BY <1>2
<1>3. ASSUME NEW t \in Sockets, NEW x \in MatchIds, LeaveRoom(t, x)
      PROVE  away[s] \subseteq away'[s]
  BY <1>1, <1>3 DEF LeaveRoom
<1>4. away' = away \/ \E t \in Sockets, x \in MatchIds : LeaveRoom(t, x)
  BY DEF Next, Serve, ServeEvent, ServeTick, ServeAnswer, QueueUp, Submit, SubmitTo, JoinRoom,
         Disconnect, Tick, Queued, Joined, Left, QueueCleaned, RoomsToClean, RoomsCleaned,
         ReadQueue, DropDuplicate, TakeFirst, TakeSecond, StoreKey, FirstJoined, SecondJoined,
         FindMatchRoom, ReadPlayerA, ReadPlayerB, ReadStatus, ReadAnswers, ReadQuestions,
         StoreStatus, ReadStatusA, Broadcast, Reply, clientVars
<1>. QED  BY <1>2, <1>3, <1>4

\* What ViewsInv says of one match.
Settled(m) ==
    /\ LastIsLatest(pipe, m, status[m]["playerA"])
    /\ m \in DOMAIN matches =>
          \A s \in PlayersOf(m) \cap open :
              \/ m \in away[s] \/ screen[s][m] = status[m]
              \/ \E k \in DOMAIN pipe : View(pipe[k], m)

LEMMA SettledStays ==
    ASSUME SessionInv, PlayInv, Next, NEW m \in MatchIds, Settled(m),
           \A latest : LastIsLatest(pipe, m, latest) => LastIsLatest(pipe', m, latest),
           (\E k \in DOMAIN pipe : View(pipe[k], m)) => \E k \in DOMAIN pipe' : View(pipe'[k], m),
           status'[m] = status[m], \A s \in Sockets : screen'[s][m] = screen[s][m]
    PROVE  Settled(m)'
<1>1. LastIsLatest(pipe', m, status'[m]["playerA"])
  BY DEF Settled
<1>2. open \subseteq Sockets /\ open' \subseteq open
  BY OthersGoOn DEF SessionInv, TypeOK
<1>3. ASSUME m \in DOMAIN matches',
             NEW s \in {matches'[m].playerA, matches'[m].playerB} \cap open'
      PROVE  \/ m \in away'[s] \/ screen'[s][m] = status'[m]
             \/ \E k \in DOMAIN pipe' : View(pipe'[k], m)
  <2>1. s \in Sockets /\ s \in open
    BY <1>2, <1>3
  <2>2. CASE m \in DOMAIN matches
    <3>1. s \in PlayersOf(m)
      BY <1>3, <2>2, MatchesGoOn DEF PlayersOf
    <3>. QED  BY <2>1, <2>2, <3>1, AwayGrows DEF Settled
  <2>3. CASE m \notin DOMAIN matches
    <3>1. screen[s][m] = Unplayed /\ status[m] = Unplayed
      BY <2>1, <2>3 DEF PlayInv, SessionInv, MatchInv
    <3>. QED  BY <2>1, <3>1
  <2>. QED  BY <2>2, <2>3
<1>. QED  BY <1>1, <1>3 DEF Settled, PlayersOf

LEMMA ViewsNext ==
    SessionInv /\ PlayInv /\ RoomInv /\ ViewsInv /\ [Next]_vars => ViewsInv'
<1>. SUFFICES ASSUME SessionInv, PlayInv, RoomInv, ViewsInv, Next PROVE ViewsInv'
  BY DEF vars, roomVars, clientVars, ViewsInv, PlayersOf
<1>. SUFFICES ASSUME NEW m \in MatchIds PROVE Settled(m)'
  BY DEF ViewsInv, Settled, MatchIds
<1>. DEFINE c == Head(pipe)
<1>1. Settled(m)
  BY DEF ViewsInv, Settled
<1>2. CASE ~StoreStatus /\ ~ReadStatusA /\ ~Broadcast
  <2>1. ViewsCarried /\ screen' = screen
    BY <1>2, AllMoves, OthersGoOn
  <2>2. status'[m] = status[m]
    <3>1. CASE StoreKey
      <4>1. status \in [MatchIds -> [Players -> Standing]]
        BY DEF SessionInv, TypeOK
      <4>2. m = c.match => status[m] = Unplayed
        BY <3>1, StoreEffect DEF PlayInv
      <4>. QED  BY <3>1, <4>1, <4>2, StoreEffect
    <3>. QED  BY <1>2, <3>1, OthersGoOn
  <2>. QED  BY <1>1, <2>1, <2>2, SettledStays DEF ViewsCarried
<1>3. CASE StoreStatus
  <2>1. PICK k \in DOMAIN pipe' : pipe'[k].op = "statusA" /\ pipe'[k].match = c.match
    BY <1>3, StoreStatusStep
  <2>2. CASE m = c.match
    <3>1. Reading(pipe', m) /\ View(pipe'[k], m)
      BY <2>1, <2>2 DEF Reading, View, Views
    <3>. QED  BY <3>1 DEF Settled, LastIsLatest
  <2>3. CASE m # c.match
    <3>. DEFINE d == [c EXCEPT !.op = "statusA"]
    <3>1. pipe # <<>> /\ c \in Command /\ c.op = "store"
      BY <1>3, Served DEF StoreStatus, Reply
    <3>2. d.op = "statusA" /\ d.match = c.match /\ GoOn(d)
      BY <1>3, <3>1 DEF Command, StoreStatus, GoTo
    <3>. HIDE DEF d
    <3>3. ~View(d, m) /\ ~View(c, m)
      BY <2>3, <3>1, <3>2 DEF View, Views
    <3>4. status'[m] = status[m] /\ screen' = screen
      BY <1>3, <2>3, StoreStatusStep
    <3>. QED  BY <1>1, <3>1, <3>2, <3>3, <3>4, ElsewhereGoesOn, SettledStays
  <2>. QED  BY <2>2, <2>3
<1>4. CASE ReadStatusA
  <2>1. PICK d \in Command : /\ d.op = "statusB" /\ d.match = c.match /\ GoOn(d)
                             /\ d.seen = status[d.match]["playerA"]
    BY <1>4, ReadStatusAStep
  <2>2. pipe # <<>> /\ c.op = "statusA" /\ status' = status /\ screen' = screen
    BY <1>4, ReadStatusAStep
  <2>3. CASE m = c.match
    <3>1. Tail(pipe) \in Seq(Command) /\ pipe' = Append(Tail(pipe), d)
      BY <2>1, <2>2, Shape, Front DEF GoOn
    <3>2. LastIsLatest(pipe', m, status'[m]["playerA"])
      BY <2>1, <2>2, <2>3, <3>1, LastNew
    <3>3. \E k \in DOMAIN pipe' : View(pipe'[k], m)
      <4>1. Len(Tail(pipe)) + 1 \in DOMAIN pipe' /\ pipe'[Len(Tail(pipe)) + 1] = d
        BY <3>1, Added
      <4>. QED  BY <2>1, <2>3, <4>1 DEF View, Views
    <3>. QED  BY <3>2, <3>3 DEF Settled
  <2>4. CASE m # c.match
    <3>1. ~View(d, m) /\ ~View(c, m)
      BY <2>1, <2>4 DEF View
    <3>. QED  BY <1>1, <2>1, <2>2, <3>1, ElsewhereGoesOn, SettledStays
  <2>. QED  BY <2>3, <2>4
<1>5. CASE Broadcast
  <2>1. /\ pipe # <<>> /\ c.op = "statusB" /\ pipe' = Tail(pipe) /\ pipe \in Seq(Command)
        /\ c.match \in DOMAIN matches /\ matches[c.match].outcome \in Ready
        /\ UNCHANGED <<matches, status, open, away>>
    BY <1>5, BroadcastStep, Shape DEF Finish
  <2>2. \A s \in Sockets :
           screen'[s][m] = IF m = c.match /\ m \in adapterRooms[s]
                           THEN [status[m] EXCEPT !["playerA"] = c.seen]
                           ELSE screen[s][m]
    BY <1>5, BroadcastStep
  <2>3. \A latest : LastIsLatest(pipe, m, latest) => LastIsLatest(pipe', m, latest)
    BY <2>1, LastDrops
  <2>4. CASE m # c.match
    <3>1. ~View(c, m)
      BY <2>4 DEF View
    <3>2. (\E k \in DOMAIN pipe : View(pipe[k], m)) => \E k \in DOMAIN pipe' : View(pipe'[k], m)
      BY <2>1, <3>1, ViewDrops
    <3>. QED  BY <1>1, <2>1, <2>2, <2>3, <2>4, <3>2, SettledStays
  <2>5. CASE m = c.match
    <3>1. LastIsLatest(pipe', m, status'[m]["playerA"])
      BY <1>1, <2>1, <2>3 DEF Settled
    <3>2. ASSUME NEW s \in PlayersOf(m) \cap open, m \notin away[s],
                 ~\E k \in DOMAIN pipe' : View(pipe'[k], m)
          PROVE  screen'[s][m] = status[m]
      <4>1. s \in Sockets
        BY DEF SessionInv, TypeOK
      <4>2. m \in adapterRooms[s]
        BY <2>1, <2>5, <3>2 DEF RoomInv, InRoom
      <4>3. c = pipe[1] /\ 1 \in DOMAIN pipe
            /\ \A k \in DOMAIN pipe : k = 1 \/ ~View(pipe[k], m)
        <5>1. c = pipe[1] /\ 1 \in DOMAIN pipe
              /\ \A k \in DOMAIN pipe : k = 1 \/ (k - 1 \in DOMAIN pipe' /\ pipe'[k - 1] = pipe[k])
          BY <2>1, Front
        <5>2. ASSUME NEW k \in DOMAIN pipe, k # 1
              PROVE  ~View(pipe[k], m)
          <6>1. k - 1 \in DOMAIN pipe' /\ pipe'[k - 1] = pipe[k]
            BY <5>1, <5>2
          <6>2. ~View(pipe'[k - 1], m)
            BY <3>2, <6>1
          <6>. QED  BY <6>1, <6>2
        <5>. QED  BY <5>1, <5>2
      <4>4. ~Reading(pipe, m) /\ Showing(pipe, m) = {1}
        BY <2>1, <2>5, <4>3 DEF Reading, Showing, View, Views
      <4>5. c.seen = status[m]["playerA"]
        BY <1>1, <4>3, <4>4 DEF Settled, LastIsLatest
      <4>6. status[m] \in [Players -> Standing]
        BY DEF SessionInv, TypeOK
      <4>. QED  BY <2>2, <2>5, <4>1, <4>2, <4>5, <4>6
    <3>. QED  BY <2>1, <3>1, <3>2 DEF Settled, PlayersOf
  <2>. QED  BY <2>4, <2>5
<1>. QED  BY <1>2, <1>3, <1>4, <1>5

LEMMA ViewsInit == Init => RoomInv /\ ViewsInv
<1>. SUFFICES ASSUME Init PROVE RoomInv /\ ViewsInv
  OBVIOUS
<1>1. DOMAIN pipe = {} /\ DOMAIN matches = {}
  <2>1. \A S : <<>> \in Seq(S) /\ Len(<<>>) = 0 /\ DOMAIN <<>> = {}
    BY EmptySeq
  <2>. QED  BY <2>1 DEF Init
<1>2. RoomInv
  BY <1>1 DEF RoomInv
<1>3. ViewsInv
  BY <1>1 DEF ViewsInv, LastIsLatest, Showing
<1>. QED  BY <1>2, <1>3

\* With no answer to a match under way, its connected players who never left its
\* room see what Redis holds: the last broadcast always shows the latest statuses,
\* though one handler reads the two of them in two awaits, and both players are in
\* the room from the moment they are told.
THEOREM ScreensMeet == Spec => []ScreensAgree
<1>1. SessionInv /\ PlayInv /\ RoomInv /\ ViewsInv /\ [Next]_vars =>
         SessionInv' /\ PlayInv' /\ RoomInv' /\ ViewsInv'
  BY SessionNext, PlayNext, RoomNext, ViewsNext
<1>2. Init => SessionInv /\ PlayInv /\ RoomInv /\ ViewsInv
  BY SessionInit, PlayInit, ViewsInit
<1>3. SessionInv /\ ViewsInv => ScreensAgree
  <2>. SUFFICES ASSUME SessionInv, ViewsInv, NEW m \in DOMAIN matches,
                       \A k \in DOMAIN pipe : pipe[k].op \in AnswerOps => pipe[k].match # m,
                       NEW s \in PlayersOf(m) \cap open, m \notin away[s]
                PROVE  screen[s][m] = status[m]
    BY DEF ScreensAgree
  <2>1. m \in MatchIds
    BY Shape
  <2>2. \A k \in DOMAIN pipe : ~View(pipe[k], m)
    BY DEF View, Views, AnswerOps
  <2>. QED  BY <2>1, <2>2 DEF ViewsInv
<1>. QED  BY <1>1, <1>2, <1>3, PTL DEF Spec

-----------------------------------------------------------------------------
(* Each match is a quiz                                                    *)

\* No client has two events under way: those of one socket do not wait for each
\* other in the gateway, so this is up to the clients.
OneAtATime == MaxPending <= 1

\* An answer between its read and its store holds the stored status of its
\* player, or one answer more.
Writing == {"answers", "questions", "store"}

HeldFor(c, standing) ==
    /\ c.op \in {"answers", "questions"} => c.mine = standing
    /\ c.op = "store" => /\ standing.activeQuestionIndex < NumQuestions
                         /\ \E point \in {0, 1} : c.mine = Scored(standing, point)

Held(c, ms, st) == \A p \in Players : ms[c.match][p] = c.socket => HeldFor(c, st[c.match][p])

Serial(q) == \A j, k \in DOMAIN q :
    q[j].op \in EventOps /\ q[k].op \in EventOps /\ q[j].socket = q[k].socket => j = k

\* No socket has two events under way: what a handler holds nobody else changes.
QuizInv ==
    /\ Serial(pipe)
    /\ \A k \in DOMAIN pipe : pipe[k].op \in Writing => Held(pipe[k], matches, status)

LEMMA SerialDrops ==
    ASSUME NEW q \in Seq(Command), q # <<>>, Serial(q)
    PROVE  /\ Serial(Tail(q))
           /\ \A k \in DOMAIN Tail(q) : \E j \in DOMAIN q : j # 1 /\ Tail(q)[k] = q[j]
           /\ \A k \in DOMAIN Tail(q) :
                 Tail(q)[k].op \in EventOps /\ Head(q).op \in EventOps =>
                    Tail(q)[k].socket # Head(q).socket
<1>. DEFINE r == Tail(q)
<1>1. /\ Head(q) = q[1] /\ 1 \in DOMAIN q
      /\ \A k \in DOMAIN r : k \in Nat \ {0} /\ k + 1 \in DOMAIN q /\ r[k] = q[k + 1]
  BY Front
<1>. HIDE DEF r
<1>2. Serial(r)
  <2>. SUFFICES ASSUME NEW j \in DOMAIN r, NEW k \in DOMAIN r, r[j].op \in EventOps,
                       r[k].op \in EventOps, r[j].socket = r[k].socket
                PROVE  j = k
    BY DEF Serial
  <2>1. /\ j \in Nat /\ k \in Nat /\ j + 1 \in DOMAIN q /\ k + 1 \in DOMAIN q
        /\ r[j] = q[j + 1] /\ r[k] = q[k + 1]
    BY <1>1
  <2>2. j + 1 = k + 1
    BY <2>1 DEF Serial
  <2>. QED  BY <2>1, <2>2
<1>3. ASSUME NEW k \in DOMAIN r PROVE k + 1 \in DOMAIN q /\ k + 1 # 1 /\ r[k] = q[k + 1]
  BY <1>1
<1>4. ASSUME NEW k \in DOMAIN r, r[k].op \in EventOps, Head(q).op \in EventOps
      PROVE  r[k].socket # Head(q).socket
  BY <1>1, <1>3, <1>4 DEF Serial
<1>. QED  BY <1>2, <1>3, <1>4 DEF r

LEMMA SerialAdds ==
    ASSUME NEW q \in Seq(Command), NEW c, Serial(q),
           c.op \in EventOps =>
              \A k \in DOMAIN q : q[k].op \in EventOps => q[k].socket # c.socket
    PROVE  /\ Serial(Append(q, c))
           /\ \A k \in DOMAIN Append(q, c) :
                 Append(q, c)[k] = c \/ \E j \in DOMAIN q : Append(q, c)[k] = q[j]
<1>. DEFINE r == Append(q, c)
            n == Len(q) + 1
<1>1. /\ DOMAIN r = DOMAIN q \cup {n} /\ r[n] = c /\ \A k \in DOMAIN q : r[k] = q[k]
  BY Added
<1>. HIDE DEF r, n
<1>2. Serial(r)
  BY <1>1 DEF Serial
<1>3. \A k \in DOMAIN r : r[k] = c \/ \E j \in DOMAIN q : r[k] = q[j]
  BY <1>1
<1>. QED  BY <1>2, <1>3 DEF r

\* Where the commands of a step come from.
Behind(c) == \A k \in DOMAIN pipe' :
    pipe'[k] = c \/ \E j \in DOMAIN pipe : j # 1 /\ pipe'[k] = pipe[j]

LEMMA SerialIssue ==
    ASSUME SessionInv, QuizInv, NEW c, Issue(c), c.op \in EventOps => Events(c.socket) = {}
    PROVE  Serial(pipe') /\ JoinsCarried(c)
<1>1. pipe \in Seq(Command) /\ pipe' = Append(pipe, c) /\ Serial(pipe)
  BY Shape DEF Issue, QuizInv, Serial
<1>2. c.op \in EventOps =>
         \A k \in DOMAIN pipe : pipe[k].op \in EventOps => pipe[k].socket # c.socket
  BY DEF Events
<1>. QED  BY <1>1, <1>2, SerialAdds DEF JoinsCarried

LEMMA SerialGoOn ==
    ASSUME SessionInv, QuizInv, pipe # <<>>, NEW c, GoOn(c),
           c.op \in EventOps => Head(pipe).op \in EventOps /\ c.socket = Head(pipe).socket
    PROVE  Serial(pipe') /\ Behind(c)
<1>. DEFINE r == Tail(pipe)
<1>1. pipe \in Seq(Command) /\ r \in Seq(Command) /\ pipe' = Append(r, c) /\ Serial(pipe)
  BY Shape, Front DEF GoOn, QuizInv, Serial
<1>2. /\ Serial(r)
      /\ \A k \in DOMAIN r : \E j \in DOMAIN pipe : j # 1 /\ r[k] = pipe[j]
      /\ \A k \in DOMAIN r : r[k].op \in EventOps /\ Head(pipe).op \in EventOps =>
                                r[k].socket # Head(pipe).socket
  BY <1>1, SerialDrops
<1>. HIDE DEF r
<1>3. /\ Serial(Append(r, c))
      /\ \A k \in DOMAIN Append(r, c) :
            Append(r, c)[k] = c \/ \E j \in DOMAIN r : Append(r, c)[k] = r[j]
  BY <1>1, <1>2, SerialAdds
<1>4. Behind(c)
  BY <1>1, <1>2, <1>3 DEF Behind
<1>. QED  BY <1>1, <1>3, <1>4

LEMMA SerialFinish ==
    ASSUME SessionInv, QuizInv, pipe # <<>>, Finish
    PROVE  Serial(pipe') /\ \A c : Behind(c)
<1>1. pipe \in Seq(Command) /\ pipe' = Tail(pipe) /\ Serial(pipe)
  BY Shape DEF Finish, QuizInv, Serial
<1>. QED  BY <1>1, SerialDrops DEF Behind

-----------------------------------------------------------------------------
LEMMA StatusKept ==
    ASSUME SessionInv, PlayInv, Next, ~StoreStatus
    PROVE  status' = status
<1>1. CASE StoreKey
  <2>1. /\ Head(pipe).match \in DOMAIN matches /\ DOMAIN matches \subseteq MatchIds
        /\ matches[Head(pipe).match].outcome = "pending"
        /\ status' = status \/ status' = [status EXCEPT ![Head(pipe).match] = Unplayed]
    BY <1>1, StoreEffect, Shape
  <2>2. status[Head(pipe).match] = Unplayed
    BY <2>1 DEF PlayInv
  <2>3. status \in [MatchIds -> [Players -> Standing]]
    BY DEF SessionInv, TypeOK
  <2>. QED  BY <2>1, <2>2, <2>3
<1>. QED  BY <1>1, OthersGoOn

\* With the statuses as they were, only the new command is to be looked at.
LEMMA QuizKept ==
    ASSUME SessionInv, PlayInv, QuizInv, Next, ~StoreStatus, Serial(pipe'), NEW c, JoinsCarried(c),
           c.op \in Writing => c.match \in DOMAIN matches /\ Held(c, matches, status)
    PROVE  QuizInv'
<1>1. status' = status
  BY StatusKept
<1>2. \A m \in DOMAIN matches : \A p \in Players : matches'[m][p] = matches[m][p]
  BY MatchesGoOn DEF Players
<1>3. ASSUME NEW d, d.match \in DOMAIN matches, Held(d, matches, status)
      PROVE  Held(d, matches', status')
  BY <1>1, <1>2, <1>3 DEF Held
<1>4. ASSUME NEW j \in DOMAIN pipe, pipe[j].op \in Writing
      PROVE  pipe[j].match \in DOMAIN matches /\ Held(pipe[j], matches, status)
  <2>1. Sound(pipe[j], matches) /\ pipe[j].op \in Named
    BY <1>4 DEF SessionInv, PipeInv, Writing, Named, AnswerOps
  <2>. QED  BY <1>4, <2>1 DEF Sound, QuizInv
<1>5. ASSUME NEW k \in DOMAIN pipe', pipe'[k].op \in Writing
      PROVE  Held(pipe'[k], matches', status')
  <2>1. CASE pipe'[k] = c
    BY <1>3, <1>5, <2>1
  <2>2. ASSUME NEW j \in DOMAIN pipe, pipe'[k] = pipe[j]
        PROVE  Held(pipe'[k], matches', status')
    BY <1>3, <1>4, <1>5, <2>2
  <2>. QED  BY <2>1, <2>2 DEF JoinsCarried
<1>. QED  BY <1>5 DEF QuizInv

LEMMA QuizIssue ==
    ASSUME SessionInv, PlayInv, QuizInv, Next, ~StoreStatus, NEW c, Issue(c), c.op \notin Writing,
           c.op \in EventOps => Events(c.socket) = {}
    PROVE  QuizInv'
  BY SerialIssue, QuizKept

LEMMA QuizGoOn ==
    ASSUME SessionInv, PlayInv, QuizInv, Next, ~StoreStatus, pipe # <<>>, NEW c, GoOn(c),
           c.op \in EventOps => Head(pipe).op \in EventOps /\ c.socket = Head(pipe).socket,
           c.op \in Writing => c.match \in DOMAIN matches /\ Held(c, matches, status)
    PROVE  QuizInv'
<1>1. Serial(pipe') /\ JoinsCarried(c)
  BY SerialGoOn DEF Behind, JoinsCarried
<1>. QED  BY <1>1, QuizKept

LEMMA QuizFinish ==
    ASSUME SessionInv, PlayInv, QuizInv, Next, ~StoreStatus, pipe # <<>>, Finish
    PROVE  QuizInv'
<1>. DEFINE c == [op |-> "lpush"]
<1>1. Serial(pipe') /\ JoinsCarried(c)
  BY SerialFinish DEF Behind, JoinsCarried
<1>2. c.op \notin Writing
  BY DEF Writing
<1>. HIDE DEF c
<1>. QED  BY <1>1, <1>2, QuizKept

LEMMA QuizGoTo ==
    ASSUME SessionInv, PlayInv, QuizInv, Next, ~StoreStatus, pipe # <<>>, NEW o, GoTo(o),
           o \in EventOps => Head(pipe).op \in EventOps,
           o \notin Writing
    PROVE  QuizInv'
<1>. DEFINE d == [Head(pipe) EXCEPT !.op = o]
<1>1. d.op = o /\ d.socket = Head(pipe).socket /\ GoOn(d)
  BY Served DEF Command, GoTo
<1>. HIDE DEF d
<1>. QED  BY <1>1, QuizGoOn

\* A client that waits for the end of one event before the next has none under way
\* when it sends one.
LEMMA NoneUnderWay ==
    ASSUME OneAtATime, SessionInv, NEW s, Event(s)
    PROVE  Events(s) = {}
<1>1. Len(pipe) \in Nat /\ DOMAIN pipe = 1..Len(pipe)
  BY Shape, Sequence
<1>2. IsFiniteSet(1..Len(pipe)) /\ Events(s) \in SUBSET (1..Len(pipe))
  BY <1>1, FS_Interval DEF Events
<1>3. IsFiniteSet(Events(s)) /\ Cardinality(Events(s)) \in Nat
  BY <1>2, FS_Subset, FS_CardinalityType
<1>4. Cardinality(Events(s)) = 0
  BY <1>3, BoundsAssumption DEF Event, OneAtATime
<1>. QED  BY <1>3, <1>4, FS_EmptySet

LEMMA QuizEvents ==
    ASSUME OneAtATime, SessionInv, PlayInv, QuizInv, Next, ~StoreStatus, NEW s, NEW m,
           QueueUp(s) \/ Submit(s) \/ Disconnect(s) \/ SubmitTo(s, m) \/ JoinRoom(s, m)
           \/ LeaveRoom(s, m) \/ Tick
    PROVE  QuizInv'
<1>1. \A o, t, x : NewCommand(o, t, x).op = o /\ NewCommand(o, t, x).socket = t
  BY DEF NewCommand
<1>2. \A o, t, x, y : /\ [NewCommand(o, t, x) EXCEPT !.asked = y].op = o
                      /\ [NewCommand(o, t, x) EXCEPT !.asked = y].socket = t
  BY DEF NewCommand
<1>3. /\ "lrem" \notin EventOps /\ "lrange" \notin EventOps
      /\ \A o \in {"lpush", "rooms", "lrem", "playerA", "join", "leave", "lrange"} :
            o \notin Writing
  BY DEF EventOps, AnswerOps, Writing
<1>4. ASSUME NEW o, NEW t, NEW x, Issue(NewCommand(o, t, x)), o \notin Writing,
             o \in EventOps => Events(t) = {}
      PROVE  QuizInv'
  BY <1>1, <1>4, QuizIssue
<1>5. ASSUME NEW o, NEW t, NEW x, NEW y, o \notin Writing, Events(t) = {},
             Issue([NewCommand(o, t, x) EXCEPT !.asked = y])
      PROVE  QuizInv'
  <2>. DEFINE d == [NewCommand(o, t, x) EXCEPT !.asked = y]
  <2>1. d.op = o /\ d.socket = t /\ Issue(d)
    BY <1>2, <1>5
  <2>. HIDE DEF d
  <2>. QED  BY <1>5, <2>1, QuizIssue
<1>6. CASE QueueUp(s)
  <2>1. PICK withUserId \in BOOLEAN :
           Issue([NewCommand("lpush", s, 0) EXCEPT !.named = withUserId])
    BY <1>6 DEF QueueUp
  <2>. DEFINE d == [NewCommand("lpush", s, 0) EXCEPT !.named = withUserId]
  <2>2. d.op = "lpush" /\ d.socket = s /\ Issue(d)
    BY <2>1 DEF NewCommand
  <2>. HIDE DEF d
  <2>3. Events(s) = {}
    BY <1>6, NoneUnderWay DEF QueueUp
  <2>. QED  BY <1>3, <2>2, <2>3, QuizIssue
<1>7. CASE Submit(s)
  BY <1>3, <1>5, <1>7, NoneUnderWay DEF Submit
<1>8. CASE Disconnect(s)
  BY <1>3, <1>4, <1>8 DEF Disconnect
<1>9. CASE SubmitTo(s, m)
  BY <1>3, <1>5, <1>9, NoneUnderWay DEF SubmitTo
<1>10. CASE JoinRoom(s, m)
  BY <1>3, <1>4, <1>10, NoneUnderWay DEF JoinRoom
<1>11. CASE LeaveRoom(s, m)
  BY <1>3, <1>4, <1>11, NoneUnderWay DEF LeaveRoom
<1>12. CASE Tick
  BY <1>3, <1>4, <1>12 DEF Tick
<1>. QED  BY <1>6, <1>7, <1>8, <1>9, <1>10, <1>11, <1>12

LEMMA QuizTick ==
    ASSUME SessionInv, PlayInv, QuizInv, Next, ServeEvent \/ ServeTick
    PROVE  QuizInv'
<1>. DEFINE c == Head(pipe)
<1>1. pipe # <<>> /\ ~StoreStatus
  BY DEF ServeEvent, Queued, Joined, Left, QueueCleaned, RoomsToClean, RoomsCleaned, ServeTick,
         ReadQueue, DropDuplicate, TakeFirst, TakeSecond, StoreKey, FirstJoined, SecondJoined,
         Reply, StoreStatus
<1>2. c \in Command
  BY <1>1, Served
<1>3. CASE Finish
  BY <1>1, <1>3, QuizFinish
<1>4. /\ TickOps \cap EventOps = {} /\ "smembers" \notin EventOps /\ "cleanup" \notin EventOps
      /\ Writing \subseteq EventOps
      /\ "dropDuplicate" \in TickOps /\ "takeFirst" \in TickOps /\ "takeSecond" \in TickOps
      /\ "storeKeys" \in TickOps /\ "joinFirst" \in TickOps /\ "joinSecond" \in TickOps
  BY DEF TickOps, EventOps, AnswerOps, Writing
<1>5. ASSUME NEW o, GoTo(o), o \notin EventOps PROVE QuizInv'
  BY <1>1, <1>4, <1>5, QuizGoTo
<1>6. ASSUME NEW d, GoOn(d), d.op \notin EventOps PROVE QuizInv'
  BY <1>1, <1>4, <1>6, QuizGoOn
<1>7. CASE ServeEvent \/ DropDuplicate \/ TakeFirst \/ FirstJoined \/ SecondJoined
  BY <1>3, <1>4, <1>5, <1>7 DEF ServeEvent, Queued, Joined, Left, QueueCleaned, RoomsToClean,
     RoomsCleaned, DropDuplicate, TakeFirst, FirstJoined, SecondJoined
<1>8. CASE ReadQueue
  <2>1. CASE ~Finish
    <3>. DEFINE o == IF SamePlayer(queue[1], queue[2]) THEN "dropDuplicate" ELSE "takeFirst"
                d == [c EXCEPT !.socket = queue[1].client, !.named = queue[1].named,
                               !.other = queue[2].client, !.otherNamed = queue[2].named,
                               !.op = o]
    <3>1. d.op = o /\ o \in TickOps
      BY <1>2, <1>4 DEF Command
    <3>2. GoOn(d)
      BY <1>8, <2>1 DEF ReadQueue
    <3>. HIDE DEF d, o
    <3>. QED  BY <1>4, <1>6, <3>1, <3>2
  <2>. QED  BY <1>3, <2>1
<1>9. CASE TakeSecond
  <2>. DEFINE d == [c EXCEPT !.op = "storeKeys", !.left = NumKeys, !.match = Len(matches) + 1]
  <2>1. d.op = "storeKeys" /\ GoOn(d)
    BY <1>2, <1>9 DEF Command, TakeSecond
  <2>. HIDE DEF d
  <2>. QED  BY <1>4, <1>6, <2>1
<1>10. CASE StoreKey /\ GoOn([c EXCEPT !.left = @ - 1])
  <2>. DEFINE left == c.left - 1
              d == [c EXCEPT !.left = left]
  <2>1. d.op = "storeKeys" /\ GoOn(d)
    BY <1>2, <1>10 DEF Command, StoreKey, Reply
  <2>. HIDE DEF d
  <2>. QED  BY <1>4, <1>6, <2>1
<1>11. CASE StoreKey /\ GoOn([c EXCEPT !.op = "joinFirst", !.left = 0])
  <2>. DEFINE d == [c EXCEPT !.op = "joinFirst", !.left = 0]
  <2>1. d.op = "joinFirst" /\ GoOn(d)
    BY <1>2, <1>11 DEF Command
  <2>. HIDE DEF d
  <2>. QED  BY <1>4, <1>6, <2>1
<1>12. CASE StoreKey
  BY <1>3, <1>10, <1>11, <1>12 DEF StoreKey
<1>. QED  BY <1>7, <1>8, <1>9, <1>12 DEF ServeTick

\* A read that reaches the check of the index holds the status it read, and
\* passes only while there is a question left.
LEMMA QuizAnswer ==
    ASSUME SessionInv, PlayInv, QuizInv, Next, ServeAnswer, ~StoreStatus
    PROVE  QuizInv'
<1>. DEFINE c == Head(pipe)
<1>1. pipe # <<>> /\ c.op \in AnswerOps
  BY DEF ServeAnswer, FindMatchRoom, ReadPlayerA, ReadPlayerB, ReadStatus, ReadAnswers,
         ReadQuestions, ReadStatusA, Broadcast, Reply, AnswerOps
<1>2. c \in Command /\ c.op \in EventOps
  BY <1>1, Served DEF EventOps
<1>3. CASE Finish
  BY <1>1, <1>3, QuizFinish
<1>4. /\ \A o \in {"playerA", "playerB", "status", "statusB"} : o \notin Writing
      /\ "answers" \in Playing /\ "questions" \in Playing /\ "status" \in Playing
      /\ Playing \subseteq Named
  BY DEF Writing, Playing, Named, AnswerOps
<1>5. ASSUME c.op \in Writing
      PROVE  c.match \in DOMAIN matches /\ Held(c, matches, status)
  <2>1. c = pipe[1] /\ 1 \in DOMAIN pipe /\ c.op \in Named
    BY <1>1, <1>5, Shape, Front DEF Writing, Named, AnswerOps
  <2>. QED  BY <1>1, <1>5, <2>1, Served DEF QuizInv
<1>6. CASE ReadPlayerA \/ ReadPlayerB \/ Broadcast
  BY <1>1, <1>2, <1>3, <1>4, <1>6, QuizGoTo DEF ReadPlayerA, ReadPlayerB, Broadcast
<1>7. CASE FindMatchRoom
  <2>1. ASSUME NEW x, GoOn([c EXCEPT !.op = "playerA", !.match = x])
        PROVE  QuizInv'
    <3>. DEFINE d == [c EXCEPT !.op = "playerA", !.match = x]
    <3>1. d.op = "playerA" /\ d.socket = c.socket /\ GoOn(d)
      BY <1>2, <2>1 DEF Command
    <3>. HIDE DEF d
    <3>. QED  BY <1>1, <1>2, <1>4, <3>1, QuizGoOn
  <2>. QED  BY <1>3, <1>7, <2>1 DEF FindMatchRoom
<1>8. CASE ReadStatus
  <2>. DEFINE r == RoleOf(c.socket, c.match)
              mine == status[c.match][r]
              d == [c EXCEPT !.op = "answers", !.mine = mine]
  <2>1. c.op = "status" /\ c.match \in DOMAIN matches /\ matches[c.match] \in Match
        /\ matches[c.match].playerA # matches[c.match].playerB
        /\ c.socket \in PlayersOf(c.match)
    BY <1>1, <1>4, <1>8, Shape, Answering DEF ReadStatus, Reply, SessionInv, MatchInv
  <2>2. \A p \in Players : matches[c.match][p] = c.socket => p = r
    BY <2>1, Role DEF Players, Match
  <2>. HIDE DEF r
  <2>3. GoOn(d)
    BY <1>8 DEF ReadStatus, r
  <2>. HIDE DEF mine
  <2>4. d.op = "answers" /\ d.socket = c.socket /\ d.match = c.match /\ d.mine = mine
    BY <1>2 DEF Command
  <2>. HIDE DEF d
  <2>5. Held(d, matches, status)
    BY <2>2, <2>4 DEF Held, HeldFor, mine
  <2>. QED  BY <1>1, <1>2, <2>1, <2>3, <2>4, <2>5, QuizGoOn
<1>9. CASE ReadAnswers
  <2>. DEFINE d == [c EXCEPT !.op = "questions"]
  <2>1. /\ d.op = "questions" /\ d.socket = c.socket /\ d.match = c.match /\ d.mine = c.mine
        /\ c.op = "answers" /\ GoOn(d)
    BY <1>2, <1>9 DEF Command, ReadAnswers, Reply, GoTo
  <2>. HIDE DEF d
  <2>2. c.match \in DOMAIN matches /\ Held(c, matches, status)
    BY <1>5, <2>1 DEF Writing
  <2>3. Held(d, matches, status)
    BY <2>1, <2>2 DEF Held, HeldFor
  <2>. QED  BY <1>1, <1>2, <2>1, <2>2, <2>3, QuizGoOn
<1>10. CASE ReadQuestions
  <2>1. ASSUME NEW point \in Points, c.mine.activeQuestionIndex < NumQuestions,
               GoOn([c EXCEPT !.op = "store", !.mine = Scored(c.mine, point)])
        PROVE  QuizInv'
    <3>. DEFINE mine == Scored(c.mine, point)
                d == [c EXCEPT !.op = "store", !.mine = mine]
    <3>1. GoOn(d)
      BY <2>1
    <3>. HIDE DEF mine
    <3>2. /\ d.op = "store" /\ d.socket = c.socket /\ d.match = c.match /\ d.mine = mine
          /\ c.op = "questions"
      BY <1>2, <1>10 DEF Command, ReadQuestions, Reply
    <3>. HIDE DEF d
    <3>3. c.match \in DOMAIN matches /\ Held(c, matches, status)
      BY <1>5, <3>2 DEF Writing
    <3>4. point \in {0, 1}
      BY PointsAssumption
    <3>5. Held(d, matches, status)
      BY <2>1, <3>2, <3>3, <3>4 DEF Held, HeldFor, mine
    <3>. QED  BY <1>1, <1>2, <3>1, <3>2, <3>3, <3>5, QuizGoOn
  <2>2. c.mine \in Standing /\ NumQuestions \in Nat
    BY <1>2, NumQuestionsAssumption DEF Command
  <2>3. c.mine.activeQuestionIndex >= NumQuestions \/ c.mine.activeQuestionIndex < NumQuestions
    BY <2>2 DEF Standing
  <2>. QED  BY <1>3, <1>10, <2>1, <2>3 DEF ReadQuestions
<1>11. CASE ReadStatusA
  <2>. DEFINE seen == status[c.match]["playerA"]
              e == [c EXCEPT !.op = "statusB", !.seen = seen]
  <2>2. GoOn(e)
    BY <1>11 DEF ReadStatusA
  <2>. HIDE DEF seen
  <2>3. e.op = "statusB" /\ e.socket = c.socket
    BY <1>2 DEF Command
  <2>. HIDE DEF e
  <2>. QED  BY <1>1, <1>2, <1>4, <2>2, <2>3, QuizGoOn
<1>. QED  BY <1>6, <1>7, <1>8, <1>9, <1>10, <1>11 DEF ServeAnswer

\* A store is one answer of its player in its match.
LEMMA StoreIsAnswer ==
    ASSUME SessionInv, QuizInv, StoreStatus
    PROVE  \E m \in MatchIds, p \in Players :
              /\ m = Head(pipe).match /\ matches[m][p] = Head(pipe).socket
              /\ status' = [status EXCEPT ![m] = [status[m] EXCEPT ![p] = Head(pipe).mine]]
              /\ HeldFor(Head(pipe), status[m][p])
              /\ m \in DOMAIN matches
<1>. DEFINE c == Head(pipe)
            r == RoleOf(c.socket, c.match)
<1>1. /\ pipe # <<>> /\ c.op = "store" /\ status' = [status EXCEPT ![c.match][r] = c.mine]
  BY DEF StoreStatus, Reply
<1>2. c.op \in Named /\ c.op \in Playing /\ c.op \in Writing
  BY <1>1 DEF Named, Playing, AnswerOps, Writing
<1>3. c.match \in DOMAIN matches /\ c.match \in MatchIds /\ c.socket \in PlayersOf(c.match)
  BY <1>1, <1>2, Answering
<1>4. r \in Players /\ matches[c.match][r] = c.socket
  BY <1>3, Shape, Role
<1>5. Held(c, matches, status)
  BY <1>1, <1>2, Shape, Front DEF QuizInv
<1>6. HeldFor(c, status[c.match][r])
  BY <1>4, <1>5 DEF Held
<1>7. status' = [status EXCEPT ![c.match] = [status[c.match] EXCEPT ![r] = c.mine]]
  BY <1>1
<1>. QED  BY <1>3, <1>4, <1>6, <1>7

\* It changes the status of no answer that is not its own.
LEMMA QuizStore ==
    ASSUME SessionInv, QuizInv, Next, StoreStatus
    PROVE  QuizInv'
<1>. DEFINE c == Head(pipe)
            d == [c EXCEPT !.op = "statusA"]
<1>1. pipe # <<>> /\ c.op = "store" /\ c \in Command /\ GoOn(d) /\ matches' = matches
  BY Served DEF StoreStatus, Reply, GoTo
<1>2. d.op = "statusA" /\ d.socket = c.socket
  BY <1>1 DEF Command
<1>. HIDE DEF d
<1>3. "store" \in EventOps /\ "statusA" \notin Writing
  BY DEF EventOps, AnswerOps, Writing
<1>4. Serial(pipe') /\ Behind(d)
  BY <1>1, <1>2, <1>3, SerialGoOn
<1>5. PICK m \in MatchIds, p \in Players :
         /\ m = c.match /\ matches[m][p] = c.socket
         /\ status' = [status EXCEPT ![m] = [status[m] EXCEPT ![p] = c.mine]]
  BY StoreIsAnswer
<1>6. status \in [MatchIds -> [Players -> Standing]]
  BY DEF SessionInv, TypeOK
<1>7. c = pipe[1] /\ 1 \in DOMAIN pipe
  BY <1>1, Shape, Front
<1>8. ASSUME NEW j \in DOMAIN pipe, j # 1, pipe[j].op \in Writing
      PROVE  Held(pipe[j], matches', status')
  <2>1. pipe[j].op \in Named /\ pipe[j].op \in EventOps
    BY <1>8 DEF Writing, Named, AnswerOps, EventOps
  <2>2. pipe[j].match \in MatchIds
    BY <2>1, Shape DEF SessionInv, PipeInv, Sound
  <2>3. pipe[j].socket # c.socket
    BY <1>1, <1>3, <1>7, <1>8, <2>1 DEF QuizInv, Serial
  <2>4. Held(pipe[j], matches, status)
    BY <1>8 DEF QuizInv
  <2>5. ASSUME NEW q \in Players, matches[pipe[j].match][q] = pipe[j].socket
        PROVE  status'[pipe[j].match][q] = status[pipe[j].match][q]
    <3>1. pipe[j].match # m \/ q # p
      BY <1>5, <2>3, <2>5
    <3>2. status[m] \in [Players -> Standing]
      BY <1>6
    <3>. QED  BY <1>5, <1>6, <2>2, <3>1, <3>2
  <2>. QED  BY <1>1, <2>4, <2>5 DEF Held
<1>9. ASSUME NEW k \in DOMAIN pipe', pipe'[k].op \in Writing
      PROVE  Held(pipe'[k], matches', status')
  <2>1. pipe'[k] # d
    BY <1>2, <1>3, <1>9
  <2>2. PICK j \in DOMAIN pipe : j # 1 /\ pipe'[k] = pipe[j]
    BY <1>4, <2>1 DEF Behind
  <2>. QED  BY <1>8, <1>9, <2>2
<1>. QED  BY <1>4, <1>9 DEF QuizInv

LEMMA QuizInvInit == Init => QuizInv
<1>. SUFFICES ASSUME Init PROVE QuizInv
  OBVIOUS
<1>1. DOMAIN pipe = {}
  BY EmptySeq DEF Init
<1>. QED  BY <1>1 DEF QuizInv, Serial

LEMMA QuizInvNext ==
    ASSUME OneAtATime
    PROVE  SessionInv /\ PlayInv /\ QuizInv /\ [Next]_vars => QuizInv'
<1>. SUFFICES ASSUME SessionInv, PlayInv, QuizInv, [Next]_vars PROVE QuizInv'
  OBVIOUS
<1>1. CASE UNCHANGED vars
  BY <1>1 DEF vars, QuizInv, Serial
<1>2. CASE Next
  <2>1. CASE StoreStatus
    BY <1>2, <2>1, QuizStore
  <2>2. CASE ~StoreStatus
    BY <1>2, <2>2, QuizEvents, QuizTick, QuizAnswer DEF Next, Serve
  <2>. QED  BY <2>1, <2>2
<1>. QED  BY <1>1, <1>2

LEMMA StoreIsQuizStep ==
    ASSUME SessionInv, QuizInv, StoreStatus, NEW m \in MatchIds
    PROVE  Quiz(m)!QuizNext \/ UNCHANGED status[m]
<1>. DEFINE c == Head(pipe)
<1>1. PICK x \in MatchIds, p \in Players :
         /\ status' = [status EXCEPT ![x] = [status[x] EXCEPT ![p] = c.mine]]
         /\ HeldFor(c, status[x][p])
  BY StoreIsAnswer
<1>2. c.op = "store" /\ status \in [MatchIds -> [Players -> Standing]]
  BY DEF StoreStatus, Reply, SessionInv, TypeOK
<1>3. CASE m # x
  BY <1>1, <1>2, <1>3
<1>4. CASE m = x
  <2>1. PICK point \in {0, 1} : c.mine = Scored(status[m][p], point)
    BY <1>1, <1>2, <1>4 DEF HeldFor
  <2>2. status'[m] = [status[m] EXCEPT ![p] = Scored(status[m][p], point)]
    BY <1>1, <1>2, <1>4, <2>1
  <2>3. status[m][p].activeQuestionIndex < NumQuestions
    BY <1>1, <1>2, <1>4 DEF HeldFor
  <2>4. Quiz(m)!Answer(p)
    BY <2>2, <2>3 DEF Quiz!Answer, Scored
  <2>. QED  BY <2>4 DEF Quiz!QuizNext
<1>. QED  BY <1>3, <1>4

\* Answers that land in the wrong one of two matches, overlap those of the other
\* player or come after the end are answers of the atomic quiz of that match, for
\* every number of matches and of overlapping ticks, as long as no client sends an
\* event before its previous one ended.
THEOREM MatchesAreQuizzes ==
    ASSUME OneAtATime
    PROVE  Spec => EveryMatchIsAQuiz
<1>1. SessionInv /\ PlayInv /\ QuizInv /\ [Next]_vars => SessionInv' /\ PlayInv' /\ QuizInv'
  BY SessionNext, PlayNext, QuizInvNext
<1>2. Init => SessionInv /\ PlayInv /\ QuizInv
  BY SessionInit, PlayInit, QuizInvInit
<1>3. Init => \A m \in MatchIds : Quiz(m)!QuizInit
  BY DEF Init, Unplayed, initialPlayerStatus, Quiz!QuizInit, Quiz!QuizStart
<1>4. SessionInv /\ PlayInv /\ QuizInv /\ [Next]_vars =>
         [\A m \in MatchIds : Quiz(m)!QuizNext \/ UNCHANGED status[m]]_status
  <2>. SUFFICES ASSUME SessionInv, PlayInv, QuizInv, [Next]_vars, status' # status
                PROVE  \A m \in MatchIds : Quiz(m)!QuizNext \/ UNCHANGED status[m]
    OBVIOUS
  <2>1. StoreStatus
    BY StatusKept DEF vars
  <2>. QED  BY <2>1, StoreIsQuizStep
<1>. QED  BY <1>1, <1>2, <1>3, <1>4, PTL DEF Spec, EveryMatchIsAQuiz
=============================================================================
